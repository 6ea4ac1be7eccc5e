------------------------------- MODULE Query --------------------------------
(***************************************************************************)
(* `parse_query` and the first half of `parse_term` of api/filter.rs: each *)
(* token of a query is told apart as KEY OP VALUE, as a text to search     *)
(* for, or as malformed and reported back.  What a key makes of its value, *)
(* and what a term matches, is in Filter.                                  *)
(***************************************************************************)
EXTENDS Tokenize

CONSTANTS
  KeyStarts,   \* the letters `is_key_start` accepts
  KeyChars     \* the letters `is_key_char` accepts

ASSUME QueryAssumption ==
  /\ KeyChars \cap {"=", "<", ">", "!", "~"} = {}
  /\ KeyStarts \subseteq KeyChars
  /\ KeyChars \subseteq Letters

VARIABLES
  parsed,   \* tokens gone through
  terms,    \* what is returned: the terms
  dropped   \* and the texts that are none

queryVars == <<vars, parsed, terms, dropped>>

QueryInit == Init /\ parsed = 0 /\ terms = <<>> /\ dropped = <<>>

-----------------------------------------------------------------------------

\* Mutant of OPS: the short operators are tried first.
OPSShortFirst == << <<"=">>, <<">">>, <<"<">>, <<">", "=">>, <<"<", "=">>, <<"!", "=">> >>

OPS == << <<">", "=">>, <<"<", "=">>, <<"!", "=">>, <<"=">>, <<">">>, <<"<">> >>

\* The length of the key a text begins with, 0 when it begins with none.
KeyLen(text) ==
  IF text[1] \notin KeyStarts THEN 0
  ELSE CHOOSE n \in 1..Len(text) :
         /\ \A i \in 1..n : text[i] \in KeyChars
         /\ n < Len(text) => text[n + 1] \notin KeyChars

Substring(text) == [kind |-> "substring", text |-> text]

Malformed == [kind |-> "malformed"]

ParseTerm(text, quoted) ==
  LET n    == KeyLen(text)
      rest == SubSeq(text, n + 1, Len(text))
      k    == SelectInSeq(OPS, LAMBDA op : IsPrefix(op, rest))
  IN  IF quoted \/ n = 0 \/ rest = <<>> THEN Substring(text)
      ELSE IF k = 0 THEN IF rest[1] \in {"!", "~"} THEN Malformed ELSE Substring(text)
      ELSE [kind |-> "keyed", key |-> SubSeq(text, 1, n), op |-> OPS[k],
            value |-> SubSeq(rest, Len(OPS[k]) + 1, Len(rest))]

\* One turn of the loop in `parse_query`.
ParseToken ==
  /\ done /\ parsed < Len(tokens)
  /\ LET token == tokens[parsed + 1]
         term  == ParseTerm(token.text, token.startsQuoted)
     IN  IF token.unterminated \/ term = Malformed
         THEN dropped' = Append(dropped, token.text) /\ UNCHANGED terms
         ELSE terms' = Append(terms, term) /\ UNCHANGED dropped
  /\ parsed' = parsed + 1
  /\ UNCHANGED vars

ReadChar == Next /\ UNCHANGED <<parsed, terms, dropped>>

QuerySpec == QueryInit /\ [][ReadChar \/ ParseToken]_queryVars

-----------------------------------------------------------------------------
(* The grammar in the comment on `get_filter`, as a relation.              *)

IsKey(text) ==
  text # <<>> /\ text[1] \in KeyStarts /\ \A i \in 1..Len(text) : text[i] \in KeyChars

\* The ways to read a text as KEY OP VALUE.
Readings(text) ==
  LET Cut(i, j) == [kind |-> "keyed", key |-> SubSeq(text, 1, i), op |-> SubSeq(text, i + 1, j),
                    value |-> SubSeq(text, j + 1, Len(text))]
  IN  {r \in {Cut(i, j) : i, j \in 1..Len(text)} : IsKey(r.key) /\ r.op \in Range(OPS)}

\* A key and then a glyph of an operator that is none.
Attempted(text) ==
  /\ Readings(text) = {}
  /\ \E i \in 2..Len(text) : IsKey(SubSeq(text, 1, i - 1)) /\ text[i] \in {"!", "~"}

IsReported(token) == token.unterminated \/ (~token.startsQuoted /\ Attempted(token.text))

IsTermOf(term, token) ==
  IF token.startsQuoted \/ Readings(token.text) = {} THEN term = Substring(token.text)
  ELSE /\ term \in Readings(token.text)
       /\ \A r \in Readings(token.text) : Len(r.op) <= Len(term.op)

(***************************************************************************)
(* A query is read by the grammar, whatever its quotes and operators: the  *)
(* tokens that were never closed or have a key and no operator after it    *)
(* are reported and cost the others nothing; each of those is, in order,   *)
(* KEY OP VALUE with the longest operator that fits, and a text to search  *)
(* for when it cannot be read so or its first character is a quote.        *)
(*                                                                         *)
(* Queries with a term of nothing but quotes are left out.  The code gives *)
(* them no token: an opening quote at the end goes unreported, and empty   *)
(* quotes leave starts_quoted set for the term after them, so `"" a=b`     *)
(* searches for the text.  The comments on get_filter and on tokenize say  *)
(* otherwise.                                                              *)
(***************************************************************************)
TermsByGrammar ==
  done /\ parsed = Len(tokens) /\ ~BlankTerm =>
    LET read     == [k \in 1..Len(tokens) |->
                       [tokens[k] EXCEPT !.startsQuoted = (q[from[k]] = Quote)]]
        reported == SelectSeq(read, IsReported)
        kept     == SelectSeq(read, LAMBDA token : ~IsReported(token))
    IN  /\ dropped = [k \in 1..Len(reported) |-> reported[k].text]
        /\ Len(terms) = Len(kept)
        /\ \A k \in 1..Len(kept) : IsTermOf(terms[k], kept[k])
=============================================================================
