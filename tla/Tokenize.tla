------------------------------ MODULE Tokenize ------------------------------
(***************************************************************************)
(* `tokenize` of api/filter.rs: a query is cut at the whitespace outside   *)
(* quotes.  One step is one turn of the loop over the characters, whose    *)
(* state carries over from one token to the next.                          *)
(*                                                                         *)
(* Only the kind of a character matters: a quote, a backslash, whitespace, *)
(* or one of Letters, which stand for all others.                          *)
(***************************************************************************)
EXTENDS Integers, Sequences, FiniteSets, SequencesExt

CONSTANTS Letters, MaxLen   \* MaxLen bounds the length of a query, for model checking

Quote     == "quote"
Backslash == "backslash"
Space     == "space"

ASSUME TokenizeAssumption ==
  /\ Letters \cap {Quote, Backslash, Space} = {}
  /\ MaxLen \in Nat

Chars == Letters \cup {Quote, Backslash, Space}

VARIABLES
  q,            \* the query
  next,         \* the position of the next character
  cur,          \* the token being read, without its quotes
  inQuotes,
  startsQuoted,
  tokens,       \* what is returned: text, unterminated, starts_quoted
  done,
  from          \* history: where each token, the one being read last, began

vars == <<q, next, cur, inQuotes, startsQuoted, tokens, done, from>>

Init ==
  /\ q \in SeqOf(Chars, MaxLen)
  /\ next = 1 /\ cur = <<>> /\ inQuotes = FALSE /\ startsQuoted = FALSE
  /\ tokens = <<>> /\ done = FALSE
  /\ from = <<1>>

More == ~done /\ next <= Len(q)

AtEscape ==
  /\ inQuotes /\ q[next] = Backslash
  /\ next < Len(q) /\ q[next + 1] = Quote

\* Mutant of AfterEscape: the quote is read again.
AfterEscapeAgain == next + 1

\* `chars.next()` passes over the quote as well.
AfterEscape == next + 2

Escaped ==
  /\ More /\ AtEscape
  /\ cur' = Append(cur, Quote)
  /\ next' = AfterEscape
  /\ UNCHANGED <<q, inQuotes, startsQuoted, tokens, done, from>>

ReadQuote ==
  /\ More /\ q[next] = Quote
  /\ startsQuoted' = (startsQuoted \/ (cur = <<>> /\ ~inQuotes))
  /\ inQuotes' = ~inQuotes
  /\ next' = next + 1
  /\ UNCHANGED <<q, cur, tokens, done, from>>

Token(unterminated) ==
  [text |-> cur, unterminated |-> unterminated, startsQuoted |-> startsQuoted]

ReadSpace ==
  /\ More /\ q[next] = Space /\ ~inQuotes
  /\ next' = next + 1
  /\ IF cur = <<>>
     THEN /\ from' = [from EXCEPT ![Len(from)] = next + 1]
          /\ UNCHANGED <<cur, tokens>>
     ELSE /\ tokens' = Append(tokens, Token(FALSE))
          /\ cur' = <<>>
          /\ from' = Append(from, next + 1)
  /\ startsQuoted' = (cur = <<>> /\ startsQuoted)
  /\ UNCHANGED <<q, inQuotes, done>>

ReadOther ==
  /\ More /\ ~AtEscape
  /\ q[next] # Quote
  /\ q[next] = Space => inQuotes
  /\ cur' = Append(cur, q[next])
  /\ next' = next + 1
  /\ UNCHANGED <<q, inQuotes, startsQuoted, tokens, done, from>>

Finish ==
  /\ ~done /\ next > Len(q)
  /\ tokens' = IF cur = <<>> THEN tokens ELSE Append(tokens, Token(inQuotes))
  /\ done' = TRUE
  /\ UNCHANGED <<q, next, cur, inQuotes, startsQuoted, from>>

Next == Escaped \/ ReadQuote \/ ReadSpace \/ ReadOther \/ Finish

Spec == Init /\ [][Next]_vars

-----------------------------------------------------------------------------

(***************************************************************************)
(* The grammar of the specification read directly off the query: which     *)
(* characters are escaped quotes, which quotes open or close, and which    *)
(* whitespace separates terms.                                             *)
(***************************************************************************)
QuotedUpTo[i \in 0..MaxLen] ==
  IF i = 0 THEN FALSE
  ELSE IF q[i] # Quote THEN QuotedUpTo[i - 1]
  ELSE IF i > 1 /\ q[i - 1] = Backslash /\ QuotedUpTo[i - 1] THEN TRUE
  ELSE ~QuotedUpTo[i - 1]

EscapedQuote(i)  == i > 1 /\ q[i] = Quote /\ q[i - 1] = Backslash /\ QuotedUpTo[i - 1]
EscapingSlash(i) == i < Len(q) /\ EscapedQuote(i + 1)
Delimiter(i)     == q[i] = Quote /\ ~EscapedQuote(i)
Separator(i)     == q[i] = Space /\ ~QuotedUpTo[i - 1]

\* The positions of what the user typed, without delimiters, escapes and separators.
Content ==
  LET keep == {i \in 1..Len(q) : ~Delimiter(i) /\ ~EscapingSlash(i) /\ ~Separator(i)}
  IN  [k \in 1..Cardinality(keep) |->
         CHOOSE i \in keep : Cardinality({j \in keep : j < i}) = k - 1]

\* After how many characters of the content a new term begins.
Cuts ==
  {k \in 1..(Len(Content) - 1) : \E i \in Content[k]..Content[k + 1] : Separator(i)}

Text == FlattenSeq([k \in 1..Len(tokens) |-> tokens[k].text])

TextCuts ==
  {Len(FlattenSeq([k \in 1..n |-> tokens[k].text])) : n \in 1..(Len(tokens) - 1)}

(***************************************************************************)
(* Nothing typed is lost, added, reordered or cut in the wrong place: the  *)
(* texts of the tokens, one after the other, are the content of the query, *)
(* cut where unquoted whitespace separates it; no token is empty, and the  *)
(* last one, and no other, is unterminated when its quote is never closed. *)
(***************************************************************************)
ContentKept ==
  done =>
    /\ Text = [k \in 1..Len(Content) |-> q[Content[k]]]
    /\ TextCuts = Cuts
    /\ \A k \in 1..Len(tokens) :
         /\ tokens[k].text # <<>>
         /\ tokens[k].unterminated <=>
              /\ k = Len(tokens) /\ QuotedUpTo[Len(q)]
              /\ \A i \in Content[Len(Content)]..Len(q) : ~Separator(i)

\* A term of quotes with nothing in them, closed or not.
BlankTerm ==
  \E i \in 1..Len(q) : \E j \in i..Len(q) :
    /\ i = 1 \/ Separator(i - 1)
    /\ \A k \in i..j : Delimiter(k)
    /\ j = Len(q) \/ Separator(j + 1)
=============================================================================
