------------------------------- MODULE Filter -------------------------------
(***************************************************************************)
(* api/filter.rs after the tokenizer: tokens become terms, and the rows of *)
(* a trace that every term matches are the answer.  The handler works      *)
(* under the read lock, so an answer is a value of the store's state; what *)
(* is checked is how answers relate to what was ingested, and how they     *)
(* change while the writer goes on.                                        *)
(*                                                                         *)
(* A token comes with its split into key, operator and raw value.  What    *)
(* std's parsers make of a raw value, and which printed texts contain      *)
(* which, are tables.  An f64 is a number of halves (1/Scale); integers    *)
(* beyond Exact (2^53 in the code) are rounded to the nearest even one.    *)
(***************************************************************************)
EXTENDS Store, SequencesExt

CONSTANTS
  Texts,        \* the texts of tokens
  RawValues,    \* the texts after an operator
  Tokens,       \* what tokenize may yield
  ParseI64,     \* raw value -> i64, None when it does not parse
  ParseReal,    \* raw value -> the number it denotes, in 1/Scale, None when it is none
  DurationNum,  \* raw value without its unit -> u64, None when it does not parse
  DurationUnit, \* raw value -> nanoseconds in its unit
  ContainedIn,  \* text -> names and attribute values whose printed form contains it
  StartNanos, EndNanos, StatusCodeOf,   \* columns in each body
  Exact, MaxU64

Scale == 2

Ops == {"=", "!=", ">", ">=", "<", "<="}

\* op is "unknown" after ! and ~, and None for a bareword.
TokenType ==
  [text : Texts, key : KeyNames \cup {"service", "status", "duration"},
   op : Optional(Ops \cup {"unknown"}), value : RawValues,
   unterminated : BOOLEAN, startsQuoted : BOOLEAN]

ASSUME FilterAssumption ==
  /\ Tokens \subseteq TokenType
  /\ ParseI64 \in [RawValues -> Optional(Int)]
  /\ ParseReal \in [RawValues -> Optional(Int)]
  /\ DurationNum \in [RawValues -> Optional(0..MaxU64)]
  /\ DurationUnit \in [RawValues -> Nat]
  /\ ContainedIn \in [Texts -> SUBSET (Bodies \cup AttrValues)]
  /\ {StartNanos, EndNanos} \subseteq [Bodies -> 0..MaxU64]
  /\ StatusCodeOf \in [Bodies -> Int]
  /\ None \notin Int /\ Exact \in Nat /\ Exact % 2 = 0 /\ MaxU64 \in Nat
  /\ \A a \in AttrValues : "int" \in DOMAIN a => a.int \in -(2 * Exact)..(2 * Exact)
  /\ \A a \in AttrValues : "double" \in DOMAIN a => a.double \in -(Scale * Exact)..(Scale * Exact)
  /\ \A raw \in RawValues :
       ParseReal[raw] # None => \/ ParseReal[raw] \in -(Scale * Exact)..(Scale * Exact)
                               \/ \E i \in -(2 * Exact)..(2 * Exact) : ParseReal[raw] = Scale * i

-----------------------------------------------------------------------------
(* parse_term and parse_query.                                             *)

\* checked_mul
ParseDuration(raw) ==
  IF DurationNum[raw] = None THEN None
  ELSE LET nanos == DurationNum[raw] * DurationUnit[raw]
       IN  IF nanos > MaxU64 THEN None ELSE nanos

StatusWords == [unset |-> 0, ok |-> 1, error |-> 2]

IsSubstring(token) == token.startsQuoted \/ token.op = None

\* Neither a substring nor malformed, by the match on the key.
IsTerm(token) ==
  /\ token.op # "unknown"
  /\ token.key \in {"service", "status"} => token.op \in {"=", "!="}
  /\ token.key = "status" => token.value \in DOMAIN StatusWords
  /\ token.key = "duration" => ParseDuration(token.value) # None

IsDropped(token) == token.unterminated \/ ~(IsSubstring(token) \/ IsTerm(token))

-----------------------------------------------------------------------------
(* Term::matches.                                                          *)

Cmp(op, got, want) ==
  CASE op = "="  -> got = want [] op = "!=" -> got # want
    [] op = ">"  -> got > want [] op = ">=" -> got >= want
    [] op = "<"  -> got < want [] op = "<=" -> got <= want

\* `as f64`, and what parsing an f64 does to a number that has no exact one.
Rounded(x) ==
  IF x \in -(Scale * Exact)..(Scale * Exact) \/ x % (2 * Scale) = 0 THEN x
  ELSE IF (x - Scale) % (4 * Scale) = 0 THEN x - Scale ELSE x + Scale

ParseF64(raw) == IF ParseReal[raw] = None THEN None ELSE Rounded(ParseReal[raw])

IsNumber(attr) == DOMAIN attr \in {{"int"}, {"double"}}

ExactNumber(attr) == IF "int" \in DOMAIN attr THEN Scale * attr.int ELSE attr.double

\* Mutant of AsF64: only the value asked for has been through f64.
AsF64Exact(attr) == ExactNumber(attr)

AsF64(attr) == Rounded(ExactNumber(attr))

AttrEq(attr, raw) ==
  \/ DOMAIN attr = {"str"}    /\ attr.str = raw
  \/ DOMAIN attr = {"int"}    /\ ParseI64[raw] = attr.int
  \/ DOMAIN attr = {"double"} /\ ParseF64(raw) = attr.double
  \/ DOMAIN attr = {"bool"}   /\ raw = (IF attr.bool THEN "true" ELSE "false")

AttrMatches(op, attr, raw) ==
  CASE op = "="  -> AttrEq(attr, raw)
    [] op = "!=" -> ~AttrEq(attr, raw)
    [] OTHER     -> /\ IsNumber(attr) /\ ParseF64(raw) # None
                    /\ Cmp(op, AsF64(attr), ParseF64(raw))

\* A span without the service or the key asked about.
MatchesAbsent(token) == token.op = "!="

MatchesService(token, trace, i) ==
  LET id == trace.serviceNameId[i]
  IN  IF id = None THEN MatchesAbsent(token)
      ELSE (Get(serviceInterner, id) = token.value) = (token.op = "=")

MatchesStatus(token, trace, i) ==
  Cmp(token.op, StatusCodeOf[trace.body[i]], StatusWords[token.value])

\* checked_sub: a span that ends before it starts has no duration.
MatchesDuration(token, trace, i) ==
  LET b == trace.body[i]
  IN  EndNanos[b] >= StartNanos[b] /\ Cmp(token.op, EndNanos[b] - StartNanos[b], ParseDuration(token.value))

MatchesAttr(token, trace, i) ==
  LET keyId  == Lookup(keyInterner, token.key)
      values == {a.value : a \in {x \in Range(Attributes(trace, i)) : x.key = keyId}}
  IN  /\ keyId # None
      /\ IF values = {} THEN MatchesAbsent(token)
         ELSE \E v \in values : AttrMatches(token.op, v, token.value)

MatchesSubstring(token, trace, i) ==
  \/ trace.body[i] \in ContainedIn[token.text]
  \/ \E a \in Range(Attributes(trace, i)) : a.value \in ContainedIn[token.text]

Matches(token, trace, i) ==
  IF IsSubstring(token) THEN MatchesSubstring(token, trace, i)
  ELSE CASE token.key = "service"  -> MatchesService(token, trace, i)
         [] token.key = "status"   -> MatchesStatus(token, trace, i)
         [] token.key = "duration" -> MatchesDuration(token, trace, i)
         [] OTHER                  -> MatchesAttr(token, trace, i)

GetFilter(trace, query) ==
  LET terms == {token \in Range(query) : ~IsDropped(token)}
  IN  [indices      |-> {i \in 1..SpanCount(trace) :
                           \A token \in terms : Matches(token, trace, i)},
       droppedTerms |-> SelectSeq(query, IsDropped)]

-----------------------------------------------------------------------------
(* What an answer says of the spans as they were sent, by name.            *)

\* The traces a reader can get at: none while the writer holds the lock.
Readable == IF LockHeld THEN {} ELSE Resident

Rows(trace, token) == GetFilter(trace, <<token>>).indices

IsAttrToken(token) == token.key \in KeyNames /\ ~IsSubstring(token) /\ ~IsDropped(token)

IsDurationToken(token) == token.key = "duration" /\ ~IsSubstring(token) /\ ~IsDropped(token)

\* The values a row carries under a key.
Carried(trace, i, key) ==
  {a.value : a \in {x \in Range(Attributes(trace, i)) : Get(keyInterner, x.key) = key}}

(***************************************************************************)
(* An answer is about its trace alone: what other batches bring, and what  *)
(* they evict, changes no answer about a trace that has stayed as it is.   *)
(* There is one exception.  `key!=value` gives no row while no span the    *)
(* store ever took in had the key, and every row once some other trace     *)
(* has brought it.  It rests on ids never being given to another name.     *)
(***************************************************************************)
NewlyKnown(key) == Lookup(keyInterner, key) = None /\ Lookup(keyInterner, key)' # None

AnswerStable ==
  [][\A t \in Resident, token \in Tokens :
       traces[t]' = traces[t] =>
         \/ Rows(traces[t], token)' = Rows(traces[t], token)
         \/ /\ IsAttrToken(token) /\ token.op = "!=" /\ NewlyKnown(token.key)
            /\ Rows(traces[t], token) = {}
            /\ Rows(traces[t], token)' = 1..SpanCount(traces[t])]_vars

(***************************************************************************)
(* The ordering operators compare in f64 whatever the attribute's type,    *)
(* and durations in u64 whatever their unit.  Rounding costs no more than  *)
(* strictness: > and < only ever give rows with a value that is truly      *)
(* greater or smaller, and >= and <= miss none.  A duration too large for  *)
(* u64 is dropped and never wrapped.                                       *)
(***************************************************************************)
Numbers(trace, i, key) ==
  IF key = "duration"
  THEN LET b == trace.body[i] IN {EndNanos[b] - StartNanos[b]} \cap Nat
  ELSE {ExactNumber(v) : v \in {w \in Carried(trace, i, key) : IsNumber(w)}}

Asked(token) ==
  IF token.key = "duration" THEN DurationNum[token.value] * DurationUnit[token.value]
  ELSE ParseReal[token.value]

OrderingSound ==
  \A t \in Readable : \A token \in {x \in Tokens : IsAttrToken(x) \/ IsDurationToken(x)} :
    LET rows       == Rows(traces[t], token)
        numbers(i) == Numbers(traces[t], i, token.key)
        want       == Asked(token)
        known      == token.key = "duration"
                        \/ (Lookup(keyInterner, token.key) # None /\ want # None)
    IN  known => \A i \in 1..SpanCount(traces[t]) :
          /\ token.op = ">" /\ i \in rows => \E x \in numbers(i) : x > want
          /\ token.op = "<" /\ i \in rows => \E x \in numbers(i) : x < want
          /\ token.op = ">=" /\ (\E x \in numbers(i) : x >= want) => i \in rows
          /\ token.op = "<=" /\ (\E x \in numbers(i) : x <= want) => i \in rows
=============================================================================
