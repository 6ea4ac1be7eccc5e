----------------------------- MODULE SpanStore ------------------------------
(***************************************************************************)
(* What the store promises its readers, without columns, interner ids or   *)
(* generations kept for the evicted: a table of spans per resident trace,  *)
(* how often each trace has come to life, the names the store has learnt,  *)
(* and statistics.  These account for repeated, late, malformed and        *)
(* evicted spans and for the attributes dropped; a service name there was  *)
(* no room for is missing from its span and is in no statistic.            *)
(***************************************************************************)
EXTENDS Naturals, Sequences, FiniteSets

CONSTANTS TraceIds, SpanIds, Batches, Cap, None

VARIABLES
  tables,     \* TraceId -> SpanId -> span, None for a trace that is not resident
  lives,      \* TraceId -> how often the trace has come to life
  keys,       \* attribute keys learnt, at most Cap
  services,   \* service names learnt, at most Cap
  stats,
  input       \* the span being stored, None between two spans

vars == <<tables, lives, keys, services, stats, input>>

Init ==
  /\ tables = [t \in TraceIds |-> None]
  /\ lives = [t \in TraceIds |-> 0]
  /\ keys = {}
  /\ services = {}
  /\ stats = [duplicateSpan |-> 0, attributeKeyCapHit |-> 0,
              lateSpanAfterEviction |-> 0, evictedTraces |-> 0, malformedSpan |-> 0]
  /\ input = None

Learn(known, name) == IF Cardinality(known) < Cap THEN known \cup {name} ELSE known

\* A span of some batch is taken up; its service name is learnt if there is room.
Begin(span) ==
  /\ input = None
  /\ input' = span
  /\ services' = IF span.service = None THEN services ELSE Learn(services, span.service)
  /\ UNCHANGED <<tables, lives, keys, stats>>

LearnKey(j) ==
  /\ input # None
  /\ j \in 1..Len(input.attrs)
  /\ keys' = Learn(keys, input.attrs[j].key)
  /\ UNCHANGED <<tables, lives, services, stats, input>>

\* The attributes whose key is known, in the order they came, after each of them.
KeptSoFar(attrs, known) ==
  LET kept[i \in 0..Len(attrs)] ==
        IF i = 0 THEN <<>>
        ELSE IF attrs[i].key \in known THEN Append(kept[i - 1], attrs[i])
        ELSE kept[i - 1]
  IN  kept

Kept(attrs) == KeptSoFar(attrs, keys)[Len(attrs)]

EmptyTable == [s \in SpanIds |-> None]

\* The span lands in its trace, whole but for the names there was no room for: each attribute
\* left out for that reason is counted, the service name is not.
Put ==
  LET t      == input.trace
      fresh  == tables[t] = None
      before == IF fresh THEN EmptyTable ELSE tables[t]
      known  == before[input.id]
      entry  == [parent  |-> IF known = None THEN input.parent ELSE known.parent,
                 body    |-> input.body,
                 service |-> IF input.service \in services THEN input.service ELSE None,
                 attrs   |-> Kept(input.attrs)]
  IN  /\ input # None
      /\ \A j \in 1..Len(input.attrs) :
            input.attrs[j].key \in keys \/ Cardinality(keys) = Cap
      /\ tables' = [tables EXCEPT ![t] = [before EXCEPT ![input.id] = entry]]
      /\ lives' = [lives EXCEPT ![t] = IF fresh THEN @ + 1 ELSE @]
      /\ stats' = [stats EXCEPT
           !.duplicateSpan = IF known = None THEN @ ELSE @ + 1,
           !.lateSpanAfterEviction = IF fresh /\ lives[t] > 0 THEN @ + 1 ELSE @,
           !.attributeKeyCapHit = @ + Len(input.attrs) - Len(Kept(input.attrs))]
      /\ input' = None
      /\ UNCHANGED <<keys, services>>

\* A trace is dropped, never the last one.
Forget(t) ==
  /\ input = None
  /\ tables[t] # None
  /\ \E u \in TraceIds \ {t} : tables[u] # None
  /\ tables' = [tables EXCEPT ![t] = None]
  /\ stats' = [stats EXCEPT !.evictedTraces = @ + 1]
  /\ UNCHANGED <<lives, keys, services, input>>

CountMalformed(b) ==
  /\ stats' = [stats EXCEPT !.malformedSpan = @ + b.malformed]
  /\ UNCHANGED <<tables, lives, keys, services, input>>

Next ==
  \/ \E b \in Batches : \E i \in 1..Len(b.spans) : Begin(b.spans[i])
  \/ \E b \in Batches : CountMalformed(b)
  \/ input # None /\ \E j \in 1..Len(input.attrs) : LearnKey(j)
  \/ Put
  \/ \E t \in TraceIds : Forget(t)

Spec == Init /\ [][Next]_vars
=============================================================================
