------------------------------- MODULE Store --------------------------------
(***************************************************************************)
(* store/mod.rs and store/writer.rs: the resident traces, the two          *)
(* interners, the generations of evicted traces and the counters, and the  *)
(* single writer task that changes them.                                   *)
(*                                                                         *)
(* The writer takes a batch from the channel, reads the clock, takes the   *)
(* write lock, inserts every span, evicts until the store is back under    *)
(* its budget, releases the lock and bumps the change sequence number.     *)
(* Each of these is a step, and so is each span and each attribute key;    *)
(* `pc` is the point the writer has reached.  The lock is held except at   *)
(* "recv" and "notify".                                                    *)
(***************************************************************************)
EXTENDS Trace, FiniteSets, FiniteSetsExt

CONSTANTS TraceIds, KeyNames, ServiceNames,
          Batches,         \* what may come out of the channel: [spans, malformed]
          NameLen,         \* length in bytes of the name in each body
          InternerCap,     \* GLOBAL_INTERNER_CAP
          MaxMemoryBytes,  \* --max-memory
          ClockSteps,      \* how far the wall clock may move between two batches
          MaxBatches       \* bound on the number of batches, for model checking

NewSpanType ==
  [trace : TraceIds, id : SpanIds, parent : Optional(SpanIds), body : Bodies,
   service : Optional(ServiceNames), attrs : Seq([key : KeyNames, value : AttrValues])]

ASSUME StoreAssumption ==
  /\ None \notin ServiceNames
  /\ Batches \subseteq [spans : Seq(NewSpanType), malformed : Nat]
  /\ NameLen \in [Bodies -> Nat]
  /\ InternerCap \in Nat
  /\ MaxMemoryBytes \in Nat
  /\ ClockSteps \subseteq Int
  /\ MaxBatches \in Nat

ASSUME NoneIsNoTrace == None \notin TraceType

ASSUME FiniteTraceIds == IsFiniteSet(TraceIds)

VARIABLES
  traces,             \* TraceId -> Trace, None when not resident
  keyInterner,
  serviceInterner,
  evictedGenerations, \* TraceId -> generation it had when evicted, or None
  counters,
  pc,                 \* where the writer is
  batch,              \* the spans of the batch still to insert
  malformed,          \* the batch's malformed_span_count
  now,                \* the writer's reading of the clock for this batch
  attrsLeft,          \* attributes of the current span still to intern
  internedAttrs,      \* those interned so far, under their ids
  serviceNameId,      \* id of the current span's service name
  seq,                \* the watch channel behind /api/events
  received,           \* history: batches taken from the channel
  active              \* history: traces the batch in hand has touched

storeVars  == <<traces, keyInterner, serviceInterner, evictedGenerations, counters>>
spanVars   == <<attrsLeft, internedAttrs, serviceNameId>>
writerVars == <<pc, batch, malformed, now, spanVars, seq, received, active>>
vars       == <<storeVars, writerVars>>

Init ==
  /\ traces = [t \in TraceIds |-> None]
  /\ keyInterner = NewInterner(KeyNames, InternerCap)
  /\ serviceInterner = NewInterner(ServiceNames, InternerCap)
  /\ evictedGenerations = [t \in TraceIds |-> None]
  /\ counters = [duplicateSpan |-> 0, attributeKeyCapHit |-> 0,
                 lateSpanAfterEviction |-> 0, evictedTraces |-> 0, malformedSpan |-> 0]
  /\ pc = "recv"
  /\ batch = <<>> /\ malformed = 0 /\ now = 0
  /\ attrsLeft = <<>> /\ internedAttrs = <<>> /\ serviceNameId = None
  /\ seq = 0
  /\ received = 0
  /\ active = {}

-----------------------------------------------------------------------------
(* `run`: take a batch, read the clock, take the write lock.  The clock is *)
(* SystemTime, so a step may be zero or negative.                          *)

Recv(b) ==
  /\ pc = "recv"
  /\ received < MaxBatches
  /\ \E d \in ClockSteps : now + d \in Nat /\ now' = now + d
  /\ batch' = b.spans
  /\ malformed' = b.malformed
  /\ received' = received + 1
  /\ pc' = "append"
  /\ UNCHANGED <<storeVars, spanVars, seq, active>>

(***************************************************************************)
(* `insert_span_no_evict` on the next span of the batch.  It interns the   *)
(* service name first; then `Trace::insert` interns the attribute keys one *)
(* by one and drops the pairs whose key is refused; then the row is        *)
(* written and the counters are brought up to date.                        *)
(***************************************************************************)
BeginSpan ==
  /\ pc = "append" /\ batch # <<>>
  /\ LET name == Head(batch).service
     IN  IF name = None
         THEN serviceNameId' = None /\ UNCHANGED serviceInterner
         ELSE /\ serviceInterner' = Intern(serviceInterner, name)
              /\ serviceNameId' = InternedId(serviceInterner, name)
  /\ attrsLeft' = Head(batch).attrs
  /\ internedAttrs' = <<>>
  /\ pc' = "attrs"
  /\ UNCHANGED <<traces, keyInterner, evictedGenerations, counters,
                 batch, malformed, now, seq, received, active>>

InternAttr ==
  /\ pc = "attrs" /\ attrsLeft # <<>>
  /\ LET a  == Head(attrsLeft)
         id == InternedId(keyInterner, a.key)
     IN  /\ keyInterner' = Intern(keyInterner, a.key)
         /\ internedAttrs' = IF id = None THEN internedAttrs
                             ELSE Append(internedAttrs, [key |-> id, value |-> a.value])
  /\ attrsLeft' = Tail(attrsLeft)
  /\ UNCHANGED <<traces, serviceInterner, evictedGenerations, counters,
                 pc, batch, malformed, now, serviceNameId, seq, received, active>>

(***************************************************************************)
(* `entry(trace_id).or_insert_with(..)`: the resident trace, or a new one  *)
(* whose generation follows the one it was evicted with.                   *)
(***************************************************************************)
Resurrected(t) == traces[t] = None /\ evictedGenerations[t] # None

(***************************************************************************)
(* Mutants of EntryOf: the evicted generation is not consulted; it is      *)
(* counted down.                                                           *)
(***************************************************************************)
EntryOfForgetful(t) == IF traces[t] # None THEN traces[t] ELSE NewTrace(now)

EntryOfCountsDown(t) ==
  IF traces[t] # None THEN traces[t]
  ELSE [NewTrace(now) EXCEPT
          !.generation = IF Resurrected(t) THEN evictedGenerations[t] - 1 ELSE 0]

EntryOf(t) ==
  IF traces[t] # None THEN traces[t]
  ELSE [NewTrace(now) EXCEPT
          !.generation = IF Resurrected(t) THEN evictedGenerations[t] + 1 ELSE 0]

\* Mutant of GenerationsAfterEntry: `get` in place of `remove`.
GenerationsAfterGet(t) == evictedGenerations

GenerationsAfterEntry(t) ==
  IF traces[t] = None THEN [evictedGenerations EXCEPT ![t] = None] ELSE evictedGenerations

InsertRow ==
  /\ pc = "attrs" /\ attrsLeft = <<>>
  /\ LET span == Head(batch)
         t    == span.trace
     IN  /\ traces' = [traces EXCEPT ![t] =
                         Insert(EntryOf(t), span, serviceNameId, internedAttrs, now)]
         /\ evictedGenerations' = GenerationsAfterEntry(t)
         /\ counters' = [counters EXCEPT
              !.duplicateSpan = IF IsDuplicate(EntryOf(t), span) THEN @ + 1 ELSE @,
              !.lateSpanAfterEviction = IF Resurrected(t) THEN @ + 1 ELSE @,
              !.attributeKeyCapHit = keyInterner.capHits]
  /\ active' = active \cup {Head(batch).trace}
  /\ batch' = Tail(batch)
  /\ internedAttrs' = <<>>
  /\ serviceNameId' = None
  /\ pc' = "append"
  /\ UNCHANGED <<keyInterner, serviceInterner, malformed, attrsLeft, seq, received>>

\* All the spans of a batch have the same time.
InsertSpan == InsertRow /\ UNCHANGED now

\* Mutant of MalformedTotal: the malformed spans are set, not added.
MalformedTotalSet == malformed

MalformedTotal == counters.malformedSpan + malformed

EndAppend ==
  /\ pc = "append" /\ batch = <<>>
  /\ counters' = [counters EXCEPT !.malformedSpan = MalformedTotal]
  /\ malformed' = 0
  /\ pc' = "evict"
  /\ UNCHANGED <<traces, keyInterner, serviceInterner, evictedGenerations,
                 batch, now, spanVars, seq, received, active>>

-----------------------------------------------------------------------------
(* `evict_over_budget`: while over budget and more than one trace is       *)
(* resident, evict one with the oldest activity.  Ties fall to the hash    *)
(* map's iteration order.                                                  *)

Resident == {t \in TraceIds : traces[t] # None}

ApproxSpanFixedBytes == 64
ApproxAttrFixedBytes == 24

ApproxBytes(t) ==
  MapThenSumSet(LAMBDA i : ApproxSpanFixedBytes + NameLen[t.body[i]]
                             + AttributeCount(t, i) * ApproxAttrFixedBytes,
                1..SpanCount(t))

TotalApproxBytes(store) ==
  MapThenSumSet(LAMBDA t : ApproxBytes(store[t]), {t \in TraceIds : store[t] # None})

\* Mutant of MustEvict: one trace too many is spared.
MustEvictSparesTwo == TotalApproxBytes(traces) > MaxMemoryBytes /\ Cardinality(Resident) > 2

MustEvict == TotalApproxBytes(traces) > MaxMemoryBytes /\ Cardinality(Resident) > 1

\* Mutants of Oldest: the newest; nothing on a tie.
OldestIsNewest ==
  {t \in Resident : \A u \in Resident : traces[t].lastActivity >= traces[u].lastActivity}

OldestStrictly ==
  {t \in Resident : \A u \in Resident \ {t} : traces[t].lastActivity < traces[u].lastActivity}

Oldest ==
  {t \in Resident : \A u \in Resident : traces[t].lastActivity <= traces[u].lastActivity}

EvictOldest(t) ==
  /\ pc = "evict" /\ MustEvict
  /\ t \in Oldest
  /\ traces' = [traces EXCEPT ![t] = None]
  /\ evictedGenerations' = [evictedGenerations EXCEPT ![t] = traces[t].generation]
  /\ counters' = [counters EXCEPT !.evictedTraces = @ + 1]
  /\ UNCHANGED <<keyInterner, serviceInterner, writerVars>>

\* Mutant of AfterRelease: a sweep that evicted leaves without announcing the batch.
AfterReleaseSilent == IF counters.evictedTraces > 0 THEN "recv" ELSE "notify"

AfterRelease == "notify"

\* drop(guard)
Release ==
  /\ pc = "evict" /\ ~MustEvict
  /\ active' = {}
  /\ pc' = AfterRelease
  /\ UNCHANGED <<storeVars, batch, malformed, now, spanVars, seq, received>>

\* seq_tx.send_modify
Notify ==
  /\ pc = "notify"
  /\ seq' = seq + 1
  /\ pc' = "recv"
  /\ UNCHANGED <<storeVars, batch, malformed, now, spanVars, received, active>>

WriterStep ==
  \/ BeginSpan \/ InternAttr \/ InsertSpan \/ EndAppend
  \/ \E t \in TraceIds : EvictOldest(t)
  \/ Release \/ Notify

Next == (\E b \in Batches : Recv(b)) \/ WriterStep

Spec == Init /\ [][Next]_vars

(***************************************************************************)
(* The writer is one task of a multi-threaded runtime and holds the lock   *)
(* over straight-line code: a step it can take is eventually taken.        *)
(* Nothing obliges a batch to arrive.                                      *)
(***************************************************************************)
FairSpec == Spec /\ WF_vars(WriterStep)

-----------------------------------------------------------------------------

LockHeld == pc \notin {"recv", "notify"}

CountersType ==
  [duplicateSpan : Nat, attributeKeyCapHit : Nat, lateSpanAfterEviction : Nat,
   evictedTraces : Nat, malformedSpan : Nat]

TypeOK ==
  /\ traces \in [TraceIds -> Optional(TraceType)]
  /\ keyInterner \in InternerType(KeyNames)
  /\ serviceInterner \in InternerType(ServiceNames)
  /\ evictedGenerations \in [TraceIds -> Optional(Nat)]
  /\ counters \in CountersType
  /\ pc \in {"recv", "append", "attrs", "evict", "notify"}
  /\ batch \in Seq(NewSpanType)
  /\ malformed \in Nat
  /\ now \in Nat
  /\ attrsLeft \in Seq([key : KeyNames, value : AttrValues])
  /\ internedAttrs \in Seq(InternedAttr)
  /\ serviceNameId \in Optional(Nat)
  /\ seq \in Nat
  /\ received \in Nat
  /\ active \in SUBSET TraceIds

(***************************************************************************)
(* The eviction books balance: every eviction counted is either a trace    *)
(* still remembered as evicted or one that came back and was counted late, *)
(* and no trace is resident and remembered as evicted at once.             *)
(***************************************************************************)
Remembered == {t \in TraceIds : evictedGenerations[t] # None}

EvictionLedger ==
  /\ Resident \cap Remembered = {}
  /\ counters.evictedTraces = counters.lateSpanAfterEviction + Cardinality(Remembered)

(***************************************************************************)
(* Once the sweep is over the store is within its budget, or a single      *)
(* trace is left: what a reader finds under the lock never exceeds it by   *)
(* more than that one trace.                                               *)
(***************************************************************************)
BudgetRestored ==
  ~LockHeld /\ TotalApproxBytes(traces) > MaxMemoryBytes => Cardinality(Resident) <= 1

(***************************************************************************)
(* While the clock advances between batches, a sweep gives up a trace the  *)
(* batch in hand has just written only when it has nothing else to evict.  *)
(***************************************************************************)
QuietEvictedFirst ==
  [][\A t \in Resident : traces'[t] = None /\ t \in active => Resident \subseteq active]_vars

(***************************************************************************)
(* Every batch taken from the channel is inserted, swept and announced:    *)
(* the eviction loop ends and the sequence number catches up.              *)
(***************************************************************************)
EveryBatchAnnounced == (seq < received) ~> (seq = received)

(***************************************************************************)
(* Each interner stays consistent, and every resident trace has consistent *)
(* columns and links: a trace is rebuilt from nothing when it comes back.  *)
(***************************************************************************)
TracesConsistent ==
  /\ InternerConsistent(keyInterner, KeyNames)
  /\ InternerConsistent(serviceInterner, ServiceNames)
  /\ \A t \in Resident :
       /\ RowsAligned(traces[t]) /\ IndexInverse(traces[t]) /\ SlicesTile(traces[t])
       /\ LinksExact(traces[t])

-----------------------------------------------------------------------------
(***************************************************************************)
(* The store read through its own accessors: ids replaced by the names the *)
(* interners give for them.                                                *)
(***************************************************************************)
Named(entry, keys, services) ==
  IF entry = None THEN None
  ELSE [parent  |-> entry.parent,
        body    |-> entry.body,
        service |-> IF entry.service = None THEN None
                    ELSE Get(services, entry.service),
        attrs   |-> [j \in 1..Len(entry.attrs) |->
                       [key   |-> Get(keys, entry.attrs[j].key),
                        value |-> entry.attrs[j].value]]]

NamedType ==
  [parent : Optional(SpanIds), body : Bodies, service : Optional(ServiceNames),
   attrs : Seq([key : KeyNames, value : AttrValues])]

ASSUME NoneIsNoSpan ==
  /\ None \notin NewSpanType
  /\ None \notin RowType
  /\ None \notin NamedType
  /\ None \notin [SpanIds -> Optional(NamedType)]

TablesOf ==
  [t \in TraceIds |->
     IF traces[t] = None THEN None
     ELSE [s \in SpanIds |-> Named(TableOf(traces[t])[s], keyInterner, serviceInterner)]]

LivesOf ==
  [t \in TraceIds |->
     IF traces[t] # None THEN traces[t].generation + 1
     ELSE IF evictedGenerations[t] # None THEN evictedGenerations[t] + 1
     ELSE 0]

NamesOf(interner) == {interner.values[i] : i \in 1..Len(interner.values)}
=============================================================================
