---------------------------- MODULE StoreProofs -----------------------------
(***************************************************************************)
(* The invariants of Store hold for every set of traces, spans, keys and   *)
(* batches, every budget and every interner cap.                           *)
(*                                                                         *)
(* IInv adds to the properties checked by TLC the control state that the   *)
(* writer's two nested loops rely on: while the attribute keys of a span   *)
(* are being interned, that span is still at the head of the batch.        *)
(***************************************************************************)
EXTENDS Store, TraceProofs, FiniteSetTheorems, WellFoundedInduction

SpanInHand == pc = "attrs" => batch # <<>>

IInv == TypeOK /\ TracesConsistent /\ EvictionLedger /\ SpanInHand

TraceAttr == [key : KeyNames, value : AttrValues]

(***************************************************************************)
(* `min_by_key` finds a smallest key.                                      *)
(***************************************************************************)
LEMMA EarliestExists ==
  ASSUME NEW S, NEW f \in [S -> Nat], S # {}
  PROVE  \E x \in S : \A y \in S : f[x] <= f[y]
<1> DEFINE T == {f[x] : x \in S}
<1>1. T \subseteq Nat /\ T # {}
  OBVIOUS
<1>2. \E m \in T : \A n \in T : ~(<<n, m>> \in OpToRel(<, Nat))
  <2> HIDE DEF T
  <2> QED BY <1>1, NatLessThanWellFounded, WFMin
<1>3. PICK m \in T : \A n \in T : ~(<<n, m>> \in OpToRel(<, Nat))
  BY <1>2
<1>4. \A n \in T : ~(n < m)
  BY <1>1, <1>3 DEF OpToRel
<1>5. PICK x \in S : f[x] = m
  BY <1>3
<1> QED BY <1>4, <1>5

(***************************************************************************)
(* The head of a non-empty batch is a well-typed span.                     *)
(***************************************************************************)
LEMMA HeadOfBatch ==
  ASSUME batch \in Seq(NewSpanType), batch # <<>>
  PROVE  /\ Head(batch).trace \in TraceIds /\ SpanOK(Head(batch))
         /\ Head(batch).service \in Optional(ServiceNames)
         /\ Head(batch).attrs \in Seq(TraceAttr)
         /\ Tail(batch) \in Seq(NewSpanType)
<1>1. Head(batch) \in NewSpanType /\ Tail(batch) \in Seq(NewSpanType)
  OBVIOUS
<1> QED BY <1>1 DEF NewSpanType, SpanOK, TraceAttr

(***************************************************************************)
(* A trace with another generation is as consistent as it was.             *)
(***************************************************************************)
LEMMA NewLifeInv ==
  ASSUME NEW time \in Nat, NEW g \in Nat
  PROVE  /\ TraceInv([NewTrace(time) EXCEPT !.generation = g])
         /\ [NewTrace(time) EXCEPT !.generation = g].generation = g
<1> DEFINE t == NewTrace(time)
           u == [t EXCEPT !.generation = g]
<1>1. t \in TraceType /\ RowsAligned(t) /\ IndexInverse(t) /\ SlicesTile(t) /\ LinksExact(t)
  BY NewTraceInv DEF TraceInv
<1> HIDE DEF t
<1>2. /\ u \in TraceType /\ u.generation = g
      /\ u.spanIds = t.spanIds /\ u.body = t.body /\ u.serviceNameId = t.serviceNameId
      /\ u.parentIdx = t.parentIdx /\ u.orphan = t.orphan
      /\ u.attrKeys = t.attrKeys /\ u.attrValues = t.attrValues
      /\ u.attrOffsets = t.attrOffsets /\ u.spanIndex = t.spanIndex
      /\ u.pendingChildren = t.pendingChildren
  BY <1>1 DEF TraceType
<1> HIDE DEF u
<1>3. SpanCount(u) = SpanCount(t)
  BY <1>2 DEF SpanCount
<1>4. RowsAligned(u) /\ IndexInverse(u) /\ SlicesTile(u)
  BY <1>1, <1>2, <1>3 DEF RowsAligned, IndexInverse, SlicesTile
<1>5. LinksExact(u)
  <2>1. /\ u.orphan = t.orphan /\ u.parentIdx = t.parentIdx
        /\ u.spanIndex = t.spanIndex /\ u.pendingChildren = t.pendingChildren
    BY <1>2
  <2>2. LinksExact(t)
    BY <1>1
  <2> QED BY ONLY <2>1, <2>2, <1>3 DEF LinksExact
<1> QED BY <1>2, <1>4, <1>5 DEF TraceInv, t, u

(***************************************************************************)
(* `entry(..).or_insert_with(..)`: the trace a span goes to is consistent. *)
(***************************************************************************)
LEMMA EntryInv ==
  ASSUME TypeOK, TracesConsistent, NEW t \in TraceIds
  PROVE  TraceInv(EntryOf(t))
<1>1. /\ traces[t] \in Optional(TraceType) /\ now \in Nat
      /\ evictedGenerations[t] \in Optional(Nat)
  BY DEF TypeOK
<1>2. CASE traces[t] # None
  <2>1. t \in Resident /\ EntryOf(t) = traces[t] /\ traces[t] \in TraceType
    BY <1>1, <1>2 DEF Resident, EntryOf, Optional
  <2> QED BY <2>1 DEF TracesConsistent, TraceInv
<1>3. CASE traces[t] = None
  <2> DEFINE g == IF Resurrected(t) THEN evictedGenerations[t] + 1 ELSE 0
  <2>1. g \in Nat
    BY <1>1 DEF Resurrected, Optional
  <2>2. EntryOf(t) = [NewTrace(now) EXCEPT !.generation = g]
    BY <1>3 DEF EntryOf
  <2> HIDE DEF g
  <2> QED BY <2>1, <2>2, <1>1, NewLifeInv
<1> QED BY <1>2, <1>3

(***************************************************************************)
(* The initial state.                                                      *)
(***************************************************************************)
LEMMA InitInv == Init => IInv
<1> SUFFICES ASSUME Init PROVE IInv
  OBVIOUS
<1>1. /\ keyInterner \in InternerType(KeyNames)
      /\ InternerConsistent(keyInterner, KeyNames)
      /\ serviceInterner \in InternerType(ServiceNames)
      /\ InternerConsistent(serviceInterner, ServiceNames)
  BY StoreAssumption, NewInternerInv DEF Init
<1>2. Resident = {} /\ Remembered = {}
  BY DEF Init, Resident, Remembered
<1>3. TypeOK
  <2>1. /\ traces \in [TraceIds -> Optional(TraceType)]
        /\ evictedGenerations \in [TraceIds -> Optional(Nat)]
    BY DEF Init, Optional
  <2>2. counters \in CountersType
    BY DEF Init, CountersType
  <2>3. /\ batch = <<>> /\ attrsLeft = <<>> /\ internedAttrs = <<>>
        /\ serviceNameId \in Optional(Nat) /\ active \in SUBSET TraceIds
        /\ malformed \in Nat /\ now \in Nat /\ seq \in Nat /\ received \in Nat
        /\ pc = "recv"
    BY DEF Init, Optional
  <2> QED BY <2>1, <2>2, <2>3, <1>1 DEF TypeOK
<1>4. TracesConsistent
  BY <1>1, <1>2 DEF TracesConsistent
<1>5. EvictionLedger
  <2>1. counters.evictedTraces = 0 /\ counters.lateSpanAfterEviction = 0
    BY DEF Init
  <2> QED BY <2>1, <1>2, FS_EmptySet DEF EvictionLedger
<1> QED BY <1>3, <1>4, <1>5 DEF IInv, SpanInHand, Init

(***************************************************************************)
(* A step that leaves the store alone keeps what is said of it.            *)
(***************************************************************************)
LEMMA StoreUntouched ==
  ASSUME TracesConsistent, EvictionLedger, UNCHANGED storeVars
  PROVE  TracesConsistent' /\ EvictionLedger'
BY DEF storeVars, TracesConsistent, EvictionLedger, Resident, Remembered

(***************************************************************************)
(* `rx.recv`: a batch of the channel is taken.                             *)
(***************************************************************************)
LEMMA RecvInv == ASSUME IInv, NEW b \in Batches, Recv(b) PROVE IInv'
<1>1. b.spans \in Seq(NewSpanType) /\ b.malformed \in Nat
  BY StoreAssumption
<1>2. TypeOK'
  BY <1>1 DEF IInv, TypeOK, Recv, storeVars, spanVars
<1>3. TracesConsistent' /\ EvictionLedger'
  BY StoreUntouched DEF IInv, Recv
<1> QED BY <1>2, <1>3 DEF IInv, SpanInHand, Recv

(***************************************************************************)
(* The service name is interned.                                           *)
(***************************************************************************)
LEMMA BeginSpanInv == ASSUME IInv, BeginSpan PROVE IInv'
<1> DEFINE name == Head(batch).service
<1>1. /\ name \in Optional(ServiceNames)
      /\ Head(batch).attrs \in Seq(TraceAttr)
  BY HeadOfBatch DEF IInv, TypeOK, BeginSpan
<1>2. /\ serviceInterner' \in InternerType(ServiceNames)
      /\ InternerConsistent(serviceInterner', ServiceNames)
      /\ serviceNameId' \in Optional(Nat)
  <2>1. CASE name = None
    BY <2>1 DEF IInv, TypeOK, TracesConsistent, BeginSpan, Optional
  <2>2. CASE name # None
    <3>1. name \in ServiceNames
      BY <2>2, <1>1 DEF Optional
    <3>2. /\ serviceInterner' = Intern(serviceInterner, name)
          /\ serviceNameId' = InternedId(serviceInterner, name)
      BY <2>2 DEF BeginSpan
    <3> HIDE DEF name
    <3> QED BY <3>1, <3>2, InternInv DEF IInv, TypeOK, TracesConsistent
  <2> QED BY <2>1, <2>2
<1>3. TypeOK'
  BY <1>1, <1>2 DEF IInv, TypeOK, BeginSpan, TraceAttr
<1>4. TracesConsistent' /\ EvictionLedger'
  BY <1>2 DEF IInv, BeginSpan, TracesConsistent, EvictionLedger, Resident, Remembered
<1> QED BY <1>3, <1>4 DEF IInv, SpanInHand, BeginSpan

(***************************************************************************)
(* One attribute key is interned.                                          *)
(***************************************************************************)
LEMMA InternAttrInv == ASSUME IInv, InternAttr PROVE IInv'
<1> DEFINE a  == Head(attrsLeft)
           id == InternedId(keyInterner, a.key)
<1>1. a.key \in KeyNames /\ a.value \in AttrValues /\ Tail(attrsLeft) \in Seq(TraceAttr)
  <2>0. attrsLeft \in Seq(TraceAttr) /\ attrsLeft # <<>>
    BY DEF IInv, TypeOK, InternAttr, TraceAttr
  <2>1. a \in TraceAttr /\ Tail(attrsLeft) \in Seq(TraceAttr)
    BY <2>0
  <2> QED BY <2>1 DEF TraceAttr
<1>2. /\ keyInterner' = Intern(keyInterner, a.key)
      /\ internedAttrs' = IF id = None THEN internedAttrs
                          ELSE Append(internedAttrs, [key |-> id, value |-> a.value])
  BY DEF InternAttr
<1>3. /\ keyInterner' \in InternerType(KeyNames)
      /\ InternerConsistent(keyInterner', KeyNames)
      /\ id \in Optional(Nat)
  <2> HIDE DEF a
  <2> QED BY <1>1, <1>2, InternInv DEF IInv, TypeOK, TracesConsistent
<1>4. internedAttrs' \in Seq(InternedAttr)
  <2>1. internedAttrs \in Seq(InternedAttr)
    BY DEF IInv, TypeOK
  <2> HIDE DEF a, id
  <2>2. CASE id = None
    BY <2>1, <2>2, <1>2
  <2>3. CASE id # None
    <3>1. [key |-> id, value |-> a.value] \in InternedAttr
      BY <2>3, <1>1, <1>3 DEF InternedAttr, Optional
    <3> QED BY <2>1, <2>3, <3>1, <1>2
  <2> QED BY <2>2, <2>3
<1>5. TypeOK'
  BY <1>1, <1>3, <1>4 DEF IInv, TypeOK, InternAttr, TraceAttr
<1>6. TracesConsistent' /\ EvictionLedger'
  BY <1>3 DEF IInv, InternAttr, TracesConsistent, EvictionLedger, Resident, Remembered
<1> QED BY <1>5, <1>6 DEF IInv, SpanInHand, InternAttr

(***************************************************************************)
(* The books of one trace that comes back or is touched: it leaves the set *)
(* of the remembered ones exactly when it is counted late.                 *)
(***************************************************************************)
LEMMA EntryLedger ==
  ASSUME IInv, NEW t \in TraceIds, NEW u \in TraceType,
         traces' = [traces EXCEPT ![t] = u],
         evictedGenerations' = GenerationsAfterEntry(t),
         counters'.evictedTraces = counters.evictedTraces,
         counters'.lateSpanAfterEviction =
           IF Resurrected(t) THEN counters.lateSpanAfterEviction + 1
           ELSE counters.lateSpanAfterEviction
  PROVE  EvictionLedger' /\ Resident' = Resident \cup {t}
<1>1. /\ traces \in [TraceIds -> Optional(TraceType)]
      /\ evictedGenerations \in [TraceIds -> Optional(Nat)]
      /\ counters.evictedTraces \in Nat /\ counters.lateSpanAfterEviction \in Nat
  BY DEF IInv, TypeOK, CountersType
<1>2. Resident \cap Remembered = {}
  BY DEF IInv, EvictionLedger
<1>3. Resident' = Resident \cup {t}
  BY <1>1, NoneIsNoTrace DEF Resident
<1>4. Remembered' = Remembered \ {t}
  <2>1. CASE traces[t] = None
    BY <2>1, <1>1 DEF GenerationsAfterEntry, Remembered
  <2>2. CASE traces[t] # None
    BY <2>2, <1>1, <1>2 DEF GenerationsAfterEntry, Remembered, Resident
  <2> QED BY <2>1, <2>2
<1>5. Resurrected(t) <=> t \in Remembered
  BY <1>2 DEF Resurrected, Remembered, Resident
<1>6. IsFiniteSet(Remembered) /\ Cardinality(Remembered) \in Nat
  BY FiniteTraceIds, FS_Subset, FS_CardinalityType DEF Remembered
<1>7. Cardinality(Remembered') =
        IF t \in Remembered THEN Cardinality(Remembered) - 1 ELSE Cardinality(Remembered)
  BY <1>4, <1>6, FS_RemoveElement
<1>8. counters'.evictedTraces = counters'.lateSpanAfterEviction + Cardinality(Remembered')
  <2>1. counters.evictedTraces = counters.lateSpanAfterEviction + Cardinality(Remembered)
    BY DEF IInv, EvictionLedger
  <2> QED BY <2>1, <1>1, <1>5, <1>6, <1>7
<1> QED BY <1>2, <1>3, <1>4, <1>8 DEF EvictionLedger

(***************************************************************************)
(* `insert_span_no_evict` writes the row and the counters; the clock its   *)
(* caller goes on with is of no matter.                                    *)
(***************************************************************************)
LEMMA InsertRowInv == ASSUME IInv, InsertRow, now' \in Nat PROVE IInv'
<1> DEFINE span == Head(batch)
           t    == span.trace
           u    == Insert(EntryOf(t), span, serviceNameId, internedAttrs, now)
<1>0. TypeOK /\ TracesConsistent /\ EvictionLedger /\ batch # <<>>
  BY DEF IInv, SpanInHand, InsertRow
<1>1. t \in TraceIds /\ SpanOK(span) /\ Tail(batch) \in Seq(NewSpanType)
  BY <1>0, HeadOfBatch DEF TypeOK
<1>2. /\ traces' = [traces EXCEPT ![t] = u]
      /\ evictedGenerations' = GenerationsAfterEntry(t)
      /\ counters' = [counters EXCEPT
           !.duplicateSpan = IF IsDuplicate(EntryOf(t), span) THEN @ + 1 ELSE @,
           !.lateSpanAfterEviction = IF Resurrected(t) THEN @ + 1 ELSE @,
           !.attributeKeyCapHit = keyInterner.capHits]
  BY DEF InsertRow
<1>3. /\ serviceNameId \in Optional(Nat) /\ internedAttrs \in Seq(InternedAttr)
      /\ now \in Nat /\ keyInterner.capHits \in Nat /\ counters \in CountersType
  BY <1>0 DEF TypeOK, InternerType
<1>4. active' \in SUBSET TraceIds
  BY <1>0, <1>1 DEF InsertRow, TypeOK
<1>5. /\ UNCHANGED <<keyInterner, serviceInterner, malformed, attrsLeft, seq, received>>
      /\ batch' = Tail(batch) /\ internedAttrs' = <<>> /\ serviceNameId' = None
      /\ pc' = "append"
  BY DEF InsertRow
<1> HIDE DEF span, t
<1>6. TraceInv(u)
  <2>1. TraceInv(EntryOf(t))
    BY <1>0, <1>1, EntryInv
  <2> QED BY <2>1, <1>1, <1>3, InsertInv
<1> HIDE DEF u
<1>7. u \in TraceType /\ RowsAligned(u) /\ IndexInverse(u) /\ SlicesTile(u) /\ LinksExact(u)
  BY <1>6 DEF TraceInv
<1>8. /\ counters' \in CountersType
      /\ counters'.evictedTraces = counters.evictedTraces
      /\ counters'.lateSpanAfterEviction =
           IF Resurrected(t) THEN counters.lateSpanAfterEviction + 1
           ELSE counters.lateSpanAfterEviction
  <2> DEFINE d == IF IsDuplicate(EntryOf(t), span) THEN counters.duplicateSpan + 1
                  ELSE counters.duplicateSpan
             l == IF Resurrected(t) THEN counters.lateSpanAfterEviction + 1
                  ELSE counters.lateSpanAfterEviction
  <2>1. counters.duplicateSpan \in Nat /\ counters.lateSpanAfterEviction \in Nat
    BY <1>3 DEF CountersType
  <2>2. d \in Nat /\ l \in Nat
    BY <2>1
  <2>3. counters' = [counters EXCEPT !.duplicateSpan = d, !.lateSpanAfterEviction = l,
                                     !.attributeKeyCapHit = keyInterner.capHits]
    BY <1>2
  <2> HIDE DEF d, l
  <2>4. /\ counters' \in CountersType
        /\ counters'.evictedTraces = counters.evictedTraces
        /\ counters'.lateSpanAfterEviction = l
    BY <2>2, <2>3, <1>3 DEF CountersType
  <2> QED BY <2>4 DEF l
<1>9. EvictionLedger' /\ Resident' = Resident \cup {t}
  <2>1. /\ t \in TraceIds /\ u \in TraceType
        /\ traces' = [traces EXCEPT ![t] = u]
        /\ evictedGenerations' = GenerationsAfterEntry(t)
        /\ counters'.evictedTraces = counters.evictedTraces
        /\ counters'.lateSpanAfterEviction =
             IF Resurrected(t) THEN counters.lateSpanAfterEviction + 1
             ELSE counters.lateSpanAfterEviction
    BY <1>1, <1>2, <1>7, <1>8
  <2> QED BY <2>1, EntryLedger, Zenon
<1>10. TracesConsistent'
  <2>1. \A x \in TraceIds : traces'[x] = IF x = t THEN u ELSE traces[x]
    BY <1>0, <1>2 DEF TypeOK
  <2>2. ASSUME NEW x \in Resident'
        PROVE  /\ RowsAligned(traces'[x]) /\ IndexInverse(traces'[x])
               /\ SlicesTile(traces'[x]) /\ LinksExact(traces'[x])
    <3>1. CASE x = t
      BY <3>1, <2>1, <1>1, <1>7
    <3>2. CASE x # t
      <4>1. x \in Resident /\ x \in TraceIds
        BY <3>2, <1>9 DEF Resident
      <4>2. traces'[x] = traces[x]
        BY <3>2, <4>1, <2>1
      <4> QED BY <4>1, <4>2, <1>0 DEF TracesConsistent
    <3> QED BY <3>1, <3>2
  <2> QED BY <2>2, <1>0, <1>5 DEF TracesConsistent
<1>11. TypeOK'
  <2>1. traces' \in [TraceIds -> Optional(TraceType)]
    BY <1>0, <1>1, <1>2, <1>7 DEF TypeOK, Optional
  <2>2. evictedGenerations' \in [TraceIds -> Optional(Nat)]
    BY <1>0, <1>1, <1>2 DEF TypeOK, GenerationsAfterEntry, Optional
  <2>3. internedAttrs' \in Seq(InternedAttr) /\ serviceNameId' \in Optional(Nat)
    BY <1>5 DEF Optional
  <2> QED BY <2>1, <2>2, <2>3, <1>0, <1>1, <1>4, <1>5, <1>8 DEF TypeOK
<1> QED BY <1>5, <1>9, <1>10, <1>11 DEF IInv, SpanInHand

(***************************************************************************)
(* What `insert_span_no_evict` does to the map: the span's trace is in it, *)
(* its last activity is the time of the call, and no other trace moves.    *)
(***************************************************************************)
LEMMA RowWritten ==
  ASSUME IInv, InsertRow
  PROVE  /\ Head(batch).trace \in TraceIds
         /\ traces'[Head(batch).trace] # None
         /\ traces'[Head(batch).trace].lastActivity = now
         /\ \A x \in TraceIds : x # Head(batch).trace => traces'[x] = traces[x]
<1> DEFINE span == Head(batch)
           t    == span.trace
           u    == Insert(EntryOf(t), span, serviceNameId, internedAttrs, now)
<1>1. TypeOK /\ TracesConsistent /\ batch # <<>>
  BY DEF IInv, SpanInHand, InsertRow
<1>2. t \in TraceIds /\ SpanOK(span)
  BY <1>1, HeadOfBatch DEF TypeOK
<1>3. /\ serviceNameId \in Optional(Nat) /\ internedAttrs \in Seq(InternedAttr)
      /\ now \in Nat
  BY <1>1 DEF TypeOK
<1>4. traces' = [traces EXCEPT ![t] = u]
  BY DEF InsertRow
<1> HIDE DEF span, t
<1>5. TraceInv(EntryOf(t))
  BY <1>1, <1>2, EntryInv
<1>6. TraceInv(u) /\ u.lastActivity = now
  <2>1. TraceInv(u)
    BY <1>2, <1>3, <1>5, InsertInv
  <2>2. u.lastActivity = now
    BY <1>2, <1>3, <1>5, InsertTouches
  <2> QED BY <2>1, <2>2
<1> HIDE DEF u
<1>7. u # None
  BY <1>6, NoneIsNoTrace DEF TraceInv
<1>8. traces \in [TraceIds -> Optional(TraceType)]
  BY <1>1 DEF TypeOK
<1> QED BY <1>2, <1>4, <1>6, <1>7, <1>8 DEF t, span

(***************************************************************************)
(* The malformed spans of the batch are counted.                           *)
(***************************************************************************)
LEMMA EndAppendInv == ASSUME IInv, EndAppend PROVE IInv'
<1>1. /\ counters' \in CountersType
      /\ counters'.evictedTraces = counters.evictedTraces
      /\ counters'.lateSpanAfterEviction = counters.lateSpanAfterEviction
  <2>1. counters \in CountersType /\ malformed \in Nat
    BY DEF IInv, TypeOK
  <2>2. counters' = [counters EXCEPT !.malformedSpan = @ + malformed]
    BY DEF EndAppend, MalformedTotal
  <2> QED BY <2>1, <2>2 DEF CountersType
<1>2. TypeOK'
  BY <1>1 DEF IInv, TypeOK, EndAppend, MalformedTotal, spanVars
<1>3. TracesConsistent' /\ EvictionLedger'
  BY <1>1 DEF IInv, EndAppend, MalformedTotal, TracesConsistent, EvictionLedger, Resident, Remembered
<1> QED BY <1>2, <1>3 DEF IInv, SpanInHand, EndAppend, MalformedTotal

(***************************************************************************)
(* One trace is evicted: it is remembered, and it was not before.          *)
(***************************************************************************)
LEMMA EvictOldestInv ==
  ASSUME IInv, NEW t \in TraceIds, EvictOldest(t)
  PROVE  IInv'
<1>0. TypeOK /\ TracesConsistent /\ EvictionLedger
  BY DEF IInv
<1>1. t \in Resident /\ traces[t] \in TraceType /\ traces[t].generation \in Nat
  <2>1. t \in Resident /\ traces[t] \in TraceType
    BY <1>0 DEF EvictOldest, Oldest, Resident, TypeOK, Optional
  <2> QED BY <2>1, TraceFieldTypes
<1>2. /\ traces' = [traces EXCEPT ![t] = None]
      /\ evictedGenerations' = [evictedGenerations EXCEPT ![t] = traces[t].generation]
      /\ counters' = [counters EXCEPT !.evictedTraces = @ + 1]
      /\ UNCHANGED <<keyInterner, serviceInterner, writerVars>>
  BY DEF EvictOldest
<1>3. /\ traces \in [TraceIds -> Optional(TraceType)]
      /\ evictedGenerations \in [TraceIds -> Optional(Nat)]
      /\ counters.evictedTraces \in Nat /\ counters.lateSpanAfterEviction \in Nat
      /\ counters \in CountersType
  BY <1>0 DEF TypeOK, CountersType
<1>4. /\ counters' \in CountersType
      /\ counters'.evictedTraces = counters.evictedTraces + 1
      /\ counters'.lateSpanAfterEviction = counters.lateSpanAfterEviction
  BY <1>2, <1>3 DEF CountersType
<1>5. Resident' = Resident \ {t}
  BY <1>2, <1>3 DEF Resident
<1>6. Remembered' = Remembered \cup {t}
  BY <1>1, <1>2, <1>3, NoneAssumption DEF Remembered
<1>7. EvictionLedger'
  <2>1. Resident \cap Remembered = {} /\ t \notin Remembered
    BY <1>0, <1>1 DEF EvictionLedger
  <2>2. IsFiniteSet(Remembered) /\ Cardinality(Remembered) \in Nat
    BY FiniteTraceIds, FS_Subset, FS_CardinalityType DEF Remembered
  <2>3. Cardinality(Remembered') = Cardinality(Remembered) + 1
    BY <2>1, <2>2, <1>6, FS_AddElement
  <2>4. counters.evictedTraces = counters.lateSpanAfterEviction + Cardinality(Remembered)
    BY <1>0 DEF EvictionLedger
  <2>5. counters'.evictedTraces = counters'.lateSpanAfterEviction + Cardinality(Remembered')
    BY <2>2, <2>3, <2>4, <1>3, <1>4
  <2> QED BY <2>1, <2>5, <1>5, <1>6 DEF EvictionLedger
<1>8. TracesConsistent'
  <2>1. \A x \in Resident' : x \in Resident /\ traces'[x] = traces[x]
    BY <1>2, <1>3, <1>5 DEF Resident
  <2> QED BY <2>1, <1>0, <1>2 DEF TracesConsistent
<1>9. TypeOK'
  <2>1. /\ traces' \in [TraceIds -> Optional(TraceType)]
        /\ evictedGenerations' \in [TraceIds -> Optional(Nat)]
    BY <1>1, <1>2, <1>3 DEF Optional
  <2> QED BY <2>1, <1>0, <1>2, <1>4 DEF TypeOK, writerVars, spanVars
<1> QED BY <1>7, <1>8, <1>9, <1>2 DEF IInv, SpanInHand, writerVars

(***************************************************************************)
(* Every step of the writer keeps IInv.                                    *)
(***************************************************************************)
LEMMA NextInv == IInv /\ [Next]_vars => IInv'
<1> SUFFICES ASSUME IInv, [Next]_vars PROVE IInv'
  OBVIOUS
<1>1. ASSUME NEW b \in Batches, Recv(b) PROVE IInv'
  BY <1>1, RecvInv
<1>2. CASE BeginSpan
  BY <1>2, BeginSpanInv
<1>3. CASE InternAttr
  BY <1>3, InternAttrInv
<1>4. CASE InsertSpan
  BY <1>4, InsertRowInv DEF InsertSpan, IInv, TypeOK
<1>5. CASE EndAppend
  BY <1>5, EndAppendInv
<1>6. ASSUME NEW t \in TraceIds, EvictOldest(t) PROVE IInv'
  BY <1>6, EvictOldestInv
<1>7. CASE Release
  <2>1. TypeOK'
    BY <1>7 DEF IInv, TypeOK, Release, AfterRelease, storeVars, spanVars
  <2> QED BY <1>7, <2>1, StoreUntouched DEF IInv, SpanInHand, Release, AfterRelease
<1>8. CASE Notify
  <2>1. TypeOK'
    BY <1>8 DEF IInv, TypeOK, Notify, storeVars, spanVars
  <2> QED BY <1>8, <2>1, StoreUntouched DEF IInv, SpanInHand, Notify
<1>9. CASE UNCHANGED vars
  <2>1. UNCHANGED storeVars /\ UNCHANGED writerVars
    BY <1>9 DEF vars
  <2>2. TypeOK'
    BY <2>1 DEF IInv, TypeOK, storeVars, writerVars, spanVars
  <2> QED BY <2>1, <2>2, StoreUntouched DEF IInv, SpanInHand, writerVars
<1> QED BY <1>1, <1>2, <1>3, <1>4, <1>5, <1>6, <1>7, <1>8, <1>9 DEF Next, WriterStep

(***************************************************************************)
(* The inductive invariant of the store and its writer.                    *)
(***************************************************************************)
LEMMA Inductive == Spec => []IInv
<1> QED BY InitInv, NextInv, PTL DEF Spec

(***************************************************************************)
(* Every field of the store and of the writer keeps its type: no counter,  *)
(* id, offset or generation is ever negative, and an eviction always finds *)
(* a resident trace.                                                       *)
(***************************************************************************)
THEOREM StoreTypeCorrect == Spec => []TypeOK
BY Inductive, PTL DEF IInv

(***************************************************************************)
(* Evictions counted by `evict_over_budget`, traces remembered in          *)
(* `evicted_generations` and late spans counted by `insert_span` always    *)
(* balance, and no trace is both resident and remembered.                  *)
(***************************************************************************)
THEOREM LedgerBalances == Spec => []EvictionLedger
BY Inductive, PTL DEF IInv

(***************************************************************************)
(* Both interners and every resident trace are consistent at every point   *)
(* of the writer's loop, through evictions and returns.                    *)
(***************************************************************************)
THEOREM StoreConsistent == Spec => []TracesConsistent
BY Inductive, PTL DEF IInv

(***************************************************************************)
(* A sweep that is over leaves the lock, and nothing changes the map until *)
(* the lock is taken again.                                                *)
(***************************************************************************)
LEMMA SweptInv ==
  ASSUME IInv, ~MustEvict, UNCHANGED traces
  PROVE  BudgetRestored'
<1>1. IsFiniteSet(Resident) /\ Cardinality(Resident) \in Nat
  BY FiniteTraceIds, FS_Subset, FS_CardinalityType DEF Resident
<1>2. Resident' = Resident
  BY DEF Resident
<1> QED BY <1>1, <1>2 DEF MustEvict, BudgetRestored

(***************************************************************************)
(* Every step of the writer keeps the budget where the lock is free.       *)
(***************************************************************************)
LEMMA BudgetInv == IInv /\ BudgetRestored /\ [Next]_vars => BudgetRestored'
<1> SUFFICES ASSUME IInv, BudgetRestored, [Next]_vars PROVE BudgetRestored'
  OBVIOUS
<1>1. ASSUME NEW b \in Batches, Recv(b) PROVE BudgetRestored'
  BY <1>1 DEF Recv, BudgetRestored, LockHeld
<1>2. CASE BeginSpan \/ InternAttr \/ InsertSpan \/ EndAppend
  BY <1>2 DEF BeginSpan, InternAttr, InsertSpan, InsertRow, EndAppend, BudgetRestored, LockHeld
<1>3. ASSUME NEW t \in TraceIds, EvictOldest(t) PROVE BudgetRestored'
  BY <1>3 DEF EvictOldest, writerVars, BudgetRestored, LockHeld
<1>4. CASE Release
  BY <1>4, SweptInv DEF Release, storeVars
<1>5. CASE Notify \/ UNCHANGED vars
  <2>1. UNCHANGED traces /\ (LockHeld' <=> LockHeld)
    BY <1>5 DEF Notify, vars, storeVars, writerVars, LockHeld
  <2>2. Resident' = Resident
    BY <2>1 DEF Resident
  <2> QED BY <2>1, <2>2 DEF BudgetRestored
<1> QED BY <1>1, <1>2, <1>3, <1>4, <1>5 DEF Next, WriterStep

(***************************************************************************)
(* An empty store is within any budget.                                    *)
(***************************************************************************)
LEMMA InitBudget == Init => BudgetRestored
<1> SUFFICES ASSUME Init PROVE BudgetRestored
  OBVIOUS
<1>1. Resident = {}
  BY DEF Init, Resident
<1> QED BY <1>1, FS_EmptySet DEF BudgetRestored

(***************************************************************************)
(* Whoever takes the lock after `evict_over_budget` finds a store within   *)
(* --max-memory, or one trace that alone exceeds it.                       *)
(***************************************************************************)
THEOREM BudgetAlwaysRestored == Spec => []BudgetRestored
<1>1. Init => BudgetRestored
  BY InitBudget
<1> QED BY <1>1, Inductive, BudgetInv, PTL DEF Spec
-----------------------------------------------------------------------------
(***************************************************************************)
(* What the ids in the rows mean.  The ids of every row are ids of the     *)
(* interners, and so are the ones in hand while the keys of a span are     *)
(* interned, where the service name has its id unless it was refused.      *)
(***************************************************************************)
RowValid(row, keyTable, serviceTable) ==
  /\ row.service # None => row.service < Len(serviceTable.values)
  /\ \A j \in 1..Len(row.attrs) : row.attrs[j].key < Len(keyTable.values)

RowIdsValid ==
  \A t \in Resident : \A s \in SpanIds :
    TableOf(traces[t])[s] # None =>
      RowValid(TableOf(traces[t])[s], keyInterner, serviceInterner)

Caps == keyInterner.cap = InternerCap /\ serviceInterner.cap = InternerCap

ServiceInHand ==
  IF Head(batch).service \in NamesOf(serviceInterner)
  THEN /\ serviceNameId \in Nat /\ serviceNameId < Len(serviceInterner.values)
       /\ Get(serviceInterner, serviceNameId) = Head(batch).service
  ELSE serviceNameId = None

KeysInHand ==
  \A j \in 1..Len(internedAttrs) : internedAttrs[j].key < Len(keyInterner.values)

NamesInv == RowIdsValid /\ Caps /\ (pc = "attrs" => ServiceInHand /\ KeysInHand)

(***************************************************************************)
(* An interner knows as many names as its vector is long.                  *)
(***************************************************************************)
LEMMA NamesCounted ==
  ASSUME NEW strings, NEW interner \in InternerType(strings),
         InternerConsistent(interner, strings)
  PROVE  /\ IsFiniteSet(NamesOf(interner))
         /\ Cardinality(NamesOf(interner)) = Len(interner.values)
         /\ \A s \in strings : s \in NamesOf(interner) <=> Lookup(interner, s) # None
<1> DEFINE n == Len(interner.values)
           N == NamesOf(interner)
           f == [i \in 1..n |-> interner.values[i]]
<1>1. /\ interner.values \in Seq(strings) /\ n \in Nat
      /\ interner.map \in [strings -> Optional(Nat)]
  BY DEF InternerType
<1>2. N = {interner.values[i] : i \in 1..n}
  BY DEF NamesOf
<1>3. \A i \in 1..n : interner.values[i] \in strings /\ Lookup(interner, interner.values[i]) = i - 1
  BY <1>1 DEF InternerConsistent
<1>4. \A i, j \in 1..n : interner.values[i] = interner.values[j] => i = j
  BY <1>1, <1>3
<1>5. f \in Bijection(1..n, N)
  <2>1. f \in [1..n -> N] /\ \A s \in N : \E i \in 1..n : f[i] = s
    BY <1>2
  <2>2. \A i, j \in 1..n : f[i] = f[j] => i = j
    BY <1>4
  <2> HIDE DEF f, N
  <2> QED BY <2>1, <2>2 DEF Bijection, Injection, Surjection, IsInjective
<1>6. IsFiniteSet(1..n) /\ Cardinality(1..n) = n
  BY <1>1, FS_Interval, SMTT(30)
<1>7. IsFiniteSet(N) /\ Cardinality(N) = n
  <2>1. ExistsBijection(1..n, N)
    BY <1>5 DEF ExistsBijection
  <2> HIDE DEF N
  <2> QED BY <1>6, <2>1, FS_Bijection
<1>8. ASSUME NEW s \in strings PROVE s \in N <=> Lookup(interner, s) # None
  <2>1. ASSUME s \in N PROVE Lookup(interner, s) # None
    BY <2>1, <1>1, <1>2, <1>3, NoneAssumption
  <2>2. ASSUME Lookup(interner, s) # None PROVE s \in N
    <3>1. Lookup(interner, s) \in Nat
      BY <2>2, <1>1 DEF Lookup, Optional
    <3>2. /\ Lookup(interner, s) < n /\ interner.values[Lookup(interner, s) + 1] = s
      BY <2>2 DEF InternerConsistent, Get
    <3>3. Lookup(interner, s) + 1 \in 1..n
      BY <1>1, <3>1, <3>2
    <3> QED BY <1>2, <3>2, <3>3
  <2> QED BY <2>1, <2>2
<1> QED BY <1>7, <1>8

(***************************************************************************)
(* What `intern` does, seen from outside: the name is learnt while there   *)
(* is room, no id changes its meaning, and a refusal is counted and        *)
(* happens only when the table is full.                                    *)
(***************************************************************************)
Learns(interner, r, s) ==
  /\ r.cap = interner.cap
  /\ Len(interner.values) <= Len(r.values)
  /\ \A i \in 1..Len(interner.values) : r.values[i] = interner.values[i]
  /\ NamesOf(r) = IF Cardinality(NamesOf(interner)) < interner.cap
                  THEN NamesOf(interner) \cup {s} ELSE NamesOf(interner)
  /\ s \notin NamesOf(r) => Len(r.values) = r.cap
  /\ IF s \in NamesOf(r)
     THEN /\ InternedId(interner, s) \in Nat /\ InternedId(interner, s) < Len(r.values)
          /\ Get(r, InternedId(interner, s)) = s
          /\ r.capHits = interner.capHits
     ELSE /\ InternedId(interner, s) = None
          /\ r.capHits = interner.capHits + 1

(***************************************************************************)
(* One call of `intern`.                                                   *)
(***************************************************************************)
LEMMA InternLearns ==
  ASSUME NEW strings, NEW interner \in InternerType(strings),
         InternerConsistent(interner, strings), NEW s \in strings
  PROVE  Learns(interner, Intern(interner, s), s)
<1> DEFINE r == Intern(interner, s)
           n == Len(interner.values)
<1>1. /\ interner.map \in [strings -> Optional(Nat)] /\ interner.values \in Seq(strings)
      /\ interner.cap \in Nat /\ interner.capHits \in Nat /\ n \in Nat /\ n <= interner.cap
  BY DEF InternerType, InternerConsistent
<1>2. r \in InternerType(strings) /\ InternerConsistent(r, strings)
  BY InternInv
<1>3. /\ Cardinality(NamesOf(interner)) = n
      /\ s \in NamesOf(interner) <=> Lookup(interner, s) # None
  BY NamesCounted
<1>4. s \in NamesOf(r) <=> Lookup(r, s) # None
  BY <1>2, NamesCounted
<1>5. ASSUME s \in NamesOf(r)
      PROVE  /\ InternedId(interner, s) \in Nat /\ InternedId(interner, s) < Len(r.values)
             /\ Get(r, InternedId(interner, s)) = s
  <2>1. InternedId(interner, s) = Lookup(r, s) /\ Lookup(r, s) # None
    BY <1>4, <1>5 DEF InternedId
  <2>2. Lookup(r, s) \in Optional(Nat)
    BY <1>2 DEF InternerType, Lookup
  <2>3. Lookup(r, s) < Len(r.values) /\ Get(r, Lookup(r, s)) = s
    BY <1>2, <2>1 DEF InternerConsistent
  <2> QED BY <2>1, <2>2, <2>3 DEF Optional
<1>6. s \notin NamesOf(r) => InternedId(interner, s) = None
  BY <1>4 DEF InternedId
<1>7. CASE Lookup(interner, s) # None
  <2>1. r = interner
    BY <1>7 DEF Intern
  <2>2. s \in NamesOf(r) /\ NamesOf(r) = NamesOf(interner) \cup {s}
    BY <2>1, <1>3, <1>7
  <2> HIDE DEF r
  <2> QED BY <2>1, <2>2, <1>1, <1>5 DEF Learns, r
<1>8. CASE Lookup(interner, s) = None /\ n >= interner.cap
  <2>1. r = [interner EXCEPT !.capHits = @ + 1]
    BY <1>8 DEF Intern
  <2>2. /\ r.values = interner.values /\ r.cap = interner.cap
        /\ r.capHits = interner.capHits + 1
    BY <2>1, <1>1 DEF InternerType
  <2>3. NamesOf(r) = NamesOf(interner) /\ s \notin NamesOf(r) /\ n = interner.cap
    BY <2>2, <1>1, <1>3, <1>8 DEF NamesOf
  <2> HIDE DEF r
  <2> QED BY <2>2, <2>3, <1>1, <1>3, <1>6 DEF Learns, r
<1>9. CASE Lookup(interner, s) = None /\ ~(n >= interner.cap)
  <2>1. r = [interner EXCEPT !.values = Append(@, s), !.map = [@ EXCEPT ![s] = n]]
    BY <1>9 DEF Intern
  <2>2. /\ r.values = Append(interner.values, s) /\ r.cap = interner.cap
        /\ r.capHits = interner.capHits
    BY <2>1, <1>1 DEF InternerType
  <2> HIDE DEF r
  <2>3. /\ Len(r.values) = n + 1 /\ r.values[n + 1] = s
        /\ \A i \in 1..n : r.values[i] = interner.values[i]
    BY <2>2, <1>1
  <2>4. NamesOf(r) = NamesOf(interner) \cup {s}
    <3>1. \A i \in 1..(n + 1) : i \in 1..n \/ i = n + 1
      BY <1>1
    <3>2. n + 1 \in 1..(n + 1) /\ \A i \in 1..n : i \in 1..(n + 1)
      BY <1>1
    <3> QED BY <2>3, <3>1, <3>2 DEF NamesOf
  <2> QED BY <2>2, <2>3, <2>4, <1>1, <1>3, <1>5, <1>9 DEF Learns, r
<1> QED BY <1>7, <1>8, <1>9

(***************************************************************************)
(* An interner only ever gets longer: no id changes its name.              *)
(***************************************************************************)
Grown(interner, r) ==
  /\ Len(interner.values) <= Len(r.values)
  /\ \A i \in 1..Len(interner.values) : r.values[i] = interner.values[i]

(***************************************************************************)
(* A resident trace is a consistent trace.                                 *)
(***************************************************************************)
LEMMA ResidentInv == ASSUME IInv, NEW t \in Resident PROVE TraceInv(traces[t])
<1>1. traces[t] \in TraceType
  BY DEF IInv, TypeOK, Resident, Optional
<1> QED BY <1>1 DEF IInv, TracesConsistent, TraceInv

(***************************************************************************)
(* The entries of a consistent trace are rows.                             *)
(***************************************************************************)
LEMMA EntriesAreRows ==
  ASSUME NEW t, TraceInv(t), NEW s \in SpanIds
  PROVE  TableOf(t)[s] \in Optional(RowType)
<1>1. TableOf(t)[s] = IF t.spanIndex[s] = None THEN None ELSE RowOf(t, t.spanIndex[s])
  BY TableRows
<1>2. t.spanIndex[s] # None => t.spanIndex[s] \in 1..SpanCount(t)
  BY DEF TraceInv, IndexInverse
<1> QED BY <1>1, <1>2, RowOfType DEF Optional

(***************************************************************************)
(* A row with valid ids reads as a span with names.                        *)
(***************************************************************************)
LEMMA NamedIsSpan ==
  ASSUME NEW k \in InternerType(KeyNames), NEW v \in InternerType(ServiceNames),
         NEW row \in RowType, RowValid(row, k, v)
  PROVE  Named(row, k, v) \in NamedType /\ Named(row, k, v) # None
<1>0. row # None
  BY NoneIsNoSpan
<1>1. /\ k.values \in Seq(KeyNames) /\ v.values \in Seq(ServiceNames)
      /\ Len(k.values) \in Nat /\ Len(v.values) \in Nat
  BY DEF InternerType
<1>2. /\ row.parent \in Optional(SpanIds) /\ row.body \in Bodies
      /\ row.service \in Optional(Nat) /\ row.attrs \in Seq(InternedAttr)
  BY DEF RowType
<1> DEFINE svc == IF row.service = None THEN None ELSE Get(v, row.service)
           att == [j \in 1..Len(row.attrs) |->
                     [key   |-> Get(k, row.attrs[j].key),
                      value |-> row.attrs[j].value]]
<1>3. svc \in Optional(ServiceNames)
  <2>1. CASE row.service = None
    BY <2>1 DEF Optional
  <2>2. CASE row.service # None
    <3>1. row.service \in Nat /\ row.service < Len(v.values)
      BY <2>2, <1>2 DEF Optional, RowValid
    <3>2. row.service + 1 \in 1..Len(v.values)
      BY <3>1, <1>1
    <3>3. v.values[row.service + 1] \in ServiceNames
      BY <3>2, <1>1, ElementOfSeq
    <3> QED BY <2>2, <3>3 DEF Optional, Get
  <2> QED BY <2>1, <2>2
<1>4. ASSUME NEW j \in 1..Len(row.attrs)
      PROVE  [key |-> Get(k, row.attrs[j].key), value |-> row.attrs[j].value]
               \in [key : KeyNames, value : AttrValues]
  <2>1. row.attrs[j] \in InternedAttr
    BY <1>2, ElementOfSeq
  <2>2. row.attrs[j].key \in Nat /\ row.attrs[j].value \in AttrValues
    BY <2>1 DEF InternedAttr
  <2>3. row.attrs[j].key + 1 \in 1..Len(k.values)
    BY <2>2, <1>1 DEF RowValid
  <2>4. Get(k, row.attrs[j].key) \in KeyNames
    BY <2>3, <1>1, ElementOfSeq DEF Get
  <2> QED BY <2>2, <2>4
<1>5. att \in Seq([key : KeyNames, value : AttrValues])
  <2>1. Len(row.attrs) \in Nat
    BY <1>2
  <2>2. att \in [1..Len(row.attrs) -> [key : KeyNames, value : AttrValues]]
    BY <1>4
  <2> HIDE DEF att
  <2> QED BY <2>1, <2>2, FunctionIsSeq
<1>6. Named(row, k, v) =
        [parent |-> row.parent, body |-> row.body, service |-> svc, attrs |-> att]
  BY <1>0 DEF Named
<1> HIDE DEF svc, att
<1>7. Named(row, k, v) \in NamedType
  BY <1>2, <1>3, <1>5, <1>6 DEF NamedType
<1> QED BY <1>7, NoneIsNoSpan

(***************************************************************************)
(* A row with valid ids reads the same after either interner has grown.    *)
(***************************************************************************)
LEMMA NamedStable ==
  ASSUME NEW k \in InternerType(KeyNames), NEW v \in InternerType(ServiceNames),
         NEW k2 \in InternerType(KeyNames), NEW v2 \in InternerType(ServiceNames),
         Grown(k, k2), Grown(v, v2),
         NEW row \in Optional(RowType), row # None => RowValid(row, k, v)
  PROVE  Named(row, k2, v2) = Named(row, k, v) /\ (row # None => RowValid(row, k2, v2))
<1> SUFFICES ASSUME row # None
             PROVE  Named(row, k2, v2) = Named(row, k, v) /\ RowValid(row, k2, v2)
  BY DEF Named
<1>1. /\ Len(k.values) \in Nat /\ Len(v.values) \in Nat
      /\ Len(k2.values) \in Nat /\ Len(v2.values) \in Nat
  BY DEF InternerType
<1>2. row.service \in Optional(Nat) /\ row.attrs \in Seq(InternedAttr)
  BY DEF RowType, Optional
<1>3. row.service # None =>
        row.service < Len(v2.values) /\ Get(v2, row.service) = Get(v, row.service)
  <2> SUFFICES ASSUME row.service # None
               PROVE  row.service < Len(v2.values) /\ Get(v2, row.service) = Get(v, row.service)
    OBVIOUS
  <2>1. row.service \in Nat /\ row.service < Len(v.values)
    BY <1>2 DEF Optional, RowValid
  <2>2. row.service + 1 \in 1..Len(v.values)
    BY <2>1, <1>1
  <2> QED BY <2>1, <2>2, <1>1 DEF Get, Grown
<1>4. ASSUME NEW j \in 1..Len(row.attrs)
      PROVE  /\ row.attrs[j].key < Len(k2.values)
             /\ Get(k2, row.attrs[j].key) = Get(k, row.attrs[j].key)
  <2>1. row.attrs[j] \in InternedAttr
    BY <1>2, ElementOfSeq
  <2>2. row.attrs[j].key \in Nat /\ row.attrs[j].key < Len(k.values)
    BY <2>1 DEF InternedAttr, RowValid
  <2>3. row.attrs[j].key + 1 \in 1..Len(k.values)
    BY <2>2, <1>1
  <2>4. Len(k.values) <= Len(k2.values)
        /\ k2.values[row.attrs[j].key + 1] = k.values[row.attrs[j].key + 1]
    BY <2>3 DEF Grown
  <2>5. row.attrs[j].key < Len(k2.values)
    BY <2>2, <2>4, <1>1
  <2> QED BY <2>4, <2>5 DEF Get
<1>5. RowValid(row, k2, v2)
  BY <1>3, <1>4 DEF RowValid
<1>6. Named(row, k2, v2) = Named(row, k, v)
  BY <1>3, <1>4 DEF Named
<1> QED BY <1>5, <1>6

(***************************************************************************)
(* A step that leaves the traces alone and only makes the interners longer *)
(* shows in no table.                                                      *)
(***************************************************************************)
LEMMA TablesStable ==
  ASSUME IInv, RowIdsValid, IInv', traces' = traces,
         Grown(keyInterner, keyInterner'), Grown(serviceInterner, serviceInterner')
  PROVE  TablesOf' = TablesOf /\ RowIdsValid'
<1>0. /\ keyInterner \in InternerType(KeyNames) /\ serviceInterner \in InternerType(ServiceNames)
      /\ keyInterner' \in InternerType(KeyNames) /\ serviceInterner' \in InternerType(ServiceNames)
  BY DEF IInv, TypeOK
<1>1. Resident' = Resident
  BY DEF Resident
<1>2. ASSUME NEW t \in Resident, NEW s \in SpanIds
      PROVE  LET row == TableOf(traces[t])[s]
             IN  /\ Named(row, keyInterner', serviceInterner')
                      = Named(row, keyInterner, serviceInterner)
                 /\ row # None => RowValid(row, keyInterner', serviceInterner')
  <2>1. TraceInv(traces[t])
    BY ResidentInv
  <2>2. TableOf(traces[t])[s] \in Optional(RowType)
    BY <2>1, EntriesAreRows
  <2>3. TableOf(traces[t])[s] # None =>
          RowValid(TableOf(traces[t])[s], keyInterner, serviceInterner)
    BY DEF RowIdsValid
  <2> QED BY <1>0, <2>2, <2>3, NamedStable
<1>3. RowIdsValid'
  BY <1>1, <1>2 DEF RowIdsValid
<1>4. TablesOf' = TablesOf
  BY <1>2 DEF TablesOf, Resident
<1> QED BY <1>3, <1>4

(***************************************************************************)
(* An interner that did not change did not shrink.                         *)
(***************************************************************************)
LEMMA GrownSame ==
  ASSUME NEW strings, NEW k \in InternerType(strings)
  PROVE  Grown(k, k)
<1>1. Len(k.values) \in Nat
  BY DEF InternerType
<1> QED BY <1>1 DEF Grown

(***************************************************************************)
(* What the two interners are in a consistent store.                       *)
(***************************************************************************)
LEMMA InternerTypes ==
  ASSUME IInv
  PROVE  /\ keyInterner \in InternerType(KeyNames)
         /\ serviceInterner \in InternerType(ServiceNames)
         /\ InternerConsistent(keyInterner, KeyNames)
         /\ InternerConsistent(serviceInterner, ServiceNames)
BY DEF IInv, TypeOK, TracesConsistent

(***************************************************************************)
(* The service name of the span taken up has its id, or was refused.       *)
(***************************************************************************)
LEMMA ServiceLearnt ==
  ASSUME IInv, NamesInv, BeginSpan
  PROVE  /\ Grown(serviceInterner, serviceInterner')
         /\ serviceInterner'.cap = serviceInterner.cap
         /\ ServiceInHand'
         /\ NamesOf(serviceInterner') =
              IF Head(batch).service = None THEN NamesOf(serviceInterner)
              ELSE IF Cardinality(NamesOf(serviceInterner)) < InternerCap
                   THEN NamesOf(serviceInterner) \cup {Head(batch).service}
                   ELSE NamesOf(serviceInterner)
<1> DEFINE name == Head(batch).service
<1>1. name \in Optional(ServiceNames) /\ batch' = batch
  BY HeadOfBatch DEF IInv, TypeOK, BeginSpan
<1>2. /\ serviceInterner \in InternerType(ServiceNames)
      /\ InternerConsistent(serviceInterner, ServiceNames)
      /\ serviceInterner.cap = InternerCap
  BY InternerTypes DEF NamesInv, Caps
<1>3. CASE name = None
  <2>1. serviceInterner' = serviceInterner /\ serviceNameId' = None
    BY <1>3 DEF BeginSpan
  <2>2. None \notin NamesOf(serviceInterner)
    <3>1. serviceInterner.values \in Seq(ServiceNames)
      BY <1>2 DEF InternerType
    <3>2. \A i \in 1..Len(serviceInterner.values) : serviceInterner.values[i] \in ServiceNames
      BY <3>1, ElementOfSeq
    <3> QED BY <3>2, StoreAssumption DEF NamesOf
  <2>3. NamesOf(serviceInterner') = NamesOf(serviceInterner)
    BY <2>1
  <2>4. ServiceInHand'
    BY <2>1, <2>2, <2>3, <1>1, <1>3 DEF ServiceInHand
  <2> QED BY <2>1, <2>3, <2>4, <1>2, <1>3, GrownSame
<1>4. CASE name # None
  <2>1. /\ serviceInterner' = Intern(serviceInterner, name)
        /\ serviceNameId' = InternedId(serviceInterner, name)
    BY <1>4 DEF BeginSpan
  <2>2. name \in ServiceNames
    BY <1>1, <1>4 DEF Optional
  <2> HIDE DEF name
  <2>3. Learns(serviceInterner, serviceInterner', name)
    BY <2>1, <2>2, <1>2, InternLearns
  <2>4. ServiceInHand'
    BY <2>1, <2>3, <1>1 DEF Learns, ServiceInHand, name
  <2> QED BY <2>3, <2>4, <1>2, <1>4 DEF Learns, Grown, name
<1> QED BY <1>3, <1>4

(***************************************************************************)
(* The table a span goes to: that of its trace, or an empty one.           *)
(***************************************************************************)
LEMMA EntryTable ==
  ASSUME IInv, NEW t \in TraceIds
  PROVE  /\ TableOf(EntryOf(t)) =
              IF traces[t] = None THEN [s \in SpanIds |-> None] ELSE TableOf(traces[t])
         /\ EntryOf(t).generation + 1 =
              IF traces[t] = None THEN LivesOf[t] + 1 ELSE LivesOf[t]
<1>1. CASE traces[t] # None
  <2>1. EntryOf(t) = traces[t]
    BY <1>1 DEF EntryOf
  <2> QED BY <1>1, <2>1 DEF LivesOf
<1>2. CASE traces[t] = None
  <2> DEFINE g == IF Resurrected(t) THEN evictedGenerations[t] + 1 ELSE 0
             u == [NewTrace(now) EXCEPT !.generation = g]
  <2>1. EntryOf(t) = u
    BY <1>2 DEF EntryOf
  <2>2. u.generation = g /\ \A s \in SpanIds : u.spanIndex[s] = None
    BY DEF NewTrace
  <2>3. g = LivesOf[t]
    BY <1>2 DEF LivesOf, Resurrected
  <2> HIDE DEF u, g
  <2>4. TableOf(u) = [s \in SpanIds |-> None]
    BY <2>2 DEF TableOf
  <2> QED BY <1>2, <2>1, <2>2, <2>3, <2>4
<1> QED BY <1>1, <1>2

(***************************************************************************)
(* `insert_span_no_evict`, read as a table.                                *)
(***************************************************************************)
RowInHand(known) == EntryFor(known, Head(batch), serviceNameId, internedAttrs)

(***************************************************************************)
(* The span in hand is well typed.                                         *)
(***************************************************************************)
LEMMA SpanInHandOK ==
  ASSUME IInv, pc = "attrs"
  PROVE  /\ batch # <<>> /\ Head(batch).trace \in TraceIds /\ SpanOK(Head(batch))
         /\ Head(batch).id \in SpanIds /\ Head(batch) \in NewSpanType
         /\ serviceNameId \in Optional(Nat) /\ internedAttrs \in Seq(InternedAttr)
         /\ now \in Nat /\ Head(batch).attrs \in Seq(TraceAttr)
<1>1. batch \in Seq(NewSpanType) /\ batch # <<>>
  BY DEF IInv, TypeOK, SpanInHand
<1>2. Head(batch).trace \in TraceIds /\ SpanOK(Head(batch)) /\ Head(batch).attrs \in Seq(TraceAttr)
  BY <1>1, HeadOfBatch
<1>3. Head(batch) \in NewSpanType
  BY <1>1
<1> QED BY <1>1, <1>2, <1>3 DEF SpanOK, IInv, TypeOK

(***************************************************************************)
(* The entry of the span is the row in hand; nothing else moves.           *)
(***************************************************************************)
LEMMA RowInserted ==
  ASSUME IInv, InsertRow
  PROVE  LET t      == Head(batch).trace
             before == TableOf(EntryOf(t))
             id     == Head(batch).id
         IN  /\ t \in TraceIds /\ id \in SpanIds
             /\ traces'[t] # None /\ traces'[t].generation = EntryOf(t).generation
             /\ TableOf(traces'[t]) = [before EXCEPT ![id] = RowInHand(before[id])]
             /\ \A x \in TraceIds : x # t => traces'[x] = traces[x]
             /\ before[id] \in Optional(RowType)
             /\ IsDuplicate(EntryOf(t), Head(batch)) <=> before[id] # None
<1> DEFINE span == Head(batch)
           t    == span.trace
           e    == EntryOf(t)
           u    == Insert(e, span, serviceNameId, internedAttrs, now)
<1>1. /\ t \in TraceIds /\ SpanOK(span) /\ span.id \in SpanIds
      /\ serviceNameId \in Optional(Nat) /\ internedAttrs \in Seq(InternedAttr) /\ now \in Nat
  BY SpanInHandOK DEF InsertRow
<1>2. traces' = [traces EXCEPT ![t] = u] /\ traces \in [TraceIds -> Optional(TraceType)]
  BY DEF InsertRow, IInv, TypeOK
<1>3. TraceInv(e)
  <2> HIDE DEF t
  <2> QED BY <1>1, EntryInv DEF IInv
<1>4. /\ traces'[t] = u /\ traces'[t] # None
      /\ \A x \in TraceIds : x # t => traces'[x] = traces[x]
  BY RowWritten, <1>1, <1>2
<1> HIDE DEF span, t, e
<1>5. u.generation = e.generation
  BY <1>1, <1>3, InsertInv
<1>6. TableOf(u) = [TableOf(e) EXCEPT ![span.id] =
                      EntryFor(TableOf(e)[span.id], span, serviceNameId, internedAttrs)]
  <2>1. None \notin RowType
    BY NoneIsNoSpan
  <2>2. /\ TraceInv(e) /\ SpanOK(span) /\ now \in Nat
        /\ serviceNameId \in Optional(Nat) /\ internedAttrs \in Seq(InternedAttr)
    BY <1>1, <1>3
  <2> QED BY ONLY <2>1, <2>2, InsertTable
<1>7. TableOf(e)[span.id] \in Optional(RowType)
  BY <1>1, <1>3, EntriesAreRows
<1>8. IsDuplicate(e, span) <=> TableOf(e)[span.id] # None
  <2>1. TableOf(e)[span.id] = IF e.spanIndex[span.id] = None THEN None
                              ELSE RowOf(e, e.spanIndex[span.id])
    BY <1>1, TableRows
  <2>2. e.spanIndex[span.id] # None => RowOf(e, e.spanIndex[span.id]) \in RowType
    BY <1>1, <1>3, RowOfType DEF TraceInv, IndexInverse
  <2> QED BY <2>1, <2>2, NoneIsNoSpan DEF IsDuplicate
<1> HIDE DEF u
<1> QED BY <1>1, <1>4, <1>5, <1>6, <1>7, <1>8 DEF RowInHand, span, t, e

(***************************************************************************)
(* The row in hand refers to names the interners hold.                     *)
(***************************************************************************)
LEMMA RowInHandOK ==
  ASSUME IInv, NamesInv, pc = "attrs", NEW known \in Optional(RowType)
  PROVE  /\ RowInHand(known) \in RowType
         /\ RowValid(RowInHand(known), keyInterner, serviceInterner)
<1> DEFINE row == RowInHand(known)
           p   == IF known = None THEN Head(batch).parent ELSE known.parent
<1>1. /\ Head(batch).parent \in Optional(SpanIds) /\ Head(batch).body \in Bodies
      /\ serviceNameId \in Optional(Nat) /\ internedAttrs \in Seq(InternedAttr)
  BY SpanInHandOK DEF SpanOK
<1>2. p \in Optional(SpanIds)
  BY <1>1 DEF RowType, Optional
<1>3. row = [parent |-> p, body |-> Head(batch).body, service |-> serviceNameId,
             attrs |-> internedAttrs]
  BY DEF RowInHand, EntryFor
<1> HIDE DEF p, row
<1>4. row \in RowType
  BY <1>1, <1>2, <1>3 DEF RowType
<1>5. row.service = serviceNameId /\ row.attrs = internedAttrs
  BY <1>3
<1>6. /\ serviceNameId # None => serviceNameId < Len(serviceInterner.values)
      /\ \A j \in 1..Len(internedAttrs) : internedAttrs[j].key < Len(keyInterner.values)
  BY DEF NamesInv, ServiceInHand, KeysInHand
<1> QED BY <1>4, <1>5, <1>6 DEF RowValid, row

(***************************************************************************)
(* The tables read through the interners, trace by trace.                  *)
(***************************************************************************)
ReadTable(table) == [s \in SpanIds |-> Named(table[s], keyInterner, serviceInterner)]

(***************************************************************************)
(* A resident trace reads as a table, and a table is not nothing.          *)
(***************************************************************************)
LEMMA TablesRead ==
  ASSUME IInv, NamesInv, NEW t \in TraceIds
  PROVE  /\ TablesOf[t] = IF traces[t] = None THEN None ELSE ReadTable(TableOf(traces[t]))
         /\ TablesOf[t] = None <=> traces[t] = None
<1>1. TablesOf[t] = IF traces[t] = None THEN None ELSE ReadTable(TableOf(traces[t]))
  BY DEF TablesOf, ReadTable
<1>2. ASSUME traces[t] # None PROVE ReadTable(TableOf(traces[t])) # None
  <2>1. t \in Resident /\ TraceInv(traces[t])
    BY <1>2, ResidentInv DEF Resident
  <2>2. ASSUME NEW s \in SpanIds
        PROVE  Named(TableOf(traces[t])[s], keyInterner, serviceInterner) \in Optional(NamedType)
    <3>1. TableOf(traces[t])[s] \in Optional(RowType)
      BY <2>1, EntriesAreRows
    <3>2. CASE TableOf(traces[t])[s] = None
      BY <3>2 DEF Named, Optional
    <3>3. CASE TableOf(traces[t])[s] # None
      <4>1. TableOf(traces[t])[s] \in RowType
        BY <3>1, <3>3 DEF Optional
      <4>2. RowValid(TableOf(traces[t])[s], keyInterner, serviceInterner)
        BY <2>1, <3>3 DEF NamesInv, RowIdsValid
      <4> QED BY <4>1, <4>2, InternerTypes, NamedIsSpan DEF Optional
    <3> QED BY <3>2, <3>3
  <2>3. ReadTable(TableOf(traces[t])) \in [SpanIds -> Optional(NamedType)]
    BY <2>2 DEF ReadTable
  <2> QED BY <2>3, NoneIsNoSpan
<1> QED BY <1>1, <1>2

(***************************************************************************)
(* No row and no id in a new store.                                        *)
(***************************************************************************)
LEMMA InitNames == Init => NamesInv
<1> SUFFICES ASSUME Init PROVE NamesInv
  OBVIOUS
<1>1. Resident = {} /\ pc = "recv"
  BY DEF Init, Resident
<1>2. keyInterner.cap = InternerCap /\ serviceInterner.cap = InternerCap
  BY DEF Init, NewInterner
<1> QED BY <1>1, <1>2 DEF NamesInv, RowIdsValid, Caps

(***************************************************************************)
(* A step between two spans or two batches leaves rows and names alone.    *)
(***************************************************************************)
LEMMA IdleNames ==
  ASSUME NamesInv, UNCHANGED <<traces, keyInterner, serviceInterner>>, pc' # "attrs"
  PROVE  NamesInv'
BY DEF NamesInv, RowIdsValid, Resident, Caps

(***************************************************************************)
(* An eviction takes rows away and touches no other.                       *)
(***************************************************************************)
LEMMA EvictNames ==
  ASSUME IInv, NamesInv, NEW t \in TraceIds, EvictOldest(t)
  PROVE  NamesInv'
<1>1. /\ UNCHANGED <<keyInterner, serviceInterner, pc>> /\ pc = "evict"
      /\ traces' = [traces EXCEPT ![t] = None]
  BY DEF EvictOldest, writerVars
<1>2. \A x \in Resident' : x \in Resident /\ traces'[x] = traces[x]
  BY <1>1 DEF Resident, IInv, TypeOK
<1>3. RowIdsValid'
  BY <1>1, <1>2 DEF NamesInv, RowIdsValid
<1> QED BY <1>1, <1>3 DEF NamesInv, Caps

(***************************************************************************)
(* A span is taken up: its service name is interned or refused.            *)
(***************************************************************************)
LEMMA BeginSpanNames == ASSUME IInv, NamesInv, BeginSpan PROVE NamesInv'
<1>1. UNCHANGED <<traces, keyInterner>> /\ internedAttrs' = <<>>
  BY DEF BeginSpan
<1>2. RowIdsValid'
  BY <1>1, BeginSpanInv, TablesStable, GrownSame, InternerTypes, ServiceLearnt DEF NamesInv
<1>3. KeysInHand'
  BY <1>1 DEF KeysInHand
<1> QED BY <1>1, <1>2, <1>3, ServiceLearnt DEF NamesInv, Caps

(***************************************************************************)
(* One more key is interned: its id is an id of the longer table.          *)
(***************************************************************************)
LEMMA InternAttrNames ==
  ASSUME IInv, NamesInv, InternAttr
  PROVE  /\ NamesInv'
         /\ Grown(keyInterner, keyInterner') /\ keyInterner.capHits <= keyInterner'.capHits
<1> DEFINE a  == Head(attrsLeft)
           id == InternedId(keyInterner, a.key)
<1>1. /\ UNCHANGED <<traces, serviceInterner, pc, batch, serviceNameId>>
      /\ pc = "attrs" /\ attrsLeft # <<>>
      /\ keyInterner' = Intern(keyInterner, a.key)
      /\ internedAttrs' = IF id = None THEN internedAttrs
                          ELSE Append(internedAttrs, [key |-> id, value |-> a.value])
  BY DEF InternAttr
<1>2. a.key \in KeyNames
  <2>1. attrsLeft \in Seq(TraceAttr)
    BY DEF IInv, TypeOK, TraceAttr
  <2>2. a \in TraceAttr
    BY <1>1, <2>1
  <2> QED BY <2>2 DEF TraceAttr
<1>3. /\ keyInterner \in InternerType(KeyNames) /\ InternerConsistent(keyInterner, KeyNames)
      /\ keyInterner' \in InternerType(KeyNames) /\ keyInterner.cap = InternerCap
      /\ internedAttrs \in Seq(InternedAttr) /\ IInv'
  BY InternAttrInv, InternerTypes DEF IInv, TypeOK, NamesInv, Caps
<1> HIDE DEF a
<1>4. Learns(keyInterner, keyInterner', a.key)
  BY <1>1, <1>2, <1>3, InternLearns
<1>5. /\ keyInterner'.cap = InternerCap /\ Grown(keyInterner, keyInterner')
      /\ Len(keyInterner.values) <= Len(keyInterner'.values)
      /\ Len(keyInterner.values) \in Nat /\ Len(keyInterner'.values) \in Nat
      /\ keyInterner.capHits <= keyInterner'.capHits
  BY <1>3, <1>4 DEF Learns, Grown, InternerType
<1>6. id # None => id \in Nat /\ id < Len(keyInterner'.values)
  BY <1>4 DEF Learns
<1>7. \A j \in 1..Len(internedAttrs) :
        internedAttrs[j].key \in Nat /\ internedAttrs[j].key < Len(keyInterner'.values)
  <2> SUFFICES ASSUME NEW j \in 1..Len(internedAttrs)
               PROVE  internedAttrs[j].key \in Nat
                        /\ internedAttrs[j].key < Len(keyInterner'.values)
    OBVIOUS
  <2>1. internedAttrs[j] \in InternedAttr
    BY <1>3, ElementOfSeq
  <2>2. internedAttrs[j].key \in Nat /\ internedAttrs[j].key < Len(keyInterner.values)
    BY <1>1, <2>1 DEF InternedAttr, NamesInv, KeysInHand
  <2> QED BY <2>2, <1>5
<1> HIDE DEF id
<1>8. KeysInHand'
  <2>1. CASE id = None
    BY <2>1, <1>1, <1>7 DEF KeysInHand
  <2>2. CASE id # None
    <3> DEFINE new == [key |-> id, value |-> a.value]
    <3>0. new.key = id
      OBVIOUS
    <3> HIDE DEF new
    <3>1. internedAttrs' = Append(internedAttrs, new)
      BY <2>2, <1>1 DEF new
    <3>2. /\ Len(internedAttrs') = Len(internedAttrs) + 1 /\ Len(internedAttrs) \in Nat
          /\ internedAttrs'[Len(internedAttrs) + 1] = new
          /\ \A j \in 1..Len(internedAttrs) : internedAttrs'[j] = internedAttrs[j]
      BY <3>1, <1>3
    <3>3. ASSUME NEW j \in 1..Len(internedAttrs')
          PROVE  internedAttrs'[j].key < Len(keyInterner'.values)
      BY <3>0, <3>2, <1>6, <1>7, <2>2
    <3> QED BY <3>3 DEF KeysInHand
  <2> QED BY <2>1, <2>2
<1>9. RowIdsValid'
  BY <1>1, <1>3, <1>5, TablesStable, GrownSame, InternerTypes DEF NamesInv
<1>10. ServiceInHand'
  BY <1>1 DEF NamesInv, ServiceInHand, NamesOf
<1> QED BY <1>1, <1>5, <1>8, <1>9, <1>10 DEF NamesInv, Caps

(***************************************************************************)
(* The row written has valid ids.                                          *)
(***************************************************************************)
LEMMA InsertRowNames == ASSUME IInv, NamesInv, InsertRow PROVE NamesInv'
<1> DEFINE t      == Head(batch).trace
           before == TableOf(EntryOf(t))
           id     == Head(batch).id
<1>1. /\ UNCHANGED <<keyInterner, serviceInterner>>
      /\ pc = "attrs" /\ pc' = "append"
  BY DEF InsertRow
<1>2. /\ t \in TraceIds /\ id \in SpanIds
      /\ TableOf(traces'[t]) = [before EXCEPT ![id] = RowInHand(before[id])]
      /\ \A x \in TraceIds : x # t => traces'[x] = traces[x]
      /\ before[id] \in Optional(RowType)
  BY RowInserted
<1>3. RowValid(RowInHand(before[id]), keyInterner, serviceInterner)
  BY <1>1, <1>2, RowInHandOK
<1>4. \A s \in SpanIds : before[s] # None => RowValid(before[s], keyInterner, serviceInterner)
  <2>1. before = IF traces[t] = None THEN [s \in SpanIds |-> None] ELSE TableOf(traces[t])
    BY <1>2, EntryTable
  <2> HIDE DEF before, t
  <2> QED BY <2>1, <1>2 DEF NamesInv, RowIdsValid, Resident
<1>5. DOMAIN before = SpanIds
  BY DEF TableOf
<1> HIDE DEF before, t, id
<1>6. RowIdsValid'
  <2> SUFFICES ASSUME NEW x \in Resident', NEW s \in SpanIds, TableOf(traces'[x])[s] # None
               PROVE  RowValid(TableOf(traces'[x])[s], keyInterner, serviceInterner)
    BY <1>1 DEF RowIdsValid
  <2>1. CASE x = t /\ s = id
    BY <2>1, <1>2, <1>3, <1>5
  <2>2. CASE x = t /\ s # id
    <3>1. TableOf(traces'[x])[s] = before[s]
      BY <2>2, <1>2, <1>5
    <3> QED BY <3>1, <1>4
  <2>3. CASE x # t
    <3>1. x \in Resident /\ traces'[x] = traces[x]
      BY <2>3, <1>2 DEF Resident
    <3> QED BY <3>1 DEF NamesInv, RowIdsValid
  <2> QED BY <2>1, <2>2, <2>3
<1> QED BY <1>1, <1>6 DEF NamesInv, Caps

(***************************************************************************)
(* Every step of the writer keeps the ids valid.                           *)
(***************************************************************************)
LEMMA NextNames == IInv /\ NamesInv /\ [Next]_vars => NamesInv'
<1> SUFFICES ASSUME IInv, NamesInv, [Next]_vars PROVE NamesInv'
  OBVIOUS
<1>1. CASE (\E b \in Batches : Recv(b)) \/ EndAppend \/ Release \/ Notify
  <2>1. UNCHANGED <<traces, keyInterner, serviceInterner>> /\ pc' # "attrs"
    BY <1>1 DEF Recv, EndAppend, Release, AfterRelease, Notify, storeVars
  <2> QED BY <2>1, IdleNames
<1>2. CASE BeginSpan
  BY <1>2, BeginSpanNames
<1>3. CASE InternAttr
  BY <1>3, InternAttrNames
<1>4. CASE InsertRow
  BY <1>4, InsertRowNames
<1>5. ASSUME NEW t \in TraceIds, EvictOldest(t) PROVE NamesInv'
  BY <1>5, EvictNames
<1>6. CASE UNCHANGED vars
  BY <1>6 DEF vars, storeVars, writerVars, spanVars, NamesInv, RowIdsValid, Resident, Caps,
              ServiceInHand, KeysInHand, NamesOf
<1> QED BY <1>1, <1>2, <1>3, <1>4, <1>5, <1>6 DEF Next, WriterStep, InsertSpan

(***************************************************************************)
(* In every state of the store the ids in its rows are ids with a name.    *)
(***************************************************************************)
LEMMA NamesInductive == Spec => [](IInv /\ NamesInv)
<1>1. Init => NamesInv
  BY InitNames
<1>2. IInv /\ NamesInv /\ [Next]_vars => NamesInv'
  BY NextNames
<1> QED BY <1>1, <1>2, Inductive, PTL DEF Spec
=============================================================================
