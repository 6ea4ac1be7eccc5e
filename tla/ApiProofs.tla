----------------------------- MODULE ApiProofs ------------------------------
(***************************************************************************)
(* What a client of the API may rely on, for every set of traces and       *)
(* batches, every budget and any number of requests: first the routes read *)
(* over several requests (ReadApi), then the filter (Filter).              *)
(*                                                                         *)
(* Every argument about the routes rests on what one step of the writer    *)
(* may do to a trace (Lives): it keeps its generation and its rows, or it  *)
(* is evicted and its generation is remembered, or it comes back with a    *)
(* later one.  Those about the filter rest on the ids in the rows being    *)
(* ids with a name (NamesInv) and on no id ever changing its name.         *)
(***************************************************************************)
EXTENDS ReadApi, Filter, StoreProofs

(***************************************************************************)
(* A sequence is a prefix of a longer one that agrees with it.             *)
(***************************************************************************)
LEMMA PrefixByEntries ==
  ASSUME NEW S, NEW a \in Seq(S), NEW b \in Seq(S),
         Len(a) <= Len(b), \A i \in 1..Len(a) : b[i] = a[i]
  PROVE  IsPrefix(a, b)
<1>1. SubSeq(a, 1, Len(a)) = SubSeq(b, 1, Len(a))
  <2>1. Len(a) \in Nat /\ Len(b) \in Nat
    OBVIOUS
  <2>2. \A i \in 1..Len(a) : 1 + i - 1 = i
    BY <2>1
  <2> QED BY <2>1, <2>2
<1> QED BY <1>1 DEF IsPrefix

(***************************************************************************)
(* The converse: a prefix agrees with the sequence it is a prefix of.      *)
(***************************************************************************)
LEMMA PrefixEntries ==
  ASSUME NEW S, NEW a \in Seq(S), NEW b \in Seq(S), IsPrefix(a, b)
  PROVE  Len(a) <= Len(b) /\ \A i \in 1..Len(a) : b[i] = a[i]
<1>1. /\ Len(a) \in Nat /\ Len(b) \in Nat /\ Len(a) <= Len(b)
      /\ SubSeq(a, 1, Len(a)) = SubSeq(b, 1, Len(a))
  BY DEF IsPrefix
<1>2. ASSUME NEW i \in 1..Len(a) PROVE b[i] = a[i]
  <2>1. SubSeq(a, 1, Len(a))[i] = a[i] /\ SubSeq(b, 1, Len(a))[i] = b[i]
    BY <1>1
  <2> QED BY <2>1, <1>1
<1> QED BY <1>1, <1>2

(***************************************************************************)
(* A prefix of a prefix is a prefix.                                       *)
(***************************************************************************)
LEMMA PrefixTransitive ==
  ASSUME NEW S, NEW a \in Seq(S), NEW b \in Seq(S), NEW c \in Seq(S),
         IsPrefix(a, b), IsPrefix(b, c)
  PROVE  IsPrefix(a, c)
<1>1. /\ Len(a) <= Len(b) /\ \A i \in 1..Len(a) : b[i] = a[i]
      /\ Len(b) <= Len(c) /\ \A i \in 1..Len(b) : c[i] = b[i]
  BY PrefixEntries
<1>2. Len(a) \in Nat /\ Len(b) \in Nat /\ Len(c) \in Nat
  OBVIOUS
<1>3. Len(a) <= Len(c) /\ \A i \in 1..Len(a) : c[i] = a[i]
  BY <1>1, <1>2
<1> QED BY <1>3, PrefixByEntries

-----------------------------------------------------------------------------
(***************************************************************************)
(* What a step of the store may do to trace t.                             *)
(***************************************************************************)
Lives(t) ==
  /\ traces[t] # None /\ traces'[t] # None =>
       /\ traces'[t].generation = traces[t].generation
       /\ IsPrefix(traces[t].spanIds, traces'[t].spanIds)
  /\ traces[t] # None /\ traces'[t] = None =>
       /\ evictedGenerations'[t] = traces[t].generation
       /\ counters'.evictedTraces > counters.evictedTraces
  /\ traces[t] = None /\ traces'[t] = None =>
       evictedGenerations'[t] = evictedGenerations[t]
  /\ traces[t] = None /\ traces'[t] # None /\ evictedGenerations[t] # None =>
       traces'[t].generation = evictedGenerations[t] + 1
  /\ traces'[t] # None /\ traces'[t] # traces[t] => 1 <= SpanCount(traces'[t])

(***************************************************************************)
(* A step that leaves a trace and its remembered generation alone.         *)
(***************************************************************************)
LEMMA LeftAlone ==
  ASSUME IInv, NEW t \in TraceIds, traces'[t] = traces[t],
         evictedGenerations'[t] = evictedGenerations[t]
  PROVE  Lives(t)
<1>1. CASE traces[t] = None
  BY <1>1 DEF Lives
<1>2. CASE traces[t] # None
  <2>1. traces[t] \in TraceType
    BY <1>2 DEF IInv, TypeOK, Optional
  <2>2. traces[t].spanIds \in Seq(SpanIds)
    BY <2>1, TraceFieldTypes
  <2>3. IsPrefix(traces[t].spanIds, traces[t].spanIds)
    BY <2>2, PrefixByEntries
  <2> QED BY <1>2, <2>3 DEF Lives
<1> QED BY <1>1, <1>2

(***************************************************************************)
(* `insert_span_no_evict`: the span's trace keeps its generation and its   *)
(* rows, or starts the life after the one it was evicted in; the others    *)
(* are left alone.                                                         *)
(***************************************************************************)
LEMMA RowLives ==
  ASSUME IInv, InsertRow
  PROVE  /\ \A x \in TraceIds : Lives(x)
         /\ counters'.evictedTraces = counters.evictedTraces
<1> DEFINE span == Head(batch)
           t    == span.trace
           e    == EntryOf(t)
           u    == Insert(e, span, serviceNameId, internedAttrs, now)
<1>1. TypeOK /\ TracesConsistent /\ batch # <<>>
  BY DEF IInv, SpanInHand, InsertRow
<1>2. t \in TraceIds /\ SpanOK(span)
  BY <1>1, HeadOfBatch DEF TypeOK
<1>3. /\ serviceNameId \in Optional(Nat) /\ internedAttrs \in Seq(InternedAttr)
      /\ now \in Nat /\ traces[t] \in Optional(TraceType)
      /\ evictedGenerations[t] \in Optional(Nat)
      /\ evictedGenerations \in [TraceIds -> Optional(Nat)]
      /\ traces \in [TraceIds -> Optional(TraceType)]
  BY <1>1, <1>2 DEF TypeOK
<1>4. /\ traces' = [traces EXCEPT ![t] = u]
      /\ evictedGenerations' = GenerationsAfterEntry(t)
  BY DEF InsertRow
<1>5. counters'.evictedTraces = counters.evictedTraces
  BY <1>1 DEF InsertRow, TypeOK, CountersType
<1> HIDE DEF span, t
<1>6. TraceInv(e)
  BY <1>1, <1>2, EntryInv
<1>g. traces[t] = None => e.generation = IF Resurrected(t) THEN evictedGenerations[t] + 1 ELSE 0
  <2> SUFFICES ASSUME traces[t] = None
               PROVE  e.generation = IF Resurrected(t) THEN evictedGenerations[t] + 1 ELSE 0
    OBVIOUS
  <2> DEFINE g == IF Resurrected(t) THEN evictedGenerations[t] + 1 ELSE 0
  <2>1. g \in Nat
    BY <1>3 DEF Resurrected, Optional
  <2>2. e = [NewTrace(now) EXCEPT !.generation = g]
    BY DEF EntryOf
  <2> HIDE DEF g, e
  <2>3. e.generation = g
    BY <2>1, <2>2, <1>3, NewLifeInv
  <2> QED BY <2>3 DEF g
<1>h. traces[t] # None => e = traces[t]
  BY DEF EntryOf
<1> HIDE DEF e
<1>7. /\ TraceInv(u) /\ u.generation = e.generation
      /\ SpanCount(e) <= SpanCount(u) /\ 1 <= SpanCount(u)
      /\ \A i \in 1..SpanCount(e) : u.spanIds[i] = e.spanIds[i]
  BY <1>2, <1>3, <1>6, InsertInv
<1> HIDE DEF u
<1>8. IsPrefix(e.spanIds, u.spanIds)
  <2>1. e.spanIds \in Seq(SpanIds) /\ u.spanIds \in Seq(SpanIds)
    BY <1>6, <1>7, TraceFieldTypes DEF TraceInv
  <2>2. Len(e.spanIds) <= Len(u.spanIds) /\ \A i \in 1..Len(e.spanIds) : u.spanIds[i] = e.spanIds[i]
    BY <1>7 DEF SpanCount
  <2> QED BY <2>1, <2>2, PrefixByEntries
<1>9. u # None
  BY <1>7, NoneIsNoTrace DEF TraceInv
<1>10. traces'[t] = u /\ \A x \in TraceIds : x # t => traces'[x] = traces[x]
  BY <1>2, <1>3, <1>4
<1>11. \A x \in TraceIds : x # t => evictedGenerations'[x] = evictedGenerations[x]
  BY <1>2, <1>3, <1>4 DEF GenerationsAfterEntry
<1>12. Lives(t)
  <2>1. CASE traces[t] # None
    BY <2>1, <1>h, <1>7, <1>8, <1>9, <1>10 DEF Lives
  <2>2. CASE traces[t] = None
    BY <2>2, <1>g, <1>7, <1>9, <1>10 DEF Lives, Resurrected
  <2> QED BY <2>1, <2>2
<1>13. ASSUME NEW x \in TraceIds PROVE Lives(x)
  <2>1. CASE x = t
    BY <2>1, <1>12
  <2>2. CASE x # t
    BY <2>2, <1>10, <1>11, LeftAlone
  <2> QED BY <2>1, <2>2
<1> QED BY <1>5, <1>13

(***************************************************************************)
(* No step of the store or its writer does anything else to a trace, and   *)
(* none takes an eviction back.                                            *)
(***************************************************************************)
LEMMA StepLives ==
  ASSUME IInv, [Next]_vars
  PROVE  /\ \A x \in TraceIds : Lives(x)
         /\ counters'.evictedTraces >= counters.evictedTraces
<1>c. counters.evictedTraces \in Nat
  BY DEF IInv, TypeOK, CountersType
<1>1. CASE InsertSpan
  BY <1>1, <1>c, RowLives DEF InsertSpan
<1>2. ASSUME NEW t \in TraceIds, EvictOldest(t)
      PROVE  /\ \A x \in TraceIds : Lives(x)
             /\ counters'.evictedTraces >= counters.evictedTraces
  <2>1. /\ t \in Resident /\ traces' = [traces EXCEPT ![t] = None]
        /\ evictedGenerations' = [evictedGenerations EXCEPT ![t] = traces[t].generation]
        /\ counters' = [counters EXCEPT !.evictedTraces = @ + 1]
    BY <1>2 DEF EvictOldest, Oldest
  <2>2. /\ traces \in [TraceIds -> Optional(TraceType)] /\ counters \in CountersType
        /\ evictedGenerations \in [TraceIds -> Optional(Nat)]
    BY DEF IInv, TypeOK
  <2>3. counters'.evictedTraces = counters.evictedTraces + 1
    BY <2>1, <2>2 DEF CountersType
  <2>4. ASSUME NEW x \in TraceIds PROVE Lives(x)
    <3>1. CASE x = t
      <4>1. /\ traces[x] # None /\ traces'[x] = None
            /\ evictedGenerations'[x] = traces[x].generation
        BY <3>1, <2>1, <2>2 DEF Resident
      <4> QED BY <4>1, <2>3, <1>c DEF Lives
    <3>2. CASE x # t
      BY <3>2, <2>1, <2>2, LeftAlone
    <3> QED BY <3>1, <3>2
  <2> QED BY <2>3, <2>4, <1>c
<1>3. CASE UNCHANGED <<traces, evictedGenerations>>
           /\ counters'.evictedTraces = counters.evictedTraces
  BY <1>3, <1>c, LeftAlone
<1>4. CASE EndAppend
  <2>1. counters'.evictedTraces = counters.evictedTraces
    BY <1>4 DEF EndAppend, IInv, TypeOK, CountersType
  <2> QED BY <1>4, <1>3, <2>1 DEF EndAppend
<1>5. CASE BeginSpan \/ InternAttr \/ Release \/ Notify \/ UNCHANGED vars
  BY <1>5, <1>3 DEF BeginSpan, InternAttr, Release, Notify, vars, storeVars
<1>6. ASSUME NEW b \in Batches, Recv(b)
      PROVE  /\ \A x \in TraceIds : Lives(x)
             /\ counters'.evictedTraces >= counters.evictedTraces
  BY <1>6, <1>3 DEF Recv, storeVars
<1> QED BY <1>1, <1>2, <1>4, <1>5, <1>6 DEF Next, WriterStep

-----------------------------------------------------------------------------
ReadNext == StoreStep \/ BrowserAlone \/ DumpAlone

(***************************************************************************)
(* Clients only read: to the store, a step with clients in it is a step of *)
(* the writer or none at all.                                              *)
(***************************************************************************)
LEMMA ReadersOnlyRead ==
  ASSUME [ReadNext]_readVars
  PROVE  /\ [Next]_vars
         /\ BrowserAlone \/ DumpAlone => UNCHANGED vars
         /\ BrowserAlone => UNCHANGED dumpVars
         /\ DumpAlone => UNCHANGED browserVars
         /\ StoreStep => UNCHANGED browserVars /\ UNCHANGED dumpVars
<1>1. BrowserAlone => UNCHANGED vars /\ UNCHANGED dumpVars
  BY DEF BrowserAlone, BrowserStep, Event, Refetch, OpenTrace, ClickRow
<1>2. DumpAlone => UNCHANGED vars /\ UNCHANGED browserVars
  BY DEF DumpAlone, DumpStep, DumpList, DumpTrace, DumpReceiver
<1>3. StoreStep => Next /\ UNCHANGED browserVars /\ UNCHANGED dumpVars
  BY DEF StoreStep
<1>4. UNCHANGED readVars => UNCHANGED vars
  BY DEF readVars
<1> QED BY <1>1, <1>2, <1>3, <1>4 DEF ReadNext

(***************************************************************************)
(* The store's invariant with clients reading.                             *)
(***************************************************************************)
LEMMA ReadInductive == ReadSpec => []IInv
<1>1. ReadInit => IInv
  BY InitInv DEF ReadInit
<1>2. IInv /\ [ReadNext]_readVars => IInv'
  BY NextInv, ReadersOnlyRead
<1> QED BY <1>1, <1>2, PTL DEF ReadSpec, ReadNext

-----------------------------------------------------------------------------
(***************************************************************************)
(* The event stream yields numbers the writer has announced, never one     *)
(* that is still to come: an announcement made after the last event is     *)
(* always a new number.                                                    *)
(***************************************************************************)
EventsAnnounced == seen # None => seen \in Nat /\ seen <= seq

ListingInv == EventsAnnounced /\ ListingCurrent

(***************************************************************************)
(* The list depends on the traces and the service names alone.             *)
(***************************************************************************)
LEMMA SameList ==
  ASSUME UNCHANGED <<traces, serviceInterner>>
  PROVE  ListTraces' = ListTraces
<1>1. Resident' = Resident
  BY DEF Resident
<1>2. ASSUME NEW t PROVE Summary(t)' = Summary(t)
  BY DEF Summary
<1> QED BY <1>1, <1>2 DEF ListTraces

(***************************************************************************)
(* A step of the store: one that ends where the writer waits for a batch   *)
(* has announced a number the browser has not seen.                        *)
(***************************************************************************)
LEMMA ListingStoreInv ==
  ASSUME IInv, ListingInv, [Next]_vars, UNCHANGED <<seen, stale, listing>>
  PROVE  ListingInv'
<1>t. seq \in Nat
  BY DEF IInv, TypeOK
<1>1. CASE Notify
  <2>1. seq' = seq + 1 /\ seen' # seq'
    BY <1>1, <1>t, NoneAssumption DEF Notify, ListingInv, EventsAnnounced
  <2> QED BY <2>1, <1>t DEF ListingInv, EventsAnnounced, ListingCurrent
<1>2. CASE pc' # "recv" /\ UNCHANGED seq
  BY <1>2 DEF ListingInv, EventsAnnounced, ListingCurrent
<1>3. CASE UNCHANGED vars
  <2>1. UNCHANGED <<traces, serviceInterner, seq, pc>>
    BY <1>3 DEF vars, storeVars, writerVars
  <2>2. ListTraces' = ListTraces
    BY <2>1, SameList
  <2> QED BY <2>1, <2>2 DEF ListingInv, EventsAnnounced, ListingCurrent
<1>4. ASSUME NEW b \in Batches, Recv(b) PROVE ListingInv'
  BY <1>4, <1>2 DEF Recv
<1>5. CASE BeginSpan \/ InternAttr \/ InsertSpan \/ EndAppend \/ Release
  BY <1>5, <1>2 DEF BeginSpan, InternAttr, InsertSpan, InsertRow, EndAppend, Release, AfterRelease
<1>6. ASSUME NEW t \in TraceIds, EvictOldest(t) PROVE ListingInv'
  BY <1>6, <1>2 DEF EvictOldest, writerVars
<1> QED BY <1>1, <1>3, <1>4, <1>5, <1>6 DEF Next, WriterStep

(***************************************************************************)
(* A step of a client: an event makes the list stale, a re-fetch takes it  *)
(* as it is.                                                               *)
(***************************************************************************)
LEMMA ListingBrowserInv ==
  ASSUME IInv, ListingInv, BrowserStep, UNCHANGED vars
  PROVE  ListingInv'
<1>1. /\ UNCHANGED <<traces, serviceInterner, seq, pc>> /\ seq \in Nat
  BY DEF vars, storeVars, writerVars, IInv, TypeOK
<1>2. ListTraces' = ListTraces
  BY <1>1, SameList
<1>3. CASE Event
  BY <1>3, <1>1 DEF Event, ListingInv, EventsAnnounced, ListingCurrent
<1>4. CASE Refetch
  BY <1>4, <1>1, <1>2 DEF Refetch, ListingInv, EventsAnnounced, ListingCurrent
<1>5. CASE UNCHANGED <<seen, stale, listing>>
  BY <1>5, <1>1, <1>2 DEF ListingInv, EventsAnnounced, ListingCurrent
<1>6. ASSUME NEW t \in TraceIds, OpenTrace(t) PROVE ListingInv'
  BY <1>6, <1>5 DEF OpenTrace
<1>7. ASSUME NEW i \in 1..Len(pageIds), ClickRow(i) PROVE ListingInv'
  BY <1>7, <1>5 DEF ClickRow
<1> QED BY <1>3, <1>4, <1>6, <1>7 DEF BrowserStep

(***************************************************************************)
(* No change goes unannounced: once a browser has re-fetched after the     *)
(* latest event and the writer waits, the list it shows is the store's.    *)
(* The writer releases the lock, then bumps the number; a fetch between    *)
(* the two is followed by an event, one after both needs none.             *)
(***************************************************************************)
THEOREM NoChangeUnannounced == ReadSpec => []ListingCurrent
<1>1. ReadInit => ListingInv
  BY NoneAssumption DEF ReadInit, Init, NoBrowser, ListingInv, EventsAnnounced, ListingCurrent
<1>2. IInv /\ ListingInv /\ [ReadNext]_readVars => ListingInv'
  <2> SUFFICES ASSUME IInv, ListingInv, [ReadNext]_readVars PROVE ListingInv'
    OBVIOUS
  <2>1. [Next]_vars
    BY ReadersOnlyRead
  <2>2. CASE BrowserAlone
    BY <2>2, ReadersOnlyRead, ListingBrowserInv DEF BrowserAlone
  <2>3. CASE StoreStep \/ DumpAlone \/ UNCHANGED readVars
    <3>1. UNCHANGED browserVars
      BY <2>3, ReadersOnlyRead DEF readVars
    <3>2. UNCHANGED <<seen, stale, listing>>
      BY <3>1 DEF browserVars
    <3> QED BY <2>1, <3>2, ListingStoreInv
  <2> QED BY <2>2, <2>3 DEF ReadNext
<1> QED BY <1>1, <1>2, ReadInductive, PTL DEF ReadSpec, ReadNext, ListingInv

-----------------------------------------------------------------------------
(***************************************************************************)
(* The fields of a payload that are copied from the trace as they are.     *)
(***************************************************************************)
LEMMA PayloadCopies ==
  ASSUME NEW trace
  PROVE  /\ GetTrace(trace).generation = trace.generation
         /\ GetTrace(trace).parentIdx = trace.parentIdx
BY DEF GetTrace

(***************************************************************************)
(* What holds of trace t for a client that read it with generation g: the  *)
(* trace is in that life or a later one, and is remembered when it is      *)
(* gone.                                                                   *)
(***************************************************************************)
SinceRead(t, g) ==
  /\ traces[t] # None => traces[t].generation >= g
  /\ traces[t] = None => evictedGenerations[t] # None /\ evictedGenerations[t] >= g

PageInv ==
  page # None =>
    /\ page.trace \in TraceIds /\ page.payload.generation \in Nat
    /\ pageIds \in Seq(SpanIds)
    /\ SinceRead(page.trace, page.payload.generation)
    /\ GenerationPinsRows

(***************************************************************************)
(* No step of the store takes a trace back to an earlier life; and if it   *)
(* is still in the one that was read, it was in it before the step.        *)
(***************************************************************************)
LEMMA SinceReadInv ==
  ASSUME IInv, IInv', NEW t \in TraceIds, NEW g \in Nat, SinceRead(t, g), Lives(t)
  PROVE  /\ SinceRead(t, g)'
         /\ traces'[t] # None /\ traces'[t].generation = g =>
              /\ traces[t] # None /\ traces[t].generation = g
              /\ IsPrefix(traces[t].spanIds, traces'[t].spanIds)
<1>1. /\ traces[t] # None => traces[t].generation \in Nat
      /\ traces'[t] # None => traces'[t].generation \in Nat
      /\ evictedGenerations[t] # None => evictedGenerations[t] \in Nat
  <2>1. /\ traces[t] # None => traces[t] \in TraceType
        /\ traces'[t] # None => traces'[t] \in TraceType
        /\ evictedGenerations[t] # None => evictedGenerations[t] \in Nat
    BY DEF IInv, TypeOK, Optional
  <2> QED BY <2>1, TraceFieldTypes
<1>2. CASE traces[t] # None
  BY <1>1, <1>2, NoneAssumption DEF SinceRead, Lives
<1>3. CASE traces[t] = None
  BY <1>1, <1>3 DEF SinceRead, Lives
<1> QED BY <1>2, <1>3

(***************************************************************************)
(* A step of the store under an open page.                                 *)
(***************************************************************************)
LEMMA PageStoreInv ==
  ASSUME IInv, IInv', PageInv, [Next]_vars, UNCHANGED <<page, pageIds>>
  PROVE  PageInv'
<1> SUFFICES ASSUME page # None PROVE PageInv'
  BY DEF PageInv
<1> DEFINE t == page.trace
           g == page.payload.generation
<1>1. /\ t \in TraceIds /\ g \in Nat /\ pageIds \in Seq(SpanIds)
      /\ SinceRead(t, g) /\ GenerationPinsRows
  BY DEF PageInv
<1>2. t' = t /\ g' = g /\ Lives(t)
  BY <1>1, StepLives
<1> HIDE DEF t, g
<1>3. /\ SinceRead(t, g)'
      /\ traces'[t] # None /\ traces'[t].generation = g =>
           /\ traces[t] # None /\ traces[t].generation = g
           /\ IsPrefix(traces[t].spanIds, traces'[t].spanIds)
  BY <1>1, <1>2, SinceReadInv
<1>4. ASSUME traces'[t] # None, traces'[t].generation = g
      PROVE  IsPrefix(pageIds, traces'[t].spanIds)
  <2>1. /\ traces[t] # None /\ traces[t].generation = g
        /\ IsPrefix(traces[t].spanIds, traces'[t].spanIds)
    BY <1>3, <1>4
  <2>2. IsPrefix(pageIds, traces[t].spanIds)
    BY <1>1, <2>1 DEF GenerationPinsRows, t, g
  <2>3. traces[t] \in TraceType /\ traces'[t] \in TraceType
    BY <1>1, <1>4, <2>1 DEF IInv, TypeOK, Optional
  <2>4. traces[t].spanIds \in Seq(SpanIds) /\ traces'[t].spanIds \in Seq(SpanIds)
    BY <2>3, TraceFieldTypes
  <2> QED BY <1>1, <2>1, <2>2, <2>4, PrefixTransitive
<1>5. GenerationPinsRows'
  BY <1>2, <1>4 DEF GenerationPinsRows, t, g
<1> QED BY <1>1, <1>2, <1>3, <1>5 DEF PageInv, t, g

(***************************************************************************)
(* GET /api/traces/:id puts the trace on the page as it is.                *)
(***************************************************************************)
LEMMA OpenTraceInv ==
  ASSUME IInv, NEW t \in TraceIds, OpenTrace(t)
  PROVE  PageInv'
<1>1. UNCHANGED <<traces, evictedGenerations>>
  BY DEF OpenTrace, vars, storeVars
<1>2. CASE t \in Resident
  <2>1. /\ page'.trace = t /\ page'.payload = GetTrace(traces[t])
        /\ pageIds' = traces[t].spanIds
    BY <1>2 DEF OpenTrace
  <2>2. page'.payload.generation = traces[t].generation
    BY <2>1, PayloadCopies
  <2>3. traces[t] # None /\ traces[t] \in TraceType
    BY <1>2 DEF Resident, IInv, TypeOK, Optional
  <2>4. traces[t].generation \in Nat /\ traces[t].spanIds \in Seq(SpanIds)
    BY <2>3, TraceFieldTypes
  <2>5. IsPrefix(traces[t].spanIds, traces[t].spanIds)
    BY <2>4, PrefixByEntries
  <2> QED BY <1>1, <2>1, <2>2, <2>3, <2>4, <2>5 DEF PageInv, SinceRead, GenerationPinsRows
<1>3. CASE t \notin Resident
  BY <1>3 DEF OpenTrace, PageInv
<1> QED BY <1>2, <1>3

(***************************************************************************)
(* As long as the trace has the generation of the page, the rows on the    *)
(* page are its first rows: `generation` is enough for a client to know    *)
(* that a row index it kept still means the same span, whatever was        *)
(* inserted or evicted and brought back in between.                        *)
(***************************************************************************)
THEOREM GenerationIdentifiesRows == ReadSpec => []GenerationPinsRows
<1>1. ReadInit => PageInv
  BY DEF ReadInit, NoBrowser, PageInv
<1>2. IInv /\ IInv' /\ PageInv /\ [ReadNext]_readVars => PageInv'
  <2> SUFFICES ASSUME IInv, IInv', PageInv, [ReadNext]_readVars PROVE PageInv'
    OBVIOUS
  <2>1. [Next]_vars
    BY ReadersOnlyRead
  <2>2. CASE UNCHANGED <<page, pageIds>>
    BY <2>1, <2>2, PageStoreInv
  <2>3. CASE StoreStep \/ DumpAlone \/ UNCHANGED readVars
    <3>1. UNCHANGED browserVars
      BY <2>3, ReadersOnlyRead DEF readVars
    <3> QED BY <3>1, <2>2 DEF browserVars
  <2>4. CASE Event \/ Refetch \/ \E i \in 1..Len(pageIds) : ClickRow(i)
    BY <2>4, <2>2 DEF Event, Refetch, ClickRow
  <2>5. ASSUME NEW t \in TraceIds, OpenTrace(t) PROVE PageInv'
    BY <2>5, OpenTraceInv
  <2> QED BY <2>3, <2>4, <2>5 DEF ReadNext, BrowserAlone, BrowserStep
<1>3. PageInv => GenerationPinsRows
  BY DEF PageInv, GenerationPinsRows
<1> QED BY <1>1, <1>2, <1>3, ReadInductive, PTL DEF ReadSpec, ReadNext

-----------------------------------------------------------------------------
(***************************************************************************)
(* What holds of a trace that `--dump` has listed: with the generation it  *)
(* was listed with it has at least the rows listed, and when it is gone an *)
(* eviction has been counted since.                                        *)
(***************************************************************************)
SinceListed(t) ==
  /\ SinceRead(t, dumpStart.generation[t])
  /\ traces[t] # None /\ traces[t].generation = dumpStart.generation[t] =>
       SpanCount(traces[t]) >= dump.rows[t].spanCount
  /\ traces[t] = None => counters.evictedTraces > dumpStart.evicted

Fetched(t) ==
  /\ t \in DOMAIN dump.full
  /\ dump.full[t].generation >= dumpStart.generation[t]
  /\ dump.full[t].generation = dumpStart.generation[t]
       => Len(dump.full[t].parentIdx) >= dump.rows[t].spanCount

DumpShape ==
  dump = [at |-> dump.at, left |-> dump.left, rows |-> dump.rows,
          full |-> dump.full, receiver |-> dump.receiver]

Listed ==
  /\ dumpStart.evicted \in Nat /\ dumpStart.evicted <= counters.evictedTraces
  /\ DOMAIN dump.rows \subseteq TraceIds /\ dump.left \subseteq DOMAIN dump.rows
  /\ \A t \in DOMAIN dump.rows :
       /\ dumpStart.generation[t] \in Nat /\ dump.rows[t].spanCount \in Nat
       /\ SinceListed(t)
       /\ t \in dump.left \/ Fetched(t)

DumpInv ==
  /\ DumpShape
  /\ dump.at # "off" => Listed
  /\ dump.at = "ok" => dump.left = {}
  /\ dump.at = "error" => counters.evictedTraces > dumpStart.evicted

(***************************************************************************)
(* A step of the store between two requests of a dump.                     *)
(***************************************************************************)
LEMMA DumpStoreInv ==
  ASSUME IInv, IInv', DumpInv, [Next]_vars, UNCHANGED <<dump, dumpStart>>
  PROVE  DumpInv'
<1>1. /\ counters'.evictedTraces >= counters.evictedTraces
      /\ counters'.evictedTraces \in Nat /\ counters.evictedTraces \in Nat
  BY StepLives DEF IInv, TypeOK, CountersType
<1>2. ASSUME dump.at # "off" PROVE Listed'
  <2>0. Listed
    BY <1>2 DEF DumpInv
  <2>1. ASSUME NEW t \in DOMAIN dump.rows PROVE SinceListed(t)'
    <3> DEFINE g == dumpStart.generation[t]
               n == dump.rows[t].spanCount
    <3>1. t \in TraceIds /\ g \in Nat /\ n \in Nat /\ SinceListed(t) /\ g' = g /\ n' = n
      BY <2>0 DEF Listed
    <3>2. Lives(t)
      BY <3>1, StepLives
    <3>3. SinceRead(t, g)
      BY <3>1 DEF SinceListed
    <3> HIDE DEF g, n
    <3>4. /\ SinceRead(t, g)'
          /\ traces'[t] # None /\ traces'[t].generation = g =>
               /\ traces[t] # None /\ traces[t].generation = g
               /\ IsPrefix(traces[t].spanIds, traces'[t].spanIds)
      BY <3>1, <3>2, <3>3, SinceReadInv
    <3>5. ASSUME traces'[t] # None, traces'[t].generation = g
          PROVE  SpanCount(traces'[t]) >= n
      <4>1. /\ traces[t] # None /\ traces[t].generation = g
            /\ IsPrefix(traces[t].spanIds, traces'[t].spanIds)
        BY <3>4, <3>5
      <4>2. SpanCount(traces[t]) >= n
        BY <3>1, <4>1 DEF SinceListed, g, n
      <4>3. traces[t] \in TraceType /\ traces'[t] \in TraceType
        BY <3>1, <3>5, <4>1 DEF IInv, TypeOK, Optional
      <4>4. SpanCount(traces[t]) \in Nat /\ SpanCount(traces'[t]) \in Nat
        BY <4>3, TraceFieldTypes DEF SpanCount
      <4>5. SpanCount(traces[t]) <= SpanCount(traces'[t])
        BY <4>1 DEF IsPrefix, SpanCount
      <4> QED BY <3>1, <4>2, <4>4, <4>5
    <3>6. ASSUME traces'[t] = None
          PROVE  counters'.evictedTraces > dumpStart.evicted
      <4>1. /\ dumpStart.evicted \in Nat /\ dumpStart.evicted <= counters.evictedTraces
        BY <2>0 DEF Listed
      <4>2. traces[t] # None => counters'.evictedTraces > counters.evictedTraces
        BY <3>2, <3>6 DEF Lives
      <4>3. traces[t] = None => counters.evictedTraces > dumpStart.evicted
        BY <3>1 DEF SinceListed
      <4> QED BY <4>1, <4>2, <4>3, <1>1
    <3> QED BY <3>1, <3>4, <3>5, <3>6 DEF SinceListed, g, n
  <2>2. \A t \in DOMAIN dump.rows : Fetched(t) => Fetched(t)'
    BY DEF Fetched
  <2>3. dumpStart.evicted <= counters'.evictedTraces /\ dumpStart.evicted \in Nat
    BY <2>0, <1>1 DEF Listed
  <2> QED BY <2>0, <2>1, <2>2, <2>3 DEF Listed
<1>3. ASSUME dump.at = "error" PROVE counters'.evictedTraces > dumpStart.evicted
  <2>1. Listed /\ counters.evictedTraces > dumpStart.evicted
    BY <1>3 DEF DumpInv
  <2> QED BY <2>1, <1>1 DEF Listed
<1> QED BY <1>2, <1>3 DEF DumpInv, DumpShape

(***************************************************************************)
(* GET /api/traces: what is listed is what is resident.                    *)
(***************************************************************************)
LEMMA DumpListInv ==
  ASSUME IInv, DumpInv, DumpList
  PROVE  DumpInv'
<1>1. UNCHANGED <<traces, evictedGenerations, counters>>
  BY DEF DumpList, vars, storeVars
<1>2. /\ dump'.at = "traces" /\ dump'.left = Resident /\ dump'.rows = ListTraces
      /\ DumpShape'
  BY DEF DumpList, DumpInv, DumpShape
<1>3. /\ dumpStart'.evicted = counters.evictedTraces
      /\ dumpStart'.generation = [t \in Resident |-> traces[t].generation]
  BY DEF DumpList
<1>4. DOMAIN ListTraces = Resident /\ Resident \subseteq TraceIds
  BY DEF ListTraces, Resident
<1>5. counters.evictedTraces \in Nat
  BY DEF IInv, TypeOK, CountersType
<1>6. ASSUME NEW t \in Resident
      PROVE  /\ dumpStart'.generation[t] = traces[t].generation
             /\ dump'.rows[t].spanCount = SpanCount(traces[t])
             /\ traces[t].generation \in Nat /\ SpanCount(traces[t]) \in Nat
             /\ traces[t] # None
  <2>1. traces[t] \in TraceType /\ traces[t] # None
    BY DEF Resident, IInv, TypeOK, Optional
  <2>2. traces[t].generation \in Nat /\ SpanCount(traces[t]) \in Nat
    BY <2>1, TraceFieldTypes DEF SpanCount
  <2>3. dump'.rows[t].spanCount = SpanCount(traces[t])
    BY <1>2 DEF ListTraces, Summary
  <2> QED BY <2>1, <2>2, <2>3, <1>3
<1>7. \A t \in Resident : SinceListed(t)'
  BY <1>1, <1>6 DEF SinceListed, SinceRead
<1>8. Listed'
  BY <1>1, <1>2, <1>3, <1>4, <1>5, <1>6, <1>7 DEF Listed
<1> QED BY <1>2, <1>8 DEF DumpInv

(***************************************************************************)
(* GET /api/traces/:id: the trace as it is, or a 404 that ends the dump.   *)
(***************************************************************************)
LEMMA DumpTraceInv ==
  ASSUME IInv, DumpInv, NEW t \in TraceIds, DumpTrace(t)
  PROVE  DumpInv'
<1>1. UNCHANGED <<traces, evictedGenerations, counters, dumpStart>>
  BY DEF DumpTrace, vars, storeVars
<1>2. dump.at = "traces" /\ t \in dump.left /\ Listed /\ DumpShape
  BY DEF DumpTrace, DumpInv
<1>3. t \in DOMAIN dump.rows /\ SinceListed(t)
  BY <1>2 DEF Listed
<1>4. CASE t \in Resident
  <2> DEFINE p == GetTrace(traces[t])
             g == dumpStart.generation[t]
  <2>1. /\ dump'.at = "traces" /\ dump'.left = dump.left \ {t} /\ dump'.rows = dump.rows
        /\ dump'.full = [x \in DOMAIN dump.full \cup {t} |-> IF x = t THEN p ELSE dump.full[x]]
        /\ DumpShape'
    BY <1>2, <1>4 DEF DumpTrace, DumpShape
  <2>2. /\ traces[t] # None /\ traces[t] \in TraceType /\ RowsAligned(traces[t])
    BY <1>4 DEF Resident, IInv, TypeOK, Optional, TracesConsistent
  <2>3. /\ p.generation = traces[t].generation /\ p.parentIdx = traces[t].parentIdx
    BY PayloadCopies
  <2>4. Len(traces[t].parentIdx) = SpanCount(traces[t])
    BY <2>2 DEF RowsAligned
  <2> HIDE DEF p
  <2>5. t \in DOMAIN dump'.full /\ dump'.full[t] = p
    BY <2>1
  <2>6. \A x \in DOMAIN dump.full : x # t => x \in DOMAIN dump'.full /\ dump'.full[x] = dump.full[x]
    BY <2>1
  <2>7. Fetched(t)'
    <3>1. /\ traces[t].generation >= g
          /\ traces[t].generation = g => SpanCount(traces[t]) >= dump.rows[t].spanCount
      BY <1>3, <2>2 DEF SinceListed, SinceRead
    <3> QED BY <3>1, <1>1, <2>1, <2>3, <2>4, <2>5 DEF Fetched
  <2>8. \A x \in DOMAIN dump.rows : x # t /\ Fetched(x) => Fetched(x)'
    BY <1>1, <2>1, <2>6 DEF Fetched
  <2>9. \A x \in DOMAIN dump.rows : SinceListed(x) => SinceListed(x)'
    BY <1>1, <2>1 DEF SinceListed, SinceRead
  <2>10. Listed'
    BY <1>1, <1>2, <2>1, <2>7, <2>8, <2>9 DEF Listed
  <2> QED BY <2>1, <2>10 DEF DumpInv
<1>5. CASE t \notin Resident
  <2>1. /\ dump'.at = "error" /\ dump'.left = dump.left /\ dump'.rows = dump.rows
        /\ dump'.full = dump.full /\ DumpShape'
    BY <1>2, <1>5 DEF DumpTrace, DumpWithout, DumpShape
  <2>2. counters.evictedTraces > dumpStart.evicted
    BY <1>3, <1>5 DEF SinceListed, Resident
  <2>3. \A x \in DOMAIN dump.rows : /\ SinceListed(x) => SinceListed(x)'
                                    /\ Fetched(x) => Fetched(x)'
    BY <1>1, <2>1 DEF SinceListed, SinceRead, Fetched
  <2>4. Listed'
    BY <1>1, <1>2, <2>1, <2>3 DEF Listed
  <2> QED BY <1>1, <2>1, <2>2, <2>4 DEF DumpInv
<1> QED BY <1>4, <1>5

(***************************************************************************)
(* GET /api/receiver ends a dump that has fetched every trace.             *)
(***************************************************************************)
LEMMA DumpReceiverInv ==
  ASSUME DumpInv, DumpReceiver
  PROVE  DumpInv'
<1>1. UNCHANGED <<traces, evictedGenerations, counters, dumpStart>>
  BY DEF DumpReceiver, vars, storeVars
<1>2. dump.at = "traces" /\ dump.left = {} /\ Listed /\ DumpShape
  BY DEF DumpReceiver, DumpInv
<1>3. /\ dump'.at = "ok" /\ dump'.left = dump.left /\ dump'.rows = dump.rows
      /\ dump'.full = dump.full /\ DumpShape'
  BY <1>2 DEF DumpReceiver, DumpShape
<1>4. \A x \in DOMAIN dump.rows : /\ SinceListed(x) => SinceListed(x)'
                                  /\ Fetched(x) => Fetched(x)'
  BY <1>1, <1>3 DEF SinceListed, SinceRead, Fetched
<1>5. Listed'
  BY <1>1, <1>2, <1>3, <1>4 DEF Listed
<1> QED BY <1>2, <1>3, <1>5 DEF DumpInv

(***************************************************************************)
(* `--dump` against a store that evicts: it fails only when a trace it     *)
(* listed has been evicted since, and a dump that succeeds has every trace *)
(* it listed, none of an earlier life, and none of the same life with      *)
(* fewer rows than listed.                                                 *)
(***************************************************************************)
THEOREM DumpsAreHonest == ReadSpec => []DumpHonest
<1>1. ReadInit => DumpInv
  BY DEF ReadInit, DumpInv, DumpShape
<1>2. IInv /\ IInv' /\ DumpInv /\ [ReadNext]_readVars => DumpInv'
  <2> SUFFICES ASSUME IInv, IInv', DumpInv, [ReadNext]_readVars PROVE DumpInv'
    OBVIOUS
  <2>1. [Next]_vars
    BY ReadersOnlyRead
  <2>2. CASE StoreStep \/ BrowserAlone \/ UNCHANGED readVars
    <3>1. UNCHANGED dumpVars
      BY <2>2, ReadersOnlyRead DEF readVars
    <3>2. UNCHANGED <<dump, dumpStart>>
      BY <3>1 DEF dumpVars
    <3> QED BY <2>1, <3>2, DumpStoreInv
  <2>3. CASE DumpList
    BY <2>3, DumpListInv
  <2>4. ASSUME NEW t \in TraceIds, DumpTrace(t) PROVE DumpInv'
    BY <2>4, DumpTraceInv
  <2>5. CASE DumpReceiver
    BY <2>5, DumpReceiverInv
  <2> QED BY <2>2, <2>3, <2>4, <2>5 DEF ReadNext, DumpAlone, DumpStep
<1>3. DumpInv => DumpHonest
  <2> SUFFICES ASSUME DumpInv PROVE DumpHonest
    OBVIOUS
  <2>1. CASE dump.at = "ok"
    <3>1. Listed /\ dump.left = {}
      BY <2>1 DEF DumpInv
    <3>2. \A t \in DOMAIN dump.rows : Fetched(t)
      BY <3>1 DEF Listed
    <3> QED BY <2>1, <3>2 DEF DumpHonest, Fetched
  <2> QED BY <2>1 DEF DumpInv, DumpHonest
<1> QED BY <1>1, <1>2, <1>3, ReadInductive, PTL DEF ReadSpec, ReadNext

-----------------------------------------------------------------------------
(***************************************************************************)
(* A trace is created by the insert that gives it its first row.           *)
(***************************************************************************)
NoneEmpty == \A t \in Resident : 1 <= SpanCount(traces[t])

(***************************************************************************)
(* No reader ever finds a resident trace without a row.                    *)
(***************************************************************************)
LEMMA NoneEmptyInv == ReadSpec => []NoneEmpty
<1>1. ReadInit => NoneEmpty
  BY DEF ReadInit, Init, NoneEmpty, Resident
<1>2. IInv /\ NoneEmpty /\ [ReadNext]_readVars => NoneEmpty'
  <2> SUFFICES ASSUME IInv, NoneEmpty, [ReadNext]_readVars, NEW t \in Resident'
               PROVE  1 <= SpanCount(traces'[t])
    BY DEF NoneEmpty
  <2>1. t \in TraceIds /\ traces'[t] # None
    BY DEF Resident
  <2>2. Lives(t)
    BY <2>1, ReadersOnlyRead, StepLives
  <2>3. CASE traces'[t] = traces[t]
    BY <2>1, <2>3 DEF NoneEmpty, Resident
  <2>4. CASE traces'[t] # traces[t]
    BY <2>1, <2>2, <2>4 DEF Lives
  <2> QED BY <2>3, <2>4
<1> QED BY <1>1, <1>2, ReadInductive, PTL DEF ReadSpec, ReadNext

(***************************************************************************)
(* A non-empty column of numbers has a largest entry: the shortest part of *)
(* it that had none would end in an entry larger than the largest of the   *)
(* rest.                                                                   *)
(***************************************************************************)
LEMMA LatestExists ==
  ASSUME NEW n \in Nat \ {0}, NEW f \in [1..n -> Nat]
  PROVE  \E m \in 1..n : \A j \in 1..n : f[j] <= f[m]
<1> DEFINE Top(k) == \E m \in 1..k : \A j \in 1..k : f[j] <= f[m]
           K == {k \in 1..n : ~Top(k)}
           id == [k \in K |-> k]
<1>1. SUFFICES ASSUME K # {} PROVE FALSE
  <2>1. n \in 1..n
    OBVIOUS
  <2> QED BY <2>1
<1>2. PICK k \in K : \A l \in K : k <= l
  <2>1. id \in [K -> Nat]
    OBVIOUS
  <2>2. \A x \in K : id[x] = x
    OBVIOUS
  <2> HIDE DEF K, id
  <2>3. \E x \in K : \A y \in K : id[x] <= id[y]
    BY <1>1, <2>1, EarliestExists
  <2> QED BY <2>2, <2>3
<1>3. k \in 1..n /\ ~Top(k)
  OBVIOUS
<1>4. CASE k = 1
  BY <1>3, <1>4
<1>5. CASE k # 1
  <2>1. k - 1 \in 1..n /\ ~(k <= k - 1)
    BY <1>3, <1>5
  <2>2. Top(k - 1)
    BY <1>2, <2>1
  <2>3. PICK m \in 1..(k - 1) : \A j \in 1..(k - 1) : f[j] <= f[m]
    BY <2>2
  <2>4. /\ m \in 1..n /\ m \in 1..k /\ k \in 1..k /\ f[m] \in Nat /\ f[k] \in Nat
        /\ \A j \in 1..k : j \in 1..(k - 1) \/ j = k
    BY <1>3, <2>3
  <2>5. CASE f[k] <= f[m]
    BY <1>3, <2>3, <2>4, <2>5
  <2>6. CASE ~(f[k] <= f[m])
    <3>1. \A j \in 1..(k - 1) : f[j] \in Nat
      BY <1>3
    <3>2. \A j \in 1..k : f[j] <= f[k]
      BY <2>3, <2>4, <2>6, <3>1
    <3> QED BY <1>3, <2>4, <3>2
  <2> QED BY <2>5, <2>6
<1> QED BY <1>4, <1>5

(***************************************************************************)
(* `duration_nanos` of a trace with rows: from the earliest start of a row *)
(* to the latest end of one, or None when every row ends before that.      *)
(***************************************************************************)
LEMMA DurationSpan ==
  ASSUME NEW trace, trace.body \in Seq(Bodies), Len(trace.body) >= 1
  PROVE  LET bodies == Range(trace.body) IN
         \E b, c \in bodies :
           /\ \A x \in bodies : StartOf[b] <= StartOf[x] /\ EndOf[x] <= EndOf[c]
           /\ DurationNanos(trace) =
                IF EndOf[c] < StartOf[b] THEN None ELSE EndOf[c] - StartOf[b]
<1> DEFINE n      == Len(trace.body)
           body   == trace.body
           bodies == Range(body)
           Start  == [i \in 1..n |-> StartOf[body[i]]]
           End    == [i \in 1..n |-> EndOf[body[i]]]
           Starts == {StartOf[b] : b \in bodies}
           Ends   == {EndOf[b] : b \in bodies}
<1>1. n \in Nat \ {0} /\ DOMAIN body = 1..n /\ \A i \in 1..n : body[i] \in Bodies
  OBVIOUS
<1>2. StartOf \in [Bodies -> Nat] /\ EndOf \in [Bodies -> Nat]
  BY ReadApiAssumption
<1>3. bodies = {body[i] : i \in 1..n} /\ bodies \subseteq Bodies
  BY <1>1 DEF Range
<1>d. DurationNanos(trace) = IF Max(Ends) < Min(Starts) THEN None ELSE Max(Ends) - Min(Starts)
  BY DEF DurationNanos, EarliestStart
<1> HIDE DEF n, body, bodies
<1>4. Start \in [1..n -> Nat] /\ End \in [1..n -> Nat]
  BY <1>1, <1>2
<1>5. PICK p \in 1..n : \A j \in 1..n : Start[p] <= Start[j]
  <2>1. 1..n # {}
    BY <1>1
  <2> HIDE DEF Start, End
  <2> QED BY <1>4, <2>1, EarliestExists
<1>6. PICK q \in 1..n : \A j \in 1..n : End[j] <= End[q]
  <2> HIDE DEF Start, End
  <2> QED BY <1>1, <1>4, LatestExists
<1>7. /\ body[p] \in bodies /\ body[q] \in bodies
      /\ \A x \in bodies : StartOf[body[p]] <= StartOf[x] /\ EndOf[x] <= EndOf[body[q]]
  BY <1>3, <1>5, <1>6
<1>8. \A x \in bodies : StartOf[x] \in Nat /\ EndOf[x] \in Nat
  BY <1>2, <1>3
<1>9. Min(Starts) = StartOf[body[p]]
  <2>1. StartOf[body[p]] \in Starts /\ \A y \in Starts : StartOf[body[p]] <= y
    BY <1>7
  <2>2. Starts \subseteq Nat
    BY <1>8
  <2> HIDE DEF Starts
  <2> QED BY <2>1, <2>2 DEF Min
<1>10. Max(Ends) = EndOf[body[q]]
  <2>1. EndOf[body[q]] \in Ends /\ \A y \in Ends : y <= EndOf[body[q]]
    BY <1>7
  <2>2. Ends \subseteq Nat
    BY <1>8
  <2> DEFINE e == EndOf[body[q]]
  <2> HIDE DEF Ends, e
  <2>3. e \in Ends /\ \A y \in Ends : e >= y
    BY <2>1, <2>2 DEF e
  <2>4. \A x \in Ends : (\A y \in Ends : x >= y) => x = e
    BY <2>2, <2>3
  <2> QED BY <2>3, <2>4 DEF Max, e
<1>11. DurationNanos(trace) = IF EndOf[body[q]] < StartOf[body[p]] THEN None
                              ELSE EndOf[body[q]] - StartOf[body[p]]
  BY <1>d, <1>9, <1>10
<1> QED BY <1>7, <1>11 DEF bodies, body

(***************************************************************************)
(* The duration in the list covers every span that does not end before it  *)
(* starts, and is the distance from one span's start to another's end,     *)
(* whatever clocks the spans come from: `checked_sub` is None only when no *)
(* span has a duration.                                                    *)
(***************************************************************************)
THEOREM DurationsCoverSpans == ReadSpec => []DurationCoversSpans
<1>1. IInv /\ NoneEmpty => DurationCoversSpans
  <2> SUFFICES ASSUME IInv, NoneEmpty, NEW t \in Resident
               PROVE  LET duration == ListTraces[t].duration
                          bodies   == Range(traces[t].body)
                      IN  /\ \A b \in bodies : EndOf[b] >= StartOf[b] =>
                               duration # None /\ duration >= EndOf[b] - StartOf[b]
                          /\ duration # None =>
                               \E b, c \in bodies : duration = EndOf[c] - StartOf[b]
    BY DEF DurationCoversSpans
  <2> DEFINE d == DurationNanos(traces[t])
             bodies == Range(traces[t].body)
  <2>1. ListTraces[t].duration = d
    BY DEF ListTraces, Summary
  <2>2. traces[t] \in TraceType /\ RowsAligned(traces[t]) /\ 1 <= SpanCount(traces[t])
    BY DEF IInv, TypeOK, TracesConsistent, NoneEmpty, Resident, Optional
  <2>3. traces[t].body \in Seq(Bodies) /\ Len(traces[t].body) >= 1
    BY <2>2, TraceFieldTypes DEF RowsAligned
  <2>4. PICK b \in bodies, c \in bodies :
          /\ \A x \in bodies : StartOf[b] <= StartOf[x] /\ EndOf[x] <= EndOf[c]
          /\ d = IF EndOf[c] < StartOf[b] THEN None ELSE EndOf[c] - StartOf[b]
    BY <2>3, DurationSpan
  <2>5. \A x \in bodies : StartOf[x] \in Nat /\ EndOf[x] \in Nat
    <3>1. bodies \subseteq Bodies
      BY <2>3 DEF Range
    <3> QED BY <3>1, ReadApiAssumption
  <2> HIDE DEF d, bodies
  <2>6. ASSUME NEW x \in bodies, EndOf[x] >= StartOf[x]
        PROVE  d # None /\ d >= EndOf[x] - StartOf[x]
    <3>1. /\ StartOf[b] <= StartOf[x] /\ EndOf[x] <= EndOf[c]
          /\ StartOf[b] \in Nat /\ EndOf[c] \in Nat /\ StartOf[x] \in Nat /\ EndOf[x] \in Nat
      BY <2>4, <2>5
    <3>2. d = EndOf[c] - StartOf[b] /\ d \in Nat
      BY <3>1, <2>4, <2>6
    <3> QED BY <3>1, <3>2, NoneAssumption
  <2>7. d # None => \E x, y \in bodies : d = EndOf[y] - StartOf[x]
    BY <2>4
  <2> QED BY <2>1, <2>6, <2>7 DEF bodies
<1> QED BY <1>1, ReadInductive, NoneEmptyInv, PTL

-----------------------------------------------------------------------------
(***************************************************************************)
(* The strings a payload of the trace may hold.                            *)
(***************************************************************************)
PayloadString(trace) ==
  {NameOf[trace.body[i]] : i \in 1..SpanCount(trace)}
    \cup {StatusMessageOf[trace.body[i]] : i \in 1..SpanCount(trace)}
    \cup {Get(serviceInterner, trace.serviceNameId[i]) : i \in 1..SpanCount(trace)}

EmptyStrings ==
  [stringTable |-> <<>>, nameIdx |-> <<>>, statusMessageIdx |-> <<>>, serviceIdx |-> <<>>]

(***************************************************************************)
(* The loop of `get_trace` is well defined: a table for every row, each    *)
(* made from the one before it.  The first row without one would follow a  *)
(* row that has one.                                                       *)
(***************************************************************************)
LEMMA PayloadLoop ==
  ASSUME NEW trace, SpanCount(trace) \in Nat
  PROVE  PayloadStrings(trace) =
           [i \in 0..SpanCount(trace) |->
              IF i = 0 THEN EmptyStrings
              ELSE PushPayloadRow(PayloadStrings(trace)[i - 1], trace, i)]
<1> DEFINE n == SpanCount(trace)
           Loop(g, k) == g = [i \in 0..k |-> IF i = 0 THEN EmptyStrings
                                            ELSE PushPayloadRow(g[i - 1], trace, i)]
           K  == {k \in 0..n : ~ \E g : Loop(g, k)}
           id == [k \in K |-> k]
<1>1. PayloadStrings(trace) = CHOOSE g : Loop(g, n)
  BY DEF PayloadStrings, EmptyStrings
<1>2. SUFFICES \E g : Loop(g, n)
  BY <1>1
<1>3. SUFFICES ASSUME K # {} PROVE FALSE
  OBVIOUS
<1>4. PICK k \in K : \A l \in K : k <= l
  <2>1. id \in [K -> Nat] /\ \A x \in K : id[x] = x
    OBVIOUS
  <2> HIDE DEF K, id
  <2>2. \E x \in K : \A y \in K : id[x] <= id[y]
    BY <1>3, <2>1, EarliestExists
  <2> QED BY <2>1, <2>2
<1>5. k \in 0..n /\ ~ \E g : Loop(g, k)
  OBVIOUS
<1> HIDE DEF n
<1>6. CASE k = 0
  <2> DEFINE g == [i \in 0..k |-> EmptyStrings]
  <2>1. Loop(g, k)
    BY <1>6
  <2> QED BY <1>5, <2>1
<1>7. CASE k # 0
  <2>1. k - 1 \in 0..n /\ ~(k <= k - 1)
    BY <1>5, <1>7 DEF n
  <2>2. PICK h : Loop(h, k - 1)
    BY <1>4, <2>1
  <2> DEFINE g == [i \in 0..k |-> IF i = k THEN PushPayloadRow(h[k - 1], trace, k) ELSE h[i]]
  <2>3. ASSUME NEW i \in 0..k
        PROVE  g[i] = IF i = 0 THEN EmptyStrings ELSE PushPayloadRow(g[i - 1], trace, i)
    <3>1. CASE i = k
      <4>1. g[i] = PushPayloadRow(h[k - 1], trace, k) /\ g[k - 1] = h[k - 1]
        BY <3>1, <1>5, <1>7, <2>1
      <4> QED BY <3>1, <4>1, <1>7
    <3>2. CASE i # k
      <4>1. i \in 0..(k - 1) /\ g[i] = h[i]
        BY <3>2, <1>5
      <4>2. h[i] = IF i = 0 THEN EmptyStrings ELSE PushPayloadRow(h[i - 1], trace, i)
        BY <2>2, <4>1
      <4>3. i # 0 => i - 1 \in 0..k /\ i - 1 # k
        BY <4>1, <1>5
      <4>4. i # 0 => g[i - 1] = h[i - 1]
        BY <4>3
      <4> QED BY <4>1, <4>2, <4>4
    <3> QED BY <3>1, <3>2
  <2>4. Loop(g, k)
    BY <2>3
  <2> QED BY <1>5, <2>4
<1> QED BY <1>6, <1>7

(***************************************************************************)
(* `StringTable`: every string once.                                       *)
(***************************************************************************)
Distinct(strings) ==
  \A i, j \in 1..Len(strings) : strings[i] = strings[j] => i = j

Extends(longer, strings) ==
  /\ Len(strings) <= Len(longer)
  /\ \A i \in 1..Len(strings) : longer[i] = strings[i]

(***************************************************************************)
(* `StringTable::intern` adds a string it does not have and moves none.    *)
(***************************************************************************)
LEMMA InternStringInv ==
  ASSUME NEW U, NEW strings \in Seq(U), Distinct(strings), NEW s \in U
  PROVE  /\ InternString(strings, s) \in Seq(U)
         /\ Distinct(InternString(strings, s))
         /\ Extends(InternString(strings, s), strings)
         /\ \E i \in 1..Len(InternString(strings, s)) : InternString(strings, s)[i] = s
<1>1. Range(strings) = {strings[i] : i \in 1..Len(strings)} /\ Len(strings) \in Nat
  BY DEF Range
<1>2. CASE s \in Range(strings)
  BY <1>1, <1>2 DEF InternString, Extends
<1>3. CASE s \notin Range(strings)
  <2> DEFINE r == Append(strings, s)
  <2>1. /\ InternString(strings, s) = r /\ r \in Seq(U) /\ Len(r) = Len(strings) + 1
        /\ r[Len(strings) + 1] = s /\ \A i \in 1..Len(strings) : r[i] = strings[i]
    BY <1>1, <1>3 DEF InternString
  <2> HIDE DEF r
  <2>2. \A i \in 1..Len(r) : i \in 1..Len(strings) \/ i = Len(strings) + 1
    BY <1>1, <2>1
  <2>3. \A i \in 1..Len(strings) : r[i] # s
    BY <1>1, <1>3, <2>1
  <2>4. Distinct(r)
    BY <2>1, <2>2, <2>3 DEF Distinct
  <2>5. Len(strings) + 1 \in 1..Len(r)
    BY <1>1, <2>1
  <2>6. Extends(r, strings)
    BY <1>1, <2>1 DEF Extends
  <2> QED BY <2>1, <2>4, <2>5, <2>6
<1> QED BY <1>2, <1>3

(***************************************************************************)
(* Growing a table twice grows it.                                         *)
(***************************************************************************)
LEMMA ExtendsTransitive ==
  ASSUME NEW U, NEW a \in Seq(U), NEW b \in Seq(U), NEW c \in Seq(U),
         Extends(b, a), Extends(c, b)
  PROVE  Extends(c, a)
<1>1. Len(a) \in Nat /\ Len(b) \in Nat /\ Len(c) \in Nat
  OBVIOUS
<1> QED BY <1>1 DEF Extends

(***************************************************************************)
(* The id of a string, once in the table, leads back to it, and still does *)
(* when the table has grown.                                               *)
(***************************************************************************)
Resolves(table, id, s) == id \in Nat /\ id < Len(table) /\ table[id + 1] = s

(***************************************************************************)
(* The id `intern` returns.                                                *)
(***************************************************************************)
LEMMA StringIdResolves ==
  ASSUME NEW U, NEW table \in Seq(U), NEW s, \E i \in 1..Len(table) : table[i] = s
  PROVE  Resolves(table, StringId(table, s), s)
<1> DEFINE i == CHOOSE i \in 1..Len(table) : table[i] = s
<1>1. i \in 1..Len(table) /\ table[i] = s /\ Len(table) \in Nat
  OBVIOUS
<1>2. StringId(table, s) = i - 1
  BY DEF StringId
<1> HIDE DEF i
<1>3. i - 1 \in Nat /\ i - 1 < Len(table) /\ (i - 1) + 1 = i
  BY <1>1
<1> QED BY <1>1, <1>2, <1>3 DEF Resolves

(***************************************************************************)
(* An id given out keeps its meaning.                                      *)
(***************************************************************************)
LEMMA ResolvesKept ==
  ASSUME NEW U, NEW a \in Seq(U), NEW b \in Seq(U), Extends(b, a),
         NEW id, NEW s, Resolves(a, id, s)
  PROVE  Resolves(b, id, s)
<1>1. Len(a) \in Nat /\ Len(b) \in Nat /\ id \in Nat /\ id + 1 \in 1..Len(a)
  BY DEF Resolves
<1> QED BY <1>1 DEF Resolves, Extends

(***************************************************************************)
(* A payload after k rows: the table and the three columns of ids, each id *)
(* leading back to the string of its row.                                  *)
(***************************************************************************)
StringsType(trace) ==
  [stringTable : Seq(PayloadString(trace)), nameIdx : Seq(Nat),
   statusMessageIdx : Seq(Nat), serviceIdx : Seq(Optional(Nat))]

RowDecoded(p, trace, i) ==
  /\ Resolves(p.stringTable, p.nameIdx[i], NameOf[trace.body[i]])
  /\ Resolves(p.stringTable, p.statusMessageIdx[i], StatusMessageOf[trace.body[i]])
  /\ IF trace.serviceNameId[i] = None THEN p.serviceIdx[i] = None
     ELSE Resolves(p.stringTable, p.serviceIdx[i],
                   Get(serviceInterner, trace.serviceNameId[i]))

Decoded(p, trace, k) ==
  /\ p \in StringsType(trace)
  /\ Distinct(p.stringTable)
  /\ Len(p.nameIdx) = k /\ Len(p.statusMessageIdx) = k /\ Len(p.serviceIdx) = k
  /\ \A i \in 1..k : RowDecoded(p, trace, i)

(***************************************************************************)
(* A column of k ids with one more pushed on it.                           *)
(***************************************************************************)
LEMMA PushedId ==
  ASSUME NEW S, NEW column \in Seq(S), NEW k \in Nat, Len(column) = k, NEW e \in S
  PROVE  /\ Len(Append(column, e)) = k + 1
         /\ Append(column, e)[k + 1] = e
         /\ \A x \in 1..k : Append(column, e)[x] = column[x]
OBVIOUS

(***************************************************************************)
(* One turn of the loop: the ids of the new row resolve, and those of the  *)
(* rows before it still do.                                                *)
(***************************************************************************)
LEMMA PushDecoded ==
  ASSUME NEW trace, SpanCount(trace) \in Nat, NEW k \in Nat, k + 1 \in 1..SpanCount(trace),
         NEW p, Decoded(p, trace, k)
  PROVE  Decoded(PushPayloadRow(p, trace, k + 1), trace, k + 1)
<1> DEFINE U       == PayloadString(trace)
           i       == k + 1
           name    == NameOf[trace.body[i]]
           message == StatusMessageOf[trace.body[i]]
           service == trace.serviceNameId[i]
           string  == Get(serviceInterner, service)
           first   == InternString(p.stringTable, name)
           named   == InternString(first, message)
           table   == IF service = None THEN named ELSE InternString(named, string)
           r       == PushPayloadRow(p, trace, i)
           sid     == IF service = None THEN None ELSE StringId(table, string)
<1>p. /\ p \in StringsType(trace) /\ p.stringTable \in Seq(U) /\ Distinct(p.stringTable)
      /\ p.nameIdx \in Seq(Nat) /\ p.statusMessageIdx \in Seq(Nat)
      /\ p.serviceIdx \in Seq(Optional(Nat))
      /\ Len(p.nameIdx) = k /\ Len(p.statusMessageIdx) = k /\ Len(p.serviceIdx) = k
      /\ \A x \in 1..k : RowDecoded(p, trace, x)
  BY DEF Decoded, StringsType
<1>u. name \in U /\ message \in U /\ string \in U
  BY DEF PayloadString
<1>r. r = [p EXCEPT !.stringTable      = table,
                    !.nameIdx          = Append(@, StringId(table, name)),
                    !.statusMessageIdx = Append(@, StringId(table, message)),
                    !.serviceIdx       = Append(@, sid)]
  BY DEF PushPayloadRow
<1> HIDE DEF U, name, message, service, string, r
<1>1. /\ first \in Seq(U) /\ Distinct(first) /\ Extends(first, p.stringTable)
      /\ \E j \in 1..Len(first) : first[j] = name
  BY <1>p, <1>u, InternStringInv
<1> HIDE DEF first
<1>2. /\ named \in Seq(U) /\ Distinct(named) /\ Extends(named, first)
      /\ \E j \in 1..Len(named) : named[j] = message
  BY <1>1, <1>u, InternStringInv
<1> HIDE DEF named
<1>3. /\ table \in Seq(U) /\ Distinct(table) /\ Extends(table, named)
      /\ service # None => \E j \in 1..Len(table) : table[j] = string
  <2>1. CASE service = None
    BY <1>2, <2>1 DEF Extends
  <2>2. CASE service # None
    BY <1>2, <1>u, <2>2, InternStringInv
  <2> QED BY <2>1, <2>2
<1> HIDE DEF table
<1>4. Extends(table, first) /\ Extends(table, p.stringTable)
  <2>1. Extends(table, first)
    BY <1>1, <1>2, <1>3, ExtendsTransitive
  <2> QED BY <2>1, <1>p, <1>1, <1>3, ExtendsTransitive
<1>5. Resolves(table, StringId(table, name), name)
  <2>1. Resolves(first, StringId(first, name), name)
    BY <1>1, StringIdResolves
  <2>2. Resolves(table, StringId(first, name), name)
    BY <2>1, <1>1, <1>3, <1>4, ResolvesKept
  <2>3. Len(table) \in Nat
    BY <1>3
  <2>4. StringId(first, name) + 1 \in 1..Len(table) /\ table[StringId(first, name) + 1] = name
    BY <2>2, <2>3 DEF Resolves
  <2>5. \E j \in 1..Len(table) : table[j] = name
    BY <2>4
  <2> QED BY <2>5, <1>3, StringIdResolves
<1>6. Resolves(table, StringId(table, message), message)
  <2>1. Resolves(named, StringId(named, message), message)
    BY <1>2, StringIdResolves
  <2>2. Resolves(table, StringId(named, message), message)
    BY <2>1, <1>2, <1>3, ResolvesKept
  <2>3. Len(table) \in Nat
    BY <1>3
  <2>4. /\ StringId(named, message) + 1 \in 1..Len(table)
        /\ table[StringId(named, message) + 1] = message
    BY <2>2, <2>3 DEF Resolves
  <2>5. \E j \in 1..Len(table) : table[j] = message
    BY <2>4
  <2> QED BY <2>5, <1>3, StringIdResolves
<1>7. service # None => Resolves(table, sid, string)
  BY <1>3, StringIdResolves
<1>8. /\ StringId(table, name) \in Nat /\ StringId(table, message) \in Nat
      /\ sid \in Optional(Nat)
  BY <1>5, <1>6, <1>7 DEF Resolves, Optional
<1> HIDE DEF sid
<1>9. /\ r \in StringsType(trace) /\ r.stringTable = table
      /\ r.nameIdx = Append(p.nameIdx, StringId(table, name))
      /\ r.statusMessageIdx = Append(p.statusMessageIdx, StringId(table, message))
      /\ r.serviceIdx = Append(p.serviceIdx, sid)
  <2>1. /\ Append(p.nameIdx, StringId(table, name)) \in Seq(Nat)
        /\ Append(p.statusMessageIdx, StringId(table, message)) \in Seq(Nat)
        /\ Append(p.serviceIdx, sid) \in Seq(Optional(Nat))
    BY <1>p, <1>8
  <2> QED BY <2>1, <1>p, <1>r, <1>3 DEF StringsType, U
<1>10. /\ Len(r.nameIdx) = i /\ Len(r.statusMessageIdx) = i /\ Len(r.serviceIdx) = i
       /\ r.nameIdx[i] = StringId(table, name)
       /\ r.statusMessageIdx[i] = StringId(table, message)
       /\ r.serviceIdx[i] = sid
       /\ \A x \in 1..k : /\ r.nameIdx[x] = p.nameIdx[x]
                          /\ r.statusMessageIdx[x] = p.statusMessageIdx[x]
                          /\ r.serviceIdx[x] = p.serviceIdx[x]
  <2>1. /\ Len(r.nameIdx) = i /\ r.nameIdx[i] = StringId(table, name)
        /\ \A x \in 1..k : r.nameIdx[x] = p.nameIdx[x]
    BY <1>9, <1>p, <1>8, PushedId
  <2>2. /\ Len(r.statusMessageIdx) = i /\ r.statusMessageIdx[i] = StringId(table, message)
        /\ \A x \in 1..k : r.statusMessageIdx[x] = p.statusMessageIdx[x]
    BY <1>9, <1>p, <1>8, PushedId
  <2>3. /\ Len(r.serviceIdx) = i /\ r.serviceIdx[i] = sid
        /\ \A x \in 1..k : r.serviceIdx[x] = p.serviceIdx[x]
    BY <1>9, <1>p, <1>8, PushedId
  <2> QED BY <2>1, <2>2, <2>3
<1>11. ASSUME NEW x \in 1..k PROVE RowDecoded(r, trace, x)
  <2>1. RowDecoded(p, trace, x)
    BY <1>p
  <2>2. \A id, s : Resolves(p.stringTable, id, s) => Resolves(table, id, s)
    BY <1>p, <1>3, <1>4, ResolvesKept
  <2>3. /\ r.stringTable = table /\ r.nameIdx[x] = p.nameIdx[x]
        /\ r.statusMessageIdx[x] = p.statusMessageIdx[x] /\ r.serviceIdx[x] = p.serviceIdx[x]
    BY <1>9, <1>10
  <2> QED BY ONLY <2>1, <2>2, <2>3 DEF RowDecoded
<1>12. RowDecoded(r, trace, i)
  <2>1. service = None => sid = None
    BY DEF sid
  <2> QED BY <2>1, <1>5, <1>6, <1>7, <1>9, <1>10 DEF RowDecoded, name, message, service, string
<1>13. \A x \in 1..i : RowDecoded(r, trace, x)
  <2>1. \A x \in 1..i : x \in 1..k \/ x = i
    OBVIOUS
  <2> QED BY <2>1, <1>11, <1>12
<1> QED BY <1>3, <1>9, <1>10, <1>13 DEF Decoded, r

(***************************************************************************)
(* The whole loop.                                                         *)
(***************************************************************************)
LEMMA LoopDecoded ==
  ASSUME NEW trace, SpanCount(trace) \in Nat
  PROVE  Decoded(PayloadStrings(trace)[SpanCount(trace)], trace, SpanCount(trace))
<1> DEFINE n  == SpanCount(trace)
           f  == PayloadStrings(trace)
           K  == {k \in 0..n : ~Decoded(f[k], trace, k)}
           id == [k \in K |-> k]
<1>1. f = [i \in 0..n |-> IF i = 0 THEN EmptyStrings ELSE PushPayloadRow(f[i - 1], trace, i)]
  BY PayloadLoop
<1> HIDE DEF f
<1>2. SUFFICES ASSUME K # {} PROVE FALSE
  BY DEF f
<1>3. PICK k \in K : \A l \in K : k <= l
  <2>1. id \in [K -> Nat] /\ \A x \in K : id[x] = x
    OBVIOUS
  <2> HIDE DEF K, id
  <2>2. \E x \in K : \A y \in K : id[x] <= id[y]
    BY <1>2, <2>1, EarliestExists
  <2> QED BY <2>1, <2>2
<1>4. k \in 0..n /\ ~Decoded(f[k], trace, k)
  OBVIOUS
<1>5. CASE k = 0
  <2>1. f[k] = EmptyStrings
    BY <1>1, <1>4, <1>5
  <2>2. EmptyStrings \in StringsType(trace)
    BY DEF EmptyStrings, StringsType
  <2>3. Decoded(EmptyStrings, trace, 0)
    BY <2>2 DEF EmptyStrings, Decoded, Distinct
  <2> QED BY <1>4, <1>5, <2>1, <2>3
<1>6. CASE k # 0
  <2>1. k - 1 \in 0..n /\ ~(k <= k - 1) /\ k - 1 \in Nat /\ (k - 1) + 1 = k /\ k \in 1..n
    BY <1>4, <1>6
  <2>2. Decoded(f[k - 1], trace, k - 1)
    BY <1>3, <2>1
  <2>3. Decoded(PushPayloadRow(f[k - 1], trace, (k - 1) + 1), trace, (k - 1) + 1)
    BY <2>1, <2>2, PushDecoded
  <2>4. f[k] = PushPayloadRow(f[k - 1], trace, k)
    BY <1>1, <1>4, <1>6
  <2> QED BY <1>4, <2>1, <2>3, <2>4
<1> QED BY <1>5, <1>6

(***************************************************************************)
(* Every id in the payload of GET /api/traces/:id leads to the string of   *)
(* its row through the table that names, status messages and service names *)
(* share, each string is in the table once, and every column is as long as *)
(* the trace has rows.                                                     *)
(***************************************************************************)
THEOREM PayloadsDecode == ReadSpec => []PayloadDecodes
<1>1. IInv => PayloadDecodes
  <2> SUFFICES ASSUME IInv, NEW t \in Resident
               PROVE  Decodes(GetTrace(traces[t]), traces[t])
    BY DEF PayloadDecodes
  <2> DEFINE trace   == traces[t]
             n       == SpanCount(trace)
             payload == GetTrace(trace)
             p       == PayloadStrings(trace)[n]
  <2>1. trace \in TraceType /\ RowsAligned(trace)
    BY DEF IInv, TypeOK, TracesConsistent, Resident, Optional
  <2>2. n \in Nat /\ Len(trace.parentIdx) = n /\ Len(trace.orphan) = n
    BY <2>1, TraceFieldTypes DEF RowsAligned
  <2>3. Decoded(p, trace, n)
    BY <2>2, LoopDecoded
  <2>4. /\ payload.stringTable = p.stringTable /\ payload.nameIdx = p.nameIdx
        /\ payload.statusMessageIdx = p.statusMessageIdx /\ payload.serviceIdx = p.serviceIdx
        /\ payload.parentIdx = trace.parentIdx /\ payload.orphan = trace.orphan
    BY DEF GetTrace
  <2> HIDE DEF trace, n, payload, p
  <2>5. \A column \in {"parentIdx", "orphan", "nameIdx", "statusMessageIdx", "serviceIdx"} :
          Len(payload[column]) = n
    BY <2>2, <2>3, <2>4 DEF Decoded
  <2>6. \A i, j \in 1..Len(payload.stringTable) :
          payload.stringTable[i] = payload.stringTable[j] => i = j
    BY <2>3, <2>4 DEF Decoded, Distinct
  <2>7. \A i \in 1..n :
          /\ payload.stringTable[payload.nameIdx[i] + 1] = NameOf[trace.body[i]]
          /\ payload.stringTable[payload.statusMessageIdx[i] + 1] = StatusMessageOf[trace.body[i]]
          /\ IF trace.serviceNameId[i] = None THEN payload.serviceIdx[i] = None
             ELSE payload.stringTable[payload.serviceIdx[i] + 1]
                    = Get(serviceInterner, trace.serviceNameId[i])
    BY <2>3, <2>4 DEF Decoded, RowDecoded, Resolves
  <2>8. Decodes(payload, trace)
    BY <2>5, <2>6, <2>7 DEF Decodes, n
  <2> QED BY <2>8 DEF payload, trace
<1> QED BY <1>1, ReadInductive, PTL

-----------------------------------------------------------------------------
(***************************************************************************)
(* The filter.  A row's ids are ids with a name.                           *)
(***************************************************************************)
LEMMA RowIds ==
  ASSUME IInv, NamesInv, NEW t \in Resident, NEW i \in 1..SpanCount(traces[t])
  PROVE  /\ traces[t].serviceNameId[i] \in Optional(Nat)
         /\ traces[t].serviceNameId[i] # None =>
              traces[t].serviceNameId[i] < Len(serviceInterner.values)
         /\ \A a \in Range(Attributes(traces[t], i)) :
              a.key \in Nat /\ a.key < Len(keyInterner.values) /\ a.value \in AttrValues
         /\ traces[t].body[i] \in Bodies
<1> DEFINE trace == traces[t]
           s     == trace.spanIds[i]
           row   == RowOf(trace, i)
           attrs == Attributes(trace, i)
<1>1. TraceInv(trace)
  BY ResidentInv
<1> HIDE DEF trace
<1>2. s \in SpanIds /\ trace.spanIndex[s] = i
  <2>1. trace.spanIds \in Seq(SpanIds)
    BY <1>1, TraceFieldTypes DEF TraceInv
  <2>2. s \in SpanIds
    BY <2>1, ElementOfSeq DEF SpanCount, trace
  <2> QED BY <2>2, <1>1 DEF TraceInv, IndexInverse, trace
<1>3. i # None
  BY NoneAssumption, SliceBounds, <1>1 DEF trace
<1>4. TableOf(trace)[s] = row
  BY <1>2, <1>3, TableRows
<1>5. row \in RowType /\ row # None
  BY <1>1, RowOfType, NoneIsNoSpan DEF trace
<1>6. RowValid(row, keyInterner, serviceInterner)
  BY <1>2, <1>4, <1>5 DEF NamesInv, RowIdsValid, trace
<1>7. row.service = trace.serviceNameId[i] /\ row.attrs = attrs /\ row.body = trace.body[i]
  BY DEF RowOf
<1>8. attrs \in Seq(InternedAttr)
  BY <1>1, AttributesType DEF trace
<1>9. ASSUME NEW a \in Range(attrs)
      PROVE  a.key \in Nat /\ a.key < Len(keyInterner.values) /\ a.value \in AttrValues
  <2>1. PICK j \in 1..Len(attrs) : a = attrs[j]
    BY <1>8 DEF Range
  <2>2. a \in InternedAttr
    BY <2>1, <1>8, ElementOfSeq
  <2> HIDE DEF attrs, row
  <2> QED BY <2>1, <2>2, <1>6, <1>7 DEF RowValid, InternedAttr
<1> HIDE DEF row, attrs
<1> QED BY <1>5, <1>6, <1>7, <1>9 DEF RowType, RowValid, trace, attrs

(***************************************************************************)
(* A key with an id keeps it while the table grows.                        *)
(***************************************************************************)
LEMMA LookupStable ==
  ASSUME NEW k \in InternerType(KeyNames), InternerConsistent(k, KeyNames),
         NEW k2 \in InternerType(KeyNames), InternerConsistent(k2, KeyNames), Grown(k, k2),
         NEW key \in KeyNames, Lookup(k, key) # None
  PROVE  Lookup(k2, key) = Lookup(k, key)
<1> DEFINE id == Lookup(k, key)
<1>1. /\ k.map \in [KeyNames -> Optional(Nat)]
      /\ Len(k.values) \in Nat /\ Len(k2.values) \in Nat
  BY DEF InternerType
<1>2. id \in Nat
  BY <1>1 DEF Lookup, Optional
<1>3. id < Len(k.values) /\ k.values[id + 1] = key
  BY DEF InternerConsistent, Get
<1> HIDE DEF id
<1>4. id + 1 \in 1..Len(k.values) /\ id + 1 \in 1..Len(k2.values)
  BY <1>1, <1>2, <1>3 DEF Grown
<1>5. k2.values[id + 1] = key
  BY <1>3, <1>4 DEF Grown
<1>6. Lookup(k2, key) = (id + 1) - 1
  BY <1>4, <1>5 DEF InternerConsistent
<1> QED BY <1>2, <1>6 DEF id

(***************************************************************************)
(* A key that gets its id while the table grows gets one that no key had.  *)
(***************************************************************************)
LEMMA LookupFresh ==
  ASSUME NEW k \in InternerType(KeyNames), InternerConsistent(k, KeyNames),
         NEW k2 \in InternerType(KeyNames), InternerConsistent(k2, KeyNames), Grown(k, k2),
         NEW key \in KeyNames, Lookup(k, key) = None, Lookup(k2, key) # None
  PROVE  Lookup(k2, key) \in Nat /\ Lookup(k2, key) >= Len(k.values)
<1> DEFINE id == Lookup(k2, key)
<1>1. /\ k2.map \in [KeyNames -> Optional(Nat)]
      /\ Len(k.values) \in Nat /\ Len(k2.values) \in Nat
  BY DEF InternerType
<1>2. id \in Nat
  BY <1>1 DEF Lookup, Optional
<1>3. k2.values[id + 1] = key
  BY DEF InternerConsistent, Get
<1>4. ASSUME id < Len(k.values) PROVE FALSE
  <2> HIDE DEF id
  <2>1. id + 1 \in 1..Len(k.values)
    BY <1>1, <1>2, <1>4
  <2>2. k.values[id + 1] = key
    BY <1>3, <2>1 DEF Grown
  <2>3. Lookup(k, key) = (id + 1) - 1
    BY <2>1, <2>2 DEF InternerConsistent
  <2> QED BY <2>3, <1>2, NoneAssumption
<1> HIDE DEF id
<1>5. id \in Nat /\ id >= Len(k.values)
  BY <1>1, <1>2, <1>4
<1> QED BY <1>5 DEF id

(***************************************************************************)
(* Every step of the writer lets the interners grow and nothing else.      *)
(***************************************************************************)
LEMMA InternersGrow ==
  ASSUME IInv, NamesInv, [Next]_vars
  PROVE  Grown(keyInterner, keyInterner') /\ Grown(serviceInterner, serviceInterner')
<1>0. Grown(keyInterner, keyInterner) /\ Grown(serviceInterner, serviceInterner)
  BY InternerTypes, GrownSame
<1>1. CASE BeginSpan
  <2>1. keyInterner' = keyInterner
    BY <1>1 DEF BeginSpan
  <2> QED BY <1>0, <1>1, <2>1, ServiceLearnt
<1>2. CASE InternAttr
  <2>1. serviceInterner' = serviceInterner
    BY <1>2 DEF InternAttr
  <2> QED BY <1>0, <1>2, <2>1, InternAttrNames
<1>3. CASE UNCHANGED <<keyInterner, serviceInterner>>
  BY <1>0, <1>3
<1> QED BY <1>1, <1>2, <1>3
        DEF Next, WriterStep, Recv, InsertSpan, InsertRow, EndAppend, EvictOldest, Release,
            Notify, vars, storeVars

(***************************************************************************)
(* A query of one token has that token as its term, unless it is dropped.  *)
(***************************************************************************)
LEMMA OneTerm ==
  ASSUME NEW token
  PROVE  \A x : x \in {y \in Range(<<token>>) : ~IsDropped(y)} <=> (x = token /\ ~IsDropped(token))
<1>1. Range(<<token>>) = {token}
  BY DEF Range
<1> QED BY <1>1

(***************************************************************************)
(* The answer to one term is the rows that match it.                       *)
(***************************************************************************)
LEMMA RowsOfTerm ==
  ASSUME NEW trace, NEW token
  PROVE  Rows(trace, token) =
           {i \in 1..SpanCount(trace) : ~IsDropped(token) => Matches(token, trace, i)}
<1> DEFINE terms == {x \in Range(<<token>>) : ~IsDropped(x)}
<1>1. \A x : x \in terms <=> (x = token /\ ~IsDropped(token))
  BY OneTerm
<1> HIDE DEF terms
<1>2. Rows(trace, token) = {i \in 1..SpanCount(trace) : \A x \in terms : Matches(x, trace, i)}
  BY DEF Rows, GetFilter, terms
<1> QED BY <1>1, <1>2

(***************************************************************************)
(* A row that has not changed matches a term after a step if and only if   *)
(* it did before, unless the step gave the term's key its id.              *)
(***************************************************************************)
LEMMA MatchStable ==
  ASSUME IInv, NamesInv, IInv', [Next]_vars, NEW t \in Resident, traces'[t] = traces[t],
         NEW token \in Tokens, NEW i \in 1..SpanCount(traces[t]),
         \/ IsSubstring(token) \/ token.key \in {"service", "status", "duration"}
         \/ ~NewlyKnown(token.key)
  PROVE  Matches(token, traces[t], i)' = Matches(token, traces[t], i)
<1>1. /\ keyInterner \in InternerType(KeyNames) /\ InternerConsistent(keyInterner, KeyNames)
      /\ keyInterner' \in InternerType(KeyNames) /\ InternerConsistent(keyInterner', KeyNames)
      /\ Len(serviceInterner.values) \in Nat
  <2>1. /\ serviceInterner \in InternerType(ServiceNames)
        /\ keyInterner \in InternerType(KeyNames) /\ InternerConsistent(keyInterner, KeyNames)
    BY InternerTypes
  <2>2. keyInterner' \in InternerType(KeyNames) /\ InternerConsistent(keyInterner', KeyNames)
    BY DEF IInv, TypeOK, TracesConsistent
  <2> QED BY <2>1, <2>2 DEF InternerType
<1>2. Grown(keyInterner, keyInterner') /\ Grown(serviceInterner, serviceInterner')
  BY InternersGrow
<1>3. token \in TokenType
  BY FilterAssumption
<1>4. MatchesSubstring(token, traces[t], i)' = MatchesSubstring(token, traces[t], i)
  BY DEF MatchesSubstring, Attributes, AttributeCount
<1>5. MatchesService(token, traces[t], i)' = MatchesService(token, traces[t], i)
  <2> DEFINE id == traces[t].serviceNameId[i]
  <2>1. id \in Optional(Nat) /\ (id # None => id < Len(serviceInterner.values))
    BY RowIds
  <2>2. id # None => Get(serviceInterner', id) = Get(serviceInterner, id)
    <3> HIDE DEF id
    <3> QED BY <1>1, <1>2, <2>1 DEF Grown, Get, Optional
  <2>3. traces'[t].serviceNameId[i] = id
    OBVIOUS
  <2> QED BY <2>2, <2>3 DEF MatchesService
<1>6. MatchesStatus(token, traces[t], i)' = MatchesStatus(token, traces[t], i)
  BY DEF MatchesStatus
<1>7. MatchesDuration(token, traces[t], i)' = MatchesDuration(token, traces[t], i)
  BY DEF MatchesDuration
<1>8. ASSUME ~IsSubstring(token), token.key \notin {"service", "status", "duration"}
      PROVE  MatchesAttr(token, traces[t], i)' = MatchesAttr(token, traces[t], i)
  <2>1. token.key \in KeyNames
    BY <1>3, <1>8 DEF TokenType
  <2>2. Lookup(keyInterner', token.key) = Lookup(keyInterner, token.key)
    <3>1. CASE Lookup(keyInterner, token.key) # None
      BY <1>1, <1>2, <2>1, <3>1, LookupStable
    <3>2. CASE Lookup(keyInterner, token.key) = None
      BY <1>8, <3>2 DEF NewlyKnown
    <3> QED BY <3>1, <3>2
  <2>3. Attributes(traces'[t], i) = Attributes(traces[t], i)
    OBVIOUS
  <2> QED BY <2>2, <2>3 DEF MatchesAttr
<1> QED BY <1>4, <1>5, <1>6, <1>7, <1>8 DEF Matches, IsSubstring

(***************************************************************************)
(* No row of a trace matches a term whose key has no id; when a step gives *)
(* it one, a row that has not changed carries it nowhere.                  *)
(***************************************************************************)
LEMMA MatchNewlyKnown ==
  ASSUME IInv, NamesInv, IInv', [Next]_vars, NEW t \in Resident, traces'[t] = traces[t],
         NEW token \in Tokens, NEW i \in 1..SpanCount(traces[t]),
         ~IsSubstring(token), token.key \in KeyNames \ {"service", "status", "duration"},
         NewlyKnown(token.key)
  PROVE  /\ ~Matches(token, traces[t], i)
         /\ Matches(token, traces[t], i)' <=> token.op = "!="
<1>1. /\ keyInterner \in InternerType(KeyNames) /\ InternerConsistent(keyInterner, KeyNames)
      /\ keyInterner' \in InternerType(KeyNames) /\ InternerConsistent(keyInterner', KeyNames)
  <2>1. keyInterner \in InternerType(KeyNames) /\ InternerConsistent(keyInterner, KeyNames)
    BY InternerTypes
  <2>2. keyInterner' \in InternerType(KeyNames) /\ InternerConsistent(keyInterner', KeyNames)
    BY DEF IInv, TypeOK, TracesConsistent
  <2> QED BY <2>1, <2>2
<1>2. Grown(keyInterner, keyInterner')
  BY InternersGrow
<1>3. ~MatchesAttr(token, traces[t], i)
  BY DEF MatchesAttr, NewlyKnown
<1>4. MatchesAttr(token, traces[t], i)' <=> token.op = "!="
  <2> DEFINE id    == Lookup(keyInterner', token.key)
             attrs == Range(Attributes(traces[t], i))
             found == {a.value : a \in {x \in attrs : x.key = id}}
  <2>1. id \in Nat /\ id >= Len(keyInterner.values) /\ Len(keyInterner.values) \in Nat
    <3>1. token.key \in KeyNames /\ Lookup(keyInterner, token.key) = None
          /\ Lookup(keyInterner', token.key) # None
      BY DEF NewlyKnown
    <3>2. Len(keyInterner.values) \in Nat
      BY <1>1 DEF InternerType
    <3>3. id \in Nat /\ id >= Len(keyInterner.values)
      BY <1>1, <1>2, <3>1, LookupFresh
    <3> QED BY <3>2, <3>3
  <2>2. \A a \in attrs : a.key \in Nat /\ a.key < Len(keyInterner.values)
    BY RowIds
  <2>3. Range(Attributes(traces'[t], i)) = attrs
    OBVIOUS
  <2>4. MatchesAttr(token, traces[t], i)' <=>
          /\ id # None
          /\ IF found = {} THEN token.op = "!="
             ELSE \E v \in found : AttrMatches(token.op, v, token.value)
    BY <2>3 DEF MatchesAttr, MatchesAbsent
  <2> HIDE DEF id, attrs
  <2>5. found = {}
    BY <2>1, <2>2
  <2> HIDE DEF found
  <2> QED BY <2>1, <2>4, <2>5, NoneAssumption
<1> QED BY <1>3, <1>4 DEF Matches, IsSubstring

(***************************************************************************)
(* AnswerStable: filter.rs gives the same rows of a trace that has stayed  *)
(* as it is, whatever the writer has done to others and to the interners,  *)
(* but for `key!=value` when the key comes to be known: it goes from no    *)
(* row to all of them.                                                     *)
(***************************************************************************)
THEOREM AnswersAreStable == Spec => AnswerStable
<1>1. IInv /\ NamesInv /\ IInv' /\ [Next]_vars =>
        [\A t \in Resident, token \in Tokens :
           traces[t]' = traces[t] =>
             \/ Rows(traces[t], token)' = Rows(traces[t], token)
             \/ /\ IsAttrToken(token) /\ token.op = "!=" /\ NewlyKnown(token.key)
                /\ Rows(traces[t], token) = {}
                /\ Rows(traces[t], token)' = 1..SpanCount(traces[t])]_vars
  <2> SUFFICES ASSUME IInv, NamesInv, IInv', [Next]_vars, NEW t \in Resident, NEW token \in Tokens,
                      traces[t]' = traces[t]
               PROVE  \/ Rows(traces[t], token)' = Rows(traces[t], token)
                      \/ /\ IsAttrToken(token) /\ token.op = "!=" /\ NewlyKnown(token.key)
                         /\ Rows(traces[t], token) = {}
                         /\ Rows(traces[t], token)' = 1..SpanCount(traces[t])
    OBVIOUS
  <2>1. /\ Rows(traces[t], token) =
             {i \in 1..SpanCount(traces[t]) : ~IsDropped(token) => Matches(token, traces[t], i)}
        /\ Rows(traces[t], token)' =
             {i \in 1..SpanCount(traces[t]) : ~IsDropped(token) => Matches(token, traces[t], i)'}
    <3> DEFINE terms == {x \in Range(<<token>>) : ~IsDropped(x)}
    <3>1. Rows(traces[t], token)' =
            {i \in 1..SpanCount(traces[t]') : \A x \in terms : Matches(x, traces[t], i)'}
      BY DEF Rows, GetFilter
    <3>2. \A x : x \in terms <=> (x = token /\ ~IsDropped(token))
      BY OneTerm
    <3> HIDE DEF terms
    <3> QED BY <3>1, <3>2, RowsOfTerm
  <2>2. CASE \/ IsSubstring(token) \/ token.key \in {"service", "status", "duration"}
             \/ ~NewlyKnown(token.key)
    <3>1. \A i \in 1..SpanCount(traces[t]) :
            Matches(token, traces[t], i)' = Matches(token, traces[t], i)
      BY <2>2, MatchStable
    <3> QED BY <2>1, <3>1
  <2>3. CASE IsDropped(token)
    BY <2>1, <2>3
  <2>4. CASE /\ ~IsDropped(token) /\ ~IsSubstring(token) /\ NewlyKnown(token.key)
             /\ token.key \notin {"service", "status", "duration"}
    <3>1. token.key \in KeyNames
      BY <2>4, FilterAssumption DEF TokenType
    <3>2. \A i \in 1..SpanCount(traces[t]) :
            /\ ~Matches(token, traces[t], i)
            /\ Matches(token, traces[t], i)' <=> token.op = "!="
      BY <2>4, <3>1, MatchNewlyKnown
    <3>3. Rows(traces[t], token) = {}
      BY <2>1, <2>4, <3>2
    <3>4. CASE token.op = "!="
      <4>1. Rows(traces[t], token)' = 1..SpanCount(traces[t])
        BY <2>1, <3>2, <3>4
      <4> QED BY <2>4, <3>1, <3>3, <3>4, <4>1 DEF IsAttrToken
    <3>5. CASE token.op # "!="
      <4>1. Rows(traces[t], token)' = {}
        BY <2>1, <2>4, <3>2, <3>5
      <4> QED BY <3>3, <4>1
    <3> QED BY <3>4, <3>5
  <2> QED BY <2>2, <2>3, <2>4
<1> QED BY <1>1, NamesInductive, PTL DEF Spec, AnswerStable
-----------------------------------------------------------------------------
(***************************************************************************)
(* The numbers that occur: those exact in f64, and integers beyond.        *)
(***************************************************************************)
Occurs(x) ==
  x \in Int /\ (x \in -(2 * Exact)..(2 * Exact) \/ \E i \in Int : x = 2 * i)

(***************************************************************************)
(* Rounding to f64 never turns two numbers around.                         *)
(***************************************************************************)
LEMMA RoundedMonotone ==
  ASSUME NEW x, Occurs(x), NEW y, Occurs(y), x <= y
  PROVE  Rounded(x) \in Int /\ Rounded(y) \in Int /\ Rounded(x) <= Rounded(y)
<1> DEFINE e == 2 * Exact
<1>0. x \in Int /\ y \in Int /\ Exact \in Nat /\ Exact % 2 = 0
  BY FilterAssumption DEF Occurs
<1>1. e \in Nat /\ e % 4 = 0
  BY <1>0
<1>2. (x \in -e..e \/ x % 2 = 0) /\ (y \in -e..e \/ y % 2 = 0)
  BY DEF Occurs
<1>3. /\ Rounded(x) = IF x \in -e..e \/ x % 4 = 0 THEN x ELSE IF (x - 2) % 8 = 0 THEN x - 2 ELSE x + 2
      /\ Rounded(y) = IF y \in -e..e \/ y % 4 = 0 THEN y ELSE IF (y - 2) % 8 = 0 THEN y - 2 ELSE y + 2
  BY DEF Rounded, Scale
<1> HIDE DEF e
<1> QED BY <1>0, <1>1, <1>2, <1>3

(***************************************************************************)
(* The number in an attribute value occurs.                                *)
(***************************************************************************)
LEMMA NumbersOccur ==
  ASSUME NEW v \in AttrValues, IsNumber(v)
  PROVE  Occurs(ExactNumber(v))
<1>1. "int" \in DOMAIN v => v.int \in -(2 * Exact)..(2 * Exact)
  BY FilterAssumption
<1>2. "double" \in DOMAIN v => v.double \in -(2 * Exact)..(2 * Exact)
  BY FilterAssumption DEF Scale
<1>3. "int" \in DOMAIN v \/ "double" \in DOMAIN v
  BY DEF IsNumber
<1>4. CASE "int" \in DOMAIN v
  BY <1>1, <1>4 DEF ExactNumber, Occurs, Scale
<1>5. CASE "int" \notin DOMAIN v
  BY <1>2, <1>3, <1>5 DEF ExactNumber, Occurs
<1> QED BY <1>4, <1>5

(***************************************************************************)
(* The number asked for occurs.                                            *)
(***************************************************************************)
LEMMA AskedOccurs ==
  ASSUME NEW raw \in RawValues, ParseReal[raw] # None
  PROVE  /\ Occurs(ParseReal[raw])
         /\ ParseF64(raw) = Rounded(ParseReal[raw]) /\ ParseF64(raw) # None
<1>1. ParseReal[raw] \in Int
  BY FilterAssumption DEF Optional
<1>2. \/ ParseReal[raw] \in -(2 * Exact)..(2 * Exact)
      \/ \E i \in -(2 * Exact)..(2 * Exact) : ParseReal[raw] = 2 * i
  BY FilterAssumption DEF Scale
<1>3. Occurs(ParseReal[raw])
  BY <1>1, <1>2 DEF Occurs
<1>4. ParseF64(raw) = Rounded(ParseReal[raw])
  BY DEF ParseF64
<1>5. Rounded(ParseReal[raw]) \in Int
  BY <1>1, <1>3, RoundedMonotone
<1> QED BY <1>3, <1>4, <1>5, FilterAssumption

(***************************************************************************)
(* One comparison in f64 against the same comparison of the exact numbers. *)
(***************************************************************************)
LEMMA ComparedSoundly ==
  ASSUME NEW v \in AttrValues, NEW raw \in RawValues, NEW op \in Ops, op \notin {"=", "!="},
         ParseReal[raw] # None
  PROVE  LET x    == ExactNumber(v)
             want == ParseReal[raw]
         IN  /\ AttrMatches(op, v, raw) => IsNumber(v)
             /\ op = ">" /\ AttrMatches(op, v, raw) => x > want
             /\ op = "<" /\ AttrMatches(op, v, raw) => x < want
             /\ op = ">=" /\ IsNumber(v) /\ x >= want => AttrMatches(op, v, raw)
             /\ op = "<=" /\ IsNumber(v) /\ x <= want => AttrMatches(op, v, raw)
<1> DEFINE x    == ExactNumber(v)
           want == ParseReal[raw]
<1>1. Occurs(want) /\ ParseF64(raw) = Rounded(want) /\ ParseF64(raw) # None
  BY AskedOccurs
<1>2. AttrMatches(op, v, raw) <=> (IsNumber(v) /\ Cmp(op, Rounded(x), Rounded(want)))
  BY <1>1 DEF AttrMatches, AsF64
<1>3. SUFFICES ASSUME IsNumber(v)
               PROVE  /\ op = ">" /\ AttrMatches(op, v, raw) => x > want
                      /\ op = "<" /\ AttrMatches(op, v, raw) => x < want
                      /\ op = ">=" /\ x >= want => AttrMatches(op, v, raw)
                      /\ op = "<=" /\ x <= want => AttrMatches(op, v, raw)
  BY <1>2
<1>4. Occurs(x)
  BY <1>3, NumbersOccur
<1>5. x \in Int /\ want \in Int
  BY <1>1, <1>4 DEF Occurs
<1> HIDE DEF x, want
<1>6. /\ x <= x /\ want <= want
  BY <1>5
<1>7. /\ x <= want => Rounded(x) <= Rounded(want)
      /\ want <= x => Rounded(want) <= Rounded(x)
      /\ Rounded(x) \in Int /\ Rounded(want) \in Int
  BY <1>1, <1>4, <1>6, RoundedMonotone
<1>8. AttrMatches(op, v, raw) <=> Cmp(op, Rounded(x), Rounded(want))
  BY <1>2, <1>3
<1>9. /\ op = ">" => Cmp(op, Rounded(x), Rounded(want)) = (Rounded(x) > Rounded(want))
      /\ op = "<" => Cmp(op, Rounded(x), Rounded(want)) = (Rounded(x) < Rounded(want))
      /\ op = ">=" => Cmp(op, Rounded(x), Rounded(want)) = (Rounded(x) >= Rounded(want))
      /\ op = "<=" => Cmp(op, Rounded(x), Rounded(want)) = (Rounded(x) <= Rounded(want))
  BY DEF Cmp
<1> DEFINE rx == Rounded(x)
           rw == Rounded(want)
<1>10. rx \in Int /\ rw \in Int
  BY <1>7
<1>11. (rx > rw => x > want) /\ (rx < rw => x < want)
  BY <1>5, <1>7, <1>10
<1>12. (x >= want => rx >= rw) /\ (x <= want => rx <= rw)
  BY <1>5, <1>7, <1>10
<1> HIDE DEF rx, rw
<1> QED BY <1>8, <1>9, <1>11, <1>12 DEF rx, rw

(***************************************************************************)
(* The values under the id of a key are the values under its name.         *)
(***************************************************************************)
LEMMA ValuesByName ==
  ASSUME IInv, NamesInv, NEW t \in Resident, NEW i \in 1..SpanCount(traces[t]),
         NEW key \in KeyNames, Lookup(keyInterner, key) # None
  PROVE  /\ Carried(traces[t], i, key) =
              {a.value : a \in {x \in Range(Attributes(traces[t], i)) :
                                  x.key = Lookup(keyInterner, key)}}
         /\ Carried(traces[t], i, key) \subseteq AttrValues
<1> DEFINE attrs == Range(Attributes(traces[t], i))
           id    == Lookup(keyInterner, key)
<1>1. \A a \in attrs : a.key \in Nat /\ a.key < Len(keyInterner.values) /\ a.value \in AttrValues
  BY RowIds
<1>2. /\ keyInterner \in InternerType(KeyNames) /\ InternerConsistent(keyInterner, KeyNames)
  BY InternerTypes
<1>3. keyInterner.map \in [KeyNames -> Optional(Nat)] /\ Len(keyInterner.values) \in Nat
  BY <1>2 DEF InternerType
<1>4. Get(keyInterner, id) = key
  BY <1>2 DEF InternerConsistent
<1>5. ASSUME NEW a \in attrs PROVE Get(keyInterner, a.key) = key <=> a.key = id
  <2>1. a.key + 1 \in 1..Len(keyInterner.values) /\ a.key \in Nat
    BY <1>1, <1>3
  <2>2. Lookup(keyInterner, Get(keyInterner, a.key)) = (a.key + 1) - 1
    BY <1>2, <2>1 DEF InternerConsistent, Get
  <2>3. Lookup(keyInterner, Get(keyInterner, a.key)) = a.key
    BY <2>1, <2>2
  <2> QED BY <1>4, <2>3
<1> HIDE DEF attrs, id
<1>6. {x \in attrs : Get(keyInterner, x.key) = key} = {x \in attrs : x.key = id}
  BY <1>5
<1>7. Carried(traces[t], i, key) = {a.value : a \in {x \in attrs : x.key = id}}
  BY <1>6 DEF Carried, attrs
<1> QED BY <1>1, <1>7 DEF attrs, id

(***************************************************************************)
(* What the property asks of one row.                                      *)
(***************************************************************************)
RowSound(op, matched, numbers, want) ==
  /\ op = ">" /\ matched => \E x \in numbers : x > want
  /\ op = "<" /\ matched => \E x \in numbers : x < want
  /\ op = ">=" /\ (\E x \in numbers : x >= want) => matched
  /\ op = "<=" /\ (\E x \in numbers : x <= want) => matched

(***************************************************************************)
(* A term on an attribute.                                                 *)
(***************************************************************************)
LEMMA AttrTermSound ==
  ASSUME IInv, NamesInv, NEW t \in Resident, NEW i \in 1..SpanCount(traces[t]),
         NEW token \in Tokens, IsAttrToken(token),
         token.key \notin {"service", "status", "duration"},
         Lookup(keyInterner, token.key) # None, ParseReal[token.value] # None
  PROVE  RowSound(token.op, Matches(token, traces[t], i),
                  Numbers(traces[t], i, token.key), Asked(token))
<1> DEFINE values  == Carried(traces[t], i, token.key)
           want    == ParseReal[token.value]
           numbers == {ExactNumber(v) : v \in {w \in values : IsNumber(w)}}
           matched == MatchesAttr(token, traces[t], i)
<1>1. token \in TokenType /\ token.key \in KeyNames /\ ~IsSubstring(token) /\ ~IsDropped(token)
  BY FilterAssumption DEF IsAttrToken
<1>2. token.value \in RawValues /\ token.op \in Ops
  <2>1. token.value \in RawValues /\ token.op \in Optional(Ops \cup {"unknown"})
    BY <1>1 DEF TokenType
  <2>2. token.op # None /\ token.op # "unknown"
    BY <1>1 DEF IsSubstring, IsDropped, IsTerm
  <2> QED BY <2>1, <2>2 DEF Optional
<1>3. Numbers(traces[t], i, token.key) = numbers /\ Asked(token) = want
  BY DEF Numbers, Asked
<1>4. Matches(token, traces[t], i) = matched
  BY <1>1 DEF Matches
<1>5. /\ values = {a.value : a \in {x \in Range(Attributes(traces[t], i)) :
                                      x.key = Lookup(keyInterner, token.key)}}
      /\ values \subseteq AttrValues
  BY <1>1, ValuesByName
<1> HIDE DEF values
<1>6. token.op # "!=" =>
        (matched <=> \E v \in values : AttrMatches(token.op, v, token.value))
  BY <1>5 DEF MatchesAttr, MatchesAbsent
<1> HIDE DEF matched, want
<1>7. CASE token.op \in {"=", "!="}
  BY <1>3, <1>4, <1>7 DEF RowSound
<1>8. CASE token.op \notin {"=", "!="}
  <2>1. \A v \in values :
          /\ AttrMatches(token.op, v, token.value) => IsNumber(v)
          /\ token.op = ">" /\ AttrMatches(token.op, v, token.value) => ExactNumber(v) > want
          /\ token.op = "<" /\ AttrMatches(token.op, v, token.value) => ExactNumber(v) < want
          /\ token.op = ">=" /\ IsNumber(v) /\ ExactNumber(v) >= want
               => AttrMatches(token.op, v, token.value)
          /\ token.op = "<=" /\ IsNumber(v) /\ ExactNumber(v) <= want
               => AttrMatches(token.op, v, token.value)
    BY <1>2, <1>5, <1>8, ComparedSoundly DEF want
  <2>2. RowSound(token.op, matched, numbers, want)
    BY <2>1, <1>6, <1>8 DEF RowSound
  <2> QED BY <2>2, <1>3, <1>4
<1> QED BY <1>7, <1>8

(***************************************************************************)
(* A term on the duration.                                                 *)
(***************************************************************************)
LEMMA DurationTermSound ==
  ASSUME IInv, NamesInv, NEW t \in Resident, NEW i \in 1..SpanCount(traces[t]),
         NEW token \in Tokens, token.key = "duration", ~IsSubstring(token), ~IsDropped(token)
  PROVE  RowSound(token.op, Matches(token, traces[t], i),
                  Numbers(traces[t], i, token.key), Asked(token))
<1> DEFINE b     == traces[t].body[i]
           d     == EndNanos[b] - StartNanos[b]
           nanos == DurationNum[token.value] * DurationUnit[token.value]
<1>1. b \in Bodies
  BY RowIds
<1>2. EndNanos[b] \in Nat /\ StartNanos[b] \in Nat /\ d \in Int
  BY <1>1, FilterAssumption
<1>3. ParseDuration(token.value) # None
  BY DEF IsDropped, IsTerm
<1>4. ParseDuration(token.value) = nanos /\ Asked(token) = nanos
  BY <1>3 DEF ParseDuration, Asked
<1>5. Numbers(traces[t], i, token.key) = {d} \cap Nat
  BY DEF Numbers
<1>6. Matches(token, traces[t], i) = (EndNanos[b] >= StartNanos[b] /\ Cmp(token.op, d, nanos))
  BY <1>4 DEF Matches, MatchesDuration
<1>7. EndNanos[b] >= StartNanos[b] <=> d \in Nat
  BY <1>2
<1> HIDE DEF d, nanos, b
<1>8. \A op : /\ op = ">" => Cmp(op, d, nanos) = (d > nanos)
              /\ op = "<" => Cmp(op, d, nanos) = (d < nanos)
              /\ op = ">=" => Cmp(op, d, nanos) = (d >= nanos)
              /\ op = "<=" => Cmp(op, d, nanos) = (d <= nanos)
  BY DEF Cmp
<1> QED BY <1>4, <1>5, <1>6, <1>7, <1>8 DEF RowSound

(***************************************************************************)
(* OrderingSound: rounding to f64 costs no more than strictness, and no    *)
(* duration wraps, for every trace, every value and every number asked     *)
(* for.                                                                    *)
(***************************************************************************)
THEOREM OrderingIsSound == Spec => []OrderingSound
<1>1. IInv /\ NamesInv => OrderingSound
  <2> SUFFICES ASSUME IInv, NamesInv, NEW t \in Resident,
                      NEW token \in Tokens, IsAttrToken(token) \/ IsDurationToken(token),
                      \/ token.key = "duration"
                      \/ Lookup(keyInterner, token.key) # None /\ Asked(token) # None,
                      NEW i \in 1..SpanCount(traces[t])
               PROVE  RowSound(token.op, i \in Rows(traces[t], token),
                               Numbers(traces[t], i, token.key), Asked(token))
    BY DEF OrderingSound, Readable, RowSound
  <2>1. ~IsSubstring(token) /\ ~IsDropped(token)
    BY DEF IsAttrToken, IsDurationToken
  <2>2. i \in Rows(traces[t], token) <=> Matches(token, traces[t], i)
    BY <2>1, RowsOfTerm
  <2>3. CASE token.key = "duration"
    BY <2>1, <2>2, <2>3, DurationTermSound DEF RowSound
  <2>4. CASE token.key \in {"service", "status"}
    <3>1. token.op \in {"=", "!="}
      BY <2>1, <2>4 DEF IsDropped, IsTerm
    <3> QED BY <3>1 DEF RowSound
  <2>5. CASE token.key \notin {"service", "status", "duration"}
    <3>1. IsAttrToken(token) /\ ParseReal[token.value] # None
      BY <2>5 DEF IsDurationToken, Asked
    <3> QED BY <3>1, <2>2, <2>5, AttrTermSound DEF RowSound
  <2> QED BY <2>3, <2>4, <2>5
<1> QED BY <1>1, NamesInductive, PTL
=============================================================================
