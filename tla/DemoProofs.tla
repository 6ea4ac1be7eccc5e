----------------------------- MODULE DemoProofs -----------------------------
(***************************************************************************)
(* Seeding keeps the inductive invariant of the store, so everything       *)
(* proved of a store that starts empty holds of one started with --demo.   *)
(* Of that store, seeded or not, the second half shows that it implements  *)
(* SpanStore.                                                              *)
(***************************************************************************)
EXTENDS Demo, StoreProofs

(***************************************************************************)
(* The seed is a batch of well-typed spans, taken up by an idle writer.    *)
(***************************************************************************)
LEMMA BeginSeedInv == ASSUME IInv, BeginSeed PROVE IInv'
<1>1. batch' \in Seq(NewSpanType) /\ now' \in Nat
  BY DemoAssumption DEF BeginSeed
<1>2. TypeOK'
  BY <1>1 DEF IInv, TypeOK, BeginSeed, storeVars, spanVars
<1> QED BY <1>2, StoreUntouched DEF IInv, SpanInHand, BeginSeed

(***************************************************************************)
(* A seeded span advances the clock that stands for its place.             *)
(***************************************************************************)
LEMMA SeedSpanInv == ASSUME IInv, SeedSpan PROVE IInv'
<1>1. InsertRow /\ now' \in Nat
  BY DEF IInv, TypeOK, SeedSpan
<1> QED BY <1>1, InsertRowInv

(***************************************************************************)
(* The sweep that ends the seeding releases the store.                     *)
(***************************************************************************)
LEMMA EndSeedInv == ASSUME IInv, EndSeed PROVE IInv'
<1>1. TypeOK'
  BY DEF IInv, TypeOK, EndSeed, storeVars, spanVars
<1> QED BY <1>1, StoreUntouched DEF IInv, SpanInHand, EndSeed

(***************************************************************************)
(* Every step of the seeding, and every step after it, keeps IInv.         *)
(***************************************************************************)
LEMMA DemoNextInv == IInv /\ [DemoNext]_vars => IInv'
<1> SUFFICES ASSUME IInv, [DemoNext]_vars PROVE IInv'
  OBVIOUS
<1>1. CASE BeginSeed
  BY <1>1, BeginSeedInv
<1>2. CASE SeedStep
  <2>1. CASE BeginSpan
    BY <2>1, BeginSpanInv
  <2>2. CASE InternAttr
    BY <2>2, InternAttrInv
  <2>3. CASE SeedSpan
    BY <2>3, SeedSpanInv
  <2>4. CASE EndAppend
    BY <2>4, EndAppendInv
  <2>5. ASSUME NEW t \in TraceIds, EvictOldest(t) PROVE IInv'
    BY <2>5, EvictOldestInv
  <2>6. CASE EndSeed
    BY <2>6, EndSeedInv
  <2> QED BY <1>2, <2>1, <2>2, <2>3, <2>4, <2>5, <2>6 DEF SeedStep
<1>3. CASE Next \/ UNCHANGED vars
  BY <1>3, NextInv
<1> QED BY <1>1, <1>2, <1>3 DEF DemoNext

(***************************************************************************)
(* The inductive invariant of the store, seeded or not.                    *)
(***************************************************************************)
LEMMA DemoInductive == DemoSpec => []IInv
<1> QED BY InitInv, DemoNextInv, PTL DEF DemoSpec

(***************************************************************************)
(* A store that may start with the demo traces keeps its types.            *)
(***************************************************************************)
THEOREM SeededTypeCorrect == DemoSpec => []TypeOK
BY DemoInductive, PTL DEF IInv

(***************************************************************************)
(* The eviction books balance from the sweep at the end of `seed` on.      *)
(***************************************************************************)
THEOREM SeededLedgerBalances == DemoSpec => []EvictionLedger
BY DemoInductive, PTL DEF IInv

(***************************************************************************)
(* Interners and columns are consistent while `seed` fills them and after. *)
(***************************************************************************)
THEOREM SeededConsistent == DemoSpec => []TracesConsistent
BY DemoInductive, PTL DEF IInv

(***************************************************************************)
(* The sweep that ends the seeding restores the budget like any other.     *)
(***************************************************************************)
LEMMA SeededBudgetInv == IInv /\ BudgetRestored /\ [DemoNext]_vars => BudgetRestored'
<1> SUFFICES ASSUME IInv, BudgetRestored, [DemoNext]_vars PROVE BudgetRestored'
  OBVIOUS
<1>1. CASE BeginSeed
  BY <1>1 DEF BeginSeed, BudgetRestored, LockHeld
<1>2. CASE SeedStep
  <2>1. CASE BeginSpan \/ InternAttr \/ SeedSpan \/ EndAppend
    BY <2>1 DEF BeginSpan, InternAttr, SeedSpan, InsertRow, EndAppend, BudgetRestored, LockHeld
  <2>2. ASSUME NEW t \in TraceIds, EvictOldest(t) PROVE BudgetRestored'
    BY <2>2 DEF EvictOldest, writerVars, BudgetRestored, LockHeld
  <2>3. CASE EndSeed
    BY <2>3, SweptInv DEF EndSeed, storeVars
  <2> QED BY <1>2, <2>1, <2>2, <2>3 DEF SeedStep
<1>3. CASE Next \/ UNCHANGED vars
  BY <1>3, BudgetInv
<1> QED BY <1>1, <1>2, <1>3 DEF DemoNext

(***************************************************************************)
(* A store started with --demo is within its budget, or down to one trace, *)
(* whenever the lock is free.                                              *)
(***************************************************************************)
THEOREM SeededBudgetRestored == DemoSpec => []BudgetRestored
<1>1. Init => BudgetRestored
  BY InitBudget
<1> QED BY <1>1, DemoInductive, SeededBudgetInv, PTL DEF DemoSpec

-----------------------------------------------------------------------------
(***************************************************************************)
(* While `seed` runs, the resident traces have pairwise different activity *)
(* times, all of them earlier than the place of the next span.             *)
(***************************************************************************)
SeedTimes ==
  Seeding =>
    /\ \A t \in Resident : traces[t].lastActivity < now
    /\ \A t, u \in Resident : traces[t].lastActivity = traces[u].lastActivity => t = u

(***************************************************************************)
(* `insert_span_no_evict` makes its trace resident and gives it the time   *)
(* of the call; the other traces stay, with their times.                   *)
(***************************************************************************)
LEMMA RowTimes ==
  ASSUME IInv, InsertRow
  PROVE  \E t \in TraceIds :
           /\ Resident' = Resident \cup {t} /\ active' = active \cup {t}
           /\ traces'[t].lastActivity = now
           /\ \A x \in Resident : x # t => traces'[x].lastActivity = traces[x].lastActivity
<1> DEFINE t == Head(batch).trace
<1>1. /\ t \in TraceIds /\ traces'[t] # None /\ traces'[t].lastActivity = now
      /\ \A x \in TraceIds : x # t => traces'[x] = traces[x]
  BY RowWritten
<1>2. active' = active \cup {t}
  BY DEF InsertRow
<1> HIDE DEF t
<1>3. Resident' = Resident \cup {t}
  BY <1>1 DEF Resident
<1>4. \A x \in Resident : x # t => traces'[x].lastActivity = traces[x].lastActivity
  BY <1>1 DEF Resident
<1> QED BY <1>1, <1>2, <1>3, <1>4

(***************************************************************************)
(* An eviction takes one of the oldest traces out of the map and leaves    *)
(* the others where they are.                                              *)
(***************************************************************************)
LEMMA EvictionTimes ==
  ASSUME IInv, NEW t \in TraceIds, EvictOldest(t)
  PROVE  /\ pc = "evict" /\ t \in Resident /\ Resident' = Resident \ {t}
         /\ \A u \in Resident : traces[t].lastActivity <= traces[u].lastActivity
         /\ \A u \in Resident' : traces'[u].lastActivity = traces[u].lastActivity
         /\ pc' = pc /\ now' = now /\ received' = received /\ active' = active
<1>1. traces \in [TraceIds -> Optional(TraceType)]
  BY DEF IInv, TypeOK
<1>2. traces' = [traces EXCEPT ![t] = None] /\ t \in Oldest
  BY DEF EvictOldest
<1>3. pc = "evict" /\ pc' = pc /\ now' = now /\ received' = received /\ active' = active
  BY DEF EvictOldest, writerVars
<1>4. Resident' = Resident \ {t}
  BY <1>1, <1>2 DEF Resident
<1>5. \A u \in Resident' : traces'[u].lastActivity = traces[u].lastActivity
  BY <1>1, <1>2, <1>4 DEF Resident
<1> QED BY <1>2, <1>3, <1>4, <1>5 DEF Oldest

(***************************************************************************)
(* Activity times are numbers.                                             *)
(***************************************************************************)
LEMMA TimesAreNumbers ==
  ASSUME IInv
  PROVE  now \in Nat /\ received \in Nat /\ (\A t \in Resident : traces[t].lastActivity \in Nat)
<1>1. \A t \in Resident : traces[t] \in TraceType
  BY DEF IInv, TypeOK, Resident, Optional
<1> QED BY <1>1, TraceFieldTypes DEF IInv, TypeOK

(***************************************************************************)
(* A span of the seed gets a time no resident trace has; no other step     *)
(* moves a time while the seeding lasts, and once over it never resumes    *)
(* with a trace resident.                                                  *)
(***************************************************************************)
LEMMA SeedTimesInv == IInv /\ SeedTimes /\ [DemoNext]_vars => SeedTimes'
<1> SUFFICES ASSUME IInv, SeedTimes, [DemoNext]_vars, Seeding' PROVE SeedTimes'
  BY DEF SeedTimes
<1>1. now \in Nat /\ received \in Nat /\ (\A t \in Resident : traces[t].lastActivity \in Nat)
  BY TimesAreNumbers
<1>2. CASE BeginSeed
  <2>1. Resident' = {}
    BY <1>2 DEF BeginSeed, storeVars, Resident
  <2> QED BY <2>1 DEF SeedTimes
<1>3. CASE Seeding /\ SeedStep
  <2>0. /\ \A t \in Resident : traces[t].lastActivity < now
        /\ \A t, u \in Resident : traces[t].lastActivity = traces[u].lastActivity => t = u
    BY <1>3 DEF SeedTimes
  <2>1. CASE BeginSpan \/ InternAttr \/ EndAppend
    <3>1. traces' = traces /\ now' = now
      BY <2>1 DEF BeginSpan, InternAttr, EndAppend
    <3>2. Resident' = Resident
      BY <3>1 DEF Resident
    <3> QED BY <3>1, <3>2, <2>0 DEF SeedTimes
  <2>2. CASE SeedSpan
    <3>1. now' = now + 1
      BY <2>2 DEF SeedSpan
    <3>2. PICK t \in TraceIds :
            /\ Resident' = Resident \cup {t}
            /\ traces'[t].lastActivity = now
            /\ \A x \in Resident : x # t => traces'[x].lastActivity = traces[x].lastActivity
      BY <2>2, RowTimes DEF SeedSpan
    <3>3. \A x \in Resident' : traces'[x].lastActivity < now'
      BY <3>1, <3>2, <2>0, <1>1
    <3>4. \A x, y \in Resident' : traces'[x].lastActivity = traces'[y].lastActivity => x = y
      BY <3>2, <2>0, <1>1
    <3> QED BY <3>3, <3>4 DEF SeedTimes
  <2>3. ASSUME NEW t \in TraceIds, EvictOldest(t) PROVE SeedTimes'
    BY <2>3, <2>0, EvictionTimes DEF SeedTimes
  <2>4. CASE EndSeed
    BY <2>4 DEF EndSeed, Seeding
  <2> QED BY <1>3, <2>1, <2>2, <2>3, <2>4 DEF SeedStep
<1>4. CASE ~Seeding /\ Next
  <2>1. ASSUME NEW b \in Batches, Recv(b) PROVE FALSE
    BY <2>1, <1>1 DEF Recv, Seeding
  <2>2. CASE WriterStep
    <3>1. received' = received /\ pc # "recv"
      BY <2>2 DEF WriterStep, BeginSpan, InternAttr, InsertSpan, InsertRow, EndAppend,
                  EvictOldest, Release, Notify, writerVars
    <3> QED BY <3>1, <1>4 DEF Seeding
  <2> QED BY <1>4, <2>1, <2>2 DEF Next
<1>5. CASE UNCHANGED vars
  <2>1. traces' = traces /\ now' = now /\ pc' = pc /\ received' = received
    BY <1>5 DEF vars, storeVars, writerVars
  <2>2. Resident' = Resident /\ (Seeding' <=> Seeding)
    BY <2>1 DEF Resident, Seeding
  <2> QED BY <2>1, <2>2 DEF SeedTimes
<1> QED BY <1>2, <1>3, <1>4, <1>5 DEF DemoNext

(***************************************************************************)
(* The sweep that ends `seed` always has exactly one oldest trace to evict *)
(* so `min_by_key` over a hash map never decides a tie: what is left after *)
(* a start with --demo depends on the budget alone.                        *)
(***************************************************************************)
THEOREM SeedingIsDeterministic == DemoSpec => []SeedDeterministic
<1>1. Init => SeedTimes
  BY DEF Init, SeedTimes, Seeding
<1>2. IInv /\ SeedTimes => SeedDeterministic
  <2> SUFFICES ASSUME IInv, SeedTimes, Seeding, MustEvict PROVE Cardinality(Oldest) = 1
    BY DEF SeedDeterministic
  <2> DEFINE f == [t \in Resident |-> traces[t].lastActivity]
  <2>1. f \in [Resident -> Nat]
    BY TimesAreNumbers
  <2>2. Resident # {}
    <3>1. Cardinality(Resident) > 1
      BY DEF MustEvict
    <3> QED BY <3>1, FS_EmptySet
  <2>3. PICK x \in Resident : \A y \in Resident : f[x] <= f[y]
    BY <2>1, <2>2, EarliestExists
  <2>4. \A y \in Resident : traces[x].lastActivity <= traces[y].lastActivity
    BY <2>3
  <2>5. Oldest = {x}
    <3>1. x \in Oldest
      BY <2>3, <2>4 DEF Oldest
    <3>2. ASSUME NEW y \in Oldest PROVE y = x
      <4>1. y \in Resident /\ traces[y].lastActivity <= traces[x].lastActivity
        BY <2>3 DEF Oldest
      <4>2. traces[y].lastActivity = traces[x].lastActivity
        BY <4>1, <2>3, <2>4, TimesAreNumbers
      <4> QED BY <4>1, <4>2, <2>3 DEF SeedTimes
    <3> QED BY <3>1, <3>2
  <2> QED BY <2>5, FS_Singleton
<1> QED BY <1>1, <1>2, DemoInductive, SeedTimesInv, PTL DEF DemoSpec

-----------------------------------------------------------------------------
(***************************************************************************)
(* What the writer's clock says of the resident traces: none is ahead of   *)
(* it; while a batch is in hand, the traces written with its time are the  *)
(* ones it has touched; and the seeding touches every trace it leaves.     *)
(***************************************************************************)
ActivityMarks ==
  /\ \A t \in Resident : traces[t].lastActivity <= now
  /\ ~LockHeld => active = {}
  /\ Seeding => Resident \subseteq active
  /\ LockHeld /\ ~Seeding =>
       \A t \in Resident : t \in active <=> traces[t].lastActivity = now

(***************************************************************************)
(* A step that leaves the map and the clock alone, and holds the lock over *)
(* the same batch.                                                         *)
(***************************************************************************)
LEMMA MarksKept ==
  ASSUME ActivityMarks, traces' = traces, now' = now, active' = active,
         received' = received, LockHeld, LockHeld'
  PROVE  ActivityMarks'
<1>1. Resident' = Resident /\ (Seeding' <=> Seeding)
  BY DEF Resident, Seeding, LockHeld
<1> QED BY <1>1 DEF ActivityMarks

(***************************************************************************)
(* A span written marks its trace, with the time of the batch or with its  *)
(* own place in the seed.                                                  *)
(***************************************************************************)
LEMMA RowMarks ==
  ASSUME IInv, ActivityMarks, InsertRow,
         IF Seeding THEN now' = now + 1 ELSE now' = now
  PROVE  ActivityMarks'
<1>1. PICK t \in TraceIds :
        /\ Resident' = Resident \cup {t} /\ active' = active \cup {t}
        /\ traces'[t].lastActivity = now
        /\ \A x \in Resident : x # t => traces'[x].lastActivity = traces[x].lastActivity
  BY RowTimes
<1>2. LockHeld /\ LockHeld' /\ (Seeding' <=> Seeding)
  BY DEF InsertRow, LockHeld, Seeding
<1>3. now \in Nat /\ (\A x \in Resident : traces[x].lastActivity \in Nat)
  BY TimesAreNumbers
<1>4. \A x \in Resident : traces[x].lastActivity <= now
  BY DEF ActivityMarks
<1>5. \A x \in Resident' : traces'[x].lastActivity <= now /\ now <= now'
  BY <1>1, <1>3, <1>4
<1>6. now' \in Nat /\ (\A x \in Resident' : traces'[x].lastActivity \in Nat)
  BY <1>1, <1>3
<1>7. \A x \in Resident' : traces'[x].lastActivity <= now'
  BY <1>3, <1>5, <1>6
<1>8. Seeding' => Resident' \subseteq active'
  BY <1>1, <1>2 DEF ActivityMarks
<1>9. ~Seeding' => \A x \in Resident' : x \in active' <=> traces'[x].lastActivity = now'
  <2> SUFFICES ASSUME ~Seeding, NEW x \in Resident'
               PROVE  x \in active' <=> traces'[x].lastActivity = now'
    BY <1>2
  <2>1. \A y \in Resident : y \in active <=> traces[y].lastActivity = now
    BY <1>2 DEF ActivityMarks
  <2> QED BY <2>1, <1>1
<1> QED BY <1>2, <1>7, <1>8, <1>9 DEF ActivityMarks

(***************************************************************************)
(* While the clock advances between two batches, every step keeps the      *)
(* marks.                                                                  *)
(***************************************************************************)
LEMMA MarksInv ==
  ASSUME ClockSteps \subseteq Nat \ {0}
  PROVE  IInv /\ ActivityMarks /\ [DemoNext]_vars => ActivityMarks'
<1> SUFFICES ASSUME IInv, ActivityMarks, [DemoNext]_vars PROVE ActivityMarks'
  OBVIOUS
<1>0. now \in Nat /\ received \in Nat /\ (\A t \in Resident : traces[t].lastActivity \in Nat)
  BY TimesAreNumbers
<1>1. CASE BeginSeed
  <2>1. Resident' = {} /\ LockHeld' /\ Seeding'
    BY <1>1 DEF BeginSeed, storeVars, Resident, LockHeld, Seeding
  <2> QED BY <2>1 DEF ActivityMarks
<1>2. ASSUME NEW b \in Batches, Recv(b) PROVE ActivityMarks'
  <2>1. PICK d \in ClockSteps : now' = now + d
    BY <1>2 DEF Recv
  <2>2. now < now' /\ now' \in Nat
    BY <2>1, <1>0
  <2>3. traces' = traces /\ active' = active /\ ~LockHeld /\ LockHeld' /\ ~Seeding'
    BY <1>2, <1>0 DEF Recv, storeVars, LockHeld, Seeding
  <2>4. Resident' = Resident
    BY <2>3 DEF Resident
  <2>5. active' = {} /\ (\A t \in Resident' : traces'[t].lastActivity < now')
    BY <2>2, <2>3, <2>4, <1>0 DEF ActivityMarks
  <2>6. \A t \in Resident' : traces'[t].lastActivity <= now' /\ traces'[t].lastActivity # now'
    BY <2>2, <2>3, <2>4, <2>5, <1>0
  <2> QED BY <2>3, <2>5, <2>6 DEF ActivityMarks
<1>3. CASE BeginSpan \/ InternAttr \/ EndAppend
  <2>1. traces' = traces /\ now' = now /\ active' = active /\ received' = received
    BY <1>3 DEF BeginSpan, InternAttr, EndAppend
  <2>2. LockHeld /\ LockHeld'
    BY <1>3 DEF BeginSpan, InternAttr, EndAppend, LockHeld
  <2> QED BY <2>1, <2>2, MarksKept
<1>4. CASE Seeding /\ SeedSpan
  BY <1>4, RowMarks DEF SeedSpan
<1>5. CASE ~Seeding /\ InsertSpan
  BY <1>5, RowMarks DEF InsertSpan
<1>6. ASSUME NEW t \in TraceIds, EvictOldest(t) PROVE ActivityMarks'
  <2>1. /\ Resident' = Resident \ {t} /\ now' = now /\ active' = active
        /\ \A u \in Resident' : traces'[u].lastActivity = traces[u].lastActivity
        /\ pc = "evict" /\ pc' = pc /\ received' = received
    BY <1>6, EvictionTimes
  <2>2. LockHeld /\ LockHeld' /\ (Seeding' <=> Seeding)
    BY <2>1 DEF LockHeld, Seeding
  <2> QED BY <2>1, <2>2 DEF ActivityMarks
<1>7. CASE EndSeed \/ (~Seeding /\ Release)
  <2>1. traces' = traces /\ now' = now /\ active' = {} /\ ~LockHeld'
    BY <1>7 DEF EndSeed, Release, AfterRelease, storeVars, LockHeld
  <2>2. Resident' = Resident
    BY <2>1 DEF Resident
  <2>3. ~Seeding'
    BY <1>7 DEF EndSeed, Release, AfterRelease, Seeding
  <2> QED BY <2>1, <2>2, <2>3 DEF ActivityMarks
<1>8. CASE Notify
  <2>1. traces' = traces /\ now' = now /\ active' = active /\ ~LockHeld /\ ~LockHeld'
    BY <1>8 DEF Notify, storeVars, LockHeld
  <2>2. Resident' = Resident
    BY <2>1 DEF Resident
  <2>3. ~Seeding'
    BY <1>8 DEF Notify, Seeding
  <2> QED BY <2>1, <2>2, <2>3 DEF ActivityMarks
<1>9. CASE UNCHANGED vars
  <2>1. /\ traces' = traces /\ now' = now /\ active' = active
        /\ received' = received /\ pc' = pc
    BY <1>9 DEF vars, storeVars, writerVars
  <2>2. Resident' = Resident /\ (Seeding' <=> Seeding) /\ (LockHeld' <=> LockHeld)
    BY <2>1 DEF Resident, Seeding, LockHeld
  <2> QED BY <2>1, <2>2 DEF ActivityMarks
<1> QED BY <1>1, <1>2, <1>3, <1>4, <1>5, <1>6, <1>7, <1>8, <1>9
        DEF DemoNext, SeedStep, Next, WriterStep

(***************************************************************************)
(* Only a sweep takes a trace out of the map, and by the marks a touched   *)
(* trace is the oldest only when every resident trace has been touched.    *)
(***************************************************************************)
LEMMA SweepStep ==
  ASSUME IInv, ActivityMarks, [DemoNext]_vars,
         NEW t \in Resident, traces'[t] = None, t \in active
  PROVE  Resident \subseteq active
<1>0. t \in TraceIds /\ traces[t] # None
  BY DEF Resident
<1>1. ASSUME NEW u \in TraceIds, EvictOldest(u) PROVE Resident \subseteq active
  <2>1. /\ pc = "evict" /\ u \in Resident /\ Resident' = Resident \ {u}
        /\ \A x \in Resident : traces[u].lastActivity <= traces[x].lastActivity
    BY <1>1, EvictionTimes
  <2>2. t = u
    BY <2>1, <1>0 DEF Resident
  <2>3. CASE Seeding
    BY <2>3 DEF ActivityMarks
  <2>4. CASE ~Seeding
    <3>1. \A x \in Resident : x \in active <=> traces[x].lastActivity = now
      BY <2>1, <2>4 DEF ActivityMarks, LockHeld
    <3>2. traces[t].lastActivity = now
      BY <3>1
    <3>3. ASSUME NEW x \in Resident PROVE traces[x].lastActivity = now
      BY <3>2, <2>1, <2>2, TimesAreNumbers DEF ActivityMarks
    <3> QED BY <3>1, <3>3
  <2> QED BY <2>3, <2>4
<1>2. CASE InsertRow
  <2>1. PICK u \in TraceIds : Resident' = Resident \cup {u}
    BY <1>2, RowTimes
  <2> QED BY <2>1, <1>0 DEF Resident
<1>3. CASE traces' = traces
  BY <1>3, <1>0
<1>4. BeginSeed \/ (\E b \in Batches : Recv(b)) \/ BeginSpan \/ InternAttr \/ EndAppend
        \/ EndSeed \/ Release \/ Notify \/ UNCHANGED vars => traces' = traces
  BY DEF BeginSeed, Recv, BeginSpan, InternAttr, EndAppend, EndSeed, Release, Notify,
         vars, storeVars
<1> QED BY <1>1, <1>2, <1>3, <1>4
        DEF DemoNext, SeedStep, Next, WriterStep, SeedSpan, InsertSpan

(***************************************************************************)
(* The comment on `evict_over_budget`, for a clock that advances between   *)
(* two batches: a trace still receiving spans is given up only when every  *)
(* other resident trace was written by the same batch, or the same seed.   *)
(***************************************************************************)
THEOREM QuietTracesGoFirst ==
  ASSUME ClockSteps \subseteq Nat \ {0}
  PROVE  DemoSpec => QuietEvictedFirst
<1>1. Init => ActivityMarks
  <2> SUFFICES ASSUME Init PROVE ActivityMarks
    OBVIOUS
  <2>1. Resident = {} /\ ~LockHeld /\ active = {} /\ ~Seeding
    BY DEF Init, Resident, LockHeld, Seeding
  <2> QED BY <2>1 DEF ActivityMarks
<1>2. IInv /\ ActivityMarks /\ [DemoNext]_vars => ActivityMarks'
  BY MarksInv
<1>3. IInv /\ ActivityMarks /\ [DemoNext]_vars =>
        [\A t \in Resident : traces'[t] = None /\ t \in active => Resident \subseteq active]_vars
  BY SweepStep
<1> QED BY <1>1, <1>2, <1>3, DemoInductive, PTL DEF DemoSpec, QuietEvictedFirst

-----------------------------------------------------------------------------
(***************************************************************************)
(* What the refinement needs beyond IInv and NamesInv.  What is in hand    *)
(* came from a batch; and while the keys of a span are interned, what has  *)
(* been kept of its attributes and what has been refused of them account   *)
(* for the ones that are done.                                             *)
(***************************************************************************)
Sources == Batches \cup {[spans |-> Seed, malformed |-> 0]}

FromBatch ==
  /\ \A i \in 1..Len(batch) : \E b \in Sources : \E j \in 1..Len(b.spans) : batch[i] = b.spans[j]
  /\ IF pc \in {"append", "attrs"} THEN \E b \in Sources : malformed = b.malformed
     ELSE malformed = 0

RefusalsCounted == pc # "attrs" => keyInterner.capHits = counters.attributeKeyCapHit

Done == Len(Head(batch).attrs) - Len(attrsLeft)

AttrsInOrder ==
  /\ Len(attrsLeft) <= Len(Head(batch).attrs)
  /\ \A j \in 1..Len(attrsLeft) : attrsLeft[j] = Head(batch).attrs[Done + j]

DoneLearnt ==
  \A j \in 1..Done :
    \/ Head(batch).attrs[j].key \in NamesOf(keyInterner)
    \/ Len(keyInterner.values) = InternerCap

Resolves(ids, kept, interner) ==
  /\ Len(ids) = Len(kept)
  /\ \A j \in 1..Len(ids) :
       /\ ids[j].key < Len(interner.values)
       /\ kept[j] = [key |-> Get(interner, ids[j].key), value |-> ids[j].value]

KeptInterned ==
  /\ Resolves(internedAttrs,
              Abstract!KeptSoFar(Head(batch).attrs, NamesOf(keyInterner))[Done], keyInterner)
  /\ keyInterner.capHits = counters.attributeKeyCapHit + (Done - Len(internedAttrs))

InHand == pc = "attrs" => AttrsInOrder /\ DoneLearnt /\ KeptInterned

RInv == NamesInv /\ FromBatch /\ RefusalsCounted /\ InHand

-----------------------------------------------------------------------------
(***************************************************************************)
(* The attributes kept, one by one.  The first attribute without a value   *)
(* would follow one that has a value.                                      *)
(***************************************************************************)
LEMMA KeptLoop ==
  ASSUME NEW attrs, Len(attrs) \in Nat, NEW known
  PROVE  Abstract!KeptSoFar(attrs, known) =
           [i \in 0..Len(attrs) |->
              IF i = 0 THEN <<>>
              ELSE IF attrs[i].key \in known
                   THEN Append(Abstract!KeptSoFar(attrs, known)[i - 1], attrs[i])
                   ELSE Abstract!KeptSoFar(attrs, known)[i - 1]]
<1> DEFINE n == Len(attrs)
           Turn(before, i) == IF attrs[i].key \in known THEN Append(before, attrs[i]) ELSE before
           Loop(g, k) == g = [i \in 0..k |-> IF i = 0 THEN <<>> ELSE Turn(g[i - 1], i)]
           K  == {k \in 0..n : ~ \E g : Loop(g, k)}
           id == [k \in K |-> k]
<1>1. Abstract!KeptSoFar(attrs, known) = CHOOSE g : Loop(g, n)
  BY Zenon DEF Abstract!KeptSoFar
<1>2. SUFFICES \E g : Loop(g, n)
  BY <1>1
<1>3. SUFFICES ASSUME K # {} PROVE FALSE
  OBVIOUS
<1>4. PICK k \in K : \A l \in K : k <= l
  <2>1. id \in [K -> Nat] /\ \A x \in K : id[x] = x
    OBVIOUS
  <2> HIDE DEF K, id
  <2>2. \E x \in K : \A y \in K : id[x] <= id[y]
    BY <1>3, <2>1, EarliestExists
  <2> QED BY <2>1, <2>2
<1>5. k \in 0..n /\ ~ \E g : Loop(g, k)
  OBVIOUS
<1> HIDE DEF n
<1>6. CASE k = 0
  <2> DEFINE g == [i \in 0..k |-> <<>>]
  <2>1. Loop(g, k)
    BY <1>6
  <2> QED BY <1>5, <2>1
<1>7. CASE k # 0
  <2>1. k - 1 \in 0..n /\ ~(k <= k - 1)
    BY <1>5, <1>7 DEF n
  <2>2. PICK h : Loop(h, k - 1)
    BY <1>4, <2>1
  <2> DEFINE g == [i \in 0..k |-> IF i = k THEN Turn(h[k - 1], k) ELSE h[i]]
  <2> HIDE DEF Turn
  <2>3. ASSUME NEW i \in 0..k
        PROVE  g[i] = IF i = 0 THEN <<>> ELSE Turn(g[i - 1], i)
    <3>1. CASE i = k
      <4>1. g[i] = Turn(h[k - 1], k) /\ g[k - 1] = h[k - 1]
        BY <3>1, <1>5, <1>7, <2>1
      <4> QED BY <3>1, <4>1, <1>7
    <3>2. CASE i # k
      <4>1. i \in 0..(k - 1) /\ g[i] = h[i]
        BY <3>2, <1>5
      <4>2. h[i] = IF i = 0 THEN <<>> ELSE Turn(h[i - 1], i)
        BY <2>2, <4>1
      <4>3. i # 0 => i - 1 \in 0..k /\ i - 1 # k
        BY <4>1, <1>5
      <4>4. i # 0 => g[i - 1] = h[i - 1]
        BY <4>3
      <4> QED BY <4>1, <4>2, <4>4
    <3> QED BY <3>1, <3>2
  <2>4. Loop(g, k)
    BY <2>3
  <2> QED BY <1>5, <2>4
<1> QED BY <1>6, <1>7

(***************************************************************************)
(* The loop, turn by turn.                                                 *)
(***************************************************************************)
LEMMA KeptStep ==
  ASSUME NEW attrs \in Seq(TraceAttr), NEW known
  PROVE  /\ Abstract!KeptSoFar(attrs, known)[0] = <<>>
         /\ \A d \in Nat : d + 1 \in 1..Len(attrs) =>
              Abstract!KeptSoFar(attrs, known)[d + 1] =
                IF attrs[d + 1].key \in known
                THEN Append(Abstract!KeptSoFar(attrs, known)[d], attrs[d + 1])
                ELSE Abstract!KeptSoFar(attrs, known)[d]
<1> DEFINE f == Abstract!KeptSoFar(attrs, known)
<1>1. Len(attrs) \in Nat
  OBVIOUS
<1>2. f = [i \in 0..Len(attrs) |->
             IF i = 0 THEN <<>>
             ELSE IF attrs[i].key \in known THEN Append(f[i - 1], attrs[i]) ELSE f[i - 1]]
  BY <1>1, KeptLoop
<1> HIDE DEF f
<1>3. f[0] = <<>>
  BY <1>1, <1>2
<1>4. ASSUME NEW d \in Nat, d + 1 \in 1..Len(attrs)
      PROVE  f[d + 1] = IF attrs[d + 1].key \in known THEN Append(f[d], attrs[d + 1]) ELSE f[d]
  <2>1. d + 1 \in 0..Len(attrs) /\ d + 1 # 0 /\ (d + 1) - 1 = d
    BY <1>4, <1>1
  <2> QED BY <1>2, <2>1
<1> QED BY <1>3, <1>4 DEF f

SameKeys(attrs, d, known, known2) ==
  \A j \in 1..d : attrs[j].key \in known <=> attrs[j].key \in known2

(***************************************************************************)
(* What is kept of the first d attributes depends on their keys only, and  *)
(* is a list of at most d attributes.                                      *)
(***************************************************************************)
LEMMA KeptSame ==
  ASSUME NEW attrs \in Seq(TraceAttr), NEW known, NEW known2, NEW d \in 0..Len(attrs),
         SameKeys(attrs, d, known, known2)
  PROVE  /\ Abstract!KeptSoFar(attrs, known)[d] = Abstract!KeptSoFar(attrs, known2)[d]
         /\ Abstract!KeptSoFar(attrs, known)[d] \in Seq(TraceAttr)
<1> DEFINE f == Abstract!KeptSoFar(attrs, known)
           g == Abstract!KeptSoFar(attrs, known2)
           Same(k) == f[k] = g[k] /\ f[k] \in Seq(TraceAttr)
           K  == {k \in 0..d : ~Same(k)}
           id == [k \in K |-> k]
<1>1. f[0] = <<>> /\ \A k \in Nat : k + 1 \in 1..Len(attrs) =>
        f[k + 1] = IF attrs[k + 1].key \in known THEN Append(f[k], attrs[k + 1]) ELSE f[k]
  BY KeptStep
<1>2. g[0] = <<>> /\ \A k \in Nat : k + 1 \in 1..Len(attrs) =>
        g[k + 1] = IF attrs[k + 1].key \in known2 THEN Append(g[k], attrs[k + 1]) ELSE g[k]
  BY KeptStep
<1> HIDE DEF f, g
<1>3. SUFFICES ASSUME K # {} PROVE FALSE
  <2>1. d \in 0..d
    OBVIOUS
  <2> QED BY <2>1 DEF f, g
<1>4. PICK k \in K : \A l \in K : k <= l
  <2>1. id \in [K -> Nat] /\ \A x \in K : id[x] = x
    OBVIOUS
  <2> HIDE DEF K, id
  <2>2. \E x \in K : \A y \in K : id[x] <= id[y]
    BY <1>3, <2>1, EarliestExists
  <2> QED BY <2>1, <2>2
<1>5. k \in 0..d /\ ~Same(k)
  OBVIOUS
<1>6. CASE k = 0
  <2>1. <<>> \in Seq(TraceAttr)
    OBVIOUS
  <2> QED BY <2>1, <1>1, <1>2, <1>5, <1>6
<1>7. CASE k # 0
  <2>1. k - 1 \in 0..d /\ ~(k <= k - 1) /\ k - 1 \in Nat /\ (k - 1) + 1 = k
        /\ k \in 1..d /\ k \in 1..Len(attrs)
    BY <1>5, <1>7
  <2>2. Same(k - 1)
    BY <1>4, <2>1
  <2>3. /\ f[k] = IF attrs[k].key \in known THEN Append(f[k - 1], attrs[k]) ELSE f[k - 1]
        /\ g[k] = IF attrs[k].key \in known2 THEN Append(g[k - 1], attrs[k]) ELSE g[k - 1]
    BY <2>1, <1>1, <1>2
  <2>4. attrs[k] \in TraceAttr
    BY <2>1
  <2>5. f[k] = g[k]
    BY <2>1, <2>2, <2>3 DEF SameKeys
  <2>6. f[k] \in Seq(TraceAttr)
    BY <2>2, <2>3, <2>4
  <2> QED BY <1>5, <2>5, <2>6
<1> QED BY <1>6, <1>7

-----------------------------------------------------------------------------
(***************************************************************************)
(* Nothing is in hand in the initial state.                                *)
(***************************************************************************)
LEMMA InitRInv == Init => RInv
<1> SUFFICES ASSUME Init PROVE RInv
  OBVIOUS
<1>1. pc = "recv" /\ batch = <<>> /\ malformed = 0
  BY DEF Init
<1>2. keyInterner.capHits = 0 /\ counters.attributeKeyCapHit = 0
  BY DEF Init, NewInterner
<1>3. FromBatch
  BY <1>1 DEF FromBatch
<1> QED BY <1>1, <1>2, <1>3, InitNames DEF RInv, RefusalsCounted, InHand

(***************************************************************************)
(* A step that leaves the store alone and takes up no span.                *)
(***************************************************************************)
LEMMA IdleRInv ==
  ASSUME IInv, RInv, UNCHANGED storeVars, pc # "attrs", pc' # "attrs", FromBatch'
  PROVE  RInv'
<1>1. /\ UNCHANGED <<traces, keyInterner, serviceInterner, counters>>
  BY DEF storeVars
<1>2. NamesInv'
  BY <1>1, IdleNames DEF RInv
<1>3. RefusalsCounted' /\ InHand'
  BY <1>1 DEF RInv, RefusalsCounted, InHand
<1> QED BY <1>2, <1>3 DEF RInv

(***************************************************************************)
(* The spans of a batch taken up come from that batch.                     *)
(***************************************************************************)
LEMMA RecvRInv == ASSUME IInv, RInv, NEW b \in Batches, Recv(b) PROVE RInv'
<1>1. /\ UNCHANGED storeVars /\ pc = "recv" /\ pc' = "append"
      /\ batch' = b.spans /\ malformed' = b.malformed
  BY DEF Recv
<1>2. FromBatch'
  BY <1>1 DEF FromBatch, Sources
<1> QED BY <1>1, <1>2, IdleRInv

(***************************************************************************)
(* The seed counts as a batch without malformed spans.                     *)
(***************************************************************************)
LEMMA BeginSeedRInv == ASSUME IInv, RInv, BeginSeed PROVE RInv'
<1>1. /\ UNCHANGED storeVars /\ pc = "recv" /\ pc' = "append"
      /\ batch' = Seed /\ malformed' = malformed
  BY DEF BeginSeed
<1> DEFINE b == [spans |-> Seed, malformed |-> 0]
<1>2. b \in Sources /\ b.spans = Seed /\ b.malformed = 0
  BY DEF Sources
<1>3. malformed = 0
  BY <1>1 DEF RInv, FromBatch
<1> HIDE DEF b
<1>4. FromBatch'
  BY <1>1, <1>2, <1>3 DEF FromBatch
<1> QED BY <1>1, <1>4, IdleRInv

(***************************************************************************)
(* Steps that neither touch the store nor the spans in hand.               *)
(***************************************************************************)
LEMMA RestRInv ==
  ASSUME IInv, RInv, Release \/ EndSeed \/ Notify
  PROVE  RInv'
<1>1. /\ UNCHANGED storeVars /\ pc \in {"evict", "notify"} /\ pc' \in {"recv", "notify"}
      /\ batch' = batch /\ malformed' = malformed
  BY DEF Release, AfterRelease, EndSeed, Notify
<1>2. FromBatch'
  BY <1>1 DEF RInv, FromBatch
<1> QED BY <1>1, <1>2, IdleRInv

(***************************************************************************)
(* A step that changes nothing.                                            *)
(***************************************************************************)
LEMMA StutterRInv == ASSUME IInv, RInv, UNCHANGED vars PROVE RInv'
<1>1. UNCHANGED <<traces, keyInterner, serviceInterner, counters, pc, batch, malformed,
                  attrsLeft, internedAttrs, serviceNameId>>
  BY DEF vars, storeVars, writerVars, spanVars
<1>2. FromBatch' /\ RefusalsCounted'
  BY <1>1 DEF RInv, FromBatch, RefusalsCounted
<1>3. Done' = Done /\ NamesOf(keyInterner)' = NamesOf(keyInterner)
      /\ NamesOf(serviceInterner)' = NamesOf(serviceInterner)
  BY <1>1 DEF Done, NamesOf
<1>4. (AttrsInOrder' <=> AttrsInOrder) /\ (DoneLearnt' <=> DoneLearnt)
  BY <1>1, <1>3 DEF AttrsInOrder, DoneLearnt
<1>5. KeptInterned' <=> KeptInterned
  BY <1>1, <1>3 DEF KeptInterned
<1>6. InHand'
  BY <1>1, <1>4, <1>5 DEF RInv, InHand
<1>7. NamesInv'
  BY NextNames DEF RInv
<1> QED BY <1>2, <1>6, <1>7 DEF RInv

(***************************************************************************)
(* The malformed spans of the batch are counted once, and no others.       *)
(***************************************************************************)
LEMMA EndAppendRInv == ASSUME IInv, RInv, EndAppend PROVE RInv'
<1>1. /\ UNCHANGED <<traces, keyInterner, serviceInterner, batch>>
      /\ pc = "append" /\ pc' = "evict" /\ malformed' = 0
      /\ counters' = [counters EXCEPT !.malformedSpan = MalformedTotal]
  BY DEF EndAppend
<1>2. counters'.attributeKeyCapHit = counters.attributeKeyCapHit
  BY <1>1 DEF IInv, TypeOK, CountersType
<1>3. NamesInv' /\ FromBatch'
  BY <1>1, IdleNames DEF RInv, FromBatch
<1>4. RefusalsCounted' /\ InHand'
  BY <1>1, <1>2 DEF RInv, RefusalsCounted, InHand
<1> QED BY <1>3, <1>4 DEF RInv

(***************************************************************************)
(* An eviction takes rows away and touches no other.                       *)
(***************************************************************************)
LEMMA EvictRInv == ASSUME IInv, RInv, NEW t \in TraceIds, EvictOldest(t) PROVE RInv'
<1>1. /\ UNCHANGED <<keyInterner, pc, batch, malformed>>
      /\ pc = "evict"
      /\ counters' = [counters EXCEPT !.evictedTraces = @ + 1]
  BY DEF EvictOldest, writerVars
<1>2. counters'.attributeKeyCapHit = counters.attributeKeyCapHit
  BY <1>1 DEF IInv, TypeOK, CountersType
<1>3. NamesInv'
  BY EvictNames DEF RInv
<1>4. FromBatch' /\ RefusalsCounted' /\ InHand'
  BY <1>1, <1>2 DEF RInv, FromBatch, RefusalsCounted, InHand
<1> QED BY <1>3, <1>4 DEF RInv

(***************************************************************************)
(* A span is taken up with none of its attributes done.                    *)
(***************************************************************************)
LEMMA BeginSpanRInv == ASSUME IInv, RInv, BeginSpan PROVE RInv'
<1>1. /\ UNCHANGED <<traces, keyInterner, counters, batch, malformed>>
      /\ pc = "append" /\ pc' = "attrs"
      /\ attrsLeft' = Head(batch).attrs /\ internedAttrs' = <<>>
  BY DEF BeginSpan
<1>2. Head(batch).attrs \in Seq(TraceAttr)
  BY HeadOfBatch DEF IInv, TypeOK, BeginSpan
<1>4. NamesInv'
  BY BeginSpanNames DEF RInv
<1>5. FromBatch' /\ RefusalsCounted'
  BY <1>1 DEF RInv, FromBatch, RefusalsCounted
<1>6. Done' = 0 /\ Len(Head(batch).attrs) \in Nat
  BY <1>1, <1>2 DEF Done
<1>7. AttrsInOrder' /\ DoneLearnt'
  BY <1>1, <1>2, <1>6 DEF AttrsInOrder, DoneLearnt
<1>8. KeptInterned'
  <2>1. NamesOf(keyInterner') = NamesOf(keyInterner)
    BY <1>1
  <2>2. Abstract!KeptSoFar(Head(batch).attrs, NamesOf(keyInterner))[0] = <<>>
    BY <1>2, KeptStep
  <2>3. keyInterner.capHits = counters.attributeKeyCapHit /\ keyInterner.capHits \in Nat
    BY <1>1, InternerTypes DEF RInv, RefusalsCounted, InternerType
  <2> QED BY <1>1, <1>6, <2>1, <2>2, <2>3 DEF KeptInterned, Resolves
<1>9. InHand'
  BY <1>7, <1>8 DEF InHand
<1> QED BY <1>4, <1>5, <1>9 DEF RInv

(***************************************************************************)
(* One more attribute is done: kept under its id, or refused and counted.  *)
(* What was kept before stays kept, and what was refused stays refused,    *)
(* because a key is refused only by a table that is full.                  *)
(***************************************************************************)
LEMMA KeptGrows ==
  ASSUME NEW attrs \in Seq(TraceAttr), NEW d \in Nat, d + 1 \in 1..Len(attrs),
         NEW k \in InternerType(KeyNames), InternerConsistent(k, KeyNames),
         \A j \in 1..d : attrs[j].key \in NamesOf(k) \/ Len(k.values) = k.cap
  PROVE  LET r == Intern(k, attrs[d + 1].key)
             f == Abstract!KeptSoFar(attrs, NamesOf(k))
             g == Abstract!KeptSoFar(attrs, NamesOf(r))
         IN  /\ \A j \in 1..(d + 1) : attrs[j].key \in NamesOf(r) \/ Len(r.values) = r.cap
             /\ f[d] \in Seq(TraceAttr)
             /\ g[d + 1] = IF attrs[d + 1].key \in NamesOf(r) THEN Append(f[d], attrs[d + 1])
                           ELSE f[d]
<1> DEFINE s == attrs[d + 1].key
           r == Intern(k, s)
           f == Abstract!KeptSoFar(attrs, NamesOf(k))
           g == Abstract!KeptSoFar(attrs, NamesOf(r))
<1>1. s \in KeyNames /\ d \in 0..Len(attrs) /\ \A j \in 1..d : j \in 1..(d + 1)
  <2>1. Len(attrs) \in Nat
    OBVIOUS
  <2>2. attrs[d + 1] \in TraceAttr
    BY ElementOfSeq
  <2>3. s \in KeyNames
    BY <2>2 DEF TraceAttr
  <2> HIDE DEF s
  <2> QED BY <2>1, <2>3
<1>2. Learns(k, r, s)
  <2> HIDE DEF s
  <2> QED BY <1>1, InternLearns
<1>3. r \in InternerType(KeyNames) /\ InternerConsistent(r, KeyNames)
  <2> HIDE DEF s
  <2> QED BY <1>1, InternInv
<1>4. g[d + 1] = IF s \in NamesOf(r) THEN Append(g[d], attrs[d + 1]) ELSE g[d]
  <2> HIDE DEF r
  <2> QED BY KeptStep
<1> HIDE DEF r
<1>5. /\ Len(k.values) \in Nat /\ Len(r.values) \in Nat /\ k.cap \in Nat
      /\ Len(r.values) <= r.cap /\ Cardinality(NamesOf(k)) = Len(k.values)
  <2>1. Cardinality(NamesOf(k)) = Len(k.values)
    BY NamesCounted
  <2>2. Len(k.values) \in Nat /\ k.cap \in Nat
    BY DEF InternerType
  <2>3. Len(r.values) \in Nat
    BY <1>3 DEF InternerType
  <2>4. Len(r.values) <= r.cap
    BY <1>3 DEF InternerConsistent
  <2> QED BY <2>1, <2>2, <2>3, <2>4
<1> HIDE DEF s
<1>6. /\ r.cap = k.cap /\ Len(k.values) <= Len(r.values)
      /\ NamesOf(r) = IF Len(k.values) < k.cap THEN NamesOf(k) \cup {s} ELSE NamesOf(k)
      /\ s \notin NamesOf(r) => Len(r.values) = r.cap
  BY <1>2, <1>5 DEF Learns
<1>7. SameKeys(attrs, d, NamesOf(k), NamesOf(r))
  BY <1>5, <1>6 DEF SameKeys
<1>8. f[d] = g[d] /\ f[d] \in Seq(TraceAttr)
  BY <1>1, <1>7, KeptSame
<1>9. \A j \in 1..(d + 1) : attrs[j].key \in NamesOf(r) \/ Len(r.values) = r.cap
  <2>1. \A j \in 1..(d + 1) : j \in 1..d \/ j = d + 1
    OBVIOUS
  <2>2. \A j \in 1..d : attrs[j].key \in NamesOf(r) \/ Len(r.values) = r.cap
    BY <1>5, <1>6
  <2>3. attrs[d + 1].key \in NamesOf(r) \/ Len(r.values) = r.cap
    BY <1>6 DEF s
  <2> QED BY <2>1, <2>2, <2>3
<1> QED BY <1>4, <1>8, <1>9 DEF r, s

(***************************************************************************)
(* The attribute just interned joins those kept, or is left out of both.   *)
(***************************************************************************)
LEMMA ResolvesGrows ==
  ASSUME NEW k \in InternerType(KeyNames), NEW r \in InternerType(KeyNames),
         NEW a \in TraceAttr, Learns(k, r, a.key),
         NEW kept \in Seq(TraceAttr), NEW ids \in Seq(InternedAttr), Resolves(ids, kept, k)
  PROVE  LET id == InternedId(k, a.key)
         IN  Resolves(IF id = None THEN ids ELSE Append(ids, [key |-> id, value |-> a.value]),
                      IF a.key \in NamesOf(r) THEN Append(kept, a) ELSE kept, r)
<1> DEFINE id  == InternedId(k, a.key)
           new == [key |-> id, value |-> a.value]
<1>1. /\ Len(k.values) \in Nat /\ Len(r.values) \in Nat
      /\ Len(ids) \in Nat /\ Len(kept) = Len(ids)
  BY DEF InternerType, Resolves
<1>2. ASSUME NEW j \in 1..Len(ids)
      PROVE  /\ ids[j].key < Len(r.values)
             /\ kept[j] = [key |-> Get(r, ids[j].key), value |-> ids[j].value]
  <2>1. ids[j] \in InternedAttr
    BY ElementOfSeq
  <2>2. /\ ids[j].key \in Nat /\ ids[j].key < Len(k.values)
        /\ kept[j] = [key |-> Get(k, ids[j].key), value |-> ids[j].value]
    BY <2>1 DEF InternedAttr, Resolves
  <2>3. ids[j].key + 1 \in 1..Len(k.values)
    BY <2>2, <1>1
  <2>4. Get(r, ids[j].key) = Get(k, ids[j].key) /\ Len(k.values) <= Len(r.values)
    BY <2>3 DEF Get, Learns
  <2> QED BY <2>2, <2>4, <1>1
<1>3. CASE a.key \in NamesOf(r)
  <2>1. id \in Nat /\ id < Len(r.values) /\ Get(r, id) = a.key
    BY <1>3 DEF Learns
  <2>2. id # None
    BY <2>1, NoneAssumption
  <2>3. a = [key |-> Get(r, id), value |-> a.value]
    BY <2>1 DEF TraceAttr
  <2>4. new.key = id /\ new.value = a.value
    OBVIOUS
  <2> HIDE DEF id, new
  <2>5. /\ Len(Append(ids, new)) = Len(ids) + 1 /\ Append(ids, new)[Len(ids) + 1] = new
        /\ \A j \in 1..Len(ids) : Append(ids, new)[j] = ids[j]
    OBVIOUS
  <2>6. /\ Len(Append(kept, a)) = Len(ids) + 1 /\ Append(kept, a)[Len(ids) + 1] = a
        /\ \A j \in 1..Len(ids) : Append(kept, a)[j] = kept[j]
    BY <1>1
  <2>7. \A j \in 1..(Len(ids) + 1) : j \in 1..Len(ids) \/ j = Len(ids) + 1
    BY <1>1
  <2> DEFINE ids2  == Append(ids, new)
             kept2 == Append(kept, a)
  <2>8. Resolves(ids2, kept2, r)
    <3> HIDE DEF ids2, kept2
    <3> SUFFICES ASSUME NEW j \in 1..(Len(ids) + 1)
                 PROVE  /\ ids2[j].key < Len(r.values)
                        /\ kept2[j] = [key |-> Get(r, ids2[j].key), value |-> ids2[j].value]
      BY <2>5, <2>6 DEF Resolves, ids2, kept2
    <3>1. CASE j \in 1..Len(ids)
      <4>1. ids2[j] = ids[j] /\ kept2[j] = kept[j]
        BY <3>1, <2>5, <2>6 DEF ids2, kept2
      <4> QED BY <3>1, <4>1, <1>2
    <3>2. CASE j = Len(ids) + 1
      <4>1. ids2[j] = new /\ kept2[j] = a
        BY <3>2, <2>5, <2>6 DEF ids2, kept2
      <4> QED BY <4>1, <2>1, <2>3, <2>4
    <3> QED BY <3>1, <3>2, <2>7
  <2> QED BY <2>2, <2>8, <1>3 DEF id, new
<1>4. CASE a.key \notin NamesOf(r)
  <2>1. id = None
    BY <1>4 DEF Learns
  <2>2. Resolves(ids, kept, r)
    BY <1>1, <1>2 DEF Resolves
  <2> QED BY <2>1, <2>2, <1>4
<1> QED BY <1>3, <1>4

(***************************************************************************)
(* The attribute whose turn it is.                                         *)
(***************************************************************************)
LEMMA NextAttr ==
  ASSUME IInv, AttrsInOrder, batch # <<>>, attrsLeft # <<>>
  PROVE  /\ Head(batch).attrs \in Seq(TraceAttr)
         /\ Done \in Nat /\ Done + 1 \in 1..Len(Head(batch).attrs)
         /\ Head(attrsLeft) = Head(batch).attrs[Done + 1]
         /\ Head(attrsLeft) \in TraceAttr
         /\ Len(Head(batch).attrs) - Len(Tail(attrsLeft)) = Done + 1
         /\ Len(Tail(attrsLeft)) <= Len(Head(batch).attrs)
         /\ \A j \in 1..Len(Tail(attrsLeft)) :
              Tail(attrsLeft)[j] = Head(batch).attrs[Done + 1 + j]
<1> DEFINE attrs == Head(batch).attrs
<1>1. attrs \in Seq(TraceAttr)
  BY HeadOfBatch DEF IInv, TypeOK
<1>2. attrsLeft \in Seq(TraceAttr)
  BY DEF IInv, TypeOK, TraceAttr
<1>3. /\ Len(attrsLeft) <= Len(attrs) /\ Done = Len(attrs) - Len(attrsLeft)
      /\ \A j \in 1..Len(attrsLeft) : attrsLeft[j] = attrs[Done + j]
  BY DEF AttrsInOrder, Done
<1> DEFINE n == Len(attrsLeft)
<1>4. /\ n \in Nat /\ n >= 1 /\ Len(attrs) \in Nat /\ Len(Tail(attrsLeft)) = n - 1
      /\ Head(attrsLeft) = attrsLeft[1] /\ Head(attrsLeft) \in TraceAttr
      /\ \A j \in 1..(n - 1) : Tail(attrsLeft)[j] = attrsLeft[j + 1]
  BY <1>1, <1>2
<1> HIDE DEF attrs
<1>5. Done \in Nat /\ Done + 1 \in 1..Len(attrs) /\ Len(attrs) - Len(Tail(attrsLeft)) = Done + 1
      /\ Len(Tail(attrsLeft)) <= Len(attrs)
  BY <1>3, <1>4
<1>6. Head(attrsLeft) = attrs[Done + 1]
  BY <1>3, <1>4
<1>7. ASSUME NEW j \in 1..(n - 1) PROVE Tail(attrsLeft)[j] = attrs[Done + 1 + j]
  <2>1. j + 1 \in 1..n /\ Done + (j + 1) = Done + 1 + j
    BY <1>4, <1>5
  <2> QED BY <2>1, <1>3, <1>4
<1> QED BY <1>1, <1>4, <1>5, <1>6, <1>7 DEF attrs

(***************************************************************************)
(* One turn of the loop over the attributes of a span.                     *)
(***************************************************************************)
LEMMA InternAttrRInv == ASSUME IInv, RInv, InternAttr PROVE RInv'
<1> DEFINE attrs == Head(batch).attrs
           d     == Done
           a     == Head(attrsLeft)
           id    == InternedId(keyInterner, a.key)
           f     == Abstract!KeptSoFar(attrs, NamesOf(keyInterner))
           g     == Abstract!KeptSoFar(attrs, NamesOf(keyInterner'))
<1>1. /\ UNCHANGED <<traces, serviceInterner, counters, pc, batch, malformed, serviceNameId>>
      /\ pc = "attrs" /\ attrsLeft # <<>> /\ attrsLeft' = Tail(attrsLeft)
      /\ keyInterner' = Intern(keyInterner, a.key)
      /\ internedAttrs' = IF id = None THEN internedAttrs
                          ELSE Append(internedAttrs, [key |-> id, value |-> a.value])
  BY DEF InternAttr
<1>2. AttrsInOrder /\ DoneLearnt /\ KeptInterned /\ batch # <<>>
  BY <1>1 DEF RInv, InHand, IInv, SpanInHand
<1>3. /\ attrs \in Seq(TraceAttr) /\ d \in Nat /\ d + 1 \in 1..Len(attrs)
      /\ a = attrs[d + 1] /\ a \in TraceAttr /\ Done' = d + 1 /\ AttrsInOrder'
  BY <1>1, <1>2, NextAttr DEF AttrsInOrder, Done
<1>4. IInv'
  BY InternAttrInv
<1>5. /\ keyInterner \in InternerType(KeyNames) /\ InternerConsistent(keyInterner, KeyNames)
      /\ keyInterner' \in InternerType(KeyNames)
      /\ internedAttrs \in Seq(InternedAttr) /\ keyInterner.cap = InternerCap
  BY <1>4, InternerTypes DEF IInv, TypeOK, RInv, NamesInv, Caps
<1>6. a.key \in KeyNames
  BY <1>3 DEF TraceAttr
<1>l. \A j \in 1..d : attrs[j].key \in NamesOf(keyInterner)
                        \/ Len(keyInterner.values) = keyInterner.cap
  BY <1>2, <1>5 DEF DoneLearnt
<1>k. Resolves(internedAttrs, f[d], keyInterner)
      /\ keyInterner.capHits = counters.attributeKeyCapHit + (d - Len(internedAttrs))
  BY <1>2 DEF KeptInterned
<1> HIDE DEF attrs, d, a
<1>7. Learns(keyInterner, keyInterner', a.key)
  BY <1>1, <1>5, <1>6, InternLearns
<1>8. /\ \A j \in 1..(d + 1) : attrs[j].key \in NamesOf(keyInterner')
                                 \/ Len(keyInterner'.values) = keyInterner'.cap
      /\ f[d] \in Seq(TraceAttr)
      /\ g[d + 1] = IF a.key \in NamesOf(keyInterner') THEN Append(f[d], a) ELSE f[d]
  BY <1>1, <1>3, <1>5, <1>l, KeptGrows, SMTT(30)
<1>9. keyInterner'.cap = InternerCap
  BY <1>5, <1>7 DEF Learns
<1>10. DoneLearnt'
  BY <1>1, <1>3, <1>8, <1>9 DEF DoneLearnt, attrs
<1> HIDE DEF f, g
<1>11. Resolves(internedAttrs', g[d + 1], keyInterner')
  <2>1. Resolves(IF id = None THEN internedAttrs
                 ELSE Append(internedAttrs, [key |-> id, value |-> a.value]),
                 IF a.key \in NamesOf(keyInterner') THEN Append(f[d], a) ELSE f[d], keyInterner')
    BY <1>3, <1>5, <1>7, <1>8, <1>k, ResolvesGrows
  <2> QED BY <2>1, <1>1, <1>8
<1>12. keyInterner'.capHits = counters.attributeKeyCapHit + ((d + 1) - Len(internedAttrs'))
  <2>1. /\ keyInterner.capHits \in Nat /\ counters.attributeKeyCapHit \in Nat
        /\ Len(internedAttrs) \in Nat
    BY <1>5 DEF InternerType, IInv, TypeOK, CountersType
  <2>2. CASE a.key \in NamesOf(keyInterner')
    <3>1. id \in Nat /\ keyInterner'.capHits = keyInterner.capHits
      BY <2>2, <1>7 DEF Learns
    <3>2. internedAttrs' = Append(internedAttrs, [key |-> id, value |-> a.value])
      BY <3>1, <1>1, NoneAssumption
    <3> HIDE DEF id
    <3>3. Len(internedAttrs') = Len(internedAttrs) + 1
      BY <3>2, <1>5
    <3> QED BY <3>1, <3>3, <2>1, <1>k, <1>3
  <2>3. CASE a.key \notin NamesOf(keyInterner')
    <3>1. id = None /\ keyInterner'.capHits = keyInterner.capHits + 1
      BY <2>3, <1>7 DEF Learns
    <3>2. internedAttrs' = internedAttrs
      BY <3>1, <1>1
    <3> QED BY <3>1, <3>2, <2>1, <1>k, <1>3, SMTT(30)
  <2> QED BY <2>2, <2>3
<1>13. KeptInterned'
  BY <1>1, <1>3, <1>11, <1>12 DEF KeptInterned, g, attrs
<1>14. InHand'
  BY <1>3, <1>10, <1>13 DEF InHand
<1>15. NamesInv'
  BY InternAttrNames DEF RInv
<1>16. FromBatch' /\ RefusalsCounted'
  BY <1>1 DEF RInv, FromBatch, RefusalsCounted
<1> QED BY <1>14, <1>15, <1>16 DEF RInv

(***************************************************************************)
(* The row written has valid ids, and the refusals of its keys are counted.*)
(***************************************************************************)
LEMMA InsertRowRInv == ASSUME IInv, RInv, InsertRow PROVE RInv'
<1>1. /\ UNCHANGED <<keyInterner, malformed>>
      /\ batch' = Tail(batch) /\ pc = "attrs" /\ pc' = "append"
      /\ counters'.attributeKeyCapHit = keyInterner.capHits
  BY DEF InsertRow, IInv, TypeOK, CountersType
<1>2. NamesInv'
  BY InsertRowNames DEF RInv
<1>3. FromBatch'
  <2>1. batch \in Seq(NewSpanType) /\ batch # <<>>
    BY <1>1 DEF IInv, TypeOK, SpanInHand
  <2>2. \A i \in 1..Len(Tail(batch)) : i + 1 \in 1..Len(batch) /\ Tail(batch)[i] = batch[i + 1]
    BY <2>1
  <2>3. /\ \A i \in 1..Len(batch) : \E b \in Sources : \E j \in 1..Len(b.spans) : batch[i] = b.spans[j]
        /\ \E b \in Sources : malformed = b.malformed
    BY <1>1 DEF RInv, FromBatch
  <2>4. ASSUME NEW i \in 1..Len(batch')
        PROVE  \E b \in Sources : \E j \in 1..Len(b.spans) : batch'[i] = b.spans[j]
    <3>1. i + 1 \in 1..Len(batch) /\ batch'[i] = batch[i + 1]
      BY <1>1, <2>2
    <3> QED BY ONLY <2>3, <3>1
  <2>5. \E b \in Sources : malformed' = b.malformed
    BY <1>1, <2>3
  <2> QED BY <1>1, <2>4, <2>5 DEF FromBatch
<1>4. RefusalsCounted' /\ InHand'
  BY <1>1 DEF RInv, RefusalsCounted, InHand
<1> QED BY <1>2, <1>3, <1>4 DEF RInv

(***************************************************************************)
(* Every step, seeding or not, keeps what the refinement needs.            *)
(***************************************************************************)
LEMMA DemoNextRInv == IInv /\ RInv /\ [DemoNext]_vars => RInv'
<1> SUFFICES ASSUME IInv, RInv, [DemoNext]_vars PROVE RInv'
  OBVIOUS
<1>1. CASE BeginSeed
  BY <1>1, BeginSeedRInv
<1>2. ASSUME NEW b \in Batches, Recv(b) PROVE RInv'
  BY <1>2, RecvRInv
<1>3. CASE BeginSpan
  BY <1>3, BeginSpanRInv
<1>4. CASE InternAttr
  BY <1>4, InternAttrRInv
<1>5. CASE InsertRow
  BY <1>5, InsertRowRInv
<1>6. CASE EndAppend
  BY <1>6, EndAppendRInv
<1>7. ASSUME NEW t \in TraceIds, EvictOldest(t) PROVE RInv'
  BY <1>7, EvictRInv
<1>8. CASE Release \/ EndSeed \/ Notify
  BY <1>8, RestRInv
<1>9. CASE UNCHANGED vars
  BY <1>9, StutterRInv
<1> QED BY <1>1, <1>2, <1>3, <1>4, <1>5, <1>6, <1>7, <1>8, <1>9
        DEF DemoNext, SeedStep, Next, WriterStep, SeedSpan, InsertSpan

(***************************************************************************)
(* A step that leaves the store alone and takes up no span shows nowhere.  *)
(***************************************************************************)
LEMMA IdleSim ==
  ASSUME UNCHANGED storeVars,
         (IF pc' = "attrs" THEN Head(batch') ELSE None)
            = (IF pc = "attrs" THEN Head(batch) ELSE None)
  PROVE  UNCHANGED Abstract!vars
<1>1. UNCHANGED <<traces, keyInterner, serviceInterner, evictedGenerations, counters>>
  BY DEF storeVars
<1>2. TablesOf' = TablesOf
  BY <1>1 DEF TablesOf
<1>3. LivesOf' = LivesOf
  BY <1>1 DEF LivesOf
<1>4. /\ NamesOf(keyInterner)' = NamesOf(keyInterner)
      /\ NamesOf(serviceInterner)' = NamesOf(serviceInterner)
  BY <1>1 DEF NamesOf
<1> QED BY <1>1, <1>2, <1>3, <1>4 DEF Abstract!vars

(***************************************************************************)
(* The abstract store counts like the store.                               *)
(***************************************************************************)
LEMMA SameCardinality == ASSUME NEW S PROVE Abstract!Cardinality(S) = Cardinality(S)
BY DEF Abstract!Cardinality, Cardinality

(***************************************************************************)
(* The writer takes up a span of a batch.                                  *)
(***************************************************************************)
LEMMA BeginSpanSim ==
  ASSUME IInv, RInv, BeginSpan
  PROVE  \E b \in Sources : \E i \in 1..Len(b.spans) : Abstract!Begin(b.spans[i])
<1>1. /\ UNCHANGED <<traces, keyInterner, evictedGenerations, counters, batch>>
      /\ pc = "append" /\ pc' = "attrs" /\ batch # <<>>
  BY DEF BeginSpan
<1>2. IInv'
  BY BeginSpanInv
<1>3. TablesOf' = TablesOf
  BY <1>1, <1>2, TablesStable, GrownSame, InternerTypes, ServiceLearnt DEF RInv, NamesInv
<1>4. LivesOf' = LivesOf
  BY <1>1 DEF LivesOf
<1>5. NamesOf(keyInterner)' = NamesOf(keyInterner)
  BY <1>1 DEF NamesOf
<1>6. NamesOf(serviceInterner)' =
        IF Head(batch).service = None THEN NamesOf(serviceInterner)
        ELSE IF Cardinality(NamesOf(serviceInterner)) < InternerCap
             THEN NamesOf(serviceInterner) \cup {Head(batch).service}
             ELSE NamesOf(serviceInterner)
  BY ServiceLearnt DEF RInv
<1>7. Abstract!Begin(Head(batch))
  BY <1>1, <1>3, <1>4, <1>5, <1>6, SameCardinality DEF Abstract!Begin, Abstract!Learn
<1>8. \E b \in Sources : \E i \in 1..Len(b.spans) : Head(batch) = b.spans[i]
  <2>1. batch \in Seq(NewSpanType)
    BY DEF IInv, TypeOK
  <2>2. 1 \in 1..Len(batch) /\ Head(batch) = batch[1]
    BY <2>1, <1>1
  <2> QED BY <2>2 DEF RInv, FromBatch
<1> QED BY <1>7, <1>8

(***************************************************************************)
(* The key whose turn it is is learnt.                                     *)
(***************************************************************************)
LEMMA InternAttrSim ==
  ASSUME IInv, RInv, InternAttr
  PROVE  /\ (IF pc = "attrs" THEN Head(batch) ELSE None) # None
         /\ \E j \in 1..Len((IF pc = "attrs" THEN Head(batch) ELSE None).attrs) :
              Abstract!LearnKey(j)
<1> DEFINE a == Head(attrsLeft)
<1>1. /\ UNCHANGED <<traces, serviceInterner, evictedGenerations, counters, pc, batch>>
      /\ pc = "attrs" /\ attrsLeft # <<>>
      /\ keyInterner' = Intern(keyInterner, a.key)
  BY DEF InternAttr
<1>2. AttrsInOrder /\ batch # <<>> /\ keyInterner.cap = InternerCap
  BY <1>1 DEF RInv, NamesInv, InHand, IInv, SpanInHand, Caps
<1>3. /\ Done + 1 \in 1..Len(Head(batch).attrs)
      /\ a = Head(batch).attrs[Done + 1] /\ a \in TraceAttr
  BY <1>1, <1>2, NextAttr
<1>4. Head(batch) # None
  BY <1>1, SpanInHandOK, NoneIsNoSpan
<1> HIDE DEF a
<1>5. Learns(keyInterner, keyInterner', a.key)
  <2>1. a.key \in KeyNames
    BY <1>3 DEF TraceAttr
  <2> QED BY <2>1, <1>1, InternerTypes, InternLearns
<1>6. Grown(keyInterner, keyInterner') /\ Grown(serviceInterner, serviceInterner')
  BY <1>1, <1>5, GrownSame, InternerTypes DEF Learns, Grown
<1>7. IInv'
  BY InternAttrInv
<1>8. TablesOf' = TablesOf
  BY <1>1, <1>6, <1>7, TablesStable DEF RInv, NamesInv
<1>9. LivesOf' = LivesOf
  BY <1>1 DEF LivesOf
<1>10. NamesOf(serviceInterner)' = NamesOf(serviceInterner)
  BY <1>1 DEF NamesOf
<1>11. NamesOf(keyInterner)' = IF Cardinality(NamesOf(keyInterner)) < InternerCap
                               THEN NamesOf(keyInterner) \cup {a.key} ELSE NamesOf(keyInterner)
  BY <1>2, <1>5 DEF Learns
<1>12. Abstract!LearnKey(Done + 1)
  BY <1>1, <1>3, <1>4, <1>8, <1>9, <1>10, <1>11, SameCardinality
  DEF Abstract!LearnKey, Abstract!Learn
<1> QED BY <1>1, <1>3, <1>4, <1>12

(***************************************************************************)
(* The malformed spans counted are those of a batch.                       *)
(***************************************************************************)
LEMMA EndAppendSim ==
  ASSUME IInv, RInv, EndAppend
  PROVE  \E b \in Sources : Abstract!CountMalformed(b)
<1>1. /\ UNCHANGED <<traces, keyInterner, serviceInterner, evictedGenerations>>
      /\ pc = "append" /\ pc' = "evict"
      /\ counters' = [counters EXCEPT !.malformedSpan = @ + malformed]
  BY DEF EndAppend, MalformedTotal
<1>2. PICK b \in Sources : malformed = b.malformed
  BY <1>1 DEF RInv, FromBatch
<1>3. TablesOf' = TablesOf /\ LivesOf' = LivesOf
  BY <1>1 DEF TablesOf, LivesOf
<1>4. /\ NamesOf(keyInterner)' = NamesOf(keyInterner)
      /\ NamesOf(serviceInterner)' = NamesOf(serviceInterner)
  BY <1>1 DEF NamesOf
<1>5. Abstract!CountMalformed(b)
  BY <1>1, <1>2, <1>3, <1>4 DEF Abstract!CountMalformed
<1> QED BY <1>5

(***************************************************************************)
(* An eviction forgets one trace and never the last one.                   *)
(***************************************************************************)
LEMMA EvictSim ==
  ASSUME IInv, RInv, NEW t \in TraceIds, EvictOldest(t)
  PROVE  Abstract!Forget(t)
<1>1. /\ UNCHANGED <<keyInterner, serviceInterner, pc>> /\ pc = "evict"
      /\ t \in Oldest /\ MustEvict
      /\ traces' = [traces EXCEPT ![t] = None]
      /\ evictedGenerations' = [evictedGenerations EXCEPT ![t] = traces[t].generation]
      /\ counters' = [counters EXCEPT !.evictedTraces = @ + 1]
  BY DEF EvictOldest, writerVars
<1>2. /\ traces \in [TraceIds -> Optional(TraceType)]
      /\ evictedGenerations \in [TraceIds -> Optional(Nat)]
  BY DEF IInv, TypeOK
<1>3. t \in Resident /\ traces[t] # None /\ traces[t].generation \in Nat
  <2>1. t \in Resident /\ traces[t] # None /\ traces[t] \in TraceType
    BY <1>1, <1>2 DEF Oldest, Resident, Optional
  <2> QED BY <2>1, TraceFieldTypes
<1>4. \E u \in TraceIds \ {t} : traces[u] # None
  <2> SUFFICES ASSUME \A u \in TraceIds \ {t} : traces[u] = None PROVE FALSE
    OBVIOUS
  <2>1. Resident = {t}
    BY <1>3 DEF Resident
  <2>2. Cardinality(Resident) = 1
    BY <2>1, FS_Singleton
  <2> QED BY <2>2, <1>1 DEF MustEvict
<1>5. TablesOf[t] # None /\ \E u \in TraceIds \ {t} : TablesOf[u] # None
  BY <1>3, <1>4, TablesRead DEF RInv
<1>6. TablesOf' = [TablesOf EXCEPT ![t] = None]
  BY <1>1, <1>2 DEF TablesOf
<1>7. LivesOf' = LivesOf
  BY <1>1, <1>2, <1>3, NoneAssumption DEF LivesOf
<1>8. /\ NamesOf(keyInterner)' = NamesOf(keyInterner)
      /\ NamesOf(serviceInterner)' = NamesOf(serviceInterner)
  BY <1>1 DEF NamesOf
<1> QED BY <1>1, <1>5, <1>6, <1>7, <1>8 DEF Abstract!Forget

(***************************************************************************)
(* Once every attribute is done, what has been kept is what the abstract   *)
(* store keeps, and the rest is counted as refused.                        *)
(***************************************************************************)
LEMMA AllDone ==
  ASSUME IInv, RInv, pc = "attrs", attrsLeft = <<>>
  PROVE  LET attrs == Head(batch).attrs
             kept  == Abstract!Kept(attrs)
         IN  /\ kept = [j \in 1..Len(internedAttrs) |->
                          [key   |-> Get(keyInterner, internedAttrs[j].key),
                           value |-> internedAttrs[j].value]]
             /\ keyInterner.capHits = counters.attributeKeyCapHit + Len(attrs) - Len(kept)
             /\ \A j \in 1..Len(attrs) :
                  attrs[j].key \in NamesOf(keyInterner)
                    \/ Cardinality(NamesOf(keyInterner)) = InternerCap
<1> DEFINE attrs == Head(batch).attrs
           kept  == Abstract!KeptSoFar(attrs, NamesOf(keyInterner))[Len(attrs)]
<1>1. /\ attrs \in Seq(TraceAttr) /\ Len(attrs) \in Nat /\ internedAttrs \in Seq(InternedAttr)
      /\ Len(internedAttrs) \in Nat
  BY SpanInHandOK
<1>2. Done = Len(attrs)
  BY <1>1 DEF Done
<1>3. /\ Resolves(internedAttrs, kept, keyInterner)
      /\ keyInterner.capHits = counters.attributeKeyCapHit + (Len(attrs) - Len(internedAttrs))
      /\ \A j \in 1..Len(attrs) :
           attrs[j].key \in NamesOf(keyInterner) \/ Len(keyInterner.values) = InternerCap
  BY <1>2 DEF RInv, InHand, KeptInterned, DoneLearnt
<1>4. kept \in Seq(TraceAttr)
  <2>1. Len(attrs) \in 0..Len(attrs)
    BY <1>1
  <2>2. SameKeys(attrs, Len(attrs), NamesOf(keyInterner), NamesOf(keyInterner))
    BY DEF SameKeys
  <2> HIDE DEF attrs
  <2> QED BY <1>1, <2>1, <2>2, KeptSame
<1>5. Abstract!Kept(attrs) = kept
  BY DEF Abstract!Kept
<1>6. Cardinality(NamesOf(keyInterner)) = Len(keyInterner.values)
  BY InternerTypes, NamesCounted
<1>7. counters.attributeKeyCapHit \in Nat
  BY DEF IInv, TypeOK, CountersType
<1> HIDE DEF kept
<1>8. kept = [j \in 1..Len(internedAttrs) |->
                [key   |-> Get(keyInterner, internedAttrs[j].key),
                 value |-> internedAttrs[j].value]]
  <2>1. Len(kept) = Len(internedAttrs) /\ kept = [j \in 1..Len(kept) |-> kept[j]]
    BY <1>3, <1>4 DEF Resolves
  <2>2. \A j \in 1..Len(internedAttrs) :
          kept[j] = [key |-> Get(keyInterner, internedAttrs[j].key),
                     value |-> internedAttrs[j].value]
    BY <1>3 DEF Resolves
  <2> QED BY <2>1, <2>2
<1>9. keyInterner.capHits = counters.attributeKeyCapHit + Len(attrs) - Len(kept)
  BY <1>1, <1>3, <1>7 DEF Resolves
<1> HIDE DEF attrs
<1> QED BY <1>3, <1>5, <1>6, <1>8, <1>9 DEF attrs

(***************************************************************************)
(* The row in hand, read through the interners, is the entry the abstract  *)
(* store writes.                                                           *)
(***************************************************************************)
LEMMA RowReads ==
  ASSUME IInv, RInv, pc = "attrs", attrsLeft = <<>>, NEW known \in Optional(RowType),
         known # None => RowValid(known, keyInterner, serviceInterner)
  PROVE  LET span  == Head(batch)
             named == Named(known, keyInterner, serviceInterner)
         IN  /\ named = None <=> known = None
             /\ Named(RowInHand(known), keyInterner, serviceInterner) =
                  [parent  |-> IF named = None THEN span.parent ELSE named.parent,
                   body    |-> span.body,
                   service |-> IF span.service \in NamesOf(serviceInterner)
                               THEN span.service ELSE None,
                   attrs   |-> Abstract!Kept(span.attrs)]
<1> DEFINE span  == Head(batch)
           named == Named(known, keyInterner, serviceInterner)
           kept  == Abstract!Kept(span.attrs)
           row   == RowInHand(known)
           p     == IF known = None THEN span.parent ELSE known.parent
<1>1. /\ named = None <=> known = None
      /\ known # None => named.parent = known.parent
  <2>1. CASE known = None
    BY <2>1 DEF Named
  <2>2. CASE known # None
    <3>1. known \in RowType
      BY <2>2 DEF Optional
    <3>2. named # None
      BY <3>1, <2>2, InternerTypes, NamedIsSpan
    <3>3. named.parent = known.parent
      BY <2>2 DEF Named
    <3> QED BY <2>2, <3>2, <3>3
  <2> QED BY <2>1, <2>2
<1>2. row \in RowType /\ row # None
  BY RowInHandOK, NoneIsNoSpan DEF RInv
<1>3. /\ row.parent = p /\ row.body = span.body
      /\ row.service = serviceNameId /\ row.attrs = internedAttrs
  BY DEF RowInHand, EntryFor
<1>4. (IF serviceNameId = None THEN None ELSE Get(serviceInterner, serviceNameId)) =
        IF span.service \in NamesOf(serviceInterner) THEN span.service ELSE None
  BY NoneAssumption DEF RInv, NamesInv, ServiceInHand
<1>5. kept = [j \in 1..Len(internedAttrs) |->
                [key   |-> Get(keyInterner, internedAttrs[j].key),
                 value |-> internedAttrs[j].value]]
  BY AllDone
<1>6. p = IF named = None THEN span.parent ELSE named.parent
  BY <1>1
<1> HIDE DEF row, p, kept, named, span
<1>7. Named(row, keyInterner, serviceInterner) =
        [parent |-> p, body |-> span.body,
         service |-> IF serviceNameId = None THEN None ELSE Get(serviceInterner, serviceNameId),
         attrs |-> [j \in 1..Len(internedAttrs) |->
                      [key   |-> Get(keyInterner, internedAttrs[j].key),
                       value |-> internedAttrs[j].value]]]
  BY <1>2, <1>3 DEF Named
<1>8. Named(row, keyInterner, serviceInterner) =
        [parent |-> IF named = None THEN span.parent ELSE named.parent, body |-> span.body,
         service |-> IF span.service \in NamesOf(serviceInterner) THEN span.service ELSE None,
         attrs |-> kept]
  BY <1>4, <1>5, <1>6, <1>7
<1> QED BY <1>1, <1>8 DEF row, kept, named, span

(***************************************************************************)
(* The write of the row is the abstract Put, once the parts of the state   *)
(* are related one by one.                                                 *)
(***************************************************************************)
LEMMA InsertRowSim == ASSUME IInv, RInv, InsertRow PROVE Abstract!Put
<1> DEFINE span   == Head(batch)
           t      == span.trace
           id     == span.id
           rows   == TableOf(EntryOf(t))
           fresh  == TablesOf[t] = None
           before == IF fresh THEN Abstract!EmptyTable ELSE TablesOf[t]
           known  == before[id]
           entry  == [parent  |-> IF known = None THEN span.parent ELSE known.parent,
                      body    |-> span.body,
                      service |-> IF span.service \in NamesOf(serviceInterner)
                                  THEN span.service ELSE None,
                      attrs   |-> Abstract!Kept(span.attrs)]
<1>1. /\ UNCHANGED <<keyInterner, serviceInterner>>
      /\ pc = "attrs" /\ pc' = "append" /\ attrsLeft = <<>>
      /\ evictedGenerations' = GenerationsAfterEntry(t)
      /\ counters' = [counters EXCEPT
              !.duplicateSpan = IF IsDuplicate(EntryOf(t), span) THEN @ + 1 ELSE @,
              !.lateSpanAfterEviction = IF Resurrected(t) THEN @ + 1 ELSE @,
              !.attributeKeyCapHit = keyInterner.capHits]
  BY DEF InsertRow
<1>2. span # None
  BY <1>1, SpanInHandOK, NoneIsNoSpan
<1>3. /\ t \in TraceIds /\ id \in SpanIds
      /\ traces'[t] # None /\ traces'[t].generation = EntryOf(t).generation
      /\ TableOf(traces'[t]) = [rows EXCEPT ![id] = RowInHand(rows[id])]
      /\ \A x \in TraceIds : x # t => traces'[x] = traces[x]
      /\ rows[id] \in Optional(RowType)
      /\ IsDuplicate(EntryOf(t), span) <=> rows[id] # None
  BY RowInserted
<1>4. rows = IF traces[t] = None THEN [s \in SpanIds |-> None] ELSE TableOf(traces[t])
  BY <1>3, EntryTable
<1>5. /\ TablesOf[t] = IF traces[t] = None THEN None ELSE ReadTable(TableOf(traces[t]))
      /\ fresh <=> traces[t] = None
  BY <1>3, TablesRead DEF RInv
<1>6. EntryOf(t).generation + 1 = IF fresh THEN LivesOf[t] + 1 ELSE LivesOf[t]
  BY <1>3, <1>5, EntryTable, Zenon
<1> HIDE DEF rows
<1>7. before = ReadTable(rows)
  BY <1>4, <1>5 DEF ReadTable, Named, Abstract!EmptyTable
<1>8. rows[id] # None => RowValid(rows[id], keyInterner, serviceInterner)
  <2> HIDE DEF t, id
  <2> QED BY <1>3, <1>4 DEF RInv, NamesInv, RowIdsValid, Resident
<1>9. known = Named(rows[id], keyInterner, serviceInterner)
  BY <1>3, <1>7 DEF ReadTable
<1>10. /\ known = None <=> rows[id] = None
       /\ Named(RowInHand(rows[id]), keyInterner, serviceInterner) = entry
  <2> HIDE DEF before
  <2> QED BY <1>1, <1>3, <1>8, <1>9, RowReads
<1>11. ReadTable(TableOf(traces'[t])) = [before EXCEPT ![id] = entry]
  <2>1. DOMAIN rows = SpanIds
    BY <1>4 DEF TableOf
  <2> HIDE DEF before, entry, id, t
  <2> QED BY <1>3, <1>7, <1>10, <2>1 DEF ReadTable
<1>12. TablesOf' = [TablesOf EXCEPT ![t] = [before EXCEPT ![id] = entry]]
  <2> DEFINE new == [before EXCEPT ![id] = entry]
  <2> HIDE DEF new, before, t
  <2>1. ASSUME NEW x \in TraceIds PROVE TablesOf'[x] = IF x = t THEN new ELSE TablesOf[x]
    <3>1. TablesOf'[x] = IF traces'[x] = None THEN None ELSE ReadTable(TableOf(traces'[x]))
      BY <1>1 DEF TablesOf, ReadTable
    <3>2. TablesOf[x] = IF traces[x] = None THEN None ELSE ReadTable(TableOf(traces[x]))
      BY DEF TablesOf, ReadTable
    <3> QED BY <3>1, <3>2, <1>3, <1>11 DEF new
  <2>2. TablesOf' = [x \in TraceIds |-> TablesOf'[x]] /\ TablesOf = [x \in TraceIds |-> TablesOf[x]]
    BY DEF TablesOf
  <2>3. TablesOf' = [TablesOf EXCEPT ![t] = new]
    BY <2>1, <2>2
  <2> QED BY <2>3 DEF new
<1>13. LivesOf' = [LivesOf EXCEPT ![t] = IF fresh THEN @ + 1 ELSE @]
  <2> HIDE DEF fresh, t
  <2>0. evictedGenerations \in [TraceIds -> Optional(Nat)]
    BY DEF IInv, TypeOK
  <2>1. ASSUME NEW x \in TraceIds
        PROVE  LivesOf'[x] = IF x = t THEN IF fresh THEN LivesOf[t] + 1 ELSE LivesOf[t]
                             ELSE LivesOf[x]
    <3>1. x # t => evictedGenerations'[x] = evictedGenerations[x]
      BY <1>1, <2>0 DEF GenerationsAfterEntry
    <3> QED BY <3>1, <1>3, <1>6 DEF LivesOf
  <2>2. LivesOf' = [x \in TraceIds |-> LivesOf'[x]] /\ LivesOf = [x \in TraceIds |-> LivesOf[x]]
    BY DEF LivesOf
  <2> QED BY <2>1, <2>2
<1>14. fresh /\ LivesOf[t] > 0 <=> Resurrected(t)
  <2>1. evictedGenerations[t] \in Optional(Nat)
    BY <1>3 DEF IInv, TypeOK
  <2>2. traces[t] = None =>
          LivesOf[t] = IF evictedGenerations[t] # None THEN evictedGenerations[t] + 1 ELSE 0
    BY <1>3 DEF LivesOf
  <2> HIDE DEF t, fresh
  <2> QED BY <2>1, <2>2, <1>5 DEF Resurrected, Optional
<1>15. /\ keyInterner.capHits =
            counters.attributeKeyCapHit + Len(span.attrs) - Len(Abstract!Kept(span.attrs))
       /\ \A j \in 1..Len(span.attrs) :
            span.attrs[j].key \in NamesOf(keyInterner)
              \/ Cardinality(NamesOf(keyInterner)) = InternerCap
  BY <1>1, AllDone
<1>16. /\ NamesOf(keyInterner)' = NamesOf(keyInterner)
       /\ NamesOf(serviceInterner)' = NamesOf(serviceInterner)
  BY <1>1 DEF NamesOf
<1>17. counters' = [counters EXCEPT
         !.duplicateSpan = IF known = None THEN @ ELSE @ + 1,
         !.lateSpanAfterEviction = IF fresh /\ LivesOf[t] > 0 THEN @ + 1 ELSE @,
         !.attributeKeyCapHit = @ + Len(span.attrs) - Len(Abstract!Kept(span.attrs))]
  <2> HIDE DEF known, fresh, t, span
  <2> QED BY <1>1, <1>3, <1>10, <1>14, <1>15
<1> QED BY <1>1, <1>2, <1>12, <1>13, <1>15, <1>16, <1>17, SameCardinality DEF Abstract!Put

(***************************************************************************)
(* A new server's store is the empty abstract store.                       *)
(***************************************************************************)
LEMMA InitSim == Init => Abstract!Init
<1> SUFFICES ASSUME Init PROVE Abstract!Init
  OBVIOUS
<1>1. TablesOf = [t \in TraceIds |-> None] /\ LivesOf = [t \in TraceIds |-> 0]
  BY DEF Init, TablesOf, LivesOf
<1>2. NamesOf(keyInterner) = {} /\ NamesOf(serviceInterner) = {}
  BY DEF Init, NewInterner, NamesOf
<1> QED BY <1>1, <1>2 DEF Init, Abstract!Init

(***************************************************************************)
(* Every step of the seeding and of the writer is a step of the abstract   *)
(* store, or shows nowhere in it.                                          *)
(***************************************************************************)
LEMMA StepSim == IInv /\ RInv /\ [DemoNext]_vars => [Abstract!Next]_(Abstract!vars)
<1> SUFFICES ASSUME IInv, RInv, [DemoNext]_vars PROVE Abstract!Next \/ UNCHANGED Abstract!vars
  OBVIOUS
<1>1. CASE BeginSpan
  BY <1>1, BeginSpanSim DEF Abstract!Next, Sources
<1>2. CASE InternAttr
  BY <1>2, InternAttrSim DEF Abstract!Next
<1>3. CASE InsertRow
  BY <1>3, InsertRowSim DEF Abstract!Next
<1>4. CASE EndAppend
  BY <1>4, EndAppendSim DEF Abstract!Next, Sources
<1>5. ASSUME NEW t \in TraceIds, EvictOldest(t) PROVE Abstract!Next
  BY <1>5, EvictSim DEF Abstract!Next
<1>6. ASSUME BeginSeed \/ (\E b \in Batches : Recv(b)) \/ Release \/ EndSeed \/ Notify
      PROVE  UNCHANGED Abstract!vars
  <2>1. UNCHANGED storeVars /\ pc # "attrs" /\ pc' # "attrs"
    BY <1>6 DEF BeginSeed, Recv, Release, AfterRelease, EndSeed, Notify
  <2> QED BY <2>1, IdleSim
<1>7. CASE UNCHANGED vars
  <2>1. UNCHANGED storeVars /\ pc' = pc /\ batch' = batch
    BY <1>7 DEF vars, writerVars
  <2> QED BY <2>1, IdleSim
<1> QED BY <1>1, <1>2, <1>3, <1>4, <1>5, <1>6, <1>7
        DEF DemoNext, SeedStep, Next, WriterStep, SeedSpan, InsertSpan

(***************************************************************************)
(* The store implements the abstract store, for every set of traces, names *)
(* and batches, every budget and every interner cap: what `get` and the    *)
(* accessors read back is what `insert_span` was given, but for attributes *)
(* and service names a full interner refused, of which only the attributes *)
(* are counted; and a trace that comes back has a generation of its own.   *)
(***************************************************************************)
THEOREM StoreImplementsSpanStore == DemoSpec => ImplementsSpanStore
<1>1. Init => RInv
  BY InitRInv
<1>2. IInv /\ RInv /\ [DemoNext]_vars => RInv'
  BY DemoNextRInv
<1>3. Init => Abstract!Init
  BY InitSim
<1>4. IInv /\ RInv /\ [DemoNext]_vars => [Abstract!Next]_(Abstract!vars)
  BY StepSim
<1> QED BY <1>1, <1>2, <1>3, <1>4, DemoInductive, PTL
        DEF DemoSpec, ImplementsSpanStore, Abstract!Spec
=============================================================================
