---------------------------- MODULE TraceProofs -----------------------------
(***************************************************************************)
(* Lemmas about the operators of Interner and Trace.  `intern` keeps the   *)
(* map and the vector two views of one table, within the cap, and never    *)
(* changes the id of a string it has accepted.  `insert` keeps the         *)
(* columns, the index, the slices and the parent links consistent,         *)
(* whatever the trace and the span, and overwrites or adds exactly the row *)
(* of the span.                                                            *)
(***************************************************************************)
EXTENDS Trace, SequenceTheorems, TLAPS

(***************************************************************************)
(* `Interner::with_cap` gives an empty, consistent table.                  *)
(***************************************************************************)
LEMMA NewInternerInv ==
  ASSUME NEW strings, NEW cap \in Nat
  PROVE  /\ NewInterner(strings, cap) \in InternerType(strings)
         /\ InternerConsistent(NewInterner(strings, cap), strings)
BY DEF NewInterner, InternerType, InternerConsistent, Lookup, Get, Optional

(***************************************************************************)
(* One call of `intern`: the table stays consistent and within the cap,    *)
(* every string keeps the id it has, and what is returned is an id of the  *)
(* table or the refusal.                                                   *)
(***************************************************************************)
THEOREM InternInv ==
  ASSUME NEW strings, NEW interner \in InternerType(strings),
         InternerConsistent(interner, strings), NEW s \in strings
  PROVE  /\ Intern(interner, s) \in InternerType(strings)
         /\ InternerConsistent(Intern(interner, s), strings)
         /\ InternedId(interner, s) \in Optional(Nat)
         /\ \A x \in strings : Lookup(interner, x) # None =>
              Lookup(Intern(interner, s), x) = Lookup(interner, x)
<1> DEFINE r == Intern(interner, s)
           n == Len(interner.values)
<1>f. /\ interner.map \in [strings -> Optional(Nat)] /\ interner.values \in Seq(strings)
      /\ interner.cap \in Nat /\ interner.capHits \in Nat /\ n \in Nat
  BY DEF InternerType
<1>1. CASE Lookup(interner, s) # None
  <2>1. r = interner
    BY <1>1 DEF Intern
  <2> QED BY <2>1, <1>f DEF InternedId, Lookup
<1>2. CASE Lookup(interner, s) = None /\ n >= interner.cap
  <2>1. r = [interner EXCEPT !.capHits = @ + 1]
    BY <1>2 DEF Intern
  <2>2. /\ r \in InternerType(strings)
        /\ r.map = interner.map /\ r.values = interner.values /\ r.cap = interner.cap
    BY <2>1, <1>f DEF InternerType
  <2> HIDE DEF r
  <2> QED BY <2>2, <1>f DEF InternerConsistent, Lookup, Get, InternedId, r
<1>3. CASE Lookup(interner, s) = None /\ ~(n >= interner.cap)
  <2>1. r = [interner EXCEPT !.values = Append(@, s), !.map = [@ EXCEPT ![s] = n]]
    BY <1>3 DEF Intern
  <2>2. /\ Append(interner.values, s) \in Seq(strings)
        /\ [interner.map EXCEPT ![s] = n] \in [strings -> Optional(Nat)]
    BY <1>f DEF Optional
  <2>3. /\ r \in InternerType(strings)
        /\ r.values = Append(interner.values, s)
        /\ r.map = [interner.map EXCEPT ![s] = n]
        /\ r.cap = interner.cap
    BY <2>1, <2>2, <1>f DEF InternerType
  <2> HIDE DEF r
  <2>4. /\ Len(r.values) = n + 1 /\ r.values[n + 1] = s
        /\ \A i \in 1..n : r.values[i] = interner.values[i]
        /\ \A i \in 1..n : interner.values[i] \in strings
    BY <2>3, <1>f
  <2>5. \A x \in strings : Lookup(r, x) = IF x = s THEN n ELSE Lookup(interner, x)
    BY <2>3, <1>f DEF Lookup
  <2>6. \A x \in strings : Lookup(interner, x) \in Optional(Nat)
    BY <1>f DEF Lookup
  <2>7. Len(r.values) <= r.cap
    BY <1>3, <2>3, <2>4, <1>f
  <2>8. ASSUME NEW x \in strings, Lookup(r, x) # None
        PROVE  Lookup(r, x) < Len(r.values) /\ Get(r, Lookup(r, x)) = x
    <3>1. CASE x = s
      BY <3>1, <2>4, <2>5, <1>f DEF Get
    <3>2. CASE x # s
      <4>1. Lookup(r, x) = Lookup(interner, x) /\ Lookup(interner, x) \in Nat
        BY <3>2, <2>5, <2>6, <2>8 DEF Optional
      <4>2. /\ Lookup(interner, x) < n
            /\ interner.values[Lookup(interner, x) + 1] = x
        BY <4>1, <2>8 DEF InternerConsistent, Get
      <4>3. Lookup(interner, x) + 1 \in 1..n
        BY <4>1, <4>2, <1>f
      <4> QED BY <4>1, <4>2, <4>3, <2>4, <1>f DEF Get
    <3> QED BY <3>1, <3>2
  <2>9. ASSUME NEW i \in 1..(n + 1)
        PROVE  Lookup(r, r.values[i]) = i - 1
    <3>1. CASE i = n + 1
      BY <3>1, <2>4, <2>5, <1>f
    <3>2. CASE i \in 1..n
      <4>1. Lookup(interner, interner.values[i]) = i - 1 /\ i - 1 \in Nat
        BY <3>2, <1>f DEF InternerConsistent
      <4>2. interner.values[i] # s
        BY <4>1, <1>3, NoneAssumption
      <4> QED BY <3>2, <4>1, <4>2, <2>4, <2>5
    <3> QED BY <3>1, <3>2, <1>f
  <2>10. InternerConsistent(r, strings)
    BY <2>4, <2>7, <2>8, <2>9 DEF InternerConsistent
  <2>11. Lookup(r, s) \in Optional(Nat)
    BY <2>5, <1>f DEF Optional
  <2>12. \A x \in strings : Lookup(interner, x) # None => Lookup(r, x) = Lookup(interner, x)
    BY <2>5, <1>3
  <2> QED BY <2>3, <2>10, <2>11, <2>12 DEF r, InternedId
<1> QED BY <1>1, <1>2, <1>3

-----------------------------------------------------------------------------
(***************************************************************************)
(* `Trace::new` gives a consistent trace.                                  *)
(***************************************************************************)
LEMMA NewTraceInv ==
  ASSUME NEW now \in Nat
  PROVE  TraceInv(NewTrace(now))
<1> DEFINE t == NewTrace(now)
<1>1. t \in TraceType
  BY DEF NewTrace, TraceType, Optional
<1>2. RowsAligned(t) /\ IndexInverse(t)
  BY DEF NewTrace, RowsAligned, IndexInverse, SpanCount
<1>3. SlicesTile(t)
  BY DEF NewTrace, SlicesTile, SpanCount
<1>4. LinksExact(t)
  BY DEF NewTrace, LinksExact, SpanCount
<1> QED BY <1>1, <1>2, <1>3, <1>4 DEF TraceInv

(***************************************************************************)
(* Pushing on a column makes it one entry longer.                          *)
(***************************************************************************)
LEMMA AppendLen ==
  ASSUME NEW S, NEW seq \in Seq(S), NEW e \in S
  PROVE  Len(Append(seq, e)) = Len(seq) + 1
OBVIOUS

(***************************************************************************)
(* A function on 1..n is a column of n entries.                            *)
(***************************************************************************)
LEMMA FunctionIsSeq ==
  ASSUME NEW S, NEW n \in Nat, NEW f \in [1..n -> S]
  PROVE  f \in Seq(S) /\ Len(f) = n
OBVIOUS

(***************************************************************************)
(* The types of the columns of a trace, one by one.                        *)
(***************************************************************************)
LEMMA TraceFieldTypes ==
  ASSUME NEW t \in TraceType
  PROVE  /\ t.generation \in Nat /\ t.lastActivity \in Nat
         /\ t.spanIds \in Seq(SpanIds) /\ t.body \in Seq(Bodies)
         /\ t.serviceNameId \in Seq(Optional(Nat))
         /\ t.parentIdx \in Seq(Optional(Nat)) /\ t.orphan \in Seq(BOOLEAN)
         /\ t.attrKeys \in Seq(Nat) /\ t.attrValues \in Seq(AttrValues)
         /\ t.attrOffsets \in Seq(Nat)
         /\ t.spanIndex \in [SpanIds -> Optional(Nat)]
         /\ t.pendingChildren \in [SpanIds -> SUBSET Nat]
         /\ SpanCount(t) \in Nat
BY DEF TraceType, SpanCount

(***************************************************************************)
(* The key and value columns of a list of attributes.                      *)
(***************************************************************************)
LEMMA KeysValuesType ==
  ASSUME NEW attrs \in Seq(InternedAttr)
  PROVE  /\ Keys(attrs) \in Seq(Nat) /\ Len(Keys(attrs)) = Len(attrs)
         /\ Values(attrs) \in Seq(AttrValues) /\ Len(Values(attrs)) = Len(attrs)
<1>0. \A j \in 1..Len(attrs) : attrs[j] \in InternedAttr
  OBVIOUS
<1>1. \A j \in 1..Len(attrs) : attrs[j].key \in Nat /\ attrs[j].value \in AttrValues
  BY <1>0 DEF InternedAttr
<1>2. Keys(attrs) \in [1..Len(attrs) -> Nat]
  BY <1>1 DEF Keys
<1>3. Values(attrs) \in [1..Len(attrs) -> AttrValues]
  BY <1>1 DEF Values
<1>4. Keys(attrs) \in Seq(Nat) /\ Values(attrs) \in Seq(AttrValues)
  BY <1>2, <1>3
<1> QED BY <1>4 DEF Keys, Values

(***************************************************************************)
(* The waiting lists once a new row has asked for its parent.              *)
(***************************************************************************)
LEMMA WaitingLists ==
  ASSUME NEW t, NEW span, t.pendingChildren \in [SpanIds -> SUBSET Nat],
         SpanCount(t) \in Nat, span.parent \in Optional(SpanIds)
  PROVE  /\ Waiting(t, span) \in [SpanIds -> SUBSET Nat]
         /\ \A q \in SpanIds : Waiting(t, span)[q] =
              IF MustWait(t, span) /\ q = span.parent
              THEN t.pendingChildren[q] \cup {SpanCount(t) + 1} ELSE t.pendingChildren[q]
<1>1. CASE MustWait(t, span)
  <2>1. span.parent \in SpanIds
    BY <1>1 DEF MustWait, Optional
  <2>2. Waiting(t, span) = [t.pendingChildren EXCEPT ![span.parent] = @ \cup {SpanCount(t) + 1}]
    BY <1>1 DEF Waiting
  <2>3. t.pendingChildren[span.parent] \cup {SpanCount(t) + 1} \in SUBSET Nat
    BY <2>1
  <2> QED BY <1>1, <2>1, <2>2, <2>3
<1>2. CASE ~MustWait(t, span)
  BY <1>2 DEF Waiting
<1> QED BY <1>1, <1>2

-----------------------------------------------------------------------------
(***************************************************************************)
(* Between the push of a new row and the patching of its children, every   *)
(* part of LinksExact holds but one: rows may still wait for the new span. *)
(***************************************************************************)
LinksExactBut(t, id) ==
  /\ \A i \in 1..SpanCount(t) :
       /\ t.orphan[i] <=> (\E p \in SpanIds : i \in t.pendingChildren[p])
       /\ t.parentIdx[i] # None => t.parentIdx[i] \in 1..SpanCount(t) /\ ~t.orphan[i]
  /\ \A p \in SpanIds :
       /\ t.pendingChildren[p] \subseteq 1..SpanCount(t)
       /\ p # id /\ t.spanIndex[p] # None => t.pendingChildren[p] = {}
  /\ \A p, q \in SpanIds : p # q => t.pendingChildren[p] \cap t.pendingChildren[q] = {}

(***************************************************************************)
(* Pushing a row for a span not seen before.                               *)
(***************************************************************************)
LEMMA PushRowInv ==
  ASSUME NEW t, TraceInv(t),
         NEW span, SpanOK(span), ~IsDuplicate(t, span),
         NEW svc \in Optional(Nat), NEW attrs \in Seq(InternedAttr)
  PROVE  LET r == PushRow(t, span, svc, attrs)
         IN  /\ r \in TraceType
             /\ RowsAligned(r) /\ IndexInverse(r) /\ SlicesTile(r)
             /\ LinksExactBut(r, span.id)
             /\ r.spanIndex[span.id] = SpanCount(r)
             /\ SpanCount(r) = SpanCount(t) + 1
             /\ \A i \in 1..SpanCount(t) :
                  r.spanIds[i] = t.spanIds[i] /\ r.parentIdx[i] = t.parentIdx[i]
<1> DEFINE r == PushRow(t, span, svc, attrs)
           n == SpanCount(t)
<1>t. t \in TraceType /\ RowsAligned(t) /\ IndexInverse(t) /\ SlicesTile(t) /\ LinksExact(t)
  BY DEF TraceInv
<1>s. /\ span.id \in SpanIds /\ span.parent \in Optional(SpanIds) /\ span.body \in Bodies
      /\ t.spanIndex[span.id] = None
  BY DEF SpanOK, IsDuplicate
<1>f. /\ t.spanIds \in Seq(SpanIds) /\ t.body \in Seq(Bodies)
      /\ t.serviceNameId \in Seq(Optional(Nat))
      /\ t.parentIdx \in Seq(Optional(Nat)) /\ t.orphan \in Seq(BOOLEAN)
      /\ t.attrKeys \in Seq(Nat) /\ t.attrValues \in Seq(AttrValues)
      /\ t.attrOffsets \in Seq(Nat)
      /\ t.spanIndex \in [SpanIds -> Optional(Nat)]
      /\ t.pendingChildren \in [SpanIds -> SUBSET Nat]
      /\ n \in Nat
  BY <1>t, TraceFieldTypes
<1>k. /\ Keys(attrs) \in Seq(Nat) /\ Len(Keys(attrs)) = Len(attrs)
      /\ Values(attrs) \in Seq(AttrValues) /\ Len(Values(attrs)) = Len(attrs)
      /\ Len(attrs) \in Nat
  BY KeysValuesType
<1>p. ResolvedParent(t, span) \in Optional(Nat) /\ MustWait(t, span) \in BOOLEAN
  BY <1>s, <1>f DEF ResolvedParent, MustWait, Optional
<1>w. /\ Waiting(t, span) \in [SpanIds -> SUBSET Nat]
      /\ \A q \in SpanIds : Waiting(t, span)[q] =
           IF MustWait(t, span) /\ q = span.parent
           THEN t.pendingChildren[q] \cup {n + 1} ELSE t.pendingChildren[q]
  BY <1>s, <1>f, WaitingLists
<1>1. r \in TraceType
  <2>1. /\ Append(t.spanIds, span.id) \in Seq(SpanIds)
        /\ Append(t.body, span.body) \in Seq(Bodies)
        /\ Append(t.serviceNameId, svc) \in Seq(Optional(Nat))
        /\ Append(t.parentIdx, ResolvedParent(t, span)) \in Seq(Optional(Nat))
        /\ Append(t.orphan, MustWait(t, span)) \in Seq(BOOLEAN)
    BY <1>s, <1>f, <1>p
  <2>2. /\ t.attrKeys \o Keys(attrs) \in Seq(Nat)
        /\ t.attrValues \o Values(attrs) \in Seq(AttrValues)
        /\ Append(t.attrOffsets, Len(t.attrKeys) + Len(attrs)) \in Seq(Nat)
    BY <1>f, <1>k
  <2>3. [t.spanIndex EXCEPT ![span.id] = n + 1] \in [SpanIds -> Optional(Nat)]
    BY <1>f, <1>s DEF Optional
  <2> QED BY <1>t, <1>w, <2>1, <2>2, <2>3 DEF PushRow, TraceType
<1>2. /\ r.spanIds = Append(t.spanIds, span.id)
      /\ r.body = Append(t.body, span.body)
      /\ r.serviceNameId = Append(t.serviceNameId, svc)
      /\ r.parentIdx = Append(t.parentIdx, ResolvedParent(t, span))
      /\ r.orphan = Append(t.orphan, MustWait(t, span))
  BY <1>t DEF PushRow, TraceType
<1>3. /\ r.pendingChildren = Waiting(t, span)
      /\ r.attrKeys = t.attrKeys \o Keys(attrs)
      /\ r.attrValues = t.attrValues \o Values(attrs)
      /\ r.attrOffsets = Append(t.attrOffsets, Len(t.attrKeys) + Len(attrs))
      /\ r.spanIndex = [t.spanIndex EXCEPT ![span.id] = n + 1]
  BY <1>t DEF PushRow, TraceType
<1>x. \A q \in SpanIds : r.spanIndex[q] = IF q = span.id THEN n + 1 ELSE t.spanIndex[q]
  BY <1>3, <1>f
<1> HIDE DEF r
<1>4. SpanCount(r) = n + 1
  BY <1>2, <1>f DEF SpanCount
<1>5. RowsAligned(r)
  <2>1. /\ Len(t.body) = n /\ Len(t.serviceNameId) = n
        /\ Len(t.parentIdx) = n /\ Len(t.orphan) = n
    BY <1>t DEF RowsAligned
  <2>2. Len(r.body) = n + 1
    BY ONLY <2>1, <1>2, <1>f, <1>s, AppendLen, SMTT(30)
  <2>3. Len(r.serviceNameId) = n + 1
    BY <2>1, <1>2, <1>f, AppendLen, SMTT(30)
  <2>4. Len(r.parentIdx) = n + 1
    BY ONLY <2>1, <1>2, <1>f, <1>p, AppendLen, SMTT(30)
  <2>5. Len(r.orphan) = n + 1
    BY ONLY <2>1, <1>2, <1>f, <1>p, AppendLen
  <2> QED BY ONLY <2>2, <2>3, <2>4, <2>5, <1>4 DEF RowsAligned
<1>6. IndexInverse(r)
  <2>1. \A i \in 1..n : r.spanIds[i] = t.spanIds[i] /\ r.spanIds[n + 1] = span.id
    BY <1>2, <1>f DEF SpanCount
  <2>2. r.spanIds[n + 1] = span.id
    BY <1>2, <1>f DEF SpanCount
  <2>3. \A i \in 1..n : t.spanIds[i] # span.id /\ t.spanIds[i] \in SpanIds
    BY <1>s, <1>t, <1>f, NoneAssumption, SMTT(30) DEF IndexInverse, SpanCount
  <2>4. \A i \in 1..n : r.spanIndex[r.spanIds[i]] = i
    BY <2>1, <2>3, <1>x, <1>t DEF IndexInverse
  <2>5. r.spanIndex[r.spanIds[n + 1]] = n + 1
    BY <2>2, <1>x, <1>s
  <2>6. ASSUME NEW s \in SpanIds, r.spanIndex[s] # None
        PROVE  r.spanIndex[s] \in 1..(n + 1) /\ r.spanIds[r.spanIndex[s]] = s
    <3>1. CASE s = span.id
      BY <3>1, <2>2, <1>x, <1>f, SMTT(30)
    <3>2. CASE s # span.id
      <4>1. r.spanIndex[s] = t.spanIndex[s]
        BY <3>2, <1>x
      <4>2. t.spanIndex[s] \in 1..n /\ t.spanIds[t.spanIndex[s]] = s
        BY <2>6, <4>1, <1>t DEF IndexInverse
      <4> QED BY <4>1, <4>2, <2>1, <1>f, SMTT(30)
    <3> QED BY <3>1, <3>2
  <2> QED BY <2>4, <2>5, <2>6, <1>4, <1>f DEF IndexInverse
<1>7. SlicesTile(r)
  <2>1. Len(t.attrOffsets) = n + 1
    BY <1>t DEF SlicesTile
  <2>2. /\ Len(r.attrOffsets) = n + 2
        /\ \A i \in 1..(n + 1) : r.attrOffsets[i] = t.attrOffsets[i]
        /\ r.attrOffsets[n + 2] = Len(t.attrKeys) + Len(attrs)
    <3>1. r.attrOffsets = Append(t.attrOffsets, Len(t.attrKeys) + Len(attrs))
      BY <1>3
    <3>2. Len(t.attrKeys) + Len(attrs) \in Nat
      BY <1>f, <1>k
    <3>3. t.attrOffsets \in Seq(Nat) /\ n \in Nat
      BY <1>f
    <3>4. /\ Len(r.attrOffsets) = Len(t.attrOffsets) + 1
          /\ \A i \in 1..Len(t.attrOffsets) : r.attrOffsets[i] = t.attrOffsets[i]
          /\ r.attrOffsets[Len(t.attrOffsets) + 1] = Len(t.attrKeys) + Len(attrs)
      BY ONLY <3>1, <3>2, <3>3, AppendProperties
    <3> QED BY ONLY <3>3, <3>4, <2>1
  <2>3. /\ Len(r.attrKeys) = Len(t.attrKeys) + Len(attrs)
        /\ Len(r.attrValues) = Len(t.attrValues) + Len(attrs)
    <3>1. /\ Len(t.attrKeys \o Keys(attrs)) = Len(t.attrKeys) + Len(Keys(attrs))
          /\ Len(t.attrValues \o Values(attrs)) = Len(t.attrValues) + Len(Values(attrs))
      BY <1>f, <1>k, ConcatProperties
    <3> QED BY <3>1, <1>3, <1>k
  <2>4. ASSUME NEW i \in 1..(n + 2), NEW j \in 1..(n + 2), i <= j
        PROVE  r.attrOffsets[i] <= r.attrOffsets[j]
    <3>0. /\ \A k \in 1..(n + 1) : t.attrOffsets[k] \in Nat
          /\ \A k, l \in 1..(n + 1) : k <= l => t.attrOffsets[k] <= t.attrOffsets[l]
          /\ t.attrOffsets[n + 1] = Len(t.attrKeys)
      <4>1. \A k \in 1..Len(t.attrOffsets) : t.attrOffsets[k] \in Nat
        BY <1>f, ElementOfSeq
      <4> QED BY <4>1, <2>1, <1>t DEF SlicesTile
    <3>1. CASE j \in 1..(n + 1)
      <4>1. i \in 1..(n + 1)
        BY <3>1, <2>4, <1>f
      <4> QED BY ONLY <3>0, <3>1, <4>1, <2>2, <2>4
    <3>2. CASE i \in 1..(n + 1) /\ j = n + 2
      <4>1. n + 1 \in 1..(n + 1) /\ i <= n + 1
        BY <3>2, <1>f, SMTT(30)
      <4>2. t.attrOffsets[i] <= Len(t.attrKeys)
        BY <3>0, <3>2, <4>1
      <4>3. /\ r.attrOffsets[i] = t.attrOffsets[i]
            /\ r.attrOffsets[j] = Len(t.attrKeys) + Len(attrs)
        BY <3>2, <2>2
      <4>4. t.attrOffsets[i] \in Nat /\ Len(t.attrKeys) \in Nat /\ Len(attrs) \in Nat
        BY <3>0, <3>2, <1>f, <1>k
      <4> QED BY <4>2, <4>3, <4>4
    <3>3. CASE i = n + 2 /\ j = n + 2
      BY <3>3, <2>2, <1>f, <1>k
    <3> QED BY <3>1, <3>2, <3>3, <2>4, <1>f
  <2>5. r.attrOffsets[1] = 0 /\ Len(t.attrValues) = Len(t.attrKeys)
    <3>1. 1 \in 1..(n + 1)
      BY <1>f
    <3> QED BY <3>1, <2>2, <1>t DEF SlicesTile
  <2>6. /\ SpanCount(r) + 1 = n + 2
        /\ Len(r.attrOffsets) = SpanCount(r) + 1
        /\ r.attrOffsets[SpanCount(r) + 1] = Len(r.attrKeys)
        /\ Len(r.attrValues) = Len(r.attrKeys)
    <3>1. n \in Nat /\ Len(t.attrKeys) \in Nat /\ Len(attrs) \in Nat
      BY <1>f, <1>k
    <3>2. SpanCount(r) + 1 = n + 2
      BY ONLY <3>1, <1>4
    <3> QED BY ONLY <3>1, <3>2, <2>2, <2>3, <2>5
  <2> QED BY <2>4, <2>5, <2>6 DEF SlicesTile
<1>8. LinksExactBut(r, span.id)
  <2>1. /\ \A i \in 1..n : r.orphan[i] = t.orphan[i] /\ r.parentIdx[i] = t.parentIdx[i]
        /\ r.orphan[n + 1] = MustWait(t, span)
        /\ r.parentIdx[n + 1] = ResolvedParent(t, span)
    <3>1. Len(t.parentIdx) = n /\ Len(t.orphan) = n
      BY <1>t DEF RowsAligned
    <3>2. /\ \A i \in 1..n : r.orphan[i] = t.orphan[i]
          /\ r.orphan[n + 1] = MustWait(t, span)
      BY ONLY <3>1, <1>2, <1>f, <1>p, AppendProperties, SMTT(30)
    <3>3. /\ \A i \in 1..n : r.parentIdx[i] = t.parentIdx[i]
          /\ r.parentIdx[n + 1] = ResolvedParent(t, span)
      BY ONLY <3>1, <1>2, <1>f, <1>p, AppendProperties, SMTT(30)
    <3> QED BY ONLY <3>2, <3>3
  <2>2. \A q \in SpanIds : t.pendingChildren[q] \subseteq 1..n
    BY <1>t DEF LinksExact
  <2>3. ASSUME NEW i \in 1..(n + 1)
        PROVE  /\ r.orphan[i] <=> (\E p \in SpanIds : i \in r.pendingChildren[p])
               /\ r.parentIdx[i] # None => r.parentIdx[i] \in 1..(n + 1) /\ ~r.orphan[i]
    <3>1. CASE i \in 1..n
      <4>1. \A q \in SpanIds : i \in r.pendingChildren[q] <=> i \in t.pendingChildren[q]
        <5>1. i # n + 1
          BY <3>1, <1>f
        <5> QED BY ONLY <5>1, <1>w, <1>3, SMTT(30)
      <4>2. /\ t.orphan[i] <=> (\E p \in SpanIds : i \in t.pendingChildren[p])
            /\ t.parentIdx[i] # None => t.parentIdx[i] \in 1..n /\ ~t.orphan[i]
        BY <3>1, <1>t DEF LinksExact
      <4>3. r.orphan[i] = t.orphan[i] /\ r.parentIdx[i] = t.parentIdx[i]
        BY <3>1, <2>1
      <4>4. r.orphan[i] <=> (\E p \in SpanIds : i \in r.pendingChildren[p])
        BY ONLY <4>1, <4>2, <4>3
      <4>5. t.parentIdx[i] \in 1..n => t.parentIdx[i] \in 1..(n + 1)
        BY <1>f, SMTT(30)
      <4> QED BY ONLY <4>2, <4>3, <4>4, <4>5
    <3>2. CASE i = n + 1
      <4>1. \A q \in SpanIds : i \in r.pendingChildren[q] <=> (MustWait(t, span) /\ q = span.parent)
        <5>1. \A q \in SpanIds : n + 1 \notin t.pendingChildren[q]
          BY <1>f, <2>2
        <5> QED BY ONLY <5>1, <3>2, <1>w, <1>3
      <4>2. MustWait(t, span) => span.parent \in SpanIds
        BY <1>s DEF MustWait, Optional
      <4>3. r.orphan[i] <=> (\E p \in SpanIds : i \in r.pendingChildren[p])
        BY <3>2, <4>1, <4>2, <2>1, <1>p
      <4>4. r.parentIdx[i] # None => r.parentIdx[i] \in 1..(n + 1) /\ ~r.orphan[i]
        <5>1. ASSUME ResolvedParent(t, span) # None
              PROVE  ResolvedParent(t, span) \in 1..n /\ ~MustWait(t, span)
          <6>1. span.parent \in SpanIds /\ ResolvedParent(t, span) = t.spanIndex[span.parent]
            BY <5>1, <1>s DEF ResolvedParent, Optional
          <6> QED BY <5>1, <6>1, <1>t DEF IndexInverse, MustWait
        <5> QED BY <5>1, <3>2, <2>1, <1>f
      <4> QED BY <4>3, <4>4
    <3> QED BY <3>1, <3>2, <1>f
  <2>4. ASSUME NEW q \in SpanIds
        PROVE  /\ r.pendingChildren[q] \subseteq 1..(n + 1)
               /\ q # span.id /\ r.spanIndex[q] # None => r.pendingChildren[q] = {}
    <3>1. r.pendingChildren[q] \subseteq 1..(n + 1)
      <4>1. t.pendingChildren[q] \cup {n + 1} \subseteq 1..(n + 1)
        BY <2>2, <1>f, SMTT(30)
      <4> QED BY <4>1, <1>w, <1>3
    <3>2. ASSUME q # span.id, r.spanIndex[q] # None
          PROVE  r.pendingChildren[q] = {}
      <4>1. t.spanIndex[q] # None
        BY <3>2, <1>3, <1>f
      <4>2. t.pendingChildren[q] = {}
        BY <4>1, <1>t DEF LinksExact
      <4>3. ~(MustWait(t, span) /\ q = span.parent)
        BY <4>1 DEF MustWait, ResolvedParent
      <4> QED BY <4>2, <4>3, <1>w, <1>3
    <3> QED BY <3>1, <3>2
  <2>5. ASSUME NEW p \in SpanIds, NEW q \in SpanIds, p # q
        PROVE  r.pendingChildren[p] \cap r.pendingChildren[q] = {}
    <3>1. t.pendingChildren[p] \cap t.pendingChildren[q] = {}
      BY <2>5, <1>t DEF LinksExact
    <3>2. n + 1 \notin t.pendingChildren[p] /\ n + 1 \notin t.pendingChildren[q]
      BY <2>2, <1>f
    <3>3. /\ r.pendingChildren[p] \subseteq t.pendingChildren[p] \cup {n + 1}
          /\ r.pendingChildren[q] \subseteq t.pendingChildren[q] \cup {n + 1}
          /\ r.pendingChildren[p] = t.pendingChildren[p] \/ r.pendingChildren[q] = t.pendingChildren[q]
      BY <2>5, <1>w, <1>3
    <3> QED BY <3>1, <3>2, <3>3
  <2> QED BY <2>3, <2>4, <2>5, <1>4 DEF LinksExactBut
<1>9. r.spanIndex[span.id] = SpanCount(r)
  BY <1>3, <1>4, <1>f, <1>s
<1>10. \A i \in 1..n : r.spanIds[i] = t.spanIds[i] /\ r.parentIdx[i] = t.parentIdx[i]
  BY <1>2, <1>t, <1>f, <1>p, <1>s DEF RowsAligned, SpanCount
<1> QED BY <1>1, <1>4, <1>5, <1>6, <1>7, <1>8, <1>9, <1>10 DEF r

(***************************************************************************)
(* Patching the children of the span just pushed restores LinksExact.  A   *)
(* row other than the children keeps its link, and a child had none.       *)
(***************************************************************************)
LEMMA AdoptChildrenInv ==
  ASSUME NEW t, t \in TraceType, RowsAligned(t), IndexInverse(t), SlicesTile(t),
         NEW id \in SpanIds, LinksExactBut(t, id), t.spanIndex[id] = SpanCount(t),
         SpanCount(t) \in 1..SpanCount(t)
  PROVE  /\ TraceInv(AdoptChildren(t, id))
         /\ AdoptChildren(t, id).spanIds = t.spanIds
         /\ \A i \in 1..SpanCount(t) : t.parentIdx[i] # None =>
               AdoptChildren(t, id).parentIdx[i] = t.parentIdx[i]
<1> DEFINE r == AdoptChildren(t, id)
           n == SpanCount(t)
           children == t.pendingChildren[id]
<1>f. /\ t.parentIdx \in Seq(Optional(Nat)) /\ t.orphan \in Seq(BOOLEAN)
      /\ t.spanIndex \in [SpanIds -> Optional(Nat)]
      /\ t.pendingChildren \in [SpanIds -> SUBSET Nat]
      /\ n \in Nat
  BY TraceFieldTypes
<1>n. Len(t.parentIdx) = n /\ Len(t.orphan) = n
  BY DEF RowsAligned
<1>1. /\ r.spanIds = t.spanIds /\ r.body = t.body /\ r.serviceNameId = t.serviceNameId
      /\ r.attrKeys = t.attrKeys /\ r.attrValues = t.attrValues
      /\ r.attrOffsets = t.attrOffsets /\ r.spanIndex = t.spanIndex
  BY DEF AdoptChildren, TraceType
<1>2. /\ r.parentIdx = [i \in 1..n |-> IF i \in children THEN n ELSE t.parentIdx[i]]
      /\ r.orphan = [i \in 1..n |-> IF i \in children THEN FALSE ELSE t.orphan[i]]
      /\ r.pendingChildren = [t.pendingChildren EXCEPT ![id] = {}]
  BY <1>n DEF AdoptChildren, TraceType
<1>3. /\ r.parentIdx \in Seq(Optional(Nat)) /\ Len(r.parentIdx) = n
      /\ r.orphan \in Seq(BOOLEAN) /\ Len(r.orphan) = n
      /\ r.pendingChildren \in [SpanIds -> SUBSET Nat]
  <2>1. \A i \in 1..n : t.parentIdx[i] \in Optional(Nat) /\ t.orphan[i] \in BOOLEAN
    BY <1>f, <1>n
  <2>2. r.parentIdx \in [1..n -> Optional(Nat)]
    BY <2>1, <1>2, <1>f DEF Optional
  <2>3. r.orphan \in [1..n -> BOOLEAN]
    BY <2>1, <1>2
  <2>4. r.parentIdx \in Seq(Optional(Nat)) /\ Len(r.parentIdx) = n
    BY ONLY <2>2, <1>f, FunctionIsSeq
  <2>5. r.orphan \in Seq(BOOLEAN) /\ Len(r.orphan) = n
    BY ONLY <2>3, <1>f, FunctionIsSeq, SMTT(30)
  <2> QED BY <2>4, <2>5, <1>2, <1>f
<1>4. r \in TraceType
  <2>1. /\ [i \in 1..Len(t.parentIdx) |-> IF i \in children THEN t.spanIndex[id] ELSE t.parentIdx[i]]
             \in Seq(Optional(Nat))
        /\ [i \in 1..Len(t.orphan) |-> IF i \in children THEN FALSE ELSE t.orphan[i]]
             \in Seq(BOOLEAN)
        /\ [t.pendingChildren EXCEPT ![id] = {}] \in [SpanIds -> SUBSET Nat]
    BY <1>2, <1>3, <1>n
  <2> QED BY <2>1 DEF AdoptChildren, TraceType
<1> HIDE DEF r
<1>5. SpanCount(r) = n
  BY <1>1 DEF SpanCount
<1>6. RowsAligned(r) /\ IndexInverse(r) /\ SlicesTile(r)
  BY <1>1, <1>3, <1>5 DEF RowsAligned, IndexInverse, SlicesTile
<1>7. \A p \in SpanIds : r.pendingChildren[p] = IF p = id THEN {} ELSE t.pendingChildren[p]
  BY <1>2, <1>f
<1>8. \A i \in 1..n : /\ r.parentIdx[i] = IF i \in children THEN n ELSE t.parentIdx[i]
                      /\ r.orphan[i] = IF i \in children THEN FALSE ELSE t.orphan[i]
  BY <1>2
<1>9. LinksExact(r)
  <2>1. ASSUME NEW i \in 1..n
        PROVE  /\ r.orphan[i] <=> (\E p \in SpanIds : i \in r.pendingChildren[p])
               /\ r.parentIdx[i] # None => r.parentIdx[i] \in 1..n /\ ~r.orphan[i]
    <3>0. /\ t.orphan[i] <=> (\E p \in SpanIds : i \in t.pendingChildren[p])
          /\ t.parentIdx[i] # None => t.parentIdx[i] \in 1..n /\ ~t.orphan[i]
          /\ \A p, q \in SpanIds : p # q => t.pendingChildren[p] \cap t.pendingChildren[q] = {}
      BY DEF LinksExactBut
    <3>1. CASE i \in children
      <4>1. \A p \in SpanIds : i \notin r.pendingChildren[p]
        BY <3>0, <3>1, <1>7
      <4>2. n # None /\ n \in 1..n
        BY <1>f, NoneAssumption
      <4> QED BY <3>1, <4>1, <4>2, <1>8
    <3>2. CASE i \notin children
      <4>1. \A p \in SpanIds : i \in r.pendingChildren[p] <=> i \in t.pendingChildren[p]
        BY <3>2, <1>7
      <4> QED BY <3>0, <3>2, <4>1, <1>8
    <3> QED BY <3>1, <3>2
  <2>2. ASSUME NEW p \in SpanIds
        PROVE  /\ r.pendingChildren[p] \subseteq 1..n
               /\ r.spanIndex[p] # None => r.pendingChildren[p] = {}
    BY <1>7, <1>1 DEF LinksExactBut
  <2>3. ASSUME NEW p \in SpanIds, NEW q \in SpanIds, p # q
        PROVE  r.pendingChildren[p] \cap r.pendingChildren[q] = {}
    BY <2>3, <1>7 DEF LinksExactBut
  <2> QED BY <2>1, <2>2, <2>3, <1>5 DEF LinksExact
<1>10. \A i \in 1..n : t.parentIdx[i] # None => r.parentIdx[i] = t.parentIdx[i]
  <2>1. \A i \in 1..n : t.parentIdx[i] # None => i \notin children
    BY DEF LinksExactBut
  <2> QED BY <2>1, <1>8
<1> QED BY <1>1, <1>4, <1>6, <1>9, <1>10 DEF TraceInv, r

(***************************************************************************)
(* What a splice leaves: the entries before the slice stay, the new ones   *)
(* follow, and the entries after it move by the difference in length.      *)
(***************************************************************************)
SpliceExact(seq, from, to, new) ==
  /\ \A k \in 1..from : Splice(seq, from, to, new)[k] = seq[k]
  /\ \A k \in 1..Len(new) : Splice(seq, from, to, new)[from + k] = new[k]
  /\ \A k \in 1..(Len(seq) - to) :
       Splice(seq, from, to, new)[from + Len(new) + k] = seq[to + k]

(***************************************************************************)
(* Replacing the slice from..to of a sequence.                             *)
(***************************************************************************)
LEMMA SpliceType ==
  ASSUME NEW S, NEW seq \in Seq(S), NEW new \in Seq(S),
         NEW from \in Nat, NEW to \in Nat, from <= to, to <= Len(seq)
  PROVE  /\ Splice(seq, from, to, new) \in Seq(S)
         /\ Len(Splice(seq, from, to, new)) = Len(seq) + Len(new) - (to - from)
         /\ SpliceExact(seq, from, to, new)
<1> DEFINE a == SubSeq(seq, 1, from)
           c == SubSeq(seq, to + 1, Len(seq))
           b == a \o new
<1>0. Len(seq) \in Nat /\ Len(new) \in Nat /\ \A i \in 1..Len(seq) : seq[i] \in S
  OBVIOUS
<1>1. a \in Seq(S) /\ Len(a) = from /\ \A k \in 1..from : a[k] = seq[k]
  <2>1. \A i \in 1..from : seq[i] \in S
    BY <1>0
  <2> QED BY <2>1, <1>0, SubSeqProperties, SMTT(30)
<1>2. c \in Seq(S) /\ Len(c) = Len(seq) - to /\ \A k \in 1..(Len(seq) - to) : c[k] = seq[to + k]
  <2>1. \A i \in (to + 1)..Len(seq) : seq[i] \in S
    BY <1>0
  <2>2. /\ c \in Seq(S)
        /\ Len(c) = IF to + 1 <= Len(seq) THEN Len(seq) - (to + 1) + 1 ELSE 0
        /\ \A i \in 1..(Len(seq) - (to + 1) + 1) : c[i] = seq[to + 1 + i - 1]
    BY <2>1, <1>0, SubSeqProperties, SMTT(30)
  <2> QED BY <2>2, <1>0
<1> HIDE DEF a, c
<1>3. /\ b \in Seq(S) /\ Len(b) = from + Len(new)
      /\ \A i \in 1..(from + Len(new)) : b[i] = IF i <= from THEN a[i] ELSE new[i - from]
  BY <1>1, ConcatProperties
<1> HIDE DEF b
<1>4. /\ b \o c \in Seq(S) /\ Len(b \o c) = Len(b) + Len(c)
      /\ \A i \in 1..(Len(b) + Len(c)) : (b \o c)[i] = IF i <= Len(b) THEN b[i] ELSE c[i - Len(b)]
  <2>1. b \in Seq(S) /\ c \in Seq(S)
    BY <1>2, <1>3
  <2> QED BY ONLY <2>1, ConcatProperties
<1>5. Splice(seq, from, to, new) = b \o c
  BY DEF Splice, a, b, c
<1>6. Len(b \o c) = Len(seq) + Len(new) - (to - from)
  BY <1>0, <1>2, <1>3, <1>4
<1>7. \A k \in 1..from : (b \o c)[k] = seq[k]
  <2> SUFFICES ASSUME NEW k \in 1..from PROVE (b \o c)[k] = seq[k]
    OBVIOUS
  <2>1. k \in 1..(Len(b) + Len(c)) /\ k <= Len(b) /\ k \in 1..(from + Len(new)) /\ k <= from
    BY <1>0, <1>2, <1>3
  <2> QED BY <1>1, <1>3, <1>4, <2>1
<1>8. \A k \in 1..Len(new) : (b \o c)[from + k] = new[k]
  <2> SUFFICES ASSUME NEW k \in 1..Len(new) PROVE (b \o c)[from + k] = new[k]
    OBVIOUS
  <2>1. /\ from + k \in 1..(Len(b) + Len(c)) /\ from + k <= Len(b)
        /\ from + k \in 1..(from + Len(new)) /\ ~(from + k <= from) /\ from + k - from = k
    BY <1>0, <1>2, <1>3
  <2> QED BY <1>3, <1>4, <2>1
<1>9. \A k \in 1..(Len(seq) - to) : (b \o c)[from + Len(new) + k] = seq[to + k]
  <2> SUFFICES ASSUME NEW k \in 1..(Len(seq) - to)
               PROVE  (b \o c)[from + Len(new) + k] = seq[to + k]
    OBVIOUS
  <2>1. from + Len(new) + k \in 1..(Len(b) + Len(c)) /\ ~(from + Len(new) + k <= Len(b))
    BY <1>0, <1>2, <1>3
  <2>2. (b \o c)[from + Len(new) + k] = c[from + Len(new) + k - Len(b)]
    BY <2>1, <1>4
  <2>3. from + Len(new) + k - Len(b) = k
    BY <1>0, <1>3
  <2> QED BY <2>2, <2>3, <1>2
<1>10. SpliceExact(seq, from, to, new)
  BY ONLY <1>5, <1>7, <1>8, <1>9 DEF SpliceExact
<1> QED BY <1>4, <1>5, <1>6, <1>10

(***************************************************************************)
(* The part of it that gives the type.                                     *)
(***************************************************************************)
LEMMA SpliceSeq ==
  ASSUME NEW S, NEW seq \in Seq(S), NEW new \in Seq(S),
         NEW from \in Nat, NEW to \in Nat, from <= to, to <= Len(seq)
  PROVE  Splice(seq, from, to, new) \in Seq(S)
BY SpliceType

(***************************************************************************)
(* Its length.                                                             *)
(***************************************************************************)
LEMMA SpliceLen ==
  ASSUME NEW S, NEW seq \in Seq(S), NEW new \in Seq(S),
         NEW from \in Nat, NEW to \in Nat, from <= to, to <= Len(seq)
  PROVE  Len(Splice(seq, from, to, new)) = Len(seq) + Len(new) - (to - from)
BY SpliceType

(***************************************************************************)
(* `overwrite_at` on a row of the trace: the slices of the other rows move *)
(* with their offsets, the index and the links are not touched.            *)
(***************************************************************************)
LEMMA OverwriteAtInv ==
  ASSUME NEW t, TraceInv(t), NEW idx \in 1..SpanCount(t), NEW span, SpanOK(span),
         NEW svc \in Optional(Nat), NEW attrs \in Seq(InternedAttr)
  PROVE  LET r == OverwriteAt(t, idx, span, svc, attrs)
         IN  TraceInv(r) /\ r.spanIds = t.spanIds /\ r.parentIdx = t.parentIdx
<1> DEFINE r     == OverwriteAt(t, idx, span, svc, attrs)
           n     == SpanCount(t)
           from  == t.attrOffsets[idx]
           to    == t.attrOffsets[idx + 1]
           delta == Len(attrs) - (to - from)
           offs  == [i \in 1..Len(t.attrOffsets) |->
                       IF i > idx THEN t.attrOffsets[i] + delta ELSE t.attrOffsets[i]]
<1>t. t \in TraceType /\ RowsAligned(t) /\ IndexInverse(t) /\ SlicesTile(t) /\ LinksExact(t)
  BY DEF TraceInv
<1>f. /\ t.body \in Seq(Bodies) /\ t.serviceNameId \in Seq(Optional(Nat))
      /\ t.attrKeys \in Seq(Nat) /\ t.attrValues \in Seq(AttrValues)
      /\ t.attrOffsets \in Seq(Nat)
      /\ n \in Nat /\ Len(t.attrKeys) \in Nat
  BY <1>t, TraceFieldTypes
<1>k. /\ Keys(attrs) \in Seq(Nat) /\ Len(Keys(attrs)) = Len(attrs)
      /\ Values(attrs) \in Seq(AttrValues) /\ Len(Values(attrs)) = Len(attrs)
      /\ Len(attrs) \in Nat
  BY KeysValuesType
<1>o. /\ Len(t.attrOffsets) = n + 1 /\ t.attrOffsets[1] = 0
      /\ t.attrOffsets[n + 1] = Len(t.attrKeys) /\ Len(t.attrValues) = Len(t.attrKeys)
      /\ \A i, j \in 1..(n + 1) : i <= j => t.attrOffsets[i] <= t.attrOffsets[j]
      /\ \A i \in 1..(n + 1) : t.attrOffsets[i] \in Nat
  <2>1. \A k \in 1..Len(t.attrOffsets) : t.attrOffsets[k] \in Nat
    BY <1>f, ElementOfSeq
  <2> QED BY <2>1, <1>t DEF SlicesTile
<1>i. idx \in Nat /\ idx \in 1..(n + 1) /\ idx + 1 \in 1..(n + 1) /\ n + 1 \in 1..(n + 1)
      /\ 1 \in 1..(n + 1)
  BY <1>f, SMTT(30)
<1>r. from \in Nat /\ to \in Nat /\ from <= to /\ to <= Len(t.attrKeys) /\ delta \in Int
  <2>1. from <= to /\ to <= t.attrOffsets[n + 1]
    BY <1>o, <1>i, SMTT(30)
  <2> QED BY <2>1, <1>o, <1>i, <1>k, SMTT(30)
<1> HIDE DEF from, to, delta
<1>1. /\ Splice(t.attrKeys, from, to, Keys(attrs)) \in Seq(Nat)
      /\ Len(Splice(t.attrKeys, from, to, Keys(attrs))) = Len(t.attrKeys) + delta
  <2>1. Splice(t.attrKeys, from, to, Keys(attrs)) \in Seq(Nat)
    BY <1>f, <1>k, <1>r, SpliceSeq
  <2>2. Len(Splice(t.attrKeys, from, to, Keys(attrs)))
          = Len(t.attrKeys) + Len(Keys(attrs)) - (to - from)
    <3>1. /\ t.attrKeys \in Seq(Nat) /\ Keys(attrs) \in Seq(Nat)
          /\ from \in Nat /\ to \in Nat /\ from <= to /\ to <= Len(t.attrKeys)
      BY <1>f, <1>k, <1>r
    <3> QED BY ONLY <3>1, SpliceLen, ZenonT(60)
  <2> QED BY <2>1, <2>2, <1>f, <1>k, <1>r DEF delta
<1>2. /\ Splice(t.attrValues, from, to, Values(attrs)) \in Seq(AttrValues)
      /\ Len(Splice(t.attrValues, from, to, Values(attrs))) = Len(t.attrKeys) + delta
  <2>0. to <= Len(t.attrValues) /\ Len(t.attrValues) = Len(t.attrKeys)
    BY <1>r, <1>o
  <2>1. Splice(t.attrValues, from, to, Values(attrs)) \in Seq(AttrValues)
    BY <2>0, <1>f, <1>k, <1>r, SpliceSeq
  <2>2. Len(Splice(t.attrValues, from, to, Values(attrs)))
          = Len(t.attrValues) + Len(Values(attrs)) - (to - from)
    <3>1. /\ t.attrValues \in Seq(AttrValues) /\ Values(attrs) \in Seq(AttrValues)
          /\ from \in Nat /\ to \in Nat /\ from <= to /\ to <= Len(t.attrValues)
      BY <2>0, <1>f, <1>k, <1>r
    <3> QED BY ONLY <3>1, SpliceLen, ZenonT(60)
  <2> QED BY <2>0, <2>1, <2>2, <1>f, <1>k, <1>r DEF delta
<1>3. /\ \A i \in 1..(n + 1) : offs[i] \in Nat
      /\ \A i, j \in 1..(n + 1) : i <= j => offs[i] <= offs[j]
      /\ offs[1] = 0 /\ offs[n + 1] = Len(t.attrKeys) + delta
  <2>1. \A i \in 1..(n + 1) : offs[i] = IF i > idx THEN t.attrOffsets[i] + delta ELSE t.attrOffsets[i]
    BY <1>o
  <2>2. \A i \in 1..(n + 1) : i > idx => to <= t.attrOffsets[i]
    BY <1>o, <1>i DEF to
  <2>3. \A i \in 1..(n + 1) : ~(i > idx) => t.attrOffsets[i] <= from
    BY <1>o, <1>i DEF from
  <2> HIDE DEF offs
  <2>4. \A i \in 1..(n + 1) : offs[i] \in Nat
    <3> SUFFICES ASSUME NEW i \in 1..(n + 1) PROVE offs[i] \in Nat
      OBVIOUS
    <3>1. t.attrOffsets[i] \in Nat
      BY <1>o
    <3>2. CASE i > idx
      BY <3>1, <3>2, <2>1, <2>2, <1>r, <1>k DEF delta
    <3>3. CASE ~(i > idx)
      BY <3>1, <3>3, <2>1
    <3> QED BY <3>2, <3>3
  <2>5. \A i, j \in 1..(n + 1) : i <= j => offs[i] <= offs[j]
    <3> SUFFICES ASSUME NEW i \in 1..(n + 1), NEW j \in 1..(n + 1), i <= j
                 PROVE  offs[i] <= offs[j]
      OBVIOUS
    <3>1. /\ t.attrOffsets[i] \in Nat /\ t.attrOffsets[j] \in Nat
          /\ t.attrOffsets[i] <= t.attrOffsets[j]
      BY <1>o
    <3>2. CASE i > idx
      <4>1. j > idx
        BY <3>2, <1>f, <1>i
      <4> QED BY <3>1, <3>2, <4>1, <2>1, <1>r, SMTT(30)
    <3>3. CASE ~(i > idx) /\ j > idx
      <4>1. t.attrOffsets[i] <= from /\ to <= t.attrOffsets[j]
        BY <3>3, <2>2, <2>3
      <4>2. offs[i] = t.attrOffsets[i] /\ offs[j] = t.attrOffsets[j] + delta
        BY <3>3, <2>1
      <4> QED BY <3>1, <4>1, <4>2, <1>r, <1>k, SMTT(30) DEF delta
    <3>4. CASE ~(j > idx)
      <4>1. ~(i > idx)
        BY <3>4, <1>f, <1>i
      <4> QED BY <3>1, <3>4, <4>1, <2>1
    <3> QED BY <3>2, <3>3, <3>4
  <2>6. offs[1] = 0 /\ offs[n + 1] = Len(t.attrKeys) + delta
    BY <2>1, <1>o, <1>i
  <2> QED BY <2>4, <2>5, <2>6
<1>4. offs \in Seq(Nat) /\ Len(offs) = n + 1
  <2>1. offs \in [1..(n + 1) -> Nat]
    BY <1>3, <1>o
  <2>2. n + 1 \in Nat
    BY <1>f
  <2> HIDE DEF offs
  <2> QED BY <2>1, <2>2
<1>5. /\ [t.body EXCEPT ![idx] = span.body] \in Seq(Bodies)
      /\ Len([t.body EXCEPT ![idx] = span.body]) = n
      /\ [t.serviceNameId EXCEPT ![idx] = svc] \in Seq(Optional(Nat))
      /\ Len([t.serviceNameId EXCEPT ![idx] = svc]) = n
  <2>1. Len(t.body) = n /\ Len(t.serviceNameId) = n
    BY <1>t DEF RowsAligned
  <2>2. span.body \in Bodies
    BY DEF SpanOK
  <2> QED BY <2>1, <2>2, <1>f, ExceptSeq
<1> DEFINE u == OverwriteAttrs(t, idx, attrs)
<1>o2. u = [t EXCEPT !.attrKeys    = Splice(t.attrKeys, from, to, Keys(attrs)),
                     !.attrValues  = Splice(t.attrValues, from, to, Values(attrs)),
                     !.attrOffsets = offs]
  BY <1>t DEF OverwriteAttrs, ShiftOffsets, TraceType, from, to, delta
<1> HIDE DEF u, offs
<1>6. /\ u \in TraceType
      /\ u.attrKeys = Splice(t.attrKeys, from, to, Keys(attrs))
      /\ u.attrValues = Splice(t.attrValues, from, to, Values(attrs))
      /\ u.attrOffsets = offs
      /\ u.body = t.body /\ u.serviceNameId = t.serviceNameId
      /\ u.spanIds = t.spanIds /\ u.parentIdx = t.parentIdx /\ u.orphan = t.orphan
      /\ u.spanIndex = t.spanIndex /\ u.pendingChildren = t.pendingChildren
  BY <1>t, <1>1, <1>2, <1>4, <1>o2 DEF TraceType
<1>7. r = [u EXCEPT !.body = [@ EXCEPT ![idx] = span.body],
                    !.serviceNameId = [@ EXCEPT ![idx] = svc]]
  BY DEF OverwriteAt, u
<1> HIDE DEF r
<1>8. /\ r \in TraceType
      /\ r.attrKeys = u.attrKeys /\ r.attrValues = u.attrValues /\ r.attrOffsets = u.attrOffsets
      /\ r.body = [t.body EXCEPT ![idx] = span.body]
      /\ r.serviceNameId = [t.serviceNameId EXCEPT ![idx] = svc]
      /\ r.spanIds = t.spanIds /\ r.parentIdx = t.parentIdx /\ r.orphan = t.orphan
      /\ r.spanIndex = t.spanIndex /\ r.pendingChildren = t.pendingChildren
  BY <1>5, <1>6, <1>7 DEF TraceType
<1>9. SpanCount(r) = n
  BY <1>8 DEF SpanCount
<1>10. RowsAligned(r) /\ IndexInverse(r) /\ LinksExact(r)
  BY <1>5, <1>8, <1>9, <1>t DEF RowsAligned, IndexInverse, LinksExact
<1>11. SlicesTile(r)
  BY <1>1, <1>2, <1>3, <1>4, <1>6, <1>8, <1>9 DEF SlicesTile
<1> QED BY <1>8, <1>10, <1>11 DEF TraceInv, r

-----------------------------------------------------------------------------
(***************************************************************************)
(* `Trace::insert` keeps a trace consistent, never moves a row and never   *)
(* changes a resolved parent link, for every trace and every span.         *)
(***************************************************************************)
THEOREM InsertInv ==
  ASSUME NEW t, TraceInv(t), NEW span, SpanOK(span), NEW now \in Nat,
         NEW svc \in Optional(Nat), NEW attrs \in Seq(InternedAttr)
  PROVE  LET r == Insert(t, span, svc, attrs, now)
         IN  /\ TraceInv(r)
             /\ r.generation = t.generation
             /\ SpanCount(t) <= SpanCount(r) /\ 1 <= SpanCount(r)
             /\ \A i \in 1..SpanCount(t) :
                  /\ r.spanIds[i] = t.spanIds[i]
                  /\ t.parentIdx[i] # None => r.parentIdx[i] = t.parentIdx[i]
<1> DEFINE u == [t EXCEPT !.lastActivity = now]
           r == Insert(t, span, svc, attrs, now)
<1>t. t \in TraceType /\ RowsAligned(t) /\ IndexInverse(t) /\ SlicesTile(t) /\ LinksExact(t)
  BY DEF TraceInv
<1>f. SpanCount(t) \in Nat /\ span.id \in SpanIds
  BY <1>t, TraceFieldTypes DEF SpanOK
<1>1. /\ u \in TraceType /\ u.generation = t.generation
      /\ u.spanIds = t.spanIds /\ u.body = t.body /\ u.serviceNameId = t.serviceNameId
      /\ u.parentIdx = t.parentIdx /\ u.orphan = t.orphan
      /\ u.attrKeys = t.attrKeys /\ u.attrValues = t.attrValues
      /\ u.attrOffsets = t.attrOffsets /\ u.spanIndex = t.spanIndex
      /\ u.pendingChildren = t.pendingChildren
  BY <1>t DEF TraceType
<1>5. r = IF IsDuplicate(t, span)
          THEN OverwriteAt(u, t.spanIndex[span.id], span, svc, attrs)
          ELSE AdoptChildren(PushRow(u, span, svc, attrs), span.id)
  BY DEF Insert, AppendSpan
<1> HIDE DEF u, r
<1>2. SpanCount(u) = SpanCount(t)
  BY <1>1 DEF SpanCount
<1>3. TraceInv(u)
  <2>1. RowsAligned(u) /\ IndexInverse(u) /\ SlicesTile(u)
    BY <1>t, <1>1, <1>2 DEF RowsAligned, IndexInverse, SlicesTile
  <2>2. LinksExact(u)
    <3>1. /\ u.orphan = t.orphan /\ u.parentIdx = t.parentIdx
          /\ u.spanIndex = t.spanIndex /\ u.pendingChildren = t.pendingChildren
      BY <1>1
    <3>2. LinksExact(t)
      BY <1>t
    <3> QED BY ONLY <3>1, <3>2, <1>2 DEF LinksExact
  <2> QED BY <2>1, <2>2, <1>1 DEF TraceInv
<1>4. IsDuplicate(u, span) <=> IsDuplicate(t, span)
  BY <1>1 DEF IsDuplicate
<1>6. CASE IsDuplicate(t, span)
  <2> DEFINE idx == t.spanIndex[span.id]
  <2>1. idx \in 1..SpanCount(u)
    BY <1>6, <1>t, <1>f, <1>2 DEF IsDuplicate, IndexInverse
  <2>2. r = OverwriteAt(u, idx, span, svc, attrs)
    BY <1>5, <1>6
  <2>3. TraceInv(r) /\ r.spanIds = u.spanIds /\ r.parentIdx = u.parentIdx
    <3> HIDE DEF idx
    <3> QED BY <2>1, <2>2, <1>3, OverwriteAtInv
  <2>4. r.generation = u.generation
    BY <2>2, <1>1 DEF OverwriteAt, OverwriteAttrs, ShiftOffsets, TraceType
  <2>5. SpanCount(r) = SpanCount(u) /\ 1 <= SpanCount(u)
    BY <2>1, <2>3, <1>2, <1>f DEF SpanCount
  <2> QED BY <2>3, <2>4, <2>5, <1>1, <1>2, <1>f DEF r
<1>7. CASE ~IsDuplicate(t, span)
  <2> DEFINE p == PushRow(u, span, svc, attrs)
  <2>1. /\ p \in TraceType /\ RowsAligned(p) /\ IndexInverse(p) /\ SlicesTile(p)
        /\ LinksExactBut(p, span.id) /\ p.spanIndex[span.id] = SpanCount(p)
        /\ SpanCount(p) = SpanCount(u) + 1
        /\ \A i \in 1..SpanCount(u) :
             p.spanIds[i] = u.spanIds[i] /\ p.parentIdx[i] = u.parentIdx[i]
    BY <1>3, <1>4, <1>7, PushRowInv
  <2>2. r = AdoptChildren(p, span.id)
    BY <1>5, <1>7
  <2>3. r.generation = u.generation
    BY <2>2, <1>1 DEF PushRow, AdoptChildren, TraceType
  <2> HIDE DEF p
  <2>4. SpanCount(p) \in 1..SpanCount(p) /\ SpanCount(t) <= SpanCount(p) /\ 1 <= SpanCount(p)
    BY <2>1, <1>2, <1>f
  <2>5. /\ TraceInv(r) /\ r.spanIds = p.spanIds
        /\ \A i \in 1..SpanCount(p) : p.parentIdx[i] # None => r.parentIdx[i] = p.parentIdx[i]
    BY <2>1, <2>2, <2>4, <1>f, AdoptChildrenInv
  <2>6. SpanCount(r) = SpanCount(p)
    BY <2>5 DEF SpanCount
  <2>7. \A i \in 1..SpanCount(t) :
          /\ r.spanIds[i] = t.spanIds[i]
          /\ t.parentIdx[i] # None => r.parentIdx[i] = t.parentIdx[i]
    BY <2>1, <2>4, <2>5, <1>1, <1>2, <1>f
  <2> QED BY <2>3, <2>4, <2>5, <2>6, <2>7, <1>1 DEF r
<1> QED BY <1>6, <1>7

(***************************************************************************)
(* `insert` sets last_activity_unix_nano to the time it is called with, on *)
(* a new row and on an overwritten one.                                    *)
(***************************************************************************)
LEMMA InsertTouches ==
  ASSUME NEW t, TraceInv(t), NEW span, SpanOK(span),
         NEW serviceNameId \in Optional(Nat), NEW attrs \in Seq(InternedAttr),
         NEW now \in Nat
  PROVE  Insert(t, span, serviceNameId, attrs, now).lastActivity = now
<1> DEFINE touched == [t EXCEPT !.lastActivity = now]
<1>1. touched \in TraceType /\ touched.lastActivity = now
  BY DEF TraceInv, TraceType
<1> HIDE DEF touched
<1>2. CASE IsDuplicate(t, span)
  <2>1. Insert(t, span, serviceNameId, attrs, now)
          = OverwriteAt(touched, t.spanIndex[span.id], span, serviceNameId, attrs)
    BY <1>2 DEF Insert, touched
  <2>2. OverwriteAt(touched, t.spanIndex[span.id], span, serviceNameId, attrs).lastActivity
          = touched.lastActivity
    BY <1>1 DEF OverwriteAt, OverwriteAttrs, TraceType
  <2> QED BY <2>1, <2>2, <1>1
<1>3. CASE ~IsDuplicate(t, span)
  <2> DEFINE pushed == PushRow(touched, span, serviceNameId, attrs)
  <2>1. Insert(t, span, serviceNameId, attrs, now) = AdoptChildren(pushed, span.id)
    BY <1>3 DEF Insert, AppendSpan, touched
  <2>2. AdoptChildren(pushed, span.id).lastActivity = touched.lastActivity
    BY <1>1 DEF AdoptChildren, PushRow, TraceType
  <2> QED BY <2>1, <2>2, <1>1
<1> QED BY <1>2, <1>3

-----------------------------------------------------------------------------
(***************************************************************************)
(* What a reader finds in a row, and what `insert` does to it.             *)
(***************************************************************************)
RowOf(t, i) ==
  [parent  |-> DeclaredParent(t, i),
   body    |-> t.body[i],
   service |-> t.serviceNameId[i],
   attrs   |-> Attributes(t, i)]

(***************************************************************************)
(* The bounds of the slices of a consistent trace.                         *)
(***************************************************************************)
LEMMA SliceBounds ==
  ASSUME NEW t, TraceInv(t), NEW i \in 1..SpanCount(t)
  PROVE  /\ i \in Nat /\ i + 1 \in Nat /\ SpanCount(t) \in Nat
         /\ t.attrOffsets[i] \in Nat /\ t.attrOffsets[i + 1] \in Nat
         /\ Len(t.attrKeys) \in Nat /\ Len(t.attrValues) = Len(t.attrKeys)
         /\ t.attrOffsets[i] <= t.attrOffsets[i + 1]
         /\ t.attrOffsets[i + 1] <= Len(t.attrKeys)
         /\ AttributeCount(t, i) \in Nat
<1>1. t \in TraceType /\ SlicesTile(t)
  BY DEF TraceInv
<1>2. t.attrOffsets \in Seq(Nat) /\ t.attrKeys \in Seq(Nat) /\ SpanCount(t) \in Nat
  BY <1>1, TraceFieldTypes
<1>3. /\ Len(t.attrOffsets) = SpanCount(t) + 1 /\ Len(t.attrValues) = Len(t.attrKeys)
      /\ t.attrOffsets[SpanCount(t) + 1] = Len(t.attrKeys)
      /\ \A k, l \in 1..(SpanCount(t) + 1) : k <= l => t.attrOffsets[k] <= t.attrOffsets[l]
  BY <1>1 DEF SlicesTile
<1>4. \A k \in 1..Len(t.attrOffsets) : t.attrOffsets[k] \in Nat
  BY <1>2, ElementOfSeq
<1>5. /\ i \in Nat /\ i \in 1..(SpanCount(t) + 1) /\ i + 1 \in 1..(SpanCount(t) + 1)
      /\ SpanCount(t) + 1 \in 1..(SpanCount(t) + 1) /\ i <= i + 1 /\ i + 1 <= SpanCount(t) + 1
  BY <1>2, SMTT(30)
<1>6. t.attrOffsets[i] \in Nat /\ t.attrOffsets[i + 1] \in Nat
  BY <1>3, <1>4, <1>5
<1>7. t.attrOffsets[i] <= t.attrOffsets[i + 1] /\ t.attrOffsets[i + 1] <= Len(t.attrKeys)
  BY <1>3, <1>5
<1>8. AttributeCount(t, i) \in Nat
  BY <1>6, <1>7 DEF AttributeCount
<1>9. i + 1 \in Nat /\ Len(t.attrKeys) \in Nat
  BY <1>2, <1>5
<1> QED BY ONLY <1>2, <1>3, <1>5, <1>6, <1>7, <1>8, <1>9

(***************************************************************************)
(* The attributes of a row are pairs of an interned key and a value.       *)
(***************************************************************************)
LEMMA AttributesType ==
  ASSUME NEW t, TraceInv(t), NEW i \in 1..SpanCount(t)
  PROVE  Attributes(t, i) \in Seq(InternedAttr)
<1> DEFINE c == AttributeCount(t, i)
<1>1. /\ c \in Nat /\ t.attrOffsets[i] \in Nat /\ t.attrOffsets[i + 1] \in Nat
      /\ t.attrOffsets[i + 1] <= Len(t.attrKeys) /\ Len(t.attrKeys) \in Nat
      /\ Len(t.attrValues) = Len(t.attrKeys) /\ c = t.attrOffsets[i + 1] - t.attrOffsets[i]
  BY SliceBounds DEF AttributeCount
<1>2. t.attrKeys \in Seq(Nat) /\ t.attrValues \in Seq(AttrValues)
  BY TraceFieldTypes DEF TraceInv
<1>3. \A k \in 1..Len(t.attrKeys) : t.attrKeys[k] \in Nat /\ t.attrValues[k] \in AttrValues
  BY ONLY <1>1, <1>2, ElementOfSeq
<1>4. \A j \in 1..c : t.attrOffsets[i] + j \in 1..Len(t.attrKeys)
  <2> HIDE DEF c
  <2> QED BY <1>1, SMTT(30)
<1>5. \A j \in 1..c : [key   |-> t.attrKeys[t.attrOffsets[i] + j],
                       value |-> t.attrValues[t.attrOffsets[i] + j]] \in InternedAttr
  BY <1>3, <1>4 DEF InternedAttr
<1>6. Attributes(t, i) \in [1..c -> InternedAttr]
  BY <1>5 DEF Attributes
<1> HIDE DEF c
<1> QED BY <1>1, <1>6, FunctionIsSeq

(***************************************************************************)
(* The list a row waits in is the only one.                                *)
(***************************************************************************)
LEMMA WaitsForOne ==
  ASSUME NEW t, TraceInv(t), NEW i \in 1..SpanCount(t), NEW p \in SpanIds,
         i \in t.pendingChildren[p]
  PROVE  DeclaredParent(t, i) = p
<1>1. LinksExact(t)
  BY DEF TraceInv
<1>2. t.orphan[i] /\ t.parentIdx[i] = None
  BY <1>1 DEF LinksExact
<1>3. \A q \in SpanIds : i \in t.pendingChildren[q] => q = p
  BY <1>1 DEF LinksExact
<1>4. (CHOOSE q \in SpanIds : i \in t.pendingChildren[q]) = p
  BY <1>3
<1> QED BY <1>2, <1>4 DEF DeclaredParent

(***************************************************************************)
(* A row that waits for nobody.                                            *)
(***************************************************************************)
LEMMA WaitsForNone ==
  ASSUME NEW t, TraceInv(t), NEW i \in 1..SpanCount(t),
         \A p \in SpanIds : i \notin t.pendingChildren[p]
  PROVE  DeclaredParent(t, i) =
           IF t.parentIdx[i] # None THEN t.spanIds[t.parentIdx[i]] ELSE None
<1>1. ~t.orphan[i]
  BY DEF TraceInv, LinksExact
<1> QED BY <1>1 DEF DeclaredParent

(***************************************************************************)
(* What a reader finds in a row is well typed.                             *)
(***************************************************************************)
LEMMA RowOfType ==
  ASSUME NEW t, TraceInv(t), NEW i \in 1..SpanCount(t)
  PROVE  RowOf(t, i) \in RowType
<1>1. /\ t.body \in Seq(Bodies) /\ t.serviceNameId \in Seq(Optional(Nat))
      /\ t.spanIds \in Seq(SpanIds) /\ SpanCount(t) \in Nat
  BY TraceFieldTypes DEF TraceInv
<1>2. Len(t.body) = SpanCount(t) /\ Len(t.serviceNameId) = SpanCount(t)
  BY DEF TraceInv, RowsAligned
<1>3. t.body[i] \in Bodies /\ t.serviceNameId[i] \in Optional(Nat)
  BY <1>1, <1>2, ElementOfSeq
<1>4. DeclaredParent(t, i) \in Optional(SpanIds)
  <2>1. CASE \E p \in SpanIds : i \in t.pendingChildren[p]
    BY <2>1, WaitsForOne DEF Optional
  <2>2. CASE \A p \in SpanIds : i \notin t.pendingChildren[p]
    <3>1. DeclaredParent(t, i) =
            IF t.parentIdx[i] # None THEN t.spanIds[t.parentIdx[i]] ELSE None
      BY <2>2, WaitsForNone
    <3>2. t.parentIdx[i] # None => t.parentIdx[i] \in 1..SpanCount(t)
      BY DEF TraceInv, LinksExact
    <3>3. \A k \in 1..SpanCount(t) : t.spanIds[k] \in SpanIds
      BY <1>1 DEF SpanCount
    <3> QED BY <3>1, <3>2, <3>3 DEF Optional
  <2> QED BY <2>1, <2>2
<1>5. Attributes(t, i) \in Seq(InternedAttr)
  BY AttributesType
<1> QED BY <1>3, <1>4, <1>5 DEF RowOf, RowType

(***************************************************************************)
(* Every splice of a slice within a sequence does so.                      *)
(***************************************************************************)
LEMMA SpliceIsExact ==
  ASSUME NEW S, NEW seq \in Seq(S), NEW new \in Seq(S),
         NEW from \in Nat, NEW to \in Nat, from <= to, to <= Len(seq)
  PROVE  SpliceExact(seq, from, to, new)
BY SpliceType

(***************************************************************************)
(* `overwrite_at` gives its row the contents of the span and leaves what a *)
(* reader finds in every other row as it was, and the parent of all.       *)
(***************************************************************************)
LEMMA OverwriteRows ==
  ASSUME NEW t, TraceInv(t), NEW idx \in 1..SpanCount(t), NEW span, SpanOK(span),
         NEW svc \in Optional(Nat), NEW attrs \in Seq(InternedAttr)
  PROVE  LET r == OverwriteAt(t, idx, span, svc, attrs)
         IN  /\ r.spanIndex = t.spanIndex
             /\ \A i \in 1..SpanCount(t) : RowOf(r, i) =
                  IF i = idx
                  THEN [parent |-> DeclaredParent(t, idx), body |-> span.body,
                        service |-> svc, attrs |-> attrs]
                  ELSE RowOf(t, i)
<1> DEFINE r     == OverwriteAt(t, idx, span, svc, attrs)
           u     == OverwriteAttrs(t, idx, attrs)
           n     == SpanCount(t)
           from  == t.attrOffsets[idx]
           to    == t.attrOffsets[idx + 1]
           delta == Len(attrs) - (to - from)
<1>1. /\ r.attrKeys = Splice(t.attrKeys, from, to, Keys(attrs))
      /\ r.attrValues = Splice(t.attrValues, from, to, Values(attrs))
      /\ \A i \in 1..(n + 1) : r.attrOffsets[i] =
           IF i > idx THEN t.attrOffsets[i] + delta ELSE t.attrOffsets[i]
      /\ r.body = [t.body EXCEPT ![idx] = span.body]
      /\ r.serviceNameId = [t.serviceNameId EXCEPT ![idx] = svc]
      /\ r.spanIds = t.spanIds /\ r.parentIdx = t.parentIdx
      /\ r.orphan = t.orphan /\ r.spanIndex = t.spanIndex
      /\ r.pendingChildren = t.pendingChildren
  <2>1. t \in TraceType /\ Len(t.attrOffsets) = n + 1
    BY DEF TraceInv, SlicesTile
  <2>2. /\ u.attrKeys = Splice(t.attrKeys, from, to, Keys(attrs))
        /\ u.attrValues = Splice(t.attrValues, from, to, Values(attrs))
        /\ u.attrOffsets = ShiftOffsets(t.attrOffsets, idx, delta)
        /\ u.body = t.body /\ u.serviceNameId = t.serviceNameId
        /\ u.spanIds = t.spanIds /\ u.parentIdx = t.parentIdx
        /\ u.orphan = t.orphan /\ u.spanIndex = t.spanIndex
        /\ u.pendingChildren = t.pendingChildren
    BY <2>1 DEF OverwriteAttrs, TraceType
  <2>3. /\ r.attrKeys = u.attrKeys /\ r.attrValues = u.attrValues
        /\ r.attrOffsets = u.attrOffsets
        /\ r.body = [u.body EXCEPT ![idx] = span.body]
        /\ r.serviceNameId = [u.serviceNameId EXCEPT ![idx] = svc]
        /\ r.spanIds = u.spanIds /\ r.parentIdx = u.parentIdx
        /\ r.orphan = u.orphan /\ r.spanIndex = u.spanIndex
        /\ r.pendingChildren = u.pendingChildren
    BY <2>1 DEF OverwriteAt, OverwriteAttrs, TraceType
  <2>4. \A i \in 1..(n + 1) : r.attrOffsets[i] =
          IF i > idx THEN t.attrOffsets[i] + delta ELSE t.attrOffsets[i]
    <3> HIDE DEF r, u, from, to, delta
    <3> QED BY <2>1, <2>2, <2>3 DEF ShiftOffsets
  <2> QED BY ONLY <2>2, <2>3, <2>4
<1> HIDE DEF r, u
<1>2. /\ t.attrKeys \in Seq(Nat) /\ t.attrValues \in Seq(AttrValues)
      /\ t.body \in Seq(Bodies) /\ t.serviceNameId \in Seq(Optional(Nat))
      /\ Len(t.body) = n /\ Len(t.serviceNameId) = n /\ n \in Nat /\ idx \in Nat
  BY TraceFieldTypes DEF TraceInv, RowsAligned
<1>3. /\ Keys(attrs) \in Seq(Nat) /\ Len(Keys(attrs)) = Len(attrs)
      /\ Values(attrs) \in Seq(AttrValues) /\ Len(Values(attrs)) = Len(attrs)
      /\ Len(attrs) \in Nat
  BY KeysValuesType
<1>4. /\ from \in Nat /\ to \in Nat /\ from <= to /\ to <= Len(t.attrKeys)
      /\ Len(t.attrKeys) \in Nat /\ Len(t.attrValues) = Len(t.attrKeys)
  BY SliceBounds
<1>s. /\ SpliceExact(t.attrKeys, from, to, Keys(attrs))
      /\ SpliceExact(t.attrValues, from, to, Values(attrs))
  <2>1. to <= Len(t.attrValues)
    BY <1>4
  <2> HIDE DEF from, to
  <2>2. SpliceExact(t.attrKeys, from, to, Keys(attrs))
    BY <1>2, <1>3, <1>4, SpliceIsExact
  <2>3. SpliceExact(t.attrValues, from, to, Values(attrs))
    BY <2>1, <1>2, <1>3, <1>4, SpliceIsExact
  <2> QED BY <2>2, <2>3
<1>5. \A i \in 1..n : i \in 1..(n + 1) /\ i + 1 \in 1..(n + 1) /\ i \in Nat
  BY <1>2
<1>6. \A i, j \in 1..(n + 1) : i <= j => t.attrOffsets[i] <= t.attrOffsets[j]
  BY DEF TraceInv, SlicesTile
<1>7. \A i \in 1..n : DeclaredParent(r, i) = DeclaredParent(t, i)
  BY <1>1 DEF DeclaredParent
<1>8. \A i \in 1..n : /\ r.body[i] = IF i = idx THEN span.body ELSE t.body[i]
                      /\ r.serviceNameId[i] = IF i = idx THEN svc ELSE t.serviceNameId[i]
  BY <1>1, <1>2
<1>9. Attributes(r, idx) = attrs
  <2>1. r.attrOffsets[idx] = from /\ r.attrOffsets[idx + 1] = from + Len(attrs)
    <3>1. ~(idx > idx) /\ idx + 1 > idx
      BY <1>2
    <3>2. r.attrOffsets[idx] = from /\ r.attrOffsets[idx + 1] = to + delta
      BY <3>1, <1>1, <1>5
    <3> QED BY <3>2, <1>3, <1>4
  <2> HIDE DEF from, to
  <2>2. AttributeCount(r, idx) = Len(attrs)
    BY <2>1, <1>3, <1>4 DEF AttributeCount
  <2>3. ASSUME NEW j \in 1..Len(attrs)
        PROVE  /\ r.attrKeys[from + j] = attrs[j].key
               /\ r.attrValues[from + j] = attrs[j].value
    <3>1. j \in 1..Len(Keys(attrs)) /\ j \in 1..Len(Values(attrs))
      BY <1>3
    <3>2. Splice(t.attrKeys, from, to, Keys(attrs))[from + j] = Keys(attrs)[j]
      BY ONLY <3>1, <1>s DEF SpliceExact
    <3>3. Splice(t.attrValues, from, to, Values(attrs))[from + j] = Values(attrs)[j]
      BY ONLY <3>1, <1>s DEF SpliceExact
    <3>4. Keys(attrs)[j] = attrs[j].key /\ Values(attrs)[j] = attrs[j].value
      BY DEF Keys, Values
    <3> QED BY ONLY <3>2, <3>3, <3>4, <1>1
  <2>4. \A j \in 1..Len(attrs) : attrs[j] = [key |-> attrs[j].key, value |-> attrs[j].value]
    <3>1. \A j \in 1..Len(attrs) : attrs[j] \in InternedAttr
      BY ElementOfSeq
    <3> QED BY <3>1 DEF InternedAttr
  <2>5. Attributes(r, idx) =
          [j \in 1..Len(attrs) |-> [key   |-> r.attrKeys[from + j],
                                    value |-> r.attrValues[from + j]]]
    BY ONLY <2>1, <2>2 DEF Attributes
  <2>6. Attributes(r, idx) = [j \in 1..Len(attrs) |-> attrs[j]]
    BY <2>3, <2>4, <2>5
  <2>7. attrs = [j \in 1..Len(attrs) |-> attrs[j]]
    OBVIOUS
  <2> QED BY ONLY <2>6, <2>7
<1>10. ASSUME NEW i \in 1..n, i # idx
       PROVE  Attributes(r, i) = Attributes(t, i)
  <2> DEFINE a == t.attrOffsets[i]
             b == t.attrOffsets[i + 1]
  <2>1. a \in Nat /\ b \in Nat /\ a <= b /\ b <= Len(t.attrKeys)
    BY SliceBounds
  <2>2. CASE i < idx
    <3>1. b <= from
      <4>1. i + 1 \in 1..(n + 1) /\ idx \in 1..(n + 1) /\ i + 1 <= idx
        BY <2>2, <1>2, <1>5
      <4> QED BY <4>1, <1>6
    <3>2. r.attrOffsets[i] = a /\ r.attrOffsets[i + 1] = b
      <4>1. ~(i > idx) /\ ~(i + 1 > idx)
        BY <2>2, <1>2, <1>5
      <4> QED BY <4>1, <1>1, <1>5
    <3> HIDE DEF a, b, from, to
    <3>3. ASSUME NEW j \in 1..(b - a)
          PROVE  r.attrKeys[a + j] = t.attrKeys[a + j] /\ r.attrValues[a + j] = t.attrValues[a + j]
      <4>1. a + j \in 1..from
        BY <2>1, <3>1, <1>4
      <4>2. Splice(t.attrKeys, from, to, Keys(attrs))[a + j] = t.attrKeys[a + j]
        BY ONLY <4>1, <1>s DEF SpliceExact
      <4>3. Splice(t.attrValues, from, to, Values(attrs))[a + j] = t.attrValues[a + j]
        BY ONLY <4>1, <1>s DEF SpliceExact
      <4> QED BY ONLY <4>2, <4>3, <1>1
    <3>4. AttributeCount(r, i) = b - a /\ AttributeCount(t, i) = b - a
      BY <3>2 DEF AttributeCount, a, b
    <3>5. Attributes(r, i) = [j \in 1..(b - a) |->
             [key |-> r.attrKeys[a + j], value |-> r.attrValues[a + j]]]
      BY ONLY <3>2, <3>4 DEF Attributes
    <3>6. Attributes(t, i) = [j \in 1..(b - a) |->
             [key |-> t.attrKeys[a + j], value |-> t.attrValues[a + j]]]
      BY ONLY <3>4 DEF Attributes, a
    <3> QED BY ONLY <3>3, <3>5, <3>6
  <2>3. CASE i > idx
    <3>1. to <= a
      <4>1. idx + 1 \in 1..(n + 1) /\ i \in 1..(n + 1) /\ idx + 1 <= i
        BY <2>3, <1>2, <1>5
      <4> QED BY <4>1, <1>6
    <3>2. r.attrOffsets[i] = a + delta /\ r.attrOffsets[i + 1] = b + delta
      <4>1. i > idx /\ i + 1 > idx
        BY <2>3, <1>2, <1>5
      <4> QED BY <4>1, <1>1, <1>5
    <3> HIDE DEF a, b, from, to
    <3>3. ASSUME NEW j \in 1..(b - a)
          PROVE  /\ r.attrKeys[a + delta + j] = t.attrKeys[a + j]
                 /\ r.attrValues[a + delta + j] = t.attrValues[a + j]
      <4> DEFINE k == a + j - to
      <4>1. k \in 1..(Len(t.attrKeys) - to) /\ k \in 1..(Len(t.attrValues) - to)
        BY <2>1, <3>1, <1>4
      <4>2. from + Len(attrs) + k = a + delta + j /\ to + k = a + j
        BY <2>1, <1>3, <1>4
      <4> HIDE DEF k, delta
      <4>3. Splice(t.attrKeys, from, to, Keys(attrs))[from + Len(Keys(attrs)) + k]
              = t.attrKeys[to + k]
        BY ONLY <4>1, <1>s DEF SpliceExact
      <4>4. Splice(t.attrValues, from, to, Values(attrs))[from + Len(Values(attrs)) + k]
              = t.attrValues[to + k]
        BY ONLY <4>1, <1>s DEF SpliceExact
      <4> QED BY ONLY <4>2, <4>3, <4>4, <1>1, <1>3
    <3>4. AttributeCount(r, i) = b - a /\ AttributeCount(t, i) = b - a
      <4>1. delta \in Int
        BY <1>3, <1>4
      <4>2. (b + delta) - (a + delta) = b - a
        <5> HIDE DEF delta
        <5> QED BY <4>1, <2>1
      <4> QED BY <3>2, <4>2 DEF AttributeCount, a, b
    <3>5. Attributes(r, i) = [j \in 1..(b - a) |->
             [key |-> r.attrKeys[a + delta + j], value |-> r.attrValues[a + delta + j]]]
      <4> HIDE DEF delta
      <4> QED BY ONLY <3>2, <3>4 DEF Attributes
    <3>6. Attributes(t, i) = [j \in 1..(b - a) |->
             [key |-> t.attrKeys[a + j], value |-> t.attrValues[a + j]]]
      BY ONLY <3>4 DEF Attributes, a
    <3> HIDE DEF delta
    <3> QED BY ONLY <3>3, <3>5, <3>6
  <2> QED BY <2>2, <2>3, <1>2, <1>5, <1>10
<1>11. ASSUME NEW i \in 1..n
       PROVE  RowOf(r, i) = IF i = idx
                            THEN [parent |-> DeclaredParent(t, idx), body |-> span.body,
                                  service |-> svc, attrs |-> attrs]
                            ELSE RowOf(t, i)
  BY <1>7, <1>8, <1>9, <1>10 DEF RowOf
<1> QED BY <1>1, <1>11 DEF r

(***************************************************************************)
(* The columns of a trace once a new row is pushed and its children are    *)
(* adopted.                                                                *)
(***************************************************************************)
Appended(t, span, svc, attrs, r) ==
  /\ r.spanIds = Append(t.spanIds, span.id) /\ r.body = Append(t.body, span.body)
  /\ r.serviceNameId = Append(t.serviceNameId, svc)
  /\ r.attrKeys = t.attrKeys \o Keys(attrs)
  /\ r.attrValues = t.attrValues \o Values(attrs)
  /\ r.attrOffsets = Append(t.attrOffsets, Len(t.attrKeys) + Len(attrs))
  /\ r.spanIndex = [t.spanIndex EXCEPT ![span.id] = SpanCount(t) + 1]
  /\ \A q \in SpanIds : r.pendingChildren[q] =
       IF q = span.id THEN {} ELSE Waiting(t, span)[q]
  /\ \A i \in 1..(SpanCount(t) + 1) : r.parentIdx[i] =
       IF i \in Waiting(t, span)[span.id] THEN SpanCount(t) + 1
       ELSE IF i = SpanCount(t) + 1 THEN ResolvedParent(t, span) ELSE t.parentIdx[i]

(***************************************************************************)
(* They are those of the first part of `insert`.                           *)
(***************************************************************************)
LEMMA AppendColumns ==
  ASSUME NEW t, TraceInv(t), NEW span, SpanOK(span), ~IsDuplicate(t, span),
         NEW svc \in Optional(Nat), NEW attrs \in Seq(InternedAttr)
  PROVE  /\ TraceInv(AppendSpan(t, span, svc, attrs))
         /\ Appended(t, span, svc, attrs, AppendSpan(t, span, svc, attrs))
<1> DEFINE r == AppendSpan(t, span, svc, attrs)
           n == SpanCount(t)
<1> DEFINE p == PushRow(t, span, svc, attrs)
<1>1. t \in TraceType /\ Len(t.parentIdx) = n /\ span.id \in SpanIds
  BY DEF TraceInv, RowsAligned, SpanOK
<1>2. /\ t.parentIdx \in Seq(Optional(Nat)) /\ t.spanIndex \in [SpanIds -> Optional(Nat)]
      /\ t.pendingChildren \in [SpanIds -> SUBSET Nat] /\ n \in Nat
  BY <1>1, TraceFieldTypes
<1>3. Waiting(t, span) \in [SpanIds -> SUBSET Nat]
  BY <1>2, WaitingLists DEF SpanOK
<1>4. ResolvedParent(t, span) \in Optional(Nat)
  BY <1>2 DEF ResolvedParent, SpanOK, Optional
<1>5. /\ p.spanIds = Append(t.spanIds, span.id) /\ p.body = Append(t.body, span.body)
      /\ p.serviceNameId = Append(t.serviceNameId, svc)
      /\ p.parentIdx = Append(t.parentIdx, ResolvedParent(t, span))
      /\ p.pendingChildren = Waiting(t, span)
  BY <1>1 DEF PushRow, TraceType
<1>6. /\ p.attrKeys = t.attrKeys \o Keys(attrs)
      /\ p.attrValues = t.attrValues \o Values(attrs)
      /\ p.attrOffsets = Append(t.attrOffsets, Len(t.attrKeys) + Len(attrs))
      /\ p.spanIndex = [t.spanIndex EXCEPT ![span.id] = n + 1]
  BY <1>1 DEF PushRow, TraceType
<1>7. p \in TraceType
  BY PushRowInv
<1>8. r = AdoptChildren(p, span.id)
  BY DEF AppendSpan
<1>t. TraceInv(r)
  <2>1. /\ p \in TraceType /\ RowsAligned(p) /\ IndexInverse(p) /\ SlicesTile(p)
        /\ LinksExactBut(p, span.id) /\ p.spanIndex[span.id] = SpanCount(p)
        /\ SpanCount(p) = n + 1
    BY PushRowInv
  <2> HIDE DEF p, r
  <2>2. SpanCount(p) \in 1..SpanCount(p)
    BY <2>1, <1>2
  <2> QED BY <2>1, <2>2, <1>1, <1>8, AdoptChildrenInv
<1> HIDE DEF p, r
<1>9. /\ r.spanIds = p.spanIds /\ r.body = p.body /\ r.serviceNameId = p.serviceNameId
      /\ r.attrKeys = p.attrKeys /\ r.attrValues = p.attrValues
      /\ r.attrOffsets = p.attrOffsets /\ r.spanIndex = p.spanIndex
      /\ r.pendingChildren = [p.pendingChildren EXCEPT ![span.id] = {}]
      /\ r.parentIdx = [i \in 1..Len(p.parentIdx) |->
                          IF i \in p.pendingChildren[span.id] THEN p.spanIndex[span.id]
                          ELSE p.parentIdx[i]]
  BY <1>7, <1>8 DEF AdoptChildren, TraceType
<1>10. \A q \in SpanIds : r.pendingChildren[q] =
         IF q = span.id THEN {} ELSE Waiting(t, span)[q]
  BY <1>3, <1>5, <1>9
<1>11. p.spanIndex[span.id] = n + 1
  BY <1>1, <1>2, <1>6
<1>12. /\ Len(p.parentIdx) = n + 1
       /\ \A i \in 1..(n + 1) : p.parentIdx[i] =
            IF i = n + 1 THEN ResolvedParent(t, span) ELSE t.parentIdx[i]
  <2>1. /\ Len(p.parentIdx) = Len(t.parentIdx) + 1
        /\ \A i \in 1..Len(t.parentIdx) : p.parentIdx[i] = t.parentIdx[i]
        /\ p.parentIdx[Len(t.parentIdx) + 1] = ResolvedParent(t, span)
    BY ONLY <1>2, <1>4, <1>5, AppendProperties
  <2> QED BY ONLY <2>1, <1>1, <1>2
<1>13. \A i \in 1..(n + 1) : r.parentIdx[i] =
         IF i \in Waiting(t, span)[span.id] THEN n + 1
         ELSE IF i = n + 1 THEN ResolvedParent(t, span) ELSE t.parentIdx[i]
  BY <1>5, <1>9, <1>11, <1>12
<1>14. Appended(t, span, svc, attrs, r)
  BY ONLY <1>5, <1>6, <1>9, <1>10, <1>13 DEF Appended
<1> QED BY <1>t, <1>14 DEF r

(***************************************************************************)
(* The parents a reader finds once a row is pushed: every row still names  *)
(* the parent it declared, the children adopted included, and the new row  *)
(* names its own.                                                          *)
(***************************************************************************)
LEMMA AppendParents ==
  ASSUME NEW t, TraceInv(t), NEW span, SpanOK(span), ~IsDuplicate(t, span),
         NEW svc, NEW attrs, NEW r, TraceInv(r), Appended(t, span, svc, attrs, r)
  PROVE  /\ \A i \in 1..SpanCount(t) : DeclaredParent(r, i) = DeclaredParent(t, i)
         /\ DeclaredParent(r, SpanCount(t) + 1) = span.parent
<1> DEFINE n == SpanCount(t)
<1>a. t.spanIds \in Seq(SpanIds) /\ n \in Nat /\ Len(t.spanIds) = n
  BY TraceFieldTypes DEF TraceInv, SpanCount
<1>b. /\ r.spanIds = Append(t.spanIds, span.id)
      /\ \A q \in SpanIds : r.pendingChildren[q] =
           IF q = span.id THEN {} ELSE Waiting(t, span)[q]
      /\ \A i \in 1..(n + 1) : r.parentIdx[i] =
           IF i \in Waiting(t, span)[span.id] THEN n + 1
           ELSE IF i = n + 1 THEN ResolvedParent(t, span) ELSE t.parentIdx[i]
  BY DEF Appended
<1>c. /\ \A i \in 1..n : r.spanIds[i] = t.spanIds[i]
      /\ r.spanIds[n + 1] = span.id /\ SpanCount(r) = n + 1
  <2>1. span.id \in SpanIds
    BY DEF SpanOK
  <2> HIDE DEF n
  <2> QED BY ONLY <2>1, <1>a, <1>b, AppendProperties DEF SpanCount
<1>1. span.id \in SpanIds /\ span.parent \in Optional(SpanIds)
  BY DEF SpanOK
<1>2. t \in TraceType /\ IndexInverse(t) /\ LinksExact(t)
  BY DEF TraceInv
<1>3. t.pendingChildren \in [SpanIds -> SUBSET Nat]
  BY <1>2, TraceFieldTypes
<1>4. \A q \in SpanIds : Waiting(t, span)[q] =
        IF MustWait(t, span) /\ q = span.parent
        THEN t.pendingChildren[q] \cup {n + 1} ELSE t.pendingChildren[q]
  BY <1>1, <1>3, <1>a, WaitingLists
<1>5. n + 1 \in 1..(n + 1) /\ n + 1 # None
  BY <1>a, NoneAssumption
<1>n. n = SpanCount(t)
  OBVIOUS
<1> HIDE DEF n
<1>6. ASSUME NEW i \in 1..n
      PROVE  DeclaredParent(r, i) = DeclaredParent(t, i)
  <2>1. i \in 1..(n + 1) /\ i # n + 1 /\ i \in 1..SpanCount(t) /\ i \in 1..SpanCount(r)
    BY <1>a, <1>c, <1>n
  <2>2. \A q \in SpanIds : i \in Waiting(t, span)[q] <=> i \in t.pendingChildren[q]
    BY ONLY <2>1, <1>4
  <2>3. CASE i \in t.pendingChildren[span.id]
    <3>1. DeclaredParent(t, i) = span.id
      BY ONLY <2>1, <2>3, <1>1, TraceInv(t), WaitsForOne
    <3>2. \A q \in SpanIds : q # span.id => i \notin t.pendingChildren[q]
      BY <2>3, <1>1, <1>2 DEF LinksExact
    <3>3. \A q \in SpanIds : i \notin r.pendingChildren[q]
      BY <3>2, <2>2, <1>b
    <3>4. r.parentIdx[i] = n + 1
      BY <2>1, <2>2, <2>3, <1>1, <1>b
    <3>5. DeclaredParent(r, i) = r.spanIds[r.parentIdx[i]]
      BY <3>3, <3>4, <2>1, <1>5, WaitsForNone
    <3> QED BY <3>1, <3>4, <3>5, <1>c
  <2>4. CASE i \notin t.pendingChildren[span.id] /\ \E q \in SpanIds : i \in t.pendingChildren[q]
    <3>1. PICK q \in SpanIds : i \in t.pendingChildren[q] /\ q # span.id
      BY <2>4
    <3>2. i \in r.pendingChildren[q]
      BY <3>1, <2>2, <1>b
    <3> QED BY <3>1, <3>2, <2>1, WaitsForOne
  <2>5. CASE \A q \in SpanIds : i \notin t.pendingChildren[q]
    <3>1. \A q \in SpanIds : i \notin r.pendingChildren[q]
      BY <2>2, <2>5, <1>b
    <3>2. r.parentIdx[i] = t.parentIdx[i]
      BY <2>1, <2>2, <2>5, <1>1, <1>b
    <3>3. t.parentIdx[i] # None => t.parentIdx[i] \in 1..n
      BY <1>2, <1>n DEF LinksExact
    <3>4. /\ DeclaredParent(r, i) =
               IF r.parentIdx[i] # None THEN r.spanIds[r.parentIdx[i]] ELSE None
          /\ DeclaredParent(t, i) =
               IF t.parentIdx[i] # None THEN t.spanIds[t.parentIdx[i]] ELSE None
      BY <3>1, <2>1, <2>5, WaitsForNone
    <3> QED BY <3>2, <3>3, <3>4, <1>c
  <2> QED BY <2>3, <2>4, <2>5
<1>7. DeclaredParent(r, n + 1) = span.parent
  <2>0. n + 1 \in 1..SpanCount(r)
    BY <1>5, <1>c
  <2>1. \A q \in SpanIds : n + 1 \notin t.pendingChildren[q]
    BY <1>a, <1>n, <1>2 DEF LinksExact
  <2>2. CASE MustWait(t, span) /\ span.parent # span.id
    <3>1. span.parent \in SpanIds
      BY <2>2, <1>1 DEF MustWait, Optional
    <3>2. n + 1 \in r.pendingChildren[span.parent]
      BY <3>1, <2>2, <1>4, <1>b
    <3> QED BY <3>1, <3>2, <2>0, WaitsForOne
  <2>3. CASE MustWait(t, span) /\ span.parent = span.id
    <3>1. n + 1 \in Waiting(t, span)[span.id]
      BY <2>3, <1>1, <1>4
    <3>2. r.parentIdx[n + 1] = n + 1
      BY <3>1, <1>5, <1>b
    <3>3. \A q \in SpanIds : n + 1 \notin r.pendingChildren[q]
      BY <2>1, <2>3, <1>4, <1>b
    <3>4. DeclaredParent(r, n + 1) = r.spanIds[r.parentIdx[n + 1]]
      BY <3>2, <3>3, <2>0, <1>5, WaitsForNone
    <3> QED BY <3>2, <3>4, <2>3, <1>c
  <2>4. CASE ~MustWait(t, span)
    <3>1. \A q \in SpanIds : n + 1 \notin r.pendingChildren[q]
      BY <2>1, <2>4, <1>4, <1>b
    <3>2. r.parentIdx[n + 1] = ResolvedParent(t, span)
      BY <2>1, <2>4, <1>1, <1>4, <1>5, <1>b
    <3>3. DeclaredParent(r, n + 1) =
            IF r.parentIdx[n + 1] # None THEN r.spanIds[r.parentIdx[n + 1]] ELSE None
      BY <3>1, <2>0, WaitsForNone
    <3>4. CASE span.parent = None
      BY <3>2, <3>3, <3>4 DEF ResolvedParent
    <3>5. CASE span.parent # None
      <4>1. /\ span.parent \in SpanIds /\ ResolvedParent(t, span) = t.spanIndex[span.parent]
            /\ t.spanIndex[span.parent] # None
        BY <3>5, <2>4, <1>1 DEF ResolvedParent, MustWait, Optional
      <4>2. /\ t.spanIndex[span.parent] \in 1..n
            /\ t.spanIds[t.spanIndex[span.parent]] = span.parent
        BY <4>1, <1>2, <1>n DEF IndexInverse
      <4> QED BY <3>2, <3>3, <4>1, <4>2, <1>c
    <3> QED BY <3>4, <3>5
  <2> QED BY <2>2, <2>3, <2>4
<1> QED BY <1>6, <1>7, <1>n

(***************************************************************************)
(* A concatenation has the entries of both sequences, in order.            *)
(***************************************************************************)
ConcatExact(a, b) ==
  /\ \A k \in 1..Len(a) : (a \o b)[k] = a[k]
  /\ \A k \in 1..Len(b) : (a \o b)[Len(a) + k] = b[k]

(***************************************************************************)
(* Whatever the sequences.                                                 *)
(***************************************************************************)
LEMMA ConcatIsExact ==
  ASSUME NEW S, NEW a \in Seq(S), NEW b \in Seq(S)
  PROVE  ConcatExact(a, b)
<1>1. \A k \in 1..(Len(a) + Len(b)) :
        (a \o b)[k] = IF k <= Len(a) THEN a[k] ELSE b[k - Len(a)]
  BY ConcatProperties
<1>2. Len(a) \in Nat /\ Len(b) \in Nat
  OBVIOUS
<1>3. \A k \in 1..Len(a) : (a \o b)[k] = a[k]
  BY ONLY <1>1, <1>2
<1>4. ASSUME NEW k \in 1..Len(b) PROVE (a \o b)[Len(a) + k] = b[k]
  <2>1. /\ Len(a) + k \in 1..(Len(a) + Len(b)) /\ ~(Len(a) + k <= Len(a))
        /\ Len(a) + k - Len(a) = k
    BY <1>2
  <2> QED BY ONLY <2>1, <1>1
<1> QED BY ONLY <1>3, <1>4 DEF ConcatExact

(***************************************************************************)
(* The attributes a reader finds once a row is pushed.                     *)
(***************************************************************************)
LEMMA AppendAttributes ==
  ASSUME NEW t, TraceInv(t), NEW span, NEW svc, NEW attrs \in Seq(InternedAttr),
         NEW r, Appended(t, span, svc, attrs, r)
  PROVE  /\ \A i \in 1..SpanCount(t) : Attributes(r, i) = Attributes(t, i)
         /\ Attributes(r, SpanCount(t) + 1) = attrs
<1> DEFINE n == SpanCount(t)
<1>0. /\ r.attrKeys = t.attrKeys \o Keys(attrs)
      /\ r.attrValues = t.attrValues \o Values(attrs)
      /\ r.attrOffsets = Append(t.attrOffsets, Len(t.attrKeys) + Len(attrs))
  BY DEF Appended
<1> DEFINE m == Len(t.attrKeys)
<1>1. /\ t.attrKeys \in Seq(Nat) /\ t.attrValues \in Seq(AttrValues)
      /\ t.attrOffsets \in Seq(Nat) /\ m \in Nat /\ n \in Nat
  BY TraceFieldTypes DEF TraceInv
<1>2. /\ Keys(attrs) \in Seq(Nat) /\ Len(Keys(attrs)) = Len(attrs)
      /\ Values(attrs) \in Seq(AttrValues) /\ Len(Values(attrs)) = Len(attrs)
      /\ Len(attrs) \in Nat
  BY KeysValuesType
<1>3. /\ Len(t.attrOffsets) = n + 1 /\ t.attrOffsets[n + 1] = m /\ Len(t.attrValues) = m
  BY DEF TraceInv, SlicesTile
<1>4. /\ \A i \in 1..(n + 1) : r.attrOffsets[i] = t.attrOffsets[i]
      /\ r.attrOffsets[n + 1 + 1] = m + Len(attrs)
  <2>1. m + Len(attrs) \in Nat
    BY <1>1, <1>2
  <2>2. /\ \A i \in 1..Len(t.attrOffsets) : r.attrOffsets[i] = t.attrOffsets[i]
        /\ r.attrOffsets[Len(t.attrOffsets) + 1] = m + Len(attrs)
    BY ONLY <2>1, <1>1, <1>0, AppendProperties
  <2> QED BY ONLY <2>2, <1>3
<1>5. /\ \A k \in 1..m : r.attrKeys[k] = t.attrKeys[k]
      /\ \A j \in 1..Len(attrs) : r.attrKeys[m + j] = attrs[j].key
  <2>1. ConcatExact(t.attrKeys, Keys(attrs))
    BY <1>1, <1>2, ConcatIsExact
  <2>2. \A j \in 1..Len(attrs) : Keys(attrs)[j] = attrs[j].key
    BY DEF Keys
  <2> QED BY ONLY <2>1, <2>2, <1>0, <1>2 DEF ConcatExact
<1>6. /\ \A k \in 1..m : r.attrValues[k] = t.attrValues[k]
      /\ \A j \in 1..Len(attrs) : r.attrValues[m + j] = attrs[j].value
  <2>1. ConcatExact(t.attrValues, Values(attrs))
    BY <1>1, <1>2, ConcatIsExact
  <2>2. \A j \in 1..Len(attrs) : Values(attrs)[j] = attrs[j].value
    BY DEF Values
  <2> QED BY ONLY <2>1, <2>2, <1>0, <1>2, <1>3 DEF ConcatExact
<1> HIDE DEF m
<1>7. ASSUME NEW i \in 1..n PROVE Attributes(r, i) = Attributes(t, i)
  <2> DEFINE a == t.attrOffsets[i]
             b == t.attrOffsets[i + 1]
  <2>1. a \in Nat /\ b \in Nat /\ a <= b /\ b <= m
    BY SliceBounds DEF m
  <2>2. r.attrOffsets[i] = a /\ r.attrOffsets[i + 1] = b
    <3>1. i \in 1..(n + 1) /\ i + 1 \in 1..(n + 1)
      BY <1>1
    <3> QED BY <3>1, <1>4
  <2>3. AttributeCount(r, i) = b - a /\ AttributeCount(t, i) = b - a
    BY ONLY <2>2 DEF AttributeCount
  <2> HIDE DEF a, b
  <2>4. \A j \in 1..(b - a) : a + j \in 1..m
    BY <2>1, <1>1
  <2>5. Attributes(r, i) = [j \in 1..(b - a) |->
           [key |-> r.attrKeys[a + j], value |-> r.attrValues[a + j]]]
    BY ONLY <2>2, <2>3 DEF Attributes
  <2>6. Attributes(t, i) = [j \in 1..(b - a) |->
           [key |-> t.attrKeys[a + j], value |-> t.attrValues[a + j]]]
    BY ONLY <2>3 DEF Attributes, a
  <2> QED BY ONLY <2>4, <2>5, <2>6, <1>5, <1>6
<1>8. Attributes(r, n + 1) = attrs
  <2>1. r.attrOffsets[n + 1] = m
    <3>1. n + 1 \in 1..(n + 1)
      BY <1>1
    <3> QED BY ONLY <3>1, <1>3, <1>4
  <2>2. AttributeCount(r, n + 1) = Len(attrs)
    <3>1. m \in Nat /\ Len(attrs) \in Nat
      BY <1>1, <1>2
    <3>2. (m + Len(attrs)) - m = Len(attrs)
      BY ONLY <3>1
    <3> QED BY ONLY <3>2, <2>1, <1>4 DEF AttributeCount
  <2>3. Attributes(r, n + 1) = [j \in 1..Len(attrs) |->
           [key |-> r.attrKeys[m + j], value |-> r.attrValues[m + j]]]
    BY ONLY <2>1, <2>2 DEF Attributes
  <2>4. \A j \in 1..Len(attrs) : attrs[j] = [key |-> attrs[j].key, value |-> attrs[j].value]
    <3>1. \A j \in 1..Len(attrs) : attrs[j] \in InternedAttr
      BY ElementOfSeq
    <3> QED BY <3>1 DEF InternedAttr
  <2>5. Attributes(r, n + 1) = [j \in 1..Len(attrs) |-> attrs[j]]
    BY ONLY <2>3, <2>4, <1>5, <1>6
  <2>6. attrs = [j \in 1..Len(attrs) |-> attrs[j]]
    OBVIOUS
  <2> QED BY ONLY <2>5, <2>6
<1> QED BY <1>7, <1>8

(***************************************************************************)
(* `insert` of a span not seen before adds its row and leaves what a       *)
(* reader finds in every other as it was.                                  *)
(***************************************************************************)
LEMMA AppendRows ==
  ASSUME NEW t, TraceInv(t), NEW span, SpanOK(span), ~IsDuplicate(t, span),
         NEW svc \in Optional(Nat), NEW attrs \in Seq(InternedAttr)
  PROVE  LET r == AppendSpan(t, span, svc, attrs)
             n == SpanCount(t)
         IN  /\ r.spanIndex = [t.spanIndex EXCEPT ![span.id] = n + 1]
             /\ \A i \in 1..n : RowOf(r, i) = RowOf(t, i)
             /\ RowOf(r, n + 1) = [parent |-> span.parent, body |-> span.body,
                                   service |-> svc, attrs |-> attrs]
<1> DEFINE r == AppendSpan(t, span, svc, attrs)
           n == SpanCount(t)
<1>f. /\ t.body \in Seq(Bodies) /\ t.serviceNameId \in Seq(Optional(Nat)) /\ n \in Nat
      /\ Len(t.body) = n /\ Len(t.serviceNameId) = n /\ span.body \in Bodies
  BY TraceFieldTypes DEF TraceInv, RowsAligned, SpanOK
<1>1. TraceInv(r) /\ Appended(t, span, svc, attrs, r)
  BY AppendColumns
<1> HIDE DEF r
<1>2. /\ r.body = Append(t.body, span.body)
      /\ r.serviceNameId = Append(t.serviceNameId, svc)
      /\ r.spanIndex = [t.spanIndex EXCEPT ![span.id] = n + 1]
  BY <1>1 DEF Appended
<1>3. (\A i \in 1..n : r.body[i] = t.body[i]) /\ r.body[n + 1] = span.body
  BY ONLY <1>2, <1>f, AppendProperties
<1>4. /\ \A i \in 1..n : r.serviceNameId[i] = t.serviceNameId[i]
      /\ r.serviceNameId[n + 1] = svc
  <2>1. svc \in Optional(Nat)
    OBVIOUS
  <2> QED BY ONLY <2>1, <1>2, <1>f, AppendProperties
<1>5. /\ \A i \in 1..n : DeclaredParent(r, i) = DeclaredParent(t, i)
      /\ DeclaredParent(r, n + 1) = span.parent
  BY <1>1, AppendParents
<1>6. /\ \A i \in 1..n : Attributes(r, i) = Attributes(t, i)
      /\ Attributes(r, n + 1) = attrs
  BY <1>1, AppendAttributes
<1>7. \A i \in 1..n : RowOf(r, i) = RowOf(t, i)
  BY ONLY <1>3, <1>4, <1>5, <1>6 DEF RowOf
<1>8. RowOf(r, n + 1) = [parent |-> span.parent, body |-> span.body,
                         service |-> svc, attrs |-> attrs]
  BY ONLY <1>3, <1>4, <1>5, <1>6 DEF RowOf
<1> QED BY <1>2, <1>7, <1>8 DEF r

(***************************************************************************)
(* The table of a trace, row by row.                                       *)
(***************************************************************************)
LEMMA TableRows ==
  ASSUME NEW t, NEW s \in SpanIds
  PROVE  TableOf(t)[s] = IF t.spanIndex[s] = None THEN None ELSE RowOf(t, t.spanIndex[s])
BY DEF TableOf, RowOf

(***************************************************************************)
(* The new time of last activity shows in no row.                          *)
(***************************************************************************)
LEMMA TouchedRows ==
  ASSUME NEW t, TraceInv(t), NEW now \in Nat
  PROVE  LET u == [t EXCEPT !.lastActivity = now]
         IN  /\ TraceInv(u) /\ SpanCount(u) = SpanCount(t) /\ u.spanIndex = t.spanIndex
             /\ \A i \in 1..SpanCount(t) : RowOf(u, i) = RowOf(t, i)
<1> DEFINE u == [t EXCEPT !.lastActivity = now]
<1>t. t \in TraceType /\ RowsAligned(t) /\ IndexInverse(t) /\ SlicesTile(t) /\ LinksExact(t)
  BY DEF TraceInv
<1>1. /\ u \in TraceType
      /\ u.spanIds = t.spanIds /\ u.body = t.body /\ u.serviceNameId = t.serviceNameId
      /\ u.parentIdx = t.parentIdx /\ u.orphan = t.orphan
      /\ u.attrKeys = t.attrKeys /\ u.attrValues = t.attrValues
      /\ u.attrOffsets = t.attrOffsets /\ u.spanIndex = t.spanIndex
      /\ u.pendingChildren = t.pendingChildren
  BY <1>t DEF TraceType
<1> HIDE DEF u
<1>2. SpanCount(u) = SpanCount(t)
  BY <1>1 DEF SpanCount
<1>3. RowsAligned(u) /\ IndexInverse(u) /\ SlicesTile(u)
  BY <1>t, <1>1, <1>2 DEF RowsAligned, IndexInverse, SlicesTile
<1>4. LinksExact(u)
  <2>1. /\ u.orphan = t.orphan /\ u.parentIdx = t.parentIdx
        /\ u.spanIndex = t.spanIndex /\ u.pendingChildren = t.pendingChildren
    BY <1>1
  <2>2. LinksExact(t)
    BY <1>t
  <2> QED BY ONLY <2>1, <2>2, <1>2 DEF LinksExact
<1>5. \A i \in 1..SpanCount(t) : DeclaredParent(u, i) = DeclaredParent(t, i)
  BY ONLY <1>1 DEF DeclaredParent
<1>6. \A i \in 1..SpanCount(t) : Attributes(u, i) = Attributes(t, i)
  BY ONLY <1>1 DEF Attributes, AttributeCount
<1>7. \A i \in 1..SpanCount(t) : RowOf(u, i) = RowOf(t, i)
  BY ONLY <1>1, <1>5, <1>6 DEF RowOf
<1> QED BY <1>1, <1>2, <1>3, <1>4, <1>7 DEF TraceInv, u

EntryFor(known, span, svc, attrs) ==
  [parent |-> IF known = None THEN span.parent ELSE known.parent,
   body |-> span.body, service |-> svc, attrs |-> attrs]

(***************************************************************************)
(* What `insert` does to the trace read as a table: the entry of the span  *)
(* has its contents, under the parent its first arrival declared, and no   *)
(* other entry changes.                                                    *)
(***************************************************************************)
THEOREM InsertTable ==
  ASSUME None \notin RowType,
         NEW t, TraceInv(t), NEW span, SpanOK(span), NEW now \in Nat,
         NEW svc \in Optional(Nat), NEW attrs \in Seq(InternedAttr)
  PROVE  TableOf(Insert(t, span, svc, attrs, now)) =
           [TableOf(t) EXCEPT ![span.id] = EntryFor(TableOf(t)[span.id], span, svc, attrs)]
<1> DEFINE u   == [t EXCEPT !.lastActivity = now]
           r   == Insert(t, span, svc, attrs, now)
           n   == SpanCount(t)
           row == [parent  |-> IF TableOf(t)[span.id] = None THEN span.parent
                               ELSE TableOf(t)[span.id].parent,
                   body |-> span.body, service |-> svc, attrs |-> attrs]
<1>1. /\ TraceInv(u) /\ SpanCount(u) = n /\ u.spanIndex = t.spanIndex
      /\ \A i \in 1..n : RowOf(u, i) = RowOf(t, i)
  BY TouchedRows
<1>2. r = IF IsDuplicate(t, span)
          THEN OverwriteAt(u, t.spanIndex[span.id], span, svc, attrs)
          ELSE AppendSpan(u, span, svc, attrs)
  BY DEF Insert
<1>3. span.id \in SpanIds /\ t.spanIndex \in [SpanIds -> Optional(Nat)] /\ n \in Nat
  BY TraceFieldTypes DEF SpanOK, TraceInv
<1>4. \A s \in SpanIds : t.spanIndex[s] # None => t.spanIndex[s] \in 1..n
  BY DEF TraceInv, IndexInverse
<1>5. \A s \in SpanIds : t.spanIndex[s] # None /\ s # span.id => t.spanIndex[s] # t.spanIndex[span.id]
  BY <1>3 DEF TraceInv, IndexInverse
<1> HIDE DEF u, r
<1>6. ASSUME NEW s \in SpanIds
      PROVE  TableOf(r)[s] = IF s = span.id THEN row ELSE TableOf(t)[s]
  <2>1. CASE IsDuplicate(t, span)
    <3> DEFINE idx == t.spanIndex[span.id]
    <3>1. idx \in 1..SpanCount(u) /\ idx # None
      BY <2>1, <1>1, <1>3, <1>4 DEF IsDuplicate
    <3>2. r = OverwriteAt(u, idx, span, svc, attrs)
      BY <2>1, <1>2
    <3> HIDE DEF idx
    <3>3. /\ r.spanIndex = u.spanIndex
          /\ \A i \in 1..n : RowOf(r, i) =
               IF i = idx
               THEN [parent |-> DeclaredParent(u, idx), body |-> span.body,
                     service |-> svc, attrs |-> attrs]
               ELSE RowOf(u, i)
      BY <3>1, <3>2, <1>1, OverwriteRows
    <3>4. CASE s = span.id
      <4>1. TableOf(r)[s] = RowOf(r, idx)
        BY <3>1, <3>3, <3>4, <1>1, TableRows DEF idx
      <4>2. RowOf(r, idx) = [parent |-> DeclaredParent(u, idx), body |-> span.body,
                             service |-> svc, attrs |-> attrs]
        BY <3>1, <3>3, <1>1
      <4>3. TableOf(t)[span.id] = RowOf(t, idx)
        BY <3>1, <3>4, TableRows DEF idx
      <4>4. RowOf(t, idx) = RowOf(u, idx) /\ RowOf(t, idx) # None
        BY <3>1, <1>1, RowOfType
      <4>5. RowOf(u, idx).parent = DeclaredParent(u, idx)
        BY DEF RowOf
      <4>6. row = [parent |-> DeclaredParent(u, idx), body |-> span.body,
                   service |-> svc, attrs |-> attrs]
        BY ONLY <4>3, <4>4, <4>5
      <4> QED BY ONLY <3>4, <4>1, <4>2, <4>6
    <3>5. CASE s # span.id
      <4>1. CASE t.spanIndex[s] = None
        BY <4>1, <3>3, <3>5, <1>1, TableRows
      <4>2. CASE t.spanIndex[s] # None
        <5>1. t.spanIndex[s] \in 1..n /\ t.spanIndex[s] # idx
          BY <4>2, <3>5, <1>4, <1>5 DEF idx
        <5>2. RowOf(r, t.spanIndex[s]) = RowOf(t, t.spanIndex[s])
          BY <5>1, <3>3, <1>1
        <5>3. TableOf(r)[s] = RowOf(r, t.spanIndex[s]) /\ TableOf(t)[s] = RowOf(t, t.spanIndex[s])
          BY <4>2, <3>3, <1>1, TableRows
        <5> QED BY ONLY <5>2, <5>3, <3>5
      <4> QED BY <4>1, <4>2
    <3> QED BY <3>4, <3>5
  <2>2. CASE ~IsDuplicate(t, span)
    <3>1. ~IsDuplicate(u, span) /\ t.spanIndex[span.id] = None
      BY <2>2, <1>1 DEF IsDuplicate
    <3>2. r = AppendSpan(u, span, svc, attrs)
      BY <2>2, <1>2
    <3>3. /\ r.spanIndex = [u.spanIndex EXCEPT ![span.id] = SpanCount(u) + 1]
          /\ \A i \in 1..SpanCount(u) : RowOf(r, i) = RowOf(u, i)
          /\ RowOf(r, SpanCount(u) + 1) = [parent |-> span.parent, body |-> span.body,
                                           service |-> svc, attrs |-> attrs]
      BY <3>1, <3>2, <1>1, AppendRows
    <3>4. CASE s = span.id
      <4>1. r.spanIndex[s] = n + 1 /\ n + 1 # None
        BY <3>3, <3>4, <1>1, <1>3, NoneAssumption
      <4>2. TableOf(r)[s] = RowOf(r, n + 1)
        BY <4>1, TableRows
      <4>3. TableOf(t)[span.id] = None
        BY <3>1, <3>4, TableRows
      <4>4. row = [parent |-> span.parent, body |-> span.body, service |-> svc, attrs |-> attrs]
        BY ONLY <4>3
      <4> QED BY ONLY <3>3, <3>4, <4>2, <4>4, <1>1
    <3>5. CASE s # span.id
      <4>0. r.spanIndex[s] = t.spanIndex[s]
        BY <3>3, <3>5, <1>1, <1>3
      <4>1. CASE t.spanIndex[s] = None
        BY <4>0, <4>1, <3>5, TableRows
      <4>2. CASE t.spanIndex[s] # None
        <5>1. RowOf(r, t.spanIndex[s]) = RowOf(t, t.spanIndex[s])
          BY <4>2, <3>3, <1>1, <1>4
        <5>2. TableOf(r)[s] = RowOf(r, t.spanIndex[s]) /\ TableOf(t)[s] = RowOf(t, t.spanIndex[s])
          BY <4>0, <4>2, TableRows
        <5> QED BY ONLY <5>1, <5>2, <3>5
      <4> QED BY <4>1, <4>2
    <3> QED BY <3>4, <3>5
  <2> QED BY <2>1, <2>2
<1> HIDE DEF row
<1>7. TableOf(r) = [s \in SpanIds |-> TableOf(r)[s]] /\ TableOf(t) = [s \in SpanIds |-> TableOf(t)[s]]
  BY DEF TableOf
<1>8. TableOf(r) = [TableOf(t) EXCEPT ![span.id] = row]
  BY ONLY <1>6, <1>7
<1> QED BY <1>8 DEF r, row, EntryFor
=============================================================================
