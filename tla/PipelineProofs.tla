--------------------------- MODULE PipelineProofs ---------------------------
(***************************************************************************)
(* The handlers, the channel, the writer and the receiver panel for every  *)
(* set of requests, every content of them, every capacity and every        *)
(* number of retries.                                                      *)
(*                                                                         *)
(* First what the operators give: a sum over a finite set, and the batch   *)
(* `convert` makes of a request.  Then the handlers alone.  Then the       *)
(* pipeline: a step of it is a step of the handlers and of the store, so   *)
(* the invariants of both hold of it, and on top of them its own: the      *)
(* books (CountInv), the panel (PanelInv) and the spans (ReadInv).         *)
(***************************************************************************)
EXTENDS Pipeline, StoreProofs, SequenceTheorems

-----------------------------------------------------------------------------
(* Sums over finite sets.                                                  *)

(***************************************************************************)
(* The range of a sequence with one more element.                          *)
(***************************************************************************)
LEMMA RangeAppend ==
  ASSUME NEW S, NEW s \in Seq(S), NEW e \in S
  PROVE  Range(Append(s, e)) = Range(s) \cup {e}
<1>1. Append(s, e) \in Seq(S)
  OBVIOUS
<1>2. Range(Append(s, e)) = {Append(s, e)[i] : i \in 1..Len(Append(s, e))}
  BY <1>1, RangeEquality
<1>3. Range(s) = {s[i] : i \in 1..Len(s)}
  BY RangeEquality
<1> QED BY <1>2, <1>3


(***************************************************************************)
(* Among the subsets of a finite set with some property one has no proper  *)
(* subset with that property.                                              *)
(***************************************************************************)
LEMMA SmallestSet ==
  ASSUME NEW S, IsFiniteSet(S), NEW K, K \subseteq SUBSET S, K # {}
  PROVE  \E s \in K : \A u \in SUBSET s : u # s => u \notin K
<1> DEFINE f == [s \in K |-> Cardinality(s)]
<1>1. ASSUME NEW s \in K PROVE IsFiniteSet(s) /\ Cardinality(s) \in Nat
  BY FS_Subset, FS_CardinalityType
<1>2. f \in [K -> Nat] /\ \A s \in K : f[s] = Cardinality(s)
  BY <1>1
<1> HIDE DEF f
<1>3. PICK s \in K : \A u \in K : f[s] <= f[u]
  BY <1>2, EarliestExists
<1>4. ASSUME NEW u \in SUBSET s, u # s, u \in K PROVE FALSE
  <2>1. Cardinality(u) < Cardinality(s)
    BY <1>1, <1>4, FS_Subset
  <2>2. Cardinality(s) <= Cardinality(u)
    BY <1>2, <1>3, <1>4
  <2> QED BY <1>1, <1>4, <2>1, <2>2
<1> QED BY <1>4

(***************************************************************************)
(* The sums over the subsets of a set, one element at a time.              *)
(***************************************************************************)
Sums(g, f, S) ==
  g = [s \in SUBSET S |-> IF s = {} THEN 0
                          ELSE LET x == CHOOSE x \in s : TRUE IN f[x] + g[s \ {x}]]

(***************************************************************************)
(* Functions that agree have the same sums.                                *)
(***************************************************************************)
LEMMA SumsAgree ==
  ASSUME NEW S, NEW T, NEW f, NEW h, NEW g1, NEW g2, Sums(g1, f, S), Sums(g2, h, T),
         NEW s, IsFiniteSet(s), s \subseteq S, s \subseteq T, \A x \in s : f[x] = h[x]
  PROVE  g1[s] = g2[s]
<1> DEFINE K == {u \in SUBSET s : g1[u] # g2[u]}
<1>1. SUFFICES ASSUME K # {} PROVE FALSE
  OBVIOUS
<1>2. PICK u \in K : \A v \in SUBSET u : v # u => v \notin K
  <2>1. K \subseteq SUBSET s
    OBVIOUS
  <2> HIDE DEF K
  <2> QED BY <1>1, <2>1, SmallestSet
<1> DEFINE x == CHOOSE x \in u : TRUE
<1>3. /\ g1[u] = IF u = {} THEN 0 ELSE f[x] + g1[u \ {x}]
      /\ g2[u] = IF u = {} THEN 0 ELSE h[x] + g2[u \ {x}]
  BY DEF Sums
<1>4. u # {} => x \in u
  OBVIOUS
<1> HIDE DEF x
<1>5. CASE u = {}
  BY <1>3, <1>5
<1>6. CASE u # {}
  <2>1. u \ {x} \in SUBSET u /\ u \ {x} # u /\ u \ {x} \subseteq s
    BY <1>4, <1>6
  <2>2. g1[u \ {x}] = g2[u \ {x}]
    BY <1>2, <2>1
  <2> QED BY <1>3, <1>4, <1>6, <2>2
<1> QED BY <1>5, <1>6

(***************************************************************************)
(* Every finite set has its sums.                                          *)
(***************************************************************************)
LEMMA SumsExist ==
  ASSUME NEW f, NEW S, IsFiniteSet(S)
  PROVE  \E g : Sums(g, f, S)
<1> DEFINE K == {s \in SUBSET S : ~ \E g : Sums(g, f, s)}
           G(s) == CHOOSE g : Sums(g, f, s)
<1>1. SUFFICES ASSUME K # {} PROVE FALSE
  OBVIOUS
<1>2. PICK s \in K : \A u \in SUBSET s : u # s => u \notin K
  <2>1. K \subseteq SUBSET S
    OBVIOUS
  <2> HIDE DEF K
  <2> QED BY <1>1, <2>1, SmallestSet
<1>3. s \subseteq S /\ ~ \E g : Sums(g, f, s)
  OBVIOUS
<1> DEFINE c == CHOOSE x \in s : TRUE
<1>4. CASE s = {}
  <2> DEFINE g == [u \in SUBSET s |-> 0]
  <2>1. Sums(g, f, s)
    BY <1>4 DEF Sums
  <2> QED BY <1>3, <2>1
<1>5. CASE s # {}
  <2>1. c \in s
    BY <1>5
  <2> HIDE DEF c
  <2>2. PICK h : Sums(h, f, s \ {c})
    <3>1. s \ {c} \in SUBSET s /\ s \ {c} # s /\ s \ {c} \in SUBSET S
      BY <1>3, <2>1
    <3>2. s \ {c} \notin K
      BY <1>2, <3>1
    <3> QED BY <3>1, <3>2
  <2>3. ASSUME NEW u \in SUBSET s, u # s
        PROVE  \E x \in s : u \subseteq s \ {x}
    BY <2>3
  <2>4. ASSUME NEW x \in s PROVE \E g : Sums(g, f, s \ {x})
    <3>1. s \ {x} \in SUBSET s /\ s \ {x} # s /\ s \ {x} \in SUBSET S
      BY <1>3
    <3>2. s \ {x} \notin K
      BY <1>2, <3>1
    <3> QED BY <3>1, <3>2
  <2> DEFINE Part(u) == CHOOSE x \in s : u \subseteq s \ {x}
             Half(x) == CHOOSE g : Sums(g, f, s \ {x})
             Sub(u) == Half(Part(u))[u]
             g == [u \in SUBSET s |-> IF u = s THEN f[c] + Sub(s \ {c}) ELSE Sub(u)]
  <2>5. \A x \in s : Sums(Half(x), f, s \ {x})
    BY <2>4
  <2>6. ASSUME NEW u \in SUBSET s, u # s PROVE Part(u) \in s /\ u \subseteq s \ {Part(u)}
    BY <2>3, <2>6
  <2> HIDE DEF Part, Half
  <2>7. ASSUME NEW u \in SUBSET s, u # s, u # {}
        PROVE  LET x == CHOOSE x \in u : TRUE IN Sub(u) = f[x] + Sub(u \ {x})
    <3> DEFINE x == CHOOSE x \in u : TRUE
               p == Part(u)
               q == Part(u \ {x})
    <3>1. x \in u
      BY <2>7
    <3> HIDE DEF x
    <3>2. u \ {x} \in SUBSET s /\ u \ {x} # s /\ IsFiniteSet(u \ {x})
      BY <2>7, <3>1, <1>3, FS_Subset
    <3>3. /\ p \in s /\ u \subseteq s \ {p} /\ Sums(Half(p), f, s \ {p})
          /\ q \in s /\ u \ {x} \subseteq s \ {q} /\ Sums(Half(q), f, s \ {q})
      BY <2>5, <2>6, <2>7, <3>2
    <3> HIDE DEF p, q
    <3>4. Half(p)[u] = f[x] + Half(p)[u \ {x}]
      BY <3>3, <2>7 DEF Sums, x
    <3>5. Half(p)[u \ {x}] = Half(q)[u \ {x}]
      <4>1. u \ {x} \subseteq s \ {p}
        BY <3>3
      <4> QED BY <4>1, <3>2, <3>3, SumsAgree
    <3> QED BY <3>4, <3>5 DEF p, q, x
  <2> HIDE DEF Sub
  <2>8. ASSUME NEW u \in SUBSET s
        PROVE  g[u] = IF u = {} THEN 0 ELSE LET x == CHOOSE x \in u : TRUE IN f[x] + g[u \ {x}]
    <3>1. CASE u = {}
      <4>1. u # s
        BY <3>1, <1>5
      <4>2. Part(u) \in s /\ u \in SUBSET (s \ {Part(u)})
        BY <2>6, <3>1, <4>1
      <4>3. Sums(Half(Part(u)), f, s \ {Part(u)})
        BY <2>5, <4>2
      <4>4. Half(Part(u))[u] = 0
        BY <3>1, <4>2, <4>3 DEF Sums
      <4>5. Sub(u) = 0
        BY <4>4 DEF Sub
      <4> QED BY <3>1, <4>1, <4>5
    <3>2. CASE u = s
      <4>1. s \ {c} # s /\ s \ {c} \in SUBSET s
        BY <2>1
      <4>2. g[s \ {c}] = Sub(s \ {c})
        BY <4>1
      <4> QED BY <3>2, <4>2, <1>5 DEF c
    <3>3. CASE u # {} /\ u # s
      <4> DEFINE x == CHOOSE x \in u : TRUE
      <4>1. x \in u
        BY <3>3
      <4> HIDE DEF x
      <4>2. u \ {x} \in SUBSET s /\ u \ {x} # s
        BY <3>3, <4>1
      <4>3. g[u] = Sub(u) /\ g[u \ {x}] = Sub(u \ {x})
        BY <3>3, <4>2
      <4> HIDE DEF g
      <4> QED BY <2>7, <3>3, <4>3 DEF x
    <3> QED BY <3>1, <3>2, <3>3
  <2>9. Sums(g, f, s)
    BY <2>8 DEF Sums
  <2> QED BY <1>3, <2>9
<1> QED BY <1>4, <1>5

(***************************************************************************)
(* The sum of the community modules is one of these sums.                  *)
(***************************************************************************)
LEMMA SumIsSums ==
  ASSUME NEW f, NEW S, IsFiniteSet(S)
  PROVE  \E g : Sums(g, f, S) /\ SumFunctionOnSet(f, S) = g[S]
<1>1. SumFunctionOnSet(f, S) = (CHOOSE g : Sums(g, f, S))[S]
  BY DEF SumFunctionOnSet, FoldFunctionOnSet, MapThenFoldSet, Sums
<1> QED BY <1>1, SumsExist

(***************************************************************************)
(* The sum depends on the values in its set only.                          *)
(***************************************************************************)
LEMMA SumSame ==
  ASSUME NEW f, NEW h, NEW S, IsFiniteSet(S), \A x \in S : f[x] = h[x]
  PROVE  SumFunctionOnSet(f, S) = SumFunctionOnSet(h, S)
BY SumIsSums, SumsAgree

(***************************************************************************)
(* The sum over nothing.                                                   *)
(***************************************************************************)
LEMMA SumEmpty == ASSUME NEW f PROVE SumFunctionOnSet(f, {}) = 0
<1>1. PICK g : Sums(g, f, {}) /\ SumFunctionOnSet(f, {}) = g[{}]
  BY SumIsSums, FS_EmptySet
<1>2. {} \in SUBSET {}
  OBVIOUS
<1>3. g[{}] = 0
  BY <1>1, <1>2 DEF Sums
<1> QED BY <1>1, <1>3

(***************************************************************************)
(* Any element can be taken out of a sum.                                  *)
(***************************************************************************)
LEMMA SumRemove ==
  ASSUME NEW f, NEW S, IsFiniteSet(S), \A x \in S : f[x] \in Nat
  PROVE  /\ SumFunctionOnSet(f, S) \in Nat
         /\ \A x \in S : SumFunctionOnSet(f, S) = f[x] + SumFunctionOnSet(f, S \ {x})
<1> DEFINE Sum(s) == SumFunctionOnSet(f, s)
           K == {s \in SUBSET S :
                   ~(Sum(s) \in Nat /\ \A x \in s : Sum(s) = f[x] + Sum(s \ {x}))}
<1>1. SUFFICES ASSUME K # {} PROVE FALSE
  <2>1. S \in SUBSET S /\ S \notin K
    BY <1>1
  <2> QED BY <2>1
<1>2. PICK s \in K : \A u \in SUBSET s : u # s => u \notin K
  <2>1. K \subseteq SUBSET S
    OBVIOUS
  <2> HIDE DEF K
  <2> QED BY <1>1, <2>1, SmallestSet
<1>3. s \subseteq S /\ ~(Sum(s) \in Nat /\ \A x \in s : Sum(s) = f[x] + Sum(s \ {x}))
  OBVIOUS
<1>4. \A u \in SUBSET S : u \notin K =>
        Sum(u) \in Nat /\ \A x \in u : Sum(u) = f[x] + Sum(u \ {x})
  OBVIOUS
<1> HIDE DEF K
<1>5. s # {}
  BY <1>3, SumEmpty
<1> DEFINE c == CHOOSE x \in s : TRUE
<1>6. c \in s
  BY <1>5
<1>7. Sum(s) = f[c] + Sum(s \ {c})
  <2>1. IsFiniteSet(s) /\ IsFiniteSet(s \ {c})
    BY <1>3, FS_Subset
  <2>2. PICK g : Sums(g, f, s) /\ Sum(s) = g[s]
    BY <2>1, SumIsSums
  <2>3. PICK h : Sums(h, f, s \ {c}) /\ Sum(s \ {c}) = h[s \ {c}]
    BY <2>1, SumIsSums
  <2>4. g[s] = f[c] + g[s \ {c}]
    BY <2>2, <1>5 DEF Sums
  <2> HIDE DEF c, Sum
  <2>5. g[s \ {c}] = h[s \ {c}]
    BY <2>1, <2>2, <2>3, SumsAgree
  <2> QED BY <2>2, <2>3, <2>4, <2>5
<1> HIDE DEF c, Sum
<1>8. ASSUME NEW u \in SUBSET s, u # s
      PROVE  /\ Sum(u) \in Nat
             /\ \A x \in u : Sum(u) = f[x] + Sum(u \ {x})
  <2>1. u \in SUBSET S /\ u \notin K
    BY <1>2, <1>3, <1>8
  <2> QED BY <2>1, <1>4
<1>9. \A x \in s : s \ {x} \in SUBSET s /\ s \ {x} # s /\ f[x] \in Nat
  BY <1>3
<1>10. Sum(s) \in Nat
  <2>1. f[c] \in Nat /\ Sum(s \ {c}) \in Nat
    BY <1>6, <1>8, <1>9
  <2> QED BY <2>1, <1>7
<1>11. ASSUME NEW x \in s PROVE Sum(s) = f[x] + Sum(s \ {x})
  <2>1. CASE x = c
    BY <2>1, <1>7
  <2>2. CASE x # c
    <3>1. x \in s \ {c} /\ c \in s \ {x}
      BY <1>6, <2>2
    <3>2. Sum(s \ {c}) = f[x] + Sum((s \ {c}) \ {x})
      BY <1>6, <1>8, <1>9, <3>1
    <3>3. Sum(s \ {x}) = f[c] + Sum((s \ {x}) \ {c})
      BY <1>8, <1>9, <3>1
    <3>4. (s \ {c}) \ {x} = (s \ {x}) \ {c}
      OBVIOUS
    <3>5. Sum((s \ {x}) \ {c}) \in Nat
      <4>1. (s \ {x}) \ {c} \in SUBSET s /\ (s \ {x}) \ {c} # s
        OBVIOUS
      <4> QED BY <4>1, <1>8
    <3>6. f[x] \in Nat /\ f[c] \in Nat
      BY <1>6, <1>9
    <3>7. f[c] + (f[x] + Sum((s \ {x}) \ {c})) = f[x] + (f[c] + Sum((s \ {x}) \ {c}))
      BY <3>5, <3>6
    <3> QED BY <1>7, <3>2, <3>3, <3>4, <3>7
  <2> QED BY <2>1, <2>2
<1> QED BY <1>3, <1>10, <1>11

-----------------------------------------------------------------------------
(* The conversion of a request.                                            *)

(***************************************************************************)
(* A set of natural numbers that is not empty has a smallest one.          *)
(***************************************************************************)
LEMMA SmallestNumber ==
  ASSUME NEW K, K \subseteq Nat, K # {}
  PROVE  \E k \in K : \A l \in K : k <= l
<1> DEFINE id == [k \in K |-> k]
<1>1. id \in [K -> Nat] /\ \A x \in K : id[x] = x
  OBVIOUS
<1> HIDE DEF id
<1>2. \E x \in K : \A y \in K : id[x] <= id[y]
  BY <1>1, EarliestExists
<1> QED BY <1>1, <1>2

(***************************************************************************)
(* What holds before a loop and is kept by each of its rounds holds after  *)
(* each of them.                                                           *)
(***************************************************************************)
LEMMA Rounds ==
  ASSUME NEW n \in Nat, NEW K, 0 \in K, \A i \in 1..n : i - 1 \in K => i \in K
  PROVE  \A i \in 0..n : i \in K
<1> DEFINE Out == {i \in 0..n : i \notin K}
<1>1. SUFFICES ASSUME Out # {} PROVE FALSE
  OBVIOUS
<1>2. PICK k \in Out : \A l \in Out : k <= l
  <2>1. Out \subseteq Nat
    OBVIOUS
  <2> HIDE DEF Out
  <2> QED BY <1>1, <2>1, SmallestNumber
<1>3. k \in 1..n /\ k - 1 \in 0..n /\ ~(k <= k - 1)
  OBVIOUS
<1> QED BY <1>2, <1>3

(***************************************************************************)
(* The loop over the spans of a group, round by round.                     *)
(***************************************************************************)
LEMMA GroupLoopIs ==
  ASSUME NEW batch0, NEW group, Len(group.spans) \in Nat
  PROVE  GroupLoop(batch0, group) =
           [i \in 0..Len(group.spans) |->
              IF i = 0 THEN batch0
              ELSE WithSpan(GroupLoop(batch0, group)[i - 1], group.spans[i], ServiceNameOf(group))]
<1> DEFINE n == Len(group.spans)
           Turn(before, i) == WithSpan(before, group.spans[i], ServiceNameOf(group))
           Loop(g, k) == g = [i \in 0..k |-> IF i = 0 THEN batch0 ELSE Turn(g[i - 1], i)]
           K  == {k \in 0..n : ~ \E g : Loop(g, k)}
<1>1. GroupLoop(batch0, group) = CHOOSE g : Loop(g, n)
  BY DEF GroupLoop
<1>2. SUFFICES \E g : Loop(g, n)
  BY <1>1
<1>3. SUFFICES ASSUME K # {} PROVE FALSE
  OBVIOUS
<1>4. PICK k \in K : \A l \in K : k <= l
  <2>1. K \subseteq Nat
    OBVIOUS
  <2> HIDE DEF K
  <2> QED BY <1>3, <2>1, SmallestNumber
<1>5. k \in 0..n /\ ~ \E g : Loop(g, k)
  OBVIOUS
<1> HIDE DEF n
<1>6. CASE k = 0
  <2> DEFINE g == [i \in 0..k |-> batch0]
  <2>1. Loop(g, k)
    BY <1>6
  <2> QED BY <1>5, <2>1
<1>7. CASE k # 0
  <2>1. k - 1 \in 0..n /\ ~(k <= k - 1)
    BY <1>5, <1>7 DEF n
  <2>2. PICK h : Loop(h, k - 1)
    BY <1>4, <2>1
  <2> DEFINE g == [i \in 0..k |-> IF i = k THEN Turn(h[k - 1], k) ELSE h[i]]
  <2> HIDE DEF Turn
  <2>3. ASSUME NEW i \in 0..k
        PROVE  g[i] = IF i = 0 THEN batch0 ELSE Turn(g[i - 1], i)
    <3>1. CASE i = k
      <4>1. g[i] = Turn(h[k - 1], k) /\ g[k - 1] = h[k - 1]
        BY <3>1, <1>5, <1>7, <2>1
      <4> QED BY <3>1, <4>1, <1>7
    <3>2. CASE i # k
      <4>1. i \in 0..(k - 1) /\ g[i] = h[i]
        BY <3>2, <1>5
      <4>2. h[i] = IF i = 0 THEN batch0 ELSE Turn(h[i - 1], i)
        BY <2>2, <4>1
      <4>3. i # 0 => i - 1 \in 0..k /\ i - 1 # k
        BY <4>1, <1>5
      <4>4. i # 0 => g[i - 1] = h[i - 1]
        BY <4>3
      <4> QED BY <4>1, <4>2, <4>4
    <3> QED BY <3>1, <3>2
  <2>4. Loop(g, k)
    BY <2>3
  <2> QED BY <1>5, <2>4
<1> QED BY <1>6, <1>7

(***************************************************************************)
(* The loop over the groups of a request, round by round.                  *)
(***************************************************************************)
LEMMA RequestLoopIs ==
  ASSUME NEW request, Len(request) \in Nat
  PROVE  RequestLoop(request) =
           [i \in 0..Len(request) |->
              IF i = 0 THEN NoSpans
              ELSE WithGroup(RequestLoop(request)[i - 1], request[i])]
<1> DEFINE n == Len(request)
           Turn(before, i) == WithGroup(before, request[i])
           Loop(g, k) == g = [i \in 0..k |-> IF i = 0 THEN NoSpans ELSE Turn(g[i - 1], i)]
           K  == {k \in 0..n : ~ \E g : Loop(g, k)}
<1>1. RequestLoop(request) = CHOOSE g : Loop(g, n)
  BY DEF RequestLoop
<1>2. SUFFICES \E g : Loop(g, n)
  BY <1>1
<1>3. SUFFICES ASSUME K # {} PROVE FALSE
  OBVIOUS
<1>4. PICK k \in K : \A l \in K : k <= l
  <2>1. K \subseteq Nat
    OBVIOUS
  <2> HIDE DEF K
  <2> QED BY <1>3, <2>1, SmallestNumber
<1>5. k \in 0..n /\ ~ \E g : Loop(g, k)
  OBVIOUS
<1> HIDE DEF n
<1>6. CASE k = 0
  <2> DEFINE g == [i \in 0..k |-> NoSpans]
  <2>1. Loop(g, k)
    BY <1>6
  <2> QED BY <1>5, <2>1
<1>7. CASE k # 0
  <2>1. k - 1 \in 0..n /\ ~(k <= k - 1)
    BY <1>5, <1>7 DEF n
  <2>2. PICK h : Loop(h, k - 1)
    BY <1>4, <2>1
  <2> DEFINE g == [i \in 0..k |-> IF i = k THEN Turn(h[k - 1], k) ELSE h[i]]
  <2> HIDE DEF Turn
  <2>3. ASSUME NEW i \in 0..k
        PROVE  g[i] = IF i = 0 THEN NoSpans ELSE Turn(g[i - 1], i)
    <3>1. CASE i = k
      <4>1. g[i] = Turn(h[k - 1], k) /\ g[k - 1] = h[k - 1]
        BY <3>1, <1>5, <1>7, <2>1
      <4> QED BY <3>1, <4>1, <1>7
    <3>2. CASE i # k
      <4>1. i \in 0..(k - 1) /\ g[i] = h[i]
        BY <3>2, <1>5
      <4>2. h[i] = IF i = 0 THEN NoSpans ELSE Turn(h[i - 1], i)
        BY <2>2, <4>1
      <4>3. i # 0 => i - 1 \in 0..k /\ i - 1 # k
        BY <4>1, <1>5
      <4>4. i # 0 => g[i - 1] = h[i - 1]
        BY <4>3
      <4> QED BY <4>1, <4>2, <4>4
    <3> QED BY <3>1, <3>2
  <2>4. Loop(g, k)
    BY <2>3
  <2> QED BY <1>5, <2>4
<1> QED BY <1>6, <1>7

(***************************************************************************)
(* The spans a group contributes to its batch.                             *)
(***************************************************************************)
KeptOf(group) ==
  {NewSpan(group.spans[k], ServiceNameOf(group)) :
     k \in {x \in 1..Len(group.spans) : ~IsMalformed(group.spans[x])}}

BatchType(S) == [spans : Seq(S), malformed : Nat]

(***************************************************************************)
(* One span of a group: counted as malformed or kept.                      *)
(***************************************************************************)
LEMMA SpanConverted ==
  ASSUME NEW S, NEW b \in BatchType(S), NEW pb, NEW service,
         IsMalformed(pb) \/ NewSpan(pb, service) \in S
  PROVE  LET c == WithSpan(b, pb, service)
         IN  /\ c \in BatchType(S)
             /\ Len(c.spans) + c.malformed = Len(b.spans) + b.malformed + 1
             /\ Range(c.spans) = Range(b.spans)
                                   \cup (IF IsMalformed(pb) THEN {} ELSE {NewSpan(pb, service)})
<1> DEFINE c == WithSpan(b, pb, service)
           e == NewSpan(pb, service)
<1>1. b.spans \in Seq(S) /\ b.malformed \in Nat /\ Len(b.spans) \in Nat
      /\ b = [spans |-> b.spans, malformed |-> b.malformed]
  BY DEF BatchType
<1>2. CASE IsMalformed(pb)
  <2>1. c = [spans |-> b.spans, malformed |-> b.malformed + 1]
    BY <1>1, <1>2 DEF WithSpan
  <2> HIDE DEF c
  <2>2. c \in BatchType(S)
    BY <1>1, <2>1 DEF BatchType
  <2> QED BY <1>1, <1>2, <2>1, <2>2 DEF c
<1>3. CASE ~IsMalformed(pb)
  <2>1. c = [spans |-> Append(b.spans, e), malformed |-> b.malformed]
    BY <1>1, <1>3 DEF WithSpan
  <2>2. e \in S
    BY <1>3
  <2> HIDE DEF c, e
  <2>3. Append(b.spans, e) \in Seq(S) /\ Len(Append(b.spans, e)) = Len(b.spans) + 1
    BY <1>1, <2>2
  <2>4. Range(Append(b.spans, e)) = Range(b.spans) \cup {e}
    BY <1>1, <2>2, RangeAppend
  <2>5. c \in BatchType(S)
    BY <1>1, <2>1, <2>3 DEF BatchType
  <2>6. c.spans = Append(b.spans, e) /\ c.malformed = b.malformed
    BY <2>1
  <2>7. Len(c.spans) + c.malformed = Len(b.spans) + b.malformed + 1
    BY <1>1, <2>3, <2>6
  <2>8. Range(c.spans) = Range(b.spans) \cup (IF IsMalformed(pb) THEN {} ELSE {e})
    BY <1>3, <2>4, <2>6
  <2> QED BY <2>5, <2>7, <2>8 DEF c, e
<1> QED BY <1>2, <1>3

(***************************************************************************)
(* A group contributes its well-formed spans, and every span of it counts  *)
(* as kept or as malformed.                                                *)
(***************************************************************************)
LEMMA GroupConverted ==
  ASSUME NEW S, NEW b \in BatchType(S), NEW group, Len(group.spans) \in Nat,
         KeptOf(group) \subseteq S
  PROVE  LET c == WithGroup(b, group)
         IN  /\ c \in BatchType(S)
             /\ Len(c.spans) + c.malformed = Len(b.spans) + b.malformed + Len(group.spans)
             /\ Range(c.spans) = Range(b.spans) \cup KeptOf(group)
<1> DEFINE n == Len(group.spans)
           f == GroupLoop(b, group)
           KeptUpTo(i) == {NewSpan(group.spans[k], ServiceNameOf(group)) :
                             k \in {x \in 1..i : ~IsMalformed(group.spans[x])}}
           OK(i) == /\ f[i] \in BatchType(S)
                    /\ Len(f[i].spans) + f[i].malformed = Len(b.spans) + b.malformed + i
                    /\ Range(f[i].spans) = Range(b.spans) \cup KeptUpTo(i)
           K == {i \in 0..n : OK(i)}
<1>1. f = [i \in 0..n |-> IF i = 0 THEN b
                         ELSE WithSpan(f[i - 1], group.spans[i], ServiceNameOf(group))]
  BY GroupLoopIs
<1> HIDE DEF f
<1>2. Len(b.spans) \in Nat /\ b.malformed \in Nat
  BY DEF BatchType
<1>3. 0 \in K
  <2>1. f[0] = b
    BY <1>1
  <2>2. KeptUpTo(0) = {}
    OBVIOUS
  <2> QED BY <1>2, <2>1, <2>2
<1>4. ASSUME NEW i \in 1..n, i - 1 \in K PROVE i \in K
  <2>1. f[i] = WithSpan(f[i - 1], group.spans[i], ServiceNameOf(group))
    BY <1>1
  <2> DEFINE e == NewSpan(group.spans[i], ServiceNameOf(group))
  <2>2. IsMalformed(group.spans[i]) \/ e \in S
    BY DEF KeptOf
  <2>3. OK(i - 1)
    BY <1>4
  <2>4. KeptUpTo(i) = KeptUpTo(i - 1) \cup (IF IsMalformed(group.spans[i]) THEN {} ELSE {e})
    <3>1. \A x : x \in 1..i <=> x \in 1..(i - 1) \/ x = i
      OBVIOUS
    <3> QED BY <3>1
  <2> HIDE DEF e, KeptUpTo
  <2>5. /\ f[i] \in BatchType(S)
        /\ Len(f[i].spans) + f[i].malformed = Len(f[i - 1].spans) + f[i - 1].malformed + 1
        /\ Range(f[i].spans) = Range(f[i - 1].spans)
                                 \cup (IF IsMalformed(group.spans[i]) THEN {} ELSE {e})
    <3>1. f[i - 1] \in BatchType(S)
      BY <2>3
    <3> DEFINE p == f[i - 1]
               pb == group.spans[i]
               service == ServiceNameOf(group)
               c == WithSpan(p, pb, service)
    <3>2. p \in BatchType(S) /\ (IsMalformed(pb) \/ NewSpan(pb, service) \in S)
      BY <2>2, <3>1 DEF e
    <3>3. f[i] = c
      BY <2>1
    <3> HIDE DEF p, pb, service
    <3>4. /\ c \in BatchType(S)
          /\ Len(c.spans) + c.malformed = Len(p.spans) + p.malformed + 1
          /\ Range(c.spans) = Range(p.spans)
                                 \cup (IF IsMalformed(pb) THEN {} ELSE {NewSpan(pb, service)})
      BY ONLY <3>2, SpanConverted, SMTT(30)
    <3> HIDE DEF c
    <3> QED BY ONLY <3>3, <3>4 DEF p, pb, service, e
  <2>6. Len(f[i].spans) + f[i].malformed = Len(b.spans) + b.malformed + i
    BY <1>2, <2>3, <2>5
  <2>7. Range(f[i].spans) = Range(b.spans) \cup KeptUpTo(i)
    BY <2>3, <2>4, <2>5
  <2> QED BY <2>5, <2>6, <2>7
<1>5. OK(n)
  <2> HIDE DEF K
  <2>1. \A i \in 1..n : i - 1 \in K => i \in K
    BY <1>4
  <2>2. n \in Nat /\ n \in 0..n
    OBVIOUS
  <2>3. n \in K
    BY ONLY <1>3, <2>1, <2>2, Rounds
  <2> QED BY <2>3 DEF K
<1>6. WithGroup(b, group) = f[n]
  BY DEF WithGroup, f
<1>7. KeptUpTo(n) = KeptOf(group)
  BY DEF KeptOf
<1> QED BY <1>5, <1>6, <1>7

AllKept(request) == UNION {KeptOf(request[g]) : g \in 1..Len(request)}

(***************************************************************************)
(* A request contributes the well-formed spans of all its groups, and      *)
(* every span of it counts as kept or as malformed.                        *)
(***************************************************************************)
LEMMA RequestConverted ==
  ASSUME NEW request, Len(request) \in Nat,
         \A g \in 1..Len(request) : Len(request[g].spans) \in Nat
  PROVE  LET c == RequestLoop(request)[Len(request)]
             h == [g \in 1..Len(request) |-> Len(request[g].spans)]
         IN  /\ c \in BatchType(AllKept(request))
             /\ Len(c.spans) + c.malformed = SumFunctionOnSet(h, 1..Len(request))
             /\ Range(c.spans) = AllKept(request)
<1> DEFINE n == Len(request)
           S == AllKept(request)
           h == [g \in 1..n |-> Len(request[g].spans)]
           f == RequestLoop(request)
           Sum(i) == SumFunctionOnSet(h, 1..i)
           UpTo(i) == UNION {KeptOf(request[g]) : g \in 1..i}
           OK(i) == /\ f[i] \in BatchType(S)
                    /\ Len(f[i].spans) + f[i].malformed = Sum(i)
                    /\ Range(f[i].spans) = UpTo(i)
           K == {i \in 0..n : OK(i)}
<1>1. f = [i \in 0..n |-> IF i = 0 THEN NoSpans ELSE WithGroup(f[i - 1], request[i])]
  BY RequestLoopIs
<1>2. n \in Nat /\ \A g \in 1..n : h[g] \in Nat /\ h[g] = Len(request[g].spans)
  OBVIOUS
<1>3. \A g \in 1..n : KeptOf(request[g]) \subseteq S
  BY DEF AllKept
<1>4. UpTo(n) = S
  BY DEF AllKept
<1>5. \A i \in 0..n : f[i] = IF i = 0 THEN NoSpans ELSE WithGroup(f[i - 1], request[i])
  BY <1>1
<1> HIDE DEF f, S, h, n, Sum, UpTo
<1>6. 0 \in K
  <2>1. 0 \in 0..n /\ f[0] = NoSpans
    BY <1>2, <1>5
  <2>2. NoSpans \in BatchType(S) /\ Len(NoSpans.spans) + NoSpans.malformed = 0
    <3>1. <<>> \in Seq(S)
      OBVIOUS
    <3> QED BY <3>1 DEF NoSpans, BatchType
  <2>3. Range(NoSpans.spans) = {}
    BY DEF NoSpans, Range
  <2>4. Sum(0) = 0
    <3>1. 1..0 = {}
      OBVIOUS
    <3> QED BY <3>1, SumEmpty DEF Sum
  <2>5. UpTo(0) = {}
    BY DEF UpTo
  <2> QED BY <2>1, <2>2, <2>3, <2>4, <2>5
<1>7. ASSUME NEW i \in 1..n, i - 1 \in K PROVE i \in K
  <2> DEFINE p == f[i - 1]
             c == WithGroup(p, request[i])
  <2>1. OK(i - 1) /\ i \in 0..n /\ i # 0
    BY <1>2, <1>7
  <2>2. f[i] = c /\ p \in BatchType(S)
    BY <1>5, <2>1
  <2>3. Len(p.spans) + p.malformed = Sum(i - 1) /\ Range(p.spans) = UpTo(i - 1)
    BY <2>1
  <2>4. Len(request[i].spans) \in Nat /\ KeptOf(request[i]) \subseteq S
    BY <1>2, <1>3
  <2> HIDE DEF p
  <2>5. /\ c \in BatchType(S)
        /\ Len(c.spans) + c.malformed = Len(p.spans) + p.malformed + Len(request[i].spans)
        /\ Range(c.spans) = Range(p.spans) \cup KeptOf(request[i])
    <3> DEFINE group == request[i]
    <3>1. p \in BatchType(S) /\ Len(group.spans) \in Nat /\ KeptOf(group) \subseteq S
      BY <2>2, <2>4
    <3> HIDE DEF group
    <3>2. LET d == WithGroup(p, group)
          IN  /\ d \in BatchType(S)
              /\ Len(d.spans) + d.malformed = Len(p.spans) + p.malformed + Len(group.spans)
              /\ Range(d.spans) = Range(p.spans) \cup KeptOf(group)
      BY ONLY <3>1, GroupConverted
    <3> QED BY ONLY <3>2 DEF group
  <2>6. Sum(i) = h[i] + Sum(i - 1) /\ Sum(i - 1) \in Nat
    <3>1. ASSUME NEW m \in Nat, m <= n
          PROVE  IsFiniteSet(1..m) /\ \A x \in 1..m : h[x] \in Nat
      <4>1. IsFiniteSet(1..m)
        BY FS_Interval
      <4> QED BY <4>1, <1>2, <3>1
    <3>2. i \in Nat /\ i <= n /\ i - 1 \in Nat /\ i - 1 <= n /\ i \in 1..i
      BY <1>2
    <3>3. SumFunctionOnSet(h, 1..i) = h[i] + SumFunctionOnSet(h, (1..i) \ {i})
      BY <3>1, <3>2, SumRemove
    <3>4. (1..i) \ {i} = 1..(i - 1)
      BY <3>2
    <3>5. SumFunctionOnSet(h, 1..(i - 1)) \in Nat
      BY <3>1, <3>2, SumRemove
    <3> QED BY <3>3, <3>4, <3>5 DEF Sum
  <2>7. UpTo(i) = UpTo(i - 1) \cup KeptOf(request[i])
    <3>1. \A x : x \in 1..i <=> x \in 1..(i - 1) \/ x = i
      BY <1>2
    <3> QED BY <3>1 DEF UpTo
  <2>8. Len(c.spans) + c.malformed = Sum(i)
    BY <1>2, <2>3, <2>5, <2>6
  <2> HIDE DEF c
  <2> QED BY <2>1, <2>2, <2>3, <2>5, <2>7, <2>8
<1>8. n \in K
  <2>1. \A i \in 1..n : i - 1 \in K => i \in K
    BY <1>7
  <2> HIDE DEF K
  <2>2. \A i \in 0..n : i \in K
    BY ONLY <1>2, <1>6, <2>1, Rounds
  <2> QED BY <1>2, <2>2
<1>9. OK(n)
  BY <1>8
<1> QED BY <1>4, <1>9 DEF f, S, n, h, Sum

(***************************************************************************)
(* What comes out of `convert` without an error.                           *)
(***************************************************************************)
LEMMA BatchConverted ==
  ASSUME NEW r \in Requests, Decoded[r] # None, BatchOf(r) # EmptyPayload
  PROVE  /\ BatchOf(r) \in BatchType(AllKept(Decoded[r]))
         /\ Len(BatchOf(r).spans) \in Nat /\ BatchOf(r).malformed \in Nat
         /\ Len(BatchOf(r).spans) + BatchOf(r).malformed = SpansSent(r)
         /\ Range(BatchOf(r).spans) = AllKept(Decoded[r])
<1>1. BatchOf(r) = ConvertRequest(Decoded[r])
  BY DEF BatchOf, Converted, Decodable
<1>2. BatchOf(r) = RequestLoop(Decoded[r])[Len(Decoded[r])]
  BY <1>1 DEF ConvertRequest
<1>3. /\ Len(Decoded[r]) \in Nat
      /\ \A g \in 1..Len(Decoded[r]) : Len(Decoded[r][g].spans) \in Nat
  BY DecodedAssumption
<1>4. /\ BatchOf(r) \in BatchType(AllKept(Decoded[r]))
      /\ Len(BatchOf(r).spans) + BatchOf(r).malformed = SpansSent(r)
      /\ Range(BatchOf(r).spans) = AllKept(Decoded[r])
  BY <1>2, <1>3, RequestConverted DEF SpansSent
<1>5. Len(BatchOf(r).spans) \in Nat /\ BatchOf(r).malformed \in Nat
  BY <1>4 DEF BatchType
<1> QED BY <1>4, <1>5

(***************************************************************************)
(* The number of spans in a batch.                                         *)
(***************************************************************************)
LEMMA BatchIsBatch ==
  ASSUME NEW r \in Requests, Decoded[r] # None, BatchOf(r) # EmptyPayload
  PROVE  Len(BatchOf(r).spans) \in Nat
BY BatchConverted

-----------------------------------------------------------------------------

(***************************************************************************)
(* The handlers alone.  IngestInv follows a batch on its way: from the     *)
(* line of waiters, where a handler can still be cancelled, into the       *)
(* channel, the writer's hands and the store, or to its loss.  A batch is  *)
(* in one of these places from the moment it is sent, and what was         *)
(* acknowledged before it came to its send is ahead of it in all of them.  *)
(***************************************************************************)

(***************************************************************************)
(* The line of waiters: nobody twice, and exactly the handlers in `send`.  *)
(***************************************************************************)
InLine(w, at) ==
  /\ \A i, j \in 1..Len(w) : w[i] = w[j] => i = j
  /\ \A r \in Requests : at[r] = "sending" <=> \E i \in 1..Len(w) : w[i] = r

WaitLine == InLine(waiters, handler)

CountedOnce(w, at) ==
  \A r \in Requests :
    Cardinality({i \in 1..Len(w) : w[i] = r}) = (IF at[r] = "sending" THEN 1 ELSE 0)

\* What gets as far as the channel has been converted.
Convertible ==
  \A r \in Requests :
    handler[r] = "sending" \/ r \in Delivered => Decoded[r] # None /\ BatchOf(r) # EmptyPayload

(***************************************************************************)
(* A batch on its way is in the channel, in the writer's hands, applied or *)
(* lost, in one of them and there once.                                    *)
(***************************************************************************)
OnePlace ==
  /\ \A i, j \in 1..Len(queue) : queue[i] = queue[j] => i = j
  /\ \A i, j \in 1..Len(applied) : applied[i] = applied[j] => i = j
  /\ Range(queue) \cap (Held \cup Range(applied) \cup lost) = {}
  /\ Held \cap (Range(applied) \cup lost) = {}
  /\ Range(applied) \cap lost = {}
  /\ IsFiniteSet(lost)
  /\ Delivered = Range(queue) \cup Held \cup Range(applied) \cup lost

(***************************************************************************)
(* Whatever was acknowledged before a request came to its send is ahead of *)
(* it, on the whole way from the channel to the store.                     *)
(***************************************************************************)
AckedAhead ==
  /\ \A r \in Requests : ackedBefore[r] \subseteq Acknowledged
  /\ \A i, j \in 1..Len(queue) : queue[i] \in ackedBefore[queue[j]] => i < j
  /\ \A r \in Held : ackedBefore[r] \cap (Range(queue) \cup Held) = {}
  /\ \A r \in Range(applied) : ackedBefore[r] \cap (Range(queue) \cup Held) = {}

IngestInv == IngestTypeOK /\ WaitLine /\ Convertible /\ OnePlace /\ AckedAhead /\ AckOrderKept

-----------------------------------------------------------------------------

(***************************************************************************)
(* The range of a sequence is its head and the range of its tail.          *)
(***************************************************************************)
LEMMA RangeTail ==
  ASSUME NEW S, NEW s \in Seq(S), s # <<>>
  PROVE  Range(s) = {Head(s)} \cup Range(Tail(s))
<1>1. /\ Tail(s) \in Seq(S) /\ Len(Tail(s)) = Len(s) - 1 /\ Len(s) \in Nat \ {0}
      /\ \A i \in 1..Len(Tail(s)) : Tail(s)[i] = s[i + 1]
      /\ Head(s) = s[1]
  BY HeadTailProperties
<1>2. Range(Tail(s)) = {Tail(s)[i] : i \in 1..Len(Tail(s))}
  BY <1>1, RangeEquality
<1>3. Range(s) = {s[i] : i \in 1..Len(s)}
  BY RangeEquality
<1>4. \A i \in 1..Len(s) : s[i] \in {Head(s)} \cup Range(Tail(s))
  <2> SUFFICES ASSUME NEW i \in 1..Len(s), i # 1 PROVE s[i] \in Range(Tail(s))
    BY <1>1
  <2>1. i - 1 \in 1..Len(Tail(s)) /\ s[i] = Tail(s)[i - 1]
    BY <1>1
  <2> QED BY <2>1, <1>2
<1>5. \A i \in 1..Len(Tail(s)) : Tail(s)[i] \in Range(s)
  <2> TAKE i \in 1..Len(Tail(s))
  <2>1. i + 1 \in 1..Len(s) /\ Tail(s)[i] = s[i + 1]
    BY <1>1
  <2> QED BY <2>1, <1>3
<1>6. Head(s) \in Range(s)
  BY <1>1, <1>3
<1> QED BY <1>2, <1>3, <1>4, <1>5, <1>6

(***************************************************************************)
(* A sequence without repetitions does not have its head in its tail.      *)
(***************************************************************************)
LEMMA TailOnce ==
  ASSUME NEW S, NEW s \in Seq(S), s # <<>>,
         \A i, j \in 1..Len(s) : s[i] = s[j] => i = j
  PROVE  /\ Head(s) \notin Range(Tail(s))
         /\ \A i, j \in 1..Len(Tail(s)) : Tail(s)[i] = Tail(s)[j] => i = j
<1>1. /\ Tail(s) \in Seq(S) /\ Len(Tail(s)) = Len(s) - 1 /\ Len(s) \in Nat \ {0}
      /\ \A i \in 1..Len(Tail(s)) : Tail(s)[i] = s[i + 1]
      /\ Head(s) = s[1]
  BY HeadTailProperties
<1>2. Range(Tail(s)) = {Tail(s)[i] : i \in 1..Len(Tail(s))}
  <2>1. Tail(s) \in Seq(S)
    BY <1>1
  <2> QED BY ONLY <2>1, RangeEquality
<1>3. \A i \in 1..Len(Tail(s)) : i + 1 \in 1..Len(s) /\ i + 1 # 1
  BY <1>1
<1>4. Head(s) \notin Range(Tail(s))
  <2> SUFFICES ASSUME NEW i \in 1..Len(Tail(s)), Tail(s)[i] = Head(s) PROVE FALSE
    BY <1>2
  <2>1. s[i + 1] = s[1] /\ i + 1 \in 1..Len(s) /\ 1 \in 1..Len(s) /\ i + 1 # 1
    BY <1>1, <1>3
  <2> QED BY <2>1
<1>5. \A i, j \in 1..Len(Tail(s)) : Tail(s)[i] = Tail(s)[j] => i = j
  <2> SUFFICES ASSUME NEW i \in 1..Len(Tail(s)), NEW j \in 1..Len(Tail(s)),
                      Tail(s)[i] = Tail(s)[j]
               PROVE  i = j
    OBVIOUS
  <2>1. s[i + 1] = s[j + 1] /\ i + 1 \in 1..Len(s) /\ j + 1 \in 1..Len(s)
    BY <1>1, <1>3
  <2>2. i + 1 = j + 1
    BY <2>1
  <2> QED BY <2>2
<1> QED BY <1>4, <1>5


(***************************************************************************)
(* A sequence without repetitions has as many elements as places.          *)
(***************************************************************************)
LEMMA LenOfOnce ==
  ASSUME NEW S, NEW s \in Seq(S), \A i, j \in 1..Len(s) : s[i] = s[j] => i = j
  PROVE  IsFiniteSet(Range(s)) /\ Cardinality(Range(s)) = Len(s)
<1>1. Range(s) = {s[i] : i \in 1..Len(s)} /\ Len(s) \in Nat
  BY RangeEquality
<1>2. IsFiniteSet(1..Len(s)) /\ Cardinality(1..Len(s)) = Len(s)
  <2>1. ASSUME NEW n \in Nat PROVE IsFiniteSet(1..n) /\ Cardinality(1..n) = n
    <3>1. Cardinality(1..n) = IF 1 > n THEN 0 ELSE n - 1 + 1
      BY FS_Interval
    <3>2. IsFiniteSet(1..n)
      BY FS_Interval
    <3> QED BY <3>1, <3>2
  <2> QED BY <1>1, <2>1
<1>3. s \in [1..Len(s) -> Range(s)]
  BY <1>1
<1>4. s \in Bijection(1..Len(s), Range(s))
  BY <1>1, <1>3 DEF Bijection, Injection, Surjection, IsInjective
<1>5. ExistsBijection(1..Len(s), Range(s))
  BY <1>4 DEF ExistsBijection
<1> QED BY <1>2, <1>5, FS_Bijection

(***************************************************************************)
(* Without takes out the one place where the element is.                   *)
(***************************************************************************)
LEMMA WithoutOnce ==
  ASSUME NEW S, NEW s \in Seq(S), NEW k \in 1..Len(s),
         \A i, j \in 1..Len(s) : s[i] = s[j] => i = j
  PROVE  /\ Without(s, s[k]) \in Seq(S)
         /\ Len(Without(s, s[k])) = Len(s) - 1
         /\ \A j \in 1..(Len(s) - 1) : Without(s, s[k])[j] = IF j < k THEN s[j] ELSE s[j + 1]
<1>1. (CHOOSE i \in 1..Len(s) : s[i] = s[k]) = k
  OBVIOUS
<1>2. Without(s, s[k]) = SubSeq(s, 1, k - 1) \o SubSeq(s, k + 1, Len(s))
  BY <1>1 DEF Without, RemoveAt
<1>3. Len(s) \in Nat /\ k \in Nat /\ 1 <= k /\ k <= Len(s)
  OBVIOUS
<1> DEFINE a == SubSeq(s, 1, k - 1)
           b == SubSeq(s, k + 1, Len(s))
<1>4. /\ a \in Seq(S) /\ Len(a) = k - 1
      /\ \A i \in 1..(k - 1) : a[i] = s[i]
  BY <1>3
<1>5. /\ b \in Seq(S) /\ Len(b) = Len(s) - k
      /\ \A i \in 1..(Len(s) - k) : b[i] = s[k + i]
  BY <1>3
<1> HIDE DEF a, b
<1>6. /\ a \o b \in Seq(S) /\ Len(a \o b) = Len(s) - 1
      /\ \A j \in 1..(Len(s) - 1) : (a \o b)[j] = IF j < k THEN a[j] ELSE b[j - (k - 1)]
  BY <1>3, <1>4, <1>5
<1>7. \A j \in 1..(Len(s) - 1) : (a \o b)[j] = IF j < k THEN s[j] ELSE s[j + 1]
  <2> SUFFICES ASSUME NEW j \in 1..(Len(s) - 1)
               PROVE  (a \o b)[j] = IF j < k THEN s[j] ELSE s[j + 1]
    OBVIOUS
  <2>1. CASE j < k
    BY <2>1, <1>3, <1>4, <1>6
  <2>2. CASE ~(j < k)
    <3>1. j - (k - 1) \in 1..(Len(s) - k) /\ k + (j - (k - 1)) = j + 1
      BY <2>2, <1>3
    <3>2. b[j - (k - 1)] = s[j + 1]
      BY <3>1, <1>5
    <3> QED BY <2>2, <3>2, <1>6
  <2> QED BY <2>1, <2>2
<1> QED BY <1>2, <1>6, <1>7 DEF a, b

(***************************************************************************)
(* A handler in line is counted once, any other not at all.                *)
(***************************************************************************)
LEMMA WaitersCounted ==
  ASSUME NEW w, NEW at, InLine(w, at)
  PROVE  CountedOnce(w, at)
<1> USE DEF InLine, CountedOnce
<1> SUFFICES ASSUME NEW r \in Requests
             PROVE  Cardinality({i \in 1..Len(w) : w[i] = r})
                      = (IF at[r] = "sending" THEN 1 ELSE 0)
  OBVIOUS
<1>1. CASE at[r] = "sending"
  <2>1. PICK k \in 1..Len(w) : w[k] = r
    BY <1>1
  <2>2. {i \in 1..Len(w) : w[i] = r} = {k}
    BY <2>1
  <2>3. Cardinality({k}) = 1
    BY FS_Singleton
  <2> QED BY <1>1, <2>2, <2>3
<1>2. CASE at[r] # "sending"
  <2>1. {i \in 1..Len(w) : w[i] = r} = {}
    BY <1>2
  <2> QED BY <1>2, <2>1, FS_EmptySet
<1> QED BY <1>1, <1>2

-----------------------------------------------------------------------------

(***************************************************************************)
(* Before the first request everything is empty.                           *)
(***************************************************************************)
LEMMA InitIngest == IngestInit => IngestInv
<1> SUFFICES ASSUME IngestInit PROVE IngestInv
  OBVIOUS
<1>0. /\ None \notin Requests /\ Capacity \in Nat
      /\ Len(waiters) = 0 /\ Len(queue) = 0 /\ Len(applied) = 0
      /\ Range(queue) = {} /\ Range(applied) = {} /\ Held = {} /\ lost = {}
  BY IngestAssumption DEF IngestInit, Range, Held
<1>1. \A r \in Requests : handler[r] = "idle" /\ response[r] = None /\ ackedBefore[r] = {}
  BY DEF IngestInit
<1>2. WaitLine
  BY <1>0, <1>1 DEF WaitLine, InLine
<1>3. IngestTypeOK
  <2>1. <<>> \in Seq(Requests) /\ <<>> \in Seq(RejectRecord)
    OBVIOUS
  <2>2. WaitersOnce
    <3>1. CountedOnce(waiters, handler)
      BY <1>2, WaitersCounted DEF WaitLine
    <3> QED BY <3>1 DEF CountedOnce, WaitersOnce
  <2> QED BY <2>1, <2>2, <1>0 DEF IngestInit, IngestTypeOK, Optional
<1>4. Convertible
  BY <1>1 DEF Convertible, Delivered
<1>5. OnePlace
  <2>1. Delivered = {}
    BY <1>1 DEF Delivered
  <2>2. IsFiniteSet(lost)
    BY <1>0, FS_EmptySet
  <2> QED BY <2>1, <2>2, <1>0 DEF OnePlace
<1>6. AckedAhead /\ AckOrderKept
  BY <1>0, <1>1 DEF AckedAhead, AckOrderKept
<1> QED BY <1>2, <1>3, <1>4, <1>5, <1>6 DEF IngestInv

(***************************************************************************)
(* A step of a handler after which the same batches are on their way.      *)
(***************************************************************************)
LEMMA OnTheWayKept ==
  ASSUME IngestInv, UNCHANGED <<queue, deliveryVars>>, Delivered' = Delivered,
         Acknowledged \subseteq Acknowledged',
         \A q \in Delivered : ackedBefore'[q] = ackedBefore[q],
         \A q \in Requests : ackedBefore'[q] \subseteq Acknowledged'
  PROVE  OnePlace' /\ AckedAhead' /\ AckOrderKept'
<1>1. /\ OnePlace /\ AckedAhead /\ AckOrderKept
      /\ UNCHANGED <<queue, writer, applied, lost>>
      /\ queue \in Seq(Requests) /\ applied \in Seq(Requests)
  BY DEF IngestInv, IngestTypeOK, deliveryVars
<1>2. Range(queue)' = Range(queue) /\ Range(applied)' = Range(applied) /\ Held' = Held
  BY <1>1 DEF Held
<1>3. /\ \A i \in 1..Len(queue) : queue[i] \in Delivered
      /\ \A i \in 1..Len(applied) : applied[i] \in Delivered
      /\ Held \subseteq Delivered /\ Range(applied) \subseteq Delivered
  <2>1. Range(queue) = {queue[i] : i \in 1..Len(queue)}
    BY <1>1, RangeEquality
  <2>2. Range(applied) = {applied[i] : i \in 1..Len(applied)}
    BY <1>1, RangeEquality
  <2> QED BY <1>1, <2>1, <2>2 DEF OnePlace
<1>4. OnePlace'
  BY <1>1, <1>2 DEF OnePlace
<1>5. AckedAhead'
  BY <1>1, <1>2, <1>3 DEF AckedAhead
<1>6. AckOrderKept'
  BY <1>1, <1>3 DEF AckOrderKept
<1> QED BY <1>4, <1>5, <1>6

(***************************************************************************)
(* A handler that has not sent its batch moves on without sending it.      *)
(***************************************************************************)
LEMMA NotSentInv ==
  ASSUME IngestInv, NEW r \in Requests, r \notin Delivered, UNCHANGED <<queue, deliveryVars>>,
         NEW x \in {"received", "sending", "answered"}, handler' = [handler EXCEPT ![r] = x],
         NEW y, response' = [response EXCEPT ![r] = y], x = "answered" => y # "ok",
         UNCHANGED ackedBefore \/ ackedBefore' = [ackedBefore EXCEPT ![r] = Acknowledged]
  PROVE  OnePlace' /\ AckedAhead' /\ AckOrderKept'
<1>1. /\ handler \in [Requests -> {"idle", "received", "sending", "sent", "answered"}]
      /\ response \in [Requests -> Optional(Answers)]
      /\ ackedBefore \in [Requests -> SUBSET Requests]
  BY DEF IngestInv, IngestTypeOK
<1>2. /\ \A q \in Requests : q # r => handler'[q] = handler[q] /\ response'[q] = response[q]
      /\ handler'[r] = x /\ response'[r] = y
  BY <1>1
<1>3. Delivered' = Delivered
  BY <1>2 DEF Delivered
<1>4. Acknowledged' = Acknowledged
  BY <1>2 DEF Acknowledged, Delivered
<1>5. \A q \in Requests : ackedBefore[q] \subseteq Acknowledged
  BY DEF IngestInv, AckedAhead
<1>6. \A q \in Requests : ackedBefore'[q] \subseteq Acknowledged'
  BY <1>1, <1>4, <1>5
<1>7. \A q \in Delivered : ackedBefore'[q] = ackedBefore[q]
  BY <1>1 DEF Delivered
<1> QED BY <1>3, <1>4, <1>6, <1>7, OnTheWayKept

(***************************************************************************)
(* Nobody joins or leaves the line.                                        *)
(***************************************************************************)
LEMMA LineKept ==
  ASSUME IngestInv, UNCHANGED waiters,
         \A q \in Requests : handler'[q] = "sending" <=> handler[q] = "sending"
  PROVE  WaitLine' /\ WaitersOnce'
<1>1. WaitLine'
  BY DEF IngestInv, WaitLine, InLine
<1>2. waiters' \in Seq(Requests)
  BY DEF IngestInv, IngestTypeOK
<1>3. WaitersOnce'
  <2>1. CountedOnce(waiters', handler')
    BY <1>1, WaitersCounted DEF WaitLine
  <2> QED BY <2>1 DEF CountedOnce, WaitersOnce
<1> QED BY <1>1, <1>3

(***************************************************************************)
(* A handler asks the channel for a permit: it is last in line.            *)
(***************************************************************************)
LEMMA LineJoined ==
  ASSUME IngestInv, NEW r \in Requests, handler[r] # "sending",
         waiters' = Append(waiters, r), handler' = [handler EXCEPT ![r] = "sending"]
  PROVE  waiters' \in Seq(Requests) /\ WaitLine' /\ WaitersOnce'
<1>1. /\ handler \in [Requests -> {"idle", "received", "sending", "sent", "answered"}]
      /\ waiters \in Seq(Requests) /\ WaitLine
  BY DEF IngestInv, IngestTypeOK
<1>2. /\ waiters' \in Seq(Requests) /\ Len(waiters) \in Nat
      /\ Len(waiters') = Len(waiters) + 1
      /\ \A i \in 1..Len(waiters) : waiters'[i] = waiters[i]
      /\ waiters'[Len(waiters) + 1] = r
  BY <1>1
<1>3. \A i \in 1..Len(waiters) : waiters[i] # r
  BY <1>1 DEF WaitLine, InLine
<1>4. \A i, j \in 1..Len(waiters') : waiters'[i] = waiters'[j] => i = j
  <2> SUFFICES ASSUME NEW i \in 1..Len(waiters'), NEW j \in 1..Len(waiters'),
                      waiters'[i] = waiters'[j]
               PROVE  i = j
    OBVIOUS
  <2>1. i \in 1..Len(waiters) \/ i = Len(waiters) + 1
    BY <1>2
  <2>2. j \in 1..Len(waiters) \/ j = Len(waiters) + 1
    BY <1>2
  <2> QED BY <2>1, <2>2, <1>1, <1>2, <1>3 DEF WaitLine, InLine
<1>5. \A q \in Requests : handler'[q] = "sending" <=> \E i \in 1..Len(waiters') : waiters'[i] = q
  <2> TAKE q \in Requests
  <2>1. CASE q = r
    <3>1. handler'[q] = "sending" /\ Len(waiters) + 1 \in 1..Len(waiters')
      BY <2>1, <1>1, <1>2
    <3> QED BY <3>1, <2>1, <1>2
  <2>2. CASE q # r
    <3>1. handler'[q] = handler[q]
      BY <2>2, <1>1
    <3>2. \A i \in 1..Len(waiters') : waiters'[i] = q => i \in 1..Len(waiters)
      BY <2>2, <1>2
    <3>3. 1..Len(waiters) \subseteq 1..Len(waiters')
      BY <1>2
    <3> QED BY <3>1, <3>2, <3>3, <1>1, <1>2 DEF WaitLine, InLine
  <2> QED BY <2>1, <2>2
<1>6. WaitersOnce'
  <2>1. InLine(waiters', handler')
    BY <1>4, <1>5 DEF InLine
  <2>2. CountedOnce(waiters', handler')
    BY <2>1, WaitersCounted
  <2> QED BY <2>2 DEF CountedOnce, WaitersOnce
<1> QED BY <1>2, <1>4, <1>5, <1>6 DEF WaitLine, InLine

(***************************************************************************)
(* A handler leaves the line, from wherever it is.                         *)
(***************************************************************************)
LEMMA LineLeft ==
  ASSUME IngestInv, NEW r \in Requests, handler[r] = "sending", waiters' = Without(waiters, r),
         NEW x, x # "sending", handler' = [handler EXCEPT ![r] = x]
  PROVE  waiters' \in Seq(Requests) /\ WaitLine' /\ WaitersOnce'
<1>1. /\ handler \in [Requests -> {"idle", "received", "sending", "sent", "answered"}]
      /\ waiters \in Seq(Requests) /\ WaitLine
  BY DEF IngestInv, IngestTypeOK
<1>2. PICK k \in 1..Len(waiters) : waiters[k] = r
  BY <1>1 DEF WaitLine, InLine
<1>3. /\ waiters' \in Seq(Requests) /\ Len(waiters') = Len(waiters) - 1
      /\ \A j \in 1..(Len(waiters) - 1) :
           waiters'[j] = IF j < k THEN waiters[j] ELSE waiters[j + 1]
  <2>1. waiters \in Seq(Requests) /\ \A i, j \in 1..Len(waiters) : waiters[i] = waiters[j] => i = j
    BY <1>1 DEF WaitLine, InLine
  <2>2. waiters' = Without(waiters, waiters[k])
    BY <1>2
  <2> QED BY ONLY <2>1, <2>2, k \in 1..Len(waiters), WithoutOnce
<1>4. Len(waiters) \in Nat /\ k \in Nat /\ 1 <= k /\ k <= Len(waiters)
  BY <1>1
<1> DEFINE Old(j) == IF j < k THEN j ELSE j + 1
<1>5. \A j \in 1..Len(waiters') :
         Old(j) \in 1..Len(waiters) /\ Old(j) # k /\ waiters'[j] = waiters[Old(j)]
  BY <1>3, <1>4
<1>6. \A i, j \in 1..Len(waiters') : Old(i) = Old(j) => i = j
  BY <1>3, <1>4
<1>7. \A i \in 1..Len(waiters) : i # k => \E j \in 1..Len(waiters') : Old(j) = i
  <2> SUFFICES ASSUME NEW i \in 1..Len(waiters), i # k
               PROVE  \E j \in 1..Len(waiters') : Old(j) = i
    OBVIOUS
  <2>1. CASE i < k
    <3>1. i \in 1..Len(waiters') /\ Old(i) = i
      BY <2>1, <1>3, <1>4
    <3> QED BY <3>1
  <2>2. CASE i > k
    <3>1. i - 1 \in 1..Len(waiters') /\ Old(i - 1) = i
      BY <2>2, <1>3, <1>4
    <3> QED BY <3>1
  <2> QED BY <2>1, <2>2, <1>4
<1> HIDE DEF Old
<1>8. \A i, j \in 1..Len(waiters') : waiters'[i] = waiters'[j] => i = j
  <2> SUFFICES ASSUME NEW i \in 1..Len(waiters'), NEW j \in 1..Len(waiters'),
                      waiters'[i] = waiters'[j]
               PROVE  i = j
    OBVIOUS
  <2>1. /\ Old(i) \in 1..Len(waiters) /\ Old(j) \in 1..Len(waiters)
        /\ waiters[Old(i)] = waiters[Old(j)]
    BY <1>5
  <2>2. Old(i) = Old(j)
    BY <2>1, <1>1 DEF WaitLine, InLine
  <2> QED BY <2>2, <1>6
<1>9. \A q \in Requests : handler'[q] = "sending" <=> \E i \in 1..Len(waiters') : waiters'[i] = q
  <2> TAKE q \in Requests
  <2>1. CASE q = r
    BY <2>1, <1>1, <1>2, <1>5 DEF WaitLine, InLine
  <2>2. CASE q # r
    <3>1. handler'[q] = handler[q]
      BY <2>2, <1>1
    <3>2. ASSUME NEW i \in 1..Len(waiters), waiters[i] = q
          PROVE  \E j \in 1..Len(waiters') : waiters'[j] = q
      <4>1. PICK j \in 1..Len(waiters') : Old(j) = i
        BY <3>2, <2>2, <1>2, <1>7
      <4> QED BY <4>1, <3>2, <1>5
    <3>3. ASSUME NEW j \in 1..Len(waiters'), waiters'[j] = q
          PROVE  \E i \in 1..Len(waiters) : waiters[i] = q
      BY <3>3, <1>5
    <3> QED BY <3>1, <3>2, <3>3, <1>1 DEF WaitLine, InLine
  <2> QED BY <2>1, <2>2
<1>10. WaitersOnce'
  <2>1. InLine(waiters', handler')
    BY <1>8, <1>9 DEF InLine
  <2>2. CountedOnce(waiters', handler')
    BY <2>1, WaitersCounted
  <2> QED BY <2>2 DEF CountedOnce, WaitersOnce
<1> QED BY <1>3, <1>8, <1>9, <1>10 DEF WaitLine, InLine

-----------------------------------------------------------------------------

(***************************************************************************)
(* A client sends a request, for the first time or again: nothing of it is *)
(* on its way.                                                             *)
(***************************************************************************)
LEMMA ArriveInv == ASSUME IngestInv, NEW r \in Requests, Arrive(r) PROVE IngestInv'
<1>0. /\ IngestTypeOK /\ Convertible
      /\ handler[r] = "idle" \/ (handler[r] = "answered" /\ response[r] \in Retryable)
      /\ handler' = [handler EXCEPT ![r] = "received"] /\ response' = [response EXCEPT ![r] = None]
      /\ attempts' = [attempts EXCEPT ![r] = attempts[r] + 1]
      /\ UNCHANGED <<waiters, ackedBefore, receiverVars, deliveryVars, queue>>
  BY DEF IngestInv, Arrive
<1>1. /\ handler \in [Requests -> {"idle", "received", "sending", "sent", "answered"}]
      /\ response \in [Requests -> Optional(Answers)] /\ attempts \in [Requests -> Nat]
  BY <1>0 DEF IngestTypeOK
<1>2. r \notin Delivered
  BY <1>0 DEF Delivered, Retryable
<1>3. OnePlace' /\ AckedAhead' /\ AckOrderKept'
  BY <1>0, <1>2, NotSentInv
<1>4. WaitLine' /\ WaitersOnce'
  <2>1. \A q \in Requests : handler'[q] = "sending" <=> handler[q] = "sending"
    BY <1>0, <1>1
  <2> QED BY <1>0, <2>1, LineKept
<1>5. IngestTypeOK'
  BY <1>0, <1>1, <1>4 DEF IngestTypeOK, Optional, receiverVars, deliveryVars
<1>6. Convertible'
  BY <1>0, <1>1 DEF Convertible, Delivered
<1> QED BY <1>3, <1>4, <1>5, <1>6 DEF IngestInv

(***************************************************************************)
(* The reject log takes a record, and drops its oldest when it is full.    *)
(***************************************************************************)
LEMMA PushedType ==
  ASSUME NEW log \in Seq(RejectRecord), NEW record \in RejectRecord
  PROVE  Pushed(log, record) \in Seq(RejectRecord)
<1>1. CASE Len(log) = RingCapacity
  <2>1. log # <<>>
    BY <1>1, IngestAssumption
  <2>2. Tail(log) \in Seq(RejectRecord)
    BY <2>1
  <2> QED BY <1>1, <2>2 DEF Pushed
<1>2. CASE Len(log) # RingCapacity
  BY <1>2 DEF Pushed
<1> QED BY <1>1, <1>2

(***************************************************************************)
(* A request is answered before it comes to its send.                      *)
(***************************************************************************)
LEMMA RefusedInv ==
  ASSUME IngestInv, NEW r \in Requests, FailDecode(r) \/ CatchPanic(r) \/ RejectEmpty(r)
  PROVE  IngestInv'
<1>0. /\ IngestTypeOK /\ Convertible /\ handler[r] = "received"
      /\ UNCHANGED <<attempts, waiters, ackedBefore, arrivals, deliveryVars, queue>>
  BY DEF IngestInv, FailDecode, CatchPanic, RejectEmpty, Reject, receiverVars
<1>1. PICK answer \in {"bad_request", "internal", "empty"} : Answer(r, answer)
  BY DEF FailDecode, CatchPanic, RejectEmpty, Reject
<1>2. ring' \in Seq(RejectRecord) /\ rejected' \in Seq(RejectRecord)
  <2>0. ring \in Seq(RejectRecord) /\ rejected \in Seq(RejectRecord)
    BY <1>0 DEF IngestTypeOK
  <2>1. CASE UNCHANGED <<ring, rejected>>
    BY <2>0, <2>1
  <2>2. ASSUME NEW reason \in {"panic", "empty_payload"},
               ring' = Pushed(ring, [reason |-> reason, request |-> r]),
               rejected' = Append(rejected, [reason |-> reason, request |-> r])
        PROVE  ring' \in Seq(RejectRecord) /\ rejected' \in Seq(RejectRecord)
    <3>1. [reason |-> reason, request |-> r] \in RejectRecord
      BY DEF RejectRecord
    <3> QED BY <2>0, <2>2, <3>1, PushedType
  <2>3. CASE FailDecode(r)
    BY <2>1, <2>3 DEF FailDecode, receiverVars
  <2>4. CASE CatchPanic(r)
    BY <2>2, <2>4 DEF CatchPanic, Reject
  <2>5. CASE RejectEmpty(r)
    BY <2>2, <2>5 DEF RejectEmpty, Reject
  <2> QED BY <2>3, <2>4, <2>5
<1>3. /\ handler \in [Requests -> {"idle", "received", "sending", "sent", "answered"}]
      /\ response \in [Requests -> Optional(Answers)]
      /\ handler' = [handler EXCEPT ![r] = "answered"] /\ response' = [response EXCEPT ![r] = answer]
  BY <1>0, <1>1 DEF IngestTypeOK, Answer
<1>4. r \notin Delivered
  BY <1>0 DEF Delivered
<1>5. OnePlace' /\ AckedAhead' /\ AckOrderKept'
  BY <1>0, <1>3, <1>4, NotSentInv
<1>6. WaitLine' /\ WaitersOnce'
  <2>1. \A q \in Requests : handler'[q] = "sending" <=> handler[q] = "sending"
    BY <1>0, <1>3
  <2> QED BY <1>0, <2>1, LineKept
<1>7. IngestTypeOK'
  <2>1. /\ handler' \in [Requests -> {"idle", "received", "sending", "sent", "answered"}]
        /\ response' \in [Requests -> Optional(Answers)]
    BY <1>3 DEF Optional, Answers
  <2> QED BY <1>0, <1>2, <1>6, <2>1 DEF IngestTypeOK, deliveryVars
<1>8. Convertible'
  BY <1>0, <1>3 DEF Convertible, Delivered
<1> QED BY <1>5, <1>6, <1>7, <1>8 DEF IngestInv

(***************************************************************************)
(* `accept` comes to its await.                                            *)
(***************************************************************************)
LEMMA BeginSendInv == ASSUME IngestInv, NEW r \in Requests, BeginSend(r) PROVE IngestInv'
<1>0. /\ IngestTypeOK /\ Convertible /\ handler[r] = "received"
      /\ Decoded[r] # None /\ BatchOf(r) # EmptyPayload
      /\ waiters' = Append(waiters, r) /\ handler' = [handler EXCEPT ![r] = "sending"]
      /\ ackedBefore' = [ackedBefore EXCEPT ![r] = Acknowledged]
      /\ UNCHANGED <<response, attempts, receiverVars, deliveryVars, queue>>
  BY DEF IngestInv, BeginSend
<1>1. /\ handler \in [Requests -> {"idle", "received", "sending", "sent", "answered"}]
      /\ response \in [Requests -> Optional(Answers)]
      /\ ackedBefore \in [Requests -> SUBSET Requests]
  BY <1>0 DEF IngestTypeOK
<1>2. r \notin Delivered
  BY <1>0 DEF Delivered
<1>3. OnePlace' /\ AckedAhead' /\ AckOrderKept'
  <2>1. response' = [response EXCEPT ![r] = response[r]]
    BY <1>0, <1>1
  <2> QED BY <1>0, <1>2, <2>1, NotSentInv
<1>4. waiters' \in Seq(Requests) /\ WaitLine' /\ WaitersOnce'
  BY <1>0, LineJoined
<1>5. IngestTypeOK'
  <2>1. handler' \in [Requests -> {"idle", "received", "sending", "sent", "answered"}]
    BY <1>0, <1>1
  <2>2. ackedBefore' \in [Requests -> SUBSET Requests]
    BY <1>0, <1>1 DEF Acknowledged
  <2> QED BY <1>0, <1>4, <2>1, <2>2 DEF IngestTypeOK, receiverVars, deliveryVars
<1>6. Convertible'
  BY <1>0, <1>1 DEF Convertible, Delivered
<1> QED BY <1>3, <1>4, <1>5, <1>6 DEF IngestInv

(***************************************************************************)
(* A handler gives up waiting: over time, over a dead writer, or because   *)
(* its client is gone.                                                     *)
(***************************************************************************)
LEMMA GivesUpInv ==
  ASSUME IngestInv, NEW r \in Requests, TimeOut(r) \/ FindWriterGone(r) \/ Disconnect(r)
  PROVE  IngestInv'
<1>0. /\ IngestTypeOK /\ Convertible /\ handler[r] = "sending" /\ UNCHANGED queue
  BY DEF IngestInv, TimeOut, FindWriterGone, Disconnect
<1>1. PICK answer \in {"backpressure", "internal", "disconnected"} : LeaveWaiters(r, answer)
  BY DEF TimeOut, FindWriterGone, Disconnect
<1>2. /\ handler \in [Requests -> {"idle", "received", "sending", "sent", "answered"}]
      /\ response \in [Requests -> Optional(Answers)]
      /\ waiters' = Without(waiters, r)
      /\ handler' = [handler EXCEPT ![r] = "answered"] /\ response' = [response EXCEPT ![r] = answer]
      /\ UNCHANGED <<attempts, ackedBefore, receiverVars, deliveryVars>>
  BY <1>0, <1>1 DEF IngestTypeOK, LeaveWaiters, Answer
<1>3. r \notin Delivered
  BY <1>0 DEF Delivered
<1>4. OnePlace' /\ AckedAhead' /\ AckOrderKept'
  BY <1>0, <1>2, <1>3, NotSentInv
<1>5. waiters' \in Seq(Requests) /\ WaitLine' /\ WaitersOnce'
  BY <1>0, <1>2, LineLeft
<1>6. IngestTypeOK'
  <2>1. /\ handler' \in [Requests -> {"idle", "received", "sending", "sent", "answered"}]
        /\ response' \in [Requests -> Optional(Answers)]
    BY <1>2 DEF Optional, Answers
  <2> QED BY <1>0, <1>2, <1>5, <2>1 DEF IngestTypeOK, receiverVars, deliveryVars
<1>7. Convertible'
  BY <1>0, <1>2 DEF Convertible, Delivered
<1> QED BY <1>4, <1>5, <1>6, <1>7 DEF IngestInv

(***************************************************************************)
(* The arrival is counted and the request acknowledged; its batch may be   *)
(* anywhere on its way by now.                                             *)
(***************************************************************************)
LEMMA RecordArrivalInv == ASSUME IngestInv, NEW r \in Requests, RecordArrival(r) PROVE IngestInv'
<1>0. /\ IngestTypeOK /\ Convertible /\ handler[r] = "sent"
      /\ arrivals' = [arrivals EXCEPT ![Transport[r]] = arrivals[Transport[r]] + Len(BatchOf(r).spans)]
      /\ handler' = [handler EXCEPT ![r] = "answered"] /\ response' = [response EXCEPT ![r] = "ok"]
      /\ UNCHANGED <<attempts, waiters, ackedBefore, ring, rejected, deliveryVars, queue>>
  BY DEF IngestInv, RecordArrival, Answer
<1>1. /\ handler \in [Requests -> {"idle", "received", "sending", "sent", "answered"}]
      /\ response \in [Requests -> Optional(Answers)]
      /\ arrivals \in [Transports -> Nat]
  BY <1>0 DEF IngestTypeOK
<1>2. /\ \A q \in Requests : q # r => handler'[q] = handler[q] /\ response'[q] = response[q]
      /\ handler'[r] = "answered" /\ response'[r] = "ok"
  BY <1>0, <1>1
<1>3. OnePlace' /\ AckedAhead' /\ AckOrderKept'
  <2>1. Delivered' = Delivered
    BY <1>0, <1>2 DEF Delivered
  <2>2. Acknowledged \subseteq Acknowledged'
    BY <1>0, <1>2 DEF Acknowledged
  <2>3. \A q \in Requests : ackedBefore'[q] \subseteq Acknowledged'
    BY <1>0, <2>2 DEF IngestInv, AckedAhead
  <2> QED BY <1>0, <2>1, <2>2, <2>3, OnTheWayKept
<1>4. WaitLine' /\ WaitersOnce'
  <2>1. \A q \in Requests : handler'[q] = "sending" <=> handler[q] = "sending"
    BY <1>0, <1>2
  <2> QED BY <1>0, <2>1, LineKept
<1>5. IngestTypeOK'
  <2>1. /\ handler' \in [Requests -> {"idle", "received", "sending", "sent", "answered"}]
        /\ response' \in [Requests -> Optional(Answers)]
    BY <1>0, <1>1 DEF Optional, Answers
  <2>2. Len(BatchOf(r).spans) \in Nat
    BY <1>0, BatchIsBatch DEF Convertible, Delivered
  <2>3. arrivals' \in [Transports -> Nat]
    BY <1>0, <1>1, <2>2, IngestAssumption
  <2> QED BY <1>0, <1>4, <2>1, <2>3 DEF IngestTypeOK, deliveryVars
<1>6. Convertible'
  BY <1>0, <1>2 DEF Convertible, Delivered
<1> QED BY <1>3, <1>4, <1>5, <1>6 DEF IngestInv

(***************************************************************************)
(* A batch goes into the channel, behind all that were sent before it.     *)
(***************************************************************************)
LEMMA SendInv == ASSUME IngestInv, NEW r \in Requests, Send(r) PROVE IngestInv'
<1>0. /\ IngestTypeOK /\ Convertible /\ OnePlace /\ AckedAhead /\ AckOrderKept
      /\ handler[r] = "sending" /\ HasPermit(r) /\ queue' = Append(queue, r)
      /\ waiters' = Without(waiters, r) /\ handler' = [handler EXCEPT ![r] = "sent"]
      /\ UNCHANGED <<response, attempts, ackedBefore, receiverVars, writer, applied, lost>>
  BY DEF IngestInv, Send, Queued, deliveryVars
<1>1. /\ handler \in [Requests -> {"idle", "received", "sending", "sent", "answered"}]
      /\ queue \in Seq(Requests) /\ applied \in Seq(Requests) /\ Capacity \in Nat
      /\ ackedBefore \in [Requests -> SUBSET Requests]
  BY <1>0, IngestAssumption DEF IngestTypeOK
<1>2. /\ queue' \in Seq(Requests) /\ Len(queue) \in Nat /\ Len(queue') = Len(queue) + 1
      /\ \A i \in 1..Len(queue) : queue'[i] = queue[i]
      /\ queue'[Len(queue) + 1] = r
      /\ \A i \in 1..Len(queue') : i \in 1..Len(queue) \/ i = Len(queue) + 1
  BY <1>0, <1>1
<1>3. Range(queue') = Range(queue) \cup {r} /\ Held' = Held
  BY <1>0, <1>1, RangeAppend DEF Held
<1>4. r \notin Delivered /\ r \notin Acknowledged
  BY <1>0 DEF Delivered, Acknowledged
<1>5. Delivered' = Delivered \cup {r} /\ Acknowledged' = Acknowledged
  <2>1. \A q \in Requests : q # r => handler'[q] = handler[q]
    BY <1>0, <1>1
  <2>2. handler'[r] = "sent"
    BY <1>0, <1>1
  <2> QED BY <1>0, <2>1, <2>2 DEF Delivered, Acknowledged
<1>6. r \notin Range(queue) \cup Held \cup Range(applied) \cup lost
  BY <1>0, <1>4 DEF OnePlace
<1>7. \A i \in 1..Len(queue) : queue[i] \in Range(queue) /\ queue[i] \in Requests
  BY <1>1 DEF Range
<1>8. OnePlace'
  <2>1. \A i, j \in 1..Len(queue') : queue'[i] = queue'[j] => i = j
    BY <1>0, <1>2, <1>6, <1>7 DEF OnePlace
  <2>2. /\ Range(queue') \cap (Held' \cup Range(applied') \cup lost') = {}
        /\ Delivered' = Range(queue') \cup Held' \cup Range(applied') \cup lost'
    BY <1>0, <1>3, <1>5, <1>6 DEF OnePlace
  <2> QED BY <2>1, <2>2, <1>0, <1>3 DEF OnePlace
<1>9. AckedAhead'
  <2>1. \A q \in Requests : ackedBefore'[q] \subseteq Acknowledged' /\ r \notin ackedBefore[q]
    BY <1>0, <1>4, <1>5 DEF AckedAhead
  <2>2. \A i, j \in 1..Len(queue') : queue'[i] \in ackedBefore'[queue'[j]] => i < j
    <3> SUFFICES ASSUME NEW i \in 1..Len(queue'), NEW j \in 1..Len(queue'),
                        queue'[i] \in ackedBefore[queue'[j]]
                 PROVE  i < j
      BY <1>0
    <3>1. queue'[j] \in Requests
      BY <1>2, <1>7
    <3>2. i \in 1..Len(queue)
      BY <1>2, <2>1, <3>1
    <3> QED BY <3>2, <1>0, <1>2 DEF AckedAhead
  <2>3. \A q \in Held' : ackedBefore'[q] \cap (Range(queue') \cup Held') = {}
    BY <1>0, <1>3, <2>1 DEF AckedAhead, Held
  <2>4. \A q \in Range(applied') : ackedBefore'[q] \cap (Range(queue') \cup Held') = {}
    <3>1. Range(applied) \subseteq Requests
      BY <1>1 DEF Range
    <3> QED BY <1>0, <1>3, <2>1, <3>1 DEF AckedAhead
  <2> QED BY <2>1, <2>2, <2>3, <2>4 DEF AckedAhead
<1>10. AckOrderKept'
  BY <1>0 DEF AckOrderKept
<1>11. waiters' \in Seq(Requests) /\ WaitLine' /\ WaitersOnce'
  BY <1>0, LineLeft
<1>12. IngestTypeOK'
  <2>1. handler' \in [Requests -> {"idle", "received", "sending", "sent", "answered"}]
    BY <1>0, <1>1
  <2>2. Len(queue') <= Capacity
    <3>1. PICK i \in 1..Len(waiters) : i <= Capacity - Len(queue)
      BY <1>0 DEF HasPermit
    <3>2. i \in Nat /\ i >= 1
      OBVIOUS
    <3> QED BY <3>1, <3>2, <1>1, <1>2
  <2> QED BY <1>0, <1>2, <1>11, <2>1, <2>2 DEF IngestTypeOK, receiverVars
<1>13. Convertible'
  BY <1>0, <1>1 DEF Convertible, Delivered
<1> QED BY <1>8, <1>9, <1>10, <1>11, <1>12, <1>13 DEF IngestInv

(***************************************************************************)
(* The writer takes the oldest batch of the channel.                       *)
(***************************************************************************)
LEMMA WriterRecvInv == ASSUME IngestInv, WriterRecv PROVE IngestInv'
<1>0. /\ IngestTypeOK /\ Convertible /\ OnePlace /\ AckedAhead /\ AckOrderKept
      /\ writer = None /\ queue # <<>> /\ writer' = Head(queue) /\ queue' = Tail(queue)
      /\ UNCHANGED <<handler, response, attempts, waiters, ackedBefore, receiverVars, applied, lost>>
  BY DEF IngestInv, WriterRecv, Ready, handlingVars
<1>1. queue \in Seq(Requests) /\ applied \in Seq(Requests) /\ Len(queue) <= Capacity
  BY <1>0 DEF IngestTypeOK
<1>2. /\ queue' \in Seq(Requests) /\ Len(queue') = Len(queue) - 1 /\ Len(queue) \in Nat \ {0}
      /\ \A i \in 1..Len(queue') : queue'[i] = queue[i + 1] /\ i + 1 \in 1..Len(queue)
      /\ writer' = queue[1] /\ 1 \in 1..Len(queue) /\ queue[1] \in Requests
  BY <1>0, <1>1, HeadTailProperties
<1>3. /\ Range(queue) = {writer'} \cup Range(queue')
  BY <1>0, <1>1, RangeTail
<1>4. /\ writer' \notin Range(queue')
      /\ \A i, j \in 1..Len(queue') : queue'[i] = queue'[j] => i = j
  BY <1>0, <1>1, TailOnce DEF OnePlace
<1>5. Held = {} /\ Held' = {writer'}
  BY <1>0, <1>2, IngestAssumption DEF Held
<1>6. Delivered' = Delivered /\ Acknowledged' = Acknowledged
  BY <1>0 DEF Delivered, Acknowledged
<1>7. OnePlace'
  <2>1. /\ Range(queue') \cap (Held' \cup Range(applied') \cup lost') = {}
        /\ Held' \cap (Range(applied') \cup lost') = {}
        /\ Delivered' = Range(queue') \cup Held' \cup Range(applied') \cup lost'
    BY <1>0, <1>3, <1>4, <1>5, <1>6 DEF OnePlace
  <2> QED BY <2>1, <1>0, <1>4 DEF OnePlace
<1>8. AckedAhead'
  <2>1. \A i, j \in 1..Len(queue') : queue'[i] \in ackedBefore'[queue'[j]] => i < j
    <3> SUFFICES ASSUME NEW i \in 1..Len(queue'), NEW j \in 1..Len(queue'),
                        queue'[i] \in ackedBefore[queue'[j]]
                 PROVE  i < j
      BY <1>0
    <3>1. i + 1 < j + 1
      BY <1>0, <1>2 DEF AckedAhead
    <3> QED BY <3>1
  <2>2. ackedBefore[writer'] \cap (Range(queue') \cup {writer'}) = {}
    <3>1. \A i \in 1..Len(queue) : queue[i] \notin ackedBefore[queue[1]]
      BY <1>0, <1>2 DEF AckedAhead
    <3>2. Range(queue) = {queue[i] : i \in 1..Len(queue)}
      BY <1>1, RangeEquality
    <3> QED BY <3>1, <3>2, <1>2, <1>3
  <2>3. \A q \in Range(applied') : ackedBefore'[q] \cap (Range(queue') \cup Held') = {}
    BY <1>0, <1>3, <1>5 DEF AckedAhead
  <2> QED BY <2>1, <2>2, <2>3, <1>0, <1>5, <1>6 DEF AckedAhead
<1>9. AckOrderKept' /\ Convertible'
  BY <1>0 DEF AckOrderKept, Convertible, Delivered
<1>10. WaitLine' /\ WaitersOnce'
  BY <1>0, LineKept
<1>11. IngestTypeOK'
  <2>1. Len(queue') <= Capacity
    BY <1>1, <1>2, IngestAssumption
  <2> QED BY <1>0, <1>2, <1>10, <2>1 DEF IngestTypeOK, receiverVars
<1> QED BY <1>7, <1>8, <1>9, <1>10, <1>11 DEF IngestInv

(***************************************************************************)
(* The writer applies the batch it holds.                                  *)
(***************************************************************************)
LEMMA WriterApplyInv == ASSUME IngestInv, WriterApply PROVE IngestInv'
<1>0. /\ IngestTypeOK /\ Convertible /\ OnePlace /\ AckedAhead /\ AckOrderKept
      /\ writer \in Requests /\ applied' = Append(applied, writer) /\ writer' = None
      /\ UNCHANGED <<handler, response, attempts, waiters, ackedBefore, receiverVars, lost, queue>>
  BY DEF IngestInv, WriterApply, handlingVars
<1>1. queue \in Seq(Requests) /\ applied \in Seq(Requests)
  BY <1>0 DEF IngestTypeOK
<1>2. /\ applied' \in Seq(Requests) /\ Len(applied) \in Nat /\ Len(applied') = Len(applied) + 1
      /\ \A i \in 1..Len(applied) : applied'[i] = applied[i]
      /\ applied'[Len(applied) + 1] = writer
      /\ \A i \in 1..Len(applied') : i \in 1..Len(applied) \/ i = Len(applied) + 1
  BY <1>0, <1>1
<1>3. Range(applied') = Range(applied) \cup {writer}
  BY <1>0, <1>1, RangeAppend
<1>4. Held = {writer} /\ Held' = {}
  BY <1>0, IngestAssumption DEF Held
<1>5. Delivered' = Delivered /\ Acknowledged' = Acknowledged
  BY <1>0 DEF Delivered, Acknowledged
<1>6. \A i \in 1..Len(applied) : applied[i] \in Range(applied)
  BY <1>1 DEF Range
<1>7. OnePlace'
  <2>1. \A i, j \in 1..Len(applied') : applied'[i] = applied'[j] => i = j
    BY <1>0, <1>2, <1>4, <1>6 DEF OnePlace
  <2>2. /\ Range(queue') \cap (Held' \cup Range(applied') \cup lost') = {}
        /\ Held' \cap (Range(applied') \cup lost') = {}
        /\ Range(applied') \cap lost' = {}
        /\ Delivered' = Range(queue') \cup Held' \cup Range(applied') \cup lost'
    BY <1>0, <1>3, <1>4, <1>5 DEF OnePlace
  <2> QED BY <2>1, <2>2, <1>0 DEF OnePlace
<1>8. AckedAhead'
  BY <1>0, <1>3, <1>4, <1>5 DEF AckedAhead
<1>9. AckOrderKept'
  <2> SUFFICES ASSUME NEW i \in 1..Len(applied'), NEW j \in 1..Len(applied'),
                      applied'[i] \in ackedBefore[applied'[j]]
               PROVE  i < j
    BY <1>0 DEF AckOrderKept
  <2>1. /\ writer \notin ackedBefore[writer]
        /\ \A k \in 1..Len(applied) : writer \notin ackedBefore[applied[k]]
    BY <1>0, <1>4, <1>6 DEF AckedAhead
  <2>2. i \in 1..Len(applied)
    BY <2>1, <1>2
  <2>3. CASE j \in 1..Len(applied)
    BY <2>2, <2>3, <1>0, <1>2 DEF AckOrderKept
  <2>4. CASE j = Len(applied) + 1
    BY <2>2, <2>4, <1>2
  <2> QED BY <2>3, <2>4, <1>2
<1>10. Convertible'
  BY <1>0 DEF Convertible, Delivered
<1>11. WaitLine' /\ WaitersOnce'
  BY <1>0, LineKept
<1>12. IngestTypeOK'
  BY <1>0, <1>2, <1>11 DEF IngestTypeOK, receiverVars
<1> QED BY <1>7, <1>8, <1>9, <1>10, <1>11, <1>12 DEF IngestInv

(***************************************************************************)
(* The writer dies over a batch, and the channel with it.                  *)
(***************************************************************************)
LEMMA WriterDiesInv == ASSUME IngestInv, WriterDies PROVE IngestInv'
<1>0. /\ IngestTypeOK /\ Convertible /\ OnePlace /\ AckedAhead /\ AckOrderKept
      /\ writer \in Requests /\ lost' = lost \cup Range(queue) \cup {writer}
      /\ writer' = "dead" /\ queue' = <<>>
      /\ UNCHANGED <<handler, response, attempts, waiters, ackedBefore, receiverVars, applied>>
  BY DEF IngestInv, WriterDies, handlingVars
<1>1. queue \in Seq(Requests) /\ applied \in Seq(Requests) /\ lost \subseteq Requests
  BY <1>0 DEF IngestTypeOK
<1>2. Held = {writer} /\ Held' = {} /\ Range(queue') = {} /\ Len(queue') = 0
  BY <1>0, IngestAssumption DEF Held, Range
<1>3. Delivered' = Delivered /\ Acknowledged' = Acknowledged
  BY <1>0 DEF Delivered, Acknowledged
<1>4. OnePlace'
  <2>1. IsFiniteSet(Range(queue))
    BY <1>0, <1>1, LenOfOnce DEF OnePlace
  <2>2. IsFiniteSet(lost \cup Range(queue))
    BY <1>0, <2>1, FS_Union DEF OnePlace
  <2>3. IsFiniteSet(lost')
    BY <1>0, <2>2, FS_AddElement
  <2>4. /\ Range(applied') \cap lost' = {}
        /\ Delivered' = Range(queue') \cup Held' \cup Range(applied') \cup lost'
    BY <1>0, <1>2, <1>3 DEF OnePlace
  <2> QED BY <2>3, <2>4, <1>0, <1>2 DEF OnePlace
<1>5. AckedAhead' /\ AckOrderKept'
  BY <1>0, <1>2, <1>3 DEF AckedAhead, AckOrderKept
<1>6. Convertible'
  BY <1>0 DEF Convertible, Delivered
<1>7. WaitLine' /\ WaitersOnce'
  BY <1>0, LineKept
<1>8. IngestTypeOK'
  <2>1. queue' \in Seq(Requests) /\ Len(queue') <= Capacity
    BY <1>0, <1>2, IngestAssumption
  <2>2. lost' \in SUBSET Requests
    BY <1>0, <1>1 DEF Range
  <2> QED BY <1>0, <1>7, <2>1, <2>2 DEF IngestTypeOK, receiverVars
<1> QED BY <1>4, <1>5, <1>6, <1>7, <1>8 DEF IngestInv

(***************************************************************************)
(* Every step keeps the invariant.                                         *)
(***************************************************************************)
LEMMA NextIngest == ASSUME IngestInv, [IngestNext]_ingestVars PROVE IngestInv'
<1>1. CASE UNCHANGED ingestVars
  <2>1. UNCHANGED <<handler, response, attempts, waiters, ackedBefore, arrivals, ring, rejected,
                    writer, applied, lost, queue>>
    BY <1>1 DEF ingestVars, handlingVars, receiverVars, deliveryVars
  <2>2. WaitLine' /\ WaitersOnce'
    BY <2>1, LineKept
  <2>3. IngestTypeOK' /\ Convertible'
    BY <2>1, <2>2 DEF IngestInv, IngestTypeOK, Convertible, Delivered
  <2>4. Delivered' = Delivered /\ Acknowledged' = Acknowledged /\ Held' = Held
    BY <2>1 DEF Delivered, Acknowledged, Held
  <2>5. OnePlace' /\ AckedAhead' /\ AckOrderKept'
    BY <2>1, <2>4 DEF IngestInv, OnePlace, AckedAhead, AckOrderKept
  <2> QED BY <2>2, <2>3, <2>5 DEF IngestInv
<1> QED BY <1>1, ArriveInv, RefusedInv, BeginSendInv, SendInv, RecordArrivalInv, GivesUpInv,
           WriterRecvInv, WriterApplyInv, WriterDiesInv
        DEF IngestNext, HandlerStep, DeliveryStep

(***************************************************************************)
(* IngestInv holds in every reachable state.                                    *)
(***************************************************************************)
LEMMA IngestInductive == IngestSpec => []IngestInv
BY InitIngest, NextIngest, PTL DEF IngestSpec

-----------------------------------------------------------------------------

(***************************************************************************)
(* The types, and with them the bound of the channel, which handlers       *)
(* racing for permits never overfill, and a line in which a handler in     *)
(* `send` stands once.                                                     *)
(***************************************************************************)
THEOREM IngestTypeCorrect == IngestSpec => []IngestTypeOK
<1>1. IngestInv => IngestTypeOK
  BY DEF IngestInv
<1> QED BY <1>1, IngestInductive, PTL

(***************************************************************************)
(* A batch that was sent is in exactly one place, once; one that was not,  *)
(* because its handler timed out, was cancelled or found the writer gone,  *)
(* is in none, so a retry is no second copy.                               *)
(***************************************************************************)
THEOREM DeliveredExactlyOnce == IngestSpec => []ExactlyOnce
<1>1. ASSUME IngestInv PROVE ExactlyOnce
  <2>0. OnePlace /\ queue \in Seq(Requests) /\ applied \in Seq(Requests)
    BY <1>1 DEF IngestInv, IngestTypeOK
  <2>1. IsFiniteSet(Range(queue)) /\ Cardinality(Range(queue)) = Len(queue)
    BY <2>0, LenOfOnce DEF OnePlace
  <2>2. IsFiniteSet(Range(applied)) /\ Cardinality(Range(applied)) = Len(applied)
    BY <2>0, LenOfOnce DEF OnePlace
  <2>3. IsFiniteSet(Held) /\ IsFiniteSet(lost)
    <3>1. Held = {} \/ Held = {writer}
      BY DEF Held
    <3>2. IsFiniteSet(Held)
      BY <3>1, FS_EmptySet, FS_Singleton
    <3> QED BY <3>2, <2>0 DEF OnePlace
  <2>4. ASSUME NEW A, NEW B, IsFiniteSet(A), IsFiniteSet(B), A \cap B = {}
        PROVE  /\ IsFiniteSet(A \cup B)
               /\ Cardinality(A \cup B) = Cardinality(A) + Cardinality(B)
               /\ Cardinality(A) \in Nat /\ Cardinality(B) \in Nat
    <3>1. /\ IsFiniteSet(A \cup B)
          /\ Cardinality(A \cup B) = Cardinality(A) + Cardinality(B) - Cardinality(A \cap B)
      BY <2>4, FS_Union
    <3>2. Cardinality(A) \in Nat /\ Cardinality(B) \in Nat
      BY <2>4, FS_CardinalityType
    <3>3. Cardinality(A \cap B) = 0
      BY <2>4, FS_EmptySet
    <3> QED BY <3>1, <3>2, <3>3
  <2> DEFINE QH == Range(queue) \cup Held
             QHA == QH \cup Range(applied)
  <2>5. IsFiniteSet(QH) /\ Cardinality(QH) = Len(queue) + Cardinality(Held)
    <3>1. Range(queue) \cap Held = {}
      BY <2>0 DEF OnePlace
    <3> QED BY <3>1, <2>1, <2>3, <2>4
  <2>6. IsFiniteSet(QHA) /\ Cardinality(QHA) = Cardinality(QH) + Len(applied)
    <3>1. QH \cap Range(applied) = {}
      BY <2>0 DEF OnePlace
    <3> HIDE DEF QH
    <3>2. IsFiniteSet(QHA) /\ Cardinality(QHA) = Cardinality(QH) + Cardinality(Range(applied))
      BY <3>1, <2>2, <2>4, <2>5
    <3> QED BY <3>2, <2>2
  <2>7. Cardinality(QHA \cup lost) = Cardinality(QHA) + Cardinality(lost)
    <3>1. QHA \cap lost = {}
      BY <2>0 DEF OnePlace
    <3> QED BY <3>1, <2>3, <2>4, <2>6
  <2>8. Delivered = QHA \cup lost
    BY <2>0 DEF OnePlace
  <2>9. Cardinality(Delivered)
          = Len(queue) + Cardinality(Held) + Len(applied) + Cardinality(lost)
    BY <2>5, <2>6, <2>7, <2>8
  <2> QED BY <2>0, <2>9 DEF ExactlyOnce, OnePlace
<1> QED BY <1>1, IngestInductive, PTL

(***************************************************************************)
(* A request that came to its send after another was acknowledged is       *)
(* applied after it.                                                       *)
(***************************************************************************)
THEOREM AckOrderReachesStore == IngestSpec => []AckOrderKept
<1>1. IngestInv => AckOrderKept
  BY DEF IngestInv
<1> QED BY <1>1, IngestInductive, PTL

-----------------------------------------------------------------------------
(* The pipeline runs its two parts.                                        *)

(***************************************************************************)
(* A step of the pipeline is one of its handlers and of its store, or      *)
(* leaves them alone: the batch the writer takes is one that was converted *)
(* without an error.                                                       *)
(***************************************************************************)
LEMMA StepOfParts ==
  ASSUME IngestInv, [PipelineNext]_pipelineVars
  PROVE  [IngestNext]_ingestVars /\ [Next]_vars
<1>1. CASE UNCHANGED pipelineVars
  BY <1>1 DEF pipelineVars
<1>2. CASE Handlers
  BY <1>2 DEF Handlers, IngestNext
<1>3. CASE TakeBatch
  <2>1. WriterRecv /\ Recv(BatchOf(Head(queue)))
    BY <1>3 DEF TakeBatch
  <2>2. queue \in Seq(Requests) /\ queue # <<>>
    BY <2>1 DEF IngestInv, IngestTypeOK, WriterRecv, Ready
  <2>3. Head(queue) \in Requests /\ Head(queue) \in Range(queue)
    BY <2>2, RangeTail
  <2>4. Head(queue) \in Delivered
    BY <2>3 DEF IngestInv, OnePlace
  <2>5. Head(queue) \in Decodable /\ BatchOf(Head(queue)) # EmptyPayload
    BY <2>3, <2>4 DEF IngestInv, Convertible, Decodable
  <2>6. BatchOf(Head(queue)) \in Batches
    BY <2>5, PipelineAssumption
  <2>7. Next
    BY <2>1, <2>6 DEF Next
  <2>8. IngestNext
    BY <2>1 DEF IngestNext, DeliveryStep
  <2> QED BY <2>7, <2>8
<1>4. CASE WorkOnBatch
  BY <1>4 DEF WorkOnBatch, Next, WriterStep
<1>5. CASE FinishBatch
  BY <1>5 DEF FinishBatch, Next, WriterStep, IngestNext, DeliveryStep
<1>6. CASE WriterPanics
  BY <1>6 DEF WriterPanics, IngestNext
<1>7. CASE ReadCounters \/ ReadReceiver
  BY <1>7 DEF ReadCounters, ReadReceiver
<1> QED BY <1>1, <1>2, <1>3, <1>4, <1>5, <1>6, <1>7 DEF PipelineNext

(***************************************************************************)
(* The pipeline starts as its parts do.                                    *)
(***************************************************************************)
LEMMA InitOfParts == PipelineInit => IngestInit /\ Init
BY DEF PipelineInit

PartsInv == IngestInv /\ IInv /\ NamesInv

(***************************************************************************)
(* The invariants of both parts are invariants of the whole.               *)
(***************************************************************************)
LEMMA PartsInductive == PipelineSpec => []PartsInv
<1>1. PipelineInit => PartsInv
  BY InitOfParts, InitIngest, InitInv, InitNames DEF PartsInv
<1>2. PartsInv /\ [PipelineNext]_pipelineVars => PartsInv'
  <2> SUFFICES ASSUME PartsInv, [PipelineNext]_pipelineVars PROVE PartsInv'
    OBVIOUS
  <2>1. IngestInv /\ IInv /\ NamesInv
    BY DEF PartsInv
  <2>2. [IngestNext]_ingestVars /\ [Next]_vars
    BY <2>1, StepOfParts
  <2>3. IngestInv'
    BY <2>1, <2>2, NextIngest
  <2>4. IInv' /\ NamesInv'
    BY <2>1, <2>2, NextInv, NextNames
  <2> QED BY <2>3, <2>4 DEF PartsInv
<1> QED BY <1>1, <1>2, PTL DEF PipelineSpec

(***************************************************************************)
(* Joined by their channel the handlers and the store behave as they do    *)
(* alone: whatever is shown of either part holds of the whole.             *)
(***************************************************************************)
THEOREM PipelineRunsBothParts == PipelineSpec => IngestSpec /\ Spec
<1>1. PartsInv /\ [PipelineNext]_pipelineVars => [IngestNext]_ingestVars /\ [Next]_vars
  BY StepOfParts DEF PartsInv
<1> QED BY <1>1, InitOfParts, PartsInductive, PTL DEF PipelineSpec, IngestSpec, Spec

-----------------------------------------------------------------------------

(***************************************************************************)
(* A part of a finite sum is no more than the whole.                       *)
(***************************************************************************)
LEMMA SumOfPart ==
  ASSUME NEW f, NEW S, IsFiniteSet(S), NEW T, T \subseteq S, \A x \in S : f[x] \in Nat
  PROVE  SumFunctionOnSet(f, T) <= SumFunctionOnSet(f, S)
<1> DEFINE Sum(s) == SumFunctionOnSet(f, s)
           K == {s \in SUBSET S : T \subseteq s /\ ~(Sum(T) <= Sum(s))}
<1>1. SUFFICES ASSUME K # {} PROVE FALSE
  <2>1. S \in SUBSET S /\ S \notin K
    BY <1>1
  <2> QED BY <2>1
<1>2. PICK s \in K : \A u \in SUBSET s : u # s => u \notin K
  <2>1. K \subseteq SUBSET S
    OBVIOUS
  <2> HIDE DEF K
  <2> QED BY <1>1, <2>1, SmallestSet
<1>3. s \subseteq S /\ T \subseteq s /\ ~(Sum(T) <= Sum(s))
  OBVIOUS
<1>4. \A u \in SUBSET S : T \subseteq u /\ u \notin K => Sum(T) <= Sum(u)
  OBVIOUS
<1>5. \A u \in SUBSET S : Sum(u) \in Nat /\ \A x \in u : Sum(u) = f[x] + Sum(u \ {x})
  <2> SUFFICES ASSUME NEW u \in SUBSET S
               PROVE  Sum(u) \in Nat /\ \A x \in u : Sum(u) = f[x] + Sum(u \ {x})
    OBVIOUS
  <2>1. IsFiniteSet(u) /\ \A x \in u : f[x] \in Nat
    BY FS_Subset
  <2> QED BY <2>1, SumRemove
<1> HIDE DEF K, Sum
<1>6. s # T
  BY <1>3, <1>5
<1>7. PICK x \in s : x \notin T
  BY <1>3, <1>6
<1>8. /\ s \ {x} \in SUBSET s /\ s \ {x} # s /\ s \ {x} \in SUBSET S /\ T \subseteq s \ {x}
  BY <1>3, <1>7
<1>9. Sum(T) <= Sum(s \ {x})
  BY <1>2, <1>4, <1>8
<1>10. Sum(s) = f[x] + Sum(s \ {x}) /\ Sum(s \ {x}) \in Nat /\ f[x] \in Nat /\ Sum(T) \in Nat
  BY <1>3, <1>5, <1>8
<1>11. Sum(T) <= Sum(s)
  BY <1>9, <1>10
<1> QED BY <1>3, <1>11

(***************************************************************************)
(* Where every place of a sum is the sum of two.                           *)
(***************************************************************************)
LEMMA SumOfSums ==
  ASSUME NEW S, IsFiniteSet(S), NEW f, NEW g, NEW h,
         \A x \in S : f[x] \in Nat /\ g[x] \in Nat /\ h[x] = f[x] + g[x]
  PROVE  SumFunctionOnSet(h, S) = SumFunctionOnSet(f, S) + SumFunctionOnSet(g, S)
<1> DEFINE F(s) == SumFunctionOnSet(f, s)
           G(s) == SumFunctionOnSet(g, s)
           H(s) == SumFunctionOnSet(h, s)
           K == {s \in SUBSET S : H(s) # F(s) + G(s)}
<1>1. SUFFICES ASSUME K # {} PROVE FALSE
  <2>1. S \in SUBSET S /\ S \notin K
    BY <1>1
  <2> QED BY <2>1
<1>2. PICK s \in K : \A u \in SUBSET s : u # s => u \notin K
  <2>1. K \subseteq SUBSET S
    OBVIOUS
  <2> HIDE DEF K
  <2> QED BY <1>1, <2>1, SmallestSet
<1>3. s \subseteq S /\ H(s) # F(s) + G(s)
  OBVIOUS
<1>4. \A u \in SUBSET S : u \notin K => H(u) = F(u) + G(u)
  OBVIOUS
<1>5. ASSUME NEW u \in SUBSET S
      PROVE  /\ F(u) \in Nat /\ \A x \in u : F(u) = f[x] + F(u \ {x})
             /\ G(u) \in Nat /\ \A x \in u : G(u) = g[x] + G(u \ {x})
             /\ \A x \in u : H(u) = h[x] + H(u \ {x})
  <2>1. IsFiniteSet(u) /\ \A x \in u : f[x] \in Nat /\ g[x] \in Nat /\ h[x] \in Nat
    BY FS_Subset
  <2> QED BY <2>1, SumRemove
<1>6. F({}) = 0 /\ G({}) = 0 /\ H({}) = 0
  BY SumEmpty
<1> HIDE DEF K, F, G, H
<1>7. PICK x \in s : TRUE
  BY <1>3, <1>6
<1>8. s \ {x} \in SUBSET s /\ s \ {x} # s /\ s \ {x} \in SUBSET S
  BY <1>3
<1>9. H(s \ {x}) = F(s \ {x}) + G(s \ {x})
  BY <1>2, <1>4, <1>8
<1>10. /\ F(s) = f[x] + F(s \ {x}) /\ G(s) = g[x] + G(s \ {x}) /\ H(s) = h[x] + H(s \ {x})
       /\ F(s \ {x}) \in Nat /\ G(s \ {x}) \in Nat
  BY <1>3, <1>5, <1>8
<1>11. f[x] \in Nat /\ g[x] \in Nat /\ h[x] = f[x] + g[x]
  BY <1>3
<1>12. H(s) = F(s) + G(s)
  BY <1>9, <1>10, <1>11
<1> QED BY <1>3, <1>12

(***************************************************************************)
(* The sum over two disjoint sets.                                         *)
(***************************************************************************)
LEMMA SumOfUnion ==
  ASSUME NEW f, NEW S, NEW T, IsFiniteSet(S), IsFiniteSet(T), S \cap T = {},
         \A x \in S \cup T : f[x] \in Nat
  PROVE  SumFunctionOnSet(f, S \cup T) = SumFunctionOnSet(f, S) + SumFunctionOnSet(f, T)
<1> DEFINE Sum(s) == SumFunctionOnSet(f, s)
           K == {s \in SUBSET T : Sum(S \cup s) # Sum(S) + Sum(s)}
<1>1. SUFFICES ASSUME K # {} PROVE FALSE
  <2>1. T \in SUBSET T /\ T \notin K
    BY <1>1
  <2> QED BY <2>1
<1>2. PICK s \in K : \A u \in SUBSET s : u # s => u \notin K
  <2>1. K \subseteq SUBSET T
    OBVIOUS
  <2> HIDE DEF K
  <2> QED BY <1>1, <2>1, SmallestSet
<1>3. s \subseteq T /\ Sum(S \cup s) # Sum(S) + Sum(s)
  OBVIOUS
<1>4. \A u \in SUBSET T : u \notin K => Sum(S \cup u) = Sum(S) + Sum(u)
  OBVIOUS
<1>5. IsFiniteSet(S \cup T)
  BY FS_Union
<1>6. ASSUME NEW u \in SUBSET (S \cup T)
      PROVE  Sum(u) \in Nat /\ \A x \in u : Sum(u) = f[x] + Sum(u \ {x})
  <2>1. IsFiniteSet(u) /\ \A x \in u : f[x] \in Nat
    BY <1>5, FS_Subset
  <2> QED BY <2>1, SumRemove
<1>7. Sum({}) = 0 /\ S \cup {} = S
  BY SumEmpty
<1> HIDE DEF K, Sum
<1>8. s # {}
  <2>1. Sum(S) \in Nat
    BY <1>6
  <2> SUFFICES ASSUME s = {} PROVE Sum(S \cup s) = Sum(S) + Sum(s)
    BY <1>3
  <2>2. S \cup s = S
    OBVIOUS
  <2> QED BY <1>7, <2>1, <2>2
<1>9. PICK x \in s : TRUE
  BY <1>8
<1>10. /\ s \ {x} \in SUBSET s /\ s \ {x} # s /\ s \ {x} \in SUBSET T
       /\ s \in SUBSET (S \cup T) /\ S \cup s \in SUBSET (S \cup T) /\ x \in S \cup s
       /\ s \ {x} \in SUBSET (S \cup T) /\ S \in SUBSET (S \cup T)
       /\ (S \cup s) \ {x} = S \cup (s \ {x})
  BY <1>3
<1>11. Sum(S \cup (s \ {x})) = Sum(S) + Sum(s \ {x})
  BY <1>2, <1>4, <1>10
<1>12. Sum(S \cup s) = f[x] + Sum(S \cup (s \ {x})) /\ Sum(s) = f[x] + Sum(s \ {x})
  BY <1>6, <1>10
<1>13. Sum(S) \in Nat /\ Sum(s \ {x}) \in Nat /\ f[x] \in Nat
  BY <1>3, <1>6, <1>10
<1>14. Sum(S \cup s) = Sum(S) + Sum(s)
  BY <1>11, <1>12, <1>13
<1> QED BY <1>3, <1>14

-----------------------------------------------------------------------------
(* The books: what was counted on either side of the channel.              *)

(***************************************************************************)
(* The writer of the handlers and the writer of the store are in step: it  *)
(* holds the lock while it has a batch.                                    *)
(***************************************************************************)
WriterInStep == WriterAlive => (writer \in Requests <=> LockHeld)

\* The malformed spans of a batch are in hand until they are counted.
MalformedInHand == pc \in {"recv", "notify", "evict"} => malformed = 0

SpanCounts == [r \in Requests |-> Len(BatchOf(r).spans)]

MalformedCounts == [r \in Requests |-> BatchOf(r).malformed]

AcknowledgedOn(t) == {r \in Acknowledged : Transport[r] = t}

ArrivalsCounted ==
  \A t \in Transports : arrivals[t] = SumFunctionOnSet(SpanCounts, AcknowledgedOn(t))

MalformedCounted ==
  WriterAlive =>
    counters.malformedSpan + malformed = SumFunctionOnSet(MalformedCounts, Applied \cup Held)

\* What was passed over as empty converts to the error.
EmptyHadNone ==
  \A r \in Answered :
    response[r] = "empty" => Decoded[r] # None /\ BatchOf(r) = EmptyPayload

CountInv ==
  WriterInStep /\ MalformedInHand /\ ArrivalsCounted /\ MalformedCounted /\ EmptyHadNone

(***************************************************************************)
(* The log holds the last rejects of the first m, in order.                *)
(***************************************************************************)
LastOf(log, all, m) ==
  /\ log \in Seq(RejectRecord)
  /\ Len(log) = IF m < RingCapacity THEN m ELSE RingCapacity
  /\ \A j \in 1..Len(log) : log[j] = all[m - Len(log) + j]

RingIsLast == LastOf(ring, rejected, Len(rejected))

NotAhead(older, newer) == \A c \in DOMAIN counters : older[c] <= newer[c]

\* The counter shows no refusal the table of keys has not made.
CapHitsKnown == counters.attributeKeyCapHit <= keyInterner.capHits

(***************************************************************************)
(* An answer of /api/receiver, begun or given, is no newer than the state. *)
(***************************************************************************)
PanelBehind ==
  /\ panel.at \in {"off", "counters"}
  /\ panel.at = "counters" =>
       panel.counters \in CountersType /\ NotAhead(panel.counters, counters)
  /\ shown # None =>
       /\ shown.counters \in CountersType
       /\ NotAhead(shown.counters, IF panel.at = "counters" THEN panel.counters ELSE counters)
       /\ shown.arrivals \in [Transports -> Nat]
       /\ \A t \in Transports : shown.arrivals[t] <= arrivals[t]

OkBefore(t) == {r \in answeredBy : response[r] = "ok" /\ Transport[r] = t}

(***************************************************************************)
(* An answer given has the arrivals of what was acknowledged before it     *)
(* began, and the last rejects of a moment before which they all were.     *)
(***************************************************************************)
PanelComplete ==
  /\ answeredBy \subseteq Answered
  /\ panel.at = "off" /\ shown # None =>
       /\ \A t \in Transports :
            SumFunctionOnSet(SpanCounts, OkBefore(t)) <= shown.arrivals[t]
       /\ \E m \in 0..Len(rejected) :
            /\ LastOf(shown.recentRejects, rejected, m)
            /\ \A i \in (m + 1)..Len(rejected) : rejected[i].request \notin answeredBy

\* What `accept` refused was recorded.
RejectsRecorded ==
  \A r \in Answered : Refused(r) => \E i \in 1..Len(rejected) : rejected[i] = RecordOf(r)

PanelInv == RingIsLast /\ CapHitsKnown /\ PanelBehind /\ PanelComplete /\ RejectsRecorded

-----------------------------------------------------------------------------

(***************************************************************************)
(* What was delivered is finite, and each of it was converted.             *)
(***************************************************************************)
LEMMA DeliveredFinite ==
  ASSUME IngestInv
  PROVE  /\ IsFiniteSet(Delivered) /\ Acknowledged \subseteq Delivered
         /\ Range(applied) \cup Held \subseteq Delivered /\ Delivered \subseteq Requests
         /\ \A r \in Delivered :
              /\ Decoded[r] # None /\ BatchOf(r) # EmptyPayload
              /\ SpanCounts[r] \in Nat /\ SpanCounts[r] = Len(BatchOf(r).spans)
              /\ MalformedCounts[r] \in Nat /\ MalformedCounts[r] = BatchOf(r).malformed
              /\ SpansSent(r) = SpanCounts[r] + MalformedCounts[r]
<1>0. OnePlace /\ queue \in Seq(Requests) /\ applied \in Seq(Requests)
  BY DEF IngestInv, IngestTypeOK
<1>1. IsFiniteSet(Range(queue)) /\ IsFiniteSet(Range(applied)) /\ IsFiniteSet(lost)
  BY <1>0, LenOfOnce DEF OnePlace
<1>2. IsFiniteSet(Held)
  <2>1. Held = {} \/ Held = {writer}
    BY DEF Held
  <2> QED BY <2>1, FS_EmptySet, FS_Singleton
<1>3. IsFiniteSet(Range(queue) \cup Held)
  BY <1>1, <1>2, FS_Union
<1>4. IsFiniteSet((Range(queue) \cup Held) \cup Range(applied))
  BY <1>1, <1>3, FS_Union
<1>5. IsFiniteSet(((Range(queue) \cup Held) \cup Range(applied)) \cup lost)
  BY <1>1, <1>4, FS_Union
<1>6. IsFiniteSet(Delivered) /\ Range(applied) \cup Held \subseteq Delivered
  BY <1>0, <1>5 DEF OnePlace
<1>7. Acknowledged \subseteq Delivered /\ Delivered \subseteq Requests
  BY DEF Acknowledged, Delivered
<1>8. ASSUME NEW r \in Delivered
      PROVE  /\ Decoded[r] # None /\ BatchOf(r) # EmptyPayload
             /\ SpanCounts[r] \in Nat /\ SpanCounts[r] = Len(BatchOf(r).spans)
             /\ MalformedCounts[r] \in Nat /\ MalformedCounts[r] = BatchOf(r).malformed
             /\ SpansSent(r) = SpanCounts[r] + MalformedCounts[r]
  <2>1. r \in Requests /\ Decoded[r] # None /\ BatchOf(r) # EmptyPayload
    BY <1>7 DEF IngestInv, Convertible
  <2>2. SpanCounts[r] = Len(BatchOf(r).spans) /\ MalformedCounts[r] = BatchOf(r).malformed
    BY <2>1 DEF SpanCounts, MalformedCounts
  <2>3. /\ Len(BatchOf(r).spans) \in Nat /\ BatchOf(r).malformed \in Nat
        /\ Len(BatchOf(r).spans) + BatchOf(r).malformed = SpansSent(r)
    BY <2>1, BatchConverted
  <2> QED BY <2>1, <2>2, <2>3
<1> QED BY <1>6, <1>7, <1>8

(***************************************************************************)
(* A request leaves what others were answered alone, and is itself not     *)
(* answered for good before its handler's last step.                       *)
(***************************************************************************)
LEMMA HandlerEffect ==
  ASSUME IngestInv, NEW r \in Requests, Arrive(r) \/ HandlerStep(r) \/ Disconnect(r)
  PROVE  /\ r \notin Answered
         /\ \A q \in Requests : q # r => handler'[q] = handler[q] /\ response'[q] = response[q]
         /\ UNCHANGED deliveryVars
         /\ RecordArrival(r) \/ (UNCHANGED arrivals /\ Acknowledged' = Acknowledged)
         /\ \/ UNCHANGED <<ring, rejected>>
            \/ \E e \in RejectRecord :
                 e.request = r /\ ring' = Pushed(ring, e) /\ rejected' = Append(rejected, e)
<1>0. /\ handler \in [Requests -> {"idle", "received", "sending", "sent", "answered"}]
      /\ response \in [Requests -> Optional(Answers)]
  BY DEF IngestInv, IngestTypeOK
<1>1. /\ r \notin Answered
      /\ handler[r] \in {"received", "sending", "sent"} \/ response[r] # "ok" \/ handler[r] = "idle"
  BY <1>0 DEF Answered, Retryable, Arrive, HandlerStep, Disconnect, FailDecode, CatchPanic,
              RejectEmpty, BeginSend, Send, RecordArrival, TimeOut, FindWriterGone
<1>2. UNCHANGED deliveryVars
  BY DEF Arrive, HandlerStep, Disconnect, FailDecode, CatchPanic, Reject,
         RejectEmpty, BeginSend, Send, RecordArrival, TimeOut, FindWriterGone, LeaveWaiters
<1>3. PICK x : handler' = [handler EXCEPT ![r] = x]
  BY DEF Arrive, HandlerStep, Disconnect, FailDecode, CatchPanic, Reject, Answer,
         RejectEmpty, BeginSend, Send, RecordArrival, TimeOut, FindWriterGone, LeaveWaiters
<1>4. \E y : response' = [response EXCEPT ![r] = y]
  <2>1. UNCHANGED response => response' = [response EXCEPT ![r] = response[r]]
    BY <1>0
  <2> QED BY <2>1 DEF Arrive, HandlerStep, Disconnect, FailDecode, CatchPanic, Reject, Answer,
         RejectEmpty, BeginSend, Send, RecordArrival, TimeOut, FindWriterGone, LeaveWaiters
<1>5. \A q \in Requests : q # r => handler'[q] = handler[q] /\ response'[q] = response[q]
  BY <1>0, <1>3, <1>4
<1>6. RecordArrival(r) \/ (UNCHANGED arrivals /\ Acknowledged' = Acknowledged)
  <2> SUFFICES ASSUME ~RecordArrival(r) PROVE UNCHANGED arrivals /\ Acknowledged' = Acknowledged
    OBVIOUS
  <2>1. UNCHANGED arrivals
    BY DEF Arrive, HandlerStep, Disconnect, FailDecode, CatchPanic, Reject,
           RejectEmpty, BeginSend, Send, TimeOut, FindWriterGone, LeaveWaiters, receiverVars
  <2>2. ~(handler[r] = "answered" /\ response[r] = "ok")
    BY DEF Arrive, HandlerStep, Disconnect, FailDecode, CatchPanic, Retryable,
           RejectEmpty, BeginSend, Send, TimeOut, FindWriterGone
  <2>3. ~(handler'[r] = "answered" /\ response'[r] = "ok")
    BY <1>0 DEF Arrive, HandlerStep, Disconnect, FailDecode, CatchPanic, Reject, Answer,
           RejectEmpty, BeginSend, Send, TimeOut, FindWriterGone, LeaveWaiters
  <2>4. Acknowledged' = Acknowledged
    BY <1>5, <2>2, <2>3 DEF Acknowledged
  <2> QED BY <2>1, <2>4
<1>7. \/ UNCHANGED <<ring, rejected>>
      \/ \E e \in RejectRecord :
           e.request = r /\ ring' = Pushed(ring, e) /\ rejected' = Append(rejected, e)
  <2>1. ASSUME NEW reason \in {"panic", "empty_payload"}, NEW answer, Reject(r, reason, answer)
        PROVE  \E e \in RejectRecord :
                 e.request = r /\ ring' = Pushed(ring, e) /\ rejected' = Append(rejected, e)
    <3> DEFINE e == [reason |-> reason, request |-> r]
    <3>1. e \in RejectRecord /\ e.request = r
      BY DEF RejectRecord
    <3>2. ring' = Pushed(ring, e) /\ rejected' = Append(rejected, e)
      BY <2>1 DEF Reject
    <3> QED BY <3>1, <3>2
  <2>2. CASE CatchPanic(r) \/ RejectEmpty(r)
    BY <2>1, <2>2 DEF CatchPanic, RejectEmpty
  <2>3. CASE ~(CatchPanic(r) \/ RejectEmpty(r))
    BY <2>3 DEF Arrive, HandlerStep, Disconnect, FailDecode, receiverVars,
         BeginSend, Send, RecordArrival, TimeOut, FindWriterGone, LeaveWaiters
  <2> QED BY <2>2, <2>3
<1> QED BY <1>1, <1>2, <1>5, <1>6, <1>7

(***************************************************************************)
(* The arrival of a request is added to those of its transport once.       *)
(***************************************************************************)
LEMMA ArrivalsStep ==
  ASSUME IngestInv, IngestInv', ArrivalsCounted, [IngestNext]_ingestVars
  PROVE  ArrivalsCounted' /\ \A t \in Transports : arrivals[t] <= arrivals'[t]
<1>0. /\ arrivals \in [Transports -> Nat] /\ arrivals' \in [Transports -> Nat]
      /\ handler \in [Requests -> {"idle", "received", "sending", "sent", "answered"}]
      /\ response \in [Requests -> Optional(Answers)]
  BY DEF IngestInv, IngestTypeOK
<1>1. CASE UNCHANGED arrivals /\ Acknowledged' = Acknowledged
  <2>1. \A t \in Transports : AcknowledgedOn(t)' = AcknowledgedOn(t)
    BY <1>1 DEF AcknowledgedOn
  <2>2. ArrivalsCounted'
    BY <1>1, <2>1 DEF ArrivalsCounted
  <2> QED BY <1>0, <1>1, <2>2
<1>2. ASSUME NEW r \in Requests, RecordArrival(r)
      PROVE  ArrivalsCounted' /\ \A t \in Transports : arrivals[t] <= arrivals'[t]
  <2> DEFINE u == Transport[r]
  <2>1. /\ handler[r] = "sent" /\ handler' = [handler EXCEPT ![r] = "answered"]
        /\ response' = [response EXCEPT ![r] = "ok"]
        /\ arrivals' = [arrivals EXCEPT ![u] = arrivals[u] + Len(BatchOf(r).spans)]
    BY <1>2 DEF RecordArrival, Answer
  <2>2. u \in Transports
    BY IngestAssumption
  <2>3. r \notin Acknowledged /\ Acknowledged' = Acknowledged \cup {r} /\ r \in Delivered
    BY <1>0, <2>1 DEF Acknowledged, Delivered
  <2>4. SpanCounts[r] = Len(BatchOf(r).spans) /\ SpanCounts[r] \in Nat
    BY <2>3, DeliveredFinite
  <2>5. ASSUME NEW t \in Transports, t # u
        PROVE  arrivals'[t] = arrivals[t] /\ AcknowledgedOn(t)' = AcknowledgedOn(t)
    BY <1>0, <2>1, <2>3, <2>5 DEF AcknowledgedOn
  <2>6. /\ arrivals'[u] = SumFunctionOnSet(SpanCounts, AcknowledgedOn(u)')
        /\ arrivals[u] <= arrivals'[u]
    <3>1. AcknowledgedOn(u)' = AcknowledgedOn(u) \cup {r} /\ r \notin AcknowledgedOn(u)
      BY <2>3 DEF AcknowledgedOn
    <3> DEFINE A == AcknowledgedOn(u) \cup {r}
    <3>2. IsFiniteSet(A) /\ \A x \in A : SpanCounts[x] \in Nat
      <4>1. A \subseteq Delivered /\ IsFiniteSet(Delivered)
        BY <2>3, DeliveredFinite DEF AcknowledgedOn
      <4>2. \A x \in Delivered : SpanCounts[x] \in Nat
        BY DeliveredFinite
      <4> HIDE DEF A
      <4> QED BY <4>1, <4>2, FS_Subset
    <3>3. A \ {r} = AcknowledgedOn(u) /\ r \in A
      BY <3>1
    <3> HIDE DEF A
    <3>4. SumFunctionOnSet(SpanCounts, A) = SpanCounts[r] + SumFunctionOnSet(SpanCounts, A \ {r})
      BY <3>2, <3>3, SumRemove
    <3>5. arrivals[u] = SumFunctionOnSet(SpanCounts, AcknowledgedOn(u)) /\ arrivals[u] \in Nat
      BY <1>0, <2>2 DEF ArrivalsCounted
    <3>6. arrivals'[u] = arrivals[u] + SpanCounts[r]
      BY <1>0, <2>1, <2>2, <2>4
    <3>7. arrivals'[u] = SumFunctionOnSet(SpanCounts, A)
      <4>1. SumFunctionOnSet(SpanCounts, A) = SpanCounts[r] + arrivals[u]
        BY <3>3, <3>4, <3>5
      <4> QED BY <2>4, <3>5, <3>6, <4>1
    <3>8. AcknowledgedOn(u)' = A
      BY <3>1 DEF A
    <3> QED BY <2>4, <3>5, <3>6, <3>7, <3>8
  <2> HIDE DEF u
  <2>7. ASSUME NEW t \in Transports
        PROVE  /\ arrivals'[t] = SumFunctionOnSet(SpanCounts, AcknowledgedOn(t)')
               /\ arrivals[t] <= arrivals'[t]
    <3>1. CASE t = u
      BY <2>6, <3>1
    <3>2. CASE t # u
      BY <1>0, <2>5, <3>2 DEF ArrivalsCounted
    <3> QED BY <3>1, <3>2
  <2> QED BY <2>7 DEF ArrivalsCounted, AcknowledgedOn
<1>3. CASE \E r \in Requests : Arrive(r) \/ HandlerStep(r) \/ Disconnect(r)
  BY <1>1, <1>2, <1>3, HandlerEffect
<1>4. CASE WriterRecv \/ WriterApply \/ WriterDies \/ UNCHANGED ingestVars
  <2>1. UNCHANGED <<arrivals, handler, response>>
    BY <1>4 DEF WriterRecv, WriterApply, WriterDies, ingestVars, handlingVars, receiverVars
  <2> QED BY <1>1, <2>1 DEF Acknowledged
<1> QED BY <1>3, <1>4 DEF IngestNext, DeliveryStep

(***************************************************************************)
(* The two writers stay in step.                                           *)
(***************************************************************************)
LEMMA InStepStep ==
  ASSUME PartsInv, WriterInStep, MalformedInHand, [PipelineNext]_pipelineVars
  PROVE  WriterInStep' /\ MalformedInHand'
<1>0. /\ queue \in Seq(Requests) /\ None \notin Requests /\ "dead" \notin Requests
      /\ pc \in {"recv", "append", "attrs", "evict", "notify"}
  BY IngestAssumption DEF PartsInv, IngestInv, IngestTypeOK, IInv, TypeOK
<1>1. CASE UNCHANGED <<writer, pc, malformed>>
  BY <1>1 DEF WriterInStep, MalformedInHand, WriterAlive, LockHeld
<1>2. CASE Handlers
  <2>1. UNCHANGED <<writer, pc, malformed>>
    BY <1>2, HandlerEffect DEF Handlers, PartsInv, deliveryVars, vars, writerVars
  <2> QED BY <1>1, <2>1
<1>3. CASE TakeBatch
  <2>1. queue # <<>> /\ writer' = Head(queue) /\ pc' = "append"
    BY <1>3 DEF TakeBatch, WriterRecv, Ready, Recv
  <2> QED BY <1>0, <2>1 DEF WriterInStep, MalformedInHand, LockHeld
<1>4. CASE WorkOnBatch
  <2>1. UNCHANGED writer /\ WriterAlive
    BY <1>4 DEF WorkOnBatch, ingestVars, deliveryVars
  <2>2. CASE BeginSpan \/ InternAttr \/ InsertSpan \/ EndAppend \/ \E t \in TraceIds : EvictOldest(t)
    <3>1. LockHeld /\ LockHeld'
      BY <2>2 DEF BeginSpan, InternAttr, InsertSpan, InsertRow, EndAppend, EvictOldest, LockHeld,
                  writerVars
    <3>2. MalformedInHand'
      BY <2>2 DEF BeginSpan, InternAttr, InsertSpan, InsertRow, EndAppend, EvictOldest,
                  writerVars, MalformedInHand
    <3> QED BY <2>1, <3>1, <3>2 DEF WriterInStep, WriterAlive
  <2>3. CASE Notify
    BY <2>1, <2>3 DEF Notify, WriterInStep, WriterAlive, LockHeld, MalformedInHand
  <2> QED BY <1>4, <2>2, <2>3 DEF WorkOnBatch
<1>5. CASE FinishBatch
  <2>1. writer' = None /\ pc' = "notify" /\ pc = "evict" /\ UNCHANGED malformed
    BY <1>5 DEF FinishBatch, WriterApply, Release, AfterRelease
  <2> QED BY <1>0, <2>1 DEF WriterInStep, LockHeld, MalformedInHand
<1>6. CASE WriterPanics
  <2>1. writer' = "dead" /\ UNCHANGED <<pc, malformed>>
    BY <1>6 DEF WriterPanics, WriterDies, vars, writerVars
  <2> QED BY <2>1 DEF WriterInStep, WriterAlive, MalformedInHand
<1>7. CASE ReadCounters \/ ReadReceiver \/ UNCHANGED pipelineVars
  <2>1. UNCHANGED <<ingestVars, vars>>
    BY <1>7 DEF ReadCounters, ReadReceiver, pipelineVars
  <2>2. UNCHANGED <<writer, pc, malformed>>
    BY <2>1 DEF ingestVars, deliveryVars, vars, writerVars
  <2> QED BY <1>1, <2>2
<1> QED BY <1>2, <1>3, <1>4, <1>5, <1>6, <1>7 DEF PipelineNext

(***************************************************************************)
(* The malformed spans of a batch are counted with it, once.               *)
(***************************************************************************)
LEMMA MalformedStep ==
  ASSUME PartsInv, WriterInStep, MalformedInHand, MalformedCounted, [PipelineNext]_pipelineVars
  PROVE  MalformedCounted'
<1>0. /\ IngestInv /\ OnePlace /\ queue \in Seq(Requests) /\ applied \in Seq(Requests)
      /\ None \notin Requests /\ "dead" \notin Requests
      /\ counters \in CountersType /\ malformed \in Nat
  BY IngestAssumption DEF PartsInv, IngestInv, IngestTypeOK, IInv, TypeOK
<1>1. ASSUME UNCHANGED <<writer, applied>>,
             counters'.malformedSpan + malformed' = counters.malformedSpan + malformed
      PROVE  MalformedCounted'
  BY <1>1 DEF MalformedCounted, Applied, Held, WriterAlive
<1>2. CASE Handlers
  <2>1. UNCHANGED <<writer, applied, counters, malformed>>
    BY <1>0, <1>2, HandlerEffect DEF Handlers, deliveryVars, vars, writerVars, storeVars
  <2> QED BY <1>1, <2>1
<1>3. CASE TakeBatch
  <2> DEFINE x == Head(queue)
             A == Range(applied) \cup {x}
  <2>1. /\ queue # <<>> /\ writer = None /\ writer' = x /\ pc = "recv"
        /\ malformed' = BatchOf(x).malformed /\ UNCHANGED <<counters, applied>>
    BY <1>3 DEF TakeBatch, WriterRecv, Ready, Recv, storeVars
  <2>2. malformed = 0 /\ Held = {}
    BY <1>0, <2>1 DEF MalformedInHand, Held
  <2>3. x \in Requests /\ x \in Range(queue)
    BY <1>0, <2>1, RangeTail
  <2>4. x \in Delivered /\ x \notin Range(applied)
    BY <1>0, <2>3 DEF OnePlace
  <2>5. (Applied \cup Held)' = A /\ Applied \cup Held = Range(applied)
    BY <2>1, <2>2, <2>3 DEF Applied, Held
  <2>6. IsFiniteSet(A) /\ (\A y \in A : MalformedCounts[y] \in Nat)
        /\ MalformedCounts[x] = BatchOf(x).malformed
    <3>1. A \subseteq Delivered /\ IsFiniteSet(Delivered)
      BY <1>0, <2>4, DeliveredFinite
    <3>2. \A y \in Delivered : MalformedCounts[y] \in Nat /\ MalformedCounts[y] = BatchOf(y).malformed
      BY <1>0, DeliveredFinite
    <3> HIDE DEF A, x
    <3> QED BY <2>4, <3>1, <3>2, FS_Subset
  <2>7. A \ {x} = Range(applied) /\ x \in A
    BY <2>4
  <2> HIDE DEF A, x
  <2>8. /\ SumFunctionOnSet(MalformedCounts, A)
             = MalformedCounts[x] + SumFunctionOnSet(MalformedCounts, Range(applied))
    BY <2>6, <2>7, SumRemove
  <2>9. counters.malformedSpan + 0 = SumFunctionOnSet(MalformedCounts, Range(applied))
    BY <2>1, <2>2, <2>5, IngestAssumption DEF MalformedCounted, WriterAlive
  <2>10. counters.malformedSpan \in Nat /\ MalformedCounts[x] \in Nat
    BY <1>0, <2>6, <2>7 DEF CountersType
  <2>11. counters'.malformedSpan + malformed' = SumFunctionOnSet(MalformedCounts, A)
    BY <2>1, <2>6, <2>8, <2>9, <2>10
  <2> QED BY <2>5, <2>11 DEF MalformedCounted
<1>4. CASE WorkOnBatch
  <2>1. UNCHANGED <<writer, applied>>
    BY <1>4 DEF WorkOnBatch, ingestVars, deliveryVars
  <2>2. CASE BeginSpan \/ InternAttr \/ Notify
    BY <1>1, <2>1, <2>2 DEF BeginSpan, InternAttr, Notify, storeVars
  <2>3. CASE InsertSpan
    <3>1. counters'.malformedSpan = counters.malformedSpan /\ UNCHANGED malformed
      BY <1>0, <2>3 DEF InsertSpan, InsertRow, CountersType
    <3> QED BY <1>1, <2>1, <3>1
  <2>4. CASE EndAppend
    <3>1. counters'.malformedSpan = counters.malformedSpan + malformed /\ malformed' = 0
      BY <1>0, <2>4 DEF EndAppend, MalformedTotal, CountersType
    <3>2. counters.malformedSpan \in Nat
      BY <1>0 DEF CountersType
    <3> QED BY <1>0, <1>1, <2>1, <3>1, <3>2
  <2>5. CASE \E t \in TraceIds : EvictOldest(t)
    <3>1. counters'.malformedSpan = counters.malformedSpan /\ UNCHANGED malformed
      BY <1>0, <2>5 DEF EvictOldest, CountersType, writerVars
    <3> QED BY <1>1, <2>1, <3>1
  <2> QED BY <1>4, <2>2, <2>3, <2>4, <2>5 DEF WorkOnBatch
<1>5. CASE FinishBatch
  <2>1. /\ writer \in Requests /\ applied' = Append(applied, writer) /\ writer' = None
        /\ UNCHANGED <<counters, malformed>>
    BY <1>5 DEF FinishBatch, WriterApply, Release, storeVars
  <2>2. Range(applied') = Range(applied) \cup {writer}
    BY <1>0, <2>1, RangeAppend
  <2>3. Held = {writer} /\ Held' = {} /\ WriterAlive
    BY <1>0, <2>1 DEF Held, WriterAlive
  <2>4. (Applied \cup Held)' = Applied \cup Held
    BY <2>2, <2>3 DEF Applied
  <2> QED BY <2>1, <2>3, <2>4 DEF MalformedCounted
<1>6. CASE WriterPanics
  BY <1>6 DEF WriterPanics, WriterDies, MalformedCounted, WriterAlive
<1>7. CASE ReadCounters \/ ReadReceiver \/ UNCHANGED pipelineVars
  <2>1. UNCHANGED <<ingestVars, vars>>
    BY <1>7 DEF ReadCounters, ReadReceiver, pipelineVars
  <2>2. UNCHANGED <<writer, applied, counters, malformed>>
    BY <2>1 DEF ingestVars, deliveryVars, vars, writerVars, storeVars
  <2> QED BY <1>1, <2>2
<1> QED BY <1>2, <1>3, <1>4, <1>5, <1>6, <1>7 DEF PipelineNext

(***************************************************************************)
(* A request is passed over as empty, or refused, only by the two rejects. *)
(***************************************************************************)
LEMMA RejectedHow ==
  ASSUME IngestInv, NEW r \in Requests, Arrive(r) \/ HandlerStep(r) \/ Disconnect(r),
         r \in Answered'
  PROVE  /\ response'[r] = "empty" => RejectEmpty(r)
         /\ response'[r] = "internal" => CatchPanic(r) \/ ~WriterAlive
<1>1. /\ handler \in [Requests -> {"idle", "received", "sending", "sent", "answered"}]
      /\ response \in [Requests -> Optional(Answers)]
  BY DEF IngestInv, IngestTypeOK
<1>2. handler'[r] = "answered"
  BY DEF Answered
<1>3. CASE Arrive(r) \/ BeginSend(r) \/ Send(r)
  BY <1>1, <1>2, <1>3 DEF Arrive, BeginSend, Send
<1>4. CASE FailDecode(r) \/ RecordArrival(r) \/ TimeOut(r) \/ Disconnect(r)
  BY <1>1, <1>4 DEF FailDecode, RecordArrival, TimeOut, Disconnect, LeaveWaiters, Answer
<1>5. CASE CatchPanic(r)
  BY <1>1, <1>5 DEF CatchPanic, Reject, Answer
<1>6. CASE RejectEmpty(r)
  BY <1>1, <1>6 DEF RejectEmpty, Reject, Answer
<1>7. CASE FindWriterGone(r)
  BY <1>1, <1>7 DEF FindWriterGone, LeaveWaiters, Answer
<1> QED BY <1>3, <1>4, <1>5, <1>6, <1>7 DEF HandlerStep

(***************************************************************************)
(* Only what converts to the error is passed over as empty.                *)
(***************************************************************************)
LEMMA EmptyStep ==
  ASSUME IngestInv, EmptyHadNone, [IngestNext]_ingestVars PROVE EmptyHadNone'
<1>1. CASE \E r \in Requests : Arrive(r) \/ HandlerStep(r) \/ Disconnect(r)
  <2>1. PICK r \in Requests : Arrive(r) \/ HandlerStep(r) \/ Disconnect(r)
    BY <1>1
  <2>2. \A q \in Requests : q # r => handler'[q] = handler[q] /\ response'[q] = response[q]
    BY <2>1, HandlerEffect
  <2>3. ASSUME NEW q \in Answered', response'[q] = "empty"
        PROVE  Decoded[q] # None /\ BatchOf(q) = EmptyPayload
    <3>1. CASE q = r
      BY <2>1, <2>3, <3>1, RejectedHow DEF RejectEmpty
    <3>2. CASE q # r
      BY <2>2, <2>3, <3>2 DEF Answered, EmptyHadNone
    <3> QED BY <3>1, <3>2
  <2> QED BY <2>3 DEF EmptyHadNone
<1>2. CASE WriterRecv \/ WriterApply \/ WriterDies \/ UNCHANGED ingestVars
  <2>1. UNCHANGED <<handler, response>>
    BY <1>2 DEF WriterRecv, WriterApply, WriterDies, ingestVars, handlingVars
  <2> QED BY <2>1 DEF EmptyHadNone, Answered
<1> QED BY <1>1, <1>2 DEF IngestNext, DeliveryStep

(***************************************************************************)
(* Before the first request nothing is counted.                            *)
(***************************************************************************)
LEMMA InitCount == PipelineInit => CountInv
<1> SUFFICES ASSUME PipelineInit PROVE CountInv
  OBVIOUS
<1>1. /\ writer = None /\ pc = "recv" /\ malformed = 0 /\ applied = <<>>
      /\ counters.malformedSpan = 0 /\ arrivals = [t \in Transports |-> 0]
      /\ \A r \in Requests : handler[r] = "idle"
      /\ None \notin Requests
  BY IngestAssumption DEF PipelineInit, IngestInit, Init
<1>2. WriterInStep /\ MalformedInHand
  BY <1>1 DEF WriterInStep, LockHeld, MalformedInHand
<1>3. ArrivalsCounted
  <2>1. \A t \in Transports : AcknowledgedOn(t) = {}
    BY <1>1 DEF AcknowledgedOn, Acknowledged
  <2> QED BY <1>1, <2>1, SumEmpty DEF ArrivalsCounted
<1>4. MalformedCounted
  <2>1. Applied \cup Held = {}
    BY <1>1 DEF Applied, Held, Range
  <2>2. SumFunctionOnSet(MalformedCounts, Applied \cup Held) = 0
    BY <2>1, SumEmpty
  <2> QED BY <1>1, <2>2 DEF MalformedCounted
<1>5. EmptyHadNone
  BY <1>1 DEF EmptyHadNone, Answered
<1> QED BY <1>2, <1>3, <1>4, <1>5 DEF CountInv

(***************************************************************************)
(* The books of the pipeline are right in every reachable state.           *)
(***************************************************************************)
LEMMA CountInductive == PipelineSpec => [](PartsInv /\ CountInv)
<1>1. PartsInv /\ PartsInv' /\ CountInv /\ [PipelineNext]_pipelineVars => CountInv'
  <2> SUFFICES ASSUME PartsInv, PartsInv', CountInv, [PipelineNext]_pipelineVars PROVE CountInv'
    OBVIOUS
  <2>1. /\ IngestInv /\ IngestInv' /\ WriterInStep /\ MalformedInHand /\ ArrivalsCounted
        /\ MalformedCounted /\ EmptyHadNone
    BY DEF PartsInv, CountInv
  <2>2. WriterInStep' /\ MalformedInHand'
    BY <2>1, InStepStep
  <2>3. [IngestNext]_ingestVars
    BY <2>1, StepOfParts
  <2>4. ArrivalsCounted'
    BY <2>1, <2>3, ArrivalsStep
  <2>5. MalformedCounted'
    BY <2>1, MalformedStep
  <2>6. EmptyHadNone'
    BY <2>1, <2>3, EmptyStep
  <2> QED BY <2>2, <2>4, <2>5, <2>6 DEF CountInv
<1> QED BY <1>1, InitCount, PartsInductive, PTL DEF PipelineSpec

(***************************************************************************)
(* What converts to the error has no span in any group.                    *)
(***************************************************************************)
LEMMA EmptyHasNone ==
  ASSUME NEW r \in Requests, Decoded[r] # None, BatchOf(r) = EmptyPayload
  PROVE  SpansSent(r) = 0
<1> DEFINE groups == 1..Len(Decoded[r])
           h == [g \in groups |-> Len(Decoded[r][g].spans)]
<1>1. Len(Decoded[r]) \in Nat /\ \A g \in groups : Len(Decoded[r][g].spans) \in Nat
  BY DecodedAssumption
<1>2. ~SawAnySpan(Decoded[r])
  BY ErrorAssumption
<1>3. \A g \in groups : h[g] \in Nat /\ h[g] = h[g] + h[g]
  BY <1>1, <1>2 DEF SawAnySpan
<1>4. IsFiniteSet(groups)
  BY <1>1, FS_Interval
<1>5. SpansSent(r) = SumFunctionOnSet(h, groups)
  BY DEF SpansSent
<1> HIDE DEF groups, h
<1>6. SumFunctionOnSet(h, groups) = SumFunctionOnSet(h, groups) + SumFunctionOnSet(h, groups)
  BY ONLY <1>3, <1>4, SumOfSums
<1>7. SumFunctionOnSet(h, groups) \in Nat
  BY <1>3, <1>4, SumRemove
<1>8. \A x \in Nat : x = x + x => x = 0
  OBVIOUS
<1> QED BY ONLY <1>5, <1>6, <1>7, <1>8, Zenon

(***************************************************************************)
(* Spans and malformed spans of what was applied add up to what was sent.  *)
(***************************************************************************)
LEMMA CountsAddUp == PartsInv /\ CountInv => NumbersAddUp
<1>5. ASSUME CountInv, NEW r \in Answered, response[r] = "empty" PROVE SpansSent(r) = 0
  <2>1. r \in Requests /\ Decoded[r] # None /\ BatchOf(r) = EmptyPayload
    BY <1>5 DEF CountInv, EmptyHadNone, Answered
  <2> QED BY <2>1, EmptyHasNone
<1> SUFFICES ASSUME PartsInv, CountInv, AtRest, Applied = Acknowledged, Applied = Delivered
             PROVE  SumFunctionOnSet([r \in Applied |-> SpansSent(r)], Applied)
                      = SumFunctionOnSet(arrivals, Transports) + counters.malformedSpan
  BY <1>5 DEF NumbersAddUp
<1>0. IngestInv /\ WriterInStep /\ MalformedInHand /\ ArrivalsCounted /\ MalformedCounted
  BY DEF PartsInv, CountInv
<1>1. /\ IsFiniteSet(Applied)
      /\ \A r \in Applied : /\ SpanCounts[r] \in Nat /\ MalformedCounts[r] \in Nat
                            /\ SpansSent(r) = SpanCounts[r] + MalformedCounts[r]
      /\ Applied \subseteq Requests
  BY <1>0, DeliveredFinite
<1> DEFINE sent == [r \in Applied |-> SpansSent(r)]
           spans == SumFunctionOnSet(SpanCounts, Applied)
           bad == SumFunctionOnSet(MalformedCounts, Applied)
<1>2. SumFunctionOnSet(sent, Applied) = spans + bad
  <2>1. \A r \in Applied : /\ SpanCounts[r] \in Nat /\ MalformedCounts[r] \in Nat
                           /\ sent[r] = SpanCounts[r] + MalformedCounts[r]
    BY <1>1
  <2> HIDE DEF sent
  <2> QED BY <1>1, <2>1, SumOfSums
<1>3. counters.malformedSpan = bad
  <2>1. malformed = 0 /\ Held = {} /\ WriterAlive
    BY <1>0 DEF AtRest, MalformedInHand, WriterInStep, LockHeld, Held
  <2>2. counters.malformedSpan + 0 = bad
    <3>1. Applied \cup Held = Applied
      BY <2>1
    <3> QED BY <1>0, <2>1, <3>1 DEF MalformedCounted
  <2>3. counters.malformedSpan \in Nat
    BY DEF PartsInv, IInv, TypeOK, CountersType
  <2> QED BY <2>2, <2>3
<1>4. SumFunctionOnSet(arrivals, Transports) = spans
  <2> DEFINE a == "grpc_v4317"
             b == "http_protobuf_v4318"
             c == "http_json_v4318"
             OnA == AcknowledgedOn(a)
             OnB == AcknowledgedOn(b)
             OnC == AcknowledgedOn(c)
  <2>1. Transports = {a, b, c} /\ a # b /\ a # c /\ b # c
    BY DEF Transports
  <2>2. arrivals \in [Transports -> Nat]
    BY <1>0 DEF IngestInv, IngestTypeOK
  <2>3. /\ arrivals[a] = SumFunctionOnSet(SpanCounts, OnA)
        /\ arrivals[b] = SumFunctionOnSet(SpanCounts, OnB)
        /\ arrivals[c] = SumFunctionOnSet(SpanCounts, OnC)
    BY <1>0, <2>1 DEF ArrivalsCounted
  <2>4. SumFunctionOnSet(arrivals, Transports) = arrivals[a] + arrivals[b] + arrivals[c]
    <3> HIDE DEF a, b, c
    <3>1. IsFiniteSet({a}) /\ IsFiniteSet({b}) /\ IsFiniteSet({c})
      BY FS_Singleton
    <3>2. IsFiniteSet({a, b})
      <4>1. {a, b} = {a} \cup {b}
        OBVIOUS
      <4> QED BY <3>1, <4>1, FS_Union
    <3>3. ASSUME NEW x \in Transports PROVE SumFunctionOnSet(arrivals, {x}) = arrivals[x]
      <4>1. {x} \ {x} = {} /\ x \in {x} /\ \A y \in {x} : arrivals[y] \in Nat
        BY <2>2
      <4>2. SumFunctionOnSet(arrivals, {x}) = arrivals[x] + SumFunctionOnSet(arrivals, {x} \ {x})
        BY <4>1, FS_Singleton, SumRemove
      <4>3. SumFunctionOnSet(arrivals, {x} \ {x}) = 0
        BY <4>1, SumEmpty
      <4> QED BY <2>2, <4>2, <4>3
    <3>4. SumFunctionOnSet(arrivals, {a} \cup {b}) = arrivals[a] + arrivals[b]
      <4>1. {a} \cap {b} = {} /\ \A x \in {a} \cup {b} : arrivals[x] \in Nat
        BY <2>1, <2>2
      <4> QED BY <2>1, <3>1, <3>3, <4>1, SumOfUnion
    <3>5. SumFunctionOnSet(arrivals, {a, b} \cup {c})
            = SumFunctionOnSet(arrivals, {a, b}) + SumFunctionOnSet(arrivals, {c})
      <4>1. {a, b} \cap {c} = {} /\ \A x \in {a, b} \cup {c} : arrivals[x] \in Nat
        BY <2>1, <2>2
      <4> QED BY <3>1, <3>2, <4>1, SumOfUnion
    <3>6. {a} \cup {b} = {a, b} /\ {a, b} \cup {c} = Transports
      BY <2>1
    <3> QED BY <2>1, <3>3, <3>4, <3>5, <3>6
  <2>5. /\ OnA \cup OnB \cup OnC = Applied
        /\ OnA \cap OnB = {} /\ (OnA \cup OnB) \cap OnC = {}
    <3>1. \A r \in Applied : Transport[r] \in {a, b, c}
      BY <1>1, <2>1, IngestAssumption
    <3> QED BY <2>1, <3>1 DEF AcknowledgedOn
  <2> HIDE DEF OnA, OnB, OnC, a, b, c
  <2>6. IsFiniteSet(OnA) /\ IsFiniteSet(OnB) /\ IsFiniteSet(OnC) /\ IsFiniteSet(OnA \cup OnB)
    <3>1. OnA \subseteq Applied /\ OnB \subseteq Applied /\ OnC \subseteq Applied
          /\ OnA \cup OnB \subseteq Applied
      BY <2>5
    <3> QED BY <1>1, <3>1, FS_Subset
  <2>7. SumFunctionOnSet(SpanCounts, OnA \cup OnB)
          = SumFunctionOnSet(SpanCounts, OnA) + SumFunctionOnSet(SpanCounts, OnB)
    <3>1. \A r \in OnA \cup OnB : SpanCounts[r] \in Nat
      BY <1>1, <2>5
    <3> QED BY <2>5, <2>6, <3>1, SumOfUnion
  <2>8. SumFunctionOnSet(SpanCounts, (OnA \cup OnB) \cup OnC)
          = SumFunctionOnSet(SpanCounts, OnA \cup OnB) + SumFunctionOnSet(SpanCounts, OnC)
    <3>1. \A r \in (OnA \cup OnB) \cup OnC : SpanCounts[r] \in Nat
      BY <1>1, <2>5
    <3> QED BY <2>5, <2>6, <3>1, SumOfUnion
  <2> QED BY <2>3, <2>4, <2>5, <2>7, <2>8
<1> QED BY <1>2, <1>3, <1>4

(***************************************************************************)
(* When nothing is between its send, its arrival count and its application *)
(* the numbers of the handlers and of the store add up to what was sent.   *)
(***************************************************************************)
THEOREM NumbersAlwaysAddUp == PipelineSpec => []NumbersAddUp
BY CountsAddUp, CountInductive, PTL

-----------------------------------------------------------------------------
(* What /api/receiver shows.                                               *)

(***************************************************************************)
(* The log with one more reject holds the last of one more.                *)
(***************************************************************************)
LEMMA LogPushed ==
  ASSUME NEW log, NEW all \in Seq(RejectRecord), LastOf(log, all, Len(all)),
         NEW e \in RejectRecord
  PROVE  LastOf(Pushed(log, e), Append(all, e), Len(all) + 1)
<1> DEFINE m == Len(all)
           more == Append(all, e)
           new == Pushed(log, e)
<1>1. RingCapacity \in Nat /\ RingCapacity >= 1
  BY IngestAssumption
<1>3. m \in Nat /\ more[m + 1] = e /\ \A i \in 1..m : more[i] = all[i]
  OBVIOUS
<1>0. LastOf(log, all, m)
  OBVIOUS
<1> HIDE DEF m, more
<1>6. log \in Seq(RejectRecord) /\ Len(log) \in Nat
  BY <1>0 DEF LastOf
<1>7. Len(log) = IF m < RingCapacity THEN m ELSE RingCapacity
  BY <1>0 DEF LastOf
<1>8. \A j \in 1..Len(log) : log[j] = all[m - Len(log) + j]
  BY <1>0 DEF LastOf
<1>2. Len(log) <= m /\ (Len(log) # RingCapacity => Len(log) = m /\ m < RingCapacity)
      /\ (Len(log) = RingCapacity => m >= RingCapacity)
  BY <1>1, <1>3, <1>7
<1>4. CASE Len(log) = RingCapacity
  <2>1. log # <<>>
    BY <1>1, <1>4
  <2>2. /\ Tail(log) \in Seq(RejectRecord) /\ Len(Tail(log)) = Len(log) - 1
        /\ \A j \in 1..(Len(log) - 1) : Tail(log)[j] = log[j + 1]
    BY <1>6, <2>1, HeadTailProperties
  <2> DEFINE t == Tail(log)
  <2>3. new = Append(t, e)
    BY <1>4 DEF Pushed
  <2> HIDE DEF t, new
  <2>4. /\ new \in Seq(RejectRecord) /\ Len(new) = Len(log)
        /\ new[Len(log)] = e /\ \A j \in 1..(Len(log) - 1) : new[j] = t[j]
    BY <1>1, <1>2, <1>3, <1>6, <1>4, <2>2, <2>3 DEF t
  <2>5. ASSUME NEW j \in 1..Len(new) PROVE new[j] = more[(m + 1) - Len(new) + j]
    <3>1. CASE j = Len(log)
      <4>1. (m + 1) - Len(new) + j = m + 1
        BY <1>2, <1>3, <1>6, <2>4, <3>1
      <4> QED BY <1>3, <2>4, <3>1, <4>1
    <3>2. CASE j # Len(log)
      <4>1. j \in 1..(Len(log) - 1) /\ j + 1 \in 1..Len(log)
        BY <1>2, <1>3, <1>6, <2>4, <3>2
      <4>2. new[j] = log[j + 1]
        BY <2>2, <2>4, <4>1 DEF t
      <4>3. log[j + 1] = all[m - Len(log) + (j + 1)]
        BY <1>8, <4>1
      <4>4. m - Len(log) + (j + 1) = (m + 1) - Len(new) + j
            /\ m - Len(log) + (j + 1) \in 1..m
        BY <1>2, <1>3, <1>6, <2>4, <4>1
      <4> QED BY <1>3, <4>2, <4>3, <4>4
    <3> QED BY <3>1, <3>2
  <2>6. Len(new) = IF m + 1 < RingCapacity THEN m + 1 ELSE RingCapacity
    BY <1>1, <1>2, <1>3, <1>6, <1>4, <2>4
  <2>7. new \in Seq(RejectRecord)
    BY <2>4
  <2>8. LastOf(new, more, m + 1)
    BY ONLY <2>5, <2>6, <2>7 DEF LastOf
  <2> QED BY <2>8 DEF new, m, more
<1>5. CASE Len(log) # RingCapacity
  <2>1. new = Append(log, e) /\ Len(log) = m /\ m < RingCapacity
    BY <1>2, <1>3, <1>6, <1>5 DEF Pushed
  <2> HIDE DEF new
  <2>2. /\ new \in Seq(RejectRecord) /\ Len(new) = m + 1
        /\ new[m + 1] = e /\ \A j \in 1..m : new[j] = log[j]
    BY <1>2, <1>3, <1>6, <2>1
  <2>3. ASSUME NEW j \in 1..Len(new) PROVE new[j] = more[(m + 1) - Len(new) + j]
    <3>1. (m + 1) - Len(new) + j = j
      BY <1>2, <1>3, <1>6, <2>2
    <3>2. CASE j = m + 1
      BY <1>3, <2>2, <3>1, <3>2
    <3>3. CASE j # m + 1
      <4>1. j \in 1..m /\ m - Len(log) + j = j
        BY <1>2, <1>3, <1>6, <2>1, <2>2, <3>3
      <4>2. log[j] = all[j]
        BY <1>8, <2>1, <4>1
      <4> QED BY <1>3, <2>2, <3>1, <4>1, <4>2
    <3> QED BY <3>2, <3>3
  <2>4. Len(new) = IF m + 1 < RingCapacity THEN m + 1 ELSE RingCapacity
    BY <1>1, <1>2, <1>3, <1>6, <2>1, <2>2
  <2> QED BY <2>2, <2>3, <2>4 DEF LastOf, new, m, more
<1> QED BY <1>4, <1>5

(***************************************************************************)
(* An answer that is not to be retried stays as it is, and a new reject is *)
(* of a request that had none.                                             *)
(***************************************************************************)
LEMMA AnswersKept ==
  ASSUME IngestInv, [IngestNext]_ingestVars
  PROVE  /\ Answered \subseteq Answered'
         /\ \A q \in Answered : response'[q] = response[q]
         /\ \/ UNCHANGED <<ring, rejected>>
            \/ \E e \in RejectRecord :
                 /\ e.request \notin Answered
                 /\ ring' = Pushed(ring, e) /\ rejected' = Append(rejected, e)
<1>1. CASE \E r \in Requests : Arrive(r) \/ HandlerStep(r) \/ Disconnect(r)
  <2>1. PICK r \in Requests : Arrive(r) \/ HandlerStep(r) \/ Disconnect(r)
    BY <1>1
  <2>2. /\ r \notin Answered
        /\ \A q \in Requests : q # r => handler'[q] = handler[q] /\ response'[q] = response[q]
        /\ \/ UNCHANGED <<ring, rejected>>
           \/ \E e \in RejectRecord :
                e.request = r /\ ring' = Pushed(ring, e) /\ rejected' = Append(rejected, e)
    BY <2>1, HandlerEffect
  <2>3. \A q \in Answered : q \in Requests /\ q # r
    BY <2>2 DEF Answered
  <2>4. \A q \in Answered : q \in Answered' /\ response'[q] = response[q]
    BY <2>2, <2>3 DEF Answered
  <2> QED BY <2>2, <2>4
<1>2. CASE WriterRecv \/ WriterApply \/ WriterDies \/ UNCHANGED ingestVars
  <2>1. UNCHANGED <<handler, response, ring, rejected>>
    BY <1>2 DEF WriterRecv, WriterApply, WriterDies, ingestVars, handlingVars, receiverVars
  <2> QED BY <2>1 DEF Answered
<1> QED BY <1>1, <1>2 DEF IngestNext, DeliveryStep

(***************************************************************************)
(* The reject log holds the latest rejects.                                *)
(***************************************************************************)
LEMMA RingStep ==
  ASSUME IngestInv, RingIsLast, [IngestNext]_ingestVars PROVE RingIsLast'
<1>0. rejected \in Seq(RejectRecord)
  BY DEF IngestInv, IngestTypeOK
<1>1. CASE UNCHANGED <<ring, rejected>>
  BY <1>1 DEF RingIsLast, LastOf
<1>2. ASSUME NEW e \in RejectRecord, ring' = Pushed(ring, e), rejected' = Append(rejected, e)
      PROVE  RingIsLast'
  <2>1. LastOf(Pushed(ring, e), Append(rejected, e), Len(rejected) + 1)
    BY <1>0, LogPushed DEF RingIsLast
  <2>2. Len(rejected') = Len(rejected) + 1
    BY <1>0, <1>2
  <2>3. LastOf(ring', rejected', Len(rejected'))
    BY <1>2, <2>1, <2>2
  <2> QED BY <2>3 DEF RingIsLast, LastOf
<1> QED BY <1>1, <1>2, AnswersKept

(***************************************************************************)
(* Every request `accept` refuses has its record.                          *)
(***************************************************************************)
LEMMA RecordedStep ==
  ASSUME IngestInv, RejectsRecorded, [IngestNext]_ingestVars PROVE RejectsRecorded'
<1>0. rejected \in Seq(RejectRecord) /\ Len(rejected) \in Nat
  BY DEF IngestInv, IngestTypeOK
<1>1. CASE \E r \in Requests : Arrive(r) \/ HandlerStep(r) \/ Disconnect(r)
  <2>1. PICK r \in Requests : Arrive(r) \/ HandlerStep(r) \/ Disconnect(r)
    BY <1>1
  <2>2. /\ \A q \in Requests : q # r => handler'[q] = handler[q] /\ response'[q] = response[q]
        /\ writer' = writer
        /\ \/ UNCHANGED <<ring, rejected>>
           \/ \E e \in RejectRecord :
                e.request = r /\ ring' = Pushed(ring, e) /\ rejected' = Append(rejected, e)
    BY <2>1, HandlerEffect DEF deliveryVars
  <2>3. \A i \in 1..Len(rejected) : i \in 1..Len(rejected') /\ rejected'[i] = rejected[i]
    BY <1>0, <2>2
  <2>4. ASSUME NEW q \in Answered', Refused(q)'
        PROVE  \E i \in 1..Len(rejected') : rejected'[i] = RecordOf(q)'
    <3>1. CASE q # r
      <4>1. q \in Answered /\ response'[q] = response[q]
        BY <2>2, <2>4, <3>1 DEF Answered
      <4>2. Refused(q) /\ RecordOf(q)' = RecordOf(q)
        BY <2>2, <2>4, <4>1 DEF Refused, RecordOf, WriterAlive
      <4>3. PICK i \in 1..Len(rejected) : rejected[i] = RecordOf(q)
        BY <4>1, <4>2 DEF RejectsRecorded
      <4> QED BY <2>3, <4>2, <4>3
    <3>2. CASE q = r
      <4>1. \/ response'[r] = "empty" /\ RejectEmpty(r)
            \/ response'[r] = "internal" /\ CatchPanic(r)
        BY <2>1, <2>2, <2>4, <3>2, RejectedHow DEF Refused, WriterAlive
      <4>2. rejected' = Append(rejected, RecordOf(r)')
        <5>1. CASE response'[r] = "empty" /\ RejectEmpty(r)
          BY <5>1 DEF RejectEmpty, Reject, RecordOf
        <5>2. CASE response'[r] = "internal" /\ CatchPanic(r)
          BY <5>2 DEF CatchPanic, Reject, RecordOf
        <5> QED BY <4>1, <5>1, <5>2
      <4> DEFINE e == RecordOf(r)'
      <4>3. rejected' = Append(rejected, e)
        BY <4>2
      <4> HIDE DEF e
      <4>4. Len(rejected') = Len(rejected) + 1 /\ rejected'[Len(rejected) + 1] = e
        BY <1>0, <4>3
      <4>5. Len(rejected) + 1 \in 1..Len(rejected')
        BY <1>0, <4>4
      <4> QED BY <3>2, <4>4, <4>5 DEF e
    <3> QED BY <3>1, <3>2
  <2> QED BY <2>4 DEF RejectsRecorded
<1>2. CASE WriterRecv \/ WriterApply \/ WriterDies \/ UNCHANGED ingestVars
  <2>1. UNCHANGED <<handler, response, rejected>>
    BY <1>2 DEF WriterRecv, WriterApply, WriterDies, ingestVars, handlingVars, receiverVars
  <2>2. WriterAlive' => WriterAlive
    BY <1>2, IngestAssumption DEF WriterRecv, WriterApply, WriterDies, ingestVars, deliveryVars,
                                  WriterAlive
  <2>3. /\ Answered' = Answered
        /\ \A q \in Answered : RecordOf(q)' = RecordOf(q) /\ (Refused(q)' => Refused(q))
    BY <2>1, <2>2 DEF Answered, RecordOf, Refused
  <2> QED BY <2>1, <2>3 DEF RejectsRecorded
<1> QED BY <1>1, <1>2 DEF IngestNext, DeliveryStep

(***************************************************************************)
(* No counter ever goes down.                                              *)
(***************************************************************************)
LEMMA CountersGrow ==
  ASSUME IInv, CapHitsKnown, [Next]_vars
  PROVE  CapHitsKnown' /\ NotAhead(counters, counters')
<1>0. /\ counters \in CountersType /\ malformed \in Nat
      /\ keyInterner \in InternerType(KeyNames) /\ InternerConsistent(keyInterner, KeyNames)
      /\ keyInterner.capHits \in Nat
      /\ DOMAIN counters = {"duplicateSpan", "attributeKeyCapHit", "lateSpanAfterEviction",
                            "evictedTraces", "malformedSpan"}
  BY DEF IInv, TypeOK, TracesConsistent, InternerType, CountersType
<1>1. /\ counters.duplicateSpan \in Nat /\ counters.attributeKeyCapHit \in Nat
      /\ counters.lateSpanAfterEviction \in Nat /\ counters.evictedTraces \in Nat
      /\ counters.malformedSpan \in Nat
  BY <1>0 DEF CountersType
<1>2. CASE UNCHANGED <<counters, keyInterner>>
  BY <1>0, <1>1, <1>2 DEF CapHitsKnown, NotAhead
<1>3. CASE InternAttr
  <2> DEFINE k == Head(attrsLeft).key
  <2>1. k \in KeyNames
    <3>1. attrsLeft \in Seq(TraceAttr) /\ attrsLeft # <<>>
      BY <1>3 DEF IInv, TypeOK, InternAttr, TraceAttr
    <3>2. Head(attrsLeft) \in TraceAttr
      BY <3>1
    <3> QED BY <3>2 DEF TraceAttr
  <2>2. keyInterner' = Intern(keyInterner, k) /\ UNCHANGED counters
    BY <1>3 DEF InternAttr
  <2> HIDE DEF k
  <2>3. Learns(keyInterner, keyInterner', k)
    BY <1>0, <2>1, <2>2, InternLearns
  <2>4. keyInterner'.capHits \in {keyInterner.capHits, keyInterner.capHits + 1}
    BY <2>3 DEF Learns
  <2> QED BY <1>0, <1>1, <2>2, <2>4 DEF CapHitsKnown, NotAhead
<1>4. CASE InsertSpan
  <2> DEFINE t == Head(batch).trace
             dup == IF IsDuplicate(EntryOf(t), Head(batch)) THEN counters.duplicateSpan + 1
                    ELSE counters.duplicateSpan
             late == IF Resurrected(t) THEN counters.lateSpanAfterEviction + 1
                     ELSE counters.lateSpanAfterEviction
  <2>1. /\ counters' = [counters EXCEPT !.duplicateSpan = dup, !.lateSpanAfterEviction = late,
                          !.attributeKeyCapHit = keyInterner.capHits]
        /\ UNCHANGED keyInterner
    BY <1>4 DEF InsertSpan, InsertRow
  <2>2. dup >= counters.duplicateSpan /\ late >= counters.lateSpanAfterEviction
        /\ dup \in Nat /\ late \in Nat
    BY <1>1
  <2> HIDE DEF dup, late
  <2>3. /\ counters'.duplicateSpan = dup /\ counters'.lateSpanAfterEviction = late
        /\ counters'.attributeKeyCapHit = keyInterner.capHits
        /\ counters'.evictedTraces = counters.evictedTraces
        /\ counters'.malformedSpan = counters.malformedSpan
    BY <1>0, <2>1 DEF CountersType
  <2> QED BY <1>0, <1>1, <2>1, <2>2, <2>3 DEF CapHitsKnown, NotAhead
<1>5. CASE EndAppend
  <2>1. /\ counters' = [counters EXCEPT !.malformedSpan = counters.malformedSpan + malformed]
        /\ UNCHANGED keyInterner
    BY <1>5 DEF EndAppend, MalformedTotal
  <2>2. /\ counters'.duplicateSpan = counters.duplicateSpan
        /\ counters'.lateSpanAfterEviction = counters.lateSpanAfterEviction
        /\ counters'.attributeKeyCapHit = counters.attributeKeyCapHit
        /\ counters'.evictedTraces = counters.evictedTraces
        /\ counters'.malformedSpan = counters.malformedSpan + malformed
    BY <1>0, <2>1 DEF CountersType
  <2> QED BY <1>0, <1>1, <2>1, <2>2 DEF CapHitsKnown, NotAhead
<1>6. ASSUME NEW t \in TraceIds, EvictOldest(t)
      PROVE  CapHitsKnown' /\ NotAhead(counters, counters')
  <2>1. /\ counters' = [counters EXCEPT !.evictedTraces = counters.evictedTraces + 1]
        /\ UNCHANGED keyInterner
    BY <1>6 DEF EvictOldest
  <2>2. /\ counters'.duplicateSpan = counters.duplicateSpan
        /\ counters'.lateSpanAfterEviction = counters.lateSpanAfterEviction
        /\ counters'.attributeKeyCapHit = counters.attributeKeyCapHit
        /\ counters'.evictedTraces = counters.evictedTraces + 1
        /\ counters'.malformedSpan = counters.malformedSpan
    BY <1>0, <2>1 DEF CountersType
  <2> QED BY <1>0, <1>1, <2>1, <2>2 DEF CapHitsKnown, NotAhead
<1>7. CASE (\E b \in Batches : Recv(b)) \/ BeginSpan \/ Release \/ Notify \/ UNCHANGED vars
  BY <1>2, <1>7 DEF Recv, BeginSpan, Release, Notify, vars, storeVars
<1> QED BY <1>3, <1>4, <1>5, <1>6, <1>7 DEF Next, WriterStep

(***************************************************************************)
(* Where the panel is read, and where it is not.                           *)
(***************************************************************************)
LEMMA PanelMoves ==
  ASSUME [PipelineNext]_pipelineVars
  PROVE  \/ ReadCounters
         \/ ReadReceiver
         \/ UNCHANGED panelVars
BY DEF PipelineNext, Handlers, TakeBatch, WorkOnBatch, FinishBatch, WriterPanics, pipelineVars

(***************************************************************************)
(* What was shown is no newer than what will be.                           *)
(***************************************************************************)
LEMMA BehindStep ==
  ASSUME PartsInv, PartsInv', PanelBehind, [PipelineNext]_pipelineVars,
         NotAhead(counters, counters'), \A t \in Transports : arrivals[t] <= arrivals'[t]
  PROVE  /\ PanelBehind'
         /\ shown # None =>
              /\ \A c \in DOMAIN counters : shown.counters[c] <= shown'.counters[c]
              /\ \A t \in Transports : shown.arrivals[t] <= shown'.arrivals[t]
<1> DEFINE Names == {"duplicateSpan", "attributeKeyCapHit", "lateSpanAfterEviction",
                     "evictedTraces", "malformedSpan"}
<1>0. /\ counters \in CountersType /\ counters' \in CountersType
      /\ arrivals \in [Transports -> Nat] /\ arrivals' \in [Transports -> Nat]
  BY DEF PartsInv, IInv, TypeOK, IngestInv, IngestTypeOK
<1>1. \A c \in CountersType : DOMAIN c = Names /\ \A n \in Names : c[n] \in Nat
  BY DEF CountersType
<1>2. DOMAIN counters = Names /\ DOMAIN counters' = Names
  BY <1>0, <1>1
<1> HIDE DEF Names
<1>3. \A n \in Names : counters[n] <= counters'[n]
  BY <1>2 DEF NotAhead
<1>4. CASE ReadCounters
  <2>1. /\ panel.at = "off" /\ panel' = [at |-> "counters", counters |-> counters]
        /\ UNCHANGED <<counters, arrivals, shown>>
    BY <1>4 DEF ReadCounters, vars, storeVars, ingestVars, receiverVars
  <2>2. panel'.at = "counters" /\ panel'.counters = counters
    BY <2>1
  <2>3. shown # None => /\ shown.counters \in CountersType
                        /\ \A n \in Names : shown.counters[n] <= counters[n]
                        /\ shown.arrivals \in [Transports -> Nat]
                        /\ \A t \in Transports : shown.arrivals[t] <= arrivals[t]
    BY <1>2, <2>1 DEF PanelBehind, NotAhead
  <2>4. \A n \in Names : counters[n] <= counters[n]
    BY <1>0, <1>1
  <2>5. PanelBehind'
    BY <1>0, <1>2, <2>1, <2>2, <2>3, <2>4 DEF PanelBehind, NotAhead
  <2>6. shown # None => /\ \A n \in Names : shown.counters[n] <= shown.counters[n]
                        /\ \A t \in Transports : shown.arrivals[t] <= shown.arrivals[t]
    BY <1>1, <2>3
  <2> QED BY <1>2, <2>1, <2>5, <2>6
<1>5. CASE ReadReceiver
  <2>1. /\ panel.at = "counters" /\ panel' = PanelOff
        /\ shown' = [counters |-> panel.counters, arrivals |-> arrivals, recentRejects |-> ring]
        /\ UNCHANGED <<counters, arrivals>>
    BY <1>5 DEF ReadReceiver, vars, storeVars, ingestVars, receiverVars
  <2>2. panel'.at = "off" /\ shown'.counters = panel.counters /\ shown'.arrivals = arrivals
    BY <2>1 DEF PanelOff
  <2>3. panel.counters \in CountersType /\ \A n \in Names : panel.counters[n] <= counters[n]
    BY <1>2, <2>1 DEF PanelBehind, NotAhead
  <2>4. shown # None => /\ \A n \in Names : shown.counters[n] <= panel.counters[n]
                        /\ \A t \in Transports : shown.arrivals[t] <= arrivals[t]
    BY <1>2, <2>1 DEF PanelBehind, NotAhead
  <2>5. \A t \in Transports : arrivals[t] <= arrivals[t]
    BY <1>0
  <2>6. PanelBehind'
    BY <1>0, <1>2, <2>1, <2>2, <2>3, <2>5 DEF PanelBehind, NotAhead
  <2> QED BY <1>2, <2>2, <2>4, <2>6
<1>6. CASE UNCHANGED panelVars
  <2>1. panel' = panel /\ shown' = shown
    BY <1>6 DEF panelVars
  <2>2. panel.at \in {"off", "counters"}
    BY DEF PanelBehind
  <2>3. panel.at = "counters" =>
          panel.counters \in CountersType /\ \A n \in Names : panel.counters[n] <= counters'[n]
    <3> SUFFICES ASSUME panel.at = "counters"
                 PROVE  panel.counters \in CountersType
                        /\ \A n \in Names : panel.counters[n] <= counters'[n]
      OBVIOUS
    <3>1. panel.counters \in CountersType /\ \A n \in Names : panel.counters[n] <= counters[n]
      BY <1>2 DEF PanelBehind, NotAhead
    <3>2. \A n \in Names : panel.counters[n] \in Nat /\ counters[n] \in Nat /\ counters'[n] \in Nat
      BY <1>0, <1>1, <3>1
    <3> QED BY <1>3, <3>1, <3>2
  <2>4. shown # None =>
          /\ shown.counters \in CountersType
          /\ IF panel.at = "counters" THEN \A n \in Names : shown.counters[n] <= panel.counters[n]
             ELSE \A n \in Names : shown.counters[n] <= counters'[n]
          /\ shown.arrivals \in [Transports -> Nat]
          /\ \A t \in Transports : shown.arrivals[t] <= arrivals'[t]
          /\ \A n \in Names : shown.counters[n] <= shown.counters[n]
          /\ \A t \in Transports : shown.arrivals[t] <= shown.arrivals[t]
    <3> SUFFICES ASSUME shown # None
                 PROVE  /\ shown.counters \in CountersType
                        /\ IF panel.at = "counters"
                           THEN \A n \in Names : shown.counters[n] <= panel.counters[n]
                           ELSE \A n \in Names : shown.counters[n] <= counters'[n]
                        /\ shown.arrivals \in [Transports -> Nat]
                        /\ \A t \in Transports : shown.arrivals[t] <= arrivals'[t]
                        /\ \A n \in Names : shown.counters[n] <= shown.counters[n]
                        /\ \A t \in Transports : shown.arrivals[t] <= shown.arrivals[t]
      OBVIOUS
    <3>1. /\ shown.counters \in CountersType
          /\ IF panel.at = "counters" THEN \A n \in Names : shown.counters[n] <= panel.counters[n]
             ELSE \A n \in Names : shown.counters[n] <= counters[n]
          /\ shown.arrivals \in [Transports -> Nat]
          /\ \A t \in Transports : shown.arrivals[t] <= arrivals[t]
      BY <1>2 DEF PanelBehind, NotAhead
    <3>2. \A n \in Names : shown.counters[n] \in Nat /\ counters[n] \in Nat /\ counters'[n] \in Nat
      BY <1>0, <1>1, <3>1
    <3>3. \A n \in Names : shown.counters[n] <= counters[n] => shown.counters[n] <= counters'[n]
      BY <1>3, <3>2
    <3>4. \A t \in Transports : shown.arrivals[t] <= arrivals'[t] /\ shown.arrivals[t] <= shown.arrivals[t]
      BY <1>0, <3>1
    <3> QED BY <3>1, <3>2, <3>3, <3>4
  <2>5. PanelBehind'
    BY <1>2, <2>1, <2>2, <2>3, <2>4 DEF PanelBehind, NotAhead
  <2> QED BY <1>2, <2>1, <2>4, <2>5
<1> QED BY <1>4, <1>5, <1>6, PanelMoves

(***************************************************************************)
(* What was acknowledged is counted: the requests of a set acknowledged on *)
(* a transport have their spans in its arrivals.                           *)
(***************************************************************************)
LEMMA AnsweredCounted ==
  ASSUME IngestInv, ArrivalsCounted, answeredBy \subseteq Answered, NEW t \in Transports
  PROVE  /\ SumFunctionOnSet(SpanCounts, OkBefore(t)) <= arrivals[t]
         /\ SpansIn(OkBefore(t)) = SumFunctionOnSet(SpanCounts, OkBefore(t))
         /\ SpansIn(OkBefore(t)) \in Nat
<1> DEFINE part == OkBefore(t)
           all == AcknowledgedOn(t)
           spans == [r \in part |-> Len(BatchOf(r).spans)]
<1>1. part \subseteq all /\ all \subseteq Delivered
  <2>1. Acknowledged \subseteq Delivered
    BY DeliveredFinite
  <2> QED BY <2>1 DEF OkBefore, AcknowledgedOn, Answered, Acknowledged
<1>2. /\ IsFiniteSet(Delivered)
      /\ \A r \in Delivered : SpanCounts[r] \in Nat /\ SpanCounts[r] = Len(BatchOf(r).spans)
  BY DeliveredFinite
<1>3. arrivals[t] = SumFunctionOnSet(SpanCounts, all)
  BY DEF ArrivalsCounted
<1>4. SpansIn(part) = SumFunctionOnSet(spans, part)
  BY DEF SpansIn
<1>5. \A r \in part : spans[r] = SpanCounts[r]
  BY <1>1, <1>2
<1> HIDE DEF part, all, spans
<1>6. IsFiniteSet(all) /\ IsFiniteSet(part)
  BY <1>1, <1>2, FS_Subset
<1>7. SumFunctionOnSet(SpanCounts, part) <= SumFunctionOnSet(SpanCounts, all)
  <2>1. \A r \in all : SpanCounts[r] \in Nat
    BY <1>1, <1>2
  <2> QED BY <1>1, <1>6, <2>1, SumOfPart
<1>8. SumFunctionOnSet(spans, part) = SumFunctionOnSet(SpanCounts, part)
  <2>1. \A r \in part : SpanCounts[r] \in Nat
    BY <1>1, <1>2
  <2> QED BY <1>5, <1>6, <2>1, SumSame
<1>9. SumFunctionOnSet(SpanCounts, part) \in Nat
  <2>1. \A r \in part : SpanCounts[r] \in Nat
    BY <1>1, <1>2
  <2> QED BY <1>6, <2>1, SumRemove
<1> QED BY <1>3, <1>4, <1>7, <1>8, <1>9 DEF part

(***************************************************************************)
(* A later reject changes nothing about the first ones.                    *)
(***************************************************************************)
LEMMA LastOfMore ==
  ASSUME NEW log, NEW all \in Seq(RejectRecord), NEW m \in 0..Len(all), LastOf(log, all, m),
         NEW e \in RejectRecord
  PROVE  LastOf(log, Append(all, e), m)
<1> DEFINE more == Append(all, e)
<1>1. \A i \in 1..Len(all) : more[i] = all[i]
  OBVIOUS
<1>2. RingCapacity \in Nat /\ Len(log) \in Nat /\ Len(all) \in Nat
      /\ Len(log) = IF m < RingCapacity THEN m ELSE RingCapacity
  BY IngestAssumption DEF LastOf
<1>3. ASSUME NEW j \in 1..Len(log) PROVE m - Len(log) + j \in 1..Len(all)
  BY <1>2
<1> HIDE DEF more
<1>4. ASSUME NEW j \in 1..Len(log) PROVE log[j] = more[m - Len(log) + j]
  BY <1>1, <1>3 DEF LastOf
<1>5. LastOf(log, more, m)
  BY <1>4 DEF LastOf
<1> QED BY <1>5 DEF more

(***************************************************************************)
(* An answer of the panel stays complete.                                  *)
(***************************************************************************)
LEMMA CompleteStep ==
  ASSUME IngestInv, ArrivalsCounted, RingIsLast, PanelComplete, [IngestNext]_ingestVars,
         [PipelineNext]_pipelineVars
  PROVE  PanelComplete'
<1>0. answeredBy \subseteq Answered /\ rejected \in Seq(RejectRecord)
  BY DEF PanelComplete, IngestInv, IngestTypeOK
<1>1. /\ Answered \subseteq Answered'
      /\ \A q \in Answered : response'[q] = response[q]
      /\ \/ UNCHANGED <<ring, rejected>>
         \/ \E e \in RejectRecord :
              /\ e.request \notin Answered
              /\ ring' = Pushed(ring, e) /\ rejected' = Append(rejected, e)
  BY AnswersKept
<1>2. CASE ReadCounters
  <2>1. panel'.at = "counters" /\ answeredBy' = Answered
    BY <1>2 DEF ReadCounters
  <2> QED BY <1>1, <2>1 DEF PanelComplete
<1>3. CASE ReadReceiver
  <2>1. /\ shown'.arrivals = arrivals /\ shown'.recentRejects = ring
        /\ UNCHANGED <<answeredBy, rejected, response>>
    BY <1>3 DEF ReadReceiver, ingestVars, receiverVars, handlingVars
  <2>2. \A t \in Transports : OkBefore(t)' = OkBefore(t)
    BY <2>1 DEF OkBefore
  <2>3. \A t \in Transports : SumFunctionOnSet(SpanCounts, OkBefore(t)) <= arrivals[t]
    BY <1>0, AnsweredCounted
  <2>4. LastOf(ring, rejected, Len(rejected))
    BY DEF RingIsLast
  <2>5. /\ Len(rejected) \in 0..Len(rejected)
        /\ \A i \in (Len(rejected) + 1)..Len(rejected) : rejected[i].request \notin answeredBy
    BY <1>0
  <2>6. \E m \in 0..Len(rejected) :
          /\ LastOf(ring, rejected, m)
          /\ \A i \in (m + 1)..Len(rejected) : rejected[i].request \notin answeredBy
    BY <2>4, <2>5
  <2> QED BY <1>0, <1>1, <2>1, <2>2, <2>3, <2>6 DEF PanelComplete, LastOf
<1>4. CASE UNCHANGED panelVars
  <2>1. panel' = panel /\ shown' = shown /\ answeredBy' = answeredBy
    BY <1>4 DEF panelVars
  <2>2. \A t \in Transports : OkBefore(t)' = OkBefore(t)
    BY <1>0, <1>1, <2>1 DEF OkBefore
  <2>3. answeredBy' \subseteq Answered'
    BY <1>0, <1>1, <2>1
  <2>4. ASSUME panel.at = "off", shown # None
        PROVE  \E m \in 0..Len(rejected') :
                 /\ LastOf(shown.recentRejects, rejected', m)
                 /\ \A i \in (m + 1)..Len(rejected') : rejected'[i].request \notin answeredBy
    <3>1. PICK m \in 0..Len(rejected) :
            /\ LastOf(shown.recentRejects, rejected, m)
            /\ \A i \in (m + 1)..Len(rejected) : rejected[i].request \notin answeredBy
      BY <2>4 DEF PanelComplete
    <3>2. CASE UNCHANGED rejected
      BY <3>1, <3>2
    <3>3. ASSUME NEW e \in RejectRecord, e.request \notin Answered, rejected' = Append(rejected, e)
          PROVE  \E k \in 0..Len(rejected') :
                   /\ LastOf(shown.recentRejects, rejected', k)
                   /\ \A i \in (k + 1)..Len(rejected') : rejected'[i].request \notin answeredBy
      <4>1. LastOf(shown.recentRejects, rejected', m)
        BY <1>0, <3>1, <3>3, LastOfMore
      <4>2. /\ Len(rejected') = Len(rejected) + 1 /\ rejected'[Len(rejected) + 1] = e
            /\ \A i \in 1..Len(rejected) : rejected'[i] = rejected[i]
        BY <1>0, <3>3
      <4>3. m \in 0..Len(rejected')
        BY <1>0, <4>2
      <4>4. ASSUME NEW i \in (m + 1)..Len(rejected') PROVE rejected'[i].request \notin answeredBy
        <5>1. i = Len(rejected) + 1 \/ (i \in (m + 1)..Len(rejected) /\ i \in 1..Len(rejected))
          BY <1>0, <4>2
        <5> QED BY <1>0, <3>1, <3>3, <4>2, <5>1
      <4> QED BY <4>1, <4>3, <4>4
    <3> QED BY <1>1, <3>2, <3>3
  <2>5. panel.at = "off" /\ shown # None =>
          \A t \in Transports : SumFunctionOnSet(SpanCounts, OkBefore(t)) <= shown.arrivals[t]
    BY DEF PanelComplete
  <2> QED BY <2>1, <2>2, <2>3, <2>4, <2>5 DEF PanelComplete, LastOf
<1> QED BY <1>2, <1>3, <1>4, PanelMoves

(***************************************************************************)
(* Before the first answer of the panel there is nothing to be behind.     *)
(***************************************************************************)
LEMMA InitPanel == PipelineInit => PanelInv
<1> SUFFICES ASSUME PipelineInit PROVE PanelInv
  OBVIOUS
<1>1. /\ panel = [at |-> "off"] /\ shown = None /\ answeredBy = {} /\ ring = <<>> /\ rejected = <<>>
      /\ counters.attributeKeyCapHit = 0 /\ keyInterner.capHits = 0
  BY DEF PipelineInit, IngestInit, Init, PanelOff, NewInterner
<1>2. RingIsLast
  BY <1>1, IngestAssumption DEF RingIsLast, LastOf
<1>3. CapHitsKnown
  BY <1>1 DEF CapHitsKnown
<1>4. PanelBehind /\ PanelComplete
  BY <1>1 DEF PanelBehind, PanelComplete
<1>5. RejectsRecorded
  BY DEF PipelineInit, IngestInit, RejectsRecorded, Answered
<1> QED BY <1>2, <1>3, <1>4, <1>5 DEF PanelInv

(***************************************************************************)
(* One step of the pipeline, for the panel.                                *)
(***************************************************************************)
LEMMA PanelStep ==
  ASSUME PartsInv, PartsInv', CountInv, PanelInv, [PipelineNext]_pipelineVars
  PROVE  /\ PanelInv'
         /\ shown # None =>
              /\ \A c \in DOMAIN counters : shown.counters[c] <= shown'.counters[c]
              /\ \A t \in Transports : shown.arrivals[t] <= shown'.arrivals[t]
<1>1. /\ IngestInv /\ IngestInv' /\ IInv /\ ArrivalsCounted
      /\ RingIsLast /\ CapHitsKnown /\ PanelBehind /\ PanelComplete /\ RejectsRecorded
  BY DEF PartsInv, CountInv, PanelInv
<1>2. [IngestNext]_ingestVars /\ [Next]_vars
  BY <1>1, StepOfParts
<1>3. \A t \in Transports : arrivals[t] <= arrivals'[t]
  BY <1>1, <1>2, ArrivalsStep
<1>4. CapHitsKnown' /\ NotAhead(counters, counters')
  BY <1>1, <1>2, CountersGrow
<1>5. RingIsLast' /\ PanelComplete' /\ RejectsRecorded'
  BY <1>1, <1>2, RingStep, CompleteStep, RecordedStep
<1>6. /\ PanelBehind'
      /\ shown # None =>
           /\ \A c \in DOMAIN counters : shown.counters[c] <= shown'.counters[c]
           /\ \A t \in Transports : shown.arrivals[t] <= shown'.arrivals[t]
  BY <1>1, <1>3, <1>4, BehindStep
<1> QED BY <1>4, <1>5, <1>6 DEF PanelInv

(***************************************************************************)
(* The books and the panel together.                                       *)
(***************************************************************************)
LEMMA PanelInductive == PipelineSpec => [](PartsInv /\ CountInv /\ PanelInv)
<1>1. PartsInv /\ PartsInv' /\ CountInv /\ PanelInv /\ [PipelineNext]_pipelineVars => PanelInv'
  BY PanelStep
<1> QED BY <1>1, InitPanel, CountInductive, PTL DEF PipelineSpec

(***************************************************************************)
(* An answer that is complete shows the answers given before it began.     *)
(***************************************************************************)
LEMMA CompleteShows == PartsInv /\ CountInv /\ PanelInv => PanelShowsAnswered
<1> SUFFICES ASSUME PartsInv, CountInv, PanelInv, panel.at = "off", shown # None
             PROVE  /\ \A t \in Transports : shown.arrivals[t] >= SpansIn(OkBefore(t))
                    /\ \A r \in answeredBy : Refused(r) =>
                         \E i \in 1..Len(rejected) :
                           /\ rejected[i] = RecordOf(r)
                           /\ \/ Len(rejected) - i >= RingCapacity
                              \/ \E j \in 1..Len(shown.recentRejects) :
                                   shown.recentRejects[j] = RecordOf(r)
  BY DEF PanelShowsAnswered, OkBefore
<1>1. IngestInv /\ ArrivalsCounted /\ PanelComplete /\ PanelBehind /\ RejectsRecorded
  BY DEF PartsInv, CountInv, PanelInv
<1>2. ASSUME NEW t \in Transports PROVE shown.arrivals[t] >= SpansIn(OkBefore(t))
  <2>1. answeredBy \subseteq Answered
        /\ SumFunctionOnSet(SpanCounts, OkBefore(t)) <= shown.arrivals[t]
    BY <1>1 DEF PanelComplete
  <2>2. SpansIn(OkBefore(t)) = SumFunctionOnSet(SpanCounts, OkBefore(t))
        /\ SpansIn(OkBefore(t)) \in Nat
    BY <1>1, <2>1, AnsweredCounted
  <2>3. shown.arrivals[t] \in Nat
    BY <1>1 DEF PanelBehind
  <2> QED BY <2>1, <2>2, <2>3
<1>3. ASSUME NEW i \in 1..Len(rejected),
             rejected[i].request \in answeredBy, Len(rejected) - i < RingCapacity
      PROVE  \E j \in 1..Len(shown.recentRejects) : shown.recentRejects[j] = rejected[i]
  <2> DEFINE log == shown.recentRejects
  <2>0. Len(rejected) \in Nat /\ RingCapacity \in Nat
    BY <1>1, IngestAssumption DEF IngestInv, IngestTypeOK
  <2>1. PICK m \in 0..Len(rejected) :
          /\ LastOf(log, rejected, m)
          /\ \A x \in (m + 1)..Len(rejected) : rejected[x].request \notin answeredBy
    BY <1>1 DEF PanelComplete
  <2> HIDE DEF log
  <2>2. /\ Len(log) \in Nat
        /\ Len(log) = IF m < RingCapacity THEN m ELSE RingCapacity
        /\ \A j \in 1..Len(log) : log[j] = rejected[m - Len(log) + j]
    BY <2>1 DEF LastOf
  <2>3. i <= m
    BY <1>3, <2>0, <2>1
  <2> DEFINE j == i - (m - Len(log))
  <2>4. j \in 1..Len(log) /\ m - Len(log) + j = i
    BY <1>3, <2>0, <2>2, <2>3
  <2> HIDE DEF j
  <2>5. log[j] = rejected[i]
    BY <2>2, <2>4
  <2> QED BY <2>4, <2>5 DEF log
<1>4. ASSUME NEW r \in answeredBy, Refused(r)
      PROVE  \E i \in 1..Len(rejected) :
               /\ rejected[i] = RecordOf(r)
               /\ \/ Len(rejected) - i >= RingCapacity
                  \/ \E j \in 1..Len(shown.recentRejects) : shown.recentRejects[j] = RecordOf(r)
  <2>1. r \in Answered
    BY <1>1 DEF PanelComplete
  <2>2. PICK i \in 1..Len(rejected) : rejected[i] = RecordOf(r)
    BY <1>1, <1>4, <2>1 DEF RejectsRecorded
  <2>3. rejected[i].request \in answeredBy
    BY <2>2 DEF RecordOf
  <2>4. Len(rejected) \in Nat /\ RingCapacity \in Nat
    BY <1>1, IngestAssumption DEF IngestInv, IngestTypeOK
  <2>5. Len(rejected) - i < RingCapacity \/ Len(rejected) - i >= RingCapacity
    BY <2>4
  <2> QED BY <1>3, <2>2, <2>3, <2>5
<1> QED BY <1>2, <1>4

(***************************************************************************)
(* An answer of /api/receiver shows what `accept` answered before it       *)
(* began, each refusal with its record unless newer ones pushed it out.    *)
(***************************************************************************)
THEOREM PanelIsComplete == PipelineSpec => []PanelShowsAnswered
BY CompleteShows, PanelInductive, PTL

(***************************************************************************)
(* Successive answers of /api/receiver never go back.                      *)
(***************************************************************************)
THEOREM PanelsOnlyGrow == PipelineSpec => PanelsNeverGoBack
<1>1. PartsInv /\ PartsInv' /\ CountInv /\ PanelInv /\ [PipelineNext]_pipelineVars
        => [shown # None =>
              /\ \A c \in DOMAIN counters : shown.counters[c] <= shown'.counters[c]
              /\ \A t \in Transports : shown.arrivals[t] <= shown'.arrivals[t]]_pipelineVars
  BY PanelStep
<1> QED BY <1>1, PanelInductive, PTL DEF PipelineSpec, PanelsNeverGoBack

-----------------------------------------------------------------------------
(* What a reader finds of an applied request.                              *)

(***************************************************************************)
(* What a reader finds of a span that was inserted.                        *)
(***************************************************************************)
SpansOf(r) == Range(BatchOf(r).spans)

Shows(entry, span, names) ==
  /\ entry.body = span.body
  /\ entry.service = span.service \/ (entry.service = None /\ names = InternerCap)

Found(span, requests, tables, lives, evicted, names) ==
  /\ lives[span.trace] \in Nat /\ lives[span.trace] >= 1
  /\ evicted[span.trace] = None /\ lives[span.trace] <= 1 =>
       /\ tables[span.trace] # None /\ tables[span.trace][span.id] # None
       /\ \E r \in requests : \E last \in SpansOf(r) :
            /\ last.trace = span.trace /\ last.id = span.id
            /\ Shows(tables[span.trace][span.id], last, names)

ServicesKnown == Len(serviceInterner.values)

FoundNow(span, requests) ==
  Found(span, requests, TablesOf, LivesOf, evictedGenerations, ServicesKnown)

BatchInHand ==
  /\ pc \in {"recv", "notify", "evict"} => batch = <<>>
  /\ writer \in Requests => Range(batch) \subseteq SpansOf(writer)

\* A name is refused only by a full table.
ServiceRefused ==
  pc = "attrs" /\ serviceNameId = None /\ Head(batch).service # None
    => ServicesKnown = InternerCap

InsertedFound ==
  WriterAlive =>
    /\ \A i \in 1..Len(applied) : \A x \in SpansOf(applied[i]) :
         FoundNow(x, AppliedFrom(i) \cup Held)
    /\ writer \in Requests =>
         \A x \in SpansOf(writer) : x \in Range(batch) \/ FoundNow(x, Held)

ReadInv == BatchInHand /\ ServiceRefused /\ InsertedFound

-----------------------------------------------------------------------------

(***************************************************************************)
(* Where the trace of a span is untouched it is found as before.           *)
(***************************************************************************)
LEMMA FoundStill ==
  ASSUME NEW x, NEW R, NEW S, R \subseteq S,
         NEW tables, NEW lives, NEW evicted, NEW names,
         NEW tables2, NEW lives2, NEW evicted2, NEW names2,
         Found(x, R, tables, lives, evicted, names),
         tables2[x.trace] = tables[x.trace], lives2[x.trace] = lives[x.trace],
         evicted2[x.trace] = evicted[x.trace],
         names = InternerCap => names2 = InternerCap
  PROVE  Found(x, S, tables2, lives2, evicted2, names2)
BY DEF Found, Shows

(***************************************************************************)
(* Of a trace that was evicted nothing more is promised.                   *)
(***************************************************************************)
LEMMA FoundEvicted ==
  ASSUME NEW x, NEW R, NEW S, NEW tables, NEW lives, NEW evicted, NEW names,
         NEW tables2, NEW lives2, NEW evicted2, NEW names2,
         Found(x, R, tables, lives, evicted, names),
         \/ lives2[x.trace] = lives[x.trace] /\ evicted2[x.trace] # None
         \/ lives2[x.trace] = lives[x.trace] + 1
  PROVE  Found(x, S, tables2, lives2, evicted2, names2)
BY DEF Found

Untouched(t) ==
  /\ TablesOf'[t] = TablesOf[t] /\ LivesOf'[t] = LivesOf[t]
  /\ evictedGenerations'[t] = evictedGenerations[t]

(***************************************************************************)
(* How often a trace has lived is a number.                                *)
(***************************************************************************)
LEMMA LivesNumber ==
  ASSUME IInv, NEW t \in TraceIds
  PROVE  /\ LivesOf[t] \in Nat
         /\ traces[t] # None => LivesOf[t] >= 1 /\ evictedGenerations[t] = None
<1>1. traces[t] \in Optional(TraceType) /\ evictedGenerations[t] \in Optional(Nat)
  BY DEF IInv, TypeOK
<1>2. traces[t] # None => traces[t].generation \in Nat
  BY <1>1, TraceFieldTypes DEF Optional
<1>3. traces[t] # None => evictedGenerations[t] = None
  BY DEF IInv, EvictionLedger, Resident, Remembered
<1>4. LivesOf[t] = IF traces[t] # None THEN traces[t].generation + 1
                   ELSE IF evictedGenerations[t] # None THEN evictedGenerations[t] + 1
                   ELSE 0
  BY DEF LivesOf
<1> QED BY <1>1, <1>2, <1>3, <1>4 DEF Optional

(***************************************************************************)
(* A resident trace has a table.                                           *)
(***************************************************************************)
LEMMA TablesThere ==
  IInv /\ NamesInv => \A t \in TraceIds : TablesOf[t] = None <=> traces[t] = None
BY TablesRead

(***************************************************************************)
(* So it has in the next state.                                            *)
(***************************************************************************)
LEMMA TablesThereNext ==
  IInv' /\ NamesInv' => (\A t \in TraceIds : TablesOf[t] = None <=> traces[t] = None)'
BY TablesThere, PTL

(***************************************************************************)
(* A full table of service names stays full.                               *)
(***************************************************************************)
LEMMA FullStaysFull ==
  ASSUME IInv, IInv', NamesInv, NamesInv',
         Grown(serviceInterner, serviceInterner'), ServicesKnown = InternerCap
  PROVE  ServicesKnown' = InternerCap
<1>1. /\ Len(serviceInterner.values) \in Nat /\ Len(serviceInterner'.values) \in Nat
  <2>1. /\ serviceInterner \in InternerType(ServiceNames)
        /\ serviceInterner' \in InternerType(ServiceNames)
    BY DEF IInv, TypeOK
  <2> QED BY <2>1 DEF InternerType
<1>2. Len(serviceInterner'.values) <= serviceInterner'.cap
  BY DEF IInv, TracesConsistent, InternerConsistent
<1>3. serviceInterner'.cap = InternerCap
  BY DEF NamesInv, Caps
<1>4. InternerCap \in Nat
  BY StoreAssumption
<1> QED BY <1>1, <1>2, <1>3, <1>4 DEF Grown, ServicesKnown

(***************************************************************************)
(* A step other than the write of a row leaves every trace alone or evicts *)
(* it.                                                                     *)
(***************************************************************************)
LEMMA StoreKeeps ==
  ASSUME IInv, IInv', NamesInv, NamesInv', [Next]_vars, ~InsertRow
  PROVE  /\ ServicesKnown = InternerCap => ServicesKnown' = InternerCap
         /\ \A t \in TraceIds :
              Untouched(t) \/ (LivesOf'[t] = LivesOf[t] /\ evictedGenerations'[t] # None)
<1>0. /\ keyInterner \in InternerType(KeyNames) /\ serviceInterner \in InternerType(ServiceNames)
      /\ Grown(keyInterner, keyInterner) /\ Grown(serviceInterner, serviceInterner)
  BY InternerTypes, GrownSame
<1>1. CASE UNCHANGED <<traces, evictedGenerations, keyInterner, serviceInterner>>
  <2>1. TablesOf' = TablesOf /\ LivesOf' = LivesOf
    BY <1>1 DEF TablesOf, LivesOf
  <2> QED BY <1>1, <2>1 DEF Untouched, ServicesKnown
<1>2. CASE BeginSpan \/ InternAttr
  <2>1. UNCHANGED <<traces, evictedGenerations>>
    BY <1>2 DEF BeginSpan, InternAttr
  <2>2. Grown(keyInterner, keyInterner') /\ Grown(serviceInterner, serviceInterner')
    <3>1. CASE BeginSpan
      <4>1. keyInterner' = keyInterner
        BY <3>1 DEF BeginSpan
      <4> QED BY <1>0, <3>1, <4>1, ServiceLearnt
    <3>2. CASE InternAttr
      <4>1. serviceInterner' = serviceInterner
        BY <3>2 DEF InternAttr
      <4> QED BY <1>0, <3>2, <4>1, InternAttrNames
    <3> QED BY <1>2, <3>1, <3>2
  <2>3. TablesOf' = TablesOf
    BY <2>1, <2>2, TablesStable DEF NamesInv
  <2>4. LivesOf' = LivesOf
    BY <2>1 DEF LivesOf
  <2>5. ServicesKnown = InternerCap => ServicesKnown' = InternerCap
    BY <2>2, FullStaysFull
  <2> QED BY <2>1, <2>3, <2>4, <2>5 DEF Untouched
<1>3. ASSUME NEW u \in TraceIds, EvictOldest(u)
      PROVE  /\ ServicesKnown = InternerCap => ServicesKnown' = InternerCap
             /\ \A t \in TraceIds :
                  Untouched(t) \/ (LivesOf'[t] = LivesOf[t] /\ evictedGenerations'[t] # None)
  <2>1. /\ UNCHANGED <<keyInterner, serviceInterner>> /\ u \in Oldest
        /\ traces' = [traces EXCEPT ![u] = None]
        /\ evictedGenerations' = [evictedGenerations EXCEPT ![u] = traces[u].generation]
    BY <1>3 DEF EvictOldest
  <2>2. /\ traces \in [TraceIds -> Optional(TraceType)]
        /\ evictedGenerations \in [TraceIds -> Optional(Nat)]
    BY DEF IInv, TypeOK
  <2>3. traces[u] # None /\ traces[u].generation \in Nat
    <3>1. traces[u] # None /\ traces[u] \in TraceType
      BY <2>1, <2>2 DEF Oldest, Resident, Optional
    <3> QED BY <3>1, TraceFieldTypes
  <2>4. LivesOf' = LivesOf
    BY <2>1, <2>2, <2>3, NoneAssumption DEF LivesOf
  <2>5. evictedGenerations'[u] # None
    BY <2>1, <2>2, <2>3, NoneAssumption
  <2>6. ASSUME NEW t \in TraceIds, t # u PROVE Untouched(t)
    <3>1. traces'[t] = traces[t] /\ evictedGenerations'[t] = evictedGenerations[t]
      BY <2>1, <2>2, <2>6
    <3>2. TablesOf'[t] = TablesOf[t]
      BY <2>1, <3>1 DEF TablesOf
    <3> QED BY <2>4, <3>1, <3>2 DEF Untouched
  <2> QED BY <2>1, <2>4, <2>5, <2>6 DEF ServicesKnown
<1>4. CASE (\E b \in Batches : Recv(b)) \/ EndAppend \/ Release \/ Notify \/ UNCHANGED vars
  BY <1>1, <1>4 DEF Recv, EndAppend, Release, Notify, vars, storeVars
<1> QED BY <1>2, <1>3, <1>4 DEF Next, WriterStep, InsertSpan

(***************************************************************************)
(* What the span just inserted reads as.                                   *)
(***************************************************************************)
LEMMA RowShown ==
  ASSUME IInv, NamesInv, IInv', NamesInv', InsertRow, ServiceRefused
  PROVE  LET t  == Head(batch).trace
             id == Head(batch).id
         IN  /\ t \in TraceIds /\ id \in SpanIds
             /\ ServicesKnown' = ServicesKnown
             /\ \A u \in TraceIds : u # t => Untouched(u)
             /\ TablesOf'[t] # None /\ TablesOf'[t][id] # None
             /\ Shows(TablesOf'[t][id], Head(batch), ServicesKnown)
             /\ LivesOf'[t] \in Nat /\ LivesOf'[t] >= 1 /\ evictedGenerations'[t] = None
             /\ \/ LivesOf'[t] = LivesOf[t] + 1
                \/ /\ LivesOf'[t] = LivesOf[t] /\ evictedGenerations[t] = None
                   /\ \A s \in SpanIds : s # id => TablesOf'[t][s] = TablesOf[t][s]
<1> DEFINE span == Head(batch)
           t    == span.trace
           id   == span.id
           rows == TableOf(EntryOf(t))
           row  == RowInHand(rows[id])
<1>1. /\ UNCHANGED <<keyInterner, serviceInterner>> /\ pc = "attrs"
      /\ evictedGenerations' = GenerationsAfterEntry(t)
  BY DEF InsertRow
<1>2. /\ t \in TraceIds /\ id \in SpanIds
      /\ traces'[t] # None /\ traces'[t].generation = EntryOf(t).generation
      /\ TableOf(traces'[t]) = [rows EXCEPT ![id] = row]
      /\ \A x \in TraceIds : x # t => traces'[x] = traces[x]
      /\ rows[id] \in Optional(RowType)
  BY RowInserted
<1>3. /\ rows = IF traces[t] = None THEN [s \in SpanIds |-> None] ELSE TableOf(traces[t])
      /\ EntryOf(t).generation + 1 = IF traces[t] = None THEN LivesOf[t] + 1 ELSE LivesOf[t]
  BY <1>2, EntryTable, Zenon
<1>4. DOMAIN rows = SpanIds
  BY <1>3 DEF TableOf
<1>5. /\ row \in RowType /\ RowValid(row, keyInterner, serviceInterner)
  <2> HIDE DEF rows, id
  <2> QED BY <1>1, <1>2, RowInHandOK
<1>6. row.body = span.body /\ row.service = serviceNameId /\ row # None
  <2>1. row.body = span.body /\ row.service = serviceNameId
    BY DEF RowInHand, EntryFor
  <2> QED BY <1>5, <2>1, NoneIsNoSpan
<1>7. LivesOf'[t] = traces'[t].generation + 1
  BY <1>2 DEF LivesOf
<1>8. LivesOf[t] \in Nat /\ (traces[t] # None => LivesOf[t] >= 1 /\ evictedGenerations[t] = None)
  BY <1>2, LivesNumber
<1>9. evictedGenerations'[t] = None /\ \A u \in TraceIds : u # t => evictedGenerations'[u] = evictedGenerations[u]
  <2>1. evictedGenerations \in [TraceIds -> Optional(Nat)]
    BY DEF IInv, TypeOK
  <2> HIDE DEF t
  <2> QED BY <1>1, <1>2, <1>8, <2>1 DEF GenerationsAfterEntry
<1>10. TablesOf'[t] = [s \in SpanIds |-> Named(TableOf(traces'[t])[s], keyInterner, serviceInterner)]
  BY <1>1, <1>2 DEF TablesOf
<1>11. traces[t] # None =>
         TablesOf[t] = [s \in SpanIds |-> Named(TableOf(traces[t])[s], keyInterner, serviceInterner)]
  BY <1>2 DEF TablesOf
<1>12. TablesOf'[t] # None
  <2>1. (\A u \in TraceIds : TablesOf[u] = None <=> traces[u] = None)'
    BY TablesThereNext
  <2> HIDE DEF t
  <2> QED BY <1>2, <2>1
<1> HIDE DEF rows, row, t, id, span
<1>13. TablesOf'[t][id] = Named(row, keyInterner, serviceInterner)
  BY <1>2, <1>4, <1>10
<1>14. Named(row, keyInterner, serviceInterner) # None
  BY <1>5, InternerTypes, NamedIsSpan
<1>15. Shows(Named(row, keyInterner, serviceInterner), span, ServicesKnown)
  <2> DEFINE entry == Named(row, keyInterner, serviceInterner)
  <2>1. /\ entry.body = span.body
        /\ entry.service = IF serviceNameId = None THEN None
                           ELSE Get(serviceInterner, serviceNameId)
    BY <1>6 DEF Named
  <2>2. serviceNameId # None => Get(serviceInterner, serviceNameId) = span.service
    BY <1>1 DEF NamesInv, ServiceInHand, span
  <2>3. serviceNameId = None /\ span.service # None => ServicesKnown = InternerCap
    BY <1>1 DEF ServiceRefused, span
  <2> HIDE DEF entry
  <2>4. Shows(entry, span, ServicesKnown)
    BY <2>1, <2>2, <2>3 DEF Shows
  <2> QED BY <2>4 DEF entry
<1>16. ASSUME traces[t] # None, NEW s \in SpanIds, s # id
       PROVE  TablesOf'[t][s] = TablesOf[t][s]
  <2>1. TableOf(traces'[t])[s] = TableOf(traces[t])[s]
    BY <1>2, <1>3, <1>4, <1>16
  <2> QED BY <1>10, <1>11, <1>16, <2>1
<1>17. ASSUME NEW u \in TraceIds, u # t PROVE Untouched(u)
  <2>1. traces'[u] = traces[u] /\ evictedGenerations'[u] = evictedGenerations[u]
    BY <1>2, <1>9, <1>17
  <2>2. TablesOf'[u] = TablesOf[u]
    BY <1>1, <2>1 DEF TablesOf
  <2>3. LivesOf'[u] = LivesOf[u]
    BY <2>1 DEF LivesOf
  <2> QED BY <2>1, <2>2, <2>3 DEF Untouched
<1>18. ServicesKnown' = ServicesKnown
  BY <1>1 DEF ServicesKnown
<1>19. LivesOf'[t] = IF traces[t] = None THEN LivesOf[t] + 1 ELSE LivesOf[t]
  BY <1>2, <1>3, <1>7
<1>20. LivesOf'[t] \in Nat /\ LivesOf'[t] >= 1
  BY <1>8, <1>19
<1>21. \/ LivesOf'[t] = LivesOf[t] + 1
       \/ /\ LivesOf'[t] = LivesOf[t] /\ evictedGenerations[t] = None
          /\ \A s \in SpanIds : s # id => TablesOf'[t][s] = TablesOf[t][s]
  BY <1>8, <1>16, <1>19
<1> QED
  BY <1>2, <1>9, <1>12, <1>13, <1>14, <1>15, <1>17, <1>18, <1>20, <1>21 DEF t, id, span

(***************************************************************************)
(* A span that was found is found after any step, as it was or as one of   *)
(* the batch in hand.                                                      *)
(***************************************************************************)
LEMMA FoundStep ==
  ASSUME IInv, NamesInv, IInv', NamesInv', [Next]_vars, ServiceRefused,
         NEW x \in NewSpanType, NEW R, NEW S, R \subseteq S, FoundNow(x, R),
         InsertRow => \E r \in S : Head(batch) \in SpansOf(r)
  PROVE  Found(x, S, TablesOf', LivesOf', evictedGenerations', ServicesKnown')
<1>0. x.trace \in TraceIds /\ x.id \in SpanIds
  BY DEF NewSpanType
<1>1. Found(x, R, TablesOf, LivesOf, evictedGenerations, ServicesKnown)
  BY DEF FoundNow
<1>2. ASSUME Untouched(x.trace), ServicesKnown = InternerCap => ServicesKnown' = InternerCap
      PROVE  Found(x, S, TablesOf', LivesOf', evictedGenerations', ServicesKnown')
  <2>1. /\ TablesOf'[x.trace] = TablesOf[x.trace] /\ LivesOf'[x.trace] = LivesOf[x.trace]
        /\ evictedGenerations'[x.trace] = evictedGenerations[x.trace]
    BY <1>2 DEF Untouched
  <2> QED BY <1>1, <1>2, <2>1, FoundStill
<1>3. ASSUME \/ LivesOf'[x.trace] = LivesOf[x.trace] /\ evictedGenerations'[x.trace] # None
             \/ LivesOf'[x.trace] = LivesOf[x.trace] + 1
      PROVE  Found(x, S, TablesOf', LivesOf', evictedGenerations', ServicesKnown')
  BY <1>1, <1>3, FoundEvicted
<1>4. CASE ~InsertRow
  BY <1>0, <1>2, <1>3, <1>4, StoreKeeps
<1>5. CASE InsertRow
  <2> DEFINE h  == Head(batch)
             t  == h.trace
             id == h.id
             new == TablesOf'[t]
  <2>1. /\ ServicesKnown' = ServicesKnown
        /\ \A u \in TraceIds : u # t => Untouched(u)
        /\ new # None /\ new[id] # None /\ Shows(new[id], h, ServicesKnown)
        /\ LivesOf'[t] \in Nat /\ LivesOf'[t] >= 1
        /\ \/ LivesOf'[t] = LivesOf[t] + 1
           \/ /\ LivesOf'[t] = LivesOf[t] /\ evictedGenerations[t] = None
              /\ \A s \in SpanIds : s # id => new[s] = TablesOf[t][s]
    BY <1>5, RowShown
  <2>2. \E r \in S : h \in SpansOf(r)
    BY <1>5
  <2> HIDE DEF h
  <2>3. CASE x.trace # t
    BY <1>0, <1>2, <2>1, <2>3
  <2>4. CASE x.trace = t /\ x.id = id
    <3> HIDE DEF id, t
    <3> QED BY <2>1, <2>2, <2>4 DEF Found, t, id, new
  <2>5. CASE x.trace = t /\ x.id # id
    <3>1. CASE LivesOf'[t] = LivesOf[t] + 1
      BY <1>3, <2>5, <3>1
    <3>2. CASE /\ LivesOf'[t] = LivesOf[t] /\ evictedGenerations[t] = None
               /\ \A s \in SpanIds : s # id => new[s] = TablesOf[t][s]
      <4>1. new[x.id] = TablesOf[x.trace][x.id]
        BY <1>0, <2>5, <3>2
      <4>2. /\ LivesOf[x.trace] \in Nat /\ LivesOf[x.trace] >= 1
            /\ LivesOf[x.trace] <= 1 =>
                 /\ TablesOf[x.trace][x.id] # None
                 /\ \E r \in S : \E last \in SpansOf(r) :
                      /\ last.trace = x.trace /\ last.id = x.id
                      /\ Shows(TablesOf[x.trace][x.id], last, ServicesKnown)
        BY <1>1, <2>5, <3>2 DEF Found
      <4>3. TablesOf'[x.trace] # None /\ LivesOf'[x.trace] = LivesOf[x.trace]
            /\ TablesOf'[x.trace][x.id] = TablesOf[x.trace][x.id]
        BY <2>1, <2>5, <3>2, <4>1
      <4> QED BY <2>1, <4>2, <4>3 DEF Found
    <3> QED BY <2>1, <3>1, <3>2
  <2> QED BY <2>3, <2>4, <2>5
<1> QED BY <1>4, <1>5

(***************************************************************************)
(* The span that is inserted is found.                                     *)
(***************************************************************************)
LEMMA FoundInserted ==
  ASSUME IInv, NamesInv, IInv', NamesInv', InsertRow, ServiceRefused,
         NEW S, \E r \in S : Head(batch) \in SpansOf(r)
  PROVE  Found(Head(batch), S, TablesOf', LivesOf', evictedGenerations', ServicesKnown')
<1> DEFINE h  == Head(batch)
           t  == h.trace
           id == h.id
<1>1. /\ ServicesKnown' = ServicesKnown
      /\ TablesOf'[t] # None /\ TablesOf'[t][id] # None
      /\ Shows(TablesOf'[t][id], h, ServicesKnown)
      /\ LivesOf'[t] \in Nat /\ LivesOf'[t] >= 1
  BY RowShown
<1>2. \E r \in S : h \in SpansOf(r)
  OBVIOUS
<1> HIDE DEF h
<1>3. Found(h, S, TablesOf', LivesOf', evictedGenerations', ServicesKnown')
  BY <1>1, <1>2 DEF Found
<1> QED BY <1>3 DEF h

(***************************************************************************)
(* The spans of what was delivered are spans.                              *)
(***************************************************************************)
LEMMA SpansTyped ==
  ASSUME IngestInv, NEW r \in Delivered
  PROVE  BatchOf(r).spans \in Seq(NewSpanType) /\ SpansOf(r) \subseteq NewSpanType
<1>1. r \in Decodable /\ BatchOf(r) # EmptyPayload
  BY DEF IngestInv, Convertible, Decodable, Delivered
<1>2. BatchOf(r) \in Batches
  BY <1>1, PipelineAssumption
<1>3. BatchOf(r).spans \in Seq(NewSpanType)
  BY <1>2, StoreAssumption
<1>4. SpansOf(r) \subseteq NewSpanType
  <2> DEFINE s == BatchOf(r).spans
  <2>1. s \in Seq(NewSpanType)
    BY <1>3
  <2> HIDE DEF s
  <2>2. Range(s) \subseteq NewSpanType
    BY <2>1 DEF Range
  <2> QED BY <2>2 DEF s, SpansOf
<1> QED BY <1>3, <1>4

(***************************************************************************)
(* A service name without an id met a full table.                          *)
(***************************************************************************)
LEMMA RefusedStep ==
  ASSUME IInv, NamesInv, ServiceRefused, [Next]_vars PROVE ServiceRefused'
<1>1. CASE BeginSpan
  <2> DEFINE name == Head(batch).service
  <2>1. name \in Optional(ServiceNames) /\ batch' = batch
    BY <1>1, HeadOfBatch DEF IInv, TypeOK, BeginSpan
  <2> SUFFICES ASSUME serviceNameId' = None, name # None
               PROVE  Len(serviceInterner'.values) = InternerCap
    BY <2>1 DEF ServiceRefused, ServicesKnown
  <2>2. /\ serviceInterner' = Intern(serviceInterner, name)
        /\ serviceNameId' = InternedId(serviceInterner, name)
    BY <1>1 DEF BeginSpan
  <2>3. name \in ServiceNames
    BY <2>1 DEF Optional
  <2> HIDE DEF name
  <2>4. Learns(serviceInterner, serviceInterner', name)
    BY <2>2, <2>3, InternerTypes, InternLearns
  <2>5. serviceInterner.cap = InternerCap
    BY DEF NamesInv, Caps
  <2> QED BY <2>2, <2>4, <2>5, NoneAssumption DEF Learns
<1>2. CASE InternAttr
  BY <1>2 DEF InternAttr, ServiceRefused, ServicesKnown
<1>3. CASE (\E b \in Batches : Recv(b)) \/ InsertSpan \/ EndAppend \/ Release \/ Notify
  BY <1>3 DEF Recv, InsertSpan, InsertRow, EndAppend, Release, Notify, AfterRelease, ServiceRefused
<1>4. ASSUME NEW t \in TraceIds, EvictOldest(t) PROVE ServiceRefused'
  BY <1>4 DEF EvictOldest, ServiceRefused, writerVars
<1>5. CASE UNCHANGED vars
  BY <1>5 DEF vars, writerVars, storeVars, spanVars, ServiceRefused, ServicesKnown
<1> QED BY <1>1, <1>2, <1>3, <1>4, <1>5 DEF Next, WriterStep

(***************************************************************************)
(* The step of the pipeline, seen from the batch in hand.                  *)
(***************************************************************************)
LEMMA BatchMoves ==
  ASSUME PartsInv, WriterInStep, BatchInHand, [PipelineNext]_pipelineVars
  PROVE  \/ /\ UNCHANGED <<writer, applied, batch>> /\ ~InsertRow
         \/ /\ UNCHANGED <<writer, applied>> /\ InsertRow /\ writer \in Requests
            /\ batch # <<>> /\ batch' = Tail(batch) /\ Head(batch) \in SpansOf(writer)
            /\ Range(batch) = {Head(batch)} \cup Range(Tail(batch))
         \/ /\ writer = None /\ writer' \in Requests /\ writer' \in Delivered /\ UNCHANGED applied
            /\ batch' = BatchOf(writer').spans /\ ~InsertRow
         \/ /\ writer \in Requests /\ writer' = None /\ applied' = Append(applied, writer)
            /\ batch = <<>> /\ batch' = <<>> /\ ~InsertRow
         \/ /\ writer' = "dead" /\ UNCHANGED batch
<1>0. /\ batch \in Seq(NewSpanType) /\ IngestInv /\ IInv
      /\ writer \in Requests \cup {None, "dead"} /\ None \notin Requests
  BY IngestAssumption DEF PartsInv, IInv, TypeOK, IngestInv, IngestTypeOK
<1>1. CASE Handlers
  <2>1. PICK r \in Requests : Arrive(r) \/ HandlerStep(r) \/ Disconnect(r)
    BY <1>1 DEF Handlers
  <2>2. UNCHANGED <<writer, applied>>
    BY <1>0, <2>1, HandlerEffect DEF deliveryVars
  <2>3. UNCHANGED <<batch, pc>>
    BY <1>1 DEF Handlers, vars, writerVars
  <2>4. ~InsertRow
    BY <2>3 DEF InsertRow
  <2> QED BY <2>2, <2>3, <2>4
<1>2. CASE TakeBatch
  <2>1. /\ writer = None /\ writer' = Head(queue) /\ queue # <<>> /\ UNCHANGED applied
        /\ batch' = BatchOf(Head(queue)).spans /\ pc = "recv"
    BY <1>2 DEF TakeBatch, WriterRecv, Ready, Recv
  <2>2. queue \in Seq(Requests)
    BY <1>0 DEF IngestInv, IngestTypeOK
  <2>3. Head(queue) \in Requests /\ Head(queue) \in Range(queue)
    BY <2>1, <2>2, RangeTail
  <2>4. Head(queue) \in Delivered
    BY <1>0, <2>3 DEF IngestInv, OnePlace
  <2>5. ~InsertRow
    BY <2>1 DEF InsertRow
  <2> QED BY <2>1, <2>3, <2>4, <2>5
<1>3. CASE WorkOnBatch
  <2>1. UNCHANGED <<writer, applied>> /\ WriterAlive
    BY <1>3 DEF WorkOnBatch, ingestVars, deliveryVars
  <2>2. CASE InsertRow
    <3>1. pc = "attrs" /\ batch' = Tail(batch)
      BY <2>2 DEF InsertRow
    <3>2. batch # <<>>
      BY <1>0, <3>1 DEF IInv, SpanInHand
    <3>3. writer \in Requests
      BY <2>1, <3>1 DEF WriterInStep, LockHeld
    <3>4. Range(batch) = {Head(batch)} \cup Range(Tail(batch))
      BY <1>0, <3>2, RangeTail
    <3>5. Head(batch) \in SpansOf(writer)
      BY <3>3, <3>4 DEF BatchInHand
    <3> QED BY <2>1, <2>2, <3>1, <3>2, <3>3, <3>4, <3>5
  <2>3. CASE ~InsertRow
    <3>1. UNCHANGED batch
      BY <1>3, <2>3 DEF WorkOnBatch, BeginSpan, InternAttr, InsertSpan, EndAppend,
                        EvictOldest, Notify, writerVars
    <3> QED BY <2>1, <2>3, <3>1
  <2> QED BY <2>2, <2>3
<1>4. CASE FinishBatch
  <2>1. /\ writer \in Requests /\ writer' = None /\ applied' = Append(applied, writer)
        /\ pc = "evict" /\ UNCHANGED batch
    BY <1>4 DEF FinishBatch, WriterApply, Release
  <2>2. batch = <<>>
    BY <2>1 DEF BatchInHand
  <2>3. ~InsertRow
    BY <2>1 DEF InsertRow
  <2> QED BY <2>1, <2>2, <2>3
<1>5. CASE WriterPanics
  BY <1>5 DEF WriterPanics, WriterDies, vars, writerVars
<1>6. CASE ReadCounters \/ ReadReceiver \/ UNCHANGED pipelineVars
  <2>1. UNCHANGED <<ingestVars, vars>>
    BY <1>6 DEF ReadCounters, ReadReceiver, pipelineVars
  <2>2. UNCHANGED <<writer, applied, batch, pc>>
    BY <2>1 DEF ingestVars, deliveryVars, vars, writerVars
  <2>3. ~InsertRow
    BY <2>2 DEF InsertRow
  <2> QED BY <2>2, <2>3
<1> QED BY <1>1, <1>2, <1>3, <1>4, <1>5, <1>6 DEF PipelineNext

(***************************************************************************)
(* Nothing is left of a batch when its appending is over.                  *)
(***************************************************************************)
LEMMA EmptyWhenDone ==
  ASSUME [Next]_vars, pc \in {"recv", "notify", "evict"} => batch = <<>>
  PROVE  pc' \in {"recv", "notify", "evict"} => batch' = <<>>
<1>1. CASE (\E b \in Batches : Recv(b)) \/ BeginSpan \/ InsertSpan
  BY <1>1 DEF Recv, BeginSpan, InsertSpan, InsertRow
<1>2. CASE InternAttr \/ EndAppend \/ Release \/ Notify
  BY <1>2 DEF InternAttr, EndAppend, Release, Notify
<1>3. ASSUME NEW t \in TraceIds, EvictOldest(t)
      PROVE  pc' \in {"recv", "notify", "evict"} => batch' = <<>>
  BY <1>3 DEF EvictOldest, writerVars
<1>4. CASE UNCHANGED vars
  BY <1>4 DEF vars, writerVars
<1> QED BY <1>1, <1>2, <1>3, <1>4 DEF Next, WriterStep

(***************************************************************************)
(* The batch in hand stays a part of the writer's request.                 *)
(***************************************************************************)
LEMMA HandStep ==
  ASSUME PartsInv, WriterInStep, BatchInHand, [PipelineNext]_pipelineVars
  PROVE  BatchInHand'
<1>0. IngestInv /\ None \notin Requests /\ "dead" \notin Requests
  BY IngestAssumption DEF PartsInv
<1>1. [Next]_vars
  BY <1>0, StepOfParts
<1>2. pc' \in {"recv", "notify", "evict"} => batch' = <<>>
  BY <1>1, EmptyWhenDone DEF BatchInHand
<1>3. writer' \in Requests => Range(batch') \subseteq SpansOf(writer')
  <2>1. CASE UNCHANGED <<writer, applied, batch>>
    BY <2>1 DEF BatchInHand
  <2>2. CASE /\ UNCHANGED writer /\ batch' = Tail(batch)
             /\ Range(batch) = {Head(batch)} \cup Range(Tail(batch))
    BY <2>2 DEF BatchInHand
  <2>3. CASE batch' = BatchOf(writer').spans
    BY <2>3 DEF SpansOf
  <2>4. CASE writer' = None \/ writer' = "dead"
    BY <1>0, <2>4
  <2> QED BY <2>1, <2>2, <2>3, <2>4, BatchMoves
<1> QED BY <1>2, <1>3 DEF BatchInHand

(***************************************************************************)
(* What was inserted stays found.                                          *)
(***************************************************************************)
LEMMA FindStep ==
  ASSUME PartsInv, PartsInv', WriterInStep, ReadInv, [PipelineNext]_pipelineVars
  PROVE  InsertedFound'
<1> DEFINE FoundNext(x, S) ==
             Found(x, S, TablesOf', LivesOf', evictedGenerations', ServicesKnown')
<1>11. PICK n : n = Len(applied)
  OBVIOUS
<1>12. applied \in Seq(Requests)
  BY DEF PartsInv, IngestInv, IngestTypeOK
<1>0. /\ IngestInv /\ IInv /\ NamesInv /\ IInv' /\ NamesInv'
      /\ BatchInHand /\ ServiceRefused /\ InsertedFound
      /\ None \notin Requests /\ "dead" \notin Requests /\ None # "dead"
      /\ applied \in Seq(Requests) /\ n \in Nat
      /\ n = Len(applied)
  BY <1>11, <1>12, IngestAssumption DEF PartsInv, ReadInv
<1>1. [Next]_vars
  BY <1>0, StepOfParts
<1>2. Range(applied) \cup Held \subseteq Delivered
  BY <1>0, DeliveredFinite
<1>3. \A i \in 1..n : applied[i] \in Delivered
  <2>1. \A i \in 1..n : applied[i] \in Range(applied)
    BY <1>0 DEF Range
  <2> QED BY <1>2, <2>1
<1>4. ASSUME WriterAlive, NEW i \in 1..n, NEW x \in SpansOf(applied[i]), NEW S,
             AppliedFrom(i) \cup Held \subseteq S,
             InsertRow => \E r \in S : Head(batch) \in SpansOf(r)
      PROVE  FoundNext(x, S)
  <2> DEFINE R == AppliedFrom(i) \cup Held
  <2>1. FoundNow(x, R)
    BY <1>0, <1>4 DEF InsertedFound
  <2>2. x \in NewSpanType
    BY <1>0, <1>3, SpansTyped
  <2>3. R \subseteq S
    BY <1>4
  <2> HIDE DEF R
  <2> QED BY <1>0, <1>1, <1>4, <2>1, <2>2, <2>3, FoundStep
<1>5. ASSUME WriterAlive, writer \in Requests, NEW x \in SpansOf(writer), x \notin Range(batch), NEW S,
             Held \subseteq S, InsertRow => \E r \in S : Head(batch) \in SpansOf(r)
      PROVE  FoundNext(x, S)
  <2> DEFINE R == Held
  <2>1. FoundNow(x, R)
    BY <1>0, <1>5 DEF InsertedFound
  <2>2. x \in NewSpanType
    <3>1. writer \in Delivered
      BY <1>2, <1>5 DEF Held
    <3> QED BY <1>0, <3>1, SpansTyped
  <2>3. R \subseteq S
    BY <1>5
  <2> HIDE DEF R
  <2> QED BY <1>0, <1>1, <1>5, <2>1, <2>2, <2>3, FoundStep
<1> HIDE DEF FoundNext
<1>6. SUFFICES ASSUME WriterAlive'
               PROVE  /\ \A i \in 1..Len(applied') : \A x \in SpansOf(applied'[i]) :
                           FoundNext(x, (AppliedFrom(i) \cup Held)')
                      /\ writer' \in Requests =>
                           \A x \in SpansOf(writer') : x \in Range(batch') \/ FoundNext(x, Held')
  BY DEF InsertedFound, FoundNow, FoundNext
<1>7. CASE UNCHANGED <<writer, applied>> /\
           \/ UNCHANGED batch /\ ~InsertRow
           \/ /\ InsertRow /\ writer \in Requests
              /\ batch' = Tail(batch) /\ Head(batch) \in SpansOf(writer)
              /\ Range(batch) = {Head(batch)} \cup Range(Tail(batch))
  <2>1. /\ WriterAlive /\ Held' = Held /\ Len(applied') = n
        /\ \A i \in 1..n : AppliedFrom(i)' = AppliedFrom(i)
    BY <1>0, <1>6, <1>7 DEF WriterAlive, Held, AppliedFrom
  <2>2. InsertRow => \E r \in Held : Head(batch) \in SpansOf(r)
    BY <1>7 DEF Held
  <2>3. ASSUME NEW i \in 1..n, NEW x \in SpansOf(applied[i])
        PROVE  FoundNext(x, AppliedFrom(i) \cup Held)
    <3> DEFINE S == AppliedFrom(i) \cup Held
    <3>1. AppliedFrom(i) \cup Held \subseteq S /\ (InsertRow => \E r \in S : Head(batch) \in SpansOf(r))
      BY <2>2
    <3> HIDE DEF S
    <3>2. FoundNext(x, S)
      BY <1>4, <2>1, <3>1
    <3> QED BY <3>2 DEF S
  <2>4. ASSUME writer \in Requests, NEW x \in SpansOf(writer), x \notin Range(batch')
        PROVE  FoundNext(x, Held)
    <3> DEFINE S == Held
    <3>1. Held \subseteq S /\ (InsertRow => \E r \in S : Head(batch) \in SpansOf(r))
      BY <2>2
    <3> HIDE DEF S
    <3>2. CASE x \notin Range(batch)
      BY <1>5, <2>1, <2>4, <3>1, <3>2 DEF S
    <3>3. CASE x \in Range(batch)
      <4>1. x = Head(batch) /\ InsertRow
        BY <1>7, <2>4, <3>3
      <4>2. \E r \in S : Head(batch) \in SpansOf(r)
        BY <3>1, <4>1
      <4>3. FoundNext(Head(batch), S)
        BY <1>0, <4>1, <4>2, FoundInserted DEF FoundNext
      <4> QED BY <4>1, <4>3 DEF S
    <3> QED BY <3>2, <3>3
  <2> QED BY <1>7, <2>1, <2>3, <2>4
<1>8. CASE /\ writer = None /\ writer' \in Requests /\ UNCHANGED applied
           /\ batch' = BatchOf(writer').spans /\ ~InsertRow
  <2>1. /\ WriterAlive /\ Len(applied') = n /\ Held = {}
        /\ \A i \in 1..n : AppliedFrom(i)' = AppliedFrom(i)
    BY <1>0, <1>8 DEF WriterAlive, Held, AppliedFrom
  <2>2. ASSUME NEW i \in 1..n, NEW x \in SpansOf(applied[i])
        PROVE  FoundNext(x, AppliedFrom(i) \cup Held')
    <3> DEFINE S == AppliedFrom(i) \cup Held'
    <3>1. AppliedFrom(i) \cup Held \subseteq S
      BY <2>1
    <3> HIDE DEF S
    <3>2. FoundNext(x, S)
      BY <1>4, <1>8, <2>1, <3>1
    <3> QED BY <3>2 DEF S
  <2>3. \A x \in SpansOf(writer') : x \in Range(batch')
    BY <1>8 DEF SpansOf
  <2> QED BY <1>8, <2>1, <2>2, <2>3
<1>9. CASE /\ writer \in Requests /\ writer' = None /\ applied' = Append(applied, writer)
           /\ batch = <<>> /\ ~InsertRow
  <2>1. /\ WriterAlive /\ Held = {writer} /\ Held' = {}
        /\ Len(applied') = n + 1 /\ applied'[n + 1] = writer
        /\ \A j \in 1..n : applied'[j] = applied[j]
    BY <1>0, <1>9 DEF WriterAlive, Held
  <2>2. \A i \in 1..n : AppliedFrom(i) \cup Held \subseteq (AppliedFrom(i) \cup Held)'
    <3> SUFFICES ASSUME NEW i \in 1..n
                 PROVE  AppliedFrom(i) \cup Held \subseteq (AppliedFrom(i) \cup Held)'
      OBVIOUS
    <3>1. n + 1 \in i..(n + 1) /\ \A j \in i..n : j \in 1..n /\ j \in i..(n + 1)
      BY <1>0
    <3>2. AppliedFrom(i) \subseteq AppliedFrom(i)'
      <4>1. \A j \in i..Len(applied) : j \in i..Len(applied') /\ applied'[j] = applied[j]
        BY <1>0, <2>1, <3>1
      <4> QED BY <4>1 DEF AppliedFrom
    <3>3. writer \in AppliedFrom(i)'
      BY <2>1, <3>1 DEF AppliedFrom
    <3> QED BY <2>1, <3>2, <3>3
  <2>3. ASSUME NEW i \in 1..n, NEW x \in SpansOf(applied[i])
        PROVE  FoundNext(x, (AppliedFrom(i) \cup Held)')
    <3> DEFINE S == (AppliedFrom(i) \cup Held)'
    <3>1. AppliedFrom(i) \cup Held \subseteq S
      BY <2>2
    <3> HIDE DEF S
    <3>2. FoundNext(x, S)
      BY <1>4, <1>9, <2>1, <3>1
    <3> QED BY <3>2 DEF S
  <2>4. ASSUME NEW x \in SpansOf(writer)
        PROVE  FoundNext(x, (AppliedFrom(n + 1) \cup Held)')
    <3> DEFINE S == (AppliedFrom(n + 1) \cup Held)'
    <3>1. Held \subseteq S
      <4>1. n + 1 \in (n + 1)..(n + 1)
        BY <1>0
      <4>2. writer \in AppliedFrom(n + 1)'
        BY <2>1, <4>1 DEF AppliedFrom
      <4> QED BY <2>1, <4>2
    <3>2. x \notin Range(batch)
      BY <1>9 DEF Range
    <3> HIDE DEF S
    <3>3. FoundNext(x, S)
      BY <1>5, <1>9, <2>1, <3>1, <3>2
    <3> QED BY <3>3 DEF S
  <2>5. ASSUME NEW i \in 1..Len(applied'), NEW x \in SpansOf(applied'[i])
        PROVE  FoundNext(x, (AppliedFrom(i) \cup Held)')
    <3>1. i \in 1..n \/ i = n + 1
      BY <1>0, <2>1
    <3>2. CASE i \in 1..n
      BY <2>1, <2>3, <3>2
    <3>3. CASE i = n + 1
      BY <2>1, <2>4, <3>3
    <3> QED BY <3>1, <3>2, <3>3
  <2> QED BY <1>0, <1>9, <2>5
<1>10. CASE writer' = "dead"
  BY <1>6, <1>10 DEF WriterAlive
<1> QED BY <1>0, <1>7, <1>8, <1>9, <1>10, BatchMoves

(***************************************************************************)
(* Nothing has been inserted in a new server.                              *)
(***************************************************************************)
LEMMA InitRead == PipelineInit => ReadInv
<1> SUFFICES ASSUME PipelineInit PROVE ReadInv
  OBVIOUS
<1>1. writer = None /\ pc = "recv" /\ batch = <<>> /\ applied = <<>> /\ None \notin Requests
  BY IngestAssumption DEF PipelineInit, IngestInit, Init
<1> QED BY <1>1 DEF ReadInv, BatchInHand, ServiceRefused, InsertedFound

(***************************************************************************)
(* All the invariants of the pipeline together.                            *)
(***************************************************************************)
LEMMA ReadInductive == PipelineSpec => [](PartsInv /\ CountInv /\ ReadInv)
<1>1. PartsInv /\ PartsInv' /\ CountInv /\ ReadInv /\ [PipelineNext]_pipelineVars => ReadInv'
  <2> SUFFICES ASSUME PartsInv, PartsInv', CountInv, ReadInv, [PipelineNext]_pipelineVars
               PROVE  ReadInv'
    OBVIOUS
  <2>1. /\ IngestInv /\ IInv /\ NamesInv /\ WriterInStep /\ BatchInHand /\ ServiceRefused
    BY DEF PartsInv, CountInv, ReadInv
  <2>2. [Next]_vars
    BY <2>1, StepOfParts
  <2>3. BatchInHand' /\ ServiceRefused'
    BY <2>1, <2>2, HandStep, RefusedStep
  <2>4. InsertedFound'
    BY <2>1, FindStep
  <2> QED BY <2>3, <2>4 DEF ReadInv
<1> QED BY <1>1, InitRead, CountInductive, PTL DEF PipelineSpec

(***************************************************************************)
(* The service name of a group is the first of those sent, if there is one.*)
(***************************************************************************)
LEMMA ServiceNameSent ==
  ASSUME NEW group, Len(group.resource) \in Nat,
         \A j \in 1..Len(group.resource) :
           IsServiceName(group.resource[j]) => group.resource[j].value # None
  PROVE  /\ ServiceNameOf(group) = None => NamesSent(group) = {}
         /\ ServiceNameOf(group) # None => ServiceNameOf(group) \in NamesSent(group)
<1> DEFINE named == {j \in 1..Len(group.resource) : IsServiceName(group.resource[j])}
           m == Min(named)
<1>1. NamesSent(group) = {group.resource[j].value : j \in named}
  BY DEF NamesSent
<1>2. ServiceNameOf(group) = IF named # {} /\ group.resource[m].kind = "string"
                             THEN group.resource[m].value ELSE None
  BY DEF ServiceNameOf
<1>3. CASE named = {}
  BY <1>1, <1>2, <1>3
<1>4. CASE named # {}
  <2>1. named \subseteq Nat
    OBVIOUS
  <2>2. m \in named
    <3> DEFINE K == named
    <3>1. K \subseteq Nat /\ K # {}
      BY <1>4, <2>1
    <3> HIDE DEF K
    <3>2. \E k \in K : \A l \in K : k <= l
      BY <3>1, SmallestNumber
    <3>3. Min(K) \in K
      BY <3>2 DEF Min
    <3> QED BY <3>3 DEF K
  <2>3. IsServiceName(group.resource[m]) /\ group.resource[m].value # None
    BY <2>2
  <2>4. group.resource[m].kind = "string"
    BY <2>3 DEF IsServiceName
  <2>5. ServiceNameOf(group) = group.resource[m].value
    BY <1>2, <1>4, <2>4
  <2>6. group.resource[m].value \in NamesSent(group)
    BY <1>1, <2>2
  <2> QED BY <2>3, <2>5, <2>6
<1> QED BY <1>3, <1>4

(***************************************************************************)
(* A span of a batch is one that was sent, under the service name of its   *)
(* group; and each well-formed one that was sent is in the batch.          *)
(***************************************************************************)
LEMMA SentAndKept ==
  ASSUME IngestInv, NEW r \in Delivered
  PROVE  /\ \A x \in SpansOf(r) : \E h \in 1..Len(Decoded[r]) :
              \E l \in 1..Len(Decoded[r][h].spans) :
                x = NewSpan(Decoded[r][h].spans[l], ServiceNameOf(Decoded[r][h]))
         /\ \A h \in 1..Len(Decoded[r]) : \A l \in 1..Len(Decoded[r][h].spans) :
              ~IsMalformed(Decoded[r][h].spans[l])
                => NewSpan(Decoded[r][h].spans[l], ServiceNameOf(Decoded[r][h])) \in SpansOf(r)
         /\ \A h \in 1..Len(Decoded[r]) :
              /\ ServiceNameOf(Decoded[r][h]) = None => NamesSent(Decoded[r][h]) = {}
              /\ ServiceNameOf(Decoded[r][h]) # None
                   => ServiceNameOf(Decoded[r][h]) \in NamesSent(Decoded[r][h])
<1>1. r \in Requests /\ Decoded[r] # None /\ BatchOf(r) # EmptyPayload
  BY DeliveredFinite
<1>2. SpansOf(r) = UNION {KeptOf(Decoded[r][g]) : g \in 1..Len(Decoded[r])}
  BY <1>1, BatchConverted DEF SpansOf, AllKept
<1>3. ASSUME NEW x \in SpansOf(r)
      PROVE  \E h \in 1..Len(Decoded[r]) : \E l \in 1..Len(Decoded[r][h].spans) :
                x = NewSpan(Decoded[r][h].spans[l], ServiceNameOf(Decoded[r][h]))
  <2>1. PICK h \in 1..Len(Decoded[r]) : x \in KeptOf(Decoded[r][h])
    BY <1>2
  <2> QED BY <2>1 DEF KeptOf
<1>4. ASSUME NEW h \in 1..Len(Decoded[r]), NEW l \in 1..Len(Decoded[r][h].spans),
             ~IsMalformed(Decoded[r][h].spans[l])
      PROVE  NewSpan(Decoded[r][h].spans[l], ServiceNameOf(Decoded[r][h])) \in SpansOf(r)
  <2>1. NewSpan(Decoded[r][h].spans[l], ServiceNameOf(Decoded[r][h])) \in KeptOf(Decoded[r][h])
    BY <1>4 DEF KeptOf
  <2> QED BY <1>2, <2>1
<1>5. ASSUME NEW h \in 1..Len(Decoded[r])
      PROVE  /\ ServiceNameOf(Decoded[r][h]) = None => NamesSent(Decoded[r][h]) = {}
             /\ ServiceNameOf(Decoded[r][h]) # None
                  => ServiceNameOf(Decoded[r][h]) \in NamesSent(Decoded[r][h])
  <2> DEFINE group == Decoded[r][h]
  <2>1. /\ Len(group.resource) \in Nat
        /\ \A j \in 1..Len(group.resource) :
             IsServiceName(group.resource[j]) => group.resource[j].value # None
    BY <1>1, DecodedAssumption, Zenon
  <2> HIDE DEF group
  <2>2. /\ ServiceNameOf(group) = None => NamesSent(group) = {}
        /\ ServiceNameOf(group) # None => ServiceNameOf(group) \in NamesSent(group)
    BY ONLY <2>1, ServiceNameSent
  <2> QED BY <2>2 DEF group
<1> QED BY <1>3, <1>4, <1>5

(***************************************************************************)
(* At rest a span of an applied request is found as one of the requests    *)
(* applied from it on, which is what its sender can read.                  *)
(***************************************************************************)
LEMMA FoundIsReadable == PartsInv /\ CountInv /\ ReadInv => AppliedIsReadable
<1> SUFFICES ASSUME PartsInv, CountInv, ReadInv, AtRest,
                    NEW i \in 1..Len(applied), NEW g \in 1..Len(Decoded[applied[i]]),
                    NEW k \in 1..Len(Decoded[applied[i]][g].spans),
                    ~IsMalformed(Decoded[applied[i]][g].spans[k]),
                    NeverEvicted(Decoded[applied[i]][g].spans[k].trace)
             PROVE  FoundSince(i, Decoded[applied[i]][g].spans[k])
  BY DEF AppliedIsReadable
<1> DEFINE pb    == Decoded[applied[i]][g].spans[k]
           x     == NewSpan(pb, ServiceNameOf(Decoded[applied[i]][g]))
           entry == TablesOf[pb.trace][pb.id]
<1>0. /\ IngestInv /\ WriterInStep /\ InsertedFound
      /\ applied \in Seq(Requests) /\ WriterAlive /\ Held = {}
  <2>1. IngestInv /\ WriterInStep /\ InsertedFound /\ WriterAlive
    BY DEF PartsInv, CountInv, ReadInv, AtRest
  <2>2. Held = {}
    BY <2>1 DEF AtRest, WriterInStep, LockHeld, Held
  <2>3. applied \in Seq(Requests)
    BY <2>1 DEF IngestInv, IngestTypeOK
  <2> QED BY <2>1, <2>2, <2>3
<1>1. \A j \in 1..Len(applied) : applied[j] \in Delivered
  <2>1. Range(applied) \subseteq Delivered
    BY <1>0, DeliveredFinite
  <2>2. \A j \in 1..Len(applied) : applied[j] \in Range(applied)
    BY <1>0 DEF Range
  <2> QED BY <2>1, <2>2
<1>2. AppliedFrom(i) \subseteq Delivered
  <2>1. \A j \in i..Len(applied) : j \in 1..Len(applied)
    BY <1>0
  <2> QED BY <1>1, <2>1 DEF AppliedFrom
<1>3. x \in SpansOf(applied[i])
  BY <1>0, <1>1, SentAndKept
<1>4. x.trace = pb.trace /\ x.id = pb.id
  BY DEF NewSpan
<1>5. FoundNow(x, AppliedFrom(i))
  <2>1. FoundNow(x, AppliedFrom(i) \cup Held)
    <3> HIDE DEF x
    <3> QED BY <1>0, <1>3 DEF InsertedFound
  <2>2. AppliedFrom(i) \cup Held = AppliedFrom(i)
    BY <1>0
  <2> QED BY <2>1, <2>2
<1>6. evictedGenerations[pb.trace] = None /\ LivesOf[pb.trace] <= 1
  BY DEF NeverEvicted
<1> HIDE DEF x, pb
<1>7. /\ TablesOf[pb.trace] # None /\ entry # None
      /\ \E r \in AppliedFrom(i) : \E last \in SpansOf(r) :
           /\ last.trace = pb.trace /\ last.id = pb.id
           /\ Shows(entry, last, ServicesKnown)
  BY <1>4, <1>5, <1>6 DEF FoundNow, Found
<1> HIDE DEF entry
<1>8. PICK r \in AppliedFrom(i) : \E last \in SpansOf(r) :
           /\ last.trace = pb.trace /\ last.id = pb.id
           /\ Shows(entry, last, ServicesKnown)
  BY <1>7
<1>9. PICK last \in SpansOf(r) :
           /\ last.trace = pb.trace /\ last.id = pb.id
           /\ Shows(entry, last, ServicesKnown)
  BY <1>8
<1>10. r \in Delivered
  BY <1>2
<1>11. PICK h \in 1..Len(Decoded[r]) : \E l \in 1..Len(Decoded[r][h].spans) :
         last = NewSpan(Decoded[r][h].spans[l], ServiceNameOf(Decoded[r][h]))
  BY <1>0, <1>10, SentAndKept
<1>12. PICK l \in 1..Len(Decoded[r][h].spans) :
         last = NewSpan(Decoded[r][h].spans[l], ServiceNameOf(Decoded[r][h]))
  BY <1>11
<1> DEFINE sent == Decoded[r][h].spans[l]
           group == Decoded[r][h]
<1>13. /\ ServiceNameOf(group) = None => NamesSent(group) = {}
       /\ ServiceNameOf(group) # None => ServiceNameOf(group) \in NamesSent(group)
  BY <1>0, <1>10, SentAndKept
<1>14. last = NewSpan(sent, ServiceNameOf(group))
  BY <1>12
<1> HIDE DEF sent, group
<1>15. /\ last.trace = sent.trace /\ last.id = sent.id /\ last.body = sent.body
       /\ last.service = ServiceNameOf(group)
  BY <1>14 DEF NewSpan
<1>16. ReadsAs(entry, sent, group)
  BY <1>9, <1>13, <1>15 DEF ReadsAs, Shows, ServicesKnown
<1>17. sent.trace = pb.trace /\ sent.id = pb.id
  BY <1>9, <1>15
<1> QED BY <1>7, <1>16, <1>17 DEF sent, group, entry, pb, TableAt, FoundSince

(***************************************************************************)
(* What an exporter was told has arrived can be read.                      *)
(***************************************************************************)
THEOREM AppliedAlwaysReadable == PipelineSpec => []AppliedIsReadable
BY FoundIsReadable, ReadInductive, PTL
=============================================================================
