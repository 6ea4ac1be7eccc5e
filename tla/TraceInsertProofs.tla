------------------------- MODULE TraceInsertProofs --------------------------
(***************************************************************************)
(* The invariants of TraceInsert hold for every set of spans, every clock  *)
(* and every order of arrival.  TraceInv, the conjunction of the type and  *)
(* of the named parts of the invariants, is inductive: the index must be   *)
(* the inverse of the id column for an overwrite to hit its row, and the   *)
(* offsets must be ordered as a whole for a splice to move the later ones. *)
(***************************************************************************)
EXTENDS TraceInsert, TraceProofs

(***************************************************************************)
(* What a call of `Trace::insert` does to a consistent trace, for a span   *)
(* of Spans.                                                               *)
(***************************************************************************)
LEMMA StepInv ==
  ASSUME TraceInv(trace), arrival \in Optional(Spans),
         NEW span \in Spans, NEW now \in Times, InsertSpan(span, now)
  PROVE  /\ TraceInv(trace') /\ arrival' \in Optional(Spans)
         /\ SpanCount(trace) <= SpanCount(trace')
         /\ \A i \in 1..SpanCount(trace) :
              /\ trace'.spanIds[i] = trace.spanIds[i]
              /\ trace.parentIdx[i] # None => trace'.parentIdx[i] = trace.parentIdx[i]
<1>1. /\ SpanOK(span) /\ now \in Nat
      /\ span.service \in Optional(Nat) /\ span.attrs \in Seq(InternedAttr)
  BY SpansAssumption, TimesAssumption DEF SpanOK
<1>2. /\ trace' = Insert(trace, span, span.service, span.attrs, now)
      /\ arrival' \in Optional(Spans)
  BY DEF InsertSpan, Optional
<1> QED BY <1>1, <1>2, InsertInv

(***************************************************************************)
(* A consistent trace and a well-typed history, at every moment.           *)
(***************************************************************************)
LEMMA Invariance == Spec => [](TraceInv(trace) /\ arrival \in Optional(Spans))
<1> DEFINE Inv == TraceInv(trace) /\ arrival \in Optional(Spans)
<1>1. Init => Inv
  BY NewTraceInv, TimesAssumption DEF Init, Optional
<1>2. Inv /\ [Next]_vars => Inv'
  <2> SUFFICES ASSUME Inv, [Next]_vars PROVE Inv'
    OBVIOUS
  <2>1. CASE Next
    BY <2>1, StepInv DEF Next
  <2>2. CASE UNCHANGED vars
    BY <2>2 DEF vars
  <2> QED BY <2>1, <2>2
<1> QED BY <1>1, <1>2, PTL DEF Spec

(***************************************************************************)
(* The type of the columns is kept by every `insert` and `overwrite_at`:   *)
(* in particular no offset ever becomes negative, whatever is spliced.     *)
(***************************************************************************)
THEOREM TypeCorrect == Spec => []TypeOK
<1>1. TraceInv(trace) /\ arrival \in Optional(Spans) => TypeOK
  BY DEF TraceInv, TypeOK
<1> QED BY <1>1, Invariance, PTL

(***************************************************************************)
(* Same length for all columns, index and id column inverse, offsets       *)
(* tiling the dense arrays, after any sequence of `insert`.                *)
(***************************************************************************)
THEOREM ColumnsStayConsistent == Spec => []ColumnsConsistent
<1>1. TraceInv(trace) /\ arrival \in Optional(Spans) => ColumnsConsistent
  BY DEF TraceInv, ColumnsConsistent
<1> QED BY <1>1, Invariance, PTL

(***************************************************************************)
(* Whatever the order of arrival `insert` leaves no span an orphan once    *)
(* its parent is there.                                                    *)
(***************************************************************************)
THEOREM OrphansAlwaysHeal == Spec => []OrphansHeal
<1>1. TraceInv(trace) /\ arrival \in Optional(Spans) => OrphansHeal
  BY DEF TraceInv, OrphansHeal
<1> QED BY <1>1, Invariance, PTL

(***************************************************************************)
(* No call of `insert` moves a row or changes a resolved parent link.      *)
(***************************************************************************)
THEOREM RowsNeverMove == Spec => RowsStable
<1> DEFINE Inv  == TraceInv(trace) /\ arrival \in Optional(Spans)
           Kept == /\ SpanCount(trace) <= SpanCount(trace')
                   /\ \A i \in 1..SpanCount(trace) :
                        /\ trace'.spanIds[i] = trace.spanIds[i]
                        /\ trace.parentIdx[i] # None =>
                             trace'.parentIdx[i] = trace.parentIdx[i]
<1>1. Inv /\ [Next]_vars => [Kept]_trace
  <2> SUFFICES ASSUME Inv, [Next]_vars PROVE [Kept]_trace
    OBVIOUS
  <2>1. CASE Next
    BY <2>1, StepInv DEF Next
  <2>2. CASE UNCHANGED vars
    BY <2>2 DEF vars
  <2> QED BY <2>1, <2>2
<1> QED BY <1>1, Invariance, PTL DEF Spec, RowsStable

(***************************************************************************)
(* The columns implement the abstract table, for every set of spans: each  *)
(* `insert` puts its span in the table and does nothing else to it, so     *)
(* offsets, splices, pending lists and back-patched links never show.      *)
(***************************************************************************)
THEOREM ColumnsImplementTable == Spec => ImplementsTable
<1> DEFINE Inv == TraceInv(trace) /\ arrival \in Optional(Spans)
<1>1. Init => Table!Init
  <2> SUFFICES ASSUME Init PROVE Table!Init
    OBVIOUS
  <2>1. PICK now \in Times : trace = NewTrace(now)
    BY DEF Init
  <2>2. \A s \in SpanIds : trace.spanIndex[s] = None
    BY <2>1 DEF NewTrace
  <2>3. TableOf(trace) = [s \in SpanIds |-> None]
    BY <2>2 DEF TableOf
  <2> QED BY <2>3 DEF Init, Table!Init
<1>2. Inv /\ [Next]_vars => [Table!Next]_(Table!vars)
  <2> SUFFICES ASSUME Inv, [Next]_vars PROVE [Table!Next]_(Table!vars)
    OBVIOUS
  <2>1. ASSUME NEW span \in Spans, NEW now \in Times, InsertSpan(span, now)
        PROVE  Table!Put(span)
    <3>1. /\ SpanOK(span) /\ now \in Nat
          /\ span.service \in Optional(Nat) /\ span.attrs \in Seq(InternedAttr)
      BY SpansAssumption, TimesAssumption DEF SpanOK
    <3>2. /\ trace' = Insert(trace, span, span.service, span.attrs, now)
          /\ arrival' = span
      BY <2>1 DEF InsertSpan
    <3>3. TableOf(trace') =
            [TableOf(trace) EXCEPT ![span.id] =
               EntryFor(TableOf(trace)[span.id], span, span.service, span.attrs)]
      BY <3>1, <3>2, NoneIsNoRow, InsertTable
    <3> QED BY <3>2, <3>3 DEF Table!Put, Table!Entry, EntryFor
  <2>2. CASE Next
    BY <2>1, <2>2 DEF Next, Table!Next
  <2>3. CASE UNCHANGED vars
    BY <2>3 DEF vars, Table!vars
  <2> QED BY <2>2, <2>3
<1> QED BY <1>1, <1>2, Invariance, PTL DEF Spec, ImplementsTable, Table!Spec
=============================================================================
