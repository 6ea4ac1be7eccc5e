---------------------------- MODULE TraceInsert -----------------------------
(***************************************************************************)
(* One trace receiving spans one after the other, in any order and with    *)
(* any repetition: the store calls `Trace::insert` under its write lock,   *)
(* so calls are atomic and their order is the only freedom.  The spans are *)
(* those of the constant Spans, their attribute keys and service names     *)
(* already interned.                                                       *)
(***************************************************************************)
EXTENDS Trace

CONSTANTS Spans,    \* the spans that may arrive
          Times     \* readings of the writer's clock

ASSUME SpansAssumption ==
  \A span \in Spans :
    /\ span.id \in SpanIds
    /\ span.parent \in Optional(SpanIds)
    /\ span.body \in Bodies
    /\ span.service \in Optional(Nat)
    /\ span.attrs \in Seq(InternedAttr)

ASSUME TimesAssumption == Times \subseteq Nat

ASSUME NoneIsNoRow == None \notin RowType

VARIABLES trace,
          arrival   \* history: the span the latest call was given, None before the first

vars == <<trace, arrival>>

Init ==
  /\ \E now \in Times : trace = NewTrace(now)
  /\ arrival = None

InsertSpan(span, now) ==
  /\ trace' = Insert(trace, span, span.service, span.attrs, now)
  /\ arrival' = span

Next == \E span \in Spans, now \in Times : InsertSpan(span, now)

Spec == Init /\ [][Next]_vars

-----------------------------------------------------------------------------

TypeOK == trace \in TraceType /\ arrival \in Optional(Spans)

(***************************************************************************)
(* After every insertion and overwrite the columns agree with each other:  *)
(* same length, index and id column inverse, offsets tiling the dense      *)
(* arrays.  A splice that shifts one offset too few or too many breaks it. *)
(***************************************************************************)
ColumnsConsistent == RowsAligned(trace) /\ IndexInverse(trace) /\ SlicesTile(trace)

(***************************************************************************)
(* Whatever the arrival order, no span is left an orphan once its parent   *)
(* is there, and no span is linked and waiting at once.                    *)
(***************************************************************************)
OrphansHeal == LinksExact(trace)

(***************************************************************************)
(* A local index handed to a reader stays good for the life of the trace:  *)
(* rows never move, and a resolved parent link never changes.              *)
(***************************************************************************)
RowsStable ==
  [][/\ SpanCount(trace) <= SpanCount(trace')
     /\ \A i \in 1..SpanCount(trace) :
          /\ trace'.spanIds[i] = trace.spanIds[i]
          /\ trace.parentIdx[i] # None => trace'.parentIdx[i] = trace.parentIdx[i]
    ]_trace

(***************************************************************************)
(* The columns implement the abstract table: reading a span back gives its *)
(* latest contents, its attributes in order, and the parent it was first   *)
(* declared with, whatever arrived before, between and after.              *)
(***************************************************************************)
Table == INSTANCE SpanTable WITH table <- TableOf(trace)

ImplementsTable == Table!Spec

(***************************************************************************)
(* What the comment of `insert` says of a repeated span id: it overwrites  *)
(* in place, last write wins.  `overwrite_at` leaves the parent alone.     *)
(***************************************************************************)
LastWriteWins == Table!LastWriteWinsSpec
=============================================================================
