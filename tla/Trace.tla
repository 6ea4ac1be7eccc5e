------------------------------- MODULE Trace --------------------------------
(***************************************************************************)
(* store/trace.rs: one trace's spans as parallel columns, with the parent  *)
(* links patched in as spans arrive in any order and the attributes packed *)
(* into one dense array sliced by offsets.                                 *)
(*                                                                         *)
(* A trace is a value owned by the store; its methods are operators.  A    *)
(* column is a sequence; the local span index runs from 1 here and from 0  *)
(* in the code.  The columns names, start_time_unix_nano,                  *)
(* end_time_unix_nano, status_message, status_code and unknown_service are *)
(* written together in `insert` and in `overwrite_at` and read one by one  *)
(* only by the queries, so one column `body` stands for the six.           *)
(* `pendingChildren` maps a span id to the set of the indices waiting for  *)
(* it: each waits once, and the order in which they are patched is         *)
(* immaterial.                                                             *)
(***************************************************************************)
EXTENDS Integers, Sequences, Interner

CONSTANTS SpanIds, Bodies, AttrValues

ASSUME SpanIdsAssumption == None \notin SpanIds

(***************************************************************************)
(* `Trace::new`: every column empty, the offset sentinel already pushed.   *)
(***************************************************************************)
NewTrace(now) ==
  [generation      |-> 0,
   lastActivity    |-> now,
   spanIds         |-> <<>>,
   body            |-> <<>>,
   serviceNameId   |-> <<>>,
   parentIdx       |-> <<>>,
   orphan          |-> <<>>,
   attrKeys        |-> <<>>,
   attrValues      |-> <<>>,
   attrOffsets     |-> <<0>>,
   spanIndex       |-> [s \in SpanIds |-> None],
   pendingChildren |-> [s \in SpanIds |-> {}]]

SpanCount(t) == Len(t.spanIds)

(***************************************************************************)
(* `attribute_keys` and `attributes`, zipped: the slice of the dense       *)
(* arrays between two consecutive offsets.                                 *)
(***************************************************************************)
AttributeCount(t, i) == t.attrOffsets[i + 1] - t.attrOffsets[i]

Attributes(t, i) ==
  [j \in 1..AttributeCount(t, i) |->
     [key   |-> t.attrKeys[t.attrOffsets[i] + j],
      value |-> t.attrValues[t.attrOffsets[i] + j]]]

Keys(attrs)   == [j \in 1..Len(attrs) |-> attrs[j].key]
Values(attrs) == [j \in 1..Len(attrs) |-> attrs[j].value]

(***************************************************************************)
(* The part of `insert` that handles a span id not seen before: push every *)
(* column and resolve the parent, or wait for it.                          *)
(***************************************************************************)
ResolvedParent(t, span) ==
  IF span.parent = None THEN None ELSE t.spanIndex[span.parent]

MustWait(t, span) == span.parent # None /\ ResolvedParent(t, span) = None

Waiting(t, span) ==
  IF MustWait(t, span)
  THEN [t.pendingChildren EXCEPT ![span.parent] = @ \cup {SpanCount(t) + 1}]
  ELSE t.pendingChildren

PushRow(t, span, serviceNameId, attrs) ==
  [t EXCEPT
     !.spanIds         = Append(@, span.id),
     !.body            = Append(@, span.body),
     !.serviceNameId   = Append(@, serviceNameId),
     !.parentIdx       = Append(@, ResolvedParent(t, span)),
     !.orphan          = Append(@, MustWait(t, span)),
     !.pendingChildren = Waiting(t, span),
     !.attrKeys        = @ \o Keys(attrs),
     !.attrValues      = @ \o Values(attrs),
     !.attrOffsets     = Append(@, Len(t.attrKeys) + Len(attrs)),
     !.spanIndex       = [@ EXCEPT ![span.id] = SpanCount(t) + 1]]

\* Mutant of AdoptChildren: the children stop waiting and stay orphans.
AdoptChildrenStillOrphans(t, id) == [t EXCEPT !.pendingChildren[id] = {}]

(***************************************************************************)
(* The end of `insert`: the rows waiting for span id are patched to point  *)
(* at it.  A span that names itself as its parent has just waited for      *)
(* itself and is patched too.                                              *)
(***************************************************************************)
AdoptChildren(t, id) ==
  LET children == t.pendingChildren[id]
  IN  [t EXCEPT
         !.parentIdx = [i \in 1..Len(@) |-> IF i \in children THEN t.spanIndex[id] ELSE @[i]],
         !.orphan    = [i \in 1..Len(@) |-> IF i \in children THEN FALSE ELSE @[i]],
         !.pendingChildren = [@ EXCEPT ![id] = {}]]

AppendSpan(t, span, serviceNameId, attrs) ==
  AdoptChildren(PushRow(t, span, serviceNameId, attrs), span.id)

(***************************************************************************)
(* Mutant of Splice: the old slice stays behind the new one.               *)
(***************************************************************************)
SpliceKeepsOld(seq, from, to, new) ==
  SubSeq(seq, 1, from) \o new \o SubSeq(seq, from + 1, Len(seq))

Splice(seq, from, to, new) ==
  SubSeq(seq, 1, from) \o new \o SubSeq(seq, to + 1, Len(seq))

\* Mutant of ShiftOffsets: it starts one row too late.
ShiftOffsetsLate(offsets, idx, delta) ==
  [i \in 1..Len(offsets) |-> IF i > idx + 1 THEN offsets[i] + delta ELSE offsets[i]]

ShiftOffsets(offsets, idx, delta) ==
  [i \in 1..Len(offsets) |-> IF i > idx THEN offsets[i] + delta ELSE offsets[i]]

(***************************************************************************)
(* The attributes of row idx are spliced out of the dense arrays and every *)
(* later offset moves by the difference in length.                         *)
(***************************************************************************)
OverwriteAttrs(t, idx, attrs) ==
  LET from  == t.attrOffsets[idx]
      to    == t.attrOffsets[idx + 1]
      delta == Len(attrs) - (to - from)
  IN  [t EXCEPT
         !.attrKeys    = Splice(@, from, to, Keys(attrs)),
         !.attrValues  = Splice(@, from, to, Values(attrs)),
         !.attrOffsets = ShiftOffsets(@, idx, delta)]

\* Mutant of OverwriteAt: the parent is looked up again, so a resolved link can be lost.
OverwriteAtRelinks(t, idx, span, serviceNameId, attrs) ==
  [OverwriteAttrs(t, idx, attrs) EXCEPT
     !.body          = [@ EXCEPT ![idx] = span.body],
     !.serviceNameId = [@ EXCEPT ![idx] = serviceNameId],
     !.parentIdx     = [@ EXCEPT ![idx] = ResolvedParent(t, span)]]

(***************************************************************************)
(* `overwrite_at`: every column of row idx is replaced, except the parent  *)
(* link and the orphan flag, which keep what the first arrival set.        *)
(***************************************************************************)
OverwriteAt(t, idx, span, serviceNameId, attrs) ==
  [OverwriteAttrs(t, idx, attrs) EXCEPT
     !.body          = [@ EXCEPT ![idx] = span.body],
     !.serviceNameId = [@ EXCEPT ![idx] = serviceNameId]]

(***************************************************************************)
(* `insert`, once the attribute keys are interned: `attrs` is the list of  *)
(* pairs whose key the interner accepted.                                  *)
(***************************************************************************)
IsDuplicate(t, span) == t.spanIndex[span.id] # None

Insert(t, span, serviceNameId, attrs, now) ==
  LET touched == [t EXCEPT !.lastActivity = now]
  IN  IF IsDuplicate(t, span)
      THEN OverwriteAt(touched, t.spanIndex[span.id], span, serviceNameId, attrs)
      ELSE AppendSpan(touched, span, serviceNameId, attrs)

-----------------------------------------------------------------------------

InternedAttr == [key : Nat, value : AttrValues]

TraceType ==
  [generation : Nat, lastActivity : Nat,
   spanIds : Seq(SpanIds), body : Seq(Bodies), serviceNameId : Seq(Optional(Nat)),
   parentIdx : Seq(Optional(Nat)), orphan : Seq(BOOLEAN),
   attrKeys : Seq(Nat), attrValues : Seq(AttrValues), attrOffsets : Seq(Nat),
   spanIndex : [SpanIds -> Optional(Nat)], pendingChildren : [SpanIds -> SUBSET Nat]]

(***************************************************************************)
(* All columns have one row per span.                                      *)
(***************************************************************************)
RowsAligned(t) ==
  /\ Len(t.body) = SpanCount(t)
  /\ Len(t.serviceNameId) = SpanCount(t)
  /\ Len(t.parentIdx) = SpanCount(t)
  /\ Len(t.orphan) = SpanCount(t)

(***************************************************************************)
(* `span_index` is the inverse of the span id column, so no span has two   *)
(* rows.                                                                   *)
(***************************************************************************)
IndexInverse(t) ==
  /\ \A i \in 1..SpanCount(t) : t.spanIndex[t.spanIds[i]] = i
  /\ \A s \in SpanIds : t.spanIndex[s] # None =>
       /\ t.spanIndex[s] \in 1..SpanCount(t)
       /\ t.spanIds[t.spanIndex[s]] = s

(***************************************************************************)
(* The offsets cut the dense arrays into consecutive slices, one per span, *)
(* with nothing left over.                                                 *)
(***************************************************************************)
SlicesTile(t) ==
  /\ Len(t.attrOffsets) = SpanCount(t) + 1
  /\ t.attrOffsets[1] = 0
  /\ \A i, j \in 1..(SpanCount(t) + 1) : i <= j => t.attrOffsets[i] <= t.attrOffsets[j]
  /\ t.attrOffsets[SpanCount(t) + 1] = Len(t.attrKeys)
  /\ Len(t.attrValues) = Len(t.attrKeys)

(***************************************************************************)
(* A row is an orphan exactly while it waits for its parent, it waits for  *)
(* one parent only, nothing waits for a span that is resident, and a       *)
(* resolved link points at a row.                                          *)
(***************************************************************************)
LinksExact(t) ==
  /\ \A i \in 1..SpanCount(t) :
       /\ t.orphan[i] <=> (\E p \in SpanIds : i \in t.pendingChildren[p])
       /\ t.parentIdx[i] # None => t.parentIdx[i] \in 1..SpanCount(t) /\ ~t.orphan[i]
  /\ \A p \in SpanIds :
       /\ t.pendingChildren[p] \subseteq 1..SpanCount(t)
       /\ t.spanIndex[p] # None => t.pendingChildren[p] = {}
  /\ \A p, q \in SpanIds : p # q => t.pendingChildren[p] \cap t.pendingChildren[q] = {}

TraceInv(t) ==
  t \in TraceType /\ RowsAligned(t) /\ IndexInverse(t) /\ SlicesTile(t) /\ LinksExact(t)

SpanOK(span) ==
  span.id \in SpanIds /\ span.parent \in Optional(SpanIds) /\ span.body \in Bodies

(***************************************************************************)
(* The parent a row's first arrival declared, read back from the link or   *)
(* from the list the row waits in.                                         *)
(***************************************************************************)
DeclaredParent(t, i) ==
  IF t.parentIdx[i] # None THEN t.spanIds[t.parentIdx[i]]
  ELSE IF t.orphan[i] THEN CHOOSE p \in SpanIds : i \in t.pendingChildren[p]
  ELSE None

RowType ==
  [parent : Optional(SpanIds), body : Bodies, service : Optional(Nat),
   attrs : Seq(InternedAttr)]

(***************************************************************************)
(* The trace as a table from span ids to spans.                            *)
(***************************************************************************)
TableOf(t) ==
  [s \in SpanIds |->
     LET i == t.spanIndex[s]
     IN  IF i = None THEN None
         ELSE [parent  |-> DeclaredParent(t, i),
               body    |-> t.body[i],
               service |-> t.serviceNameId[i],
               attrs   |-> Attributes(t, i)]]
=============================================================================
