------------------------------ MODULE Convert -------------------------------
(***************************************************************************)
(* ingest/convert.rs: the one conversion both transports share, from a     *)
(* decoded export request to the batch the writer applies.                 *)
(*                                                                         *)
(* A request is a sequence of groups, one per ResourceSpans, each with the *)
(* attributes of its resource (none when there is no resource) and its     *)
(* spans in order (the scopes only concatenate).  An attribute has a key,  *)
(* a kind ("string", another "scalar" or "other") and a value.  An id of   *)
(* the wrong length is None, which is how far its bytes matter.            *)
(*                                                                         *)
(* The loops of the code are recursive functions of the number of rounds.  *)
(***************************************************************************)
EXTENDS Naturals, Sequences, SequencesExt, Interner

CONSTANT EmptyPayload    \* RejectReason::EmptyPayload

\* Mutant of IsServiceName: the first service.name decides, whatever its kind.
IsServiceNameAnyKind(kv) == kv.key = "service.name"

IsServiceName(kv) == kv.key = "service.name" /\ kv.kind = "string"

\* `service_name_of`: the first one that is a string.
ServiceNameOf(group) ==
  LET named == {i \in 1..Len(group.resource) : IsServiceName(group.resource[i])}
  IN  IF named # {} /\ group.resource[Min(named)].kind = "string"
      THEN group.resource[Min(named)].value ELSE None

\* One of its ids has the wrong length: the span is counted and skipped.
IsMalformed(pb) == pb.trace = None \/ pb.id = None

\* `attr_of`: an attribute without a scalar value is dropped.
AttrsOf(pb) ==
  LET kept == SelectSeq(pb.attrs, LAMBDA kv : kv.kind # "other")
  IN  [j \in 1..Len(kept) |-> [key |-> kept[j].key, value |-> kept[j].value]]

\* A parent id of the wrong length is no parent.
NewSpan(pb, service) ==
  [trace |-> pb.trace, id |-> pb.id, parent |-> pb.parent, body |-> pb.body,
   service |-> service, attrs |-> AttrsOf(pb)]

NoSpans == [spans |-> <<>>, malformed |-> 0]

\* Mutant of WithSpan: a flag in place of a count.
WithSpanFlag(batch, pb, service) ==
  IF IsMalformed(pb) THEN [batch EXCEPT !.malformed = 1]
  ELSE [batch EXCEPT !.spans = Append(@, NewSpan(pb, service))]

WithSpan(batch, pb, service) ==
  IF IsMalformed(pb) THEN [batch EXCEPT !.malformed = @ + 1]
  ELSE [batch EXCEPT !.spans = Append(@, NewSpan(pb, service))]

\* The batch after each span of a group.
GroupLoop(batch, group) ==
  LET after[i \in 0..Len(group.spans)] ==
        IF i = 0 THEN batch
        ELSE WithSpan(after[i - 1], group.spans[i], ServiceNameOf(group))
  IN  after

WithGroup(batch, group) == GroupLoop(batch, group)[Len(group.spans)]

\* The batch after each group of a request.
RequestLoop(request) ==
  LET after[g \in 0..Len(request)] ==
        IF g = 0 THEN NoSpans ELSE WithGroup(after[g - 1], request[g])
  IN  after

SawAnySpan(request) == \E g \in 1..Len(request) : Len(request[g].spans) > 0

(***************************************************************************)
(* `convert`: an error only when the request carries no span at all; a     *)
(* request whose spans are all malformed gives an empty batch.             *)
(***************************************************************************)
ConvertRequest(request) ==
  IF SawAnySpan(request) THEN RequestLoop(request)[Len(request)] ELSE EmptyPayload
=============================================================================
