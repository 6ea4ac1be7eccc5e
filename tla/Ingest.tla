------------------------------- MODULE Ingest -------------------------------
(***************************************************************************)
(* ingest/handler.rs, http.rs, grpc.rs and receiver_state.rs: concurrent   *)
(* request handlers that decode, convert and hand a batch to the writer    *)
(* over a bounded channel, with the counts and the reject log they keep.   *)
(*                                                                         *)
(* Each request runs in a task of its own.  Its only await is the send on  *)
(* the channel under the ingest timeout, so a client that disconnects can  *)
(* cancel it there and nowhere else.  The channel is tokio's: permits are  *)
(* handed to the waiting senders in the order they came, a sender with a   *)
(* permit cannot time out, and a receive gives one permit back.            *)
(*                                                                         *)
(* The writer is abstract here: it takes a batch, applies it, and may die. *)
(***************************************************************************)
EXTENDS Convert, FiniteSets

CONSTANTS
  Requests,        \* request bodies, each sent until it is accepted
  Transport,       \* Requests -> the listener a request comes in on
  Decoded,         \* Requests -> its decoded content, None when the body does not decode
  Panics,          \* requests on which `convert` may panic
  Capacity,        \* the channel's capacity
  RingCapacity,    \* REJECT_RING_CAPACITY
  MaxAttempts      \* Requests -> bound on how often a client sends it, for model checking

Transports == {"grpc_v4317", "http_protobuf_v4318", "http_json_v4318"}

ASSUME IngestAssumption ==
  /\ None \notin Requests /\ "dead" \notin Requests /\ None # "dead"
  /\ Transport \in [Requests -> Transports]
  /\ Panics \subseteq Requests
  /\ Capacity \in Nat \ {0}
  /\ RingCapacity \in Nat \ {0}
  /\ MaxAttempts \in [Requests -> Nat]

(***************************************************************************)
(* What decodes is a sequence of groups, each with a sequence of spans and *)
(* one of resource attributes; the value of a string is a string.          *)
(***************************************************************************)
ASSUME DecodedAssumption ==
  \A r \in Requests :
    Decoded[r] # None =>
      /\ Len(Decoded[r]) \in Nat
      /\ \A g \in 1..Len(Decoded[r]) :
           LET group == Decoded[r][g]
           IN  /\ Len(group.spans) \in Nat /\ Len(group.resource) \in Nat
               /\ \A j \in 1..Len(group.resource) :
                    IsServiceName(group.resource[j]) => group.resource[j].value # None

VARIABLES
  handler,     \* where the handler of each request is
  response,    \* the answer to the latest attempt, None before it
  attempts,    \* how often each request was sent
  waiters,     \* requests in `send().await`, in the order they asked for a permit
  queue,       \* the channel
  arrivals,    \* ArrivalCounts
  ring,        \* RejectLog
  writer,      \* the request whose batch the writer holds, None, or "dead"
  applied,     \* the batches the writer has applied, in order
  rejected,    \* history: every reject pushed into the ring
  lost,        \* history: requests whose batch died with the writer
  ackedBefore  \* history: the requests acknowledged when each one came to its send

handlingVars == <<handler, response, attempts, waiters, ackedBefore>>
receiverVars == <<arrivals, ring, rejected>>
deliveryVars == <<writer, applied, lost>>
ingestVars == <<handlingVars, receiverVars, deliveryVars, queue>>

IngestInit ==
  /\ handler = [r \in Requests |-> "idle"]
  /\ response = [r \in Requests |-> None]
  /\ attempts = [r \in Requests |-> 0]
  /\ ackedBefore = [r \in Requests |-> {}]
  /\ waiters = <<>> /\ queue = <<>>
  /\ arrivals = [t \in Transports |-> 0]
  /\ ring = <<>> /\ rejected = <<>>
  /\ writer = None /\ applied = <<>> /\ lost = {}

WriterAlive == writer # "dead"

Decodable == {r \in Requests : Decoded[r] # None}

Converted == [r \in Decodable |-> ConvertRequest(Decoded[r])]

BatchOf(r) == Converted[r]

\* The error of `convert` is no batch.
ASSUME ErrorAssumption ==
  \A r \in Requests :
    Decoded[r] # None /\ SawAnySpan(Decoded[r]) => BatchOf(r) # EmptyPayload

Acknowledged == {r \in Requests : handler[r] = "answered" /\ response[r] = "ok"}

\* The requests a client may send again: it was told to retry, or it never got an answer.
Retryable == {"backpressure", "disconnected"}

-----------------------------------------------------------------------------

\* A client sends a request, or sends it again.
Arrive(r) ==
  /\ \/ handler[r] = "idle"
     \/ handler[r] = "answered" /\ response[r] \in Retryable
  /\ attempts[r] < MaxAttempts[r]
  /\ handler' = [handler EXCEPT ![r] = "received"]
  /\ response' = [response EXCEPT ![r] = None]
  /\ attempts' = [attempts EXCEPT ![r] = @ + 1]
  /\ UNCHANGED <<waiters, ackedBefore, receiverVars, deliveryVars, queue>>

Answer(r, answer) ==
  /\ handler' = [handler EXCEPT ![r] = "answered"]
  /\ response' = [response EXCEPT ![r] = answer]

(***************************************************************************)
(* `export` of http.rs on a body that does not decode, and tonic's own     *)
(* refusal on the gRPC port: the handler returns before `accept`.          *)
(***************************************************************************)
FailDecode(r) ==
  /\ handler[r] = "received" /\ Decoded[r] = None
  /\ Answer(r, "bad_request")
  /\ UNCHANGED <<attempts, waiters, ackedBefore, receiverVars, deliveryVars, queue>>

\* Mutant of Pushed: a full log takes no more.
PushedUnlessFull(log, record) ==
  IF Len(log) = RingCapacity THEN log ELSE Append(log, record)

Pushed(log, record) ==
  Append(IF Len(log) = RingCapacity THEN Tail(log) ELSE log, record)

\* The reject is recorded and answered.
Reject(r, reason, answer) ==
  /\ ring' = Pushed(ring, [reason |-> reason, request |-> r])
  /\ rejected' = Append(rejected, [reason |-> reason, request |-> r])
  /\ Answer(r, answer)
  /\ UNCHANGED <<attempts, waiters, ackedBefore, arrivals, deliveryVars, queue>>

(***************************************************************************)
(* `accept` up to its await: the two rejects are recorded and answered,    *)
(* an accepted batch asks the channel for a permit.  An empty payload is   *)
(* answered like a success.                                                *)
(***************************************************************************)
CatchPanic(r) ==
  /\ handler[r] = "received" /\ Decoded[r] # None
  /\ r \in Panics
  /\ Reject(r, "panic", "internal")

RejectEmpty(r) ==
  /\ handler[r] = "received" /\ Decoded[r] # None
  /\ BatchOf(r) = EmptyPayload
  /\ Reject(r, "empty_payload", "empty")

BeginSend(r) ==
  /\ handler[r] = "received" /\ Decoded[r] # None
  /\ BatchOf(r) # EmptyPayload
  /\ waiters' = Append(waiters, r)
  /\ handler' = [handler EXCEPT ![r] = "sending"]
  /\ ackedBefore' = [ackedBefore EXCEPT ![r] = Acknowledged]
  /\ UNCHANGED <<response, attempts, receiverVars, deliveryVars, queue>>

-----------------------------------------------------------------------------

\* Mutant of HasPermit: one slot more than the channel has.
HasPermitPastCapacity(r) ==
  \E i \in 1..Len(waiters) : waiters[i] = r /\ i <= Capacity - Len(queue) + 1

(***************************************************************************)
(* tokio's channel: the free slots belong to the first waiters.            *)
(***************************************************************************)
HasPermit(r) ==
  \E i \in 1..Len(waiters) : waiters[i] = r /\ i <= Capacity - Len(queue)

\* A waiter that is done with waiting is taken out of the line, wherever it is.
Without(s, r) == RemoveAt(s, CHOOSE i \in 1..Len(s) : s[i] = r)

\* Mutant of Queued: the newest batch goes to the front.
QueuedInFront(r) == <<r>> \o queue

Queued(r) == Append(queue, r)

Send(r) ==
  /\ handler[r] = "sending" /\ WriterAlive /\ HasPermit(r)
  /\ queue' = Queued(r)
  /\ waiters' = Without(waiters, r)
  /\ handler' = [handler EXCEPT ![r] = "sent"]
  /\ UNCHANGED <<response, attempts, ackedBefore, receiverVars, deliveryVars>>

\* Another thread may run the writer between the send and this.
RecordArrival(r) ==
  /\ handler[r] = "sent"
  /\ arrivals' = [arrivals EXCEPT ![Transport[r]] = @ + Len(BatchOf(r).spans)]
  /\ Answer(r, "ok")
  /\ UNCHANGED <<attempts, waiters, ackedBefore, ring, rejected, deliveryVars, queue>>

\* The handler stops waiting for a permit.
LeaveWaiters(r, answer) ==
  /\ waiters' = Without(waiters, r)
  /\ Answer(r, answer)
  /\ UNCHANGED <<attempts, ackedBefore, receiverVars, deliveryVars>>

\* Mutants of TimeOut: the batch stays behind in the channel; there is no timeout.
TimeOutLeavesBatch(r) ==
  /\ handler[r] = "sending" /\ WriterAlive /\ ~HasPermit(r)
  /\ LeaveWaiters(r, "backpressure") /\ queue' = Append(queue, r)

TimeOutNever(r) == FALSE

\* `timeout` polls the send first: it gives up only without a permit.
TimeOut(r) ==
  /\ handler[r] = "sending" /\ WriterAlive /\ ~HasPermit(r)
  /\ LeaveWaiters(r, "backpressure") /\ UNCHANGED queue

FindWriterGone(r) ==
  /\ handler[r] = "sending" /\ ~WriterAlive
  /\ LeaveWaiters(r, "internal") /\ UNCHANGED queue

\* The client goes away and the server drops the handler at its await.
Disconnect(r) ==
  /\ handler[r] = "sending"
  /\ LeaveWaiters(r, "disconnected") /\ UNCHANGED queue

-----------------------------------------------------------------------------

\* Mutant of Ready: the writer waits for a full channel to take several batches at once.
ReadyWhenFull == Len(queue) = Capacity

Ready == queue # <<>>

WriterRecv ==
  /\ writer = None /\ Ready
  /\ writer' = Head(queue)
  /\ queue' = Tail(queue)
  /\ UNCHANGED <<handlingVars, receiverVars, applied, lost>>

WriterApply ==
  /\ writer \in Requests
  /\ applied' = Append(applied, writer)
  /\ writer' = None
  /\ UNCHANGED <<handlingVars, receiverVars, lost, queue>>

\* The task panics over a batch: its receiver is dropped, and the queued batches with it.
WriterDies ==
  /\ writer \in Requests
  /\ lost' = lost \cup Range(queue) \cup {writer}
  /\ writer' = "dead"
  /\ queue' = <<>>
  /\ UNCHANGED <<handlingVars, receiverVars, applied>>

HandlerStep(r) ==
  \/ FailDecode(r) \/ CatchPanic(r) \/ RejectEmpty(r) \/ BeginSend(r)
  \/ Send(r) \/ RecordArrival(r) \/ TimeOut(r) \/ FindWriterGone(r)

DeliveryStep == WriterRecv \/ WriterApply

IngestNext ==
  \/ \E r \in Requests : Arrive(r) \/ HandlerStep(r) \/ Disconnect(r)
  \/ DeliveryStep
  \/ WriterDies

IngestSpec == IngestInit /\ [][IngestNext]_ingestVars

(***************************************************************************)
(* Handlers run on a multi-threaded runtime whose timers fire: a handler   *)
(* that can go on does.  Nothing is assumed of the writer, and nothing     *)
(* obliges a client to send.                                               *)
(***************************************************************************)
HandlerFairness == \A r \in Requests : WF_ingestVars(HandlerStep(r))

IngestFairSpec == IngestSpec /\ HandlerFairness

-----------------------------------------------------------------------------

Answers == {"ok", "empty", "bad_request", "internal", "backpressure", "disconnected"}

RejectRecord == [reason : {"panic", "empty_payload"}, request : Requests]

\* A handler in `send` waits once, any other does not.
WaitersOnce ==
  \A r \in Requests :
    Cardinality({i \in 1..Len(waiters) : waiters[i] = r}) = (IF handler[r] = "sending" THEN 1 ELSE 0)

(***************************************************************************)
(* The types, the bound of the channel, which handlers racing for permits  *)
(* never overfill, and who waits: a handler in `send`, once.               *)
(***************************************************************************)
IngestTypeOK ==
  /\ handler \in [Requests -> {"idle", "received", "sending", "sent", "answered"}]
  /\ response \in [Requests -> Optional(Answers)]
  /\ attempts \in [Requests -> Nat]
  /\ waiters \in Seq(Requests) /\ WaitersOnce
  /\ queue \in Seq(Requests) /\ Len(queue) <= Capacity
  /\ arrivals \in [Transports -> Nat]
  /\ ring \in Seq(RejectRecord)
  /\ writer \in Requests \cup {None, "dead"}
  /\ applied \in Seq(Requests)
  /\ rejected \in Seq(RejectRecord)
  /\ lost \in SUBSET Requests
  /\ ackedBefore \in [Requests -> SUBSET Requests]

Held == {writer} \cap Requests

Delivered == {r \in Requests : handler[r] = "sent" \/ (handler[r] = "answered" /\ response[r] = "ok")}

(***************************************************************************)
(* A batch is in exactly one place once its send went through, and nowhere *)
(* before: a client told to retry, or cut off while it waited, has nothing *)
(* in the channel, so its retry is not a second copy.                      *)
(***************************************************************************)
ExactlyOnce ==
  /\ Delivered = Range(queue) \cup Held \cup Range(applied) \cup lost
  /\ Cardinality(Delivered) =
       Len(queue) + Cardinality(Held) + Len(applied) + Cardinality(lost)

\* The well-formed spans of requests.
SpansIn(requests) ==
  SumFunctionOnSet([r \in requests |-> Len(BatchOf(r).spans)], requests)

(***************************************************************************)
(* A request that comes to its send after another one was acknowledged,    *)
(* as all do that are sent after that, is applied after it, so it has the  *)
(* last word.                                                              *)
(***************************************************************************)
AckOrderKept ==
  \A i, j \in 1..Len(applied) : applied[i] \in ackedBefore[applied[j]] => i < j

(***************************************************************************)
(* Whatever the writer does, every request is answered: a full channel or  *)
(* a dead writer never leaves a handler hanging.                           *)
(***************************************************************************)
EveryRequestAnswered ==
  \A r \in Requests : (handler[r] = "received") ~> (handler[r] = "answered")

(***************************************************************************)
(* An acknowledged batch reaches the store if the writer keeps running:    *)
(* what is lost of them is lost with the writer and in no other way.       *)
(***************************************************************************)
AcknowledgedApplied ==
  WF_ingestVars(DeliveryStep) =>
    \A r \in Requests : (handler[r] = "sent") ~> (r \in Range(applied) \/ ~WriterAlive)
=============================================================================
