------------------------------ MODULE Pipeline ------------------------------
(***************************************************************************)
(* The way of a span through the process: the handlers of Ingest and the   *)
(* writer of Store joined by the one channel `run_server` makes, with      *)
(* api/receiver.rs reading from both sides.                                *)
(*                                                                         *)
(* The writer of Ingest and the writer of Store are the same task: it      *)
(* takes a batch in both, and has applied it when Store's gives up the     *)
(* lock.  A writer that panics leaves the store as it was at that moment;  *)
(* its lock is released by the unwinding and is not poisoned.              *)
(***************************************************************************)
EXTENDS Ingest, Store

(***************************************************************************)
(* The batches that come out of the channel are the conversions of the     *)
(* requests.                                                               *)
(***************************************************************************)
ASSUME PipelineAssumption ==
  Batches = {BatchOf(r) : r \in Decodable} \ {EmptyPayload}

VARIABLES
  panel,       \* the state of a GET /api/receiver
  shown,       \* the latest answer, None before the first
  answeredBy   \* history: the requests answered for good when it began

panelVars    == <<panel, shown, answeredBy>>
pipelineVars == <<ingestVars, vars, panelVars>>

PanelOff == [at |-> "off"]

PipelineInit == IngestInit /\ Init /\ panel = PanelOff /\ shown = None /\ answeredBy = {}

-----------------------------------------------------------------------------

Handlers ==
  /\ \E r \in Requests : Arrive(r) \/ HandlerStep(r) \/ Disconnect(r)
  /\ UNCHANGED <<vars, panelVars>>

TakeBatch == WriterRecv /\ Recv(BatchOf(Head(queue))) /\ UNCHANGED panelVars

WorkOnBatch ==
  /\ WriterAlive
  /\ \/ BeginSpan \/ InternAttr \/ InsertSpan \/ EndAppend
     \/ \E t \in TraceIds : EvictOldest(t)
     \/ Notify
  /\ UNCHANGED <<ingestVars, panelVars>>

FinishBatch == WriterApply /\ Release /\ UNCHANGED panelVars

WriterPanics == WriterDies /\ UNCHANGED <<vars, panelVars>>

-----------------------------------------------------------------------------
(* `get_receiver`: the counters under the store's lock, then the arrivals  *)
(* and the rejects under the receiver's.                                   *)

Readable == ~LockHeld \/ ~WriterAlive

\* The requests with an answer they will not be sent again for.
Answered == {r \in Requests : handler[r] = "answered" /\ response[r] \notin Retryable}

ReadCounters ==
  /\ panel.at = "off" /\ Readable
  /\ panel' = [at |-> "counters", counters |-> counters]
  /\ answeredBy' = Answered
  /\ UNCHANGED <<ingestVars, vars, shown>>

ReadReceiver ==
  /\ panel.at = "counters"
  /\ shown' = [counters |-> panel.counters, arrivals |-> arrivals, recentRejects |-> ring]
  /\ panel' = PanelOff
  /\ UNCHANGED <<ingestVars, vars, answeredBy>>

PipelineNext ==
  \/ Handlers
  \/ TakeBatch \/ WorkOnBatch \/ FinishBatch \/ WriterPanics
  \/ ReadCounters \/ ReadReceiver

PipelineSpec == PipelineInit /\ [][PipelineNext]_pipelineVars

-----------------------------------------------------------------------------

AtRest == WriterAlive /\ pc \in {"recv", "notify"}

Applied == Range(applied)

\* The table of spans a reader finds under a trace id, None when it is not resident.
TableAt(t) == TablesOf[t]

NeverEvicted(t) == evictedGenerations[t] = None /\ LivesOf[t] <= 1

\* The string service names of a resource.
NamesSent(group) ==
  {group.resource[j].value :
     j \in {x \in 1..Len(group.resource) : IsServiceName(group.resource[x])}}

ReadsAs(entry, pb, group) ==
  /\ entry.body = pb.body
  /\ IF entry.service = None
     THEN NamesSent(group) = {} \/ Len(serviceInterner.values) = InternerCap
     ELSE entry.service \in NamesSent(group)

\* The requests applied from the i-th on.
AppliedFrom(i) == {applied[j] : j \in i..Len(applied)}

\* A reader finds a span of these ids that the i-th request applied or a later one carried.
FoundSince(i, pb) ==
  LET entry == TableAt(pb.trace)[pb.id]
  IN  /\ TableAt(pb.trace) # None /\ entry # None
      /\ \E r \in AppliedFrom(i) : \E h \in 1..Len(Decoded[r]) :
           \E l \in 1..Len(Decoded[r][h].spans) :
             LET sent == Decoded[r][h].spans[l]
             IN  /\ sent.trace = pb.trace /\ sent.id = pb.id
                 /\ ReadsAs(entry, sent, Decoded[r][h])

(***************************************************************************)
(* What an exporter was told has arrived can be read: once the writer has  *)
(* applied a request, each of its well-formed spans is in the store under  *)
(* the ids it was sent with, unless its trace has been evicted since.  It  *)
(* reads as the span that was sent, or as one of the same ids in the same  *)
(* or a later request, with the service name of its resource, which is     *)
(* missing only if the resource has none that is a string or the table of  *)
(* service names is full.                                                  *)
(***************************************************************************)
AppliedIsReadable ==
  AtRest =>
    \A i \in 1..Len(applied) : \A g \in 1..Len(Decoded[applied[i]]) :
      \A k \in 1..Len(Decoded[applied[i]][g].spans) :
        LET pb == Decoded[applied[i]][g].spans[k]
        IN  ~IsMalformed(pb) /\ NeverEvicted(pb.trace) => FoundSince(i, pb)

\* The spans of a request, well-formed or not.
SpansSent(r) ==
  LET groups == 1..Len(Decoded[r])
  IN  SumFunctionOnSet([g \in groups |-> Len(Decoded[r][g].spans)], groups)

(***************************************************************************)
(* No span goes missing in the numbers: those of the requests applied and  *)
(* counted are the arrivals plus the malformed ones, when no request is    *)
(* between its send, its arrival count and its application.  A request     *)
(* that is passed over as empty, and so is in no number, had no span, not  *)
(* even a malformed one.                                                   *)
(***************************************************************************)
NumbersAddUp ==
  /\ AtRest /\ Applied = Acknowledged /\ Applied = Delivered
       => SumFunctionOnSet([r \in Applied |-> SpansSent(r)], Applied)
            = SumFunctionOnSet(arrivals, Transports) + counters.malformedSpan
  /\ \A r \in Answered : response[r] = "empty" => SpansSent(r) = 0

\* `accept` refused it.  A dead writer refuses with the same answer, and leaves no record.
Refused(r) == response[r] = "empty" \/ (response[r] = "internal" /\ WriterAlive)

RecordOf(r) ==
  [reason |-> IF response[r] = "empty" THEN "empty_payload" ELSE "panic", request |-> r]

(***************************************************************************)
(* An answer of /api/receiver shows what `accept` answered before it       *)
(* began: the spans acknowledged are in its arrivals, and each request     *)
(* refused has its record in the list, unless as many newer ones as the    *)
(* list holds have pushed it out.  A body that does not decode is refused  *)
(* before `accept`, and is in neither.                                     *)
(***************************************************************************)
PanelShowsAnswered ==
  panel.at = "off" /\ shown # None =>
    /\ \A t \in Transports :
         shown.arrivals[t] >=
           SpansIn({r \in answeredBy : response[r] = "ok" /\ Transport[r] = t})
    /\ \A r \in answeredBy : Refused(r) =>
         \E i \in 1..Len(rejected) :
           /\ rejected[i] = RecordOf(r)
           /\ \/ Len(rejected) - i >= RingCapacity
              \/ \E j \in 1..Len(shown.recentRejects) : shown.recentRejects[j] = RecordOf(r)

(***************************************************************************)
(* Although one answer mixes two moments, successive answers never go      *)
(* back, neither in a counter nor in the arrivals.                         *)
(***************************************************************************)
PanelsNeverGoBack ==
  [][shown # None =>
       /\ \A c \in DOMAIN counters : shown.counters[c] <= shown'.counters[c]
       /\ \A t \in Transports : shown.arrivals[t] <= shown'.arrivals[t]]_pipelineVars

(***************************************************************************)
(* What the comment on RejectRecord and the table of spec 01 have the      *)
(* panel report.  Every request has had its answer, what was accepted is   *)
(* in the store, and the panel was fetched after that: it has a record of  *)
(* each body that did not decode, and a warning if a service name was      *)
(* refused for want of room.                                               *)
(***************************************************************************)
PanelReportsLosses ==
  AtRest /\ panel.at = "off" /\ shown # None /\ answeredBy = Requests
    /\ Applied = Acknowledged /\ shown.counters = counters =>
    /\ \A r \in Requests : response[r] = "bad_request" =>
         \E j \in 1..Len(shown.recentRejects) : shown.recentRejects[j].request = r
    /\ serviceInterner.capHits > 0 => shown.counters.attributeKeyCapHit > 0
=============================================================================
