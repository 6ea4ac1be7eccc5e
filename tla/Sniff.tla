------------------------------- MODULE Sniff --------------------------------
(***************************************************************************)
(* ingest/sniff.rs: the accept loop on :4317.  It peeks at the first bytes *)
(* of each connection, hands a gRPC client's connection to tonic over a    *)
(* bounded channel, and spawns a task that answers 400 to anything else.   *)
(*                                                                         *)
(* One task runs the loop, so a connection is looked at only once the one  *)
(* before it has its verdict.  A peek waits while nothing has arrived and  *)
(* the peer is still there; with some bytes it returns at once with what   *)
(* there is, and the loop sleeps before it looks again.                    *)
(*                                                                         *)
(* A socket is the count of bytes that have arrived and are unread.  The   *)
(* clients, the kernel's backlog and tonic are external.                   *)
(***************************************************************************)
EXTENDS Integers, Sequences, FiniteSets, SequencesExt

CONSTANTS
  Conns,           \* connections clients may open
  Http1,           \* those that open with an HTTP/1.1 request line
  Silent,          \* those that stay open and never send a byte
  None,
  MaxBytes,        \* bytes a client sends: the preface and some more
  Peeks,           \* attempts of looks_like_h2_preface
  Slots,           \* capacity of the channel to tonic
  MaxAcceptErrors, \* bound on the failures of `accept`, for model checking
  TonicMayStop     \* whether tonic's server may end

PrefaceLen == 4

ASSUME SniffAssumption ==
  /\ None \notin Conns
  /\ Http1 \subseteq Conns /\ Silent \subseteq Conns
  /\ MaxBytes \in Nat /\ MaxBytes >= PrefaceLen
  /\ Peeks \in Nat \ {0} /\ Slots \in Nat \ {0}
  /\ MaxAcceptErrors \in Nat
  /\ TonicMayStop \in BOOLEAN

VARIABLES
  backlog,     \* connections the kernel has completed and `accept` has not returned
  sent,        \* bytes each client has sent so far
  unread,      \* those that have arrived and nobody has read
  hungUp,      \* clients that have closed their side
  at,          \* where the accept loop is
  hand,        \* the connection it holds; None for an accept error on its way to tonic
  attempt,     \* the peek it has come to
  channel,     \* what is on its way to tonic
  tonicUp,
  served,      \* connections tonic has taken, in order
  rejecter,    \* how far the task spawned to refuse a connection has come
  reply,       \* what the refused client can read: None, "400" or "cut"
  acceptErrors \* history: failures of `accept`

clientVars == <<sent, hungUp>>
loopVars   == <<at, hand, attempt>>
tonicVars  == <<channel, tonicUp, served>>
rejectVars == <<rejecter, reply>>
vars == <<backlog, clientVars, unread, loopVars, tonicVars, rejectVars, acceptErrors>>

Init ==
  /\ backlog = <<>>
  /\ sent = [c \in Conns |-> 0]
  /\ unread = [c \in Conns |-> 0]
  /\ hungUp = {}
  /\ at = "accept" /\ hand = None /\ attempt = 1
  /\ channel = <<>> /\ tonicUp = TRUE /\ served = <<>>
  /\ rejecter = [c \in Conns |-> "none"]
  /\ reply = [c \in Conns |-> None]
  /\ acceptErrors = 0

InHand == IF at \in {"peek", "sleep", "send", "returned"} THEN {hand} \ {None} ELSE {}

Refused == {c \in Conns : rejecter[c] # "none"}

Accepted == InHand \cup (Range(channel) \ {None}) \cup Range(served) \cup Refused

Connected == Range(backlog) \cup Accepted

-----------------------------------------------------------------------------
(* The clients, until tonic has the connection or the socket is closed.    *)

Watched == Connected \ (Range(served) \cup {c \in Conns : rejecter[c] = "closed"})

Connect(c) ==
  /\ c \notin Connected
  /\ tonicUp
  /\ backlog' = Append(backlog, c)
  /\ UNCHANGED <<clientVars, unread, loopVars, tonicVars, rejectVars, acceptErrors>>

Deliver(c) ==
  /\ c \in Watched \ (Silent \cup hungUp)
  /\ \E n \in 1..(MaxBytes - sent[c]) :
       /\ sent' = [sent EXCEPT ![c] = @ + n]
       /\ unread' = [unread EXCEPT ![c] = @ + n]
  /\ UNCHANGED <<backlog, hungUp, loopVars, tonicVars, rejectVars, acceptErrors>>

HangUp(c) ==
  /\ c \in Watched \ (Silent \cup hungUp)
  /\ hungUp' = hungUp \cup {c}
  /\ UNCHANGED <<backlog, sent, unread, loopVars, tonicVars, rejectVars, acceptErrors>>

-----------------------------------------------------------------------------
(* The accept loop.                                                        *)

Accept ==
  /\ at = "accept" /\ backlog # <<>>
  /\ hand' = Head(backlog)
  /\ backlog' = Tail(backlog)
  /\ attempt' = 1
  /\ at' = "peek"
  /\ UNCHANGED <<clientVars, unread, tonicVars, rejectVars, acceptErrors>>

AcceptFails ==
  /\ at = "accept" /\ acceptErrors < MaxAcceptErrors
  /\ hand' = None
  /\ at' = "send"
  /\ acceptErrors' = acceptErrors + 1
  /\ UNCHANGED <<backlog, clientVars, unread, attempt, tonicVars, rejectVars>>

Forward ==
  /\ at' = "send"
  /\ UNCHANGED <<backlog, clientVars, unread, hand, attempt, tonicVars, rejectVars, acceptErrors>>

\* tokio::spawn(reject_with_400(stream))
Refuse ==
  /\ rejecter' = [rejecter EXCEPT ![hand] = "drain"]
  /\ at' = "accept"
  /\ hand' = None
  /\ UNCHANGED <<backlog, clientVars, unread, attempt, tonicVars, reply, acceptErrors>>

\* Mutant of FullRead: three bytes will do.
FullReadOfThree(c) == unread[c] >= PrefaceLen - 1

FullRead(c) == unread[c] >= PrefaceLen

\* Mutant of ShortRead: four bytes are still too short.
ShortReadUpToFour(c) == unread[c] \in 1..PrefaceLen

ShortRead(c) == unread[c] \in 1..(PrefaceLen - 1)

PeekFull ==
  /\ at = "peek" /\ FullRead(hand)
  /\ IF hand \in Http1 THEN Refuse ELSE Forward

PeekShort ==
  /\ at = "peek" /\ ShortRead(hand)
  /\ attempt < Peeks
  /\ at' = "sleep"
  /\ UNCHANGED <<backlog, clientVars, unread, hand, attempt, tonicVars, rejectVars, acceptErrors>>

\* The loop runs out of attempts and falls through to `false`.
GiveUp ==
  /\ at = "peek" /\ ShortRead(hand)
  /\ attempt = Peeks
  /\ Refuse

\* Ok(0), or an error when the peer has reset the connection.
PeekGone ==
  /\ at = "peek" /\ hand \in hungUp
  /\ Refuse

\* Mutant of NextAttempt: the attempts are not counted.
NextAttemptSame == attempt

NextAttempt == attempt + 1

Wake ==
  /\ at = "sleep"
  /\ attempt' = NextAttempt
  /\ at' = "peek"
  /\ UNCHANGED <<backlog, clientVars, unread, hand, tonicVars, rejectVars, acceptErrors>>

\* Mutant of SendToTonic: `try_send`, which lets go of the connection when the channel is full.
TrySendToTonic ==
  /\ at = "send" /\ tonicUp
  /\ channel' = IF Len(channel) < Slots THEN Append(channel, hand) ELSE channel
  /\ at' = "accept"
  /\ hand' = None
  /\ UNCHANGED <<backlog, clientVars, unread, attempt, tonicUp, served, rejectVars, acceptErrors>>

SendToTonic ==
  /\ at = "send" /\ tonicUp
  /\ Len(channel) < Slots
  /\ channel' = Append(channel, hand)
  /\ at' = "accept"
  /\ hand' = None
  /\ UNCHANGED <<backlog, clientVars, unread, attempt, tonicUp, served, rejectVars, acceptErrors>>

FindTonicGone ==
  /\ at = "send" /\ ~tonicUp
  /\ at' = "returned"
  /\ UNCHANGED <<backlog, clientVars, unread, hand, attempt, tonicVars, rejectVars, acceptErrors>>

-----------------------------------------------------------------------------
(* `reject_with_400`, in a task of its own for each connection.            *)

\* Mutant of LeftByDrain: one read of a buffer that is too small, and no loop.
LeftByDrainOnce(c) == IF unread[c] = MaxBytes THEN 1 ELSE 0

\* Whatever has arrived is read, in as many reads of the buffer as it takes.
LeftByDrain(c) == 0

Drain(c) ==
  /\ rejecter[c] = "drain"
  /\ unread' = [unread EXCEPT ![c] = LeftByDrain(c)]
  /\ rejecter' = [rejecter EXCEPT ![c] = "write"]
  /\ UNCHANGED <<backlog, clientVars, loopVars, tonicVars, reply, acceptErrors>>

\* write_all and shutdown
WriteReply(c) ==
  /\ rejecter[c] = "write"
  /\ reply' = [reply EXCEPT ![c] = "400"]
  /\ rejecter' = [rejecter EXCEPT ![c] = "close"]
  /\ UNCHANGED <<backlog, clientVars, unread, loopVars, tonicVars, acceptErrors>>

\* The stream is dropped.  With bytes still unread the kernel resets the connection, and the
\* reset may overtake the reply.
CloseSocket(c) ==
  /\ rejecter[c] = "close"
  /\ \/ UNCHANGED reply
     \/ unread[c] > 0 /\ reply' = [reply EXCEPT ![c] = "cut"]
  /\ rejecter' = [rejecter EXCEPT ![c] = "closed"]
  /\ UNCHANGED <<backlog, clientVars, unread, loopVars, tonicVars, acceptErrors>>

-----------------------------------------------------------------------------
(* tonic.                                                                  *)

TonicTakes ==
  /\ tonicUp /\ channel # <<>>
  /\ channel' = Tail(channel)
  /\ served' = IF Head(channel) = None THEN served ELSE Append(served, Head(channel))
  /\ UNCHANGED <<backlog, clientVars, unread, loopVars, tonicUp, rejectVars, acceptErrors>>

\* Its receiver is dropped with what the channel still held; the process ends with it.
TonicStops ==
  /\ TonicMayStop /\ tonicUp
  /\ tonicUp' = FALSE
  /\ channel' = <<>>
  /\ UNCHANGED <<backlog, clientVars, unread, loopVars, served, rejectVars, acceptErrors>>

LoopStep ==
  \/ Accept \/ AcceptFails
  \/ PeekFull \/ PeekShort \/ GiveUp \/ PeekGone \/ Wake
  \/ SendToTonic \/ FindTonicGone

RejectStep(c) == Drain(c) \/ WriteReply(c) \/ CloseSocket(c)

Next ==
  \/ \E c \in Conns : Connect(c) \/ Deliver(c) \/ HangUp(c) \/ RejectStep(c)
  \/ LoopStep
  \/ TonicTakes \/ TonicStops

Spec == Init /\ [][Next]_vars

(***************************************************************************)
(* The tasks of the runtime go on when they can, timers fire, tonic takes  *)
(* connections, and a client that is not silent sends a first byte.  No    *)
(* client is obliged to connect or to send a whole preface.                *)
(***************************************************************************)
Fairness ==
  /\ WF_vars(LoopStep)
  /\ \A c \in Conns : WF_vars(RejectStep(c))
  /\ \A c \in Conns : WF_vars(sent[c] = 0 /\ Deliver(c))
  /\ WF_vars(TonicTakes)

FairSpec == Spec /\ Fairness

-----------------------------------------------------------------------------

(***************************************************************************)
(* tonic only ever gets connections that opened with the h2 preface, all   *)
(* four bytes of it still there for tonic to read: an unclear connection   *)
(* falls to the 400, and a peek consumes nothing.                          *)
(***************************************************************************)
Forwarded ==
  ((IF at = "send" THEN {hand} ELSE {}) \cup Range(channel) \cup Range(served)) \ {None}

OnlyPrefacesForwarded ==
  \A c \in Forwarded : c \notin Http1 /\ unread[c] >= PrefaceLen

(***************************************************************************)
(* While tonic runs, a connection that has been accepted is held in one    *)
(* place: a full channel makes the loop wait, it never lets one go.        *)
(***************************************************************************)
NoConnectionDropped ==
  [][tonicUp /\ tonicUp' => Accepted \subseteq Accepted']_vars

(***************************************************************************)
(* A gRPC client whose preface has arrived is not refused, however many    *)
(* peeks it took; it may be when it has gone.                              *)
(***************************************************************************)
PrefaceNeverRefused ==
  [][\A c \in Conns \ (Http1 \cup hungUp) :
       unread[c] >= PrefaceLen /\ c \notin Refused => c \notin Refused']_vars

(***************************************************************************)
(* Every connection gets to tonic or gets its answer, whatever the clients *)
(* before it do: one that never delivers four bytes falls to the 400.  The *)
(* process ends when tonic does.                                           *)
(***************************************************************************)
EveryConnectionDecided ==
  \A c \in Conns :
    (c \in Range(backlog)) ~> (c \in Range(served) \/ rejecter[c] = "closed" \/ ~tonicUp)

(***************************************************************************)
(* What the drain is for: a refused client that has nothing more to send   *)
(* when its task starts gets to read the 400, and no reset overtakes it.   *)
(* One that goes on sending may lose it.                                   *)
(***************************************************************************)
CompleteRequestAnswered ==
  \A c \in Conns :
    (rejecter[c] = "drain" /\ (sent[c] = MaxBytes \/ c \in hungUp))
      ~> (rejecter[c] = "closed" /\ reply[c] = "400")
=============================================================================
