---------------------------- MODULE SniffProofs -----------------------------
(***************************************************************************)
(* The accept loop of :4317, for every number of connections, every way    *)
(* their bytes may come in, every number of peeks and slots.               *)
(*                                                                         *)
(* That only prefaces reach tonic is not inductive as it stands: a peek    *)
(* consumes nothing, but the task that refuses a connection drains it.     *)
(* IInv adds that a connection is in one place only, so what is drained is *)
(* never something that was forwarded.                                     *)
(***************************************************************************)
EXTENDS Sniff, SequenceTheorems, TLAPS

TypeOK ==
  /\ backlog \in Seq(Conns)
  /\ sent \in [Conns -> Nat] /\ unread \in [Conns -> Nat]
  /\ hungUp \subseteq Conns
  /\ at \in {"accept", "peek", "sleep", "send", "returned"}
  /\ hand \in Conns \cup {None}
  /\ at \in {"peek", "sleep"} => hand \in Conns
  /\ at = "accept" => hand = None
  /\ attempt \in Nat
  /\ channel \in Seq(Conns \cup {None})
  /\ tonicUp \in BOOLEAN
  /\ served \in Seq(Conns)
  /\ rejecter \in [Conns -> {"none", "drain", "write", "close", "closed"}]
  /\ reply \in [Conns -> {None, "400", "cut"}]
  /\ acceptErrors \in Nat

\* What has been handed over, and can no longer be refused.
HandedOver == (Range(channel) \ {None}) \cup Range(served)

(***************************************************************************)
(* The backlog holds a connection once and only before it is accepted; the *)
(* one in hand is nowhere else; none is both handed over and refused.      *)
(***************************************************************************)
OnePlace ==
  /\ \A i, j \in 1..Len(backlog) : backlog[i] = backlog[j] => i = j
  /\ Range(backlog) \cap Accepted = {}
  /\ hand \notin HandedOver \cup Refused
  /\ HandedOver \cap Refused = {}

IInv == TypeOK /\ OnePlace /\ OnlyPrefacesForwarded

-----------------------------------------------------------------------------

(***************************************************************************)
(* The range of a sequence with one more element.                          *)
(***************************************************************************)
LEMMA RangeAppend ==
  ASSUME NEW S, NEW s \in Seq(S), NEW e \in S
  PROVE  Range(Append(s, e)) = Range(s) \cup {e}
<1>1. Append(s, e) \in Seq(S)
  OBVIOUS
<1>2. Range(Append(s, e)) = {Append(s, e)[i] : i \in 1..Len(Append(s, e))}
  BY <1>1, RangeEquality
<1>3. Range(s) = {s[i] : i \in 1..Len(s)}
  BY RangeEquality
<1> QED BY <1>2, <1>3

(***************************************************************************)
(* The range of a sequence is its head and the range of its tail.          *)
(***************************************************************************)
LEMMA RangeTail ==
  ASSUME NEW S, NEW s \in Seq(S), s # <<>>
  PROVE  Range(s) = {Head(s)} \cup Range(Tail(s))
<1>1. /\ Tail(s) \in Seq(S) /\ Len(Tail(s)) = Len(s) - 1 /\ Len(s) \in Nat \ {0}
      /\ \A i \in 1..Len(Tail(s)) : Tail(s)[i] = s[i + 1]
      /\ Head(s) = s[1]
  BY HeadTailProperties
<1>2. Range(Tail(s)) = {Tail(s)[i] : i \in 1..Len(Tail(s))}
  BY <1>1, RangeEquality
<1>3. Range(s) = {s[i] : i \in 1..Len(s)}
  BY RangeEquality
<1>4. \A i \in 1..Len(s) : s[i] \in {Head(s)} \cup Range(Tail(s))
  <2> SUFFICES ASSUME NEW i \in 1..Len(s), i # 1 PROVE s[i] \in Range(Tail(s))
    BY <1>1
  <2>1. i - 1 \in 1..Len(Tail(s)) /\ s[i] = Tail(s)[i - 1]
    BY <1>1
  <2> QED BY <2>1, <1>2
<1>5. \A i \in 1..Len(Tail(s)) : Tail(s)[i] \in Range(s)
  <2> TAKE i \in 1..Len(Tail(s))
  <2>1. i + 1 \in 1..Len(s) /\ Tail(s)[i] = s[i + 1]
    BY <1>1
  <2> QED BY <2>1, <1>3
<1>6. Head(s) \in Range(s)
  BY <1>1, <1>3
<1> QED BY <1>2, <1>3, <1>4, <1>5, <1>6

(***************************************************************************)
(* A sequence without repetitions does not have its head in its tail.      *)
(***************************************************************************)
LEMMA TailOnce ==
  ASSUME NEW S, NEW s \in Seq(S), s # <<>>,
         \A i, j \in 1..Len(s) : s[i] = s[j] => i = j
  PROVE  /\ Head(s) \notin Range(Tail(s))
         /\ \A i, j \in 1..Len(Tail(s)) : Tail(s)[i] = Tail(s)[j] => i = j
<1>1. /\ Tail(s) \in Seq(S) /\ Len(Tail(s)) = Len(s) - 1 /\ Len(s) \in Nat \ {0}
      /\ \A i \in 1..Len(Tail(s)) : Tail(s)[i] = s[i + 1]
      /\ Head(s) = s[1]
  BY HeadTailProperties
<1>2. Range(Tail(s)) = {Tail(s)[i] : i \in 1..Len(Tail(s))}
  <2>1. Tail(s) \in Seq(S)
    BY <1>1
  <2> QED BY ONLY <2>1, RangeEquality
<1>3. \A i \in 1..Len(Tail(s)) : i + 1 \in 1..Len(s) /\ i + 1 # 1
  BY <1>1
<1>4. Head(s) \notin Range(Tail(s))
  <2> SUFFICES ASSUME NEW i \in 1..Len(Tail(s)), Tail(s)[i] = Head(s) PROVE FALSE
    BY <1>2
  <2>1. s[i + 1] = s[1] /\ i + 1 \in 1..Len(s) /\ 1 \in 1..Len(s) /\ i + 1 # 1
    BY <1>1, <1>3
  <2> QED BY <2>1
<1>5. \A i, j \in 1..Len(Tail(s)) : Tail(s)[i] = Tail(s)[j] => i = j
  <2> SUFFICES ASSUME NEW i \in 1..Len(Tail(s)), NEW j \in 1..Len(Tail(s)),
                      Tail(s)[i] = Tail(s)[j]
               PROVE  i = j
    OBVIOUS
  <2>1. s[i + 1] = s[j + 1] /\ i + 1 \in 1..Len(s) /\ j + 1 \in 1..Len(s)
    BY <1>1, <1>3
  <2>2. i + 1 = j + 1
    BY <2>1
  <2> QED BY <2>2
<1> QED BY <1>4, <1>5

-----------------------------------------------------------------------------

(***************************************************************************)
(* Before the first connection everything is empty.                        *)
(***************************************************************************)
LEMMA InitInv == Init => IInv
<1> SUFFICES ASSUME Init PROVE IInv
  OBVIOUS
<1>1. Range(backlog) = {} /\ Range(channel) = {} /\ Range(served) = {} /\ Len(backlog) = 0
  BY DEF Init, Range
<1>2. TypeOK
  BY SniffAssumption DEF Init, TypeOK
<1>3. Refused = {} /\ HandedOver = {}
  BY <1>1 DEF Init, Refused, HandedOver
<1>4. OnePlace
  BY <1>1, <1>3 DEF OnePlace
<1>5. OnlyPrefacesForwarded
  BY <1>1 DEF Init, OnlyPrefacesForwarded, Forwarded
<1> QED BY <1>2, <1>4, <1>5 DEF IInv

(***************************************************************************)
(* A client connects, sends bytes or hangs up.  Bytes only add up.         *)
(***************************************************************************)
LEMMA ClientInv ==
  ASSUME IInv, NEW c \in Conns, Connect(c) \/ Deliver(c) \/ HangUp(c)
  PROVE  IInv'
<1>1. CASE Connect(c)
  <2>1. /\ backlog' = Append(backlog, c) /\ backlog \in Seq(Conns)
        /\ Range(backlog') = Range(backlog) \cup {c}
    BY <1>1, RangeAppend DEF IInv, TypeOK, Connect
  <2>2. UNCHANGED <<HandedOver, Refused, Accepted, Forwarded>>
    BY <1>1 DEF Connect, HandedOver, Refused, Accepted, InHand, Forwarded, loopVars, tonicVars,
                rejectVars
  <2>3. c \notin Range(backlog) /\ c \notin Accepted
    BY <1>1 DEF Connect, Connected
  <2>4. \A i, j \in 1..Len(backlog') : backlog'[i] = backlog'[j] => i = j
    <3>1. \A i \in 1..Len(backlog) : backlog[i] # c
      BY <2>1, <2>3, RangeEquality
    <3> QED BY <2>1, <3>1 DEF IInv, OnePlace
  <2>5. OnePlace'
    BY <1>1, <2>1, <2>2, <2>3, <2>4 DEF IInv, OnePlace, Connect, loopVars
  <2>6. TypeOK'
    BY <1>1, <2>1 DEF IInv, TypeOK, Connect, clientVars, loopVars, tonicVars, rejectVars
  <2>7. OnlyPrefacesForwarded'
    BY <1>1, <2>2 DEF IInv, OnlyPrefacesForwarded, Connect
  <2> QED BY <2>5, <2>6, <2>7 DEF IInv
<1>2. CASE Deliver(c)
  <2>1. PICK n \in 1..(MaxBytes - sent[c]) :
          /\ sent' = [sent EXCEPT ![c] = @ + n]
          /\ unread' = [unread EXCEPT ![c] = @ + n]
    BY <1>2 DEF Deliver
  <2>2. n \in Nat /\ sent \in [Conns -> Nat] /\ unread \in [Conns -> Nat]
    BY SniffAssumption DEF IInv, TypeOK
  <2>3. UNCHANGED <<backlog, hungUp, loopVars, tonicVars, rejectVars, acceptErrors>>
    BY <1>2 DEF Deliver
  <2>4. TypeOK'
    BY <2>1, <2>2, <2>3 DEF IInv, TypeOK, loopVars, tonicVars, rejectVars
  <2>5. OnePlace'
    BY <2>3 DEF IInv, OnePlace, Accepted, InHand, HandedOver, Refused, loopVars, tonicVars, rejectVars
  <2>6. OnlyPrefacesForwarded'
    <3>1. Forwarded' = Forwarded /\ Forwarded \subseteq Conns
      <4>1. Forwarded' = Forwarded
        BY <2>3 DEF Forwarded, loopVars, tonicVars
      <4>2. Range(channel) \subseteq Conns \cup {None} /\ Range(served) \subseteq Conns
        BY RangeOfSeq DEF IInv, TypeOK
      <4> QED BY <4>1, <4>2 DEF Forwarded, IInv, TypeOK
    <3>2. \A d \in Conns : unread'[d] >= unread[d]
      BY <2>1, <2>2
    <3>3. \A d \in Conns : unread[d] >= PrefaceLen => unread'[d] >= PrefaceLen
      BY <3>2, <2>2, <2>4, SMTT(30) DEF PrefaceLen, TypeOK
    <3> QED BY <3>1, <3>3 DEF IInv, OnlyPrefacesForwarded
  <2> QED BY <2>4, <2>5, <2>6 DEF IInv
<1>3. CASE HangUp(c)
  <2>1. UNCHANGED <<backlog, sent, unread, loopVars, tonicVars, rejectVars, acceptErrors>>
    BY <1>3 DEF HangUp
  <2>2. TypeOK'
    BY <1>3, <2>1 DEF IInv, TypeOK, HangUp, loopVars, tonicVars, rejectVars
  <2>3. OnePlace'
    BY <2>1 DEF IInv, OnePlace, Accepted, InHand, HandedOver, Refused, loopVars, tonicVars, rejectVars
  <2>4. OnlyPrefacesForwarded'
    BY <2>1 DEF IInv, OnlyPrefacesForwarded, Forwarded, loopVars, tonicVars
  <2> QED BY <2>2, <2>3, <2>4 DEF IInv
<1> QED BY <1>1, <1>2, <1>3

(***************************************************************************)
(* `accept` returns the oldest connection of the backlog, or an error.     *)
(***************************************************************************)
LEMMA AcceptInv == ASSUME IInv, Accept \/ AcceptFails PROVE IInv'
<1>1. CASE Accept
  <2>1. backlog \in Seq(Conns) /\ backlog # <<>> /\ at = "accept" /\ hand = None
    BY <1>1 DEF IInv, TypeOK, Accept
  <2>2. /\ hand' = Head(backlog) /\ backlog' = Tail(backlog) /\ attempt' = 1 /\ at' = "peek"
        /\ UNCHANGED <<sent, hungUp, unread, channel, tonicUp, served, rejecter, reply,
                       acceptErrors>>
    BY <1>1 DEF Accept, clientVars, tonicVars, rejectVars
  <2>3. /\ Range(backlog) = {hand'} \cup Range(backlog') /\ hand' \notin Range(backlog')
        /\ \A i, j \in 1..Len(backlog') : backlog'[i] = backlog'[j] => i = j
    BY <2>1, <2>2, RangeTail, TailOnce DEF IInv, OnePlace
  <2>4. hand' \in Conns /\ backlog' \in Seq(Conns)
    BY <2>1, <2>2
  <2>5. UNCHANGED <<HandedOver, Refused>> /\ Accepted' = Accepted \cup {hand'}
    BY <2>1, <2>2, <2>4, SniffAssumption DEF HandedOver, Refused, Accepted, InHand
  <2>6. HandedOver \cup Refused \subseteq Accepted
    BY DEF HandedOver, Accepted
  <2>7. OnePlace'
    BY <2>2, <2>3, <2>5, <2>6 DEF IInv, OnePlace
  <2>8. TypeOK'
    BY <2>2, <2>4 DEF IInv, TypeOK
  <2>9. OnlyPrefacesForwarded'
    BY <2>1, <2>2 DEF IInv, OnlyPrefacesForwarded, Forwarded
  <2> QED BY <2>7, <2>8, <2>9 DEF IInv
<1>2. CASE AcceptFails
  <2>1. /\ at = "accept" /\ hand = None /\ hand' = None /\ at' = "send"
        /\ acceptErrors' = acceptErrors + 1
        /\ UNCHANGED <<backlog, sent, hungUp, unread, attempt, channel, tonicUp, served,
                       rejecter, reply>>
    BY <1>2 DEF IInv, TypeOK, AcceptFails, clientVars, tonicVars, rejectVars
  <2>2. UNCHANGED <<HandedOver, Refused, Accepted, Forwarded>>
    BY <2>1 DEF HandedOver, Refused, Accepted, InHand, Forwarded
  <2>3. OnePlace' /\ OnlyPrefacesForwarded'
    BY <2>1, <2>2 DEF IInv, OnePlace, OnlyPrefacesForwarded
  <2>4. TypeOK'
    BY <2>1 DEF IInv, TypeOK
  <2> QED BY <2>3, <2>4 DEF IInv
<1> QED BY <1>1, <1>2

(***************************************************************************)
(* `tokio::spawn(reject_with_400(stream))` for the connection in hand.     *)
(***************************************************************************)
LEMMA RefuseInv == ASSUME IInv, at = "peek", Refuse PROVE IInv' /\ Accepted \subseteq Accepted'
<1>1. /\ rejecter' = [rejecter EXCEPT ![hand] = "drain"] /\ at' = "accept" /\ hand' = None
      /\ UNCHANGED <<backlog, sent, hungUp, unread, attempt, channel, tonicUp, served, reply,
                     acceptErrors>>
  BY DEF Refuse, clientVars, tonicVars
<1>2. hand \in Conns /\ None \notin Conns
  BY SniffAssumption DEF IInv, TypeOK
<1>3. TypeOK'
  BY <1>1, <1>2 DEF IInv, TypeOK
<1>4. Refused' = Refused \cup {hand}
  BY <1>1, <1>2 DEF IInv, TypeOK, Refused
<1>5. UNCHANGED HandedOver /\ Accepted' = Accepted
  BY <1>1, <1>2, <1>4 DEF HandedOver, Accepted, InHand
<1>6. None \notin HandedOver \cup Refused'
  <2>1. Range(served) \subseteq Conns
    BY RangeOfSeq DEF IInv, TypeOK
  <2> QED BY <2>1, <1>2 DEF HandedOver, Refused
<1>7. OnePlace'
  BY <1>1, <1>4, <1>5, <1>6 DEF IInv, OnePlace
<1>8. OnlyPrefacesForwarded'
  BY <1>1 DEF IInv, OnlyPrefacesForwarded, Forwarded
<1> QED BY <1>3, <1>5, <1>7, <1>8 DEF IInv

(***************************************************************************)
(* `looks_like_h2_preface`: a verdict, or one more sleep.                  *)
(***************************************************************************)
LEMMA PeekInv ==
  ASSUME IInv, PeekFull \/ PeekShort \/ GiveUp \/ PeekGone \/ Wake
  PROVE  IInv' /\ Accepted \subseteq Accepted'
<1>1. CASE GiveUp \/ PeekGone \/ (PeekFull /\ hand \in Http1)
  BY <1>1, RefuseInv DEF GiveUp, PeekGone, PeekFull
<1>2. CASE PeekFull /\ hand \notin Http1
  <2>1. /\ at = "peek" /\ at' = "send" /\ unread[hand] >= PrefaceLen
        /\ UNCHANGED <<backlog, sent, hungUp, unread, hand, attempt, channel, tonicUp, served,
                       rejecter, reply, acceptErrors>>
    BY <1>2 DEF PeekFull, Forward, FullRead, clientVars, tonicVars, rejectVars
  <2>2. UNCHANGED <<HandedOver, Refused, Accepted>>
    BY <2>1 DEF HandedOver, Refused, Accepted, InHand
  <2>3. TypeOK' /\ OnePlace'
    BY <2>1, <2>2 DEF IInv, TypeOK, OnePlace
  <2>4. OnlyPrefacesForwarded'
    BY <2>1, <1>2 DEF IInv, OnlyPrefacesForwarded, Forwarded
  <2> QED BY <2>2, <2>3, <2>4 DEF IInv
<1>3. CASE PeekShort \/ Wake
  <2>1. /\ at \in {"peek", "sleep"} /\ at' \in {"peek", "sleep"} /\ attempt' \in Nat
        /\ UNCHANGED <<backlog, sent, hungUp, unread, hand, channel, tonicUp, served,
                       rejecter, reply, acceptErrors>>
    BY <1>3 DEF IInv, TypeOK, PeekShort, Wake, NextAttempt, clientVars, tonicVars, rejectVars
  <2>2. UNCHANGED <<HandedOver, Refused, Accepted, Forwarded>>
    BY <2>1 DEF HandedOver, Refused, Accepted, InHand, Forwarded
  <2>3. TypeOK'
    BY <2>1 DEF IInv, TypeOK
  <2>4. OnePlace' /\ OnlyPrefacesForwarded'
    BY <2>1, <2>2 DEF IInv, OnePlace, OnlyPrefacesForwarded
  <2> QED BY <2>2, <2>3, <2>4 DEF IInv
<1> QED BY <1>1, <1>2, <1>3

(***************************************************************************)
(* `tx.send`: the connection goes to the channel, or the loop returns.     *)
(***************************************************************************)
LEMMA SendInv ==
  ASSUME IInv, SendToTonic \/ FindTonicGone
  PROVE  IInv' /\ Accepted \subseteq Accepted'
<1>1. CASE SendToTonic
  <2>1. /\ at = "send" /\ channel' = Append(channel, hand) /\ at' = "accept" /\ hand' = None
        /\ UNCHANGED <<backlog, sent, hungUp, unread, attempt, tonicUp, served, rejecter, reply,
                       acceptErrors>>
    BY <1>1 DEF SendToTonic, clientVars, rejectVars
  <2>2. /\ channel \in Seq(Conns \cup {None}) /\ hand \in Conns \cup {None}
        /\ None \notin Conns /\ Range(served) \subseteq Conns
    BY SniffAssumption, RangeOfSeq DEF IInv, TypeOK
  <2>3. Range(channel') = Range(channel) \cup {hand} /\ channel' \in Seq(Conns \cup {None})
    BY <2>1, <2>2, RangeAppend
  <2>4. UNCHANGED <<Refused, Accepted, Forwarded>> /\ HandedOver' = HandedOver \cup ({hand} \ {None})
    BY <2>1, <2>2, <2>3 DEF Refused, Accepted, InHand, Forwarded, HandedOver
  <2>5. TypeOK' /\ OnlyPrefacesForwarded'
    BY <2>1, <2>2, <2>3, <2>4 DEF IInv, TypeOK, OnlyPrefacesForwarded
  <2>6. None \notin HandedOver' \cup Refused'
    BY <2>1, <2>2, <2>3 DEF HandedOver, Refused
  <2>7. OnePlace'
    BY <2>1, <2>4, <2>6 DEF IInv, OnePlace
  <2> QED BY <2>4, <2>5, <2>7 DEF IInv
<1>2. CASE FindTonicGone
  <2>1. /\ at = "send" /\ at' = "returned"
        /\ UNCHANGED <<backlog, sent, hungUp, unread, hand, attempt, channel, tonicUp, served,
                       rejecter, reply, acceptErrors>>
    BY <1>2 DEF FindTonicGone, clientVars, tonicVars, rejectVars
  <2>2. UNCHANGED <<HandedOver, Refused, Accepted>> /\ Forwarded' \subseteq Forwarded
    BY <2>1 DEF HandedOver, Refused, Accepted, InHand, Forwarded
  <2>3. TypeOK' /\ OnePlace' /\ OnlyPrefacesForwarded'
    BY <2>1, <2>2 DEF IInv, TypeOK, OnePlace, OnlyPrefacesForwarded
  <2> QED BY <2>2, <2>3 DEF IInv
<1> QED BY <1>1, <1>2

(***************************************************************************)
(* `reject_with_400` reads, answers and closes a connection that nobody    *)
(* else has.                                                               *)
(***************************************************************************)
LEMMA RejectInv ==
  ASSUME IInv, NEW c \in Conns, RejectStep(c)
  PROVE  IInv' /\ UNCHANGED <<Accepted, Refused>>
<1>1. /\ rejecter[c] # "none"
      /\ rejecter' = [rejecter EXCEPT ![c] = rejecter'[c]]
      /\ rejecter'[c] \in {"write", "close", "closed"}
      /\ reply' \in [Conns -> {None, "400", "cut"}]
      /\ unread' \in [Conns -> Nat]
      /\ \A d \in Conns \ {c} : unread'[d] = unread[d]
      /\ UNCHANGED <<backlog, sent, hungUp, at, hand, attempt, channel, tonicUp, served,
                     acceptErrors>>
  <2>0. /\ rejecter \in [Conns -> {"none", "drain", "write", "close", "closed"}]
        /\ reply \in [Conns -> {None, "400", "cut"}] /\ unread \in [Conns -> Nat]
    BY DEF IInv, TypeOK
  <2>1. CASE Drain(c)
    BY <2>0, <2>1 DEF Drain, LeftByDrain, clientVars, loopVars, tonicVars
  <2>2. CASE WriteReply(c)
    BY <2>0, <2>2 DEF WriteReply, clientVars, loopVars, tonicVars
  <2>3. CASE CloseSocket(c)
    <3>1. reply' \in [Conns -> {None, "400", "cut"}]
      BY <2>0, <2>3 DEF CloseSocket
    <3> QED BY <2>0, <2>3, <3>1 DEF CloseSocket, clientVars, loopVars, tonicVars
  <2> QED BY <2>1, <2>2, <2>3 DEF RejectStep
<1>2. UNCHANGED <<Refused, HandedOver, Forwarded>> /\ c \in Refused
  BY <1>1 DEF IInv, TypeOK, Refused, HandedOver, Forwarded
<1>3. UNCHANGED Accepted
  BY <1>1, <1>2 DEF Accepted, InHand
<1>4. TypeOK'
  BY <1>1 DEF IInv, TypeOK
<1>5. OnePlace'
  BY <1>1, <1>2, <1>3 DEF IInv, OnePlace
<1>6. OnlyPrefacesForwarded'
  <2>1. c \notin Forwarded /\ Forwarded \subseteq Conns
    <3>1. Range(channel) \subseteq Conns \cup {None} /\ Range(served) \subseteq Conns
      BY RangeOfSeq DEF IInv, TypeOK
    <3> QED BY <1>2, <3>1 DEF IInv, TypeOK, OnePlace, Forwarded, HandedOver
  <2> QED BY <1>1, <1>2, <2>1 DEF IInv, OnlyPrefacesForwarded
<1> QED BY <1>2, <1>3, <1>4, <1>5, <1>6 DEF IInv

(***************************************************************************)
(* tonic takes the next connection, or ends.                               *)
(***************************************************************************)
LEMMA TonicInv ==
  ASSUME IInv, TonicTakes \/ TonicStops
  PROVE  IInv' /\ UNCHANGED Refused /\ (tonicUp' => Accepted \subseteq Accepted')
<1>1. CASE TonicTakes
  <2>1. /\ channel # <<>> /\ channel' = Tail(channel)
        /\ served' = IF Head(channel) = None THEN served ELSE Append(served, Head(channel))
        /\ UNCHANGED <<backlog, sent, hungUp, unread, at, hand, attempt, tonicUp, rejecter,
                       reply, acceptErrors>>
    BY <1>1 DEF TonicTakes, clientVars, loopVars, rejectVars
  <2>2. channel \in Seq(Conns \cup {None}) /\ served \in Seq(Conns)
    BY DEF IInv, TypeOK
  <2>3. /\ Range(channel) = {Head(channel)} \cup Range(channel')
        /\ channel' \in Seq(Conns \cup {None}) /\ Head(channel) \in Conns \cup {None}
    BY <2>1, <2>2, RangeTail
  <2>4. served' \in Seq(Conns) /\ Range(served') = Range(served) \cup ({Head(channel)} \ {None})
    <3>1. CASE Head(channel) = None
      BY <3>1, <2>1, <2>2
    <3>2. CASE Head(channel) # None
      BY <3>2, <2>1, <2>2, <2>3, RangeAppend
    <3> QED BY <3>1, <3>2
  <2>5. UNCHANGED <<Refused, HandedOver, Forwarded>>
    BY <2>1, <2>3, <2>4 DEF Refused, HandedOver, Forwarded
  <2>6. UNCHANGED Accepted
    BY <2>1, <2>5 DEF Accepted, InHand, HandedOver
  <2>7. TypeOK'
    BY <2>1, <2>3, <2>4 DEF IInv, TypeOK
  <2>8. OnePlace' /\ OnlyPrefacesForwarded'
    BY <2>1, <2>5, <2>6 DEF IInv, OnePlace, OnlyPrefacesForwarded
  <2> QED BY <2>5, <2>6, <2>7, <2>8 DEF IInv
<1>2. CASE TonicStops
  <2>1. /\ tonicUp' = FALSE /\ channel' = <<>>
        /\ UNCHANGED <<backlog, sent, hungUp, unread, at, hand, attempt, served, rejecter,
                       reply, acceptErrors>>
    BY <1>2 DEF TonicStops, clientVars, loopVars, rejectVars
  <2>2. Range(channel') = {}
    BY <2>1 DEF Range
  <2>3. /\ UNCHANGED Refused /\ HandedOver' \subseteq HandedOver
        /\ Accepted' \subseteq Accepted /\ Forwarded' \subseteq Forwarded
    BY <2>1, <2>2 DEF Refused, HandedOver, Accepted, InHand, Forwarded
  <2>4. TypeOK'
    <3>1. tonicUp' \in BOOLEAN
      BY <2>1, Zenon
    <3>2. channel' \in Seq(Conns \cup {None})
      BY <2>1
    <3> QED BY <2>1, <3>1, <3>2 DEF IInv, TypeOK
  <2>5. OnePlace' /\ OnlyPrefacesForwarded'
    BY <2>1, <2>3 DEF IInv, OnePlace, OnlyPrefacesForwarded
  <2> QED BY <2>1, <2>3, <2>4, <2>5 DEF IInv
<1> QED BY <1>1, <1>2

(***************************************************************************)
(* What a step of the loop, of a refusing task or of tonic does to the     *)
(* connections that have been accepted, while tonic runs.                  *)
(***************************************************************************)
LEMMA NextInv ==
  ASSUME IInv, [Next]_vars
  PROVE  IInv' /\ (tonicUp /\ tonicUp' => Accepted \subseteq Accepted')
<1>1. ASSUME NEW c \in Conns, Connect(c) \/ Deliver(c) \/ HangUp(c)
      PROVE  IInv' /\ Accepted \subseteq Accepted'
  <2>1. UNCHANGED <<at, hand, channel, served, rejecter>>
    BY <1>1 DEF Connect, Deliver, HangUp, loopVars, tonicVars, rejectVars
  <2>2. UNCHANGED Accepted
    BY <2>1 DEF Accepted, InHand, Refused
  <2> QED BY <1>1, <2>2, ClientInv
<1>2. ASSUME NEW c \in Conns, RejectStep(c) PROVE IInv' /\ Accepted \subseteq Accepted'
  BY <1>2, RejectInv
<1>3. CASE Accept \/ AcceptFails
  <2>1. /\ at = "accept"
        /\ UNCHANGED <<channel, served, rejecter>>
    BY <1>3 DEF Accept, AcceptFails, tonicVars, rejectVars
  <2>2. Accepted \subseteq Accepted'
    BY <2>1 DEF Accepted, InHand, Refused
  <2> QED BY <1>3, <2>2, AcceptInv
<1>4. CASE PeekFull \/ PeekShort \/ GiveUp \/ PeekGone \/ Wake
  BY <1>4, PeekInv
<1>5. CASE SendToTonic \/ FindTonicGone
  BY <1>5, SendInv
<1>6. CASE TonicTakes \/ TonicStops
  BY <1>6, TonicInv
<1>7. CASE UNCHANGED vars
  <2>1. UNCHANGED <<backlog, sent, hungUp, unread, at, hand, attempt, channel, tonicUp, served,
                    rejecter, reply, acceptErrors>>
    BY <1>7 DEF vars, clientVars, loopVars, tonicVars, rejectVars
  <2>2. UNCHANGED <<HandedOver, Refused, Accepted, Forwarded>>
    BY <2>1 DEF HandedOver, Refused, Accepted, InHand, Forwarded
  <2>3. TypeOK' /\ OnePlace' /\ OnlyPrefacesForwarded'
    BY <2>1, <2>2 DEF IInv, TypeOK, OnePlace, OnlyPrefacesForwarded
  <2> QED BY <2>2, <2>3 DEF IInv
<1> QED BY <1>1, <1>2, <1>3, <1>4, <1>5, <1>6, <1>7 DEF Next, LoopStep

(***************************************************************************)
(* IInv holds in every reachable state.                                    *)
(***************************************************************************)
LEMMA Inductive == Spec => []IInv
<1>1. IInv /\ [Next]_vars => IInv'
  BY NextInv
<1> QED BY <1>1, InitInv, PTL DEF Spec

(***************************************************************************)
(* However its bytes come in, only a connection that opened with the h2    *)
(* preface is sent to tonic, and the preface is still there to be read.    *)
(***************************************************************************)
THEOREM OnlyPrefacesReachTonic == Spec => []OnlyPrefacesForwarded
BY Inductive, PTL DEF IInv

(***************************************************************************)
(* A connection is in the backlog, in the hand of the accept loop, on its  *)
(* way to tonic or with it, or refused, and never in two of these places:  *)
(* no client is answered 400 by one task and served by another.            *)
(***************************************************************************)
THEOREM NeverServedAndRefused == Spec => []OnePlace
BY Inductive, PTL DEF IInv

(***************************************************************************)
(* While tonic runs, neither a full channel nor a verdict of the peek      *)
(* makes `serve` let go of a connection it has accepted.                   *)
(***************************************************************************)
THEOREM AcceptedStays == Spec => NoConnectionDropped
<1>1. IInv /\ [Next]_vars => [tonicUp /\ tonicUp' => Accepted \subseteq Accepted']_vars
  BY NextInv
<1> QED BY <1>1, Inductive, PTL DEF Spec, NoConnectionDropped

(***************************************************************************)
(* `looks_like_h2_preface` never says no to a gRPC client that is still    *)
(* there and whose four bytes have arrived.                                *)
(***************************************************************************)
THEOREM PrefaceIsAccepted == Spec => PrefaceNeverRefused
<1> DEFINE Kept == \A c \in Conns \ (Http1 \cup hungUp) :
                     unread[c] >= PrefaceLen /\ c \notin Refused => c \notin Refused'
<1>1. IInv /\ [Next]_vars => [Kept]_vars
  <2> SUFFICES ASSUME IInv, [Next]_vars PROVE Kept
    OBVIOUS
  <2>1. UNCHANGED Refused => Kept
    OBVIOUS
  <2>2. ASSUME Refuse, at = "peek",
               hand \in Http1 \/ hand \in hungUp \/ unread[hand] \in 1..(PrefaceLen - 1)
        PROVE  Kept
    <3>1. Refused' = Refused \cup {hand}
      BY <2>2 DEF IInv, TypeOK, Refuse, Refused
    <3>2. hand \notin Http1 \cup hungUp => ~(unread[hand] >= PrefaceLen)
      BY <2>2 DEF PrefaceLen
    <3> QED BY <3>1, <3>2
  <2>3. CASE PeekFull \/ GiveUp \/ PeekGone
    <3>1. CASE Refuse
      BY <2>2, <2>3, <3>1 DEF PeekFull, GiveUp, PeekGone, ShortRead, Refuse, Forward
    <3>2. CASE Forward
      BY <2>1, <3>2 DEF Forward, Refused, rejectVars
    <3> QED BY <2>3, <3>1, <3>2 DEF PeekFull, GiveUp, PeekGone
  <2>4. ASSUME NEW c \in Conns, RejectStep(c) PROVE Kept
    BY <2>1, <2>4, RejectInv
  <2>5. ASSUME NEW c \in Conns, Connect(c) \/ Deliver(c) \/ HangUp(c) PROVE Kept
    BY <2>1, <2>5 DEF Connect, Deliver, HangUp, Refused, rejectVars
  <2>6. CASE \/ Accept \/ AcceptFails \/ PeekShort \/ Wake \/ SendToTonic \/ FindTonicGone
             \/ TonicTakes \/ TonicStops
    BY <2>1, <2>6 DEF Accept, AcceptFails, PeekShort, Wake, SendToTonic, FindTonicGone,
                      TonicTakes, TonicStops, Refused, rejectVars
  <2>7. CASE UNCHANGED vars
    BY <2>1, <2>7 DEF vars, Refused, rejectVars
  <2> HIDE DEF Kept
  <2> QED BY <2>3, <2>4, <2>5, <2>6, <2>7 DEF Next, LoopStep
<1> QED BY <1>1, Inductive, PTL DEF Spec, PrefaceNeverRefused
=============================================================================
