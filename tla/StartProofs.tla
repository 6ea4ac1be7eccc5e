---------------------------- MODULE StartProofs -----------------------------
(***************************************************************************)
(* Invocations of the program on one machine, for every number of them,    *)
(* any flags, any programs beside them and listings of any length.         *)
(*                                                                         *)
(* The argument has two halves.  ServerInv says how ports, points of       *)
(* `run_server` and what has been printed go together; that the ports are  *)
(* bound in a fixed order is what lets a server that found one taken       *)
(* conclude that another holds the first.  ClientInv follows a client      *)
(* through its requests, one connection each.                              *)
(***************************************************************************)
EXTENDS Start, SequenceTheorems, TLAPS

Points == {"off", "bind", "lookup", "seed", "serve", "connect", "read", "ended"}

ServerPoints == {"bind", "lookup", "seed", "serve"}

Listening(p) == at[p] \in {"seed", "serve"}

TypeOK ==
  /\ args \in [Invocations -> [dump : BOOLEAN, list : BOOLEAN, demo : BOOLEAN]]
  /\ at \in [Invocations -> Points]
  /\ exit \in [Invocations -> {None, 0, 1, 2, 101, 130}]
  /\ holder \in [Ports -> Invocations \cup Others \cup {None}]
  /\ banner \subseteq Invocations /\ seeded \subseteq Invocations
  /\ interfered \in BOOLEAN

(***************************************************************************)
(* Where an invocation is says which of the jobs of `main` it has, what it *)
(* has printed and seeded, and that it has ended when it has an exit code. *)
(***************************************************************************)
Stages ==
  \A p \in Invocations :
    /\ at[p] \in ServerPoints => Role(p) = "server"
    /\ at[p] \in {"connect", "read"} => Role(p) \in {"list", "dump"}
    /\ exit[p] # None => at[p] = "ended"
    /\ p \in banner => Listening(p) \/ at[p] = "ended"
    /\ Listening(p) => p \in banner
    /\ at[p] = "serve" /\ args[p].demo => p \in seeded

(***************************************************************************)
(* Who has a port of ours is a server that runs; a port is held only with  *)
(* the ports before it, and all of them once the banner is out.            *)
(***************************************************************************)
PortsInOrder ==
  /\ \A port \in Ports : holder[port] \in Invocations => at[holder[port]] \in ServerPoints
  /\ \A p \in Invocations :
       /\ holder["4318"] = p => holder["4317"] = p
       /\ holder["5317"] = p => holder["4318"] = p
       /\ Listening(p) => holder["5317"] = p

(***************************************************************************)
(* While nothing interferes: whoever has the first port gets the others,   *)
(* so one that looks up who is in its way has none; and there is somebody  *)
(* in its way who listens or is about to.                                  *)
(***************************************************************************)
GaveUp(p) == at[p] = "lookup" \/ (Role(p) = "server" /\ exit[p] = 1)

Winner == \E q \in Invocations : at[q] = "bind" /\ holder["4317"] = q

FirstPortDecides ==
  ~interfered =>
    /\ \A port \in Ports : holder[port] \notin Others
    /\ \A p \in Invocations : at[p] = "lookup" => \A port \in Ports : holder[port] # p
    /\ (\E p \in Invocations : GaveUp(p)) => banner # {} \/ Winner

ServerInv == TypeOK /\ Stages /\ PortsInOrder /\ FirstPortDecides

Answer == [from : Invocations \cup Others, to : {"traces", "trace", "receiver"},
           cut : BOOLEAN, rows : 0..MaxRows \cup {None}, seeded : BOOLEAN]

ClientTypeOK ==
  /\ conn \in [Invocations -> Invocations \cup Others \cup {None}]
  /\ reply \in [Invocations -> Reply \cup {None}]
  /\ left \in [Invocations -> Nat]
  /\ answers \in [Invocations -> Seq(Answer)]

(***************************************************************************)
(* A client that reads is connected; an answer that parses was not cut,    *)
(* and one from a server with --demo came from a seeded store.             *)
(***************************************************************************)
RepliesTrue ==
  \A c \in Invocations :
    /\ at[c] = "read" => conn[c] # None
    /\ at[c] # "read" => reply[c] = None
    /\ reply[c] # None /\ reply[c].json =>
         /\ ~reply[c].cut
         /\ conn[c] \in Invocations /\ args[conn[c]].demo => reply[c].seeded

AnswersTrue ==
  \A c \in Invocations : \A i \in 1..Len(answers[c]) :
    /\ ~answers[c][i].cut
    /\ answers[c][i].from \in Invocations /\ args[answers[c][i].from].demo => answers[c][i].seeded

(***************************************************************************)
(* What a dump has and what it still has to fetch are what it listed.      *)
(***************************************************************************)
DumpProgress ==
  \A c \in Invocations : Role(c) = "dump" /\ exit[c] # 0 =>
    IF answers[c] = <<>> THEN left[c] = 0
    ELSE /\ answers[c][1].rows \in Nat
         /\ Len(answers[c]) + left[c] = 1 + answers[c][1].rows
         /\ \A i \in 2..Len(answers[c]) : answers[c][i].to = "trace"

ClientInv == ClientTypeOK /\ RepliesTrue /\ AnswersTrue /\ DumpProgress /\ OutputComplete

-----------------------------------------------------------------------------
(* The servers.                                                            *)

(***************************************************************************)
(* Before anything is launched every port is free and nothing is printed.  *)
(***************************************************************************)
LEMMA ServerInit == Init => ServerInv
<1> SUFFICES ASSUME Init PROVE ServerInv
  OBVIOUS
<1>0. None \notin Invocations \cup Others \cup Nat
  BY StartAssumption
<1>1. TypeOK
  <2>1. args \in [Invocations -> [dump : BOOLEAN, list : BOOLEAN, demo : BOOLEAN]]
    BY StartAssumption DEF Init
  <2>2. interfered \in BOOLEAN
    BY Zenon DEF Init
  <2> QED BY <2>1, <2>2 DEF Init, TypeOK, Points
<1>2. Stages
  BY DEF Init, Stages, ServerPoints, Listening
<1>3. PortsInOrder
  BY <1>0 DEF Init, PortsInOrder, Ports, Listening
<1>4. FirstPortDecides
  BY <1>0 DEF Init, FirstPortDecides, GaveUp, Ports
<1> QED BY <1>1, <1>2, <1>3, <1>4 DEF ServerInv

(***************************************************************************)
(* The role of an invocation depends on its flags only, which it keeps.    *)
(***************************************************************************)
LEMMA RoleKept == ASSUME UNCHANGED args PROVE \A p \in Invocations : Role(p)' = Role(p)
BY DEF Role

(***************************************************************************)
(* An invocation goes on from a point at which it is no server, to another *)
(* such point or to its end, and leaves the ports alone.                   *)
(***************************************************************************)
LEMMA ClientMoves ==
  ASSUME ServerInv, NEW c \in Invocations, at[c] \in {"off", "connect", "read"},
         NEW x \in {"connect", "read", "ended"}, at' = [at EXCEPT ![c] = x],
         x = "ended" \/ Role(c) \in {"list", "dump"},
         \/ exit' = exit
         \/ x = "ended" /\ \E code \in {0, 1, 2} :
              exit' = [exit EXCEPT ![c] = code] /\ (code = 1 => Role(c) # "server"),
         UNCHANGED serverVars
  PROVE  ServerInv'
<1>0. /\ TypeOK /\ Stages /\ PortsInOrder /\ FirstPortDecides
      /\ UNCHANGED <<args, holder, banner, seeded, interfered>>
      /\ \A p \in Invocations : Role(p)' = Role(p)
  BY RoleKept DEF ServerInv, serverVars
<1>1. /\ at \in [Invocations -> Points]
      /\ exit \in [Invocations -> {None, 0, 1, 2, 101, 130}]
  BY <1>0 DEF TypeOK
<1>2. TypeOK'
  <2>1. at' \in [Invocations -> Points] /\ exit' \in [Invocations -> {None, 0, 1, 2, 101, 130}]
    BY <1>1 DEF Points
  <2> QED BY <2>1, <1>0 DEF TypeOK
<1>3. Stages'
  BY <1>0, <1>1 DEF Stages, ServerPoints, Listening
<1>4. PortsInOrder'
  <2>1. \A port \in Ports : holder[port] # c
    BY <1>0 DEF PortsInOrder, ServerPoints
  <2>2. \A p \in Invocations \ {c} : at'[p] = at[p]
    BY <1>1
  <2>3. at'[c] = x
    BY <1>1
  <2> QED BY <2>1, <2>2, <2>3, <1>0 DEF PortsInOrder, Listening
<1>5. FirstPortDecides'
  <2>1. \A p \in Invocations : GaveUp(p)' => GaveUp(p)
    BY <1>0, <1>1 DEF GaveUp
  <2>2. \A p \in Invocations : at[p] = "bind" => at'[p] = "bind"
    BY <1>1
  <2>3. \A p \in Invocations : at'[p] = "lookup" => at[p] = "lookup"
    BY <1>1
  <2>4. Winner => Winner'
    BY <2>2, <1>0 DEF Winner
  <2> QED BY <2>1, <2>3, <2>4, <1>0 DEF FirstPortDecides
<1> QED BY <1>2, <1>3, <1>4, <1>5 DEF ServerInv

(***************************************************************************)
(* A server ends and gives back its ports.  When that is not of its own    *)
(* doing it counts as interference.                                        *)
(***************************************************************************)
LEMMA ServerEnds ==
  ASSUME ServerInv, NEW p \in Invocations, at[p] \in ServerPoints,
         NEW code \in {0, 1, 101, 130}, Exit(p, code), holder' = PortsFreed(p),
         \/ interfered' = TRUE
         \/ /\ interfered' = interfered
            /\ \/ code = 0 /\ Listening(p)
               \/ code = 1 /\ at[p] = "lookup",
         UNCHANGED <<args, banner, seeded>>
  PROVE  ServerInv'
<1>0. /\ TypeOK /\ Stages /\ PortsInOrder /\ FirstPortDecides
      /\ \A q \in Invocations : Role(q)' = Role(q)
      /\ None \notin Invocations \cup Others \cup Nat
  BY RoleKept, StartAssumption DEF ServerInv
<1>1. /\ at \in [Invocations -> Points]
      /\ exit \in [Invocations -> {None, 0, 1, 2, 101, 130}]
      /\ holder \in [Ports -> Invocations \cup Others \cup {None}]
  BY <1>0 DEF TypeOK
<1>2. /\ at' = [at EXCEPT ![p] = "ended"] /\ exit' = [exit EXCEPT ![p] = code]
      /\ \A port \in Ports : holder'[port] = IF holder[port] = p THEN None ELSE holder[port]
  BY DEF Exit, PortsFreed
<1>3. TypeOK'
  <2>1. /\ at' \in [Invocations -> Points]
        /\ exit' \in [Invocations -> {None, 0, 1, 2, 101, 130}]
    BY <1>1, <1>2 DEF Points
  <2>2. holder' \in [Ports -> Invocations \cup Others \cup {None}]
    BY <1>1 DEF PortsFreed
  <2>3. interfered' \in BOOLEAN
    BY <1>0, Zenon DEF TypeOK
  <2> QED BY <2>1, <2>2, <2>3, <1>0 DEF TypeOK
<1>4. Stages'
  BY <1>0, <1>1, <1>2 DEF Stages, ServerPoints, Listening
<1>5. \A q \in Invocations : q # p => at'[q] = at[q] /\ exit'[q] = exit[q]
  BY <1>1, <1>2
<1>6. at'[p] = "ended" /\ \A port \in Ports : holder'[port] # p
  BY <1>0, <1>1, <1>2
<1>7. PortsInOrder'
  BY <1>0, <1>2, <1>5, <1>6 DEF PortsInOrder, Ports, Listening
<1>8. FirstPortDecides'
  <2> SUFFICES ASSUME ~interfered'
               PROVE  /\ \A port \in Ports : holder'[port] \notin Others
                      /\ \A q \in Invocations : at'[q] = "lookup" =>
                           \A port \in Ports : holder'[port] # q
                      /\ (\E q \in Invocations : GaveUp(q)') => banner' # {} \/ Winner'
    BY DEF FirstPortDecides
  <2>0. interfered' # TRUE
    BY Zenon
  <2>1. ~interfered /\ ((Listening(p) /\ code = 0) \/ (at[p] = "lookup" /\ code = 1))
    <3>1. interfered' = interfered
      BY <2>0
    <3>2. (code = 0 /\ Listening(p)) \/ (code = 1 /\ at[p] = "lookup")
      BY <2>0
    <3>3. ~interfered
      BY <3>1, Zenon
    <3> QED BY <3>2, <3>3
  <2>2. \A port \in Ports : holder'[port] \notin Others
    BY <2>1, <1>0, <1>2 DEF FirstPortDecides
  <2>3. \A q \in Invocations : at'[q] = "lookup" => \A port \in Ports : holder'[port] # q
    BY <2>1, <1>0, <1>2, <1>5, <1>6 DEF FirstPortDecides
  <2>4. ASSUME NEW q \in Invocations, GaveUp(q)' PROVE banner' # {} \/ Winner'
    <3>1. CASE Listening(p)
      BY <3>1, <1>0 DEF Stages
    <3>2. CASE at[p] = "lookup"
      <4>1. GaveUp(p)
        BY <3>2 DEF GaveUp
      <4>2. banner # {} \/ Winner
        BY <4>1, <2>1, <1>0 DEF FirstPortDecides
      <4>3. Winner => Winner'
        <5> SUFFICES ASSUME NEW w \in Invocations, at[w] = "bind", holder["4317"] = w
                     PROVE  at'[w] = "bind" /\ holder'["4317"] = w
          BY DEF Winner
        <5> QED BY <3>2, <1>2, <1>5 DEF Ports
      <4> QED BY <4>2, <4>3
    <3> QED BY <3>1, <3>2, <2>1
  <2> QED BY <2>2, <2>3, <2>4
<1> QED BY <1>3, <1>4, <1>7, <1>8 DEF ServerInv

(***************************************************************************)
(* `bind`: the next port, if it is free.                                   *)
(***************************************************************************)
LEMMA BindPortInv ==
  ASSUME ServerInv, NEW p \in Invocations, NEW port \in Ports, BindPort(p, port)
  PROVE  ServerInv'
<1>0. /\ TypeOK /\ Stages /\ PortsInOrder /\ FirstPortDecides
      /\ \A q \in Invocations : Role(q)' = Role(q)
      /\ None \notin Invocations \cup Others /\ Invocations \cap Others = {}
  BY RoleKept, StartAssumption DEF ServerInv, BindPort
<1>1. /\ at[p] = "bind" /\ port \in Wanted(p) /\ holder[port] = None
      /\ holder' = [holder EXCEPT ![port] = p]
      /\ UNCHANGED <<at, exit, args, banner, seeded, interfered>>
      /\ holder \in [Ports -> Invocations \cup Others \cup {None}]
  BY <1>0 DEF BindPort, TypeOK
<1>2. /\ port = "4318" => holder["4317"] = p
      /\ port = "5317" => holder["4318"] = p
  <2>1. "4317" \in Ports /\ "4318" \in Ports
    BY DEF Ports
  <2>2. CASE "4317" \notin Held(p)
    <3>1. Wanted(p) = {"4317"}
      BY <2>2, Zenon DEF Wanted
    <3> QED BY <3>1, <1>1
  <2>3. CASE "4317" \in Held(p) /\ "4318" \notin Held(p)
    <3>1. Wanted(p) = {"4318"}
      BY <2>3 DEF Wanted
    <3> QED BY <3>1, <1>1, <2>3 DEF Held
  <2>4. CASE "4317" \in Held(p) /\ "4318" \in Held(p)
    BY <2>4 DEF Held
  <2> QED BY <2>2, <2>3, <2>4
<1>3. TypeOK'
  BY <1>0, <1>1 DEF TypeOK
<1>4. Stages'
  BY <1>0, <1>1 DEF Stages, Listening
<1>5. PortsInOrder'
  <2>1. \A o \in Ports : holder'[o] = IF o = port THEN p ELSE holder[o]
    BY <1>1
  <2>2. \A q \in Invocations : Listening(q)' = Listening(q)
    BY <1>1 DEF Listening
  <2>3. \A o \in Ports : holder'[o] \in Invocations => at'[holder'[o]] \in ServerPoints
    BY <2>1, <1>0, <1>1 DEF PortsInOrder, ServerPoints
  <2>4. \A q \in Invocations :
          /\ holder'["4318"] = q => holder'["4317"] = q
          /\ holder'["5317"] = q => holder'["4318"] = q
          /\ Listening(q) => holder'["5317"] = q
    BY <2>1, <1>0, <1>1, <1>2 DEF PortsInOrder, Ports, Listening
  <2> QED BY <2>2, <2>3, <2>4 DEF PortsInOrder
<1>6. FirstPortDecides'
  <2>1. \A q \in Invocations : GaveUp(q)' = GaveUp(q)
    BY <1>0, <1>1 DEF GaveUp
  <2>2. Winner => Winner'
    BY <1>0, <1>1 DEF Winner, Ports
  <2>3. \A o \in Ports : holder'[o] = IF o = port THEN p ELSE holder[o]
    BY <1>1
  <2> QED BY <2>1, <2>2, <2>3, <1>0, <1>1 DEF FirstPortDecides
<1> QED BY <1>3, <1>4, <1>5, <1>6 DEF ServerInv

(***************************************************************************)
(* A server moves on to another point of `run_server`; the ports stay.     *)
(***************************************************************************)
LEMMA ServerMoves ==
  ASSUME ServerInv, NEW p \in Invocations,
         \/ at[p] = "off" /\ Role(p) = "server" /\ at' = [at EXCEPT ![p] = "bind"]
            /\ UNCHANGED <<banner, seeded>>
         \/ FindPortTaken(p) \/ PrintBanner(p) \/ SeedAndServe(p),
         UNCHANGED <<exit, args, holder, interfered>>
  PROVE  ServerInv'
<1>0. /\ TypeOK /\ Stages /\ PortsInOrder /\ FirstPortDecides
      /\ \A q \in Invocations : Role(q)' = Role(q)
      /\ None \notin Invocations \cup Others /\ Invocations \cap Others = {}
  BY RoleKept, StartAssumption DEF ServerInv
<1>1. /\ at \in [Invocations -> Points]
      /\ holder \in [Ports -> Invocations \cup Others \cup {None}]
  BY <1>0 DEF TypeOK
<1>2. ASSUME NEW x \in ServerPoints, at' = [at EXCEPT ![p] = x],
             at[p] \notin {"connect", "read", "ended"},
             Role(p) = "server",
             banner \subseteq banner', banner' \subseteq banner \cup {p},
             seeded \subseteq seeded', seeded' \subseteq seeded \cup {p},
             p \in banner' => x \in {"seed", "serve"},
             x \in {"seed", "serve"} => p \in banner' /\ holder["5317"] = p,
             x = "serve" /\ args[p].demo => p \in seeded',
             x = "lookup" => at[p] = "bind" /\ \E port \in Wanted(p) : holder[port] # None
      PROVE  ServerInv'
  <2>1. \A q \in Invocations : at'[q] = IF q = p THEN x ELSE at[q]
    BY <1>1, <1>2
  <2>2. TypeOK'
    BY <1>0, <1>1, <1>2 DEF TypeOK, Points, ServerPoints
  <2>3. Stages'
    BY <1>0, <1>2, <2>1 DEF Stages, ServerPoints, Listening
  <2>4. PortsInOrder'
    <3>1. \A port \in Ports : holder'[port] \in Invocations => at'[holder'[port]] \in ServerPoints
      BY <1>0, <1>2, <2>1 DEF PortsInOrder, ServerPoints
    <3>2. \A q \in Invocations : Listening(q)' => holder'["5317"] = q
      BY <1>0, <1>2, <2>1 DEF PortsInOrder, Listening
    <3> QED BY <3>1, <3>2, <1>0 DEF PortsInOrder
  <2>5. FirstPortDecides'
    <3> SUFFICES ASSUME ~interfered'
                 PROVE  /\ \A port \in Ports : holder'[port] \notin Others
                        /\ \A q \in Invocations : at'[q] = "lookup" =>
                             \A port \in Ports : holder'[port] # q
                        /\ (\E q \in Invocations : GaveUp(q)') => banner' # {} \/ Winner'
      BY DEF FirstPortDecides
    <3>0. ~interfered /\ \A port \in Ports : holder[port] \notin Others
      BY <1>0 DEF FirstPortDecides
    <3>1. CASE x = "lookup"
      <4>1. PICK port \in Ports : port \in Wanted(p) /\ holder[port] # None
        BY <1>2, <3>1 DEF Wanted, Ports
      <4>2. PICK o \in Invocations : holder[port] = o /\ o # p
        BY <4>1, <1>1, <3>0 DEF Wanted, Held, Ports
      <4>3. holder["4317"] = o /\ at[o] \in ServerPoints
        BY <4>2, <1>0 DEF PortsInOrder, Ports
      <4>4. \A r \in Ports : holder[r] # p
        BY <4>2, <4>3, <1>0 DEF PortsInOrder, Ports
      <4>5. at[o] # "lookup"
        BY <4>3, <3>0, <1>0 DEF FirstPortDecides, Ports
      <4>6. banner' # {} \/ Winner'
        <5>1. CASE Listening(o)
          BY <5>1, <1>0, <1>2 DEF Stages
        <5>2. CASE at[o] = "bind"
          BY <5>2, <4>2, <4>3, <2>1 DEF Winner
        <5> QED BY <5>1, <5>2, <4>3, <4>5 DEF ServerPoints, Listening
      <4>7. \A q \in Invocations : at'[q] = "lookup" => \A r \in Ports : holder'[r] # q
        BY <4>4, <2>1, <3>0, <1>0 DEF FirstPortDecides
      <4> QED BY <4>6, <4>7, <3>0
    <3>2. CASE x # "lookup"
      <4>1. \A q \in Invocations : GaveUp(q)' => GaveUp(q)
        BY <3>2, <1>0, <2>1 DEF GaveUp
      <4>2. Winner => banner' # {} \/ Winner'
        <5> SUFFICES ASSUME NEW w \in Invocations, at[w] = "bind", holder["4317"] = w
                     PROVE  banner' # {} \/ Winner'
          BY DEF Winner
        <5>1. CASE w # p
          BY <5>1, <2>1 DEF Winner
        <5>2. CASE w = p /\ x = "bind"
          BY <5>2, <2>1 DEF Winner
        <5>3. CASE x \in {"seed", "serve"}
          BY <5>3, <1>2
        <5> QED BY <5>1, <5>2, <5>3, <3>2 DEF ServerPoints
      <4>3. \A q \in Invocations : at'[q] = "lookup" => at[q] = "lookup"
        BY <3>2, <2>1
      <4> QED BY <4>1, <4>2, <4>3, <3>0, <1>0, <1>2 DEF FirstPortDecides
    <3> QED BY <3>1, <3>2
  <2> QED BY <2>2, <2>3, <2>4, <2>5 DEF ServerInv
<1>3. CASE at[p] = "off" /\ Role(p) = "server" /\ at' = [at EXCEPT ![p] = "bind"]
           /\ UNCHANGED <<banner, seeded>>
  BY <1>0, <1>2, <1>3 DEF Stages, ServerPoints, Listening
<1>4. CASE FindPortTaken(p)
  <2>1. /\ at[p] = "bind" /\ \E port \in Wanted(p) : holder[port] # None
        /\ at' = [at EXCEPT ![p] = "lookup"] /\ UNCHANGED <<banner, seeded>>
    BY <1>4 DEF FindPortTaken, Goto, serverVars
  <2> QED BY <2>1, <1>0, <1>2 DEF Stages, ServerPoints, Listening
<1>5. CASE PrintBanner(p)
  <2>1. /\ at[p] = "bind" /\ Wanted(p) = {} /\ at' = [at EXCEPT ![p] = "seed"]
        /\ banner' = banner \cup {p} /\ UNCHANGED seeded
    BY <1>5 DEF PrintBanner, Goto, Bound
  <2>2. holder["5317"] = p
    BY <2>1 DEF Wanted, Held, Ports
  <2> QED BY <2>1, <2>2, <1>0, <1>2 DEF Stages, ServerPoints, Listening
<1>6. CASE SeedAndServe(p)
  <2>1. /\ at[p] = "seed" /\ at' = [at EXCEPT ![p] = "serve"] /\ UNCHANGED banner
        /\ seeded' = IF args[p].demo THEN seeded \cup {p} ELSE seeded
    BY <1>6 DEF SeedAndServe, Goto
  <2>2. p \in banner /\ holder["5317"] = p /\ Role(p) = "server"
    BY <2>1, <1>0 DEF Stages, PortsInOrder, ServerPoints, Listening
  <2> QED BY <2>1, <2>2, <1>2 DEF ServerPoints
<1> QED BY <1>3, <1>4, <1>5, <1>6

(***************************************************************************)
(* A program that is not ours takes a port or gives its ports back.        *)
(***************************************************************************)
LEMMA OthersInv ==
  ASSUME ServerInv, NEW o \in Others,
         OtherEnds(o) \/ \E port \in Ports : OtherBinds(o, port)
  PROVE  ServerInv'
<1>0. /\ TypeOK /\ Stages /\ PortsInOrder /\ FirstPortDecides
      /\ UNCHANGED <<args, at, exit, banner, seeded>>
      /\ None \notin Invocations \cup Others /\ Invocations \cap Others = {}
  BY StartAssumption DEF ServerInv, OtherEnds, OtherBinds
<1>1. /\ holder \in [Ports -> Invocations \cup Others \cup {None}]
      /\ \A q \in Invocations : Role(q)' = Role(q) /\ Listening(q)' = Listening(q)
  BY <1>0, RoleKept DEF TypeOK, Listening
<1>2. CASE OtherEnds(o)
  <2>1. /\ \A port \in Ports : holder'[port] = IF holder[port] = o THEN None ELSE holder[port]
        /\ UNCHANGED interfered
    BY <1>2 DEF OtherEnds, PortsFreed
  <2>2. \A port \in Ports, q \in Invocations : holder'[port] = q <=> holder[port] = q
    BY <2>1, <1>0
  <2>3. TypeOK'
    <3>1. holder' \in [Ports -> Invocations \cup Others \cup {None}]
      BY <1>1, <1>2 DEF OtherEnds, PortsFreed
    <3> QED BY <3>1, <2>1, <1>0 DEF TypeOK
  <2>4. Stages'
    BY <1>0, <1>1 DEF Stages
  <2>5. PortsInOrder'
    BY <2>2, <1>0, <1>1 DEF PortsInOrder, Ports
  <2>6. FirstPortDecides'
    <3>1. \A q \in Invocations : GaveUp(q)' = GaveUp(q)
      BY <1>0, <1>1 DEF GaveUp
    <3>2. Winner' = Winner
      BY <2>2, <1>0 DEF Winner, Ports
    <3>3. \A port \in Ports : holder[port] \notin Others => holder'[port] \notin Others
      BY <2>1, <1>0
    <3> QED BY <3>1, <3>2, <3>3, <2>1, <2>2, <1>0 DEF FirstPortDecides
  <2> QED BY <2>3, <2>4, <2>5, <2>6 DEF ServerInv
<1>3. ASSUME NEW port \in Ports, OtherBinds(o, port) PROVE ServerInv'
  <2>1. /\ holder[port] = None /\ holder' = [holder EXCEPT ![port] = o]
    BY <1>3 DEF OtherBinds
  <2>2. interfered'
    BY <1>3 DEF OtherBinds
  <2>3. \A r \in Ports, q \in Invocations : holder'[r] = q <=> holder[r] = q
    BY <2>1, <1>0, <1>1
  <2>4. TypeOK'
    <3>1. holder' \in [Ports -> Invocations \cup Others \cup {None}]
      BY <1>1, <2>1
    <3>2. interfered' \in BOOLEAN
      BY <1>3, Zenon DEF OtherBinds
    <3> QED BY <3>1, <3>2, <1>0 DEF TypeOK
  <2>5. Stages'
    BY <1>0, <1>1 DEF Stages
  <2>6. PortsInOrder'
    BY <2>3, <1>0, <1>1 DEF PortsInOrder, Ports
  <2>7. FirstPortDecides'
    BY <2>2 DEF FirstPortDecides
  <2> QED BY <2>4, <2>5, <2>6, <2>7 DEF ServerInv
<1> QED BY <1>2, <1>3

(***************************************************************************)
(* A step that leaves every process and every port where they are.         *)
(***************************************************************************)
LEMMA ServersUntouched == ASSUME ServerInv, UNCHANGED <<at, exit, serverVars>> PROVE ServerInv'
<1>1. /\ UNCHANGED <<at, exit, args, holder, banner, seeded, interfered>>
      /\ \A p \in Invocations : Role(p)' = Role(p)
  BY RoleKept DEF serverVars
<1>2. TypeOK'
  BY <1>1 DEF ServerInv, TypeOK
<1>3. Stages'
  BY <1>1 DEF ServerInv, Stages, Listening
<1>4. PortsInOrder'
  BY <1>1 DEF ServerInv, PortsInOrder, Listening
<1>5. FirstPortDecides'
  BY <1>1 DEF ServerInv, FirstPortDecides, GaveUp, Winner
<1> QED BY <1>2, <1>3, <1>4, <1>5 DEF ServerInv

(***************************************************************************)
(* `main` picks the job, which only the flags decide.                      *)
(***************************************************************************)
LEMMA LaunchInv == ASSUME ServerInv, NEW p \in Invocations, Launch(p) PROVE ServerInv'
<1>1. at[p] = "off" /\ UNCHANGED serverVars
  BY DEF Launch
<1>2. Role(p) \in {"usage", "dump", "list", "server"}
  BY DEF Role
<1>3. CASE Role(p) = "usage"
  <2>1. Exit(p, 2)
    BY <1>3 DEF Launch
  <2> QED BY <1>1, <1>3, <2>1, ClientMoves DEF Exit
<1>4. CASE Role(p) = "server"
  <2>1. Goto(p, "bind")
    BY <1>4 DEF Launch
  <2> QED BY <1>1, <1>4, <2>1, ServerMoves DEF Goto, serverVars
<1>5. CASE Role(p) \in {"dump", "list"}
  <2>1. Goto(p, "connect")
    BY <1>5 DEF Launch
  <2> QED BY <1>1, <1>5, <2>1, ClientMoves DEF Goto
<1> QED BY <1>2, <1>3, <1>4, <1>5

(***************************************************************************)
(* A client connects, reads on, gives up or takes an answer.               *)
(***************************************************************************)
LEMMA ClientStepServers == ASSUME ServerInv, NEW c \in Invocations, ClientStep(c) PROVE ServerInv'
<1>1. at[c] \in {"connect", "read"} /\ UNCHANGED serverVars
  <2>1. CASE Connect(c)
    BY <2>1 DEF Connect, serverVars
  <2>2. CASE TimeOut(c)
    BY <2>2 DEF TimeOut, Waiting, serverVars
  <2>3. CASE TakeAnswer(c)
    BY <2>3 DEF TakeAnswer, serverVars
  <2>4. CASE ReadSome(c)
    BY <2>4 DEF ReadSome, Waiting, serverVars
  <2>5. CASE FindNoTraceId(c)
    BY <2>5 DEF FindNoTraceId, serverVars
  <2> QED BY <2>1, <2>2, <2>3, <2>4, <2>5 DEF ClientStep
<1>2. Role(c) \in {"list", "dump"}
  BY <1>1 DEF ServerInv, Stages
<1>3. ASSUME NEW code \in {0, 1}, Exit(c, code) PROVE ServerInv'
  BY <1>1, <1>2, <1>3, ClientMoves DEF Exit
<1>4. ASSUME NEW x \in {"connect", "read"}, Goto(c, x) PROVE ServerInv'
  BY <1>1, <1>2, <1>4, ClientMoves DEF Goto
<1>5. CASE ReadSome(c)
  <2>1. UNCHANGED <<at, exit>>
    BY <1>5 DEF ReadSome
  <2> QED BY <1>1, <2>1, ServersUntouched
<1>6. ~ReadSome(c) => Exit(c, 0) \/ Exit(c, 1) \/ Goto(c, "read") \/ Goto(c, "connect")
  BY DEF ClientStep, Connect, TimeOut, TakeAnswer, FindNoTraceId
<1> QED BY <1>3, <1>4, <1>5, <1>6

(***************************************************************************)
(* Every step of any process keeps the servers in order.                   *)
(***************************************************************************)
LEMMA ServerNext == ASSUME ServerInv, [Next]_vars PROVE ServerInv'
<1>1. CASE UNCHANGED vars
  BY <1>1, ServersUntouched DEF vars
<1>2. ASSUME NEW p \in Invocations, FailBind(p) \/ Stop(p) \/ Kill(p) \/ DescribeHolder(p)
      PROVE  ServerInv'
  <2>1. UNCHANGED <<args, banner, seeded>> /\ holder' = PortsFreed(p)
    BY <1>2 DEF FailBind, Stop, Kill, DescribeHolder
  <2>2. CASE FailBind(p)
    BY <2>1, <2>2, ServerEnds DEF FailBind, ServerPoints
  <2>3. CASE Stop(p)
    <3>1. at[p] = "serve" /\ Exit(p, 0) /\ UNCHANGED interfered
      BY <2>3 DEF Stop
    <3> QED BY <3>1, <2>1, ServerEnds DEF ServerPoints, Listening
  <2>4. CASE Kill(p)
    <3>1. Exit(p, 130) /\ interfered' = TRUE /\ Role(p) = "server" /\ at[p] \notin {"off", "ended"}
      BY <2>4 DEF Kill
    <3>2. at[p] \in ServerPoints
      BY <3>1 DEF ServerInv, TypeOK, Stages, Points, ServerPoints
    <3> QED BY <3>1, <3>2, <2>1, ServerEnds
  <2>5. CASE DescribeHolder(p)
    <3>1. at[p] = "lookup" /\ Exit(p, 1) /\ UNCHANGED interfered
      BY <2>5 DEF DescribeHolder
    <3> QED BY <3>1, <2>1, ServerEnds DEF ServerPoints
  <2> QED BY <1>2, <2>2, <2>3, <2>4, <2>5
<1>3. ASSUME NEW p \in Invocations, FindPortTaken(p) \/ PrintBanner(p) \/ SeedAndServe(p)
      PROVE  ServerInv'
  <2>1. UNCHANGED <<exit, args, holder, interfered>>
    BY <1>3 DEF FindPortTaken, PrintBanner, SeedAndServe, Goto, serverVars
  <2> QED BY <1>3, <2>1, ServerMoves
<1>4. ASSUME NEW c \in Invocations,
             Respond(c) \/ LosePeer(c) \/ OtherResponds(c) \/ OtherTrickles(c)
      PROVE  ServerInv'
  <2>1. UNCHANGED <<at, exit, serverVars>>
    BY <1>4 DEF Respond, LosePeer, OtherResponds, OtherTrickles, Receive
  <2> QED BY <2>1, ServersUntouched
<1> QED BY <1>1, <1>2, <1>3, <1>4, LaunchInv, BindPortInv, ClientStepServers, OthersInv
        DEF Next, ServerStep

-----------------------------------------------------------------------------
(* The clients.                                                            *)

(***************************************************************************)
(* Before anything is launched no client has a connection or an answer.    *)
(***************************************************************************)
LEMMA ClientInit == Init => ClientInv
<1> SUFFICES ASSUME Init PROVE ClientInv
  OBVIOUS
<1>0. /\ None \notin Invocations \cup Others \cup Nat
      /\ \A c \in Invocations : /\ conn[c] = None /\ reply[c] = None /\ left[c] = 0
                                /\ answers[c] = <<>> /\ exit[c] = None /\ at[c] = "off"
  BY StartAssumption DEF Init
<1>1. ClientTypeOK
  <2>1. <<>> \in Seq(Answer)
    OBVIOUS
  <2> QED BY <2>1 DEF Init, ClientTypeOK
<1>2. RepliesTrue
  BY <1>0 DEF RepliesTrue
<1>3. AnswersTrue
  BY <1>0 DEF AnswersTrue
<1>4. DumpProgress
  BY <1>0 DEF DumpProgress
<1>5. OutputComplete
  BY <1>0 DEF OutputComplete
<1> QED BY <1>1, <1>2, <1>3, <1>4, <1>5 DEF ClientInv

(***************************************************************************)
(* What a client has been told is kept by any step that takes no answer    *)
(* and ends no client well.                                                *)
(***************************************************************************)
LEMMA RecordsKept ==
  ASSUME AnswersTrue, DumpProgress, OutputComplete, UNCHANGED <<args, left, answers>>,
         \A c \in Invocations : Role(c) \in {"list", "dump"} => (exit'[c] = 0 <=> exit[c] = 0)
  PROVE  AnswersTrue' /\ DumpProgress' /\ OutputComplete'
<1>0. \A p \in Invocations : Role(p)' = Role(p)
  BY RoleKept
<1>1. AnswersTrue'
  BY DEF AnswersTrue
<1>2. DumpProgress'
  BY <1>0 DEF DumpProgress
<1>3. OutputComplete'
  BY <1>0 DEF OutputComplete
<1> QED BY <1>1, <1>2, <1>3

(***************************************************************************)
(* A step that no client takes an answer, a connection or its end with.    *)
(***************************************************************************)
LEMMA ClientsUntouched ==
  ASSUME ClientInv, UNCHANGED <<conn, reply, left, answers, args>>,
         \A c \in Invocations : at'[c] = "read" <=> at[c] = "read",
         \A c \in Invocations : Role(c) \in {"list", "dump"} => exit'[c] = exit[c]
  PROVE  ClientInv'
<1>1. ClientTypeOK'
  BY DEF ClientInv, ClientTypeOK
<1>2. RepliesTrue'
  BY DEF ClientInv, RepliesTrue
<1> QED BY <1>1, <1>2, RecordsKept DEF ClientInv

(***************************************************************************)
(* `connect`, and a client whose timer fires or whose listing is no good:  *)
(* it reads nothing yet, or no more.                                       *)
(***************************************************************************)
LEMMA ConnectInv ==
  ASSUME ServerInv, ClientInv, NEW c \in Invocations, Connect(c) \/ TimeOut(c) \/ FindNoTraceId(c)
  PROVE  ClientInv'
<1>0. /\ UNCHANGED <<args, seeded, reply, left, answers>>
      /\ None \notin Invocations \cup Others \cup Nat
  BY StartAssumption DEF Connect, TimeOut, FindNoTraceId, serverVars, clientVars
<1>1. /\ at \in [Invocations -> Points] /\ exit \in [Invocations -> {None, 0, 1, 2, 101, 130}]
      /\ conn \in [Invocations -> Invocations \cup Others \cup {None}]
      /\ holder["5317"] \in Invocations \cup Others \cup {None}
      /\ exit[c] = None
  BY DEF ServerInv, ClientInv, TypeOK, Stages, ClientTypeOK, Connect, TimeOut, FindNoTraceId,
         Waiting, Ports
<1>2. reply[c] = None
  BY DEF ClientInv, RepliesTrue, Connect, TimeOut, FindNoTraceId, Waiting
<1>3. \/ /\ at' = [at EXCEPT ![c] = "read"] /\ UNCHANGED exit
         /\ conn' = [conn EXCEPT ![c] = holder["5317"]] /\ holder["5317"] # None
      \/ /\ at' = [at EXCEPT ![c] = "ended"] /\ exit' = [exit EXCEPT ![c] = 1]
         /\ conn' = conn \/ conn' = [conn EXCEPT ![c] = None]
  BY DEF Connect, TimeOut, FindNoTraceId, Exit, Goto, clientVars
<1>4. ClientTypeOK'
  BY <1>0, <1>1, <1>3 DEF ClientInv, ClientTypeOK
<1>5. RepliesTrue'
  <2>1. \A d \in Invocations : d # c => at'[d] = at[d] /\ conn'[d] = conn[d]
    BY <1>1, <1>3
  <2>2. at'[c] = "read" => conn'[c] # None
    BY <1>1, <1>3
  <2> QED BY <2>1, <2>2, <1>0, <1>2 DEF ClientInv, RepliesTrue
<1>6. \A d \in Invocations : exit'[d] = 0 <=> exit[d] = 0
  BY <1>0, <1>1, <1>3
<1> QED BY <1>0, <1>4, <1>5, <1>6, RecordsKept DEF ClientInv

(***************************************************************************)
(* Something comes back to a client that waits.                            *)
(***************************************************************************)
LEMMA ReceiveInv ==
  ASSUME ClientInv, NEW c \in Invocations, NEW r \in Reply, Waiting(c), Receive(c, r),
         r.json => ~r.cut,
         r.json /\ conn[c] \in Invocations /\ args[conn[c]].demo => r.seeded
  PROVE  ClientInv'
<1>0. /\ UNCHANGED <<at, exit, args, seeded, conn, left, answers>>
      /\ reply' = [reply EXCEPT ![c] = r] /\ at[c] = "read"
      /\ reply \in [Invocations -> Reply \cup {None}]
  BY DEF Receive, Waiting, serverVars, ClientInv, ClientTypeOK
<1>1. ClientTypeOK'
  BY <1>0 DEF ClientInv, ClientTypeOK
<1>2. RepliesTrue'
  <2>1. \A d \in Invocations : reply'[d] = IF d = c THEN r ELSE reply[d]
    BY <1>0
  <2> QED BY <2>1, <1>0 DEF ClientInv, RepliesTrue
<1> QED BY <1>0, <1>1, <1>2, RecordsKept DEF ClientInv

(***************************************************************************)
(* A server that serves answers in full and from its seeded store; one     *)
(* that ends leaves a part that is no JSON; another program answers        *)
(* anything.                                                               *)
(***************************************************************************)
LEMMA RespondInv ==
  ASSUME ServerInv, ClientInv, NEW c \in Invocations,
         Respond(c) \/ LosePeer(c) \/ OtherResponds(c)
  PROVE  ClientInv'
<1>0. None \notin Invocations \cup Others \cup Nat /\ Invocations \cap Others = {} /\ MaxRows \in Nat
  BY StartAssumption
<1>1. CASE Respond(c)
  <2>1. PICK found \in BOOLEAN, n \in 0..MaxRows :
          Receive(c, [closed |-> TRUE, headers |-> TRUE, ok |-> found, json |-> found,
                      rows |-> IF Asks(c) = "traces" THEN n ELSE None, cut |-> FALSE,
                      seeded |-> conn[c] \in seeded])
    BY <1>1 DEF Respond
  <2> DEFINE known == conn[c] \in seeded
             r     == [closed |-> TRUE, headers |-> TRUE, ok |-> found, json |-> found,
                       rows |-> IF Asks(c) = "traces" THEN n ELSE None, cut |-> FALSE,
                       seeded |-> known]
  <2>2. Receive(c, r)
    BY <2>1, Zenon
  <2>3. known \in BOOLEAN
    OBVIOUS
  <2>4. Waiting(c) /\ conn[c] \in Invocations /\ at[conn[c]] = "serve"
    BY <1>1 DEF Respond, Serving
  <2>5. args[conn[c]].demo => known
    BY <2>4 DEF ServerInv, Stages
  <2> HIDE DEF known
  <2>6. r \in Reply /\ ~r.cut /\ (known => r.seeded)
    BY <1>0, <2>3 DEF Reply
  <2> HIDE DEF r
  <2> QED BY <2>2, <2>4, <2>5, <2>6, ReceiveInv
<1>2. CASE LosePeer(c)
  <2>1. PICK closed \in BOOLEAN, headers \in BOOLEAN :
          Receive(c, [closed |-> closed, headers |-> headers, ok |-> headers, json |-> FALSE,
                      rows |-> None, cut |-> TRUE, seeded |-> FALSE])
    BY <1>2 DEF LosePeer
  <2> DEFINE r == [closed |-> closed, headers |-> headers, ok |-> headers, json |-> FALSE,
                   rows |-> None, cut |-> TRUE, seeded |-> FALSE]
  <2>2. r \in Reply /\ ~r.json
    BY DEF Reply
  <2>3. Waiting(c) /\ Receive(c, r)
    BY <1>2, <2>1 DEF LosePeer
  <2> HIDE DEF r
  <2> QED BY <2>2, <2>3, ReceiveInv
<1>3. CASE OtherResponds(c)
  <2>1. PICK r \in Reply : ~r.cut /\ Receive(c, r)
    BY <1>3 DEF OtherResponds
  <2>2. Waiting(c) /\ conn[c] \notin Invocations
    BY <1>0, <1>3 DEF OtherResponds
  <2> QED BY <2>1, <2>2, ReceiveInv
<1> QED BY <1>1, <1>2, <1>3

(***************************************************************************)
(* An answer that is good is added to what the client has; the first that  *)
(* is not ends it.  `list` is done with its listing, a dump with the       *)
(* receiver's state, which it asks for when no trace is left.              *)
(***************************************************************************)
LEMMA TakeAnswerInv ==
  ASSUME ServerInv, ClientInv, NEW c \in Invocations, TakeAnswer(c)
  PROVE  ClientInv'
<1> DEFINE r    == reply[c]
           good == Parses(r) /\ (Asks(c) = "traces" => r.rows # None)
           last == Role(c) = "list" \/ Asks(c) = "receiver"
           ans  == [from |-> conn[c], to |-> Asks(c), cut |-> r.cut,
                    rows |-> r.rows, seeded |-> r.seeded]
<1>0. /\ UNCHANGED <<args, seeded>> /\ at[c] = "read" /\ r # None
      /\ conn' = [conn EXCEPT ![c] = None] /\ reply' = [reply EXCEPT ![c] = None]
      /\ None \notin Invocations \cup Others \cup Nat /\ MaxRows \in Nat
  BY StartAssumption DEF TakeAnswer, serverVars
<1>1. /\ at \in [Invocations -> Points] /\ exit \in [Invocations -> {None, 0, 1, 2, 101, 130}]
      /\ conn \in [Invocations -> Invocations \cup Others \cup {None}]
      /\ reply \in [Invocations -> Reply \cup {None}]
      /\ left \in [Invocations -> Nat] /\ answers \in [Invocations -> Seq(Answer)]
      /\ AnswersTrue /\ DumpProgress /\ OutputComplete /\ RepliesTrue
  BY DEF ServerInv, ClientInv, TypeOK, ClientTypeOK
<1>2. /\ exit[c] = None /\ conn[c] # None /\ r \in Reply
      /\ \A d \in Invocations : Role(d)' = Role(d)
  BY <1>0, <1>1, RoleKept DEF ServerInv, Stages, RepliesTrue
<1>3. Asks(c) \in {"traces", "trace", "receiver"}
  BY DEF Asks
<1>4. /\ \A d \in Invocations : d # c => at'[d] = at[d] /\ exit'[d] = exit[d]
      /\ at'[c] \in {"ended", "connect"}
  <2>1. Exit(c, 0) \/ Exit(c, 1) \/ Goto(c, "connect")
    BY DEF TakeAnswer
  <2> QED BY <2>1, <1>1 DEF Exit, Goto
<1>5. RepliesTrue'
  <2>1. \A d \in Invocations : d # c => conn'[d] = conn[d] /\ reply'[d] = reply[d]
    BY <1>0, <1>1
  <2>2. reply'[c] = None
    BY <1>0, <1>1
  <2> QED BY <2>1, <2>2, <1>0, <1>1, <1>4 DEF RepliesTrue
<1>6. CASE ~good
  <2>1. Exit(c, 1) /\ UNCHANGED <<answers, left>>
    BY <1>6 DEF TakeAnswer
  <2>2. \A d \in Invocations : exit'[d] = 0 <=> exit[d] = 0
    BY <2>1, <1>0, <1>1, <1>2 DEF Exit
  <2>3. ClientTypeOK'
    BY <2>1, <1>0, <1>1 DEF ClientTypeOK
  <2> QED BY <2>1, <2>2, <2>3, <1>0, <1>1, <1>5, RecordsKept DEF ClientInv
<1>7. CASE good
  <2>1. answers' = [answers EXCEPT ![c] = Append(answers[c], ans)]
    BY <1>7 DEF TakeAnswer
  <2>2. IF last THEN Exit(c, 0) ELSE Goto(c, "connect")
    BY <1>7 DEF TakeAnswer
  <2>3. /\ Asks(c) = "traces" => left' = [left EXCEPT ![c] = r.rows]
        /\ Asks(c) = "trace" => left' = [left EXCEPT ![c] = left[c] - 1]
        /\ Asks(c) = "receiver" => left' = left
    BY <1>7 DEF TakeAnswer
  <2>4. /\ r.json /\ ~r.cut
        /\ conn[c] \in Invocations /\ args[conn[c]].demo => r.seeded
    BY <1>0, <1>1, <1>7 DEF Parses, RepliesTrue
  <2>5. Asks(c) = "traces" => r.rows \in Nat
    BY <1>0, <1>2, <1>7 DEF Reply
  <2>6. /\ Asks(c) = "traces" => answers[c] = <<>>
        /\ Asks(c) = "trace" => answers[c] # <<>> /\ left[c] > 0
        /\ Asks(c) = "receiver" => answers[c] # <<>> /\ left[c] = 0
    BY <1>1 DEF Asks
  <2>7. ans \in Answer
    BY <1>1, <1>2, <1>3 DEF Answer, Reply
  <2>8. /\ ans.from = conn[c] /\ ans.to = Asks(c) /\ ans.cut = r.cut /\ ans.rows = r.rows
        /\ ans.seeded = r.seeded
    OBVIOUS
  <2> HIDE DEF ans
  <2>9. /\ Len(answers'[c]) = Len(answers[c]) + 1 /\ Len(answers[c]) \in Nat
        /\ \A i \in 1..Len(answers[c]) : answers'[c][i] = answers[c][i]
        /\ answers'[c][Len(answers[c]) + 1] = ans
        /\ answers'[c] \in Seq(Answer) /\ answers'[c] # <<>>
    <3>1. answers'[c] = Append(answers[c], ans) /\ answers[c] \in Seq(Answer)
      BY <2>1, <1>1
    <3> QED BY <3>1, <2>7
  <2>10. \A d \in Invocations : d # c => answers'[d] = answers[d] /\ left'[d] = left[d]
    BY <2>1, <2>3, <1>1, <1>3
  <2>11. /\ Asks(c) = "traces" => left'[c] = r.rows
         /\ Asks(c) = "trace" => left'[c] = left[c] - 1
         /\ Asks(c) = "receiver" => left'[c] = left[c]
    BY <2>3, <1>1
  <2>12. ClientTypeOK'
    <3>1. answers' \in [Invocations -> Seq(Answer)]
      BY <2>1, <2>7, <1>1
    <3>2. left' \in [Invocations -> Nat]
      BY <2>3, <2>5, <2>6, <1>1, <1>3
    <3> QED BY <3>1, <3>2, <1>0, <1>1 DEF ClientTypeOK
  <2>13. AnswersTrue'
    <3> SUFFICES ASSUME NEW d \in Invocations, NEW i \in 1..Len(answers'[d])
                 PROVE  /\ ~answers'[d][i].cut
                        /\ answers'[d][i].from \in Invocations /\ args[answers'[d][i].from].demo
                             => answers'[d][i].seeded
      BY <1>0 DEF AnswersTrue
    <3>1. CASE d # c
      BY <3>1, <2>10, <1>1 DEF AnswersTrue
    <3>2. CASE d = c /\ i \in 1..Len(answers[c])
      BY <3>2, <2>9, <1>1 DEF AnswersTrue
    <3>3. CASE d = c /\ i = Len(answers[c]) + 1
      <4>1. answers'[d][i] = ans
        BY <3>3, <2>9
      <4> QED BY <4>1, <2>4, <2>8
    <3> QED BY <3>1, <3>2, <3>3, <2>9
  <2>14. exit'[c] = (IF last THEN 0 ELSE None)
    BY <2>2, <1>1, <1>2 DEF Exit, Goto
  <2>15. DumpProgress'
    <3> SUFFICES ASSUME NEW d \in Invocations, Role(d) = "dump", exit'[d] # 0
                 PROVE  IF answers'[d] = <<>> THEN left'[d] = 0
                        ELSE /\ answers'[d][1].rows \in Nat
                             /\ Len(answers'[d]) + left'[d] = 1 + answers'[d][1].rows
                             /\ \A i \in 2..Len(answers'[d]) : answers'[d][i].to = "trace"
      BY <1>2 DEF DumpProgress
    <3>1. CASE d # c
      BY <3>1, <2>10, <1>1, <1>4 DEF DumpProgress
    <3>2. CASE d = c /\ Asks(c) = "traces"
      <4>1. Len(answers[c]) = 0
        BY <3>2, <2>6
      <4> QED BY <4>1, <3>2, <2>5, <2>8, <2>9, <2>11
    <3>3. CASE d = c /\ Asks(c) = "trace"
      <4>1. Len(answers[c]) > 0
        BY <3>3, <2>6, <2>9, <1>1
      <4>2. /\ answers[c][1].rows \in Nat
            /\ Len(answers[c]) + left[c] = 1 + answers[c][1].rows
            /\ \A i \in 2..Len(answers[c]) : answers[c][i].to = "trace"
        BY <3>3, <2>6, <1>0, <1>1, <1>2 DEF DumpProgress
      <4>3. answers'[c][1] = answers[c][1]
        BY <4>1, <2>9
      <4>4. \A i \in 2..Len(answers'[c]) : answers'[c][i].to = "trace"
        BY <4>1, <4>2, <3>3, <2>8, <2>9, SMTT(30)
      <4>5. left'[c] = left[c] - 1 /\ left[c] \in Nat
        BY <3>3, <2>11, <1>1
      <4>6. Len(answers'[c]) + left'[c] = 1 + answers'[c][1].rows
        <5>1. answers'[c][1].rows = answers[c][1].rows
          BY <4>3
        <5>2. ASSUME NEW k \in Nat, NEW l \in Nat, NEW n \in Nat, k + l = 1 + n
              PROVE  (k + 1) + (l - 1) = 1 + n
          BY <5>2
        <5>3. Len(answers[c]) \in Nat /\ Len(answers'[c]) = Len(answers[c]) + 1
          BY <2>9
        <5>4. (Len(answers[c]) + 1) + (left[c] - 1) = 1 + answers[c][1].rows
          BY <5>2, <5>3, <4>2, <4>5
        <5> QED BY ONLY <5>1, <5>3, <5>4, <4>5
      <4>7. answers'[c][1].rows \in Nat
        BY <4>2, <4>3
      <4> QED BY <4>4, <4>6, <4>7, <3>3, <2>9, Zenon
    <3> QED BY <3>1, <3>2, <3>3, <2>14, <1>3
  <2>16. OutputComplete'
    <3> SUFFICES ASSUME NEW d \in Invocations, exit'[d] = 0, Role(d) \in {"list", "dump"}
                 PROVE  /\ \A i \in 1..Len(answers'[d]) : ~answers'[d][i].cut
                        /\ Role(d) = "dump" =>
                             /\ Len(answers'[d]) = 2 + answers'[d][1].rows
                             /\ answers'[d][Len(answers'[d])].to = "receiver"
                             /\ \A i \in 2..(Len(answers'[d]) - 1) : answers'[d][i].to = "trace"
      BY <1>2 DEF OutputComplete
    <3>1. \A i \in 1..Len(answers'[d]) : ~answers'[d][i].cut
      BY <2>13 DEF AnswersTrue
    <3>2. CASE d # c
      BY <3>1, <3>2, <2>10, <1>1, <1>4 DEF OutputComplete
    <3>3. CASE d = c /\ Role(c) = "dump"
      <4>1. Asks(c) = "receiver"
        BY <3>3, <2>14, <1>0
      <4>2. /\ Len(answers[c]) > 0 /\ left[c] = 0
            /\ answers[c][1].rows \in Nat
            /\ Len(answers[c]) + left[c] = 1 + answers[c][1].rows
            /\ \A i \in 2..Len(answers[c]) : answers[c][i].to = "trace"
        BY <3>3, <4>1, <2>6, <2>9, <1>0, <1>1, <1>2 DEF DumpProgress
      <4>3. answers'[c][1] = answers[c][1]
        BY <4>2, <2>9
      <4>4. answers'[c][Len(answers'[c])].to = "receiver"
        BY <4>1, <2>8, <2>9
      <4>5. \A i \in 2..(Len(answers'[c]) - 1) : answers'[c][i].to = "trace"
        BY <4>2, <2>9, SMTT(30)
      <4> QED BY <3>1, <4>2, <4>3, <4>4, <4>5, <3>3, <2>9, SMTT(30)
    <3> QED BY <3>1, <3>2, <3>3
  <2> QED BY <2>12, <2>13, <2>15, <2>16, <1>5 DEF ClientInv
<1> QED BY <1>6, <1>7

(***************************************************************************)
(* Every step of any process keeps what the clients know true.             *)
(***************************************************************************)
LEMMA ClientNext == ASSUME ServerInv, ClientInv, [Next]_vars PROVE ClientInv'
<1>0. /\ at \in [Invocations -> Points] /\ exit \in [Invocations -> {None, 0, 1, 2, 101, 130}]
      /\ Stages
  BY DEF ServerInv, TypeOK
<1>1. CASE UNCHANGED vars
  <2>1. UNCHANGED <<at, exit, args, seeded, clientVars>>
    BY <1>1 DEF vars, serverVars
  <2> QED BY <2>1, ClientsUntouched DEF clientVars
<1>2. ASSUME NEW p \in Invocations, Launch(p) PROVE ClientInv'
  <2>1. /\ at[p] = "off" /\ UNCHANGED <<args, seeded, clientVars>>
        /\ \/ Exit(p, 2) /\ Role(p) = "usage"
           \/ Goto(p, "bind")
           \/ Goto(p, "connect")
    BY <1>2 DEF Launch, serverVars
  <2>2. \A c \in Invocations : at'[c] = "read" <=> at[c] = "read"
    BY <2>1, <1>0 DEF Exit, Goto
  <2>3. \A c \in Invocations : Role(c) \in {"list", "dump"} => exit'[c] = exit[c]
    BY <2>1, <1>0 DEF Exit, Goto
  <2> QED BY <2>1, <2>2, <2>3, ClientsUntouched DEF clientVars
<1>3. ASSUME NEW p \in Invocations,
             ServerStep(p) \/ DescribeHolder(p) \/ FailBind(p) \/ Stop(p) \/ Kill(p)
      PROVE  ClientInv'
  <2>1. /\ UNCHANGED clientVars /\ UNCHANGED args
        /\ \/ UNCHANGED <<at, exit>>
           \/ /\ at[p] \notin {"connect", "read"} /\ Role(p) = "server"
              /\ \/ \E x \in ServerPoints : Goto(p, x)
                 \/ \E code \in {0, 1, 101, 130} : Exit(p, code)
    <3>0. /\ at[p] \in ServerPoints => Role(p) = "server"
          /\ at[p] \in {"connect", "read"} => Role(p) \in {"list", "dump"}
      BY <1>0 DEF Stages
    <3>1. CASE \E port \in Ports : BindPort(p, port)
      BY <3>1 DEF BindPort
    <3>2. CASE FindPortTaken(p)
      BY <3>0, <3>2 DEF FindPortTaken, serverVars, ServerPoints
    <3>3. CASE DescribeHolder(p)
      BY <3>0, <3>3 DEF DescribeHolder, ServerPoints
    <3>4. CASE PrintBanner(p)
      BY <3>0, <3>4 DEF PrintBanner, ServerPoints
    <3>5. CASE SeedAndServe(p)
      BY <3>0, <3>5 DEF SeedAndServe, ServerPoints
    <3>6. CASE FailBind(p)
      BY <3>0, <3>6 DEF FailBind, ServerPoints
    <3>7. CASE Stop(p)
      BY <3>0, <3>7 DEF Stop, ServerPoints
    <3>8. CASE Kill(p)
      BY <3>0, <3>8 DEF Kill
    <3> QED BY <1>3, <3>1, <3>2, <3>3, <3>4, <3>5, <3>6, <3>7, <3>8 DEF ServerStep
  <2>2. \A c \in Invocations : at'[c] = "read" <=> at[c] = "read"
    BY <2>1, <1>0 DEF Exit, Goto, ServerPoints
  <2>3. \A c \in Invocations : Role(c) \in {"list", "dump"} => exit'[c] = exit[c]
    BY <2>1, <1>0 DEF Exit, Goto
  <2> QED BY <2>1, <2>2, <2>3, ClientsUntouched DEF clientVars
<1>4. ASSUME NEW o \in Others, OtherEnds(o) \/ \E port \in Ports : OtherBinds(o, port)
      PROVE  ClientInv'
  <2>1. UNCHANGED <<at, exit, args, seeded, clientVars>>
    BY <1>4 DEF OtherEnds, OtherBinds
  <2> QED BY <2>1, ClientsUntouched DEF clientVars
<1>5. ASSUME NEW c \in Invocations, ReadSome(c) \/ OtherTrickles(c) PROVE ClientInv'
  <2>1. UNCHANGED <<at, exit, args, conn, reply, left, answers>>
    BY <1>5 DEF ReadSome, OtherTrickles, serverVars
  <2> QED BY <2>1, ClientsUntouched
<1> QED BY <1>1, <1>2, <1>3, <1>4, <1>5, ConnectInv, RespondInv, TakeAnswerInv DEF Next, ClientStep

(***************************************************************************)
(* Both halves hold in every reachable state.                              *)
(***************************************************************************)
LEMMA StartInductive == Spec => [](ServerInv /\ ClientInv)
<1>1. Init => ServerInv /\ ClientInv
  BY ServerInit, ClientInit
<1>2. ServerInv /\ ClientInv /\ [Next]_vars => (ServerInv /\ ClientInv)'
  BY ServerNext, ClientNext
<1> QED BY <1>1, <1>2, PTL DEF Spec

-----------------------------------------------------------------------------

(***************************************************************************)
(* No banner that is not true: a server of `run_server` that printed       *)
(* "Listening" holds its three ports for as long as it runs.               *)
(***************************************************************************)
THEOREM BannerStaysTrue == Spec => []BannerTrue
<1>1. ServerInv => BannerTrue
  <2> SUFFICES ASSUME ServerInv, NEW p \in banner, Running(p) PROVE Held(p) = Ports
    BY DEF BannerTrue
  <2>1. p \in Invocations /\ Listening(p)
    BY DEF ServerInv, TypeOK, Stages, Running
  <2>2. holder["5317"] = p /\ holder["4318"] = p /\ holder["4317"] = p
    BY <2>1 DEF ServerInv, PortsInOrder
  <2> QED BY <2>2 DEF Held, Ports
<1> QED BY <1>1, StartInductive, PTL

(***************************************************************************)
(* Servers of `bind_or_exit` started together do not all give up: with     *)
(* nothing else involved, one listens or is still binding.                 *)
(***************************************************************************)
THEOREM OneServerSurvives == Spec => []OneOfUsListens
<1>1. ServerInv => OneOfUsListens
  <2> SUFFICES ASSUME ServerInv, NEW p \in Servers, exit[p] = 1, ~interfered, banner = {}
               PROVE  \E q \in Servers : at[q] = "bind"
    BY DEF OneOfUsListens
  <2>1. p \in Invocations /\ GaveUp(p)
    BY DEF Servers, GaveUp
  <2>2. Winner
    BY <2>1 DEF ServerInv, FirstPortDecides
  <2>3. PICK q \in Invocations : at[q] = "bind"
    BY <2>2 DEF Winner
  <2>4. q \in Servers
    BY <2>3 DEF ServerInv, Stages, Servers, ServerPoints
  <2> QED BY <2>3, <2>4
<1> QED BY <1>1, StartInductive, PTL

(***************************************************************************)
(* Whatever a client takes from a server with --demo comes from a seeded   *)
(* store, though it may have connected before the seeding.                 *)
(***************************************************************************)
THEOREM AnswersComeSeeded == Spec => []AnswersSeeded
<1>1. ClientInv => AnswersSeeded
  BY DEF ClientInv, AnswersTrue, AnswersSeeded, Servers
<1> QED BY <1>1, StartInductive, PTL

(***************************************************************************)
(* What `print_list` and `fetch_dump` end with on success is whole.        *)
(***************************************************************************)
THEOREM PrintedIsWhole == Spec => []OutputComplete
<1>1. ClientInv => OutputComplete
  BY DEF ClientInv
<1> QED BY <1>1, StartInductive, PTL
=============================================================================
