------------------------------- MODULE Start --------------------------------
(***************************************************************************)
(* main.rs, cli.rs, port_conflict.rs, client.rs and the control of dump.rs:*)
(* invocations of the program on one machine.  A server binds three fixed  *)
(* ports one after the other, prints its banner, seeds its store and then  *)
(* serves; `list` and `--dump` are clients of whoever holds the API port,  *)
(* one connection per GET.  Between any two of these steps another         *)
(* invocation, or a program that is not ours, may take or leave a port.    *)
(*                                                                         *)
(* The kernel accepts connections for a port from the moment it is bound,  *)
(* and ends them when their process does.                                  *)
(***************************************************************************)
EXTENDS Naturals, Sequences

CONSTANTS
  Invocations,   \* runs of the program
  Arguments,     \* the flags they may be given: a set of functions on Invocations
  Others,        \* programs that are not ours
  MaxRows,       \* bound on the traces a listing has, for model checking
  None

Ports == {"4317", "4318", "5317"}

ASSUME StartAssumption ==
  /\ Arguments \subseteq [Invocations -> [dump : BOOLEAN, list : BOOLEAN, demo : BOOLEAN]]
  /\ Invocations \cap Others = {} /\ None \notin Invocations \cup Others \cup Nat
  /\ MaxRows \in Nat

VARIABLES
  args,        \* the flags of each invocation
  at,          \* where each invocation is
  exit,        \* the code it ended with, None before that
  holder,      \* who is bound to each port, None when it is free
  banner,      \* invocations that printed "Listening"
  seeded,      \* invocations whose store holds the demo traces
  conn,        \* the process a client is connected to
  arrived,     \* clients with bytes on their connection that no read has returned yet
  reply,       \* what has come back on the connection, None before the end of it
  left,        \* traces a dump has listed and not fetched
  answers,     \* the answers a client has taken
  interfered   \* history: a server was stopped or kept out by something other than a server

serverVars == <<args, holder, banner, seeded, interfered>>
clientVars == <<conn, arrived, reply, left, answers>>
vars == <<at, exit, serverVars, clientVars>>

Init ==
  /\ args \in Arguments
  /\ at = [p \in Invocations |-> "off"]
  /\ exit = [p \in Invocations |-> None]
  /\ holder = [port \in Ports |-> None]
  /\ banner = {}
  /\ seeded = {}
  /\ conn = [p \in Invocations |-> None]
  /\ arrived = {}
  /\ reply = [p \in Invocations |-> None]
  /\ left = [p \in Invocations |-> 0]
  /\ answers = [p \in Invocations |-> <<>>]
  /\ interfered = FALSE

Goto(p, point) == at' = [at EXCEPT ![p] = point] /\ UNCHANGED exit

Exit(p, code) == at' = [at EXCEPT ![p] = "ended"] /\ exit' = [exit EXCEPT ![p] = code]

\* A process that ends gives back every port it holds.
PortsFreed(p) == [port \in Ports |-> IF holder[port] = p THEN None ELSE holder[port]]

-----------------------------------------------------------------------------
(* `main`: which of its three jobs an invocation has, or a usage error.    *)

Role(p) ==
  LET a == args[p]
  IN  IF (a.dump /\ a.list) \/ (a.demo /\ (a.dump \/ a.list)) THEN "usage"
      ELSE IF a.dump THEN "dump"
      ELSE IF a.list THEN "list"
      ELSE "server"

Launch(p) ==
  /\ at[p] = "off"
  /\ CASE Role(p) = "usage"  -> Exit(p, 2)
       [] Role(p) = "server" -> Goto(p, "bind")
       [] OTHER              -> Goto(p, "connect")
  /\ UNCHANGED <<serverVars, clientVars>>

-----------------------------------------------------------------------------
(* `run_server` and `bind_or_exit`.                                        *)

Held(p) == {port \in Ports : holder[port] = p}

\* Mutant of Wanted: the three binds are joined, and any may come first.
WantedAny(p) == Ports \ Held(p)

\* The ports are bound in a fixed order.
Wanted(p) ==
  IF "4317" \notin Held(p) THEN {"4317"}
  ELSE IF "4318" \notin Held(p) THEN {"4318"}
  ELSE {"5317"} \ Held(p)

\* Mutant of Bound: the banner does not wait for the API port.
BoundIngestOnly(p) == {"4317", "4318"} \subseteq Held(p)

Bound(p) == Wanted(p) = {}

BindPort(p, port) ==
  /\ at[p] = "bind" /\ ~Bound(p) /\ port \in Wanted(p)
  /\ holder[port] = None
  /\ holder' = [holder EXCEPT ![port] = p]
  /\ UNCHANGED <<at, exit, args, banner, seeded, interfered, clientVars>>

\* AddrInUse: the process goes on to ask who it is.
FindPortTaken(p) ==
  /\ at[p] = "bind" /\ ~Bound(p)
  /\ \E port \in Wanted(p) : holder[port] # None
  /\ Goto(p, "lookup")
  /\ UNCHANGED <<serverVars, clientVars>>

\* Any other error of bind is a panic.
FailBind(p) ==
  /\ at[p] = "bind" /\ ~Bound(p)
  /\ Exit(p, 101)
  /\ holder' = PortsFreed(p)
  /\ interfered' = TRUE
  /\ UNCHANGED <<args, banner, seeded, clientVars>>

\* `describe_holder` asks lsof for whoever holds the port by now, and the message names it.
DescribeHolder(p) ==
  /\ at[p] = "lookup"
  /\ Exit(p, 1)
  /\ holder' = PortsFreed(p)
  /\ UNCHANGED <<args, banner, seeded, interfered, clientVars>>

PrintBanner(p) ==
  /\ at[p] = "bind" /\ Bound(p)
  /\ banner' = banner \cup {p}
  /\ Goto(p, "seed")
  /\ UNCHANGED <<args, holder, seeded, interfered, clientVars>>

\* The store is seeded and handed to the writer, then the listeners are served.
SeedAndServe(p) ==
  /\ at[p] = "seed"
  /\ seeded' = IF args[p].demo THEN seeded \cup {p} ELSE seeded
  /\ Goto(p, "serve")
  /\ UNCHANGED <<args, holder, banner, interfered, clientVars>>

\* `select!`: ctrl-c or the end of one of the three servers ends the process.
Stop(p) ==
  /\ at[p] = "serve"
  /\ Exit(p, 0)
  /\ holder' = PortsFreed(p)
  /\ UNCHANGED <<args, banner, seeded, interfered, clientVars>>

\* A signal before the process handles it, or one it cannot handle.
Kill(p) ==
  /\ Role(p) = "server" /\ at[p] \notin {"off", "ended"}
  /\ Exit(p, 130)
  /\ holder' = PortsFreed(p)
  /\ interfered' = TRUE
  /\ UNCHANGED <<args, banner, seeded, clientVars>>

OtherBinds(o, port) ==
  /\ holder[port] = None
  /\ holder' = [holder EXCEPT ![port] = o]
  /\ interfered' = TRUE
  /\ UNCHANGED <<at, exit, args, banner, seeded, clientVars>>

OtherEnds(o) ==
  /\ Held(o) # {}
  /\ holder' = PortsFreed(o)
  /\ UNCHANGED <<at, exit, args, banner, seeded, interfered, clientVars>>

-----------------------------------------------------------------------------
(* `get_json`: connect, send the request, read to the end, check.          *)

\* What a connection brought.  History: `cut`, the sender ended first, and `seeded`, its
\* store held the demo traces.
Reply == [closed : BOOLEAN, headers : BOOLEAN, ok : BOOLEAN, json : BOOLEAN,
          rows : 0..MaxRows \cup {None}, cut : BOOLEAN, seeded : BOOLEAN]

Connect(c) ==
  /\ at[c] = "connect"
  /\ IF holder["5317"] = None THEN Exit(c, 1) /\ UNCHANGED conn
     ELSE Goto(c, "read") /\ conn' = [conn EXCEPT ![c] = holder["5317"]]
  /\ UNCHANGED <<serverVars, arrived, reply, left, answers>>

Receive(c, r) ==
  /\ reply' = [reply EXCEPT ![c] = r]
  /\ arrived' = arrived \ {c}
  /\ UNCHANGED <<at, exit, serverVars, conn, left, answers>>

Waiting(c) == at[c] = "read" /\ reply[c] = None

Asks(c) ==
  CASE answers[c] = <<>> -> "traces"
    [] answers[c] # <<>> /\ left[c] > 0 -> "trace"
    [] OTHER -> "receiver"

\* Mutant of Serving: the listeners are served while the store is being seeded.
ServingWhileSeeding(p) == at[p] \in {"seed", "serve"}

Serving(p) == at[p] = "serve"

\* The server answers in full; a trace may be gone, which is a 404 with no body.
Respond(c) ==
  /\ Waiting(c) /\ conn[c] \in Invocations /\ Serving(conn[c])
  /\ \E found \in BOOLEAN, n \in 0..MaxRows :
       /\ Asks(c) # "trace" => found
       /\ Asks(c) # "traces" => n = 0
       /\ Receive(c, [closed |-> TRUE, headers |-> TRUE, ok |-> found, json |-> found,
                      rows |-> IF Asks(c) = "traces" THEN n ELSE None, cut |-> FALSE,
                      seeded |-> conn[c] \in seeded])

\* The server ends first: a reset, or a part of the answer (a part of a JSON array or
\* object is no JSON).
LosePeer(c) ==
  /\ Waiting(c) /\ conn[c] \in Invocations /\ at[conn[c]] = "ended"
  /\ \E closed, headers \in BOOLEAN :
       Receive(c, [closed |-> closed, headers |-> headers, ok |-> headers, json |-> FALSE,
                   rows |-> None, cut |-> TRUE, seeded |-> FALSE])

\* A program that is not ours answers as it likes, or not at all.
OtherResponds(c) ==
  /\ Waiting(c) /\ conn[c] \in Others
  /\ \E r \in Reply :
       /\ r.closed /\ ~r.cut /\ ~r.seeded
       /\ (r.ok \/ r.json => r.headers) /\ (r.rows # None => r.json)
       /\ Receive(c, r)

\* Or it sends a few bytes, now and then, and does not come to an end.
OtherTrickles(c) ==
  /\ Waiting(c) /\ conn[c] \in Others
  /\ arrived' = arrived \cup {c}
  /\ UNCHANGED <<at, exit, serverVars, conn, reply, left, answers>>

\* One turn of `read_to_end`.
ReadSome(c) ==
  /\ Waiting(c) /\ c \in arrived
  /\ arrived' = arrived \ {c}
  /\ UNCHANGED <<at, exit, serverVars, conn, reply, left, answers>>

\* Mutant of TimeOut: no read timeout is set.
TimeOutUnset(c) == FALSE

\* The timeout is that of a single read: it is over when anything arrives.
TimeOut(c) ==
  /\ Waiting(c) /\ c \notin arrived
  /\ Exit(c, 1)
  /\ conn' = [conn EXCEPT ![c] = None]
  /\ UNCHANGED <<serverVars, arrived, reply, left, answers>>

\* Mutant of Parses: the body is not parsed to its end.
ParsesPrefix(r) == r.closed /\ r.headers /\ r.ok

Parses(r) == r.closed /\ r.headers /\ r.ok /\ r.json

(***************************************************************************)
(* `traces`, `print_list` and `fetch_dump`: the first bad answer ends the  *)
(* client with an error; a listing is all that `list` needs; a dump goes   *)
(* on to each trace of it and then to the receiver.                        *)
(***************************************************************************)
TakeAnswer(c) ==
  /\ at[c] = "read" /\ reply[c] # None
  /\ LET r    == reply[c]
         good == Parses(r) /\ (Asks(c) = "traces" => r.rows # None)
         last == Role(c) = "list" \/ Asks(c) = "receiver"
     IN  /\ CASE ~good -> Exit(c, 1)
              [] good /\ last -> Exit(c, 0)
              [] OTHER -> Goto(c, "connect")
         /\ answers' = IF ~good THEN answers ELSE
              [answers EXCEPT ![c] =
                 Append(@, [from |-> conn[c], to |-> Asks(c), cut |-> r.cut,
                            rows |-> r.rows, seeded |-> r.seeded])]
         /\ left' = CASE good /\ Asks(c) = "traces" -> [left EXCEPT ![c] = r.rows]
                      [] good /\ Asks(c) = "trace"  -> [left EXCEPT ![c] = @ - 1]
                      [] OTHER -> left
  /\ conn' = [conn EXCEPT ![c] = None]
  /\ reply' = [reply EXCEPT ![c] = None]
  /\ UNCHANGED <<serverVars, arrived>>

\* `fetch_dump` comes to a row without a trace id, which only another program lists.
FindNoTraceId(c) ==
  /\ at[c] = "connect" /\ Asks(c) = "trace" /\ answers[c][1].from \in Others
  /\ Exit(c, 1)
  /\ UNCHANGED <<serverVars, clientVars>>

-----------------------------------------------------------------------------

ServerStep(p) ==
  \/ \E port \in Ports : BindPort(p, port)
  \/ FindPortTaken(p) \/ PrintBanner(p) \/ SeedAndServe(p)

ClientStep(c) ==
  Connect(c) \/ ReadSome(c) \/ TimeOut(c) \/ TakeAnswer(c) \/ FindNoTraceId(c)

Next ==
  \/ \E p \in Invocations :
       Launch(p) \/ ServerStep(p) \/ DescribeHolder(p) \/ FailBind(p) \/ Stop(p) \/ Kill(p)
  \/ \E c \in Invocations :
       ClientStep(c) \/ Respond(c) \/ LosePeer(c) \/ OtherResponds(c) \/ OtherTrickles(c)
  \/ \E o \in Others : OtherEnds(o) \/ \E port \in Ports : OtherBinds(o, port)

Spec == Init /\ [][Next]_vars

(***************************************************************************)
(* Our processes run and their timers fire.  Nothing is assumed of whoever *)
(* answers a client, of the programs that hold a port, nor of lsof.        *)
(***************************************************************************)
FairSpec == Spec /\ \A p \in Invocations : WF_vars(ServerStep(p)) /\ WF_vars(ClientStep(p))

-----------------------------------------------------------------------------

Servers == {p \in Invocations : Role(p) = "server"}
Running(p) == at[p] \notin {"off", "ended"}

(***************************************************************************)
(* The comment of `run_server`: no banner that is not true.  A server that *)
(* printed it holds its three ports for as long as it runs, whoever else   *)
(* starts in the meantime.                                                 *)
(***************************************************************************)
BannerTrue == \A p \in banner : Running(p) => Held(p) = Ports

(***************************************************************************)
(* Servers started together do not knock each other out: when one gave up  *)
(* over a port and only servers were involved, another got to listen or    *)
(* still can.                                                              *)
(***************************************************************************)
OneOfUsListens ==
  (\E p \in Servers : exit[p] = 1) /\ ~interfered
    => banner # {} \/ \E q \in Servers : at[q] = "bind"

(***************************************************************************)
(* A client that connects while a server starts waits for it: whatever a   *)
(* server with --demo answers comes from a seeded store.                   *)
(***************************************************************************)
AnswersSeeded ==
  \A c \in Invocations : \A i \in 1..Len(answers[c]) :
    answers[c][i].from \in Servers /\ args[answers[c][i].from].demo => answers[c][i].seeded

(***************************************************************************)
(* What `list` and `--dump` print on success is whole: no answer was cut   *)
(* off by a server that ended, and a dump holds the receiver's state and   *)
(* one answer for every trace its listing had, although another server     *)
(* may have taken over between two of them.                                *)
(***************************************************************************)
OutputComplete ==
  \A c \in Invocations : exit[c] = 0 /\ Role(c) \in {"list", "dump"} =>
    LET got == answers[c]
    IN  /\ \A i \in 1..Len(got) : ~got[i].cut
        /\ Role(c) = "dump" =>
             /\ Len(got) = 2 + got[1].rows
             /\ got[Len(got)].to = "receiver"
             /\ \A i \in 2..(Len(got) - 1) : got[i].to = "trace"

(***************************************************************************)
(* An invocation ends or gets to serve, whether or not anybody answers it, *)
(* on two conditions the code has no timeout for: the program it is        *)
(* connected to does not go on sending bytes for ever (each read has its   *)
(* own five seconds, the answer as a whole has no limit), and the lsof     *)
(* that names the holder of a port ends.                                   *)
(***************************************************************************)
EveryInvocationSettles ==
  \A p \in Invocations :
    <>[](p \notin arrived) /\ WF_vars(DescribeHolder(p))
      => (Running(p) ~> at[p] \in {"serve", "ended"})
=============================================================================
