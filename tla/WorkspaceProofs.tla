---------------------------- MODULE WorkspaceProofs ----------------------------
(***************************************************************************)
(* For every number of sockets, processes, commands and crashes, and every *)
(* working set: what a daemon that comes up alone serves, what a failed    *)
(* start leaves behind, and what a supervisor leaves and leaves alone.     *)
(***************************************************************************)
EXTENDS Workspace, TLAPS

-----------------------------------------------------------------------------
(* The inductive invariant of daemons and commands.                        *)

\* Past the probe that looks for another daemon, and not yet told to go.
Going == {"load", "exists", "remove", "bind", "startup", "loop", "acked"}

Unbound == {"off", "probe", "load", "exists", "remove", "bind"}

\* A socket file leads to a daemon that was given the socket and has bound it.
FilesBelong ==
  \A s \in Sockets : file[s] # None => at[file[s]] = s /\ pc[file[s]] \notin Unbound

\* Where nobody raced, at most one daemon is past its probe.
OneWithoutRace ==
  \A d, e \in Processes :
    pc[d] \in Going /\ pc[e] \in Going /\ at[d] = at[e] /\ at[d] \notin raced => d = e

CommandSet ==
  [command : {"none", "start", "interface", "stop"},
   step : {"idle", "probe", "wait", "ask", "late", "again", "connect", "asking"},
   socket : Sockets \cup {None}, config : Sockets \cup {None},
   child : Processes \cup {None}, tries : 0..Attempts,
   result : {"none", "running", "started", "attached", "failed", "nothing", "stopped"}]

\* A command under way has told nothing yet; what it waits for is a process.
CommandInv(c) ==
  /\ c.step # "idle" => c.socket \in Sockets /\ c.result = "none"
  /\ c.step \in {"wait", "ask", "late", "asking"} => c.child \in Processes /\ pc[c.child] # "off"
  /\ c.step = "probe" => c.config \in Sockets /\ c.tries = 0
  /\ c.step \in {"wait", "ask"} => c.tries < Attempts
  /\ c.step = "again" => c.command = "interface"
  /\ c.step \in {"probe", "wait", "ask", "late", "again"} => c.command \in {"start", "interface"}
  /\ c.step \in {"connect", "asking"} => c.command = "stop"

\* A command that reported a failed start has seen its child end, or ended it.
FailureSeen(c) ==
  c.command = "start" /\ c.result = "failed" => c.child \in Processes /\ pc[c.child] = "dead"

Places == Unbound \cup {"startup", "loop", "acked", "down", "dead"}

SocketTypes ==
  /\ pc \in [Processes -> Places]
  /\ file \in [Sockets -> Processes \cup {None}]
  /\ at \in [Processes -> Sockets \cup {None}] /\ serves \in [Processes -> Sockets \cup {None}]
  /\ \A d \in Processes : pc[d] # "off" => at[d] \in Sockets

SocketsInv == SocketTypes /\ FilesBelong /\ OneWithoutRace /\ ServesWhatItBound

DaemonsInv ==
  /\ TypeOK /\ SocketsInv
  /\ \A u \in Users : CommandInv(user[u]) /\ FailureSeen(user[u])

-----------------------------------------------------------------------------
(* The inductive invariant of the supervisor.                              *)
Steps == {"attach", "identify", "wait", "ask", "late", "serve", "forward", "broken",
          "detach", "asking", "vanish", "ended"}

MemberSet == [socket : Sockets, handle : Processes \cup {None}, adopted : BOOLEAN]

WorkspaceTypeOK ==
  /\ step \in Steps /\ next \in Nat \ {0} /\ child \in Processes \cup {None}
  /\ tries \in 0..Attempts /\ members \in Seq(MemberSet) /\ token \in [Sockets -> Tokens]
  /\ failures \subseteq Tokens /\ requests \in 0..MaxRequests
  /\ launched \subseteq Processes /\ adopted \subseteq Processes

\* What the step it is at says about the configuration or the member it has come to.
Position ==
  /\ step \in {"identify", "wait", "ask", "late"} => next <= Len(Order) /\ ~Attached(Order[next])
  /\ step \in {"wait", "ask"} => tries < Attempts
  /\ step \in {"wait", "ask", "late"} => child \in launched
  /\ step \in {"asking", "vanish"} => next <= Len(members) /\ ~members[next].adopted
  /\ step = "asking" => child \in Processes /\ pc[child] # "off"
                          /\ at[child] = members[next].socket

\* A configuration is attached once; the handle of a member is a child of the supervisor.
MembersInv ==
  /\ \A i, j \in DOMAIN members : members[i].socket = members[j].socket => i = j
  /\ \A i \in DOMAIN members : members[i].handle # None => members[i].handle \in launched

\* While members are taken down, those before next have been.
Ahead(i) == step \in {"detach", "asking", "vanish"} => next <= i

\* A child has ended, or is waited for, or belongs to a member that is still to be stopped.
Accounted(d) ==
  \/ pc[d] = "dead"
  \/ step \in {"wait", "ask", "late"} /\ child = d
  \/ step # "ended" /\ \E i \in DOMAIN members :
                         members[i].handle = d /\ ~members[i].adopted /\ Ahead(i)

\* What was adopted is the member of its socket.
AdoptedInv ==
  \A d \in adopted :
    pc[d] # "off" /\ \E i \in DOMAIN members : members[i].adopted /\ members[i].socket = at[d]

LaunchedInv == \A d \in launched : pc[d] # "off" /\ Accounted(d)

SupervisorInv == WorkspaceTypeOK /\ Position /\ MembersInv /\ AdoptedInv /\ LaunchedInv

IInv == DaemonsInv /\ SupervisorInv

-----------------------------------------------------------------------------
\* What another actor may do to the daemons: launch one, kill one, or have one acknowledge.
Touches == \/ \E d \in Processes, s \in Sockets, c \in Sockets : Launch(d, s, c)
           \/ \E d \in Processes : (pc[d] # "off" /\ Kill(d)) \/ Acknowledge(d)
           \/ UNCHANGED processes

\* A daemon keeps its socket, and does not come back.
Lasting ==
  \A d \in Processes : /\ pc[d] = "dead" => pc'[d] = "dead"
                       /\ pc[d] # "off" => pc'[d] # "off" /\ at'[d] = at[d]

(* What commands and supervisors do to a daemon disturbs nothing its sockets rest on.      *)
LEMMA TouchesKeepsSockets ==
  ASSUME SocketsInv, Touches, UNCHANGED sockets
  PROVE  SocketsInv' /\ Lasting
<1> USE DEF SocketsInv, sockets
<1>1. CASE \E d \in Processes, s \in Sockets, c \in Sockets : Launch(d, s, c)
  <2>1. PICK d \in Processes, s \in Sockets, c \in Sockets : Launch(d, s, c)
    BY <1>1
  <2>2. FilesBelong'
    BY <2>1 DEF Launch, FilesBelong, Unbound, SocketTypes
  <2>3. OneWithoutRace'
    BY <2>1 DEF Launch, OneWithoutRace, Going, SocketTypes
  <2>4. ServesWhatItBound'
    BY <2>1 DEF Launch, ServesWhatItBound, Running, SocketTypes
  <2>5. SocketTypes'
    BY <2>1 DEF Launch, SocketTypes, Places, Unbound
  <2>6. Lasting
    BY <2>1 DEF Launch, SocketTypes, Lasting
  <2> QED
    BY <2>2, <2>3, <2>4, <2>5, <2>6
<1>2. CASE \E d \in Processes : (pc[d] # "off" /\ Kill(d)) \/ Acknowledge(d)
  <2>1. PICK d \in Processes : (pc[d] # "off" /\ Kill(d)) \/ Acknowledge(d)
    BY <1>2
  <2>2. /\ at' = at /\ serves' = serves
        /\ \/ pc[d] # "off" /\ pc' = [pc EXCEPT ![d] = "dead"]
           \/ pc[d] \in {"loop", "acked"} /\ pc' = [pc EXCEPT ![d] = "acked"]
    BY <2>1 DEF Kill, Acknowledge, Move
  <2>3. FilesBelong'
    BY <2>2 DEF FilesBelong, Unbound, SocketTypes
  <2>4. OneWithoutRace'
    BY <2>2 DEF OneWithoutRace, Going, SocketTypes
  <2>5. ServesWhatItBound'
    BY <2>2 DEF ServesWhatItBound, Running, SocketTypes
  <2>6. Lasting
    BY <2>2 DEF SocketTypes, Lasting
  <2>7. pc' \in [Processes -> Places]
    BY <2>2 DEF SocketTypes, Places
  <2>8. SocketTypes'
    BY <2>2, <2>7 DEF SocketTypes
  <2> QED
    BY <2>3, <2>4, <2>5, <2>6, <2>8
<1>3. CASE UNCHANGED processes
  BY <1>3 DEF processes, FilesBelong, OneWithoutRace, ServesWhatItBound, Running, SocketTypes,
              Lasting
<1> QED
  BY <1>1, <1>2, <1>3 DEF Touches

(* A daemon's own step: it goes ahead unraced only where nobody else is past the probe, so *)
(* the file that it removes or binds is nobody else's.                                     *)
LEMMA DaemonStepKeepsSockets ==
  ASSUME SocketsInv, NEW d \in Processes, Daemon(d) \/ Crash(d)
  PROVE  SocketsInv' /\ Lasting
<1> USE DEF SocketsInv, sockets, Move
<1>1. CASE ProbeSocket(d) /\ pc' = [pc EXCEPT ![d] = "load"]
  <2>1. /\ pc[d] = "probe" /\ UNCHANGED <<at, serves, file>>
        /\ raced' = IF Others(d) = {} THEN raced ELSE raced \cup {at[d]}
    BY <1>1 DEF ProbeSocket, SocketTypes
  <2>2. SocketTypes' /\ Lasting
    BY <1>1, <2>1 DEF SocketTypes, Places, Unbound, Lasting
  <2>3. FilesBelong'
    BY <1>1, <2>1 DEF FilesBelong, Unbound, SocketTypes
  <2>4. OneWithoutRace'
    BY <1>1, <2>1 DEF OneWithoutRace, Going, SocketTypes, Others
  <2>5. ServesWhatItBound'
    BY <1>1, <2>1 DEF ServesWhatItBound, Running, SocketTypes
  <2> QED
    BY <2>2, <2>3, <2>4, <2>5
<1>2. CASE UNCHANGED <<sockets, at, serves>> /\ pc[d] # "off"
           /\ \/ pc' = [pc EXCEPT ![d] = "dead"]
              \/ pc[d] = "load" /\ pc' = [pc EXCEPT ![d] = "exists"]
              \/ pc[d] = "exists" /\ pc' = [pc EXCEPT ![d] = "bind"]
              \/ pc[d] = "exists" /\ pc' = [pc EXCEPT ![d] = "remove"]
              \/ pc[d] = "startup" /\ pc' = [pc EXCEPT ![d] = "loop"]
  <2>1. SocketTypes' /\ Lasting
    BY <1>2 DEF SocketTypes, Places, Unbound, Lasting
  <2>2. FilesBelong'
    BY <1>2 DEF FilesBelong, Unbound, SocketTypes
  <2>3. OneWithoutRace'
    BY <1>2 DEF OneWithoutRace, Going, SocketTypes
  <2>4. ServesWhatItBound'
    BY <1>2 DEF ServesWhatItBound, Running, SocketTypes
  <2> QED
    BY <2>1, <2>2, <2>3, <2>4
<1>3. CASE /\ UNCHANGED <<raced, at, serves>> /\ file' = [file EXCEPT ![at[d]] = None]
           /\ \/ pc[d] = "remove" /\ pc' = [pc EXCEPT ![d] = "dead"]
              \/ pc[d] = "remove" /\ pc' = [pc EXCEPT ![d] = "bind"]
              \/ pc[d] \in {"loop", "acked"} /\ pc' = [pc EXCEPT ![d] = "down"]
  <2>1. SocketTypes' /\ Lasting
    BY <1>3 DEF SocketTypes, Places, Unbound, Lasting
  <2>2. FilesBelong'
    BY <1>3 DEF FilesBelong, Unbound, SocketTypes
  <2>3. OneWithoutRace'
    BY <1>3 DEF OneWithoutRace, Going, SocketTypes
  <2>4. ASSUME NEW e \in Processes, Running(e)', at[e] \notin raced PROVE at[e] # at[d]
    BY <1>3, <2>4 DEF OneWithoutRace, Going, SocketTypes, Running
  <2>5. ServesWhatItBound'
    BY <1>3, <2>4 DEF ServesWhatItBound, Running, SocketTypes
  <2> QED
    BY <2>1, <2>2, <2>3, <2>5
<1>4. CASE /\ UNCHANGED <<raced, at, serves>> /\ file' = [file EXCEPT ![at[d]] = d]
           /\ pc[d] = "bind" /\ pc' = [pc EXCEPT ![d] = "startup"]
  <2>1. SocketTypes' /\ Lasting
    BY <1>4 DEF SocketTypes, Places, Unbound, Lasting
  <2>2. FilesBelong'
    BY <1>4 DEF FilesBelong, Unbound, SocketTypes
  <2>3. OneWithoutRace'
    BY <1>4 DEF OneWithoutRace, Going, SocketTypes
  <2>4. ASSUME NEW e \in Processes, Running(e)', at[e] \notin raced PROVE at[e] # at[d] \/ e = d
    BY <1>4, <2>4 DEF OneWithoutRace, Going, SocketTypes, Running
  <2>5. ServesWhatItBound'
    BY <1>4, <2>4 DEF ServesWhatItBound, Running, SocketTypes
  <2> QED
    BY <2>1, <2>2, <2>3, <2>5
<1>5. CASE Daemon(d)
  <2>1. ProbeSocket(d) => \/ pc' = [pc EXCEPT ![d] = "load"]
                          \/ /\ UNCHANGED <<sockets, at, serves>> /\ pc[d] # "off"
                             /\ pc' = [pc EXCEPT ![d] = "dead"]
    BY DEF ProbeSocket
  <2>2. Load(d) \/ LookForFile(d) \/ StartupEnds(d) \/ GoDown(d)
          => /\ UNCHANGED <<sockets, at, serves>> /\ pc[d] # "off"
             /\ \/ pc' = [pc EXCEPT ![d] = "dead"]
                \/ pc[d] = "load" /\ pc' = [pc EXCEPT ![d] = "exists"]
                \/ pc[d] = "exists" /\ pc' = [pc EXCEPT ![d] = "bind"]
                \/ pc[d] = "exists" /\ pc' = [pc EXCEPT ![d] = "remove"]
                \/ pc[d] = "startup" /\ pc' = [pc EXCEPT ![d] = "loop"]
    BY DEF Load, LookForFile, StartupEnds, GoDown
  <2> QED
    BY <1>1, <1>2, <1>3, <1>4, <1>5, <2>1, <2>2 DEF Daemon, RemoveFile, Bind, LeaveLoop
<1>6. CASE Crash(d)
  BY <1>2, <1>6 DEF Crash, Alive, In, SocketTypes
<1> QED
  BY <1>5, <1>6

-----------------------------------------------------------------------------
(* A command under way touches the daemons as any other actor would; what it tells its     *)
(* user at the end is what it has seen.                                                    *)
LEMMA CommandTouches ==
  ASSUME DaemonsInv, NEW u \in Users, Command(u) \/ BeginCommand(u)
  PROVE  Touches /\ UNCHANGED sockets
<1> USE DEF DaemonsInv, CommandInv, Touches
<1>1. CASE ProbeFirst(u)
  BY <1>1 DEF ProbeFirst, TypeOK
<1>2. CASE GiveUp(u)
  BY <1>2 DEF GiveUp
<1>3. CASE Stop(u)
  BY <1>3 DEF Stop
<1> QED
  BY <1>1, <1>2, <1>3 DEF Command, BeginCommand, WaitChild, AskReady, AskAgain, Connect

LEMMA OtherCommandsKeepTheirs ==
  ASSUME SocketsInv, Lasting, NEW u \in Users, CommandInv(user[u]), FailureSeen(user[u]),
         user'[u] = user[u]
  PROVE  CommandInv(user[u])' /\ FailureSeen(user[u])'
<1>1. CommandInv(user[u])'
  BY DEF CommandInv, Lasting
<1>2. FailureSeen(user[u])'
  BY DEF FailureSeen, Lasting
<1> QED
  BY <1>1, <1>2

Told == {"none", "running", "started", "attached", "failed", "nothing", "stopped"}

Replaces(u, c) == user' = [user EXCEPT ![u] = c]

(* A command that ends keeps what it was and what it waited for.                           *)
LEMMA EndingACommand ==
  ASSUME NEW u \in Users, user[u] \in CommandSet, NEW r \in Told, Ends(u, r)
  PROVE  \E c \in CommandSet :
           /\ Replaces(u, c) /\ c.step = "idle" /\ c.result = r
           /\ c.command = user[u].command /\ c.child = user[u].child
<1> DEFINE c == [user[u] EXCEPT !.step = "idle", !.result = r]
<1>1. Replaces(u, c)
  BY DEF Ends, Set, Replaces
<1>2. c \in CommandSet
  BY DEF CommandSet, Told
<1>3. /\ c.step = "idle" /\ c.result = r
      /\ c.command = user[u].command /\ c.child = user[u].child
  BY DEF CommandSet
<1> QED
  BY <1>1, <1>2, <1>3

Advances(u, to, d, n) ==
  Set(u, [user[u] EXCEPT !.step = to, !.child = d, !.tries = n])

(* What a command does not set it keeps.                                                   *)
LEMMA UnchangedFields ==
  ASSUME NEW c \in CommandSet, NEW to
  PROVE  /\ [c EXCEPT !.step = to] = [c EXCEPT !.step = to, !.child = c.child, !.tries = c.tries]
         /\ \A d : [c EXCEPT !.step = to, !.child = d]
                     = [c EXCEPT !.step = to, !.child = d, !.tries = c.tries]
         /\ \A n : [c EXCEPT !.tries = n, !.step = to]
                     = [c EXCEPT !.step = to, !.child = c.child, !.tries = n]
BY DEF CommandSet

LEMMA CommandKeepsItsOwn ==
  ASSUME DaemonsInv, NEW u \in Users, Command(u) \/ BeginCommand(u), Lasting
  PROVE  \E c \in CommandSet : Replaces(u, c) /\ CommandInv(c)' /\ FailureSeen(c)'
<1> DEFINE r == user[u]
<1>0. /\ r \in CommandSet /\ CommandInv(r) /\ FailureSeen(r) /\ SocketTypes
      /\ r.child \in Processes \cup {None} /\ r.tries \in 0..Attempts
      /\ r.socket \in Sockets \cup {None} /\ r.config \in Sockets \cup {None}
  BY DEF DaemonsInv, TypeOK, CommandSet, SocketsInv
<1>5. Idle \in CommandSet /\ Idle.result = "none" /\ Idle.tries = 0
  BY DaemonsAssumption DEF CommandSet, Idle
<1>1. CASE BeginCommand(u)
  <2>1. PICK s \in Sockets, c \in Sockets :
          \/ \E k \in {"start", "interface"} :
               Set(u, [Idle EXCEPT !.command = k, !.step = "probe", !.socket = s, !.config = c])
          \/ Set(u, [Idle EXCEPT !.command = "stop", !.step = "connect", !.socket = s])
    BY <1>1 DEF BeginCommand
  <2>2. ASSUME NEW k \in {"start", "interface"},
               Set(u, [Idle EXCEPT !.command = k, !.step = "probe", !.socket = s, !.config = c])
        PROVE  \E n \in CommandSet : Replaces(u, n) /\ CommandInv(n)' /\ FailureSeen(n)'
    <3> DEFINE n == [Idle EXCEPT !.command = k, !.step = "probe", !.socket = s, !.config = c]
    <3>1. Replaces(u, n)
      BY <2>2 DEF Set, Replaces
    <3>2. n \in CommandSet
      BY <1>5 DEF CommandSet
    <3>3. n.command = k /\ n.step = "probe" /\ n.socket = s /\ n.config = c /\ n.tries = 0 /\ n.result = "none"
      BY <1>5 DEF CommandSet
    <3> HIDE DEF n
    <3>4. CommandInv(n)' /\ FailureSeen(n)'
      BY <3>3 DEF CommandInv, FailureSeen
    <3> QED
      BY <3>1, <3>2, <3>4
  <2>3. ASSUME Set(u, [Idle EXCEPT !.command = "stop", !.step = "connect", !.socket = s])
        PROVE  \E n \in CommandSet : Replaces(u, n) /\ CommandInv(n)' /\ FailureSeen(n)'
    <3> DEFINE n == [Idle EXCEPT !.command = "stop", !.step = "connect", !.socket = s]
    <3>1. Replaces(u, n)
      BY <2>3 DEF Set, Replaces
    <3>2. n \in CommandSet
      BY <1>5 DEF CommandSet
    <3>3. n.command = "stop" /\ n.step = "connect" /\ n.socket = s /\ n.result = "none"
      BY <1>5 DEF CommandSet
    <3> HIDE DEF n
    <3>4. CommandInv(n)' /\ FailureSeen(n)'
      BY <3>3 DEF CommandInv, FailureSeen
    <3> QED
      BY <3>1, <3>2, <3>4
  <2> QED
    BY <2>1, <2>2, <2>3
<1>2. ASSUME NEW t \in Told, Ends(u, t),
             t = "failed" /\ r.command = "start" => r.child \in Processes /\ pc'[r.child] = "dead"
      PROVE  \E c \in CommandSet : Replaces(u, c) /\ CommandInv(c)' /\ FailureSeen(c)'
  BY <1>0, <1>2, EndingACommand DEF CommandInv, FailureSeen
<1>3. ASSUME NEW to \in {"wait", "ask", "late", "again", "asking"},
             NEW d \in Processes \cup {None}, NEW n \in 0..Attempts,
             Advances(u, to, d, n), r.step # "idle",
             to \in {"wait", "ask", "late", "asking"} => d \in Processes /\ pc'[d] # "off",
             to \in {"wait", "ask"} => n < Attempts,
             to = "again" => r.command = "interface",
             IF to = "asking" THEN r.command = "stop" ELSE r.command \in {"start", "interface"}
      PROVE  \E c \in CommandSet : Replaces(u, c) /\ CommandInv(c)' /\ FailureSeen(c)'
  <2>0. to \in {"idle", "probe", "wait", "ask", "late", "again", "connect", "asking"}
    OBVIOUS
  <2>1. PICK c \in CommandSet : /\ c = [r EXCEPT !.step = to, !.child = d, !.tries = n]
                               /\ c.step = to /\ c.child = d /\ c.tries = n
                               /\ c.command = r.command /\ c.result = r.result
                               /\ c.socket = r.socket /\ c.config = r.config
    <3> DEFINE k == [r EXCEPT !.step = to, !.child = d, !.tries = n]
    <3>1. k \in CommandSet
      BY <1>0, <2>0 DEF CommandSet
    <3>2. /\ k.step = to /\ k.child = d /\ k.tries = n
          /\ k.command = r.command /\ k.result = r.result
          /\ k.socket = r.socket /\ k.config = r.config
      BY <1>0, <2>0 DEF CommandSet
    <3> QED
      BY <3>1, <3>2
  <2>4. Replaces(u, c)
    BY <1>3, <2>1 DEF Advances, Set, Replaces
  <2>2. CommandInv(c)'
    BY <1>0, <1>3, <2>1 DEF CommandInv
  <2>3. FailureSeen(c)'
    BY <1>0, <1>3, <2>1 DEF CommandInv, FailureSeen
  <2> QED
    BY <2>1, <2>2, <2>3, <2>4
<1>14. r.step \in {"probe", "wait", "ask", "late", "again"} => r.command \in {"start", "interface"}
  BY <1>0 DEF CommandInv
<1>4. r.step \in {"wait", "ask", "late", "asking"} => r.child \in Processes /\ pc'[r.child] # "off"
  BY <1>0 DEF CommandInv, Lasting
<1>6. UNCHANGED processes => pc' = pc
  BY DEF processes
<1>7. CASE ProbeFirst(u)
  <2>1. r.step = "probe"
    BY <1>7 DEF ProbeFirst
  <2>2. CASE Ends(u, "running")
    BY <1>2, <2>2 DEF Told
  <2>3. CASE r.command = "interface" /\ Ends(u, "failed")
    BY <1>2, <2>3 DEF Told
  <2>4. ASSUME NEW d \in Processes, Launch(d, r.socket, r.config),
               Set(u, [r EXCEPT !.step = "wait", !.child = d])
        PROVE  \E c \in CommandSet : Replaces(u, c) /\ CommandInv(c)' /\ FailureSeen(c)'
    <3>1. Advances(u, "wait", d, r.tries)
      BY <1>0, <2>4, UnchangedFields DEF Advances
    <3>2. r.tries = 0
      BY <1>0, <2>1 DEF CommandInv
    <3>3. pc'[d] # "off"
      BY <1>0, <2>4 DEF Launch, SocketTypes
    <3> QED
      BY <1>0, <1>3, <1>14, <2>1, <2>4, <3>1, <3>2, <3>3, DaemonsAssumption
  <2> QED
    BY <1>7, <2>2, <2>3, <2>4 DEF ProbeFirst
<1>8. CASE WaitChild(u)
  <2>1. r.step = "wait" /\ pc' = pc
    BY <1>6, <1>8 DEF WaitChild
  <2>2. CASE Exited(r.child) /\ Ends(u, "failed")
    BY <1>0, <1>2, <2>1, <2>2 DEF Told, Exited, CommandInv
  <2>3. CASE r.command # "start" /\ Set(u, [r EXCEPT !.step = "again"])
    <3>1. Advances(u, "again", r.child, r.tries)
      BY <1>0, <2>3, UnchangedFields DEF Advances
    <3>2. r.command = "interface"
      BY <1>0, <2>1, <2>3 DEF CommandInv
    <3> QED
      BY <1>0, <1>3, <2>1, <3>1, <3>2
  <2>4. CASE Set(u, [r EXCEPT !.step = "ask"])
    <3>1. Advances(u, "ask", r.child, r.tries)
      BY <1>0, <2>4, UnchangedFields DEF Advances
    <3>2. r.tries < Attempts
      BY <1>0, <2>1 DEF CommandInv
    <3> QED
      BY <1>0, <1>3, <1>4, <1>14, <2>1, <3>1, <3>2
  <2> QED
    BY <1>8, <2>2, <2>3, <2>4 DEF WaitChild
<1>9. CASE AskReady(u)
  <2>1. r.step = "ask" /\ pc' = pc
    BY <1>6, <1>9 DEF AskReady
  <2>2. CASE Ends(u, "started")
    BY <1>2, <2>2 DEF Told
  <2>3. ASSUME NEW to \in {"wait", "late"}, to = "wait" => r.tries + 1 < Attempts,
               Set(u, [r EXCEPT !.tries = @ + 1, !.step = to])
        PROVE  \E c \in CommandSet : Replaces(u, c) /\ CommandInv(c)' /\ FailureSeen(c)'
    <3>1. r.tries + 1 \in 0..Attempts
      BY <1>0, <2>1, DaemonsAssumption DEF CommandInv
    <3>2. Advances(u, to, r.child, r.tries + 1)
      BY <1>0, <2>3, UnchangedFields DEF Advances
    <3> QED
      BY <1>0, <1>3, <1>4, <1>14, <2>1, <2>3, <3>1, <3>2
  <2> QED
    BY <1>9, <2>2, <2>3 DEF AskReady
<1>10. CASE GiveUp(u)
  <2>1. r.step = "late"
    BY <1>10 DEF GiveUp
  <2>2. CASE Kill(r.child) /\ Ends(u, "failed")
    BY <1>0, <1>2, <2>1, <2>2 DEF Told, CommandInv, Kill, Move, SocketTypes
  <2>3. CASE Ends(u, "attached")
    BY <1>2, <2>3 DEF Told
  <2> QED
    BY <1>10, <2>2, <2>3 DEF GiveUp
<1>11. CASE AskAgain(u)
  BY <1>0, <1>2, <1>11 DEF AskAgain, Told, CommandInv
<1>12. CASE Connect(u)
  <2>1. r.step = "connect" /\ r.command = "stop" /\ r.socket \in Sockets /\ pc' = pc
    BY <1>0, <1>6, <1>12 DEF Connect, CommandInv
  <2>2. ASSUME NEW d \in Processes, Alive(d), Set(u, [r EXCEPT !.step = "asking", !.child = d])
        PROVE  \E c \in CommandSet : Replaces(u, c) /\ CommandInv(c)' /\ FailureSeen(c)'
    <3>1. pc'[d] # "off"
      BY <2>1, <2>2 DEF Alive, In
    <3>2. Advances(u, "asking", d, r.tries)
      BY <1>0, <2>2, UnchangedFields DEF Advances
    <3> QED
      BY <1>0, <1>3, <2>1, <3>1, <3>2
  <2>3. CASE Ends(u, "nothing")
    BY <1>2, <2>3 DEF Told
  <2> QED
    BY <1>12, <2>2, <2>3 DEF Connect, Alive
<1>13. CASE Stop(u)
  BY <1>0, <1>2, <1>13 DEF Stop, Told, CommandInv
<1> QED
  BY <1>1, <1>7, <1>8, <1>9, <1>10, <1>11, <1>12, <1>13 DEF Command

(* Nobody else's step makes a command's report untrue: what it saw end stays ended.        *)
LEMMA CommandsStayTrue ==
  ASSUME Lasting, NEW c, CommandInv(c), FailureSeen(c)
  PROVE  CommandInv(c)' /\ FailureSeen(c)'
BY DEF Lasting, CommandInv, FailureSeen

LEMMA DaemonsNextKeepsDaemons ==
  ASSUME DaemonsInv, [DaemonsNext]_vars
  PROVE  DaemonsInv' /\ Lasting
<1>1. ASSUME NEW d \in Processes, Daemon(d) \/ Crash(d) PROVE DaemonsInv' /\ Lasting
  <2>1. SocketsInv' /\ Lasting
    BY <1>1, DaemonStepKeepsSockets DEF DaemonsInv
  <2>2. UNCHANGED <<user, commands>>
    BY <1>1 DEF Daemon, Crash, ProbeSocket, Load, LookForFile, RemoveFile, Bind, StartupEnds,
                LeaveLoop, GoDown
  <2>3. raced' \subseteq Sockets
    <3>1. UNCHANGED raced \/ (ProbeSocket(d) /\ raced' \in {raced, raced \cup {at[d]}})
      BY <1>1 DEF Daemon, Crash, ProbeSocket, Load, LookForFile, RemoveFile, Bind, StartupEnds,
                  LeaveLoop, GoDown, sockets
    <3>2. ProbeSocket(d) => at[d] \in Sockets
      BY DEF ProbeSocket, DaemonsInv, SocketsInv, SocketTypes
    <3> QED
      BY <3>1, <3>2 DEF DaemonsInv, TypeOK
  <2>4. crashes' \in 0..MaxCrashes
    BY <1>1, DaemonsAssumption DEF Daemon, Crash, ProbeSocket, Load, LookForFile, RemoveFile, Bind, StartupEnds,
                LeaveLoop, GoDown, DaemonsInv, TypeOK
  <2>5. TypeOK'
    BY <2>1, <2>2, <2>3, <2>4 DEF DaemonsInv, TypeOK, SocketsInv, SocketTypes, Places, Unbound
  <2> QED
    BY <2>1, <2>2, <2>5, CommandsStayTrue DEF DaemonsInv
<1>2. ASSUME NEW u \in Users, Command(u) \/ BeginCommand(u) PROVE DaemonsInv' /\ Lasting
  <2>1. SocketsInv' /\ Lasting /\ UNCHANGED sockets
    BY <1>2, CommandTouches, TouchesKeepsSockets DEF DaemonsInv
  <2>2. PICK c \in CommandSet : Replaces(u, c) /\ CommandInv(c)' /\ FailureSeen(c)'
    BY <1>2, <2>1, CommandKeepsItsOwn
  <2>3. user \in [Users -> CommandSet]
    BY DEF DaemonsInv, TypeOK, CommandSet
  <2>4. user' \in [Users -> CommandSet] /\ user'[u] = c /\ \A v \in Users \ {u} : user'[v] = user[v]
    BY <2>2, <2>3 DEF Replaces
  <2>5. commands' \in 0..MaxCommands /\ UNCHANGED crashes
    <3>1. commands \in 0..MaxCommands /\ MaxCommands \in Nat
      BY DaemonsAssumption DEF DaemonsInv, TypeOK
    <3>2. CASE BeginCommand(u)
      BY <3>1, <3>2 DEF BeginCommand
    <3>3. CASE Command(u)
      BY <3>1, <3>3 DEF Command, ProbeFirst, WaitChild, AskReady, GiveUp, AskAgain, Connect, Stop
    <3> QED
      BY <1>2, <3>2, <3>3
  <2>6. TypeOK'
    BY <2>1, <2>4, <2>5 DEF DaemonsInv, TypeOK, SocketsInv, SocketTypes, Places, Unbound, sockets,
                            CommandSet
  <2>7. ASSUME NEW v \in Users PROVE CommandInv(user[v])' /\ FailureSeen(user[v])'
    <3>1. CASE v = u
      BY <2>2, <2>4, <3>1
    <3>2. CASE v # u
      BY <2>1, <2>4, <3>2, CommandsStayTrue DEF DaemonsInv
    <3> QED
      BY <3>1, <3>2
  <2> QED
    BY <2>1, <2>6, <2>7 DEF DaemonsInv
<1>3. CASE UNCHANGED vars
  BY <1>3 DEF vars, sockets, processes, DaemonsInv, TypeOK, SocketsInv, SocketTypes, FilesBelong,
              OneWithoutRace, ServesWhatItBound, Running, CommandInv, FailureSeen, Lasting
<1> QED
  BY <1>1, <1>2, <1>3 DEF DaemonsNext

LEMMA TouchesKeepsDaemons ==
  ASSUME DaemonsInv, Touches, UNCHANGED <<sockets, user, commands, crashes>>
  PROVE  DaemonsInv' /\ Lasting
<1>1. SocketsInv' /\ Lasting
  BY TouchesKeepsSockets DEF DaemonsInv
<1>2. TypeOK'
  BY <1>1 DEF DaemonsInv, TypeOK, SocketsInv, SocketTypes, Places, Unbound, sockets
<1> QED
  BY <1>1, <1>2, CommandsStayTrue DEF DaemonsInv

LEMMA DaemonsInitially ==
  ASSUME DaemonsInit PROVE DaemonsInv
<1> USE DaemonsAssumption DEF DaemonsInit
<1>1. \A u \in Users : user[u] = Idle /\ Idle \in CommandSet
  BY DEF Idle, CommandSet
<1>2. TypeOK
  BY <1>1 DEF TypeOK, CommandSet
<1>3. SocketsInv
  BY DEF SocketsInv, SocketTypes, Places, Unbound, FilesBelong, OneWithoutRace, Going,
         ServesWhatItBound, Running
<1>4. \A u \in Users : CommandInv(user[u]) /\ FailureSeen(user[u])
  BY <1>1 DEF Idle, CommandInv, FailureSeen
<1> QED
  BY <1>2, <1>3, <1>4 DEF DaemonsInv

-----------------------------------------------------------------------------
(* Daemons and commands without a supervisor: types, and the two promises.                 *)
THEOREM DaemonsInvariant == Spec => [](TypeOK /\ ServesWhatItBound /\ FailedStartLeavesNothing)
<1>1. DaemonsInit => DaemonsInv
  BY DaemonsInitially
<1>2. DaemonsInv /\ [DaemonsNext]_vars => DaemonsInv'
  BY DaemonsNextKeepsDaemons
<1>3. DaemonsInv => TypeOK /\ ServesWhatItBound /\ FailedStartLeavesNothing
  BY DEF DaemonsInv, SocketsInv, FailureSeen, FailedStartLeavesNothing, Alive, In
<1> QED
  BY <1>1, <1>2, <1>3, PTL DEF Spec

-----------------------------------------------------------------------------
(* The supervisor.  Its steps touch the daemons as a command does.                         *)
Supervise ==
  \/ Skip \/ ProbeMember \/ Identify \/ WaitMember \/ AskMember \/ GiveUpMember \/ Boot
  \/ Request \/ Forward \/ Answer \/ Reap \/ Leave
  \/ Detach \/ AskToStop \/ Hardreap \/ Detached

LEMMA SupervisorTouches ==
  ASSUME IInv, Supervise
  PROVE  Touches /\ UNCHANGED <<sockets, user, commands, crashes>>
<1> USE DEF IInv, SupervisorInv, Touches
<1>1. CASE ProbeMember
  <2>1. Order[next] \in Sockets
    BY <1>1, WorkspaceAssumption DEF ProbeMember, WorkspaceTypeOK
  <2> QED
    BY <1>1, <2>1 DEF ProbeMember
<1>2. CASE GiveUpMember
  <2>1. child \in Processes /\ pc[child] # "off"
    BY <1>2 DEF GiveUpMember, Position, LaunchedInv, WorkspaceTypeOK
  <2> QED
    BY <1>2, <2>1 DEF GiveUpMember
<1>3. CASE AskToStop
  BY <1>3 DEF AskToStop, Position
<1>4. CASE Hardreap
  <2>1. next \in DOMAIN members
    BY <1>4 DEF Hardreap, Position, WorkspaceTypeOK
  <2>2. members[next].handle # None
          => members[next].handle \in Processes /\ pc[members[next].handle] # "off"
    BY <2>1 DEF MembersInv, LaunchedInv, WorkspaceTypeOK
  <2> QED
    BY <1>4, <2>2 DEF Hardreap
<1>5. CASE UNCHANGED vars
  BY <1>5 DEF vars
<1> QED
  BY <1>1, <1>2, <1>3, <1>4, <1>5
  DEF Supervise, Skip, Identify, WaitMember, AskMember, Boot, Request, Forward, Answer, Reap,
      Leave, Detach, Detached

LEMMA MemberTypes ==
  ASSUME SupervisorInv
  PROVE  \A i \in DOMAIN members :
           /\ members[i] \in MemberSet /\ members[i].socket \in Sockets
           /\ members[i].handle \in Processes \cup {None}
<1>1. \A i \in DOMAIN members : members[i] \in MemberSet
  BY DEF SupervisorInv, WorkspaceTypeOK
<1>2. \A m \in MemberSet : m.socket \in Sockets /\ m.handle \in Processes \cup {None}
  BY DEF MemberSet
<1> QED
  BY <1>1, <1>2

(* While nothing is attached and nothing launched, what was stays as it was.               *)
LEMMA RecordsStay ==
  ASSUME SupervisorInv, Lasting, UNCHANGED <<members, launched, adopted>>
  PROVE  MembersInv' /\ AdoptedInv'
BY DEF SupervisorInv, WorkspaceTypeOK, MembersInv, AdoptedInv, Lasting

LEMMA OthersKeepSupervisor ==
  ASSUME SupervisorInv, Lasting, UNCHANGED <<supervisor, token>>
  PROVE  SupervisorInv'
<1> USE DEF supervisor, boot, record, SupervisorInv
<1>1. MembersInv' /\ AdoptedInv'
  BY RecordsStay
<1>2. Position'
  BY DEF Position, Attached, Lasting
<1>3. LaunchedInv'
  BY DEF LaunchedInv, Accounted, Ahead, Lasting, WorkspaceTypeOK
<1> QED
  BY <1>1, <1>2, <1>3 DEF WorkspaceTypeOK

(* A step that leaves the members and the daemon waited for alone only has to leave its    *)
(* children accounted for.                                                                 *)
LEMMA PlainStepKeepsSupervisor ==
  ASSUME SupervisorInv, Lasting, WorkspaceTypeOK', Position',
         UNCHANGED <<members, launched, adopted>>,
         \A d \in launched : Accounted(d) => Accounted(d)'
  PROVE  SupervisorInv'
<1>1. MembersInv' /\ AdoptedInv'
  BY RecordsStay
<1>2. LaunchedInv'
  BY DEF SupervisorInv, LaunchedInv, Lasting, WorkspaceTypeOK
<1> QED
  BY <1>1, <1>2 DEF SupervisorInv

LEMMA SkipKeepsSupervisor ==
  ASSUME SupervisorInv, Lasting, Skip PROVE SupervisorInv'
<1> USE DEF SupervisorInv, Skip, Next_, boot, record
<1>1. WorkspaceTypeOK' /\ Position'
  BY DEF WorkspaceTypeOK, Position, Steps
<1>2. \A d \in launched : Accounted(d) => Accounted(d)'
  BY DEF Accounted, Ahead, Lasting, WorkspaceTypeOK
<1> QED
  BY <1>1, <1>2, PlainStepKeepsSupervisor

(* A launched daemon is the one that is waited for.                                        *)
LEMMA ProbeMemberKeepsSupervisor ==
  ASSUME SupervisorInv, SocketsInv, Lasting, ProbeMember PROVE SupervisorInv'
<1> USE DEF SupervisorInv
<1>1. /\ step = "attach" /\ next <= Len(Order) /\ ~Attached(Order[next]) /\ tries' = 0
      /\ UNCHANGED <<next, members, token, failures, requests, adopted>>
  BY DEF ProbeMember
<1>2. CASE /\ step' = "identify" /\ child' = None /\ UNCHANGED launched
  <2>1. WorkspaceTypeOK' /\ Position'
    BY <1>1, <1>2, DaemonsAssumption DEF WorkspaceTypeOK, Position, Steps, Attached
  <2>2. \A d \in launched : Accounted(d) => Accounted(d)'
    BY <1>1, <1>2 DEF Accounted, Ahead, Lasting, WorkspaceTypeOK
  <2> QED
    BY <1>1, <1>2, <2>1, <2>2, PlainStepKeepsSupervisor
<1>3. ASSUME NEW d \in Processes, Launch(d, Order[next], Order[next]), child' = d,
             launched' = launched \cup {d}, step' = "wait"
      PROVE  SupervisorInv'
  <2>1. WorkspaceTypeOK' /\ Position'
    BY <1>1, <1>3, DaemonsAssumption DEF WorkspaceTypeOK, Position, Steps, Attached
  <2>2. MembersInv'
    BY <1>1, <1>3 DEF MembersInv
  <2>3. AdoptedInv'
    BY <1>1 DEF AdoptedInv, Lasting, WorkspaceTypeOK
  <2>4. LaunchedInv'
    <3>1. pc'[d] # "off" /\ Accounted(d)'
      BY <1>3 DEF Accounted, Launch, SocketsInv, SocketTypes
    <3>2. ASSUME NEW e \in launched PROVE pc'[e] # "off" /\ Accounted(e)'
      BY <1>1, <1>3, <3>2 DEF LaunchedInv, Accounted, Ahead, Lasting, WorkspaceTypeOK
    <3> QED
      BY <1>3, <3>1, <3>2 DEF LaunchedInv
  <2> QED
    BY <2>1, <2>2, <2>3, <2>4
<1> QED
  BY <1>1, <1>2, <1>3 DEF ProbeMember

(* A configuration that is attached is not attached before; nothing else changes place.    *)
LEMMA AttachingAMember ==
  ASSUME SupervisorInv, Lasting, NEW s \in Sockets, ~Attached(s),
         NEW h \in Processes \cup {None}, NEW a \in BOOLEAN, h # None => h \in launched,
         members' = Append(members, Member(s, h, a)), UNCHANGED launched,
         \A d \in adopted' \ adopted : d \in Processes /\ pc[d] # "off" /\ at[d] = s /\ a
  PROVE  /\ members' \in Seq(MemberSet) /\ MembersInv' /\ AdoptedInv'
         /\ Len(members') = Len(members) + 1 /\ members'[Len(members) + 1] = Member(s, h, a)
         /\ \A i \in DOMAIN members : i \in DOMAIN members' /\ members'[i] = members[i]
<1> DEFINE m == Member(s, h, a)
<1>1. m \in MemberSet /\ m.socket = s /\ m.handle = h /\ m.adopted = a
  BY DEF Member, MemberSet
<1>2. members \in Seq(MemberSet)
  BY DEF SupervisorInv, WorkspaceTypeOK
<1> HIDE DEF m
<1>3. members' = Append(members, m)
  BY DEF m
<1>4. /\ members' \in Seq(MemberSet) /\ DOMAIN members' = 1..(Len(members) + 1)
      /\ Len(members') = Len(members) + 1 /\ members'[Len(members) + 1] = m
      /\ \A i \in 1..Len(members) : members'[i] = members[i]
      /\ DOMAIN members = 1..Len(members) /\ Len(members) \in Nat
  BY <1>1, <1>2, <1>3
<1>5. MembersInv'
  BY <1>1, <1>4 DEF SupervisorInv, MembersInv, Attached
<1>6. AdoptedInv'
  <2>1. ASSUME NEW d \in adopted', d \in adopted
        PROVE  pc'[d] # "off" /\ \E i \in DOMAIN members' :
                 members'[i].adopted /\ members'[i].socket = at'[d]
    BY <1>4, <2>1 DEF SupervisorInv, AdoptedInv, Lasting, WorkspaceTypeOK
  <2>2. ASSUME NEW d \in adopted', d \notin adopted
        PROVE  pc'[d] # "off" /\ \E i \in DOMAIN members' :
                 members'[i].adopted /\ members'[i].socket = at'[d]
    BY <1>1, <1>4, <2>2 DEF Lasting
  <2> QED
    BY <2>1, <2>2 DEF AdoptedInv
<1> QED
  BY <1>4, <1>5, <1>6 DEF m

LEMMA IdentifyKeepsSupervisor ==
  ASSUME SupervisorInv, SocketsInv, Lasting, Identify PROVE SupervisorInv'
<1> DEFINE s == Order[next]
<1>1. /\ step = "identify" /\ step' = "attach" /\ next' = next + 1
      /\ UNCHANGED <<vars, boot, token, failures, requests, launched>>
      /\ next <= Len(Order) /\ next \in Nat \ {0} /\ ~Attached(s) /\ s \in Sockets
  BY WorkspaceAssumption DEF Identify, Next_, SupervisorInv, Position, WorkspaceTypeOK
<1>2. Position'
  BY <1>1 DEF Position
<1>3. CASE UNCHANGED <<members, adopted>>
  <2>1. WorkspaceTypeOK'
    BY <1>1, <1>3 DEF SupervisorInv, WorkspaceTypeOK, Steps, boot
  <2>2. \A d \in launched : Accounted(d) => Accounted(d)'
    BY <1>1, <1>3 DEF Accounted, Ahead, Lasting, SupervisorInv, WorkspaceTypeOK
  <2> QED
    BY <1>1, <1>2, <1>3, <2>1, <2>2, PlainStepKeepsSupervisor
<1>4. ASSUME NEW d \in In({"loop"}), d = file[s], adopted' = adopted \cup {d},
             members' = Append(members, Member(s, None, TRUE))
      PROVE  SupervisorInv'
  <2>1. d \in Processes /\ pc[d] = "loop" /\ at[d] = s
    BY <1>1, <1>4, DaemonsAssumption DEF In, SocketsInv, FilesBelong
  <2>2. /\ members' \in Seq(MemberSet) /\ MembersInv' /\ AdoptedInv'
        /\ \A i \in DOMAIN members : i \in DOMAIN members' /\ members'[i] = members[i]
    <3>1. \A e \in adopted' \ adopted : e \in Processes /\ pc[e] # "off" /\ at[e] = s /\ TRUE
      BY <1>4, <2>1
    <3> HIDE DEF s
    <3> QED
      BY <1>1, <1>4, <3>1, AttachingAMember, Zenon
  <2>3. WorkspaceTypeOK'
    <3>1. members' \in Seq(MemberSet) /\ adopted' \subseteq Processes
      BY <1>4, <2>1, <2>2 DEF SupervisorInv, WorkspaceTypeOK
    <3> HIDE DEF s
    <3> QED
      BY <1>1, <3>1 DEF SupervisorInv, WorkspaceTypeOK, Steps, boot
  <2>4. LaunchedInv'
    BY <1>1, <2>2 DEF SupervisorInv, LaunchedInv, Accounted, Ahead, Lasting, WorkspaceTypeOK
  <2> QED
    BY <1>2, <2>2, <2>3, <2>4 DEF SupervisorInv
<1> QED
  BY <1>3, <1>4 DEF Identify

(* A child that exited is accounted for as one that has ended.                             *)
LEMMA WaitMemberKeepsSupervisor ==
  ASSUME SupervisorInv, Lasting, WaitMember PROVE SupervisorInv'
<1> USE DEF SupervisorInv, WaitMember, Next_, boot, record
<1>1. WorkspaceTypeOK' /\ Position'
  BY WorkspaceAssumption DEF WorkspaceTypeOK, Position, Steps, Attached
<1>2. \A d \in launched : Accounted(d) => Accounted(d)'
  BY DEF Accounted, Ahead, Lasting, WorkspaceTypeOK, Exited
<1> QED
  BY <1>1, <1>2, PlainStepKeepsSupervisor

(* A child that answers becomes a member, and stays accounted for as its handle.           *)
LEMMA AskMemberKeepsSupervisor ==
  ASSUME SupervisorInv, Lasting, AskMember PROVE SupervisorInv'
<1> DEFINE s == Order[next]
<1>1. /\ step = "ask" /\ UNCHANGED <<vars, child, token, failures, requests, launched, adopted>>
      /\ next <= Len(Order) /\ next \in Nat \ {0} /\ ~Attached(s) /\ s \in Sockets
      /\ child \in launched /\ child \in Processes /\ tries < Attempts
  BY WorkspaceAssumption DEF AskMember, record, SupervisorInv, Position, WorkspaceTypeOK
<1>2. CASE members' = Append(members, Member(s, child, FALSE)) /\ Next_ /\ UNCHANGED tries
  <2>1. /\ members' \in Seq(MemberSet) /\ MembersInv' /\ AdoptedInv'
        /\ Len(members) + 1 \in DOMAIN members'
        /\ members'[Len(members) + 1] = Member(s, child, FALSE)
        /\ \A i \in DOMAIN members : i \in DOMAIN members' /\ members'[i] = members[i]
    <3>1. /\ members' \in Seq(MemberSet) /\ MembersInv' /\ AdoptedInv'
          /\ Len(members') = Len(members) + 1
          /\ members'[Len(members) + 1] = Member(s, child, FALSE)
          /\ \A i \in DOMAIN members : i \in DOMAIN members' /\ members'[i] = members[i]
      <4> HIDE DEF s
      <4> QED
        BY <1>1, <1>2, AttachingAMember
    <3>2. Len(members) + 1 \in DOMAIN members'
      BY <3>1 DEF SupervisorInv, WorkspaceTypeOK
    <3> QED
      BY <3>1, <3>2
  <2>2. WorkspaceTypeOK' /\ Position'
    <3>0. step' = "attach" /\ next' = next + 1
      BY <1>2 DEF Next_
    <3>1. step' = "attach" /\ next' \in Nat \ {0} /\ members' \in Seq(MemberSet)
      BY <3>0, <2>1 DEF SupervisorInv, WorkspaceTypeOK
    <3>2. UNCHANGED <<child, tries, token, failures, requests, launched, adopted>>
      BY <1>1, <1>2
    <3> QED
      BY <3>1, <3>2 DEF SupervisorInv, WorkspaceTypeOK, Position, Steps
  <2>3. LaunchedInv'
    <3>1. Accounted(child)'
      BY <1>1, <1>2, <2>1 DEF Accounted, Ahead, Next_, Member
    <3>2. ASSUME NEW d \in launched, d # child PROVE Accounted(d)'
      <4>1. CASE pc[d] = "dead"
        BY <4>1 DEF SupervisorInv, WorkspaceTypeOK, Lasting, Accounted
      <4>2. ASSUME NEW i \in DOMAIN members, members[i].handle = d, ~members[i].adopted
            PROVE  Accounted(d)'
        BY <1>2, <2>1, <4>2 DEF Accounted, Ahead, Next_
      <4> QED
        BY <3>2, <4>1, <4>2 DEF SupervisorInv, LaunchedInv, Accounted
    <3> QED
      BY <1>1, <3>1, <3>2 DEF SupervisorInv, LaunchedInv, Lasting, WorkspaceTypeOK
  <2> QED
    BY <2>1, <2>2, <2>3 DEF SupervisorInv
<1>3. CASE /\ tries' = tries + 1 /\ UNCHANGED <<members, next>>
           /\ step' = IF tries + 1 < Attempts THEN "wait" ELSE "late"
  <2>1. WorkspaceTypeOK' /\ Position'
    BY <1>1, <1>3, DaemonsAssumption DEF SupervisorInv, WorkspaceTypeOK, Position, Steps, Attached
  <2>2. \A d \in launched : Accounted(d) => Accounted(d)'
    BY <1>1, <1>3 DEF Accounted, Ahead, Lasting, SupervisorInv, WorkspaceTypeOK
  <2> QED
    BY <1>1, <1>3, <2>1, <2>2, PlainStepKeepsSupervisor
<1> QED
  BY <1>2, <1>3 DEF AskMember

LEMMA GiveUpMemberKeepsSupervisor ==
  ASSUME SupervisorInv, SocketsInv, Lasting, GiveUpMember PROVE SupervisorInv'
<1> USE DEF SupervisorInv, GiveUpMember, Next_, boot, record
<1>1. WorkspaceTypeOK' /\ Position'
  BY WorkspaceAssumption DEF WorkspaceTypeOK, Position, Steps, Attached
<1>2. pc'[child] = "dead"
  BY DEF Position, WorkspaceTypeOK, Kill, Move, SocketsInv, SocketTypes
<1>3. \A d \in launched : Accounted(d) => Accounted(d)'
  BY <1>2 DEF Accounted, Ahead, Lasting, WorkspaceTypeOK
<1> QED
  BY <1>1, <1>3, PlainStepKeepsSupervisor

(* The steps that only move the supervisor: none of them passes a member over but at an    *)
(* end, and a teardown begins with the first member.                                       *)
LEMMA MovesKeepSupervisor ==
  ASSUME SupervisorInv, Lasting, Boot \/ Request \/ Forward \/ Answer \/ Leave \/ Detached
  PROVE  SupervisorInv'
<1> USE DEF SupervisorInv, boot, record
<1>1. /\ UNCHANGED <<vars, child, tries, members, token, launched, adopted>>
      /\ next' \in Nat \ {0} /\ requests' \in 0..MaxRequests /\ failures' \subseteq Tokens
      /\ step' \in {"detach", "serve", "broken", "forward", "ended"}
      /\ step' = "detach" => next' = 1
      /\ step' = "ended" => step = "detach" /\ next > Len(members)
      /\ step \in {"attach", "serve", "forward", "detach"}
  <2> USE WorkspaceAssumption DEF WorkspaceTypeOK
  <2>1. CASE Boot
    BY <2>1 DEF Boot
  <2>2. CASE Request
    BY <2>2 DEF Request
  <2>3. CASE Forward
    <3>1. next \in DOMAIN members
      BY <2>3 DEF Forward
    <3>2. token[members[next].socket] \in Tokens
      BY <3>1, MemberTypes
    <3> QED
      BY <2>3, <3>2 DEF Forward
  <2>4. CASE Answer
    BY <2>4 DEF Answer
  <2>5. CASE Leave
    BY <2>5 DEF Leave
  <2>6. CASE Detached
    BY <2>6 DEF Detached
  <2> QED
    BY <2>1, <2>2, <2>3, <2>4, <2>5, <2>6
<1>2. WorkspaceTypeOK' /\ Position'
  BY <1>1 DEF WorkspaceTypeOK, Position, Steps
<1>3. ASSUME NEW d \in launched, Accounted(d) PROVE Accounted(d)'
  <2>1. CASE pc[d] = "dead"
    BY <2>1 DEF WorkspaceTypeOK, Lasting, Accounted
  <2>2. ASSUME NEW i \in DOMAIN members, members[i].handle = d, ~members[i].adopted, Ahead(i)
        PROVE  Accounted(d)'
    BY <1>1, <2>2 DEF Accounted, Ahead, WorkspaceTypeOK
  <2> QED
    BY <1>1, <1>3, <2>1, <2>2 DEF Accounted
<1> QED
  BY <1>1, <1>2, <1>3, PlainStepKeepsSupervisor

(* Only the handle of a child that has exited is dropped.                                  *)
LEMMA ReapKeepsSupervisor ==
  ASSUME SupervisorInv, Lasting, Reap PROVE SupervisorInv'
<1> USE DEF SupervisorInv, boot, record
<1>1. /\ members' \in Seq(MemberSet) /\ DOMAIN members' = DOMAIN members
      /\ \A i \in DOMAIN members :
           /\ members'[i].socket = members[i].socket /\ members'[i].adopted = members[i].adopted
           /\ members'[i].handle = members[i].handle
              \/ (Exited(members[i].handle) /\ members'[i].handle = None)
  <2>1. \A m \in MemberSet :
          /\ [m EXCEPT !.handle = None] \in MemberSet
          /\ [m EXCEPT !.handle = None].socket = m.socket
          /\ [m EXCEPT !.handle = None].adopted = m.adopted
          /\ [m EXCEPT !.handle = None].handle = None
    BY DEF MemberSet
  <2>2. DOMAIN members = 1..Len(members) /\ Len(members) \in Nat
        /\ \A i \in DOMAIN members : members[i] \in MemberSet
    BY DEF WorkspaceTypeOK
  <2>3. members' = Reaped
    BY DEF Reap
  <2>4. DOMAIN members' = DOMAIN members
        /\ \A i \in DOMAIN members :
             members'[i] = IF members[i].handle # None /\ Exited(members[i].handle)
                           THEN [members[i] EXCEPT !.handle = None] ELSE members[i]
    BY <2>3 DEF Reaped
  <2>5. \A i \in DOMAIN members : members'[i] \in MemberSet
    BY <2>1, <2>2, <2>4
  <2>6. members' \in Seq(MemberSet)
    BY <2>2, <2>3, <2>4, <2>5 DEF Reaped
  <2>7. ASSUME NEW i \in DOMAIN members
        PROVE  /\ members'[i].socket = members[i].socket
               /\ members'[i].adopted = members[i].adopted
               /\ members'[i].handle = members[i].handle
                  \/ (Exited(members[i].handle) /\ members'[i].handle = None)
    <3>1. CASE members[i].handle # None /\ Exited(members[i].handle)
      BY <2>1, <2>2, <2>4, <3>1
    <3>2. CASE ~(members[i].handle # None /\ Exited(members[i].handle))
      BY <2>4, <3>2
    <3> QED
      BY <3>1, <3>2
  <2> QED
    BY <2>4, <2>6, <2>7
<1>2. /\ step = "serve" /\ step' = "serve"
      /\ UNCHANGED <<pc, at, next, child, tries, token, failures, requests, launched, adopted>>
  BY DEF Reap, vars, processes
<1>3. WorkspaceTypeOK' /\ Position'
  BY <1>1, <1>2 DEF WorkspaceTypeOK, Position, Steps
<1>4. MembersInv' /\ AdoptedInv'
  BY <1>1, <1>2 DEF MembersInv, AdoptedInv
<1>5. ASSUME NEW d \in launched, Accounted(d) PROVE Accounted(d)'
  <2>1. CASE pc[d] = "dead"
    BY <1>2, <2>1 DEF Accounted
  <2>2. ASSUME NEW i \in DOMAIN members, members[i].handle = d, ~members[i].adopted
        PROVE  Accounted(d)'
    BY <1>1, <1>2, <2>2 DEF Accounted, Ahead, Exited
  <2> QED
    BY <1>2, <1>5, <2>1, <2>2 DEF Accounted
<1>6. LaunchedInv'
  BY <1>2, <1>5 DEF LaunchedInv
<1> QED
  BY <1>3, <1>4, <1>6

(* A teardown passes a member over if it was adopted, or once its child is killed.         *)
LEMMA DetachKeepsSupervisor ==
  ASSUME SupervisorInv, SocketsInv, Lasting, Detach PROVE SupervisorInv'
<1> USE DEF SupervisorInv, record
<1>1. /\ step = "detach" /\ next <= Len(members) /\ next \in DOMAIN members
      /\ UNCHANGED <<vars, tries, members, token, failures, requests, launched, adopted>>
  BY DEF Detach, WorkspaceTypeOK
<1>2. members[next].socket \in Sockets
  BY <1>1, MemberTypes
<1>3. CASE members[next].adopted /\ next' = next + 1 /\ UNCHANGED <<step, child>>
  <2>1. WorkspaceTypeOK' /\ Position'
    BY <1>1, <1>3 DEF WorkspaceTypeOK, Position
  <2>2. ASSUME NEW d \in launched, Accounted(d) PROVE Accounted(d)'
    <3>1. CASE pc[d] = "dead"
      BY <3>1 DEF WorkspaceTypeOK, Lasting, Accounted
    <3>2. ASSUME NEW i \in DOMAIN members, members[i].handle = d, ~members[i].adopted, Ahead(i)
          PROVE  Accounted(d)'
      BY <1>1, <1>3, <3>2 DEF Accounted, Ahead, WorkspaceTypeOK
    <3> QED
      BY <1>1, <2>2, <3>1, <3>2 DEF Accounted
  <2> QED
    BY <1>1, <2>1, <2>2, PlainStepKeepsSupervisor
<1>4. CASE /\ ~members[next].adopted /\ UNCHANGED next
           /\ \/ /\ step' = "asking" /\ child' = file[members[next].socket]
                 /\ Alive(file[members[next].socket])
              \/ step' = "vanish" /\ UNCHANGED child
  <2>1. Alive(file[members[next].socket])
          => /\ file[members[next].socket] \in Processes
             /\ pc[file[members[next].socket]] # "off"
             /\ at[file[members[next].socket]] = members[next].socket
    BY <1>2, DaemonsAssumption DEF Alive, In, SocketsInv, SocketTypes, FilesBelong
  <2>2. UNCHANGED <<pc, at>>
    BY <1>1 DEF vars, processes
  <2>3. WorkspaceTypeOK' /\ Position'
    BY <1>1, <1>4, <2>1, <2>2 DEF WorkspaceTypeOK, Position, Steps
  <2>4. \A d \in launched : Accounted(d) => Accounted(d)'
    BY <1>1, <1>4, <2>2 DEF Accounted, Ahead
  <2> QED
    BY <1>1, <2>3, <2>4, PlainStepKeepsSupervisor
<1> QED
  BY <1>1, <1>3, <1>4 DEF Detach

LEMMA AskToStopKeepsSupervisor ==
  ASSUME SupervisorInv, Lasting, AskToStop PROVE SupervisorInv'
<1> USE DEF SupervisorInv, record, boot, AskToStop
<1>1. WorkspaceTypeOK' /\ Position'
  BY DEF WorkspaceTypeOK, Position, Steps
<1>2. \A d \in launched : Accounted(d) => Accounted(d)'
  BY DEF Accounted, Ahead, Lasting, WorkspaceTypeOK
<1> QED
  BY <1>1, <1>2, PlainStepKeepsSupervisor

LEMMA HardreapKeepsSupervisor ==
  ASSUME SupervisorInv, SocketsInv, Lasting, Hardreap PROVE SupervisorInv'
<1> DEFINE h == members[next].handle
<1>1. /\ step = "vanish" /\ step' = "detach" /\ next' = next + 1 /\ next \in DOMAIN members
      /\ UNCHANGED <<child, tries, members, token, failures, requests, launched, adopted>>
  BY DEF Hardreap, record, boot, SupervisorInv, Position, WorkspaceTypeOK
<1>2. WorkspaceTypeOK' /\ Position'
  BY <1>1 DEF SupervisorInv, WorkspaceTypeOK, Position, Steps
<1>3. h # None => pc'[h] = "dead"
  <2>1. h \in Processes \cup {None}
    BY <1>1, MemberTypes
  <2> QED
    BY <2>1 DEF Hardreap, Kill, Move, SocketsInv, SocketTypes
<1>4. ASSUME NEW d \in launched, Accounted(d) PROVE Accounted(d)'
  <2>1. d \in Processes /\ d # None
    BY DaemonsAssumption DEF SupervisorInv, WorkspaceTypeOK
  <2>2. CASE pc[d] = "dead" \/ d = h
    BY <1>3, <2>1, <2>2 DEF Lasting, Accounted
  <2>3. ASSUME NEW i \in DOMAIN members, members[i].handle = d, ~members[i].adopted, Ahead(i),
               d # h
        PROVE  Accounted(d)'
    BY <1>1, <2>3 DEF Accounted, Ahead, SupervisorInv, WorkspaceTypeOK
  <2> QED
    BY <1>1, <1>4, <2>2, <2>3 DEF Accounted
<1> QED
  BY <1>1, <1>2, <1>4, PlainStepKeepsSupervisor

-----------------------------------------------------------------------------
LEMMA Initially ==
  ASSUME Init PROVE IInv
<1>1. DaemonsInv
  BY DaemonsInitially DEF Init
<1>2. SupervisorInv
  BY DaemonsAssumption, WorkspaceAssumption
  DEF Init, SupervisorInv, WorkspaceTypeOK, Steps, Position, MembersInv, AdoptedInv, LaunchedInv
<1> QED
  BY <1>1, <1>2 DEF IInv

LEMMA StepKeepsIInv ==
  ASSUME IInv, [Next]_allVars PROVE IInv' /\ Lasting
<1> USE DEF IInv
<1>1. CASE DaemonsNext /\ UNCHANGED <<supervisor, token>>
  BY <1>1, DaemonsNextKeepsDaemons, OthersKeepSupervisor
<1>2. CASE Supervise
  <2>1. DaemonsInv' /\ Lasting
    BY <1>2, SupervisorTouches, TouchesKeepsDaemons
  <2>2. SocketsInv
    BY DEF DaemonsInv
  <2>3. SupervisorInv'
    BY <1>2, <2>1, <2>2, SkipKeepsSupervisor, ProbeMemberKeepsSupervisor,
       IdentifyKeepsSupervisor, WaitMemberKeepsSupervisor, AskMemberKeepsSupervisor,
       GiveUpMemberKeepsSupervisor, MovesKeepSupervisor, ReapKeepsSupervisor,
       DetachKeepsSupervisor, AskToStopKeepsSupervisor, HardreapKeepsSupervisor
    DEF Supervise
  <2> QED
    BY <2>1, <2>3
<1>3. CASE UNCHANGED allVars
  BY <1>3, DaemonsNextKeepsDaemons, OthersKeepSupervisor DEF allVars
<1> QED
  BY <1>1, <1>2, <1>3 DEF Next, Supervise

(* The inductive invariant of the supervisor and all the daemons beside it.                *)
THEOREM WorkspaceInvariant == WorkspaceSpec => []IInv
<1>1. Init => IInv
  BY Initially
<1>2. IInv /\ [Next]_allVars => IInv'
  BY StepKeepsIInv
<1> QED
  BY <1>1, <1>2, PTL DEF WorkspaceSpec

(* Every variable of daemons, commands and supervisor holds what the code may put into it. *)
THEOREM WorkspaceTypes == WorkspaceSpec => [](TypeOK /\ WorkspaceTypeOK)
<1>1. IInv => TypeOK /\ WorkspaceTypeOK
  BY DEF IInv, DaemonsInv, SupervisorInv
<1> QED
  BY <1>1, WorkspaceInvariant, PTL

(* A daemon that came up unraced is found at its socket, whatever a supervisor and any     *)
(* number of commands launch, stop, kill or leave behind beside it.                        *)
THEOREM UnracedDaemonIsFound == WorkspaceSpec => []ServesWhatItBound
<1>1. IInv => ServesWhatItBound
  BY DEF IInv, DaemonsInv, SocketsInv
<1> QED
  BY <1>1, WorkspaceInvariant, PTL

(* zaz start reports a failure only when the child it launched is over, and it stays over. *)
THEOREM FailedStartIsOver == WorkspaceSpec => []FailedStartLeavesNothing
<1>1. IInv => FailedStartLeavesNothing
  BY DEF IInv, DaemonsInv, FailureSeen, FailedStartLeavesNothing, Alive, In
<1> QED
  BY <1>1, WorkspaceInvariant, PTL

(* detach_all reaches every child that the supervisor launched and that has not ended.     *)
THEOREM SupervisorLeavesNoChild == WorkspaceSpec => []ChildrenEndWithTheSupervisor
<1>1. IInv => ChildrenEndWithTheSupervisor
  BY DEF IInv, SupervisorInv, LaunchedInv, Accounted, ChildrenEndWithTheSupervisor, Alive, In
<1> QED
  BY <1>1, WorkspaceInvariant, PTL

(* stop_child asks whoever serves the socket of a member that was not adopted, and a       *)
(* socket has one member: no step of the supervisor moves a daemon it adopted.             *)
THEOREM AdoptedAreLeft == WorkspaceSpec => AdoptedLeftRunning
<1>1. ASSUME IInv, [Next]_allVars, NEW d \in adopted \ launched, pc'[d] # pc[d]
      PROVE  supervisor' = supervisor
  <2> USE <1>1 DEF IInv, DaemonsInv, SupervisorInv
  <2>1. d \in Processes /\ pc[d] # "off" /\ d # None
    BY DaemonsAssumption DEF WorkspaceTypeOK, AdoptedInv
  <2>2. ASSUME NEW e \in Processes, Launch(e, Order[next], Order[next]) PROVE FALSE
    BY <2>1, <2>2 DEF Launch, SocketsInv, SocketTypes
  <2>3. ASSUME NEW e \in launched, Kill(e) PROVE FALSE
    BY <2>1, <2>3 DEF Kill, Move, SocketsInv, SocketTypes
  <2>4. ~ProbeMember
    BY <2>2 DEF ProbeMember, processes
  <2>5. ~GiveUpMember
    BY <2>3 DEF GiveUpMember, Position
  <2>6. ~Hardreap
    <3>1. SUFFICES ASSUME Hardreap PROVE FALSE
      OBVIOUS
    <3>2. next \in DOMAIN members
      BY <3>1 DEF Hardreap, Position, WorkspaceTypeOK
    <3> QED
      BY <2>3, <3>1, <3>2 DEF Hardreap, MembersInv, processes
  <2>7. ~AskToStop
    <3>1. SUFFICES ASSUME AskToStop PROVE FALSE
      OBVIOUS
    <3>2. child = d
      BY <2>1, <3>1 DEF AskToStop, Acknowledge, Move, processes, SocketsInv, SocketTypes
    <3>3. next \in DOMAIN members /\ ~members[next].adopted /\ members[next].socket = at[d]
      BY <3>1, <3>2 DEF AskToStop, Position, WorkspaceTypeOK
    <3>4. PICK i \in DOMAIN members : members[i].adopted /\ members[i].socket = at[d]
      BY DEF AdoptedInv
    <3> QED
      BY <3>3, <3>4 DEF MembersInv
  <2>8. ~UNCHANGED vars
    BY DEF vars, processes
  <2> QED
    BY <2>4, <2>5, <2>6, <2>7, <2>8
    DEF Next, Skip, Identify, WaitMember, AskMember, Boot, Request, Forward, Answer, Reap, Leave,
        Detach, Detached, allVars
<1>2. IInv /\ [Next]_allVars
        => [\A d \in adopted \ launched : pc'[d] # pc[d] => supervisor' = supervisor]_allVars
  BY <1>1
<1> QED
  BY <1>2, WorkspaceInvariant, PTL DEF WorkspaceSpec, AdoptedLeftRunning
=============================================================================
