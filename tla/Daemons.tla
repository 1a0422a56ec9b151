------------------------------- MODULE Daemons -------------------------------
(***************************************************************************)
(* Daemon processes and the sockets they are found by: how a daemon comes  *)
(* up and goes down (run_daemon in src/main.rs, Server in                  *)
(* crates/zaz-daemon/src/server.rs), and the commands that start, attach   *)
(* to and stop one (start_daemon_command, run_tui, stop_daemon).           *)
(*                                                                         *)
(* A configuration is named by the socket it has by default.  A socket     *)
(* file belongs to the daemon that bound it and outlives it in a crash;    *)
(* removing the file takes no notice of whose it is.  A probe connects and *)
(* asks for the status, a second for each: a daemon answers from its loop  *)
(* only, and from there not when it is busy for longer.                    *)
(***************************************************************************)
EXTENDS Naturals

CONSTANTS
  Sockets,
  Processes,   \* bound: the daemon processes there can be
  Users,       \* command lines used at the same time
  Attempts,    \* rounds of wait_for_daemon_ready (100, or 20 for the interface)
  MaxCommands, \* bound: commands a user runs
  MaxCrashes,  \* bound: daemons that are killed or crash
  None

ASSUME DaemonsAssumption ==
  /\ Attempts \in Nat \ {0} /\ {MaxCommands, MaxCrashes} \subseteq Nat
  /\ None \notin Sockets \cup Processes

VARIABLES
  file,     \* the daemon whose listener the socket file belongs to
  pc,       \* where each daemon process is
  at,       \* the socket it was given
  serves,   \* the configuration it was given
  user,     \* the command each user runs
  commands, crashes,
  raced     \* history: sockets where a daemon went ahead beside another

sockets == <<file, raced>>
processes == <<pc, at, serves>>
vars == <<sockets, processes, user, commands, crashes>>

In(states) == {d \in Processes : pc[d] \in states}
Alive(d) == d \in Processes \ In({"off", "dead"})
Running(d) == pc[d] \in {"startup", "loop"}

-----------------------------------------------------------------------------
(* check_daemon_availability *)
Answers(s) == file[s] \in In({"loop"})

\* Nobody listens, or nobody answers within the second: not before the loop, nor after it,
\* nor when the loop is at a long request or hook.
Silent(s) == file[s] \in {None} \cup In({"dead", "startup", "loop", "acked"})

-----------------------------------------------------------------------------
(* run_daemon *)
Move(d, to) == pc' = [pc EXCEPT ![d] = to] /\ UNCHANGED <<at, serves>>

Others(d) == {e \in Processes \ {d} : at[e] = at[d] /\ pc[e] \notin {"off", "dead", "down"}}

\* slip: a daemon that is found running is not taken for one
ProbeSocket_GoesOn(d) ==
  /\ pc[d] = "probe" /\ Move(d, "load")
  /\ raced' = IF Others(d) = {} \/ Answers(at[d]) THEN raced ELSE raced \cup {at[d]}
  /\ UNCHANGED <<file, user, commands, crashes>>

ProbeSocket(d) ==
  /\ pc[d] = "probe"
  /\ \/ Answers(at[d]) /\ Move(d, "dead") /\ UNCHANGED raced
     \/ /\ Silent(at[d]) /\ Move(d, "load")
        /\ raced' = IF Others(d) = {} THEN raced ELSE raced \cup {at[d]}
  /\ UNCHANGED <<file, user, commands, crashes>>

\* Engine::with_options: a configuration that does not load ends the process.
Load(d) ==
  /\ pc[d] = "load" /\ (Move(d, "exists") \/ Move(d, "dead"))
  /\ UNCHANGED <<sockets, user, commands, crashes>>

\* Server::bind, a system call at a time; the ones that fail end the process.
LookForFile(d) ==
  /\ pc[d] = "exists" /\ Move(d, IF file[at[d]] = None THEN "bind" ELSE "remove")
  /\ UNCHANGED <<sockets, user, commands, crashes>>

RemoveFile(d) ==
  /\ pc[d] = "remove"
  /\ Move(d, IF file[at[d]] = None THEN "dead" ELSE "bind")
  /\ file' = [file EXCEPT ![at[d]] = None]
  /\ UNCHANGED <<raced, user, commands, crashes>>

Bind(d) ==
  /\ pc[d] = "bind"
  /\ \/ file[at[d]] # None /\ Move(d, "dead") /\ UNCHANGED file
     \/ file[at[d]] = None /\ Move(d, "startup") /\ file' = [file EXCEPT ![at[d]] = d]
  /\ UNCHANGED <<raced, user, commands, crashes>>

\* startup() comes before the loop that answers.
StartupEnds(d) ==
  /\ pc[d] = "startup" /\ Move(d, "loop")
  /\ UNCHANGED <<sockets, user, commands, crashes>>

\* The loop is left on a signal or once a Shutdown was acknowledged; the server goes first,
\* and with it the file at its path.
LeaveLoop(d) ==
  /\ pc[d] \in {"loop", "acked"} /\ Move(d, "down")
  /\ file' = [file EXCEPT ![at[d]] = None]
  /\ UNCHANGED <<raced, user, commands, crashes>>

\* Engine::shutdown is over.
GoDown(d) ==
  /\ pc[d] = "down" /\ Move(d, "dead") /\ UNCHANGED <<sockets, user, commands, crashes>>

Crash(d) ==
  /\ Alive(d) /\ crashes < MaxCrashes /\ crashes' = crashes + 1 /\ Move(d, "dead")
  /\ UNCHANGED <<sockets, user, commands>>

Launch(d, s, c) ==
  /\ pc[d] = "off" /\ pc' = [pc EXCEPT ![d] = "probe"]
  /\ at' = [at EXCEPT ![d] = s] /\ serves' = [serves EXCEPT ![d] = c]

Kill(d) == Move(d, "dead")

-----------------------------------------------------------------------------
(* A command line.  step is where it is, child the daemon it launched or is *)
(* connected to, result what it has told the user.                          *)
Idle == [command |-> "none", step |-> "idle", socket |-> None, config |-> None,
         child |-> None, tries |-> 0, result |-> "none"]

Set(u, r) == user' = [user EXCEPT ![u] = r]
Ends(u, result) == Set(u, [user[u] EXCEPT !.step = "idle", !.result = result])

BeginCommand(u) ==
  /\ user[u].step = "idle" /\ commands < MaxCommands /\ commands' = commands + 1
  /\ \E s \in Sockets, c \in Sockets :
       \/ \E k \in {"start", "interface"} :
            Set(u, [Idle EXCEPT !.command = k, !.step = "probe", !.socket = s, !.config = c])
       \/ Set(u, [Idle EXCEPT !.command = "stop", !.step = "connect", !.socket = s])
  /\ UNCHANGED <<sockets, processes, crashes>>

\* A daemon that answers is used; otherwise one is launched.  The interface loads the
\* configuration first, and does not launch what would not come up.
ProbeFirst(u) ==
  /\ user[u].step = "probe"
  /\ LET s == user[u].socket
     IN \/ /\ Answers(s) /\ Ends(u, "running") /\ UNCHANGED processes
        \/ user[u].command = "interface" /\ Silent(s) /\ Ends(u, "failed") /\ UNCHANGED processes
        \/ /\ Silent(s)
           /\ \E d \in Processes :
                /\ Launch(d, s, user[u].config)
                /\ Set(u, [user[u] EXCEPT !.step = "wait", !.child = d])
  /\ UNCHANGED <<sockets, commands, crashes>>

(* wait_for_daemon_ready: did the child exit, does somebody answer, again.  *)
Exited(d) == pc[d] = "dead"

WaitChild(u) ==
  /\ user[u].step = "wait"
  /\ LET r == user[u]
     IN \/ /\ Exited(r.child)
           /\ IF r.command = "start" THEN Ends(u, "failed") ELSE Set(u, [r EXCEPT !.step = "again"])
        \/ ~Exited(r.child) /\ Set(u, [r EXCEPT !.step = "ask"])
  /\ UNCHANGED <<sockets, processes, commands, crashes>>

AskReady(u) ==
  /\ user[u].step = "ask"
  /\ LET r == user[u]
     IN \/ Answers(r.socket) /\ Ends(u, "started")
        \/ /\ Silent(r.socket)
           /\ Set(u, [r EXCEPT !.tries = @ + 1,
                               !.step = IF r.tries + 1 < Attempts THEN "wait" ELSE "late"])
  /\ UNCHANGED <<sockets, processes, commands, crashes>>

\* slip: the command gives up and leaves the daemon to itself
GiveUp_Leaves(u) ==
  /\ user[u].step = "late"
  /\ IF user[u].command = "start" THEN Ends(u, "failed") ELSE Ends(u, "attached")
  /\ UNCHANGED <<sockets, processes, commands, crashes>>

\* Out of patience: zaz start kills its child, the interface opens without an answer.
GiveUp(u) ==
  /\ user[u].step = "late"
  /\ \/ user[u].command = "start" /\ Kill(user[u].child) /\ Ends(u, "failed")
     \/ user[u].command = "interface" /\ Ends(u, "attached") /\ UNCHANGED processes
  /\ UNCHANGED <<sockets, commands, crashes>>

\* The interface attaches to a daemon that won the socket meanwhile.
AskAgain(u) ==
  /\ user[u].step = "again"
  /\ \/ Answers(user[u].socket) /\ Ends(u, "attached")
     \/ Silent(user[u].socket) /\ Ends(u, "failed")
  /\ UNCHANGED <<sockets, processes, commands, crashes>>

\* stop_daemon: no daemon is no error, and the answer is awaited without a limit.
Connect(u) ==
  /\ user[u].step = "connect"
  /\ LET d == file[user[u].socket]
     IN IF Alive(d)
        THEN Set(u, [user[u] EXCEPT !.step = "asking", !.child = d])
        ELSE Ends(u, "nothing")
  /\ UNCHANGED <<sockets, processes, commands, crashes>>

\* The loop answers, and leaves after the answer is on the wire.
Acknowledge(d) == pc[d] \in {"loop", "acked"} /\ Move(d, "acked")

Stop(u) ==
  /\ user[u].step = "asking"
  /\ \/ Acknowledge(user[u].child) /\ Ends(u, "stopped")
     \/ Exited(user[u].child) /\ Ends(u, "failed") /\ UNCHANGED processes
  /\ UNCHANGED <<sockets, commands, crashes>>

-----------------------------------------------------------------------------
DaemonsInit ==
  /\ file = [s \in Sockets |-> None] /\ raced = {}
  /\ pc = [d \in Processes |-> "off"]
  /\ at = [d \in Processes |-> None] /\ serves = [d \in Processes |-> None]
  /\ user = [u \in Users |-> Idle] /\ commands = 0 /\ crashes = 0

Daemon(d) ==
  \/ ProbeSocket(d) \/ Load(d) \/ LookForFile(d) \/ RemoveFile(d) \/ Bind(d)
  \/ StartupEnds(d) \/ LeaveLoop(d) \/ GoDown(d)

Command(u) ==
  \/ ProbeFirst(u) \/ WaitChild(u) \/ AskReady(u) \/ GiveUp(u) \/ AskAgain(u)
  \/ Connect(u) \/ Stop(u)

DaemonsNext ==
  \/ \E d \in Processes : Daemon(d) \/ Crash(d)
  \/ \E u \in Users : Command(u) \/ BeginCommand(u)

Spec == DaemonsInit /\ [][DaemonsNext]_vars

-----------------------------------------------------------------------------
(* Every variable holds what the code may put into it. *)
TypeOK ==
  /\ file \in [Sockets -> Processes \cup {None}] /\ raced \subseteq Sockets
  /\ pc \in [Processes -> {"off", "probe", "load", "exists", "remove", "bind", "startup",
                            "loop", "acked", "down", "dead"}]
  /\ {at, serves} \subseteq [Processes -> Sockets \cup {None}]
  /\ \A d \in Processes : pc[d] # "off" => at[d] \in Sockets
  /\ user \in [Users ->
       [command : {"none", "start", "interface", "stop"},
        step : {"idle", "probe", "wait", "ask", "late", "again", "connect", "asking"},
        socket : Sockets \cup {None}, config : Sockets \cup {None},
        child : Processes \cup {None}, tries : 0..Attempts,
        result : {"none", "running", "started", "attached", "failed", "nothing", "stopped"}]]
  /\ commands \in 0..MaxCommands /\ crashes \in 0..MaxCrashes

(* A daemon that runs is the one its socket leads to, and so the only one, as long as no   *)
(* daemon went past its probe while another of the socket was on its way or up.            *)
ServesWhatItBound ==
  \A d \in Processes : Running(d) /\ at[d] \notin raced => file[at[d]] = d

(* A start that was reported as failed left no daemon behind.                              *)
FailedStartLeavesNothing ==
  \A u \in Users : user[u].command = "start" /\ user[u].result = "failed"
                     => ~Alive(user[u].child)

(* One daemon of a socket at a time ("daemon already running", src/main.rs:937).           *)
OneAtATime ==
  \A d, e \in Processes : Running(d) /\ Running(e) /\ at[d] = at[e] => d = e

(* The supervisor waits for the socket file of a stopped child to go "so a follow-up       *)
(* command does not race a half-stopped child" (src/supervisor.rs:604): a daemon that was  *)
(* told to stop is over before the next one of its socket runs.                            *)
StoppedBeforeStarted ==
  \A d, e \in Processes : pc[d] = "down" /\ Running(e) => at[d] # at[e]
=============================================================================
