------------------------------ MODULE Shutdown -------------------------------
(***************************************************************************)
(* The daemon's last act: Engine::shutdown in                              *)
(* src/crates/zaz-daemon/src/engine.rs stops every service, then walks     *)
(* over them until none owes an exit any more.                             *)
(*                                                                         *)
(* Module Service follows one service through its whole life; here there   *)
(* are several, and all that happens is that they are stopped.  Their      *)
(* order is that of a hash map: any.  Time is counted down, and passes in  *)
(* the stops as well, which wait for room in the log channel (module       *)
(* LogStore shows what a full one does).                                   *)
(***************************************************************************)
EXTENDS Integers

CONSTANTS
  Services,
  WithStopCommand, WithKillCommand,  \* what each service configures
  InPty,                             \* a child in a PTY keeps its pid when it is reaped
  StopTimeout                        \* in ticks

ASSUME ShutdownAssumption ==
  /\ WithStopCommand \cup WithKillCommand \cup InPty \subseteq Services
  /\ StopTimeout \in Nat

VARIABLES
  phase,    \* "loop" before, "stop", "wait", "returned" or, on an error, "failed"
  todo,     \* services the current pass has not come to
  waiting,  \* some service of this pass is inside its window
  child,    \* the process: none, up, exited, or exited and reaped
  left,     \* ticks to the stop deadline, or Unset
  hook,     \* the stop or kill command the service keeps track of
  asked,    \* history: services that were asked to stop
  since,    \* history: ticks since then, StopTimeout at most
  forced    \* history: how often each was forced

history == <<asked, since, forced>>
vars == <<phase, todo, waiting, child, left, hook, history>>

Unset == -1

-----------------------------------------------------------------------------
(* stop_service *)
HasId(s) == child[s] \in {"up", "exited"} \/ (child[s] = "reaped" /\ s \in InPty)

\* slip: a deadline that is armed is kept
ArmDeadline_Kept(s) ==
  left' = IF HasId(s) /\ left[s] = Unset THEN [left EXCEPT ![s] = StopTimeout] ELSE left

ArmDeadline(s) == left' = IF HasId(s) THEN [left EXCEPT ![s] = StopTimeout] ELSE left

\* SIGTERM goes to the process group: a group whose last process was reaped is an error, and
\* the error ends the shutdown.
Signal(s) ==
  /\ UNCHANGED hook
  /\ \/ ArmDeadline(s) /\ UNCHANGED phase
     \/ child[s] = "reaped" /\ HasId(s) /\ phase' = "failed" /\ UNCHANGED left

\* The command replaces the signal, and is started whether or not the service runs.
StopCommand(s) ==
  /\ s \in WithStopCommand
  /\ hook' = [hook EXCEPT ![s] = "stop"] /\ ArmDeadline(s) /\ UNCHANGED phase

\* A command that cannot be expanded or spawned falls back to the signal.
StopService(s) ==
  /\ phase = "stop" /\ s \in todo
  /\ StopCommand(s) \/ Signal(s)
  /\ asked' = asked \cup {s} /\ since' = [since EXCEPT ![s] = 0]
  /\ todo' = todo \ {s} /\ UNCHANGED <<waiting, child, forced>>

AllStopped ==
  /\ phase = "stop" /\ todo = {}
  /\ phase' = "wait" /\ todo' = Services /\ waiting' = FALSE
  /\ UNCHANGED <<child, left, hook, history>>

-----------------------------------------------------------------------------
(* The wait, one service at a time. *)
Reap(s) == child' = [child EXCEPT ![s] = IF @ = "exited" THEN "reaped" ELSE @]

Due(s) == left[s] = 0

\* slip: what runs is waited for, whether or not a deadline bounds it
Owes_WhateverRuns(s) == (child[s] = "up" \/ hook[s] # "none") /\ ~Due(s)

\* A deadline that is still open, of a service or a hook that still runs.
Owes(s) == (child[s] = "up" \/ hook[s] # "none") /\ left[s] > 0

Look(s) ==
  /\ phase = "wait" /\ s \in todo /\ ~(Due(s) /\ (child[s] = "up" \/ hook[s] # "none"))
  /\ Reap(s) /\ waiting' = (waiting \/ Owes(s)) /\ todo' = todo \ {s}
  /\ UNCHANGED <<phase, left, hook, history>>

\* enforce_stop_deadline and handle_escalation: a hook that still runs is killed, then a
\* service that still runs, by SIGKILL or its kill command; the deadline is gone either way.
Escalate(s) ==
  /\ phase = "wait" /\ s \in todo /\ Due(s) /\ (child[s] = "up" \/ hook[s] # "none")
  /\ Reap(s) /\ left' = [left EXCEPT ![s] = Unset] /\ todo' = todo \ {s}
  /\ IF child[s] = "up"
     THEN /\ forced' = [forced EXCEPT ![s] = @ + 1]
          /\ \/ s \in WithKillCommand /\ hook' = [hook EXCEPT ![s] = "kill"]
             \/ hook' = [hook EXCEPT ![s] = "none"]
     ELSE hook' = [hook EXCEPT ![s] = "none"] /\ UNCHANGED forced
  /\ UNCHANGED <<phase, waiting, asked, since>>

\* slip: one pass is enough
EndPass_Once ==
  /\ phase = "wait" /\ todo = {} /\ phase' = "returned"
  /\ UNCHANGED <<todo, waiting, child, left, hook, history>>

\* drain_and_flush_now comes last.
EndPass ==
  /\ phase = "wait" /\ todo = {}
  /\ IF waiting THEN todo' = Services /\ waiting' = FALSE /\ UNCHANGED phase
                ELSE phase' = "returned" /\ UNCHANGED <<todo, waiting>>
  /\ UNCHANGED <<child, left, hook, history>>

-----------------------------------------------------------------------------
(* Beside the engine: processes and commands end when they like, or never. *)
Exits(s) ==
  /\ child[s] = "up" /\ child' = [child EXCEPT ![s] = "exited"]
  /\ UNCHANGED <<phase, todo, waiting, left, hook, history>>

HookEnds(s) ==
  /\ hook[s] # "none" /\ hook' = [hook EXCEPT ![s] = "none"]
  /\ UNCHANGED <<phase, todo, waiting, child, left, history>>

Tick ==
  /\ left' = [s \in Services |-> IF left[s] > 0 THEN left[s] - 1 ELSE left[s]]
  /\ since' = [s \in Services |-> IF s \in asked /\ since[s] < StopTimeout
                                  THEN since[s] + 1 ELSE since[s]]
  /\ UNCHANGED <<phase, todo, waiting, child, hook, asked, forced>>

-----------------------------------------------------------------------------
\* The daemon is told to go down at any time: stops may be under way.  A service that exits
\* loses its deadline, and not the hook.
MayFind(processes, deadlines, commands) ==
  \A s \in Services :
    /\ processes[s] = "none" => deadlines[s] = Unset
    /\ commands[s] = "stop" =>
         s \in WithStopCommand /\ (processes[s] = "none" \/ deadlines[s] >= 0)
    /\ commands[s] = "kill" => s \in WithKillCommand

Init ==
  /\ phase = "stop" /\ todo = Services /\ waiting = FALSE
  /\ child \in [Services -> {"none", "up", "exited", "reaped"}]
  /\ left \in [Services -> {Unset} \cup 0..StopTimeout]
  /\ hook \in [Services -> {"none", "stop", "kill"}]
  /\ MayFind(child, left, hook)
  /\ asked = {} /\ since = [s \in Services |-> 0] /\ forced = [s \in Services |-> 0]

Proceed == (\E s \in Services : StopService(s) \/ Look(s) \/ Escalate(s)) \/ AllStopped \/ EndPass

Next == Proceed \/ Tick \/ \E s \in Services : Exits(s) \/ HookEnds(s)

\* The loop runs and time passes; nothing is assumed of the services.
Spec == Init /\ [][Next]_vars /\ WF_vars(Proceed) /\ WF_vars(Tick)

-----------------------------------------------------------------------------
(* Every variable holds what the code may put into it. *)
TypeOK ==
  /\ phase \in {"loop", "stop", "wait", "returned", "failed"}
  /\ todo \subseteq Services /\ waiting \in BOOLEAN
  /\ child \in [Services -> {"none", "up", "exited", "reaped"}]
  /\ left \in [Services -> {Unset} \cup 0..StopTimeout]
  /\ hook \in [Services -> {"none", "stop", "kill"}]
  /\ asked \subseteq Services /\ since \in [Services -> 0..StopTimeout]
  /\ forced \in [Services -> Nat]

(* A service is forced once at most, and not before the whole stop_timeout has passed      *)
(* since the shutdown asked it, also when an older stop was under way.                     *)
ForcedOnceAfterItsWindow ==
  \A s \in Services : forced[s] = 0 \/ (forced[s] = 1 /\ since[s] = StopTimeout)

(* A shutdown that returns without an error has asked every service, and leaves none       *)
(* running that was not forced.                                                            *)
NoneLeftUnforced ==
  phase = "returned" => \A s \in Services : s \in asked /\ (child[s] = "up" => forced[s] = 1)

(* "The loop terminates" (engine.rs:2259), whatever the services and their hooks do.       *)
ShutdownEnds == phase = "stop" ~> phase \in {"returned", "failed"}

(* What ForcedOnceAfterItsWindow and NoneLeftUnforced rest on: in the wait every service   *)
(* was asked, and one that runs without a deadline was forced; a deadline and the time     *)
(* since the service was asked add up to its window.                                       *)
IInv ==
  /\ TypeOK
  /\ phase = "stop" => asked = Services \ todo
  /\ phase \in {"wait", "returned"} => asked = Services
  /\ \A s \in Services :
       /\ s \notin asked => forced[s] = 0
       /\ s \in asked /\ child[s] = "up" => left[s] + since[s] = StopTimeout \/ forced[s] = 1
       /\ forced[s] \in {0, 1}
       /\ forced[s] = 1 => since[s] = StopTimeout /\ left[s] = Unset
       /\ phase \in {"wait", "returned"} /\ s \notin todo /\ ~waiting /\ child[s] = "up"
            => forced[s] = 1

(* "Stops every service, [...] waits up to each service's own stop_timeout for it to exit, *)
(* then force kills whatever is still running" (engine.rs:2220-2222).                      *)
EveryServiceIsStopped == phase = "failed" => asked = Services

(* "A stop hook that outlives its service is waited on too, so its output lands before the *)
(* daemon goes away" (engine.rs:2257-2258).                                                *)
StopHooksAreWaitedFor == phase = "returned" => \A s \in Services : hook[s] # "stop"
=============================================================================
