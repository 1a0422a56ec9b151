------------------------------- MODULE Service -------------------------------
(***************************************************************************)
(* One supervised service: its process, its stop deadline, its readiness   *)
(* window and its scheduled restart (src/crates/zaz-process/src/service.rs *)
(* and the per-service halves of handle_service_action, check_services and *)
(* reload_config in src/crates/zaz-daemon/src/engine.rs).                  *)
(*                                                                         *)
(* The engine is one task, but not one atomic block.  Its poll branch      *)
(* awaits a startup delay, a cleanup hook and room in its log channel, and *)
(* an API command that arrives meanwhile drops the branch where it stands: *)
(* pc says where that is.  The service's process, its hooks and its probes *)
(* run beside the engine and end when they like, or never.                 *)
(*                                                                         *)
(* Time is counted down: a deadline is the number of ticks left to it.     *)
(***************************************************************************)
EXTENDS Integers

CONSTANTS
  HasReadyCheck, HasStopCommand, HasKillCommand,  \* what the service configures
  UsesPty,                   \* a child in a PTY keeps its pid when it is reaped
  LogMayBlock,               \* the log channel may be full when the engine sends
  SpawnMayFail,              \* the system may refuse to start a process
  MayNotExpand,              \* a variable of the command may be undefined
  ClientPolls,               \* a client asks for the status again and again
  StopTimeout, ReadyTimeout, ProbeInterval,       \* in ticks
  MinDelay, MaxDelay,        \* the restart backoff, in ticks
  MaxRuns, MaxReloads        \* bounds: runs and restarts of the group, reloads

ASSUME ServiceAssumption ==
  /\ {HasReadyCheck, HasStopCommand, HasKillCommand, UsesPty, LogMayBlock,
       SpawnMayFail, MayNotExpand, ClientPolls} \subseteq BOOLEAN
  /\ {StopTimeout, ReadyTimeout, MaxRuns, MaxReloads} \subseteq Nat
  /\ ProbeInterval \in Nat \ {0}
  /\ MinDelay \in Nat \ {0} /\ MaxDelay \in Nat /\ MinDelay <= MaxDelay

VARIABLES
  svc,         \* the Service struct, with the state of the process in child
  slot,        \* pending_restarts: ticks to the respawn, or Unset
  status,      \* the status of the service the user sees
  started,     \* the group's services_started
  pc,          \* what the engine awaits on behalf of this service
  runs, reloads,             \* what is left of the bounds
  expands,     \* the variables of the configuration define what the command names
  strayProbe,  \* a probe still runs whose window is gone
  strayHook,   \* a stop hook still runs that the service lost track of
  leftBehind,  \* a process of a Service struct that a reload dropped
  sinceAsk,    \* ticks since the live process was last asked to stop, or Unset
  answers,     \* readiness verdicts since the last spawn
  passed,      \* a check exited zero since the last spawn
  skipped      \* it was not started, or not restarted, for want of a variable

ghosts == <<strayProbe, strayHook, leftBehind, sinceAsk, answers, passed, skipped>>

vars == <<svc, slot, status, started, pc, runs, reloads, expands, ghosts>>

Unset == -1

Expansions == IF MayNotExpand THEN BOOLEAN ELSE {TRUE}

NoWindow == [open |-> FALSE, left |-> 0, next |-> 0, tried |-> FALSE, probe |-> "none"]

FreshWindow == [NoWindow EXCEPT !.open = TRUE, !.left = ReadyTimeout]

NewService ==
  [child |-> "none", state |-> "Stopped", delay |-> MinDelay, stopLeft |-> Unset,
   hook |-> "none", ready |-> NoWindow]

-----------------------------------------------------------------------------
(***************************************************************************)
(* The methods of Service.  A child is alive, dying of a SIGKILL, exited   *)
(* but not waited for, or reaped by an is_running that nobody acted on.    *)
(***************************************************************************)
IsRunning(s) == s.child \in {"alive", "dying"}

CanSignal(s) == s.child \in {"alive", "dying", "exited"}

HasId(s) == CanSignal(s) \/ (s.child = "reaped" /\ UsesPty)

ReapIfExited(s) ==
  [s EXCEPT !.child = IF @ = "exited" THEN "reaped" ELSE @]

Start(s) ==
  IF s.state = "Running" THEN s
  ELSE [s EXCEPT !.child = "alive", !.state = "Running",
                 !.stopLeft = Unset, !.ready = NoWindow]

ArmReadiness(s) ==
  IF HasReadyCheck THEN [s EXCEPT !.ready = FreshWindow] ELSE s

\* slip: a second request keeps the deadline of the first
OpenStop_KeepsDeadline(s) ==
  [s EXCEPT !.ready = NoWindow, !.stopLeft = IF @ = Unset THEN StopTimeout ELSE @]

OpenStop(s) == [s EXCEPT !.ready = NoWindow, !.stopLeft = StopTimeout]

SignalRestart(s) == IF CanSignal(s) THEN OpenStop(s) ELSE s

\* slip: takes the hook it was called for as the sign of a stop under way
ArmStopDeadline_Once(s) == IF HasId(s) /\ s.hook = "none" THEN OpenStop(s) ELSE s

ArmStopDeadline(s) == IF HasId(s) THEN OpenStop(s) ELSE s

BeginHook(s, kind) == [s EXCEPT !.hook = kind]

KillRunningHook(s) == [s EXCEPT !.hook = "none"]

ForceKill(s) == [s EXCEPT !.child = IF @ = "alive" THEN "dying" ELSE @]

NextDelay(d, clean) ==
  IF clean THEN MinDelay ELSE IF 2 * d <= MaxDelay THEN 2 * d ELSE MaxDelay

Check(s, clean) ==
  [s EXCEPT !.child = "none", !.state = "Stopped", !.stopLeft = Unset,
            !.ready = NoWindow, !.delay = NextDelay(@, clean)]

(***************************************************************************)
(* stop_service: the stop hook replaces the signal; one that cannot be     *)
(* expanded or spawned falls back to it.                                   *)
(***************************************************************************)
StopService(s, hookRuns) ==
  IF hookRuns THEN ArmStopDeadline(BeginHook(s, "stop")) ELSE SignalRestart(s)

HookChoices == IF HasStopCommand THEN BOOLEAN ELSE {FALSE}

SpawnStatus(s) == IF s.ready.open THEN "Starting" ELSE "Running"

-----------------------------------------------------------------------------
Init ==
  /\ svc = NewService
  /\ slot = Unset
  /\ status = "Pending"
  /\ started = FALSE
  /\ pc = "idle"
  /\ runs = MaxRuns
  /\ reloads = MaxReloads
  /\ expands \in Expansions
  /\ skipped = FALSE
  /\ strayProbe = FALSE /\ strayHook = FALSE /\ leftBehind = "none"
  /\ sinceAsk = Unset /\ answers = 0 /\ passed = FALSE

(***************************************************************************)
(* What the ghosts learn: a window that goes leaves its probe to itself, a *)
(* hook that starts makes the service forget the one before, and a spawn   *)
(* begins a new account of stops and answers.                              *)
(***************************************************************************)
ObserveWindow ==
  strayProbe' = (strayProbe \/ (svc.ready.probe = "running" /\ svc'.ready.probe = "none"))

ObserveSpawn ==
  LET spawned == svc.state # "Running" /\ svc'.state = "Running"
  IN  /\ sinceAsk' = IF spawned THEN Unset ELSE sinceAsk
      /\ answers'  = IF spawned THEN 0 ELSE answers
      /\ passed'   = IF spawned THEN FALSE ELSE passed
      /\ skipped'  = IF spawned THEN FALSE ELSE skipped

ObserveStop(hookRuns) ==
  /\ sinceAsk' = IF IsRunning(svc) THEN 0 ELSE sinceAsk
  /\ strayHook' = (strayHook \/ (hookRuns /\ svc.hook = "stop"))
  /\ UNCHANGED <<answers, passed, skipped>>

(***************************************************************************)
(* handle_service_action: a first start, or a start in place of a signal   *)
(* when the process is gone, awaits the delay and the cleanup hook.  The   *)
(* group runs in the poll branch or on behalf of a request, which nothing  *)
(* cancels.                                                                *)
(***************************************************************************)
BeginStart(branch) ==
  /\ pc = "idle" /\ runs > 0
  /\ ~started \/ ~IsRunning(svc)
  /\ runs' = runs - 1
  /\ svc' = ReapIfExited(svc)
  /\ pc' = branch
  /\ UNCHANGED <<slot, status, started, reloads, expands, ghosts>>

(***************************************************************************)
(* The rest of it, once the hook is done: start, which may fail to spawn,  *)
(* and a fresh readiness window.  The slot of a scheduled restart stays.   *)
(***************************************************************************)
FinishStart ==
  /\ pc \in {"starting", "starting_for_request"} /\ expands
  /\ svc' = ArmReadiness(Start(svc))
  /\ status' = SpawnStatus(svc')
  /\ started' = TRUE
  /\ pc' = "idle"
  /\ ObserveWindow /\ ObserveSpawn
  /\ UNCHANGED <<slot, runs, reloads, expands, strayHook, leftBehind>>

StartFails ==
  /\ pc \in {"starting", "starting_for_request"} /\ expands
  /\ SpawnMayFail /\ svc.state # "Running"
  /\ pc' = "idle"
  /\ UNCHANGED <<svc, slot, status, started, runs, reloads, expands, ghosts>>

(***************************************************************************)
(* A service whose command does not expand is passed over after its delay, *)
(* and its group counts as started all the same.                           *)
(***************************************************************************)
SkipStart ==
  /\ pc \in {"starting", "starting_for_request"} /\ ~expands
  /\ started' = TRUE
  /\ pc' = "idle"
  /\ skipped' = (skipped \/ (svc.state # "Running" /\ slot = Unset))
  /\ UNCHANGED <<svc, slot, status, runs, reloads, expands, strayProbe, strayHook,
                 leftBehind, sinceAsk, answers, passed>>

(***************************************************************************)
(* handle_service_action on a running service: it is asked to restart.     *)
(***************************************************************************)
SignalInstead(hookRuns) ==
  /\ pc = "idle" /\ runs > 0
  /\ started /\ IsRunning(svc)
  /\ runs' = runs - 1
  /\ svc' = StopService(svc, hookRuns)
  /\ status' = SpawnStatus(svc')
  /\ ObserveWindow /\ ObserveStop(hookRuns)
  /\ UNCHANGED <<slot, started, pc, reloads, expands, leftBehind>>

(***************************************************************************)
(* Where an API command finds the poll branch suspended, and may drop it.  *)
(***************************************************************************)
Cancellable ==
  pc \in {"starting", "respawning"}
    \cup (IF LogMayBlock THEN {"logging_exit", "killing", "passed", "timed_out"} ELSE {})

AtRequest == pc = "idle" \/ Cancellable

(***************************************************************************)
(* A request that only reads drops what the poll branch was doing.         *)
(***************************************************************************)
StatusRequest ==
  /\ ClientPolls /\ Cancellable
  /\ pc' = "idle"
  /\ UNCHANGED <<svc, slot, status, started, runs, reloads, expands, ghosts>>

(***************************************************************************)
(* restart_process: the service is asked to stop, whatever its state; the  *)
(* exit it leads to is what restarts it.                                   *)
(***************************************************************************)
RestartProcess(hookRuns) ==
  /\ AtRequest /\ runs > 0
  /\ runs' = runs - 1
  /\ pc' = "idle"
  /\ svc' = StopService(svc, hookRuns)
  /\ ObserveWindow /\ ObserveStop(hookRuns)
  /\ UNCHANGED <<slot, status, started, reloads, expands, leftBehind>>

(***************************************************************************)
(* reload_config for a modified group: its service is asked to stop, and   *)
(* rebuild_groups replaces it by a new one.  The old one goes, and with it *)
(* the deadline of the stop.                                               *)
(***************************************************************************)
Reload(hookRuns) ==
  /\ AtRequest /\ reloads > 0
  /\ reloads' = reloads - 1
  /\ pc' = "idle"
  /\ svc' = NewService
  /\ slot' = Unset /\ status' = "Pending" /\ started' = FALSE
  /\ leftBehind' = IF IsRunning(svc) THEN svc.child ELSE leftBehind
  /\ strayHook' = (strayHook \/ hookRuns \/ svc.hook = "stop")
  /\ ObserveWindow
  /\ sinceAsk' = Unset /\ answers' = 0 /\ passed' = FALSE /\ skipped' = FALSE
  /\ expands' \in Expansions
  /\ UNCHANGED runs

(***************************************************************************)
(* reload_config that finds the group as it was: of all there is here only *)
(* the variables its commands name may have changed.                       *)
(***************************************************************************)
ReloadOthers ==
  /\ AtRequest /\ reloads > 0
  /\ reloads' = reloads - 1
  /\ pc' = "idle"
  /\ expands' \in Expansions
  /\ UNCHANGED <<svc, slot, status, started, runs, ghosts>>

-----------------------------------------------------------------------------
(***************************************************************************)
(* check_services.  With a restart scheduled nothing else is looked at;    *)
(* when it is due, the cleanup hook is awaited with the slot still set.    *)
(***************************************************************************)
SlotDue ==
  /\ pc = "idle" /\ slot = 0 /\ expands
  /\ pc' = "respawning"
  /\ UNCHANGED <<svc, slot, status, started, runs, reloads, expands, ghosts>>

(***************************************************************************)
(* A command that does not expand by then ends the supervision: the slot   *)
(* is cleared, and nothing but a start of its group brings it back.        *)
(***************************************************************************)
SkipRespawn ==
  /\ pc = "idle" /\ slot = 0 /\ ~expands
  /\ slot' = Unset
  /\ skipped' = (svc.state # "Running")
  /\ UNCHANGED <<svc, status, started, pc, runs, reloads, expands, strayProbe, strayHook,
                 leftBehind, sinceAsk, answers, passed>>

\* slip: the slot of the scheduled restart is not cleared
Respawn_KeepsSlot ==
  /\ pc = "respawning"
  /\ svc' = ArmReadiness(Start(svc))
  /\ status' = SpawnStatus(svc')
  /\ pc' = "idle"
  /\ ObserveWindow /\ ObserveSpawn
  /\ UNCHANGED <<slot, started, runs, reloads, expands, strayHook, leftBehind>>

Respawn ==
  /\ pc = "respawning"
  /\ svc' = ArmReadiness(Start(svc))
  /\ status' = SpawnStatus(svc')
  /\ slot' = Unset
  /\ pc' = "idle"
  /\ ObserveWindow /\ ObserveSpawn
  /\ UNCHANGED <<started, runs, reloads, expands, strayHook, leftBehind>>

\* slip: a spawn that fails gives the scheduled restart up
RespawnFails_ForGood ==
  /\ pc = "respawning"
  /\ SpawnMayFail /\ svc.state # "Running"
  /\ slot' = Unset
  /\ pc' = "idle"
  /\ UNCHANGED <<svc, status, started, runs, reloads, expands, ghosts>>

RespawnFails ==
  /\ pc = "respawning"
  /\ SpawnMayFail /\ svc.state # "Running"
  /\ pc' = "idle"
  /\ UNCHANGED <<svc, slot, status, started, runs, reloads, expands, ghosts>>

(***************************************************************************)
(* check: an exit is noticed and reported in the log; only then the        *)
(* restart is scheduled.                                                   *)
(***************************************************************************)
ObserveExit(clean) ==
  /\ pc = "idle" /\ slot = Unset
  /\ svc.child \in {"exited", "reaped"}
  /\ svc' = Check(svc, clean)
  /\ status' = "Backoff"
  /\ pc' = "logging_exit"
  /\ sinceAsk' = Unset
  /\ ObserveWindow
  /\ UNCHANGED <<slot, started, runs, reloads, expands, strayHook, leftBehind,
                 answers, passed, skipped>>

ScheduleRestart ==
  /\ pc = "logging_exit"
  /\ slot' = svc.delay
  /\ pc' = "idle"
  /\ UNCHANGED <<svc, status, started, runs, reloads, expands, ghosts>>

NoExit ==
  /\ pc = "idle" /\ slot = Unset
  /\ svc.child \in {"none", "alive", "dying"}
  /\ pc' = "deadline"
  /\ UNCHANGED <<svc, slot, status, started, runs, reloads, expands, ghosts>>

(***************************************************************************)
(* enforce_stop_deadline: one-shot.  It kills a hook still running, then   *)
(* the service, through its kill_command when it has one.                  *)
(***************************************************************************)
DeadlineNotDue ==
  /\ pc = "deadline" /\ svc.stopLeft # 0
  /\ pc' = "readiness"
  /\ UNCHANGED <<svc, slot, status, started, runs, reloads, expands, ghosts>>

EnforceDeadline ==
  LET expired == [KillRunningHook(svc) EXCEPT !.stopLeft = Unset]
  IN  /\ pc = "deadline" /\ svc.stopLeft = 0
      /\ IF IsRunning(svc) /\ HasKillCommand
         THEN pc' = "killing" /\ svc' = expired /\ UNCHANGED sinceAsk
         ELSE /\ pc' = "readiness"
              /\ svc' = ForceKill(ReapIfExited(expired))
              /\ sinceAsk' = Unset
      /\ UNCHANGED <<slot, status, started, runs, reloads, expands, strayProbe, strayHook,
                     leftBehind, answers, passed, skipped>>

(***************************************************************************)
(* kill_service: the kill hook, or SIGKILL when it cannot run.             *)
(***************************************************************************)
RunKillCommand(hookRuns) ==
  /\ pc = "killing"
  /\ svc' = IF hookRuns THEN BeginHook(svc, "kill") ELSE ForceKill(svc)
  /\ sinceAsk' = Unset
  /\ pc' = "readiness"
  /\ UNCHANGED <<slot, status, started, runs, reloads, expands, strayProbe, strayHook,
                 leftBehind, answers, passed, skipped>>

(***************************************************************************)
(* tick_readiness over poll_readiness.  A probe that finished without      *)
(* passing leaves the window; a window owes one probe before it can close. *)
(***************************************************************************)
Window == svc.ready

ProbeDue ==
  /\ Window.left > 0 \/ ~Window.tried
  /\ Window.probe # "running" /\ Window.next = 0

\* slip: the verdict is given and the window stays open
WindowClosed_Kept(s) == [s EXCEPT !.ready.probe = "none"]

WindowClosed(s) == [s EXCEPT !.ready = NoWindow]

ReadinessIdle ==
  /\ pc = "readiness"
  /\ ~Window.open
       \/ /\ Window.probe # "passed"
          /\ ~ProbeDue
          /\ Window.left > 0 \/ ~Window.tried
  /\ svc' = [svc EXCEPT !.ready.probe = IF @ = "failed" THEN "none" ELSE @]
  /\ pc' = "idle"
  /\ UNCHANGED <<slot, status, started, runs, reloads, expands, ghosts>>

StartProbe ==
  /\ pc = "readiness"
  /\ Window.open /\ Window.probe # "passed" /\ ProbeDue
  /\ svc' = [svc EXCEPT !.ready.probe = "running", !.ready.tried = TRUE,
                        !.ready.next = ProbeInterval]
  /\ pc' = "idle"
  /\ UNCHANGED <<slot, status, started, runs, reloads, expands, ghosts>>

ProbeCannotRun ==
  /\ pc = "readiness"
  /\ Window.open /\ Window.probe # "passed" /\ ProbeDue
  /\ svc' = WindowClosed(svc)
  /\ status' = "Failed"
  /\ answers' = answers + 1
  /\ pc' = "idle"
  /\ UNCHANGED <<slot, started, runs, reloads, expands, strayProbe, strayHook, leftBehind,
                 sinceAsk, passed, skipped>>

ReadinessPassed ==
  /\ pc = "readiness"
  /\ Window.open /\ Window.probe = "passed"
  /\ svc' = WindowClosed(svc)
  /\ passed' = TRUE
  /\ answers' = answers + 1
  /\ pc' = "passed"
  /\ UNCHANGED <<slot, status, started, runs, reloads, expands, strayProbe, strayHook,
                 leftBehind, sinceAsk, skipped>>

ReadinessTimedOut ==
  /\ pc = "readiness"
  /\ Window.open /\ Window.probe # "passed"
  /\ Window.left = 0 /\ Window.tried
  /\ svc' = WindowClosed(svc)
  /\ answers' = answers + 1
  /\ pc' = "timed_out"
  /\ UNCHANGED <<slot, status, started, runs, reloads, expands, strayProbe, strayHook,
                 leftBehind, sinceAsk, passed, skipped>>

RecordVerdict ==
  /\ pc \in {"passed", "timed_out"}
  /\ status' = IF pc = "passed" THEN "Running" ELSE "Failed"
  /\ pc' = "idle"
  /\ UNCHANGED <<svc, slot, started, runs, reloads, expands, ghosts>>

EngineStep ==
  \/ FinishStart \/ StartFails \/ SkipStart
  \/ SlotDue \/ SkipRespawn \/ Respawn \/ RespawnFails
  \/ ScheduleRestart \/ NoExit \/ DeadlineNotDue \/ EnforceDeadline
  \/ ReadinessIdle \/ StartProbe \/ ProbeCannotRun
  \/ ReadinessPassed \/ ReadinessTimedOut \/ RecordVerdict
  \/ \E b \in BOOLEAN : ObserveExit(b) \/ RunKillCommand(b)

Command ==
  \/ \E branch \in {"starting", "starting_for_request"} : BeginStart(branch)
  \/ \E hookRuns \in HookChoices :
       SignalInstead(hookRuns) \/ RestartProcess(hookRuns) \/ Reload(hookRuns)
  \/ ReloadOthers \/ StatusRequest

-----------------------------------------------------------------------------
(***************************************************************************)
(* The processes.  A live one may exit at any time; so do hooks and probes.*)
(***************************************************************************)
ProcessExits ==
  /\ IsRunning(svc)
  /\ svc' = [svc EXCEPT !.child = "exited"]
  /\ UNCHANGED <<slot, status, started, pc, runs, reloads, expands, ghosts>>

ProbeFinishes(verdict) ==
  /\ svc.ready.probe = "running"
  /\ svc' = [svc EXCEPT !.ready.probe = verdict]
  /\ UNCHANGED <<slot, status, started, pc, runs, reloads, expands, ghosts>>

HookFinishes ==
  /\ svc.hook # "none"
  /\ svc' = [svc EXCEPT !.hook = "none"]
  /\ UNCHANGED <<slot, status, started, pc, runs, reloads, expands, ghosts>>

StrayEnds ==
  /\ \/ strayProbe /\ strayProbe' = FALSE /\ UNCHANGED <<strayHook, leftBehind>>
     \/ strayHook /\ strayHook' = FALSE /\ UNCHANGED <<strayProbe, leftBehind>>
     \/ leftBehind # "none" /\ leftBehind' = "none" /\ UNCHANGED <<strayProbe, strayHook>>
  /\ UNCHANGED <<svc, slot, status, started, pc, runs, reloads, expands, sinceAsk,
                 answers, passed, skipped>>

World ==
  \/ ProcessExits \/ HookFinishes \/ StrayEnds
  \/ \E verdict \in {"passed", "failed"} : ProbeFinishes(verdict)

\* slip: never reaches zero
CountDown_ToOne(n) == IF n > 1 THEN n - 1 ELSE n

CountDown(n) == IF n > 0 THEN n - 1 ELSE n

Tick ==
  /\ svc' = [svc EXCEPT !.stopLeft = CountDown(@), !.ready.left = CountDown(@),
                        !.ready.next = CountDown(@)]
  /\ slot' = CountDown(slot)
  /\ sinceAsk' = IF sinceAsk \in 0 .. StopTimeout - 1 THEN sinceAsk + 1 ELSE sinceAsk
  /\ <<svc, slot, sinceAsk>>' # <<svc, slot, sinceAsk>>
  /\ UNCHANGED <<status, started, pc, runs, reloads, expands, strayProbe, strayHook, leftBehind,
                 answers, passed, skipped>>

Next == EngineStep \/ Command \/ World \/ Tick

Spec == Init /\ [][Next]_vars

(***************************************************************************)
(* The engine's task never stops, an await that is not cancelled ends (a   *)
(* cleanup hook and a delay are finite), and time passes.  Nothing is      *)
(* assumed of the service, its probes and its stop hooks.                  *)
(***************************************************************************)
FairSpec ==
  /\ Spec
  /\ WF_vars(EngineStep)
  /\ WF_vars(SlotDue \/ SkipRespawn) /\ WF_vars(\E b \in BOOLEAN : ObserveExit(b))
  /\ WF_vars(Tick)

-----------------------------------------------------------------------------
WindowType ==
  [open : BOOLEAN, left : 0 .. ReadyTimeout, next : 0 .. ProbeInterval,
   tried : BOOLEAN, probe : {"none", "running", "passed", "failed"}]

ServiceType ==
  [child : {"none", "alive", "dying", "exited", "reaped"},
   state : {"Stopped", "Running"}, delay : MinDelay .. MaxDelay,
   stopLeft : {Unset} \cup 0 .. StopTimeout,
   hook : {"none", "stop", "kill"}, ready : WindowType]

TypeOK ==
  /\ svc \in ServiceType
  /\ slot \in {Unset} \cup 0 .. MaxDelay
  /\ status \in {"Pending", "Starting", "Running", "Backoff", "Failed"}
  /\ started \in BOOLEAN
  /\ pc \in {"idle", "starting", "starting_for_request", "respawning", "logging_exit",
              "deadline", "killing", "readiness", "passed", "timed_out"}
  /\ runs \in 0 .. MaxRuns /\ reloads \in 0 .. MaxReloads
  /\ {strayProbe, strayHook, passed, expands, skipped} \subseteq BOOLEAN
  /\ leftBehind \in {"none", "alive", "dying"}
  /\ sinceAsk \in {Unset} \cup 0 .. StopTimeout
  /\ answers \in Nat

(***************************************************************************)
(* A deadline, and a window, belong to a process that was not yet seen to  *)
(* exit: nothing armed for one process is left for the next.               *)
(***************************************************************************)
ArmedForAProcess ==
  svc.child = "none" =>
    svc.state = "Stopped" /\ svc.stopLeft = Unset /\ ~svc.ready.open

(***************************************************************************)
(* The force kill comes no earlier than stop_timeout after the stop, and   *)
(* only to the process that was asked: a stale deadline never kills a      *)
(* fresh one.                                                              *)
(***************************************************************************)
KillStarts ==
  \/ svc.child = "alive" /\ svc'.child = "dying"
  \/ pc # "killing" /\ pc' = "killing"

NoEarlyKill == [][KillStarts => sinceAsk = StopTimeout]_vars

(***************************************************************************)
(* A process that was asked to stop, and has not been force killed since,  *)
(* has a deadline: no interleaving of restarts, respawns and polls loses   *)
(* the escalation.                                                         *)
(***************************************************************************)
EveryStopIsBounded ==
  IsRunning(svc) /\ sinceAsk # Unset => svc.stopLeft # Unset \/ pc = "killing"

(***************************************************************************)
(* A service that has been started and has no process is always about to   *)
(* get one: its restart is scheduled, or the engine is at it.  Only one    *)
(* that the engine gave up, because its command did not expand when it was *)
(* to be started, is left without.                                         *)
(***************************************************************************)
NothingStranded ==
  started /\ svc.child = "none" =>
    \/ slot # Unset
    \/ pc = "logging_exit"
    \/ skipped

(***************************************************************************)
(* The service reads Starting while its readiness window is open.          *)
(***************************************************************************)
StartingWhileWindowOpen == svc.ready.open => status = "Starting"

(***************************************************************************)
(* Readiness settles once per spawn: the window a late scheduled restart   *)
(* opens for a process that was started meanwhile replaces the first one   *)
(* before that one has answered.                                           *)
(***************************************************************************)
ReadinessSettlesOncePerSpawn == answers <= 1

(***************************************************************************)
(* A process that exits is replaced, unless its command does not expand    *)
(* when its turn comes; a stop ends, by itself or by force.                *)
(***************************************************************************)
CrashedServiceRespawns ==
  svc.child \in {"exited", "reaped"} ~> svc.child = "alive" \/ skipped

EveryStopEnds ==
  IsRunning(svc) /\ sinceAsk # Unset ~> ~IsRunning(svc) \/ sinceAsk = Unset

-----------------------------------------------------------------------------
(***************************************************************************)
(* The strengthening that makes the safety properties inductive.  A live   *)
(* process with a deadline was asked to stop, and the ticks since the ask  *)
(* and those left to the deadline add up to the timeout.  A window that is *)
(* open has not answered, unless it was opened for a process already dead, *)
(* and then the next check closes it before any probe is read.             *)
(***************************************************************************)
DeadlineMatchesAsk ==
  /\ IsRunning(svc) /\ svc.stopLeft # Unset =>
       sinceAsk # Unset /\ sinceAsk + svc.stopLeft >= StopTimeout
  /\ pc = "killing" =>
       svc.stopLeft = Unset /\ (IsRunning(svc) => sinceAsk = StopTimeout)

AnsweredTooLate ==
  svc.child = "reaped" /\ pc \in {"idle", "starting", "starting_for_request"}

WindowMatchesAnswers ==
  /\ svc.ready.open => answers = 0 \/ AnsweredTooLate
  /\ pc \in {"passed", "timed_out"} => ~svc.ready.open
  /\ slot # Unset =>
       /\ svc.state = "Running" => answers = 0
       /\ pc \in {"idle", "starting", "starting_for_request", "respawning"}
  /\ pc = "respawning" => slot # Unset

StateMatchesChild ==
  /\ svc.state = "Stopped" <=> svc.child = "none"
  /\ started <=>
       svc.state = "Running" \/ slot # Unset \/ status # "Pending" \/ skipped
  /\ skipped => svc.child = "none" /\ slot = Unset /\ pc # "logging_exit"
  /\ pc \in {"starting", "starting_for_request"} =>
       svc.child \in {"none", "reaped"}
  /\ pc = "logging_exit" => svc.child = "none" /\ started
  /\ pc \in {"passed", "timed_out"} => svc.child # "none"

IInv ==
  /\ TypeOK
  /\ ArmedForAProcess
  /\ StartingWhileWindowOpen
  /\ ReadinessSettlesOncePerSpawn
  /\ DeadlineMatchesAsk
  /\ WindowMatchesAnswers
  /\ StateMatchesChild

(***************************************************************************)
(* And, where the log channel always has room:                             *)
(***************************************************************************)
BoundedInv == ~LogMayBlock => EveryStopIsBounded /\ NothingStranded

-----------------------------------------------------------------------------
(***************************************************************************)
(* What the documentation and comments say beyond that, and the code does  *)
(* not keep.                                                               *)
(***************************************************************************)

(***************************************************************************)
(* docs/configuration.md:274: probes never overlap.  A window that closes  *)
(* early leaves its probe running beside the first one of the next.        *)
(***************************************************************************)
ProbesNeverOverlap == ~(strayProbe /\ svc.ready.probe = "running")

(***************************************************************************)
(* docs/configuration.md:182: stop_timeout also bounds stop_command.  An   *)
(* exit of the service clears the deadline and leaves its hook running.    *)
(***************************************************************************)
StopHookIsBounded == svc.hook = "stop" => svc.stopLeft # Unset

(***************************************************************************)
(* docs/configuration.md:220-231: a stop on a config reload proceeds like  *)
(* any other, up to the force kill.  The reload drops the deadline.        *)
(***************************************************************************)
ReloadedServiceIsWatched == leftBehind # "alive"

(***************************************************************************)
(* docs/configuration.md:215: cleanup_command runs immediately before      *)
(* every spawn.  A start that found the crashed service before its         *)
(* scheduled restart leaves that restart scheduled, and when it is due the *)
(* cleanup runs under the live service.                                    *)
(***************************************************************************)
CleanupOnlyBeforeASpawn == pc = "respawning" => svc.state # "Running"

(***************************************************************************)
(* docs/configuration.md:281-282: a zero exit promotes a service to        *)
(* Running.  So does a restart signal inside its readiness window.         *)
(***************************************************************************)
RunningOnlyAfterZeroExit ==
  HasReadyCheck /\ status = "Running" => passed
=============================================================================
