---------------------------- MODULE ServiceProofs ----------------------------
(***************************************************************************)
(* The supervision of a service, for every timeout, interval and backoff.  *)
(*                                                                         *)
(* The invariant is IInv.  Its core is an account of time: the ticks since *)
(* a live process was asked to stop and the ticks left to its deadline add *)
(* up to the timeout at least, so the deadline is due no earlier than      *)
(* that; and an open window has not answered yet.                          *)
(***************************************************************************)
EXTENDS Service, TLAPS

(***************************************************************************)
(* The assumptions on the constants, one by one.                           *)
(***************************************************************************)
LEMMA ConstantFacts ==
  /\ HasReadyCheck \in BOOLEAN /\ HasStopCommand \in BOOLEAN
  /\ HasKillCommand \in BOOLEAN /\ LogMayBlock \in BOOLEAN
  /\ StopTimeout \in Nat /\ ReadyTimeout \in Nat /\ ProbeInterval \in Nat
  /\ ProbeInterval > 0 /\ MaxRuns \in Nat /\ MaxReloads \in Nat
  /\ MinDelay \in Nat /\ MinDelay > 0 /\ MaxDelay \in Nat /\ MinDelay <= MaxDelay
  /\ Expansions \subseteq BOOLEAN
<1>1. Expansions \subseteq BOOLEAN
  BY DEF Expansions
<1>2. QED
  BY <1>1, ServiceAssumption

(***************************************************************************)
(* The methods of Service keep the types of its fields.                    *)
(***************************************************************************)
LEMMA MethodTypes ==
  ASSUME NEW s \in ServiceType
  PROVE  /\ Start(s) \in ServiceType
         /\ ArmReadiness(s) \in ServiceType
         /\ \A b \in BOOLEAN : /\ StopService(s, b) \in ServiceType
                               /\ Check(s, b) \in ServiceType
         /\ ReapIfExited(s) \in ServiceType
         /\ \A kind \in {"stop", "kill"} : BeginHook(s, kind) \in ServiceType
         /\ KillRunningHook(s) \in ServiceType
         /\ ForceKill(s) \in ServiceType
         /\ WindowClosed(s) \in ServiceType
         /\ NewService \in ServiceType
<1> USE ConstantFacts DEF ServiceType, Unset
<1>1. NoWindow \in WindowType /\ FreshWindow \in WindowType
  <2>1. 0 \in 0 .. ReadyTimeout /\ ReadyTimeout \in 0 .. ReadyTimeout /\ 0 \in 0 .. ProbeInterval
    OBVIOUS
  <2>2. NoWindow \in WindowType
    BY <2>1 DEF NoWindow, WindowType
  <2>3. [NoWindow EXCEPT !.open = TRUE] \in WindowType
    BY <2>2 DEF WindowType
  <2>4. QED
    BY <2>1, <2>2, <2>3 DEF FreshWindow, WindowType
<1>2. Start(s) \in ServiceType /\ ArmReadiness(s) \in ServiceType
  BY <1>1 DEF Start, ArmReadiness
<1>3. OpenStop(s) \in ServiceType
  <2>1. StopTimeout \in {Unset} \cup 0 .. StopTimeout
    OBVIOUS
  <2>2. QED
    BY <1>1, <2>1 DEF OpenStop
<1>4. ASSUME NEW kind \in {"stop", "kill"}
      PROVE  BeginHook(s, kind) \in ServiceType /\ OpenStop(BeginHook(s, kind)) \in ServiceType
  <2>1. StopTimeout \in {Unset} \cup 0 .. StopTimeout
    OBVIOUS
  <2>2. QED
    BY <1>1, <2>1 DEF BeginHook, OpenStop
<1>5. \A b \in BOOLEAN : StopService(s, b) \in ServiceType
  BY <1>3, <1>4 DEF StopService, SignalRestart, ArmStopDeadline
<1>6. \A b \in BOOLEAN : Check(s, b) \in ServiceType
  <2>1. \A b \in BOOLEAN : NextDelay(s.delay, b) \in MinDelay .. MaxDelay
    BY DEF NextDelay
  <2>2. QED
    BY <1>1, <2>1 DEF Check
<1>7. /\ ReapIfExited(s) \in ServiceType
      /\ KillRunningHook(s) \in ServiceType
      /\ ForceKill(s) \in ServiceType
  BY DEF ReapIfExited, KillRunningHook, ForceKill
<1>8. WindowClosed(s) \in ServiceType
  BY <1>1 DEF WindowClosed
<1>9. NewService \in ServiceType
  BY <1>1 DEF NewService
<1>10. QED
  BY <1>2, <1>4, <1>5, <1>6, <1>7, <1>8, <1>9

(***************************************************************************)
(* Every step keeps the types.                                             *)
(***************************************************************************)
LEMMA StepKeepsTypes == TypeOK /\ [Next]_vars => TypeOK'
<1> SUFFICES ASSUME TypeOK, [Next]_vars PROVE TypeOK'
  OBVIOUS
<1> USE ConstantFacts DEF TypeOK, ObserveWindow, ObserveSpawn, ObserveStop, ghosts, Unset
<1>1. SpawnStatus(svc') \in {"Starting", "Running"}
  BY DEF SpawnStatus
<1>2. ASSUME NEW branch \in {"starting", "starting_for_request"}, BeginStart(branch)
      PROVE  TypeOK'
  BY <1>2, MethodTypes DEF BeginStart
<1>3. CASE FinishStart
  <2>1. svc' \in ServiceType
    BY <1>3, MethodTypes DEF FinishStart
  <2>2. QED
    BY <1>1, <1>3, <2>1 DEF FinishStart
<1>4. CASE StartFails \/ RespawnFails \/ StatusRequest \/ SlotDue \/ NoExit
           \/ DeadlineNotDue \/ RecordVerdict
  BY <1>4 DEF StartFails, RespawnFails, StatusRequest, SlotDue, NoExit,
              DeadlineNotDue, RecordVerdict
<1>4a. CASE SkipStart \/ SkipRespawn \/ ReloadOthers
  <2>1. skipped' \in BOOLEAN
    BY <1>4a DEF SkipStart, SkipRespawn, ReloadOthers
  <2>2. expands' \in BOOLEAN
    BY <1>4a DEF SkipStart, SkipRespawn, ReloadOthers
  <2>3. reloads' \in 0 .. MaxReloads /\ pc' = "idle"
    BY <1>4a DEF SkipStart, SkipRespawn, ReloadOthers
  <2>4. QED
    BY <1>4a, <2>1, <2>2, <2>3 DEF SkipStart, SkipRespawn, ReloadOthers
<1>5. ASSUME NEW hookRuns \in HookChoices, SignalInstead(hookRuns) \/ RestartProcess(hookRuns)
      PROVE  TypeOK'
  <2>1. hookRuns \in BOOLEAN
    BY DEF HookChoices
  <2>2. svc' \in ServiceType
    BY <1>5, <2>1, MethodTypes DEF SignalInstead, RestartProcess
  <2>3. sinceAsk' \in {Unset} \cup 0 .. StopTimeout
    BY <1>5 DEF SignalInstead, RestartProcess
  <2>4. strayHook' \in BOOLEAN /\ strayProbe' \in BOOLEAN
    BY <1>5, <2>1 DEF SignalInstead, RestartProcess
  <2>5. QED
    BY <1>1, <1>5, <2>2, <2>3, <2>4 DEF SignalInstead, RestartProcess
<1>6. ASSUME NEW hookRuns \in HookChoices, Reload(hookRuns) PROVE TypeOK'
  <2>1. hookRuns \in BOOLEAN
    BY DEF HookChoices
  <2>2. svc' \in ServiceType
    BY <1>6, MethodTypes DEF Reload
  <2>3. leftBehind' \in {"none", "alive", "dying"}
    BY <1>6 DEF Reload, IsRunning
  <2>4. strayHook' \in BOOLEAN /\ strayProbe' \in BOOLEAN
    BY <1>6, <2>1 DEF Reload
  <2>5. /\ slot' = Unset /\ status' = "Pending" /\ started' = FALSE /\ pc' = "idle"
        /\ sinceAsk' = Unset /\ answers' = 0 /\ passed' = FALSE /\ runs' = runs
        /\ skipped' = FALSE /\ expands' \in BOOLEAN
        /\ reloads' \in 0 .. MaxReloads
    BY <1>6 DEF Reload
  <2>6. QED
    BY <2>2, <2>3, <2>4, <2>5
<1>7. CASE Respawn
  <2>1. svc' \in ServiceType
    BY <1>7, MethodTypes DEF Respawn
  <2>2. QED
    BY <1>1, <1>7, <2>1 DEF Respawn
<1>8. ASSUME NEW b \in BOOLEAN, ObserveExit(b) PROVE TypeOK'
  <2>1. svc' \in ServiceType
    BY <1>8, MethodTypes DEF ObserveExit
  <2>2. QED
    BY <1>8, <2>1 DEF ObserveExit
<1>9. CASE ScheduleRestart
  BY <1>9 DEF ScheduleRestart, ServiceType
<1>10. CASE EnforceDeadline
  <2>1. [KillRunningHook(svc) EXCEPT !.stopLeft = Unset] \in ServiceType
    BY DEF KillRunningHook, ServiceType
  <2>2. svc' \in ServiceType
    BY <1>10, <2>1, MethodTypes DEF EnforceDeadline
  <2>3. QED
    BY <1>10, <2>2 DEF EnforceDeadline
<1>11. ASSUME NEW b \in BOOLEAN, RunKillCommand(b) PROVE TypeOK'
  BY <1>11, MethodTypes DEF RunKillCommand
<1>12. CASE ReadinessIdle \/ StartProbe
  <2>1. svc' \in ServiceType
    <3>1. ProbeInterval \in 0 .. ProbeInterval /\ svc.ready \in WindowType
      BY DEF ServiceType
    <3>2. CASE ReadinessIdle
      <4>1. [svc.ready EXCEPT !.probe = IF @ = "failed" THEN "none" ELSE @] \in WindowType
        BY <3>1 DEF WindowType
      <4>2. QED
        BY <3>2, <4>1 DEF ReadinessIdle, ServiceType
    <3>3. CASE StartProbe
      <4>1. [svc.ready EXCEPT !.probe = "running", !.tried = TRUE, !.next = ProbeInterval]
              \in WindowType
        BY <3>1 DEF WindowType
      <4>2. QED
        BY <3>3, <4>1 DEF StartProbe, ServiceType
    <3>4. QED
      BY <1>12, <3>2, <3>3
  <2>2. QED
    BY <1>12, <2>1 DEF ReadinessIdle, StartProbe
<1>13. CASE ProbeCannotRun \/ ReadinessPassed \/ ReadinessTimedOut
  <2>1. svc' \in ServiceType /\ answers' \in Nat
    BY <1>13, MethodTypes DEF ProbeCannotRun, ReadinessPassed, ReadinessTimedOut
  <2>2. QED
    BY <1>13, <2>1 DEF ProbeCannotRun, ReadinessPassed, ReadinessTimedOut
<1>14. CASE ProcessExits \/ HookFinishes
  BY <1>14 DEF ProcessExits, HookFinishes, ServiceType
<1>15. ASSUME NEW verdict \in {"passed", "failed"}, ProbeFinishes(verdict) PROVE TypeOK'
  BY <1>15 DEF ProbeFinishes, ServiceType, WindowType
<1>16. CASE StrayEnds
  BY <1>16, ZenonT(30) DEF StrayEnds
<1>17. CASE Tick
  <2>1. /\ svc.stopLeft \in {Unset} \cup 0 .. StopTimeout
        /\ svc.ready.left \in 0 .. ReadyTimeout
        /\ svc.ready.next \in 0 .. ProbeInterval
        /\ slot \in {Unset} \cup 0 .. MaxDelay
    BY DEF ServiceType, WindowType
  <2>2. /\ CountDown(svc.stopLeft) \in {Unset} \cup 0 .. StopTimeout
        /\ CountDown(svc.ready.left) \in 0 .. ReadyTimeout
        /\ CountDown(svc.ready.next) \in 0 .. ProbeInterval
        /\ CountDown(slot) \in {Unset} \cup 0 .. MaxDelay
    BY <2>1 DEF CountDown
  <2>3. svc' \in ServiceType
    BY <1>17, <2>2 DEF Tick, ServiceType, WindowType
  <2>4. sinceAsk' \in {Unset} \cup 0 .. StopTimeout
    BY <1>17 DEF Tick
  <2>5. QED
    BY <1>17, <2>2, <2>3, <2>4 DEF Tick
<1>18. CASE UNCHANGED vars
  BY <1>18 DEF vars
<1>19. QED
  BY <1>2, <1>3, <1>4, <1>5, <1>6, <1>7, <1>8, <1>9, <1>10, <1>11, <1>12, <1>13,
     <1>14, <1>15, <1>16, <1>17, <1>18, <1>4a DEF Next, EngineStep, Command, World

(***************************************************************************)
(* What the methods do to the fields the invariant is about.               *)
(***************************************************************************)
LEMMA StartEffect ==
  ASSUME NEW s \in ServiceType
  PROVE  LET t == ArmReadiness(Start(s)) IN
           /\ t.state = "Running"
           /\ s.state = "Running" => t.child = s.child /\ t.stopLeft = s.stopLeft
           /\ s.state # "Running" => t.child = "alive" /\ t.stopLeft = Unset
BY DEF ServiceType, Start, ArmReadiness

LEMMA StopEffect ==
  ASSUME NEW s \in ServiceType, NEW b \in BOOLEAN
  PROVE  LET t == StopService(s, b) IN
           /\ t.child = s.child /\ t.state = s.state /\ t.delay = s.delay
           /\ \/ t.ready = s.ready /\ t.stopLeft = s.stopLeft /\ ~IsRunning(s)
              \/ ~t.ready.open /\ t.stopLeft = StopTimeout /\ s.child # "none"
<1>1. ~NoWindow.open
  BY DEF NoWindow
<1>2. CASE b
  BY <1>1, <1>2 DEF StopService, ArmStopDeadline, BeginHook, OpenStop, HasId, CanSignal,
                    IsRunning, ServiceType
<1>3. CASE ~b
  BY <1>1, <1>3 DEF StopService, SignalRestart, OpenStop, CanSignal, IsRunning, ServiceType
<1>4. QED
  BY <1>2, <1>3

(***************************************************************************)
(* The conjuncts of the invariant other than the types.                    *)
(***************************************************************************)
SafetyInv ==
  /\ ArmedForAProcess
  /\ StartingWhileWindowOpen
  /\ ReadinessSettlesOncePerSpawn
  /\ DeadlineMatchesAsk
  /\ WindowMatchesAnswers
  /\ StateMatchesChild
  /\ BoundedInv

LEMMA InitIsSafe == Init => IInv /\ BoundedInv
<1> SUFFICES ASSUME Init PROVE IInv /\ BoundedInv
  OBVIOUS
<1>1. NewService.child = "none" /\ NewService.state = "Stopped" /\ ~NewService.ready.open
       /\ NewService.stopLeft = Unset
  BY DEF NewService, NoWindow
<1>2. TypeOK
  <2>1. NoWindow \in WindowType
    BY ConstantFacts DEF NoWindow, WindowType
  <2>2. NewService \in ServiceType
    BY <2>1, ConstantFacts DEF NewService, ServiceType, Unset
  <2>3. /\ MaxRuns \in 0 .. MaxRuns /\ MaxReloads \in 0 .. MaxReloads
        /\ Unset \in {Unset} \cup 0 .. MaxDelay /\ Unset \in {Unset} \cup 0 .. StopTimeout
    BY ConstantFacts
  <2>4. {strayProbe, strayHook, passed, expands, skipped} \subseteq BOOLEAN
    BY ConstantFacts DEF Init
  <2>5. QED
    BY <2>2, <2>3, <2>4 DEF Init, TypeOK
<1>3. QED
  BY <1>1, <1>2, ConstantFacts
     DEF Init, IInv, ArmedForAProcess, StartingWhileWindowOpen, ReadinessSettlesOncePerSpawn,
         DeadlineMatchesAsk, WindowMatchesAnswers, StateMatchesChild, BoundedInv,
         EveryStopIsBounded, NothingStranded, IsRunning, Unset

(***************************************************************************)
(* A first start, or the start of a crashed service.                       *)
(***************************************************************************)
LEMMA StartStepsAreSafe ==
  ASSUME TypeOK, SafetyInv, FinishStart \/ Respawn
  PROVE  SafetyInv'
<1> USE DEF TypeOK, SafetyInv, FinishStart, Respawn
<1>1. /\ svc \in ServiceType /\ svc' = ArmReadiness(Start(svc))
      /\ status' = SpawnStatus(svc') /\ pc' = "idle"
  OBVIOUS
<1>2. /\ svc'.state = "Running"
      /\ svc.state = "Running" => svc'.child = svc.child /\ svc'.stopLeft = svc.stopLeft
      /\ svc.state # "Running" => svc'.child = "alive" /\ svc'.stopLeft = Unset
  BY <1>1, StartEffect
<1>3. svc.state = "Running" <=> svc.child # "none"
  BY DEF StateMatchesChild, ServiceType
<1>4. ArmedForAProcess'
  BY <1>2, <1>3 DEF ArmedForAProcess
<1>5. StartingWhileWindowOpen'
  BY <1>1 DEF StartingWhileWindowOpen, SpawnStatus
<1>6. answers' = IF svc.state # "Running" THEN 0 ELSE answers
  BY <1>2 DEF ObserveSpawn
<1>7. sinceAsk' = IF svc.state # "Running" THEN Unset ELSE sinceAsk
  BY <1>2 DEF ObserveSpawn
<1>8. ReadinessSettlesOncePerSpawn'
  BY <1>6 DEF ReadinessSettlesOncePerSpawn
<1>9. DeadlineMatchesAsk'
  BY <1>1, <1>2, <1>7 DEF DeadlineMatchesAsk, IsRunning
<1>10. WindowMatchesAnswers'
  <2>1. CASE FinishStart
    BY <1>1, <1>2, <1>3, <1>6, <2>1
       DEF WindowMatchesAnswers, AnsweredTooLate, StateMatchesChild
  <2>2. CASE Respawn
    BY <1>1, <1>2, <1>3, <1>6, <2>2 DEF WindowMatchesAnswers, Unset
  <2>3. QED
    BY <2>1, <2>2
<1>11. StateMatchesChild'
  <2>1. status' # "Pending" /\ ~skipped'
    <3>1. svc.state = "Running" => ~skipped
      BY <1>3 DEF StateMatchesChild
    <3>2. QED
      BY <1>1, <1>2, <3>1 DEF SpawnStatus, ObserveSpawn
  <2>2. started' = TRUE
    <3>1. CASE FinishStart
      BY <3>1
    <3>2. CASE Respawn
      <4>1. started' = started /\ slot # Unset
        BY <3>2 DEF WindowMatchesAnswers
      <4>2. started = TRUE
        BY <4>1 DEF StateMatchesChild
      <4>3. QED
        BY <4>1, <4>2
    <3>3. QED
      BY <3>1, <3>2
  <2>3. QED
    BY <1>1, <1>2, <1>3, <2>1, <2>2 DEF StateMatchesChild
<1>12. BoundedInv'
  BY <1>1, <1>2, <1>3, <1>7 DEF BoundedInv, EveryStopIsBounded, NothingStranded, IsRunning
<1>13. QED
  BY <1>4, <1>5, <1>8, <1>9, <1>10, <1>11, <1>12

(***************************************************************************)
(* The stop of a running service by its group's run, the restart of its    *)
(* process, and a reload.                                                  *)
(***************************************************************************)
LEMMA StopStepsAreSafe ==
  ASSUME TypeOK, SafetyInv, NEW hookRuns \in HookChoices,
         SignalInstead(hookRuns) \/ RestartProcess(hookRuns)
  PROVE  SafetyInv'
<1> USE DEF TypeOK, SafetyInv, SignalInstead, RestartProcess
<1>1. hookRuns \in BOOLEAN
  BY ConstantFacts DEF HookChoices
<1>2. /\ svc' = StopService(svc, hookRuns)
      /\ pc' = "idle" /\ slot' = slot /\ started' = started /\ answers' = answers
      /\ status' = status \/ status' = SpawnStatus(svc')
      /\ sinceAsk' = IF IsRunning(svc) THEN 0 ELSE sinceAsk
      /\ AtRequest /\ skipped' = skipped
  BY DEF ObserveStop, AtRequest
<1>3. /\ svc'.child = svc.child /\ svc'.state = svc.state
      /\ \/ svc'.ready = svc.ready /\ svc'.stopLeft = svc.stopLeft /\ ~IsRunning(svc)
         \/ ~svc'.ready.open /\ svc'.stopLeft = StopTimeout /\ svc.child # "none"
  BY <1>1, <1>2, StopEffect
<1>4. svc'.ready.open => svc.ready.open
  BY <1>3
<1>5. IsRunning(svc)' = IsRunning(svc)
  BY <1>3 DEF IsRunning
<1>6. ArmedForAProcess'
  BY <1>3 DEF ArmedForAProcess
<1>7. StartingWhileWindowOpen'
  BY <1>2, <1>4 DEF StartingWhileWindowOpen, SpawnStatus
<1>8. ReadinessSettlesOncePerSpawn'
  BY <1>2 DEF ReadinessSettlesOncePerSpawn
<1>9. DeadlineMatchesAsk'
  BY <1>2, <1>3, <1>5, ConstantFacts DEF DeadlineMatchesAsk, Unset
<1>10. WindowMatchesAnswers'
  BY <1>2, <1>3, <1>4 DEF WindowMatchesAnswers, AnsweredTooLate
<1>11. StateMatchesChild'
  <2>1. status' = status \/ (status' # "Pending" /\ svc.state = "Running")
    BY <1>2, <1>3 DEF SpawnStatus, IsRunning, StateMatchesChild, ServiceType
  <2>2. QED
    BY <1>2, <1>3, <2>1 DEF StateMatchesChild
<1>12. BoundedInv'
  BY <1>2, <1>3, <1>5, ConstantFacts
     DEF BoundedInv, EveryStopIsBounded, NothingStranded, AtRequest, Cancellable, Unset
<1>13. QED
  BY <1>6, <1>7, <1>8, <1>9, <1>10, <1>11, <1>12

LEMMA ReloadIsSafe ==
  ASSUME TypeOK, SafetyInv, NEW hookRuns \in HookChoices, Reload(hookRuns)
  PROVE  SafetyInv'
<1>1. /\ svc'.child = "none" /\ svc'.state = "Stopped" /\ ~svc'.ready.open
      /\ svc'.stopLeft = Unset
      /\ pc' = "idle" /\ slot' = Unset /\ status' = "Pending" /\ started' = FALSE
      /\ sinceAsk' = Unset /\ answers' = 0 /\ skipped' = FALSE
  BY DEF Reload, NewService, NoWindow
<1>2. QED
  BY <1>1 DEF SafetyInv, ArmedForAProcess, StartingWhileWindowOpen, BoundedInv,
     ReadinessSettlesOncePerSpawn, DeadlineMatchesAsk, WindowMatchesAnswers,
     StateMatchesChild, EveryStopIsBounded, NothingStranded, IsRunning, Unset

(***************************************************************************)
(* The steps that only move the engine on, or drop what it was doing.      *)
(***************************************************************************)
LEMMA MovesAreSafe ==
  ASSUME TypeOK, SafetyInv,
         \/ StartFails \/ RespawnFails \/ StatusRequest \/ ReloadOthers
         \/ SlotDue \/ NoExit \/ DeadlineNotDue
  PROVE  SafetyInv'
<1>1. /\ svc' = svc /\ slot' = slot /\ status' = status /\ started' = started
      /\ sinceAsk' = sinceAsk /\ answers' = answers /\ skipped' = skipped
  BY DEF StartFails, RespawnFails, StatusRequest, ReloadOthers, SlotDue, NoExit,
         DeadlineNotDue, ghosts
<1>2. /\ ArmedForAProcess' /\ StartingWhileWindowOpen' /\ ReadinessSettlesOncePerSpawn'
  BY <1>1 DEF SafetyInv, ArmedForAProcess, StartingWhileWindowOpen,
              ReadinessSettlesOncePerSpawn
<1>3. pc' # "killing" /\ pc' \notin {"passed", "timed_out", "logging_exit"}
  BY DEF StartFails, RespawnFails, StatusRequest, ReloadOthers, SlotDue, NoExit,
         DeadlineNotDue
<1>4. DeadlineMatchesAsk'
  BY <1>1, <1>3 DEF SafetyInv, DeadlineMatchesAsk, IsRunning
<1>5. svc.child = "reaped" => svc.state = "Running"
  BY DEF SafetyInv, StateMatchesChild, TypeOK, ServiceType
<1>6. WindowMatchesAnswers'
  BY <1>1, <1>3, <1>5
     DEF SafetyInv, WindowMatchesAnswers, AnsweredTooLate, StartFails, RespawnFails,
         StatusRequest, ReloadOthers, AtRequest, Cancellable, SlotDue, NoExit, DeadlineNotDue, Unset
<1>7. StateMatchesChild'
  <2>1. pc' \notin {"starting", "starting_for_request"}
    BY DEF StartFails, RespawnFails, StatusRequest, ReloadOthers, SlotDue, NoExit,
         DeadlineNotDue
  <2>2. QED
    BY <1>1, <1>3, <2>1 DEF SafetyInv, StateMatchesChild
<1>8. BoundedInv'
  BY <1>1, <1>3
     DEF SafetyInv, BoundedInv, EveryStopIsBounded, NothingStranded, IsRunning, StartFails,
         RespawnFails, StatusRequest, ReloadOthers, AtRequest, Cancellable, SlotDue, NoExit, DeadlineNotDue
<1>9. QED
  BY <1>2, <1>4, <1>6, <1>7, <1>8 DEF SafetyInv

(***************************************************************************)
(* A start, or a restart, passed over because the command does not expand. *)
(***************************************************************************)
LEMMA SkipStepsAreSafe ==
  ASSUME TypeOK, SafetyInv, SkipStart \/ SkipRespawn
  PROVE  SafetyInv'
<1>1. /\ svc' = svc /\ status' = status /\ sinceAsk' = sinceAsk /\ answers' = answers
      /\ pc' = "idle"
      /\ pc \in {"idle", "starting", "starting_for_request"}
  BY DEF SkipStart, SkipRespawn
<1>2. IsRunning(svc)' = IsRunning(svc)
  BY <1>1 DEF IsRunning
<1>3. svc.state = "Running" <=> svc.child # "none"
  BY DEF SafetyInv, StateMatchesChild, TypeOK, ServiceType
<1>4. /\ ArmedForAProcess' /\ StartingWhileWindowOpen' /\ ReadinessSettlesOncePerSpawn'
  BY <1>1 DEF SafetyInv, ArmedForAProcess, StartingWhileWindowOpen,
              ReadinessSettlesOncePerSpawn
<1>5. DeadlineMatchesAsk'
  BY <1>1, <1>2 DEF SafetyInv, DeadlineMatchesAsk
<1>6. slot' = slot \/ slot' = Unset
  BY DEF SkipStart, SkipRespawn
<1>7. WindowMatchesAnswers'
  BY <1>1, <1>6 DEF SafetyInv, WindowMatchesAnswers, AnsweredTooLate
<1>8. /\ started' = TRUE
      /\ svc.state = "Running" \/ slot' # Unset \/ skipped'
      /\ skipped' => svc.child = "none" /\ slot' = Unset
  <2>1. CASE SkipStart
    BY <1>3, <2>1 DEF SkipStart, SafetyInv, StateMatchesChild
  <2>2. CASE SkipRespawn
    <3>1. started' = started /\ slot # Unset /\ slot' = Unset
          /\ skipped' = (svc.state # "Running")
      BY <2>2 DEF SkipRespawn, Unset
    <3>2. started = TRUE
      BY <3>1 DEF SafetyInv, StateMatchesChild, TypeOK
    <3>3. QED
      BY <1>3, <3>1, <3>2
  <2>3. QED
    BY <2>1, <2>2
<1>9. StateMatchesChild'
  BY <1>1, <1>8 DEF SafetyInv, StateMatchesChild
<1>10. BoundedInv'
  <2>1. NothingStranded'
    BY <1>1, <1>3, <1>8 DEF NothingStranded
  <2>2. ~LogMayBlock => EveryStopIsBounded'
    BY <1>1, <1>2 DEF SafetyInv, BoundedInv, EveryStopIsBounded
  <2>3. QED
    BY <2>1, <2>2 DEF BoundedInv
<1>11. QED
  BY <1>4, <1>5, <1>7, <1>9, <1>10 DEF SafetyInv

LEMMA BeginStartIsSafe ==
  ASSUME TypeOK, SafetyInv, NEW branch \in {"starting", "starting_for_request"},
         BeginStart(branch)
  PROVE  SafetyInv'
<1>1. /\ slot' = slot /\ status' = status /\ started' = started
      /\ sinceAsk' = sinceAsk /\ answers' = answers /\ skipped' = skipped
      /\ pc = "idle"
      /\ pc' \in {"starting", "starting_for_request"}
      /\ svc' = ReapIfExited(svc)
      /\ ~started \/ ~IsRunning(svc)
  BY DEF BeginStart, ghosts
<1>2. /\ svc'.state = svc.state /\ svc'.ready = svc.ready /\ svc'.stopLeft = svc.stopLeft
      /\ svc'.child = IF svc.child = "exited" THEN "reaped" ELSE svc.child
  BY <1>1 DEF ReapIfExited, TypeOK, ServiceType
<1>3. svc'.child \in {"none", "reaped"}
  <2>1. ~started => svc.child = "none"
    BY DEF SafetyInv, StateMatchesChild, TypeOK, ServiceType
  <2>2. ~IsRunning(svc)
    BY <1>1, <2>1 DEF IsRunning
  <2>3. QED
    BY <1>2, <2>2 DEF IsRunning, TypeOK, ServiceType
<1>4. /\ ArmedForAProcess' /\ StartingWhileWindowOpen' /\ ReadinessSettlesOncePerSpawn'
  BY <1>1, <1>2 DEF SafetyInv, ArmedForAProcess, StartingWhileWindowOpen,
              ReadinessSettlesOncePerSpawn
<1>5. DeadlineMatchesAsk'
  BY <1>1, <1>3 DEF DeadlineMatchesAsk, IsRunning
<1>6. WindowMatchesAnswers'
  BY <1>1, <1>2 DEF SafetyInv, WindowMatchesAnswers, AnsweredTooLate
<1>7. StateMatchesChild'
  BY <1>1, <1>2, <1>3 DEF SafetyInv, StateMatchesChild
<1>8. BoundedInv'
  BY <1>1, <1>2, <1>3
     DEF SafetyInv, BoundedInv, EveryStopIsBounded, NothingStranded, IsRunning
<1>9. QED
  BY <1>4, <1>5, <1>6, <1>7, <1>8 DEF SafetyInv

(***************************************************************************)
(* An exit: its detection, and the restart scheduled for it.               *)
(***************************************************************************)
LEMMA ExitStepsAreSafe ==
  ASSUME TypeOK, SafetyInv, ScheduleRestart \/ \E b \in BOOLEAN : ObserveExit(b)
  PROVE  SafetyInv'
<1>1. CASE ScheduleRestart
  <2>1. /\ svc' = svc /\ status' = status /\ started' = started /\ sinceAsk' = sinceAsk
        /\ answers' = answers /\ skipped' = skipped /\ pc = "logging_exit" /\ pc' = "idle"
        /\ slot' = svc.delay
    BY <1>1 DEF ScheduleRestart, ghosts
  <2>2. svc.delay # Unset
    BY ConstantFacts DEF TypeOK, ServiceType, Unset
  <2>3. started = TRUE
    BY <2>1 DEF SafetyInv, StateMatchesChild, TypeOK
  <2>4. QED
    BY <2>1, <2>2, <2>3
       DEF SafetyInv, ArmedForAProcess, StartingWhileWindowOpen, BoundedInv,
           ReadinessSettlesOncePerSpawn, DeadlineMatchesAsk, WindowMatchesAnswers,
           AnsweredTooLate, StateMatchesChild, EveryStopIsBounded, NothingStranded, IsRunning
<1>2. ASSUME NEW b \in BOOLEAN, ObserveExit(b) PROVE SafetyInv'
  <2>1. svc' = Check(svc, b)
    BY <1>2 DEF ObserveExit
  <2>2. /\ svc'.child = "none" /\ svc'.state = "Stopped" /\ svc'.stopLeft = Unset
        /\ ~svc'.ready.open
    BY <2>1 DEF Check, NoWindow, TypeOK, ServiceType
  <2>3. /\ pc = "idle" /\ pc' = "logging_exit" /\ slot = Unset /\ slot' = slot
        /\ status' = "Backoff" /\ started' = started /\ answers' = answers
        /\ svc.child # "none" /\ skipped' = skipped
    BY <1>2 DEF ObserveExit
  <2>4. started = TRUE
    BY <2>3 DEF SafetyInv, StateMatchesChild, TypeOK, ServiceType
  <2>5. QED
    BY <2>2, <2>3, <2>4
       DEF SafetyInv, ArmedForAProcess, StartingWhileWindowOpen, BoundedInv,
           ReadinessSettlesOncePerSpawn, DeadlineMatchesAsk, WindowMatchesAnswers,
           AnsweredTooLate, StateMatchesChild, EveryStopIsBounded, NothingStranded, IsRunning
<1>3. QED
  BY <1>1, <1>2

(***************************************************************************)
(* The deadline: due, the account of time says that the timeout is over.   *)
(***************************************************************************)
LEMMA DeadlineIsNotEarly ==
  ASSUME TypeOK, DeadlineMatchesAsk, IsRunning(svc), svc.stopLeft = 0
  PROVE  sinceAsk = StopTimeout
<1>1. sinceAsk + 0 >= StopTimeout /\ sinceAsk # Unset
  BY DEF DeadlineMatchesAsk, Unset
<1>2. sinceAsk \in 0 .. StopTimeout
  BY <1>1 DEF TypeOK
<1>3. QED
  BY <1>1, <1>2, ConstantFacts

LEMMA KillStepsAreSafe ==
  ASSUME TypeOK, SafetyInv, EnforceDeadline \/ \E b \in BOOLEAN : RunKillCommand(b)
  PROVE  SafetyInv'
<1>1. /\ slot' = slot /\ status' = status /\ started' = started /\ answers' = answers
      /\ skipped' = skipped
      /\ pc \in {"deadline", "killing"} /\ pc' \in {"killing", "readiness"}
  BY DEF EnforceDeadline, RunKillCommand
<1> DEFINE Same ==
      /\ svc'.state = svc.state /\ svc'.ready = svc.ready /\ svc'.stopLeft = Unset
      /\ svc'.child = "none" <=> svc.child = "none"
      /\ IsRunning(svc)' <=> IsRunning(svc)
<1>2. Same
  <2>1. CASE EnforceDeadline
    <3>1. PICK t : /\ t = [KillRunningHook(svc) EXCEPT !.stopLeft = Unset]
                   /\ svc' = t \/ svc' = ForceKill(ReapIfExited(t))
      BY <2>1 DEF EnforceDeadline
    <3>2. /\ t \in ServiceType /\ t.child = svc.child /\ t.state = svc.state
          /\ t.ready = svc.ready /\ t.stopLeft = Unset
      BY <3>1 DEF KillRunningHook, TypeOK, ServiceType
    <3>3. QED
      BY <3>1, <3>2, ZenonT(30) DEF ForceKill, ReapIfExited, IsRunning, TypeOK, ServiceType
  <2>2. ASSUME NEW b \in BOOLEAN, RunKillCommand(b) PROVE Same
    <3>1. svc.stopLeft = Unset
      BY <2>2 DEF RunKillCommand, SafetyInv, DeadlineMatchesAsk
    <3>2. QED
      BY <2>2, <3>1 DEF RunKillCommand, BeginHook, ForceKill, IsRunning, TypeOK, ServiceType
  <2>3. QED
    BY <2>1, <2>2
<1>3. ArmedForAProcess'
  BY <1>2 DEF SafetyInv, ArmedForAProcess
<1>4. StartingWhileWindowOpen' /\ ReadinessSettlesOncePerSpawn'
  BY <1>1, <1>2 DEF SafetyInv, StartingWhileWindowOpen, ReadinessSettlesOncePerSpawn
<1>5. DeadlineMatchesAsk'
  <2>1. ASSUME pc' = "killing" PROVE sinceAsk' = sinceAsk /\ sinceAsk = StopTimeout
    <3>1. EnforceDeadline /\ IsRunning(svc) /\ svc.stopLeft = 0 /\ sinceAsk' = sinceAsk
      BY <2>1 DEF EnforceDeadline, RunKillCommand
    <3>2. QED
      BY <3>1, DeadlineIsNotEarly DEF SafetyInv
  <2>2. QED
    BY <1>2, <2>1 DEF DeadlineMatchesAsk, Unset
<1>6. WindowMatchesAnswers'
  BY <1>1, <1>2 DEF SafetyInv, WindowMatchesAnswers, AnsweredTooLate
<1>7. StateMatchesChild'
  BY <1>1, <1>2 DEF SafetyInv, StateMatchesChild
<1>8. BoundedInv'
  <2>1. sinceAsk' = Unset \/ pc' = "killing"
    BY DEF EnforceDeadline, RunKillCommand
  <2>2. QED
    BY <1>1, <1>2, <2>1 DEF SafetyInv, BoundedInv, EveryStopIsBounded, NothingStranded
<1>9. QED
  BY <1>3, <1>4, <1>5, <1>6, <1>7, <1>8 DEF SafetyInv

(***************************************************************************)
(* Readiness.                                                              *)
(***************************************************************************)
LEMMA ReadinessStepsAreSafe ==
  ASSUME TypeOK, SafetyInv,
         \/ ReadinessIdle \/ StartProbe \/ ProbeCannotRun
         \/ ReadinessPassed \/ ReadinessTimedOut \/ RecordVerdict
  PROVE  SafetyInv'
<1>1. /\ slot' = slot /\ started' = started /\ sinceAsk' = sinceAsk
      /\ skipped' = skipped
      /\ pc' \in {"idle", "passed", "timed_out"}
      /\ pc \in {"readiness", "passed", "timed_out"}
      /\ status' \in {status, "Running", "Failed"}
  BY DEF ReadinessIdle, StartProbe, ProbeCannotRun, ReadinessPassed, ReadinessTimedOut,
         RecordVerdict, ghosts
<1>2. /\ svc'.child = svc.child /\ svc'.state = svc.state /\ svc'.stopLeft = svc.stopLeft
      /\ \/ svc'.ready.open = svc.ready.open /\ answers' = answers
         \/ svc.ready.open /\ ~svc'.ready.open /\ answers' = answers + 1
  <2>1. CASE ReadinessIdle \/ StartProbe
    <3>1. svc.ready \in WindowType
      BY DEF TypeOK, ServiceType
    <3>2. CASE ReadinessIdle
      <4>1. [svc.ready EXCEPT !.probe = IF @ = "failed" THEN "none" ELSE @].open
              = svc.ready.open
        BY <3>1 DEF WindowType
      <4>2. QED
        BY <3>2, <4>1 DEF ReadinessIdle, ghosts, TypeOK, ServiceType
    <3>3. CASE StartProbe
      <4>1. [svc.ready EXCEPT !.probe = "running", !.tried = TRUE, !.next = ProbeInterval].open
              = svc.ready.open
        BY <3>1 DEF WindowType
      <4>2. QED
        BY <3>3, <4>1 DEF StartProbe, ghosts, TypeOK, ServiceType
    <3>4. QED
      BY <2>1, <3>2, <3>3
  <2>2. CASE ProbeCannotRun \/ ReadinessPassed \/ ReadinessTimedOut
    BY <2>2 DEF ProbeCannotRun, ReadinessPassed, ReadinessTimedOut, WindowClosed, NoWindow,
                Window, TypeOK, ServiceType
  <2>3. CASE RecordVerdict
    BY <2>3 DEF RecordVerdict, ghosts
  <2>4. QED
    BY <2>1, <2>2, <2>3
<1>3. IsRunning(svc)' = IsRunning(svc)
  BY <1>2 DEF IsRunning
<1>4. svc.ready.open => answers = 0 /\ pc = "readiness" /\ status = "Starting"
  BY <1>1 DEF SafetyInv, WindowMatchesAnswers, AnsweredTooLate, StartingWhileWindowOpen
<1>5. slot = Unset
  BY <1>1 DEF SafetyInv, WindowMatchesAnswers
<1>6. ArmedForAProcess'
  BY <1>2 DEF SafetyInv, ArmedForAProcess
<1>7. svc'.ready.open => svc.ready.open /\ status' = status
  <2>1. svc'.ready.open => svc.ready.open
    BY <1>2
  <2>2. svc'.ready.open => ReadinessIdle \/ StartProbe
    BY <1>4, <2>1 DEF ProbeCannotRun, ReadinessPassed, ReadinessTimedOut, RecordVerdict,
                      WindowClosed, NoWindow, TypeOK, ServiceType
  <2>3. QED
    BY <2>1, <2>2 DEF ReadinessIdle, StartProbe
<1>8. StartingWhileWindowOpen'
  BY <1>7 DEF SafetyInv, StartingWhileWindowOpen
<1>9. ReadinessSettlesOncePerSpawn'
  BY <1>2, <1>4 DEF SafetyInv, ReadinessSettlesOncePerSpawn, TypeOK
<1>10. DeadlineMatchesAsk'
  BY <1>1, <1>2, <1>3 DEF SafetyInv, DeadlineMatchesAsk
<1>11. WindowMatchesAnswers'
  <2>1. svc'.ready.open => answers' = 0
    BY <1>2, <1>4, <1>7
  <2>2. pc' \in {"passed", "timed_out"} => ~svc'.ready.open
    BY DEF ReadinessIdle, StartProbe, ProbeCannotRun, ReadinessPassed, ReadinessTimedOut,
           RecordVerdict, WindowClosed, NoWindow, TypeOK, ServiceType
  <2>3. QED
    BY <1>1, <1>5, <2>1, <2>2 DEF WindowMatchesAnswers
<1>12. StateMatchesChild'
  <2>1. status' # status => svc.state = "Running"
    <3>1. CASE ProbeCannotRun
      BY <3>1 DEF ProbeCannotRun, Window, SafetyInv, ArmedForAProcess, StateMatchesChild,
                  TypeOK, ServiceType
    <3>2. CASE RecordVerdict
      BY <3>2 DEF RecordVerdict, SafetyInv, StateMatchesChild, TypeOK, ServiceType
    <3>3. QED
      BY <3>1, <3>2 DEF ReadinessIdle, StartProbe, ReadinessPassed, ReadinessTimedOut
  <2>2. pc' \in {"passed", "timed_out"} => svc.child # "none"
    BY <1>1 DEF ReadinessIdle, StartProbe, ProbeCannotRun, ReadinessPassed, ReadinessTimedOut,
                RecordVerdict, Window, SafetyInv, ArmedForAProcess
  <2>3. QED
    BY <1>1, <1>2, <2>1, <2>2 DEF SafetyInv, StateMatchesChild
<1>13. BoundedInv'
  BY <1>1, <1>2, <1>3 DEF SafetyInv, BoundedInv, EveryStopIsBounded, NothingStranded
<1>14. QED
  BY <1>6, <1>8, <1>9, <1>10, <1>11, <1>12, <1>13 DEF SafetyInv

(***************************************************************************)
(* The processes, and time.                                                *)
(***************************************************************************)
LEMMA WorldIsSafe ==
  ASSUME TypeOK, SafetyInv, World
  PROVE  SafetyInv'
<1>1. /\ slot' = slot /\ status' = status /\ started' = started /\ answers' = answers
      /\ pc' = pc /\ sinceAsk' = sinceAsk /\ skipped' = skipped
  BY DEF World, ProcessExits, HookFinishes, StrayEnds, ProbeFinishes, ghosts
<1>2. /\ svc'.state = svc.state /\ svc'.stopLeft = svc.stopLeft
      /\ svc'.ready.open = svc.ready.open
      /\ \/ svc'.child = svc.child
         \/ IsRunning(svc) /\ svc'.child = "exited"
  <2>1. CASE ProcessExits \/ HookFinishes \/ StrayEnds
    BY <2>1 DEF ProcessExits, HookFinishes, StrayEnds, TypeOK, ServiceType
  <2>2. ASSUME NEW verdict \in {"passed", "failed"}, ProbeFinishes(verdict)
        PROVE  svc'.ready.open = svc.ready.open
    <3>1. svc.ready \in WindowType
      BY DEF TypeOK, ServiceType
    <3>2. [svc.ready EXCEPT !.probe = verdict].open = svc.ready.open
      BY <3>1 DEF WindowType
    <3>3. QED
      BY <2>2, <3>2 DEF ProbeFinishes, TypeOK, ServiceType
  <2>3. ASSUME NEW verdict \in {"passed", "failed"}, ProbeFinishes(verdict)
        PROVE  svc'.state = svc.state /\ svc'.stopLeft = svc.stopLeft /\ svc'.child = svc.child
    BY <2>3 DEF ProbeFinishes, TypeOK, ServiceType
  <2>4. QED
    BY <2>1, <2>2, <2>3 DEF World
<1>3. svc.child = "none" <=> svc'.child = "none"
  BY <1>2 DEF IsRunning
<1>4. IsRunning(svc)' => IsRunning(svc)
  BY <1>2 DEF IsRunning
<1>5. svc.child = "reaped" <=> svc'.child = "reaped"
  BY <1>2 DEF IsRunning
<1>6. ArmedForAProcess' /\ StartingWhileWindowOpen' /\ ReadinessSettlesOncePerSpawn'
  BY <1>1, <1>2, <1>3 DEF SafetyInv, ArmedForAProcess, StartingWhileWindowOpen,
                          ReadinessSettlesOncePerSpawn
<1>7. DeadlineMatchesAsk'
  BY <1>1, <1>2, <1>4 DEF SafetyInv, DeadlineMatchesAsk
<1>8. WindowMatchesAnswers'
  BY <1>1, <1>2, <1>5 DEF SafetyInv, WindowMatchesAnswers, AnsweredTooLate
<1>9. StateMatchesChild'
  BY <1>1, <1>2, <1>3, <1>5 DEF SafetyInv, StateMatchesChild
<1>10. BoundedInv'
  BY <1>1, <1>2, <1>3, <1>4
     DEF SafetyInv, BoundedInv, EveryStopIsBounded, NothingStranded
<1>11. QED
  BY <1>6, <1>7, <1>8, <1>9, <1>10 DEF SafetyInv

LEMMA TickIsSafe ==
  ASSUME TypeOK, SafetyInv, Tick
  PROVE  SafetyInv'
<1>1. /\ status' = status /\ started' = started /\ answers' = answers /\ pc' = pc
      /\ skipped' = skipped
      /\ slot' = CountDown(slot)
      /\ sinceAsk' = IF sinceAsk \in 0 .. StopTimeout - 1 THEN sinceAsk + 1 ELSE sinceAsk
  BY DEF Tick
<1>2. /\ svc'.state = svc.state /\ svc'.child = svc.child
      /\ svc'.stopLeft = CountDown(svc.stopLeft)
      /\ svc'.ready.open = svc.ready.open
  <2>1. svc.ready \in WindowType
    BY DEF TypeOK, ServiceType
  <2>2. [svc.ready EXCEPT !.left = CountDown(@), !.next = CountDown(@)].open = svc.ready.open
    BY <2>1 DEF WindowType
  <2>3. QED
    BY <2>2 DEF Tick, TypeOK, ServiceType
<1>3. svc.stopLeft \in {Unset} \cup 0 .. StopTimeout /\ slot \in {Unset} \cup 0 .. MaxDelay
       /\ sinceAsk \in {Unset} \cup 0 .. StopTimeout
  BY DEF TypeOK, ServiceType
<1>4. /\ svc'.stopLeft = Unset <=> svc.stopLeft = Unset
      /\ slot' = Unset <=> slot = Unset
      /\ sinceAsk' = Unset <=> sinceAsk = Unset
  BY <1>1, <1>2, <1>3, ConstantFacts DEF CountDown, Unset
<1>5. sinceAsk = StopTimeout => sinceAsk' = StopTimeout
  BY <1>1, ConstantFacts
<1>6. ASSUME svc.stopLeft # Unset, sinceAsk # Unset, sinceAsk + svc.stopLeft >= StopTimeout
      PROVE  sinceAsk' + svc'.stopLeft >= StopTimeout
  BY <1>1, <1>2, <1>3, <1>6, ConstantFacts DEF CountDown
<1>7. IsRunning(svc)' = IsRunning(svc)
  BY <1>2 DEF IsRunning
<1>8. ArmedForAProcess' /\ StartingWhileWindowOpen' /\ ReadinessSettlesOncePerSpawn'
  BY <1>1, <1>2, <1>4 DEF SafetyInv, ArmedForAProcess, StartingWhileWindowOpen,
                          ReadinessSettlesOncePerSpawn
<1>9. DeadlineMatchesAsk'
  BY <1>1, <1>4, <1>5, <1>6, <1>7 DEF SafetyInv, DeadlineMatchesAsk
<1>10. WindowMatchesAnswers'
  BY <1>1, <1>2, <1>4 DEF SafetyInv, WindowMatchesAnswers, AnsweredTooLate
<1>11. StateMatchesChild'
  BY <1>1, <1>2, <1>4 DEF SafetyInv, StateMatchesChild
<1>12. BoundedInv'
  BY <1>1, <1>2, <1>4, <1>7 DEF SafetyInv, BoundedInv, EveryStopIsBounded, NothingStranded
<1>13. QED
  BY <1>8, <1>9, <1>10, <1>11, <1>12 DEF SafetyInv

LEMMA StepIsSafe == TypeOK /\ SafetyInv /\ [Next]_vars => SafetyInv'
<1> SUFFICES ASSUME TypeOK, SafetyInv, [Next]_vars PROVE SafetyInv'
  OBVIOUS
<1>1. CASE UNCHANGED vars
  BY <1>1 DEF vars, ghosts, SafetyInv, ArmedForAProcess, StartingWhileWindowOpen, BoundedInv,
     ReadinessSettlesOncePerSpawn, DeadlineMatchesAsk, WindowMatchesAnswers, AnsweredTooLate,
     StateMatchesChild, EveryStopIsBounded, NothingStranded, IsRunning
<1>2. CASE EngineStep
  BY <1>2, StartStepsAreSafe, SkipStepsAreSafe, MovesAreSafe, ExitStepsAreSafe, KillStepsAreSafe,
     ReadinessStepsAreSafe DEF EngineStep
<1>3. CASE Command
  BY <1>3, BeginStartIsSafe, StopStepsAreSafe, ReloadIsSafe, MovesAreSafe DEF Command
<1>4. QED
  BY <1>1, <1>2, <1>3, WorldIsSafe, TickIsSafe DEF Next

-----------------------------------------------------------------------------
(***************************************************************************)
(* The supervision of a service keeps its invariant, however the engine's  *)
(* steps, its requests, the process and its hooks interleave.              *)
(***************************************************************************)
THEOREM SupervisionInvariant == Spec => []IInv
<1>1. Init => TypeOK /\ SafetyInv
  BY InitIsSafe DEF IInv, SafetyInv
<1>2. TypeOK /\ SafetyInv /\ [Next]_vars => (TypeOK /\ SafetyInv)'
  BY StepKeepsTypes, StepIsSafe
<1>3. TypeOK /\ SafetyInv => IInv
  BY DEF IInv, SafetyInv
<1>4. QED
  BY <1>1, <1>2, <1>3, PTL DEF Spec

(***************************************************************************)
(* Readiness settles at most once per spawn.                               *)
(***************************************************************************)
THEOREM ReadinessSettlesOnce == Spec => []ReadinessSettlesOncePerSpawn
<1>1. IInv => ReadinessSettlesOncePerSpawn
  BY DEF IInv
<1>2. QED
  BY <1>1, SupervisionInvariant, PTL

(***************************************************************************)
(* What holds as long as the log channel has room.                         *)
(***************************************************************************)
LEMMA SupervisionHolds == Spec => []BoundedInv
<1>1. Init => TypeOK /\ SafetyInv
  BY InitIsSafe DEF IInv, SafetyInv
<1>2. TypeOK /\ SafetyInv /\ [Next]_vars => (TypeOK /\ SafetyInv)'
  BY StepKeepsTypes, StepIsSafe
<1>3. TypeOK /\ SafetyInv => BoundedInv
  BY DEF SafetyInv
<1>4. QED
  BY <1>1, <1>2, <1>3, PTL DEF Spec

(***************************************************************************)
(* Where the log channel always has room, no stop loses its escalation.    *)
(***************************************************************************)
THEOREM SupervisionIsBounded == Spec => [](~LogMayBlock => EveryStopIsBounded)
<1>1. BoundedInv => (~LogMayBlock => EveryStopIsBounded)
  BY DEF BoundedInv
<1>2. QED
  BY <1>1, SupervisionHolds, PTL

(***************************************************************************)
(* And a service that crashed, whose spawn failed or whose respawn was     *)
(* dropped by a request is never left without a restart to come: the only  *)
(* one left without is a service whose command did not expand when it was  *)
(* to be started or restarted.                                             *)
(***************************************************************************)
THEOREM NoServiceIsStranded == Spec => [](~LogMayBlock => NothingStranded)
<1>1. BoundedInv => (~LogMayBlock => NothingStranded)
  BY DEF BoundedInv
<1>2. QED
  BY <1>1, SupervisionHolds, PTL

(***************************************************************************)
(* No process is force killed before stop_timeout is over, counted from    *)
(* the last time that very process was asked to stop.                      *)
(***************************************************************************)
THEOREM NoProcessIsKilledEarly == Spec => NoEarlyKill
<1>1. ASSUME IInv, [Next]_vars, KillStarts PROVE sinceAsk = StopTimeout
  <2>1. CASE EnforceDeadline
    <3>1. svc.stopLeft = 0
      BY <2>1 DEF EnforceDeadline
    <3>2. IsRunning(svc)
      BY <1>1, <2>1 DEF KillStarts, EnforceDeadline, IsRunning
    <3>3. QED
      BY <1>1, <3>1, <3>2, DeadlineIsNotEarly DEF IInv
  <2>2. ASSUME NEW b \in BOOLEAN, RunKillCommand(b) PROVE sinceAsk = StopTimeout
    <3>1. pc = "killing" /\ IsRunning(svc)
      BY <1>1, <2>2 DEF KillStarts, RunKillCommand, IsRunning
    <3>2. QED
      BY <1>1, <3>1 DEF IInv, DeadlineMatchesAsk
  <2>3. ASSUME ~EnforceDeadline, ~\E b \in BOOLEAN : RunKillCommand(b) PROVE FALSE
    <3>1. pc' # "killing" \/ pc = "killing"
      BY <1>1, <2>3
         DEF Next, EngineStep, Command, World, vars, FinishStart, StartFails, SlotDue, Respawn,
             RespawnFails, ScheduleRestart, NoExit, DeadlineNotDue, ReadinessIdle, StartProbe,
             ProbeCannotRun, ReadinessPassed, ReadinessTimedOut, RecordVerdict, ObserveExit,
             SkipStart, SkipRespawn, BeginStart, SignalInstead, RestartProcess, Reload,
             ReloadOthers, StatusRequest, ProcessExits,
             HookFinishes, StrayEnds, ProbeFinishes, Tick
    <3>2. svc' = svc \/ svc'.child = svc.child \/ svc'.child # "dying"
      <4>1. svc \in ServiceType
        BY <1>1 DEF IInv, TypeOK
      <4>2. CASE FinishStart \/ Respawn
        BY <4>1, <4>2, StartEffect DEF FinishStart, Respawn
      <4>3. CASE \E h \in HookChoices : SignalInstead(h) \/ RestartProcess(h)
        BY <4>1, <4>3, StopEffect DEF SignalInstead, RestartProcess, HookChoices
      <4>4. CASE \E h \in HookChoices : Reload(h)
        BY <4>4 DEF Reload, NewService
      <4>5. CASE \E branch \in {"starting", "starting_for_request"} : BeginStart(branch)
        BY <4>1, <4>5 DEF BeginStart, ReapIfExited, ServiceType
      <4>6. CASE \E b \in BOOLEAN : ObserveExit(b)
        BY <4>1, <4>6 DEF ObserveExit, Check, ServiceType
      <4>7. CASE ReadinessIdle \/ StartProbe \/ Tick
        BY <4>1, <4>7 DEF ReadinessIdle, StartProbe, Tick, ServiceType
      <4>8. CASE ProbeCannotRun \/ ReadinessPassed \/ ReadinessTimedOut \/ World
        BY <4>1, <4>8 DEF ProbeCannotRun, ReadinessPassed, ReadinessTimedOut, WindowClosed,
           World, ProcessExits, HookFinishes, StrayEnds, ProbeFinishes, ServiceType
      <4>9. CASE \/ StartFails \/ SlotDue \/ RespawnFails \/ ScheduleRestart \/ NoExit
                 \/ DeadlineNotDue \/ RecordVerdict \/ StatusRequest \/ ReloadOthers
                 \/ SkipStart \/ SkipRespawn \/ UNCHANGED vars
        BY <4>9 DEF StartFails, SlotDue, RespawnFails, ScheduleRestart, NoExit,
           DeadlineNotDue, RecordVerdict, StatusRequest, ReloadOthers, SkipStart,
           SkipRespawn, vars
      <4>10. QED
        BY <1>1, <2>3, <4>2, <4>3, <4>4, <4>5, <4>6, <4>7, <4>8, <4>9
           DEF Next, EngineStep, Command
    <3>3. QED
      BY <1>1, <3>1, <3>2 DEF KillStarts
  <2>4. QED
    BY <2>1, <2>2, <2>3
<1>2. QED
  BY <1>1, SupervisionInvariant, PTL DEF Spec, NoEarlyKill
=============================================================================
