------------------------------- MODULE Engine -------------------------------
(***************************************************************************)
(* The engine (src/crates/zaz-daemon/src/engine.rs): groups with their     *)
(* tasks and services, driven by one task that starts them in dependency   *)
(* order, runs them again on file changes and requests, and supervises     *)
(* their services.                                                         *)
(*                                                                         *)
(* The engine is sequential, but its handlers call each other across       *)
(* awaits and hand work to themselves through a channel.  todo is what it  *)
(* still has to do before it is idle again: the rest of the loops and      *)
(* calls it is in, as a stack of items, the head being the innermost.  One *)
(* step of the engine is one round of the innermost loop, and tasks,       *)
(* services and checks go on between two steps.  A poll that waits for a   *)
(* startup delay or a cleanup hook can be dropped by a request, and todo   *)
(* with it; a startup or a request runs to its end.                        *)
(*                                                                         *)
(* Module Service has what happens inside one service: deadlines, hooks,   *)
(* backoff and probes are abstracted here to when they end.                *)
(***************************************************************************)
EXTENDS DependencyResolver, Integers, Sequences

CONSTANTS
  StartupTasks, OnChangeTasks,   \* for each group, its tasks of either kind
  Services,        \* for each group, its services
  HasReadyCheck,   \* the services with a ready_check
  HasDelay, HasCleanup,   \* the services with a startup delay, a cleanup hook
  TaskOnly,        \* the engine of the one-shot task command
  SpawnMayFail,    \* the system may refuse to start a service
  MayNotExpand,    \* the tasks and services with variables that some
                   \* configuration leaves undefined
  RequestKinds,    \* the requests clients make
  MaxFailures, MaxExits, MaxChanges, MaxRequests   \* bounds on the environment

Tasks       == UNION {StartupTasks[g] \cup OnChangeTasks[g] : g \in Groups}
AllServices == UNION {Services[g] : g \in Groups}
TasksOf(g)  == StartupTasks[g] \cup OnChangeTasks[g]

ASSUME EngineAssumption ==
  /\ \A m \in {StartupTasks, OnChangeTasks, Services} : DOMAIN m = Groups
  /\ \A g, h \in Groups :
       /\ StartupTasks[g] \cap OnChangeTasks[h] = {}
       /\ g # h => TasksOf(g) \cap TasksOf(h) = {} /\ Services[g] \cap Services[h] = {}
  /\ HasReadyCheck \cup HasDelay \cup HasCleanup \subseteq AllServices
  /\ MayNotExpand \subseteq Tasks \cup AllServices
  /\ {TaskOnly, SpawnMayFail} \subseteq BOOLEAN
  /\ RequestKinds \subseteq {"status", "group", "task", "service", "all", "reload"}
  /\ {MaxFailures, MaxExits, MaxChanges, MaxRequests} \subseteq Nat

GroupOfTask(t)    == CHOOSE g \in Groups : t \in TasksOf(g)
GroupOfService(s) == CHOOSE g \in Groups : s \in Services[g]

VARIABLES
  waiting, statuses,   \* the dependency resolver
  status,              \* the status of each group the user sees
  services_started, pending_ready,   \* of each group
  suppress,            \* suppress_task_completion_cascade
  run,                 \* each task: idle, executing, or done with its completion sent
  failed,              \* the tasks whose last run failed
  pending,             \* pending_tasks
  unexpandable,        \* the tasks and services whose commands the present
                       \* configuration does not expand
  queued,              \* service actions queued by the resolver's callbacks
  proc,                \* the process of each service: none, alive, dead
  window,              \* the services in their readiness window
  slot,                \* the services with a restart scheduled
  service_status,      \* the status of each service the user sees
  job, todo,           \* what the engine is doing
  budget               \* what is left of the bounds

resolver == <<waiting, statuses>>
taskVars == <<run, failed, pending, unexpandable>>
serviceVars == <<proc, window, slot, service_status>>
groupVars == <<status, services_started, pending_ready, suppress>>
vars == <<resolver, groupVars, taskVars, queued, serviceVars, job, todo, budget>>

None == [cascade |-> FALSE, phase |-> "None"]

-----------------------------------------------------------------------------
(***************************************************************************)
(* The items of todo.  Those that stand for a loop over groups keep the    *)
(* groups still to come; the order of the loop is left open.               *)
(***************************************************************************)
Loop(kind, S) == IF S = {} THEN <<>> ELSE <<[do |-> kind, groups |-> S]>>

Exec(S, onChange, cascade) ==
  IF S = {} THEN <<>>
  ELSE <<[do |-> "exec", groups |-> S, onChange |-> onChange, cascade |-> cascade]>>

\* the phase of a serve item is known beforehand, or determined at its end
Serve(g, start, phase, cascade) ==
  <<[do |-> "serve", group |-> g, start |-> start, left |-> Services[g], at |-> {},
     phase |-> phase, cascade |-> cascade]>>

Drain  == <<[do |-> "drain", failed |-> {}, actions |-> <<>>]>>
Simple(kind) == <<[do |-> kind]>>
Check  == Loop("check", {g \in Groups : Services[g] # {}})
Supervise(g) == <<[do |-> "supervise", group |-> g, left |-> Services[g], at |-> {}]>>
Settle(g, ok) == <<[do |-> "settle", group |-> g, ok |-> ok]>>

Now == Head(todo)
Doing(kind) == todo # <<>> /\ Now.do = kind

\* the loop at the head, after its round for g
After(g) ==
  IF Now.groups = {g} THEN Tail(todo)
  ELSE <<[Now EXCEPT !.groups = @ \ {g}]>> \o Tail(todo)

-----------------------------------------------------------------------------
(***************************************************************************)
(* Queries.                                                                *)
(***************************************************************************)
RunnableTasks(g, onChange) ==
  IF onChange THEN TasksOf(g) ELSE StartupTasks[g]

AwaitsReadiness(g) == Services[g] \cap window # {}

(***************************************************************************)
(* determine_lifecycle_phase.                                              *)
(***************************************************************************)
\* slip: only the group's own first start counts as Startup
Phase_OwnStartOnly(g, started) ==
  IF Services[g] # {} /\ ~started THEN "Startup" ELSE "Runtime"

Phase(g, started) ==
  IF HasWaitingDependents(waiting, g) \/ (Services[g] # {} /\ ~started)
  THEN "Startup" ELSE "Runtime"

(***************************************************************************)
(* propagate_to_dependents: the call a group's completion leads to.        *)
(***************************************************************************)
Propagate(g, phase, cascade) ==
  IF ~cascade THEN <<>>
  ELSE IF phase = "Startup" THEN Loop("trigger", {g})
  ELSE Loop("cascade", Dependents(g))

(***************************************************************************)
(* filter_affected_to_roots.                                               *)
(***************************************************************************)
Roots(affected) == {g \in affected : DependsOn[g] \cap affected = {}}

(***************************************************************************)
(* spawn_task for each of the tasks: those in flight run again afterwards. *)
(* spawn_group_tasks passes over a task whose command does not expand.     *)
(***************************************************************************)
InFlight(t) == run[t] # "idle"

Spawn(S) ==
  /\ pending' = pending \cup {t \in S : InFlight(t)}
  /\ run' = [t \in Tasks |-> IF t \in S /\ ~InFlight(t) THEN "executing" ELSE run[t]]
  /\ failed' = failed \ {t \in S : ~InFlight(t)}
  /\ UNCHANGED unexpandable

SpawnGroupTasks(g, onChange) ==
  /\ status' = [status EXCEPT ![g] = "Running"]
  /\ Spawn(RunnableTasks(g, onChange) \ unexpandable)

(***************************************************************************)
(* set_group_status: both copies.                                          *)
(***************************************************************************)
SetReady(g) ==
  /\ status' = [status EXCEPT ![g] = "Ready"]
  /\ statuses' = MarkReady(statuses, g)

-----------------------------------------------------------------------------
Init ==
  /\ waiting = [g \in Groups |-> {}]
  /\ statuses = [g \in Groups |-> "Pending"]
  /\ status = [g \in Groups |-> "Pending"]
  /\ services_started = [g \in Groups |-> FALSE]
  /\ pending_ready = [g \in Groups |-> None]
  /\ suppress = {}
  /\ run = [t \in Tasks |-> "idle"] /\ failed = {} /\ pending = {}
  /\ unexpandable \in SUBSET MayNotExpand
  /\ queued = [g \in Groups |-> [start |-> 0, restart |-> 0]]
  /\ proc = [s \in AllServices |-> "none"]
  /\ window = {} /\ slot = {}
  /\ service_status = [s \in AllServices |-> "Pending"]
  /\ job = "new" /\ todo = <<>>
  /\ budget = [failures |-> MaxFailures, changes |-> MaxChanges,
               requests |-> MaxRequests, exits |-> MaxExits]

(***************************************************************************)
(* What startup and restart_all share: every group with a dependency that  *)
(* is not Ready is marked waiting, the others are executed.                *)
(***************************************************************************)
StartWave(st0) ==
  LET unready == [g \in Groups |-> UnreadyDependencies(st0, g)]
      late    == {g \in Groups : unready[g] # {}}
  IN  /\ waiting' = unready
      /\ statuses' = [g \in Groups |-> IF g \in late THEN "Waiting" ELSE st0[g]]
      /\ status' = [g \in Groups |-> IF g \in late THEN "Waiting" ELSE status[g]]
      /\ todo' = Exec(Groups \ late, FALSE, TRUE)

Startup ==
  /\ job = "new"
  /\ job' = "startup"
  /\ StartWave(statuses)
  /\ UNCHANGED <<services_started, pending_ready, suppress, taskVars, queued,
                 serviceVars, budget>>

\* slip: the last drain is not the last
Finish_NeverLast ==
  /\ job \notin {"new", "idle", "done"} /\ todo = <<>>
  /\ job' = "idle"
  /\ UNCHANGED <<resolver, groupVars, taskVars, queued, serviceVars, todo, budget>>

Finish ==
  /\ job \notin {"new", "idle", "done"} /\ todo = <<>>
  /\ job' = IF job = "last" THEN "done" ELSE "idle"
  /\ UNCHANGED <<resolver, groupVars, taskVars, queued, serviceVars, todo, budget>>

(***************************************************************************)
(* One turn of the daemon's loop: poll, then check_services.  The one-shot *)
(* command drains completions until no task runs, once more, and ends.     *)
(***************************************************************************)
\* slip: the command ends with the first task
Poll_EndsEarly ==
  /\ job = "idle"
  /\ job' = IF TaskOnly /\ \E t \in Tasks : ~InFlight(t) THEN "last" ELSE "poll"
  /\ todo' = IF TaskOnly THEN Drain ELSE Drain \o Simple("watch") \o Check
  /\ UNCHANGED <<resolver, groupVars, taskVars, queued, serviceVars, budget>>

Poll ==
  /\ job = "idle"
  /\ job' = IF TaskOnly /\ \A t \in Tasks : ~InFlight(t) THEN "last" ELSE "poll"
  /\ todo' = IF TaskOnly THEN Drain ELSE Drain \o Simple("watch") \o Check
  /\ UNCHANGED <<resolver, groupVars, taskVars, queued, serviceVars, budget>>

-----------------------------------------------------------------------------
(***************************************************************************)
(* execute_groups, one group: its tasks, or else its services, or nothing. *)
(***************************************************************************)
ExecTasks(g) ==
  /\ Doing("exec") /\ g \in Now.groups
  /\ RunnableTasks(g, Now.onChange) # {}
  /\ SpawnGroupTasks(g, Now.onChange)
  /\ todo' = After(g)
  /\ UNCHANGED <<resolver, services_started, pending_ready, suppress, queued,
                 serviceVars, job, budget>>

ExecNothing(g) ==
  /\ Doing("exec") /\ g \in Now.groups
  /\ RunnableTasks(g, Now.onChange) = {}
  /\ TaskOnly \/ Services[g] = {}
  /\ SetReady(g)
  /\ todo' = Propagate(g, Phase(g, services_started[g]), Now.cascade) \o After(g)
  /\ UNCHANGED <<waiting, services_started, pending_ready, suppress, taskVars, queued,
                 serviceVars, job, budget>>

ExecServices(g) ==
  /\ Doing("exec") /\ g \in Now.groups
  /\ RunnableTasks(g, Now.onChange) = {}
  /\ ~TaskOnly /\ Services[g] # {}
  /\ todo' = Serve(g, ~services_started[g], Phase(g, services_started[g]), Now.cascade)
              \o After(g)
  /\ UNCHANGED <<resolver, groupVars, taskVars, queued, serviceVars, job, budget>>

(***************************************************************************)
(* handle_service_action, one service: a running one is asked to restart,  *)
(* unless its group starts for the first time; the others are started,     *)
(* after their delay and cleanup hook.  A command that does not expand is  *)
(* noticed between the two, and its service passed over.                   *)
(***************************************************************************)
ServeSignal(s) ==
  /\ Doing("serve") /\ Now.at = {} /\ s \in Now.left
  /\ ~Now.start /\ proc[s] = "alive"
  /\ window' = window \ {s}
  /\ service_status' = [service_status EXCEPT ![s] = "Running"]
  /\ todo' = <<[Now EXCEPT !.left = @ \ {s}]>> \o Tail(todo)
  /\ UNCHANGED <<resolver, groupVars, taskVars, queued, proc, slot, job, budget>>

ServeBegin(s) ==
  /\ Doing("serve") /\ Now.at = {} /\ s \in Now.left
  /\ Now.start \/ proc[s] # "alive"
  /\ todo' = <<[Now EXCEPT !.at = {s}]>> \o Tail(todo)
  /\ UNCHANGED <<resolver, groupVars, taskVars, queued, serviceVars, job, budget>>

(***************************************************************************)
(* start and arm_readiness.  start does nothing for a service whose exit   *)
(* has not been noticed yet; the window is opened anyway.                  *)
(***************************************************************************)
StartService(s) ==
  /\ proc' = [proc EXCEPT ![s] = IF @ = "none" THEN "alive" ELSE @]
  /\ window' = window \cup ({s} \cap HasReadyCheck)
  /\ service_status' = [service_status EXCEPT
                          ![s] = IF s \in window' THEN "Starting" ELSE "Running"]

ServeStart(s) ==
  /\ Doing("serve") /\ Now.at = {s} /\ s \notin unexpandable
  /\ StartService(s)
  /\ todo' = <<[Now EXCEPT !.left = @ \ {s}, !.at = {}]>> \o Tail(todo)
  /\ UNCHANGED <<resolver, groupVars, taskVars, queued, slot, job, budget>>

ServeSkips(s) ==
  /\ Doing("serve") /\ Now.at = {s} /\ s \in unexpandable
  /\ todo' = <<[Now EXCEPT !.left = @ \ {s}, !.at = {}]>> \o Tail(todo)
  /\ UNCHANGED <<resolver, groupVars, taskVars, queued, serviceVars, job, budget>>

(***************************************************************************)
(* Once every service was handled the group is started: Ready, or Running  *)
(* until its readiness checks have answered.  What is left to do then, a   *)
(* transition to be deferred or propagated, is the caller's.               *)
(***************************************************************************)
DeferOrPropagate(g, phase, cascade) ==
  IF AwaitsReadiness(g)
  THEN /\ pending_ready' = [pending_ready EXCEPT ![g] = [phase |-> phase, cascade |-> cascade]]
       /\ todo' = Tail(todo)
  ELSE todo' = Propagate(g, phase, cascade) \o Tail(todo)

ServeDone ==
  /\ Doing("serve") /\ Now.at = {} /\ Now.left = {}
  /\ LET g     == Now.group
         phase == IF Now.phase = "Later" THEN Phase(g, TRUE) ELSE Now.phase
     IN  /\ services_started' = [services_started EXCEPT ![g] = TRUE]
         /\ status' = [status EXCEPT ![g] = IF AwaitsReadiness(g) THEN "Running" ELSE "Ready"]
         /\ DeferOrPropagate(g, phase, Now.cascade)
         /\ ~AwaitsReadiness(g) => pending_ready' = [pending_ready EXCEPT ![g] = None]
  /\ UNCHANGED <<resolver, suppress, taskVars, queued, serviceVars, job, budget>>

(***************************************************************************)
(* A service that does not spawn ends the action with an error, which the  *)
(* callers log: execute_groups goes on with the next group, the loop over  *)
(* the actions propagates the completion all the same.                     *)
(***************************************************************************)
ServeFails ==
  /\ Doing("serve") /\ Now.at # {} /\ SpawnMayFail
  /\ Now.at \cap unexpandable = {}
  /\ \A s \in Now.at : proc[s] = "none"
  /\ IF Now.phase = "Later"
     THEN /\ DeferOrPropagate(Now.group, Phase(Now.group, services_started[Now.group]),
                              Now.cascade)
          /\ ~AwaitsReadiness(Now.group) => UNCHANGED pending_ready
     ELSE todo' = Tail(todo) /\ UNCHANGED pending_ready
  /\ UNCHANGED <<resolver, status, services_started, suppress, taskVars, queued,
                 serviceVars, job, budget>>

-----------------------------------------------------------------------------
(***************************************************************************)
(* trigger_dependents: the resolver marks the group complete; the groups   *)
(* it released start, then those behind a failure are skipped.             *)
(***************************************************************************)
\* slip: the groups released are started, a failed dependency or not
Trigger_StartsAll(g) ==
  /\ Doing("trigger") /\ Now.groups = {g}
  /\ waiting' = StopWaitingFor(waiting, {g})
  /\ SetReady(g)
  /\ todo' = Loop("start", Released(waiting, g)) \o Tail(todo)
  /\ UNCHANGED <<services_started, pending_ready, suppress, taskVars, queued,
                 serviceVars, job, budget>>

Trigger(g) ==
  /\ Doing("trigger") /\ Now.groups = {g}
  /\ waiting' = StopWaitingFor(waiting, {g})
  /\ SetReady(g)
  /\ todo' = Loop("start", ReadyToStart(waiting, statuses, g))
              \o Loop("skip", NeedsSkip(waiting, statuses, g)) \o Tail(todo)
  /\ UNCHANGED <<services_started, pending_ready, suppress, taskVars, queued,
                 serviceVars, job, budget>>

(***************************************************************************)
(* start_waiting_group: tasks, or nothing, or services; those are left to  *)
(* the next poll, through the channel the completions of tasks come by.    *)
(***************************************************************************)
StartWaitingTasks(g) ==
  /\ Doing("start") /\ g \in Now.groups
  /\ StartupTasks[g] # {}
  /\ SpawnGroupTasks(g, FALSE)
  /\ todo' = After(g)
  /\ UNCHANGED <<resolver, services_started, pending_ready, suppress, queued,
                 serviceVars, job, budget>>

StartWaitingNothing(g) ==
  /\ Doing("start") /\ g \in Now.groups
  /\ StartupTasks[g] = {} /\ (TaskOnly \/ Services[g] = {})
  /\ SetReady(g)
  /\ todo' = Loop("trigger", {g}) \o After(g)
  /\ UNCHANGED <<waiting, services_started, pending_ready, suppress, taskVars, queued,
                 serviceVars, job, budget>>

QueueServiceAction(g) ==
  /\ Doing("start") /\ g \in Now.groups
  /\ StartupTasks[g] = {} /\ ~TaskOnly /\ Services[g] # {}
  /\ queued' = IF services_started[g]
               THEN [queued EXCEPT ![g].restart = @ + 1]
               ELSE [queued EXCEPT ![g].start = @ + 1]
  /\ todo' = After(g)
  /\ UNCHANGED <<resolver, groupVars, taskVars, serviceVars, job, budget>>

(***************************************************************************)
(* cascade_skip for the groups refused, cascade_failure for a group that   *)
(* failed: the resolver skips what waits behind them, and both copies of   *)
(* the statuses follow.                                                    *)
(***************************************************************************)
\* slip: a failure reaches nobody but the group itself
SkipBehind_OwnOnly(S, own) ==
  /\ UNCHANGED waiting
  /\ statuses' = [g \in Groups |-> IF g \in S THEN own ELSE statuses[g]]
  /\ status' = [g \in Groups |-> IF g \in S THEN own ELSE status[g]]

SkipBehind(S, own) ==
  /\ waiting' = WaitingAfterSkip(waiting, S)
  /\ statuses' = StatusAfterSkip(waiting, statuses, S, own)
  /\ status' = StatusAfterSkip(waiting, status, S, own)

Skip ==
  /\ Doing("skip")
  /\ SkipBehind(Now.groups, "Skipped")
  /\ todo' = Tail(todo)
  /\ UNCHANGED <<services_started, pending_ready, suppress, taskVars, queued,
                 serviceVars, job, budget>>

Fail(g) ==
  /\ Doing("fail") /\ g \in Now.groups
  /\ SkipBehind({g}, "Failed")
  /\ todo' = After(g)
  /\ UNCHANGED <<services_started, pending_ready, suppress, taskVars, queued,
                 serviceVars, job, budget>>

(***************************************************************************)
(* cascade_service_restart, one dependent: it is run again when it is      *)
(* Ready, through its tasks or else its services.                          *)
(***************************************************************************)
CascadeTasks(g) ==
  /\ Doing("cascade") /\ g \in Now.groups
  /\ status[g] = "Ready" /\ StartupTasks[g] # {}
  /\ SpawnGroupTasks(g, FALSE)
  /\ todo' = After(g)
  /\ UNCHANGED <<resolver, services_started, pending_ready, suppress, queued,
                 serviceVars, job, budget>>

CascadeServices(g) ==
  /\ Doing("cascade") /\ g \in Now.groups
  /\ status[g] = "Ready" /\ StartupTasks[g] = {}
  /\ services_started[g] /\ Services[g] # {}
  /\ window' = window \ {s \in Services[g] : proc[s] = "alive"}
  /\ todo' = Loop("cascade", Dependents(g)) \o After(g)
  /\ UNCHANGED <<resolver, groupVars, taskVars, queued, proc, slot, service_status, job,
                 budget>>

CascadeNothing(g) ==
  /\ Doing("cascade") /\ g \in Now.groups
  /\ \/ status[g] # "Ready"
     \/ StartupTasks[g] = {} /\ (~services_started[g] \/ Services[g] = {})
  /\ todo' = After(g)
  /\ UNCHANGED <<resolver, groupVars, taskVars, queued, serviceVars, job, budget>>

-----------------------------------------------------------------------------
(***************************************************************************)
(* process_task_completions, one completion of a task: the last one of its *)
(* group gives the group its status and queues what follows from it; then  *)
(* a pending rerun is spawned, whatever the status, if its command expands.*)
(***************************************************************************)
FailedAfter(t) == IF run[t] = "failed" THEN failed \cup {t} ELSE failed \ {t}

DrainTask(t) ==
  LET g     == GroupOfTask(t)
      last  == \A u \in TasksOf(g) \ {t} : ~InFlight(u)
      broke == FailedAfter(t) \cap TasksOf(g) # {}
      act   == [group |-> g, start |-> ~services_started[g], cascade |-> g \notin suppress]
      rerun == t \in pending /\ t \notin unexpandable
  IN  /\ Doing("drain") /\ run[t] \in {"succeeded", "failed"}
      /\ status' = IF last THEN [status EXCEPT ![g] = IF broke THEN "Failed" ELSE "Ready"]
                   ELSE status
      /\ suppress' = IF last THEN suppress \ {g} ELSE suppress
      /\ todo' = CASE last /\ broke  -> <<[Now EXCEPT !.failed = @ \cup {g}]>> \o Tail(todo)
                   [] last /\ ~broke -> <<[Now EXCEPT !.actions = Append(@, act)]>> \o Tail(todo)
                   [] OTHER          -> todo
      /\ pending' = pending \ {t}
      /\ run' = [run EXCEPT ![t] = IF rerun THEN "executing" ELSE "idle"]
      /\ failed' = IF rerun THEN failed \ {t} ELSE FailedAfter(t)
      /\ UNCHANGED <<resolver, services_started, pending_ready, unexpandable, queued,
                     serviceVars, job, budget>>

DrainQueued(g) ==
  /\ Doing("drain")
  /\ \E kind \in {"start", "restart"} :
       /\ queued[g][kind] > 0
       /\ queued' = [queued EXCEPT ![g][kind] = @ - 1]
       /\ LET act == [group |-> g, start |-> kind = "start", cascade |-> TRUE]
          IN  todo' = <<[Now EXCEPT !.actions = Append(@, act)]>> \o Tail(todo)
  /\ UNCHANGED <<resolver, groupVars, taskVars, serviceVars, job, budget>>

(***************************************************************************)
(* With the channel empty the failures are followed up, then the actions.  *)
(* A queued service action is sent by a task of its own and may not be in  *)
(* the channel yet.                                                        *)
(***************************************************************************)
\* slip: after a failure the actions of the same drain are dropped
DrainEnds_FailuresOnly ==
  /\ Doing("drain")
  /\ \A t \in Tasks : run[t] \notin {"succeeded", "failed"}
  /\ todo' = IF Now.failed # {} THEN Loop("fail", Now.failed) \o Tail(todo)
              ELSE [i \in DOMAIN Now.actions |-> [do |-> "act", action |-> Now.actions[i]]]
                     \o Tail(todo)
  /\ UNCHANGED <<resolver, groupVars, taskVars, queued, serviceVars, job, budget>>

DrainEnds ==
  /\ Doing("drain")
  /\ \A t \in Tasks : run[t] \notin {"succeeded", "failed"}
  /\ todo' = Loop("fail", Now.failed)
              \o [i \in DOMAIN Now.actions |-> [do |-> "act", action |-> Now.actions[i]]]
              \o Tail(todo)
  /\ UNCHANGED <<resolver, groupVars, taskVars, queued, serviceVars, job, budget>>

ActServices ==
  /\ Doing("act") /\ Services[Now.action.group] # {}
  /\ todo' = Serve(Now.action.group, Now.action.start, "Later", Now.action.cascade)
              \o Tail(todo)
  /\ UNCHANGED <<resolver, groupVars, taskVars, queued, serviceVars, job, budget>>

ActNothing ==
  /\ Doing("act") /\ Services[Now.action.group] = {}
  /\ LET g == Now.action.group
     IN  todo' = Propagate(g, Phase(g, services_started[g]), Now.action.cascade)
                  \o Tail(todo)
  /\ UNCHANGED <<resolver, groupVars, taskVars, queued, serviceVars, job, budget>>

(***************************************************************************)
(* handle_changes.                                                         *)
(***************************************************************************)
NoChange ==
  /\ Doing("watch")
  /\ todo' = Tail(todo)
  /\ UNCHANGED <<resolver, groupVars, taskVars, queued, serviceVars, job, budget>>

Change(affected) ==
  /\ Doing("watch") /\ budget.changes > 0
  /\ budget' = [budget EXCEPT !.changes = @ - 1]
  /\ todo' = Exec(Roots(affected), TRUE, TRUE) \o Tail(todo)
  /\ UNCHANGED <<resolver, groupVars, taskVars, queued, serviceVars, job>>

-----------------------------------------------------------------------------
(***************************************************************************)
(* check_services: the groups with services, one service after the other.  *)
(***************************************************************************)
CheckGroup(g) ==
  /\ Doing("check") /\ g \in Now.groups
  /\ todo' = Supervise(g) \o After(g)
  /\ UNCHANGED <<resolver, groupVars, taskVars, queued, serviceVars, job, budget>>

Looking(s) == Doing("supervise") /\ Now.at = {} /\ s \in Now.left

Looked(s) == <<[Now EXCEPT !.left = @ \ {s}, !.at = {}]>> \o Tail(todo)

\* slip: the slot is cleared before the cleanup hook is awaited
RespawnDue_ClearsSlot(s) ==
  /\ Looking(s) /\ s \in slot /\ s \notin unexpandable
  /\ slot' = slot \ {s}
  /\ todo' = <<[Now EXCEPT !.at = {s}]>> \o Tail(todo)
  /\ UNCHANGED <<resolver, groupVars, taskVars, queued, proc, window, service_status, job,
                 budget>>

RespawnDue(s) ==
  /\ Looking(s) /\ s \in slot /\ s \notin unexpandable
  /\ todo' = <<[Now EXCEPT !.at = {s}]>> \o Tail(todo)
  /\ UNCHANGED <<resolver, groupVars, taskVars, queued, serviceVars, job, budget>>

(***************************************************************************)
(* A restart whose command does not expand is given up: the slot is        *)
(* cleared, and nothing spawned.                                           *)
(***************************************************************************)
RespawnDropped(s) ==
  /\ Looking(s) /\ s \in slot /\ s \in unexpandable
  /\ slot' = slot \ {s}
  /\ todo' = Looked(s)
  /\ UNCHANGED <<resolver, groupVars, taskVars, queued, proc, window, service_status, job,
                 budget>>

Respawn(s) ==
  /\ Doing("supervise") /\ Now.at = {s}
  /\ StartService(s)
  /\ slot' = slot \ {s}
  /\ todo' = Looked(s)
  /\ UNCHANGED <<resolver, groupVars, taskVars, queued, job, budget>>

(***************************************************************************)
(* A respawn that fails ends check_services: what is left of the loop, and *)
(* the groups already found settled, are dropped.                          *)
(***************************************************************************)
RespawnFails ==
  /\ Doing("supervise") /\ Now.at # {} /\ SpawnMayFail
  /\ \A s \in Now.at : proc[s] = "none"
  /\ todo' = <<>>
  /\ UNCHANGED <<resolver, groupVars, taskVars, queued, serviceVars, job, budget>>

RespawnLater(s) ==
  /\ Looking(s) /\ s \in slot
  /\ todo' = Looked(s)
  /\ UNCHANGED <<resolver, groupVars, taskVars, queued, serviceVars, job, budget>>

NoticeExit(s) ==
  /\ Looking(s) /\ s \notin slot /\ proc[s] = "dead"
  /\ proc' = [proc EXCEPT ![s] = "none"]
  /\ window' = window \ {s}
  /\ service_status' = [service_status EXCEPT ![s] = "Backoff"]
  /\ slot' = slot \cup {s}
  /\ todo' = Looked(s)
  /\ UNCHANGED <<resolver, groupVars, taskVars, queued, job, budget>>

(***************************************************************************)
(* tick_readiness: the window closes with a verdict, or stays open.        *)
(***************************************************************************)
ReadinessAnswers(s, passed) ==
  /\ Looking(s) /\ s \notin slot /\ proc[s] # "dead"
  /\ s \in window
  /\ window' = window \ {s}
  /\ service_status' =
       [service_status EXCEPT ![s] = IF passed THEN "Running" ELSE "Failed"]
  /\ todo' = Looked(s)
  /\ UNCHANGED <<resolver, groupVars, taskVars, queued, proc, slot, job, budget>>

NothingToDo(s) ==
  /\ Looking(s) /\ s \notin slot /\ proc[s] # "dead"
  /\ todo' = Looked(s)
  /\ UNCHANGED <<resolver, groupVars, taskVars, queued, serviceVars, job, budget>>

(***************************************************************************)
(* A deferred transition is due when no window of the group is open; it is *)
(* made after the loop, on the statuses found here.                        *)
(***************************************************************************)
GroupLooked ==
  /\ Doing("supervise") /\ Now.at = {} /\ Now.left = {}
  /\ LET g  == Now.group
         ok == \A s \in Services[g] : service_status[s] # "Failed"
     IN  todo' = Tail(todo) \o
                   (IF pending_ready[g] # None /\ ~AwaitsReadiness(g)
                    THEN Settle(g, ok) ELSE <<>>)
  /\ UNCHANGED <<resolver, groupVars, taskVars, queued, serviceVars, job, budget>>

(***************************************************************************)
(* settle_group_readiness.                                                 *)
(***************************************************************************)

SettleReady ==
  /\ Doing("settle") /\ Now.ok
  /\ LET g == Now.group
         p == pending_ready[g]
     IN  /\ pending_ready' = [pending_ready EXCEPT ![g] = None]
         /\ IF p = None \/ status[g] = "Ready"
            THEN todo' = Tail(todo) /\ UNCHANGED status
            ELSE /\ status' = [status EXCEPT ![g] = "Ready"]
                 /\ todo' = Propagate(g, p.phase, p.cascade) \o Tail(todo)
  /\ UNCHANGED <<resolver, services_started, suppress, taskVars, queued, serviceVars, job,
                 budget>>

SettleFailed ==
  /\ Doing("settle") /\ ~Now.ok
  /\ LET g == Now.group
     IN  /\ pending_ready' = [pending_ready EXCEPT ![g] = None]
         /\ IF pending_ready[g] = None \/ status[g] = "Ready"
            THEN UNCHANGED <<resolver, status>>
            ELSE SkipBehind({g}, "Failed")
         /\ todo' = Tail(todo)
  /\ UNCHANGED <<services_started, suppress, taskVars, queued, serviceVars, job, budget>>

EngineStep ==
  \/ Startup \/ Finish \/ Poll
  \/ ServeDone \/ ServeFails \/ Skip \/ DrainEnds \/ ActServices \/ ActNothing \/ NoChange
  \/ RespawnFails \/ GroupLooked \/ SettleReady \/ SettleFailed
  \/ \E g \in Groups :
       \/ ExecTasks(g) \/ ExecNothing(g) \/ ExecServices(g) \/ Trigger(g)
       \/ StartWaitingTasks(g) \/ StartWaitingNothing(g) \/ QueueServiceAction(g)
       \/ Fail(g) \/ CascadeTasks(g) \/ CascadeServices(g) \/ CascadeNothing(g)
       \/ DrainQueued(g) \/ CheckGroup(g)
  \/ \E t \in Tasks : DrainTask(t)
  \/ \E s \in AllServices :
       \/ ServeSignal(s) \/ ServeBegin(s) \/ ServeStart(s) \/ ServeSkips(s)
       \/ RespawnDue(s) \/ RespawnDropped(s) \/ Respawn(s) \/ RespawnLater(s)
       \/ NoticeExit(s) \/ NothingToDo(s)
       \/ \E passed \in BOOLEAN : ReadinessAnswers(s, passed)
  \/ \E affected \in SUBSET Groups \ {{}} : Change(affected)

-----------------------------------------------------------------------------
(***************************************************************************)
(* Requests.  One is taken up when the engine is idle, or suspends its     *)
(* poll at a delay or a cleanup hook; then the rest of that poll is gone.  *)
(***************************************************************************)
Suspended ==
  /\ job = "poll" /\ todo # <<>>
  /\ \/ /\ Now.do = "serve" /\ Now.at # {}
        /\ Now.at \subseteq HasDelay \cup (HasCleanup \ unexpandable)
     \/ Now.do = "supervise" /\ Now.at # {} /\ Now.at \subseteq HasCleanup

TakeRequest(kind) ==
  /\ ~TaskOnly /\ kind \in RequestKinds
  /\ job = "idle" \/ Suspended
  /\ budget.requests > 0
  /\ budget' = [budget EXCEPT !.requests = @ - 1]
  /\ job' = "request"

StatusRequest ==
  /\ TakeRequest("status")
  /\ todo' = <<>>
  /\ UNCHANGED <<resolver, groupVars, taskVars, queued, serviceVars>>

RestartGroup(g) ==
  /\ TakeRequest("group")
  /\ todo' = Exec({g}, FALSE, TRUE)
  /\ UNCHANGED <<resolver, groupVars, taskVars, queued, serviceVars>>

(***************************************************************************)
(* restart_process: a task is spawned by itself, a service asked to stop.  *)
(* What a stop does for a process that died unnoticed depends on whether   *)
(* it was waited for already: it may signal it, or do nothing, or fail,    *)
(* and then nobody behind the service is restarted.                        *)
(***************************************************************************)
RestartTask(t) ==
  /\ TakeRequest("task")
  /\ Spawn({t} \ unexpandable)
  /\ todo' = <<>>
  /\ UNCHANGED <<resolver, groupVars, queued, serviceVars>>

RestartService(s) ==
  /\ TakeRequest("service")
  /\ \/ /\ window' \in CASE proc[s] = "alive" -> {window \ {s}}
                          [] proc[s] = "dead"  -> {window \ {s}, window}
                          [] proc[s] = "none"  -> {window}
        /\ todo' = Loop("cascade", Dependents(GroupOfService(s)))
     \/ proc[s] = "dead" /\ todo' = <<>> /\ UNCHANGED window
  /\ UNCHANGED <<resolver, groupVars, taskVars, queued, proc, slot, service_status>>

(***************************************************************************)
(* restart_all: the resolver forgets everything and a new wave starts.     *)
(***************************************************************************)
RestartAll ==
  /\ TakeRequest("all")
  /\ StartWave([g \in Groups |-> "Pending"])
  /\ UNCHANGED <<services_started, pending_ready, suppress, taskVars, queued, serviceVars>>

(***************************************************************************)
(* reload_config, for a file in which the groups in M changed: they are    *)
(* built anew and executed, without a cascade.  The resolver is built anew *)
(* for all groups.  Tasks in flight go on; the services of M are asked to  *)
(* stop and forgotten.  The variables are those of the new file, also for  *)
(* the groups that did not change.                                         *)
(***************************************************************************)
ReloadConfig(M) ==
  LET forget == UNION {Services[g] : g \in M}
  IN  /\ TakeRequest("reload")
      /\ waiting' = [g \in Groups |-> {}]
      /\ statuses' = [g \in Groups |-> "Pending"]
      /\ status' = [g \in Groups |-> IF g \in M THEN "Pending" ELSE status[g]]
      /\ services_started' = [g \in Groups |-> g \notin M /\ services_started[g]]
      /\ pending_ready' = [g \in Groups |-> IF g \in M THEN None ELSE pending_ready[g]]
      /\ suppress' = suppress \cup M
      /\ failed' = {t \in failed : GroupOfTask(t) \notin M}
      /\ unexpandable' \in SUBSET MayNotExpand
      /\ proc' = [s \in AllServices |-> IF s \in forget THEN "none" ELSE proc[s]]
      /\ window' = window \ forget
      /\ slot' = slot \ forget
      /\ service_status' =
           [s \in AllServices |-> IF s \in forget THEN "Pending" ELSE service_status[s]]
      /\ todo' = Exec(M, FALSE, FALSE)
      /\ UNCHANGED <<run, pending, queued>>

Request ==
  \/ StatusRequest \/ RestartAll
  \/ \E g \in Groups : RestartGroup(g)
  \/ \E t \in Tasks : RestartTask(t)
  \/ \E s \in AllServices : RestartService(s)
  \/ \E M \in SUBSET Groups : ReloadConfig(M)

(***************************************************************************)
(* The processes the engine started.                                       *)
(***************************************************************************)
TaskEnds(t, ok) ==
  /\ run[t] = "executing"
  /\ ok \/ budget.failures > 0
  /\ run' = [run EXCEPT ![t] = IF ok THEN "succeeded" ELSE "failed"]
  /\ budget' = IF ok THEN budget ELSE [budget EXCEPT !.failures = @ - 1]
  /\ UNCHANGED <<resolver, groupVars, failed, pending, unexpandable, queued, serviceVars,
                 job, todo>>

ServiceExits(s) ==
  /\ proc[s] = "alive" /\ budget.exits > 0
  /\ proc' = [proc EXCEPT ![s] = "dead"]
  /\ budget' = [budget EXCEPT !.exits = @ - 1]
  /\ UNCHANGED <<resolver, groupVars, taskVars, queued, window, slot, service_status, job,
                 todo>>

World ==
  \/ \E t \in Tasks, ok \in BOOLEAN : TaskEnds(t, ok)
  \/ \E s \in AllServices : ServiceExits(s)

Done == job = "done" /\ UNCHANGED vars

Next == EngineStep \/ Request \/ World \/ Done

Spec == Init /\ [][Next]_vars

(***************************************************************************)
(* The daemon's loop goes on for ever; a task ends; a readiness window, a  *)
(* backoff, a delay and a cleanup hook are bounded, so a check that comes  *)
(* by again and again finds them over; and so does a drain with a service  *)
(* action that was sent.                                                   *)
(***************************************************************************)
FairSpec ==
  /\ Spec
  /\ WF_vars(EngineStep)
  /\ \A t \in Tasks : WF_vars(\E ok \in BOOLEAN : TaskEnds(t, ok))
  /\ \A s \in AllServices :
       /\ SF_vars(\E passed \in BOOLEAN : ReadinessAnswers(s, passed))
       /\ SF_vars(RespawnDue(s) \/ RespawnDropped(s) \/ Respawn(s))
  /\ SF_vars(\E g \in Groups : DrainQueued(g))
-----------------------------------------------------------------------------
(***************************************************************************)
(* What is on the stack.                                                   *)
(***************************************************************************)
Phases == {"Startup", "Runtime"}

Actions == [group : Groups, start : BOOLEAN, cascade : BOOLEAN]

Items ==
  [do : {"trigger", "start", "skip", "fail", "cascade", "check"}, groups : SUBSET Groups]
    \cup [do : {"exec"}, groups : SUBSET Groups, onChange : BOOLEAN, cascade : BOOLEAN]
    \cup [do : {"serve"}, group : Groups, start : BOOLEAN, left : SUBSET AllServices,
          at : SUBSET AllServices, phase : Phases \cup {"Later"}, cascade : BOOLEAN]
    \cup [do : {"drain"}, failed : SUBSET Groups, actions : Seq(Actions)]
    \cup [do : {"act"}, action : Actions]
    \cup [do : {"watch"}]
    \cup [do : {"supervise"}, group : Groups, left : SUBSET AllServices,
          at : SUBSET AllServices]
    \cup [do : {"settle"}, group : Groups, ok : BOOLEAN]

TypeOK ==
  /\ waiting \in WaitingMap /\ statuses \in StatusMap /\ status \in StatusMap
  /\ services_started \in [Groups -> BOOLEAN]
  /\ pending_ready \in [Groups -> [phase : Phases, cascade : BOOLEAN] \cup {None}]
  /\ suppress \subseteq Groups
  /\ run \in [Tasks -> {"idle", "executing", "succeeded", "failed"}]
  /\ failed \cup pending \subseteq Tasks
  /\ unexpandable \subseteq MayNotExpand
  /\ queued \in [Groups -> [start : Nat, restart : Nat]]
  /\ proc \in [AllServices -> {"none", "alive", "dead"}]
  /\ window \subseteq HasReadyCheck /\ slot \subseteq AllServices
  /\ service_status \in
       [AllServices -> {"Pending", "Starting", "Running", "Failed", "Backoff"}]
  /\ job \in {"new", "startup", "idle", "poll", "request", "last", "done"}
  /\ todo \in Seq(Items)
  /\ budget \in [{"failures", "changes", "requests", "exits"} -> Nat]

(***************************************************************************)
(* A group that still has something to say: tasks in flight, a service     *)
(* action in the channel, a transition its readiness checks hold back.     *)
(***************************************************************************)
HasQueued(g) == queued[g] # [start |-> 0, restart |-> 0]

Busy(g) ==
  \/ \E t \in TasksOf(g) : InFlight(t)
  \/ HasQueued(g)
  \/ pending_ready[g] # None

(***************************************************************************)
(* No lost wakeup: between two turns of the loop, a group that waits is    *)
(* either released, its service action under way, or waits for groups that *)
(* are going to report: each has something to say, or waits in its turn.   *)
(* (A group may be called something else than Waiting while the resolver   *)
(* has it wait: a file change runs it, a readiness check of an earlier     *)
(* start answers.  It is released and started all the same.)               *)
(***************************************************************************)
NobodyWaitsInVain ==
  job = "idle" =>
    \A g \in Groups :
      /\ status[g] = "Waiting" => waiting[g] # {} \/ HasQueued(g)
      /\ \A d \in waiting[g] : waiting[d] # {} \/ Busy(d)

(***************************************************************************)
(* No group is called Ready whose tasks are done but whose services were   *)
(* never started, however its completion meets changes and restarts.       *)
(***************************************************************************)
ServicesFollowTasks ==
  job = "idle" =>
    \A g \in Groups : status[g] = "Ready" /\ Services[g] # {} /\ ~Busy(g) =>
      services_started[g]

(***************************************************************************)
(* A service of a started group that has no process is going to get one:   *)
(* whatever fails to spawn, is cancelled or is reloaded, its restart stays *)
(* scheduled, if every configuration expands its command.                  *)
(***************************************************************************)
ServicesStaySupervised ==
  \A g \in Groups : \A s \in Services[g] \ MayNotExpand :
    services_started[g] /\ proc[s] = "none" => s \in slot

(***************************************************************************)
(* docs/configuration.md:166: zaz keeps services alive.  One whose command *)
(* a configuration did not expand when it was to start, or to restart, is  *)
(* neither running nor scheduled, and stays so under a later configuration *)
(* that expands it, until its group runs again.                            *)
(***************************************************************************)
EveryServiceIsKeptAlive ==
  \A g \in Groups : \A s \in Services[g] \ unexpandable :
    services_started[g] /\ proc[s] = "none" => s \in slot

(***************************************************************************)
(* Restarts and starts keep the order: a group that waited runs only once  *)
(* everything it depends on is Ready, tasks and services.                  *)
(***************************************************************************)
WaitersFollowDependencies ==
  [][\A g \in Groups : status[g] = "Waiting" /\ status'[g] \in {"Running", "Ready"} =>
       \A d \in DependsOn[g] : status'[d] = "Ready"]_vars

(***************************************************************************)
(* The one-shot command runs tasks only, and before it ends every group    *)
(* is Ready, Failed or Skipped.                                            *)
(***************************************************************************)
TaskOnlyStartsNothing == TaskOnly => \A s \in AllServices : proc[s] = "none"

NothingLeftUndone ==
  job = "done" => \A g \in Groups : status[g] \in {"Ready", "Failed", "Skipped"}

CommandEnds == <>(job = "done")

(***************************************************************************)
(* A reload starts no task.  Only its execution of groups does not cascade.*)
(***************************************************************************)
ReloadRunsNoTask ==
  [][Doing("exec") /\ ~Now.cascade =>
       \A t \in Tasks : ~InFlight(t) => ~InFlight(t)']_vars

(***************************************************************************)
(* Whatever files change and whatever fails, the groups all come to rest   *)
(* in the end.                                                             *)
(***************************************************************************)
EveryGroupComesToRest == []<>(\A g \in Groups : status[g] \in {"Ready", "Failed", "Skipped"})

-----------------------------------------------------------------------------
(***************************************************************************)
(* The first start of all groups is an ordered start.  A group counts as   *)
(* Running while it is executed, and while it is called Ready between its  *)
(* last task and its services.                                             *)
(***************************************************************************)
Underway(g) ==
  \E i \in DOMAIN todo :
    \/ todo[i].do = "act" /\ todo[i].action.group = g
    \/ todo[i].do = "serve" /\ todo[i].group = g
    \/ todo[i].do = "drain" /\ \E k \in DOMAIN todo[i].actions : todo[i].actions[k].group = g

StartupStatus(g) ==
  CASE status[g] = "Pending" -> IF DependsOn[g] = {} THEN "Running" ELSE "Waiting"
    [] status[g] = "Ready" /\ Underway(g) -> "Running"
    [] OTHER -> status[g]

Ordered == INSTANCE OrderedStart WITH status <- [g \in Groups |-> StartupStatus(g)]

OrderedStartSpec == Ordered!Spec
=============================================================================
