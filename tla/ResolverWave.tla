---------------------------- MODULE ResolverWave ----------------------------
(***************************************************************************)
(* One start of all groups, as the engine drives the dependency resolver   *)
(* through it (src/crates/zaz-daemon/src/engine.rs): startup marks the     *)
(* groups that have to wait, a group that finishes is announced with       *)
(* trigger_dependents, a group that breaks with cascade_failure.           *)
(*                                                                         *)
(* The status of a group is kept twice: status is the engine's copy, the   *)
(* one the user sees, and statuses the resolver's, the one its decisions   *)
(* are taken from.  Most of the engine's code writes only its own.         *)
(*                                                                         *)
(* What a running group does (its tasks, its services, its readiness       *)
(* checks) is abstracted to a time span at whose end it finishes or fails; *)
(* module Engine has the detail.  A group with nothing to run is a group   *)
(* whose time span is short.                                               *)
(***************************************************************************)
EXTENDS DependencyResolver

VARIABLES
  waiting,     \* the resolver's map of waiting groups
  statuses,    \* the resolver's copy of the statuses
  status       \* the engine's copy of the statuses

vars == <<waiting, statuses, status>>

AllPending == [g \in Groups |-> "Pending"]

(***************************************************************************)
(* startup: every group is marked waiting against the all-Pending map, and *)
(* the groups that need not wait are executed.                             *)
(***************************************************************************)
Init ==
  /\ waiting  = [g \in Groups |-> UnreadyDependencies(AllPending, g)]
  /\ statuses = [g \in Groups |-> IF waiting[g] = {} THEN "Pending" ELSE "Waiting"]
  /\ status   = [g \in Groups |-> IF waiting[g] = {} THEN "Running" ELSE "Waiting"]

(***************************************************************************)
(* propagate_to_dependents in the Startup phase: trigger_dependents.  The  *)
(* groups released start, or are skipped when a dependency failed before.  *)
(* A started group's status moves in the engine's copy only.               *)
(***************************************************************************)
TriggerDependents(g) ==
  LET started == ReadyToStart(waiting, statuses, g)
      refused == NeedsSkip(waiting, statuses, g)
      rest    == StopWaitingFor(waiting, {g})
      gone    == SkippedBehind(rest, refused) \cup refused
  IN  /\ waiting'  = WaitingAfterSkip(rest, refused)
      /\ statuses' = StatusAfterSkip(rest, MarkReady(statuses, g), refused, "Skipped")
      /\ status'   = [h \in Groups |-> CASE h \in gone    -> "Skipped"
                                         [] h \in started -> "Running"
                                         [] h = g         -> "Ready"
                                         [] OTHER         -> status[h]]

(***************************************************************************)
(* propagate_to_dependents in the Runtime phase: cascade_service_restart   *)
(* runs the dependents that are Ready once more.  The resolver is not told *)
(* that g finished.                                                        *)
(***************************************************************************)
CascadeRestart(g) ==
  /\ status' = [h \in Groups |->
                  CASE h \in Dependents(g) /\ status[h] = "Ready" -> "Running"
                    [] h = g -> "Ready"
                    [] OTHER -> status[h]]
  /\ UNCHANGED <<waiting, statuses>>

(***************************************************************************)
(* A group finishes.  With dependents waiting for it the phase is Startup; *)
(* otherwise it is Runtime, or still Startup for a group that has just     *)
(* started its services for the first time (determine_lifecycle_phase).    *)
(***************************************************************************)
Complete(g) ==
  /\ status[g] = "Running"
  /\ \/ TriggerDependents(g)
     \/ ~HasWaitingDependents(waiting, g) /\ CascadeRestart(g)

(***************************************************************************)
(* A group breaks: cascade_failure marks it in both copies and skips what  *)
(* waits behind it.                                                        *)
(***************************************************************************)

Fail(g) ==
  LET gone == SkippedBehind(waiting, {g})
  IN  /\ status[g] = "Running"
      /\ waiting'  = WaitingAfterSkip(waiting, {g})
      /\ statuses' = StatusAfterSkip(waiting, statuses, {g}, "Failed")
      /\ status'   = [h \in Groups |-> CASE h \in gone         -> "Skipped"
                                         [] h \in {g} \ gone   -> "Failed"
                                         [] OTHER              -> status[h]]

Next == \E g \in Groups : Complete(g) \/ Fail(g)

Spec == Init /\ [][Next]_vars

(***************************************************************************)
(* The fairness of the environment: what a group runs comes to an end.     *)
(***************************************************************************)
FairSpec == Spec /\ \A g \in Groups : WF_vars(Complete(g) \/ Fail(g))

-----------------------------------------------------------------------------
TypeOK ==
  /\ waiting  \in WaitingMap
  /\ statuses \in StatusMap
  /\ status   \in StatusMap

(***************************************************************************)
(* depends_on orders the groups: nothing runs, and nothing has run, whose  *)
(* dependencies are not all Ready.                                         *)
(***************************************************************************)
DependenciesFirst ==
  \A g \in Groups : status[g] \in {"Running", "Ready", "Failed"} =>
    \A d \in DependsOn[g] : status[d] = "Ready"

(***************************************************************************)
(* No lost wakeup: a group that waits has an entry in the resolver's map,  *)
(* and every group in the entry is still going to report, since it runs or *)
(* waits itself.                                                           *)
(***************************************************************************)
NobodyWaitsInVain ==
  \A g \in Groups : status[g] = "Waiting" =>
    /\ waiting[g] # {}
    /\ \A d \in waiting[g] : status[d] \in {"Running", "Waiting"}

(***************************************************************************)
(* A group is skipped only when a dependency failed or was skipped, and a  *)
(* group behind a failed dependency never runs.                            *)
(***************************************************************************)
SkippedOnlyBehindFailure ==
  \A g \in Groups : status[g] = "Skipped" =>
    \E d \in DependsOn[g] : status[d] \in {"Failed", "Skipped"}

(***************************************************************************)
(* The two copies may differ, but never where the resolver decides: a      *)
(* dependency it takes for failed has failed, and one that has failed it   *)
(* knows about.                                                            *)
(***************************************************************************)
CopiesAgreeOnFailure ==
  \A g \in Groups :
    IsFailedOrSkipped(statuses, g) <=> IsFailedOrSkipped(status, g)

-----------------------------------------------------------------------------
(***************************************************************************)
(* The strengthening that makes the invariants above inductive: an entry   *)
(* belongs to a waiting group, names some of its dependencies, and the     *)
(* dependencies it no longer names have settled.                           *)
(***************************************************************************)
EntriesTrackDependencies ==
  \A g \in Groups :
    /\ waiting[g] \subseteq DependsOn[g]
    /\ waiting[g] # {} => status[g] = "Waiting"
    /\ status[g] = "Waiting" =>
         \A d \in DependsOn[g] \ waiting[g] :
           status[d] \in {"Ready", "Failed", "Skipped"}

NobodyIsPending == \A g \in Groups : status[g] # "Pending"

IInv ==
  /\ TypeOK
  /\ DependenciesFirst
  /\ NobodyWaitsInVain
  /\ SkippedOnlyBehindFailure
  /\ CopiesAgreeOnFailure
  /\ EntriesTrackDependencies
  /\ NobodyIsPending

-----------------------------------------------------------------------------
(***************************************************************************)
(* The wave is an ordered start, and it comes to an end.                   *)
(***************************************************************************)
Ordered == INSTANCE OrderedStart

OrderedStartSpec == Ordered!Spec

(***************************************************************************)
(* If what the groups run terminates, every group ends up Ready, Failed or *)
(* Skipped.                                                                *)
(***************************************************************************)
EveryGroupSettles == <>Ordered!Settled
=============================================================================
