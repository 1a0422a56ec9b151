------------------------- MODULE DependencyResolver -------------------------
(***************************************************************************)
(* The dependency resolver of the engine                                   *)
(* (src/crates/zaz-daemon/src/dependency.rs).                              *)
(*                                                                         *)
(* The resolver keeps two maps: for every group that waits, the set of     *)
(* dependencies it still waits for, and its own copy of every group's      *)
(* status.  Its methods change both and report which groups may start and  *)
(* which are skipped.  Each method is an operator here, from the two maps  *)
(* to what it returns or leaves behind, so that the modules that drive the *)
(* resolver (ResolverWave, Engine) can use several of them in one step.    *)
(*                                                                         *)
(* A group without an entry in the map of waiting groups is represented by *)
(* the empty set: the code never leaves an empty entry behind.             *)
(***************************************************************************)

CONSTANTS
  Groups,       \* the configured groups
  DependsOn     \* for each group, the groups its depends_on names

(***************************************************************************)
(* The loader rejects an unknown dependency and a cycle, so the relation   *)
(* is well founded: a set of groups always has a member that depends on no *)
(* member of it.                                                           *)
(***************************************************************************)
ASSUME DependsOnAssumption ==
  /\ DependsOn \in [Groups -> SUBSET Groups]
  /\ \A S \in SUBSET Groups :
       S # {} => \E g \in S : DependsOn[g] \cap S = {}

GroupStatus == {"Pending", "Waiting", "Running", "Ready", "Failed", "Skipped"}

WaitingMap == [Groups -> SUBSET Groups]
StatusMap  == [Groups -> GroupStatus]

-----------------------------------------------------------------------------
(***************************************************************************)
(* Queries.  st is the resolver's status map, w its map of waiting groups. *)
(***************************************************************************)
Dependents(g) == {h \in Groups : g \in DependsOn[h]}

IsReady(st, g) == st[g] = "Ready"

IsFailedOrSkipped(st, g) == st[g] \in {"Failed", "Skipped"}

\* slip: asks whether g waits, not whether somebody waits for g
HasWaitingDependents_OfItself(w, g) == w[g] # {}

HasWaitingDependents(w, g) == \E h \in Dependents(g) : g \in w[h]

\* slip: all of them have to have failed
AnyDependencyFailed_Every(st, g) == \A d \in DependsOn[g] : IsFailedOrSkipped(st, d)

AnyDependencyFailed(st, g) == \E d \in DependsOn[g] : IsFailedOrSkipped(st, d)

-----------------------------------------------------------------------------
(***************************************************************************)
(* mark_waiting: a group waits for those of its dependencies that are not  *)
(* Ready.  It returns None, and changes nothing, when there are none.      *)
(***************************************************************************)
UnreadyDependencies(st, g) == {d \in DependsOn[g] : ~IsReady(st, d)}

(***************************************************************************)
(* mark_complete(g): g becomes Ready and nobody waits for it any longer.   *)
(* Released are the groups whose last dependency it was; those with a      *)
(* dependency that failed earlier are skipped, the others may start.       *)
(***************************************************************************)
StopWaitingFor(w, S) == [h \in Groups |-> w[h] \ S]

Released(w, g) == {h \in Dependents(g) : w[h] # {} /\ w[h] \subseteq {g}}

MarkReady(st, g) == [st EXCEPT ![g] = "Ready"]

NeedsSkip(w, st, g) ==
  {h \in Released(w, g) : AnyDependencyFailed(MarkReady(st, g), h)}

ReadyToStart(w, st, g) == Released(w, g) \ NeedsSkip(w, st, g)

(***************************************************************************)
(* mark_failed and mark_skipped: the skip travels from its sources through *)
(* the groups whose last awaited dependency is a source or a group already *)
(* skipped.  The code follows it with a worklist, one source at a time     *)
(* (module SkipCascade); what it reaches is the least set closed under     *)
(* that rule.                                                              *)
(***************************************************************************)
ClosedUnderSkip(w, sources, S) ==
  \A h \in Groups : w[h] # {} /\ w[h] \subseteq S \cup sources => h \in S

\* slip: the skip does not travel beyond the direct dependents
SkippedBehind_DirectOnly(w, sources) ==
  {h \in Groups : w[h] # {} /\ w[h] \subseteq sources}

SkippedBehind(w, sources) ==
  {h \in Groups :
     \A S \in SUBSET Groups : ClosedUnderSkip(w, sources, S) => h \in S}

WaitingAfterSkip(w, sources) ==
  StopWaitingFor(w, SkippedBehind(w, sources) \cup sources)

(***************************************************************************)
(* The sources themselves end up with the status own: Failed for a group   *)
(* that broke, Skipped for one that is skipped.                            *)
(***************************************************************************)
StatusAfterSkip(w, st, sources, own) ==
  [h \in Groups |-> CASE h \in SkippedBehind(w, sources) -> "Skipped"
                      [] h \in sources \ SkippedBehind(w, sources) -> own
                      [] OTHER -> st[h]]
=============================================================================
