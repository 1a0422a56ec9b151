---------------------------- MODULE OrderedStart ----------------------------
(***************************************************************************)
(* What the engine promises of one start of all groups, whatever resolver, *)
(* queues and callbacks it uses: a group starts only when every group it   *)
(* depends on is Ready, a group is skipped only behind one that failed or  *)
(* was skipped, and nothing else ever happens to a group's status.         *)
(*                                                                         *)
(* One step may move several groups: the completion of a group starts, and *)
(* its failure skips, others in the same breath.  A group that has nothing *)
(* to run may become Ready as soon as it may start.                        *)
(***************************************************************************)
EXTENDS DependencyResolver

VARIABLE status

MayStart(st, g) == \A d \in DependsOn[g] : st[d] = "Ready"

MustSkip(st, g) == \E d \in DependsOn[g] : st[d] \in {"Failed", "Skipped"}

Init ==
  status = [g \in Groups |-> IF DependsOn[g] = {} THEN "Running" ELSE "Waiting"]

Stay(g)   == status'[g] = status[g]

Start(g)  == /\ status[g] = "Waiting" /\ MayStart(status', g)
             /\ status'[g] \in {"Running", "Ready"}

Settle(g) == /\ status[g] = "Running"
             /\ status'[g] \in {"Ready", "Failed"}

Skip(g)   == /\ status[g] = "Waiting" /\ MustSkip(status', g)
             /\ status'[g] = "Skipped"

Next ==
  /\ status' \in StatusMap
  /\ \A g \in Groups : Stay(g) \/ Start(g) \/ Settle(g) \/ Skip(g)

Spec == Init /\ [][Next]_status

(***************************************************************************)
(* The wave comes to an end: every group is Ready, Failed or Skipped.      *)
(***************************************************************************)
Settled == \A g \in Groups : status[g] \in {"Ready", "Failed", "Skipped"}
=============================================================================
