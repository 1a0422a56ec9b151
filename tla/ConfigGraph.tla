----------------------------- MODULE ConfigGraph -----------------------------
(***************************************************************************)
(* The dependency graph of a configuration: detect_cycle, by which the     *)
(* loader refuses it (src/crates/zaz-config/src/validate.rs), and          *)
(* topological_sort, by which the engine orders what was accepted          *)
(* (src/crates/zaz-daemon/src/engine.rs).                                  *)
(*                                                                         *)
(* Both are the same depth-first search with different bookkeeping, and    *)
(* both recurse; here the recursion is a path and what each name on it has *)
(* still to look at.  The order of depends_on and of the groups is any.    *)
(* Module DependencyResolver assumes what this one shows: an accepted      *)
(* graph is well founded.                                                  *)
(***************************************************************************)
EXTENDS Naturals, Sequences

CONSTANT Names  \* of groups, and what a depends_on may name instead

VARIABLES
  groups,   \* the names that are defined
  deps,     \* depends_on, empty for what is not defined
  search,   \* "idle", "detect", "refused", "sort", "failed" or "loaded"
  path,     \* the calls in progress, outermost first
  rest,     \* what each of them has not looked at
  left,     \* names whose call has returned, in that order: the sort's result
  cycle     \* what the loader reports

graph == <<groups, deps>>
configVars == <<graph, search, path, rest, left, cycle>>

Searching == search \in {"detect", "sort"}
Visited == {left[i] : i \in DOMAIN left}
OnPath == {path[i] : i \in DOMAIN path}
Top == path[Len(path)]

-----------------------------------------------------------------------------
\* A graph whose order can be completed: every set of names has one that depends on none.
WellFounded == \A S \in SUBSET Names : S # {} => \E n \in S : deps[n] \cap S = {}

Known == \A n \in groups : deps[n] \subseteq groups

-----------------------------------------------------------------------------
Push(n) == path' = Append(path, n)

\* The loops over all groups, which pass over what was visited.
Enter ==
  /\ Searching /\ path = <<>>
  /\ \E g \in groups \ Visited : Push(g) /\ rest' = [rest EXCEPT ![g] = deps[g]]
  /\ UNCHANGED <<graph, search, left, cycle>>

\* The part of the path from n on, and n again.
CycleAt(n) ==
  LET start == CHOOSE i \in DOMAIN path : path[i] = n
  IN [i \in 1..(Len(path) - start + 2) |->
        IF i = Len(path) - start + 2 THEN n ELSE path[start + i - 1]]

\* slip: what is on the path counts as visited
Look_PathIsVisited ==
  /\ Searching /\ path # <<>>
  /\ \E n \in rest[Top] :
       /\ IF n \in OnPath \cup Visited
          THEN rest' = [rest EXCEPT ![Top] = @ \ {n}] /\ UNCHANGED path
          ELSE Push(n) /\ rest' = [rest EXCEPT ![Top] = @ \ {n}, ![n] = deps[n]]
       /\ UNCHANGED <<graph, left, search, cycle>>

\* One neighbour: on the path it closes a cycle, visited it is passed over.
Look ==
  /\ Searching /\ path # <<>>
  /\ \E n \in rest[Top] :
       /\ IF n \in OnPath \/ n \in Visited
          THEN rest' = [rest EXCEPT ![Top] = @ \ {n}] /\ UNCHANGED path
          ELSE Push(n) /\ rest' = [rest EXCEPT ![Top] = @ \ {n}, ![n] = deps[n]]
       /\ IF n \notin OnPath THEN UNCHANGED <<search, cycle>>
          ELSE \/ search = "detect" /\ search' = "refused" /\ cycle' = CycleAt(n)
               \/ search = "sort" /\ search' = "failed" /\ UNCHANGED cycle
       /\ UNCHANGED <<graph, left>>

\* slip: a name is put out when its call begins to return, with neighbours left
Leave_Early ==
  /\ Searching /\ path # <<>>
  /\ left' = Append(left, Top) /\ path' = SubSeq(path, 1, Len(path) - 1)
  /\ UNCHANGED <<graph, search, rest, cycle>>

\* Every neighbour was looked at: the call returns.
Leave ==
  /\ Searching /\ path # <<>> /\ rest[Top] = {}
  /\ left' = Append(left, Top) /\ path' = SubSeq(path, 1, Len(path) - 1)
  /\ UNCHANGED <<graph, search, rest, cycle>>

\* The loader refuses unknown names beside cycles; the engine sorts what was accepted.
Done ==
  /\ Searching /\ path = <<>> /\ groups \subseteq Visited
  /\ \/ search = "detect" /\ ~Known /\ search' = "refused" /\ UNCHANGED left
     \/ search = "detect" /\ Known /\ search' = "sort" /\ left' = <<>>
     \/ search = "sort" /\ search' = "loaded" /\ UNCHANGED left
  /\ UNCHANGED <<graph, path, rest, cycle>>

\* A configuration is loaded: any graph, with names that are not defined.
Load ==
  /\ search = "idle" /\ search' = "detect"
  /\ groups' \in SUBSET Names
  /\ deps' \in [Names -> SUBSET Names]
  /\ \A n \in Names \ groups' : deps'[n] = {}
  /\ UNCHANGED <<path, rest, left, cycle>>

ConfigInit ==
  /\ groups = {} /\ deps = [n \in Names |-> {}] /\ search = "idle"
  /\ path = <<>> /\ rest = [n \in Names |-> {}] /\ left = <<>> /\ cycle = <<>>

ConfigNext == Load \/ Enter \/ Look \/ Leave \/ Done

ConfigSpec == ConfigInit /\ [][ConfigNext]_configVars

-----------------------------------------------------------------------------
(* What the loader accepts is well founded and names only groups; what it refuses is not,  *)
(* or names something else; and what it accepts the sort does not fail on.                 *)
AcceptsTheWellFounded ==
  /\ search \in {"sort", "failed", "loaded"} => WellFounded /\ Known
  /\ search = "refused" => ~(WellFounded /\ Known)
  /\ search # "failed"

(* The order has every dependency of a group before the group, at any time; when it is     *)
(* complete it has every group, and never one twice.                                       *)
SortsDependenciesFirst ==
  /\ \A i \in DOMAIN left : deps[left[i]] \subseteq {left[j] : j \in 1..(i - 1)}
  /\ \A i, j \in DOMAIN left : left[i] = left[j] => i = j
  /\ search = "loaded" => Visited = groups
=============================================================================
