----------------------------- MODULE SkipCascade -----------------------------
(***************************************************************************)
(* The worklist behind mark_failed and mark_skipped (cascade_skip_from in  *)
(* src/crates/zaz-daemon/src/dependency.rs) and the loops of the engine    *)
(* that call it for one group after the other.                             *)
(*                                                                         *)
(* The code pops a group, takes it out of what its dependents wait for,    *)
(* and pushes every dependent this leaves with nothing to wait for.  The   *)
(* order of the stack is abstracted: any pushed group may be popped next.  *)
(* A dependent is pushed at most once, so the stack is a set.              *)
(***************************************************************************)
EXTENDS DependencyResolver

VARIABLES
  waiting0,    \* the waiting groups when the first call starts
  sources0,    \* the groups that failed or are skipped
  sources,     \* those whose call has not started yet
  entries,     \* the resolver's map of waiting groups
  toProcess,   \* the worklist of the call in progress
  skipped      \* the groups reported in to_skip, over all calls

cascadeVars == <<waiting0, sources0, sources, entries, toProcess, skipped>>

(***************************************************************************)
(* Several calls follow each other for the groups one completion released  *)
(* with a failed dependency, and those wait for nothing any more; a failed *)
(* group may itself be waiting, when a file change ran it early.           *)
(***************************************************************************)
CascadeInit ==
  /\ \E awaited \in SUBSET {e \in Groups \X Groups : e[2] \in DependsOn[e[1]]} :
       waiting0 = [h \in Groups |-> {d \in Groups : <<h, d>> \in awaited}]
  /\ sources0 \in SUBSET Groups
  /\ \A s \in sources0 : waiting0[s] = {} \/ sources0 = {s}
  /\ sources = sources0
  /\ entries = waiting0
  /\ toProcess = {}
  /\ skipped = {}

(***************************************************************************)
(* The next call: mark_failed or mark_skipped on one of the sources.       *)
(***************************************************************************)
MarkSource(s) ==
  /\ toProcess = {}
  /\ s \in sources
  /\ toProcess' = {s}
  /\ sources' = sources \ {s}
  /\ UNCHANGED <<waiting0, sources0, entries, skipped>>

(***************************************************************************)
(* One round of the while loop: pop current, walk its dependents.          *)
(***************************************************************************)

Emptied(w, current) ==
  {h \in Dependents(current) : w[h] # {} /\ w[h] \subseteq {current}}

\* slip: what was skipped is not followed any further
Process_OneLevel(current) ==
  /\ current \in toProcess
  /\ entries' = StopWaitingFor(entries, {current})
  /\ skipped' = skipped \cup Emptied(entries, current)
  /\ toProcess' = toProcess \ {current}
  /\ UNCHANGED <<waiting0, sources0, sources>>

Process(current) ==
  /\ current \in toProcess
  /\ entries' = StopWaitingFor(entries, {current})
  /\ skipped' = skipped \cup Emptied(entries, current)
  /\ toProcess' = (toProcess \ {current}) \cup Emptied(entries, current)
  /\ UNCHANGED <<waiting0, sources0, sources>>

CascadeNext == \E g \in Groups : MarkSource(g) \/ Process(g)

CascadeSpec == CascadeInit /\ [][CascadeNext]_cascadeVars /\ WF_cascadeVars(CascadeNext)

-----------------------------------------------------------------------------
CascadeTypeOK ==
  /\ waiting0 \in WaitingMap /\ entries \in WaitingMap
  /\ sources0 \subseteq Groups /\ sources \subseteq sources0
  /\ toProcess \subseteq Groups
  /\ skipped \subseteq Groups

Finished == sources = {} /\ toProcess = {}

(***************************************************************************)
(* When the last call returns, the groups reported are exactly those the   *)
(* rule reaches from all the sources together: no waiting group is left    *)
(* behind only settled dependencies, none is skipped that still has a live *)
(* one, and the order of the calls and of the stack does not matter.       *)
(***************************************************************************)
SkipsTheLeastClosure ==
  Finished =>
    /\ skipped = SkippedBehind(waiting0, sources0)
    /\ entries = WaitingAfterSkip(waiting0, sources0)

(***************************************************************************)
(* A group is skipped only after everything it waited for was popped: the  *)
(* worklist never skips a group that still waits for another dependency.   *)
(***************************************************************************)
SkippedOnlyWhenNothingAwaited ==
  \A h \in skipped : entries[h] = {} /\ waiting0[h] # {}
=============================================================================
