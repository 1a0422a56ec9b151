---------------------------- MODULE GraphProofs ----------------------------
(***************************************************************************)
(* The resolver and the searches over the dependency graph, for every set  *)
(* of groups and every graph: the rule of the skip (DependencyResolver),   *)
(* the worklist that computes it (SkipCascade), the loader's search for    *)
(* cycles with the engine's sort (ConfigGraph), and the start of all       *)
(* groups (ResolverWave).                                                  *)
(*                                                                         *)
(* The worklist computes the least closed set.  Its invariant names the    *)
(* groups popped so far: what is left of an entry is the entry minus       *)
(* those, so the skipped groups are the ones whose whole entry was popped; *)
(* when the stack is empty every source and every skipped group has been   *)
(* popped, which makes the skipped groups a closed set, and no step leaves *)
(* the least one.                                                          *)
(*                                                                         *)
(* The core of the loader's searches is what they have established about   *)
(* the names whose calls have returned: each came after all its            *)
(* dependencies (LeftInOrder).  When that covers every group, the order    *)
(* itself shows that the graph is well founded; and in a well-founded      *)
(* graph no path closes a cycle.                                           *)
(*                                                                         *)
(* The start of all groups is ordered and loses no wakeup.  Beyond the     *)
(* safety properties its invariant, IInv, says that an entry of the        *)
(* resolver's map names dependencies that have not reported, and that      *)
(* every other dependency of a waiting group has settled: a released group *)
(* then has only settled dependencies, and the resolver's copy, which      *)
(* agrees with the engine's on what failed, tells whether all of them are  *)
(* Ready.                                                                  *)
(***************************************************************************)
EXTENDS SkipCascade, ConfigGraph, ResolverWave, SequenceLemmas

(***************************************************************************)
(* The skipped groups form a set closed under the skip rule.               *)
(***************************************************************************)
LEMMA SkippedBehindIsClosed ==
  ASSUME NEW w \in WaitingMap, NEW failing \in SUBSET Groups
  PROVE  /\ SkippedBehind(w, failing) \in SUBSET Groups
         /\ ClosedUnderSkip(w, failing, SkippedBehind(w, failing))
<1> DEFINE X == SkippedBehind(w, failing)
<1>1. X \in SUBSET Groups
  BY DEF SkippedBehind
<1>2. ASSUME NEW h \in Groups, w[h] # {}, w[h] \subseteq X \cup failing
      PROVE  h \in X
  <2>1. SUFFICES ASSUME NEW S \in SUBSET Groups, ClosedUnderSkip(w, failing, S)
                 PROVE  h \in S
    BY DEF SkippedBehind
  <2>2. X \subseteq S
    BY <2>1 DEF SkippedBehind
  <2>3. w[h] \subseteq S \cup failing
    BY <1>2, <2>2
  <2>4. QED
    BY <1>2, <2>1, <2>3 DEF ClosedUnderSkip
<1>3. QED
  BY <1>1, <1>2 DEF ClosedUnderSkip

(***************************************************************************)
(* It is the least such set.                                               *)
(***************************************************************************)
LEMMA SkippedBehindIsLeast ==
  ASSUME NEW w, NEW failing, NEW S \in SUBSET Groups,
         ClosedUnderSkip(w, failing, S)
  PROVE  SkippedBehind(w, failing) \subseteq S
BY DEF SkippedBehind

(***************************************************************************)
(* No group is skipped without a reason: it waited for something, and all  *)
(* it waited for is a source or skipped itself.                            *)
(***************************************************************************)
LEMMA SkippedBehindIsJustified ==
  ASSUME NEW w \in WaitingMap, NEW failing \in SUBSET Groups,
         NEW g \in SkippedBehind(w, failing)
  PROVE  /\ w[g] # {}
         /\ w[g] \subseteq SkippedBehind(w, failing) \cup failing
<1> DEFINE X == SkippedBehind(w, failing)
           Y == X \ {g}
<1>1. X \in SUBSET Groups /\ ClosedUnderSkip(w, failing, X)
  BY SkippedBehindIsClosed
<1>2. SUFFICES ASSUME ~(w[g] # {} /\ w[g] \subseteq X \cup failing)
               PROVE  FALSE
  OBVIOUS
<1>3. ClosedUnderSkip(w, failing, Y)
  <2>1. SUFFICES ASSUME NEW h \in Groups, w[h] # {}, w[h] \subseteq Y \cup failing
                 PROVE  h \in Y
    BY DEF ClosedUnderSkip
  <2>2. w[h] \subseteq X \cup failing
    BY <2>1
  <2>3. h \in X
    BY <1>1, <2>1, <2>2 DEF ClosedUnderSkip
  <2>4. h # g
    BY <1>2, <2>1, <2>2
  <2>5. QED
    BY <2>3, <2>4
<1>4. Y \in SUBSET Groups
  BY <1>1
<1>5. X \subseteq Y
  BY <1>3, <1>4, SkippedBehindIsLeast
<1>6. QED
  BY <1>5

(***************************************************************************)
(* A failed group never skips itself: the dependency graph has no cycle.   *)
(***************************************************************************)
LEMMA SourceIsNotSkipped ==
  ASSUME NEW w \in WaitingMap, \A h \in Groups : w[h] \subseteq DependsOn[h],
         NEW g \in Groups
  PROVE  g \notin SkippedBehind(w, {g})
<1> DEFINE X == SkippedBehind(w, {g})
<1>1. SUFFICES ASSUME g \in X PROVE FALSE
  OBVIOUS
<1>2. X \in SUBSET Groups
  BY SkippedBehindIsClosed
<1>3. \A h \in X : w[h] # {} /\ w[h] \subseteq X
  BY <1>1, SkippedBehindIsJustified
<1>4. PICK h \in X : DependsOn[h] \cap X = {}
  BY <1>1, <1>2, DependsOnAssumption
<1>5. w[h] \subseteq DependsOn[h]
  BY <1>2
<1>6. QED
  BY <1>3, <1>4, <1>5

-----------------------------------------------------------------------------
(* The worklist of cascade_skip_from.                                                      *)
Popped == ((sources0 \ sources) \cup skipped) \ toProcess

CallsAreSound ==
  /\ \A h \in Groups : waiting0[h] \subseteq DependsOn[h]
  /\ \A s \in sources0 : waiting0[s] = {} \/ sources0 = {s}

WorklistInv ==
  /\ CascadeTypeOK
  /\ CallsAreSound
  /\ toProcess \subseteq (sources0 \ sources) \cup skipped
  /\ entries = StopWaitingFor(waiting0, Popped)
  /\ skipped = {h \in Groups : waiting0[h] # {} /\ waiting0[h] \subseteq Popped}
  /\ skipped \subseteq SkippedBehind(waiting0, sources0)

(***************************************************************************)
(* No source is ever skipped: it waits for nothing, or it is the only one  *)
(* and the graph has no cycle.                                             *)
(***************************************************************************)
LEMMA SourcesAreNotSkipped ==
  ASSUME CascadeTypeOK, CallsAreSound, NEW s \in SkippedBehind(waiting0, sources0)
  PROVE  s \notin sources0
<1>1. SUFFICES ASSUME s \in sources0 PROVE FALSE
  OBVIOUS
<1>2. waiting0 \in WaitingMap /\ sources0 \in SUBSET Groups /\ s \in Groups
  BY DEF CascadeTypeOK, SkippedBehind
<1>3. waiting0[s] # {}
  BY <1>2, SkippedBehindIsJustified
<1>4. sources0 = {s}
  BY <1>1, <1>3 DEF CallsAreSound
<1>5. QED
  BY <1>2, <1>4, SourceIsNotSkipped DEF CallsAreSound

(***************************************************************************)
(* One round of the loop: what it empties was not skipped before, is no    *)
(* source, and is in the closure.                                          *)
(***************************************************************************)
LEMMA EmptiedIsNew ==
  ASSUME WorklistInv, NEW current \in toProcess,
         NEW h \in Emptied(entries, current)
  PROVE  /\ h \in Groups
         /\ h \notin skipped
         /\ h \in SkippedBehind(waiting0, sources0)
         /\ h \notin sources0
<1> USE DEF WorklistInv, CascadeTypeOK, WaitingMap
<1>1. h \in Groups /\ entries[h] # {} /\ entries[h] \subseteq {current}
  BY DEF Emptied, Dependents
<1>2. entries[h] = waiting0[h] \ Popped
  BY <1>1 DEF StopWaitingFor
<1>3. h \notin skipped
  BY <1>1, <1>2
<1>4. waiting0[h] \subseteq Popped \cup {current} /\ waiting0[h] # {}
  BY <1>1, <1>2
<1>5. waiting0[h] \subseteq SkippedBehind(waiting0, sources0) \cup sources0
  <2>1. current \in sources0 \cup skipped
    OBVIOUS
  <2>2. Popped \subseteq sources0 \cup skipped
    BY DEF Popped
  <2>3. skipped \subseteq SkippedBehind(waiting0, sources0)
    OBVIOUS
  <2>4. QED
    BY ONLY <1>4, <2>1, <2>2, <2>3
<1>6. h \in SkippedBehind(waiting0, sources0)
  BY <1>1, <1>4, <1>5, SkippedBehindIsClosed DEF ClosedUnderSkip
<1>7. h \notin sources0
  BY <1>6, SourcesAreNotSkipped
<1>8. QED
  BY <1>1, <1>3, <1>6, <1>7

(***************************************************************************)
(* WorklistInv is an invariant of the worklist.                            *)
(***************************************************************************)
THEOREM WorklistInvariant == CascadeSpec => []WorklistInv
<1>1. CascadeInit => WorklistInv
  <2> SUFFICES ASSUME CascadeInit PROVE WorklistInv
    OBVIOUS
  <2>1. Popped = {}
    BY DEF CascadeInit, Popped
  <2>2. entries = StopWaitingFor(waiting0, {})
    BY DEF CascadeInit, StopWaitingFor, WaitingMap
  <2>3. waiting0 \in WaitingMap /\ \A h \in Groups : waiting0[h] \subseteq DependsOn[h]
    <3>1. PICK awaited \in SUBSET {e \in Groups \X Groups : e[2] \in DependsOn[e[1]]} :
            waiting0 = [h \in Groups |-> {d \in Groups : <<h, d>> \in awaited}]
      BY DEF CascadeInit
    <3>2. \A h \in Groups : \A d \in waiting0[h] : d \in DependsOn[h]
      BY <3>1
    <3>3. QED
      BY <3>1, <3>2 DEF WaitingMap
  <2>4. sources0 \subseteq Groups /\ CallsAreSound
    BY <2>3 DEF CascadeInit, CallsAreSound
  <2>5. QED
    BY <2>1, <2>2, <2>3, <2>4 DEF CascadeInit, WorklistInv, CascadeTypeOK
<1>2. WorklistInv /\ [CascadeNext]_cascadeVars => WorklistInv'
  <2> SUFFICES ASSUME WorklistInv, [CascadeNext]_cascadeVars PROVE WorklistInv'
    OBVIOUS
  <2>1. ASSUME NEW s \in Groups, MarkSource(s) PROVE WorklistInv'
    <3> USE <2>1 DEF MarkSource, WorklistInv
    <3>1. s \notin skipped
      BY SourcesAreNotSkipped DEF CascadeTypeOK
    <3>2. Popped' = Popped
      BY <3>1 DEF Popped, CascadeTypeOK
    <3>3. QED
      BY <3>2 DEF CascadeTypeOK, CallsAreSound
  <2>2. ASSUME NEW current \in Groups, Process(current) PROVE WorklistInv'
    <3> DEFINE new == Emptied(entries, current)
    <3>1. /\ current \in toProcess
          /\ entries' = StopWaitingFor(entries, {current})
          /\ skipped' = skipped \cup new
          /\ toProcess' = (toProcess \ {current}) \cup new
          /\ UNCHANGED <<waiting0, sources0, sources>>
      BY <2>2 DEF Process
    <3>2. \A h \in new : /\ h \in Groups \ (skipped \cup sources0)
                         /\ h \in SkippedBehind(waiting0, sources0)
      BY <3>1, EmptiedIsNew
    <3>3. Popped' = Popped \cup {current}
      BY <3>1, <3>2 DEF Popped, WorklistInv
    <3>4. CascadeTypeOK'
      BY <3>1, <3>2 DEF WorklistInv, CascadeTypeOK, WaitingMap, StopWaitingFor
    <3>5. entries' = StopWaitingFor(waiting0, Popped)'
      BY <3>1, <3>3 DEF WorklistInv, StopWaitingFor
    <3>6. skipped' = {h \in Groups : waiting0[h] # {} /\ waiting0[h] \subseteq Popped}'
      <4>1. ASSUME NEW h \in Groups
            PROVE  entries[h] = waiting0[h] \ Popped
        BY DEF WorklistInv, StopWaitingFor
      <4>2. ASSUME NEW h \in Groups, waiting0[h] \subseteq Popped \cup {current},
                   waiting0[h] # {}, h \notin skipped
            PROVE  h \in new
        <5>1. entries[h] # {} /\ entries[h] \subseteq {current}
          BY <4>1, <4>2 DEF WorklistInv
        <5>2. current \in DependsOn[h]
          BY <4>1, <5>1 DEF WorklistInv, CallsAreSound
        <5>3. QED
          BY <5>1, <5>2 DEF Emptied, Dependents
      <4>3. ASSUME NEW h \in new
            PROVE  waiting0[h] \subseteq Popped \cup {current} /\ waiting0[h] # {}
        <5>1. h \in Groups /\ entries[h] # {} /\ entries[h] \subseteq {current}
          BY DEF Emptied, Dependents
        <5>2. QED
          BY <4>1, <5>1
      <4>4. skipped \subseteq Groups
        BY DEF WorklistInv, CascadeTypeOK
      <4>5. QED
        BY <3>1, <3>2, <3>3, <4>2, <4>3, <4>4 DEF WorklistInv
    <3>7. skipped' \subseteq SkippedBehind(waiting0, sources0)'
      BY <3>1, <3>2 DEF WorklistInv
    <3>8. CallsAreSound' /\ toProcess' \subseteq ((sources0 \ sources) \cup skipped)'
      BY <3>1 DEF WorklistInv, CallsAreSound
    <3>9. QED
      BY <3>4, <3>5, <3>6, <3>7, <3>8 DEF WorklistInv
  <2>3. CASE UNCHANGED cascadeVars
    <3>1. UNCHANGED <<waiting0, sources0, sources, entries, toProcess, skipped>>
      BY <2>3 DEF cascadeVars
    <3>2. CascadeTypeOK'
      BY <3>1 DEF WorklistInv, CascadeTypeOK
    <3>3. CallsAreSound'
      BY <3>1 DEF WorklistInv, CallsAreSound
    <3>4. Popped' = Popped
      BY <3>1 DEF Popped
    <3>5. QED
      BY <3>1, <3>2, <3>3, <3>4 DEF WorklistInv, StopWaitingFor
  <2>4. QED
    BY <2>1, <2>2, <2>3 DEF CascadeNext
<1>3. QED
  BY <1>1, <1>2, PTL DEF CascadeSpec

(***************************************************************************)
(* When the calls have returned, the groups reported skipped are the least *)
(* closed set, and the resolver's map is what is left without it.          *)
(***************************************************************************)
THEOREM SkipCascadeCorrect == CascadeSpec => []SkipsTheLeastClosure
<1>1. WorklistInv => SkipsTheLeastClosure
  <2> SUFFICES ASSUME WorklistInv, Finished
               PROVE  /\ skipped = SkippedBehind(waiting0, sources0)
                      /\ entries = WaitingAfterSkip(waiting0, sources0)
    BY DEF SkipsTheLeastClosure
  <2>1. Popped = sources0 \cup skipped
    BY DEF Finished, Popped, WorklistInv, CascadeTypeOK
  <2>2. skipped \in SUBSET Groups /\ ClosedUnderSkip(waiting0, sources0, skipped)
    BY <2>1 DEF WorklistInv, CascadeTypeOK, ClosedUnderSkip
  <2>3. skipped = SkippedBehind(waiting0, sources0)
    <3>1. SkippedBehind(waiting0, sources0) \subseteq skipped
      BY <2>2, SkippedBehindIsLeast DEF WorklistInv, CascadeTypeOK
    <3>2. QED
      BY <3>1 DEF WorklistInv
  <2>4. Popped = SkippedBehind(waiting0, sources0) \cup sources0
    BY <2>1, <2>3
  <2>5. entries = StopWaitingFor(waiting0, Popped)
    BY DEF WorklistInv
  <2>6. QED
    BY <2>3, <2>4, <2>5 DEF WaitingAfterSkip
<1>2. QED
  BY <1>1, WorklistInvariant, PTL

(***************************************************************************)
(* At every moment of the walk, a skipped group has nothing left to wait   *)
(* for.                                                                    *)
(***************************************************************************)
THEOREM SkippedGroupsAwaitNothing == CascadeSpec => []SkippedOnlyWhenNothingAwaited
<1>1. WorklistInv => SkippedOnlyWhenNothingAwaited
  <2> SUFFICES ASSUME WorklistInv, NEW h \in skipped
               PROVE  entries[h] = {} /\ waiting0[h] # {}
    BY DEF SkippedOnlyWhenNothingAwaited
  <2>1. h \in Groups /\ waiting0[h] # {} /\ waiting0[h] \subseteq Popped
    BY DEF WorklistInv
  <2>2. QED
    BY <2>1 DEF WorklistInv, StopWaitingFor
<1>2. QED
  BY <1>1, WorklistInvariant, PTL

-----------------------------------------------------------------------------
-----------------------------------------------------------------------------
(* The invariant. *)
GraphTypeOK ==
  /\ groups \subseteq Names
  /\ deps \in [Names -> SUBSET Names]
  /\ rest \in [Names -> SUBSET Names]
  /\ path \in Seq(Names)
  /\ left \in Seq(Names)
  /\ search \in {"idle", "detect", "refused", "sort", "failed", "loaded"}
  /\ \A n \in Names \ groups : deps[n] = {}

\* Each call was made for a dependency of the one before it, and for none in progress.
PathIsChain ==
  /\ \A i \in 1..Len(path) : i < Len(path) => path[i + 1] \in deps[path[i]]
  /\ \A i, j \in 1..Len(path) : path[i] = path[j] => i = j

LeftInOrder ==
  /\ \A i \in 1..Len(left) : deps[left[i]] \subseteq {left[j] : j \in 1..(i - 1)}
  /\ \A i, j \in 1..Len(left) : left[i] = left[j] => i = j
  /\ \A i \in 1..Len(path), j \in 1..Len(left) : path[i] # left[j]

\* What a call has looked at has returned, or is the next call on the path.
LookedAtIsLeft ==
  Searching => \A i \in 1..Len(path) :
    \A n \in deps[path[i]] \ rest[path[i]] :
      (\E j \in 1..Len(left) : left[j] = n) \/ (i < Len(path) /\ n = path[i + 1])

RestOfPath == \A i \in 1..Len(path) : rest[path[i]] \subseteq deps[path[i]]

Accepted ==
  /\ search \in {"sort", "failed", "loaded"} => WellFounded /\ Known
  /\ search \in {"sort", "loaded"} =>
       /\ \A i \in 1..Len(path) : path[i] \in groups
       /\ \A i \in 1..Len(left) : left[i] \in groups
  /\ search = "loaded" => \A g \in groups : \E i \in 1..Len(left) : left[i] = g
  /\ search # "failed"
  /\ search = "refused" => ~(WellFounded /\ Known)
  /\ search = "idle" => path = <<>> /\ left = <<>>

GraphInv ==
  GraphTypeOK /\ PathIsChain /\ LeftInOrder /\ LookedAtIsLeft /\ RestOfPath /\ Accepted

-----------------------------------------------------------------------------
(* When every group was left in order, the graph is well founded: of a set of groups, the  *)
(* one that was left first depends on no other.                                            *)
LEMMA AllLeftIsWellFounded ==
  ASSUME GraphTypeOK, LeftInOrder, groups \subseteq Visited PROVE WellFounded
<1> SUFFICES ASSUME NEW S \in SUBSET Names, S # {} PROVE \E n \in S : deps[n] \cap S = {}
  BY DEF WellFounded
<1>1. CASE \E n \in S : n \notin groups
  BY <1>1 DEF GraphTypeOK
<1>2. CASE S \subseteq groups
  <2> DEFINE T == {i \in 1..Len(left) : left[i] \in S}
  <2>1. Len(left) \in Nat /\ DOMAIN left = 1..Len(left)
    BY LenProperties DEF GraphTypeOK
  <2>2. T \subseteq Nat /\ T # {}
    BY <1>2, <2>1 DEF Visited
  <2>3. PICK m \in T : \A k \in T : m <= k
    BY <2>2, LeastNatural
  <2>4. ASSUME NEW n \in deps[left[m]] \cap S PROVE FALSE
    <3>a. m \in 1..Len(left) /\ n \in deps[left[m]]
      BY <2>4
    <3>b. deps[left[m]] \subseteq {left[j] : j \in 1..(m - 1)}
      BY <3>a DEF LeftInOrder
    <3>1. PICK j \in 1..(m - 1) : left[j] = n
      BY <3>a, <3>b
    <3>2. j \in T /\ j < m
      BY <2>1, <2>4, <3>1
    <3> QED
      BY <2>1, <2>3, <3>2
  <2> QED
    BY <2>3, <2>4
<1> QED
  BY <1>1, <1>2

(* In a well-founded graph nobody on the path is met again.                                *)
LEMMA NoCycleWhenWellFounded ==
  ASSUME GraphTypeOK, PathIsChain, RestOfPath, WellFounded,
         path # <<>>, NEW n \in rest[Top]
  PROVE  n \notin OnPath
<1> SUFFICES ASSUME n \in OnPath PROVE FALSE
  OBVIOUS
<1>1. Len(path) \in Nat /\ DOMAIN path = 1..Len(path) /\ Len(path) > 0
  BY LenProperties, EmptySeq DEF GraphTypeOK
<1>2. PICK k \in 1..Len(path) : path[k] = n
  BY <1>1 DEF OnPath
<1> DEFINE S == {path[i] : i \in k..Len(path)}
<1>3. S \in SUBSET Names /\ S # {}
  BY <1>1, <1>2, ElementOfSeq DEF GraphTypeOK
<1>4. PICK g \in S : deps[g] \cap S = {}
  BY <1>3 DEF WellFounded
<1>5. PICK i \in k..Len(path) : g = path[i]
  BY <1>4
<1>6. CASE i < Len(path)
  <2>1. i \in 1..Len(path) /\ i + 1 \in k..Len(path)
    BY <1>1, <1>2, <1>5, <1>6
  <2>2. path[i + 1] \in deps[g] /\ path[i + 1] \in S
    BY <1>5, <1>6, <2>1 DEF PathIsChain
  <2> QED
    BY <1>4, <2>2
<1>7. CASE i = Len(path)
  BY <1>1, <1>2, <1>4, <1>5, <1>7 DEF RestOfPath, Top
<1>8. i < Len(path) \/ i = Len(path)
  <2>1. Len(path) \in Nat /\ k \in Nat
    BY <1>1
  <2>2. i \in Nat /\ i <= Len(path)
    BY <2>1
  <2> QED
    BY <2>1, <2>2
<1> QED
  BY <1>6, <1>7, <1>8

-----------------------------------------------------------------------------
(* The path and the order, as functions. *)
LEMMA PathFacts ==
  ASSUME GraphTypeOK
  PROVE  /\ Len(path) \in Nat /\ DOMAIN path = 1..Len(path)
         /\ \A i \in 1..Len(path) : path[i] \in Names
         /\ path # <<>> => Len(path) > 0 /\ Len(path) \in 1..Len(path) /\ Top \in Names
         /\ Len(left) \in Nat /\ DOMAIN left = 1..Len(left)
         /\ \A i \in 1..Len(left) : left[i] \in Names
         /\ \A n : n \in OnPath <=> \E i \in 1..Len(path) : path[i] = n
         /\ \A n : n \in Visited <=> \E i \in 1..Len(left) : left[i] = n
<1>1. /\ Len(path) \in Nat /\ DOMAIN path = 1..Len(path)
      /\ Len(left) \in Nat /\ DOMAIN left = 1..Len(left)
  BY LenProperties DEF GraphTypeOK
<1>2. /\ \A i \in 1..Len(path) : path[i] \in Names
      /\ \A i \in 1..Len(left) : left[i] \in Names
  BY ElementOfSeq DEF GraphTypeOK
<1>3. path # <<>> => Len(path) > 0 /\ Len(path) \in 1..Len(path)
  BY <1>1, EmptySeq DEF GraphTypeOK
<1>4. path # <<>> => Top \in Names
  BY <1>2, <1>3 DEF Top
<1> QED
  BY <1>1, <1>2, <1>3, <1>4 DEF OnPath, Visited

(* What a call adds to the path. *)
LEMMA PushFacts ==
  ASSUME GraphTypeOK, NEW n \in Names, Push(n)
  PROVE  /\ path' \in Seq(Names) /\ Len(path') = Len(path) + 1
         /\ \A i \in 1..Len(path) : path'[i] = path[i]
         /\ path'[Len(path) + 1] = n
BY AppendProperties DEF GraphTypeOK, Push

(* A call for a name that is neither on the path nor left, made for a dependency of the    *)
(* one on top, keeps the facts about the path.                                             *)
LEMMA CallKeepsPath ==
  ASSUME GraphTypeOK, PathIsChain, LeftInOrder, LookedAtIsLeft, RestOfPath, Searching,
         NEW n \in Names, n \notin OnPath, n \notin Visited, Push(n), UNCHANGED <<graph, left>>,
         path # <<>> => n \in deps[Top],
         \/ path = <<>> /\ rest' = [rest EXCEPT ![n] = deps[n]]
         \/ path # <<>> /\ rest' = [rest EXCEPT ![Top] = @ \ {n}, ![n] = deps[n]]
  PROVE  /\ rest' \in [Names -> SUBSET Names]
         /\ PathIsChain' /\ LeftInOrder' /\ LookedAtIsLeft' /\ RestOfPath'
<1> DEFINE L == Len(path)
<1>1. /\ L \in Nat /\ Len(path') = L + 1 /\ path'[L + 1] = n
      /\ \A i \in 1..L : path'[i] = path[i] /\ path[i] \in Names /\ path[i] # n
      /\ path = <<>> => L = 0
      /\ path # <<>> => L > 0 /\ Top = path[L]
      /\ left' = left /\ deps' = deps /\ deps \in [Names -> SUBSET Names]
      /\ \A i \in 1..Len(left) : left[i] # n
  BY PathFacts, PushFacts, EmptySeq DEF graph, Top, GraphTypeOK
<1> HIDE DEF L
<1>2. \A i \in 1..(L + 1) : i \in 1..L \/ i = L + 1
  BY <1>1
<1>3. rest \in [Names -> SUBSET Names] /\ (path # <<>> => Top \in Names)
  BY PathFacts DEF GraphTypeOK
<1>4. rest' \in [Names -> SUBSET Names] /\ rest'[n] = deps[n]
  BY <1>1, <1>3
<1>5. \A i \in 1..L : rest'[path[i]] = IF i = L THEN rest[path[i]] \ {n} ELSE rest[path[i]]
  <2> SUFFICES ASSUME NEW i \in 1..L
               PROVE  rest'[path[i]] = IF i = L THEN rest[path[i]] \ {n} ELSE rest[path[i]]
    OBVIOUS
  <2>1. path # <<>> /\ L > 0 /\ L \in 1..L /\ Top = path[L] /\ path[i] # n /\ path[i] \in Names
    BY <1>1
  <2>2. i # L => path[i] # Top
    BY <2>1 DEF PathIsChain, L
  <2> QED
    BY <1>3, <2>1, <2>2
<1>6. PathIsChain'
  <2>1. ASSUME NEW i \in 1..(L + 1), i < L + 1 PROVE path'[i + 1] \in deps[path'[i]]
    <3>1. CASE i < L
      BY <1>1, <2>1, <3>1 DEF PathIsChain, L
    <3>2. CASE i = L
      BY <1>1, <2>1, <3>2
    <3> QED
      BY <1>1, <2>1, <3>1, <3>2
  <2>2. ASSUME NEW i \in 1..(L + 1), NEW j \in 1..(L + 1), path'[i] = path'[j] PROVE i = j
    BY <1>1, <1>2, <2>2 DEF PathIsChain, L
  <2> QED
    BY <1>1, <2>1, <2>2 DEF PathIsChain
<1>7. LeftInOrder'
  <2>1. \A i \in 1..L, j \in 1..Len(left) : path[i] # left[j]
    BY DEF LeftInOrder, L
  <2>2. \A i \in 1..(L + 1), j \in 1..Len(left) : path'[i] # left[j]
    BY <1>1, <1>2, <2>1
  <2> QED
    BY <1>1, <2>2 DEF LeftInOrder
<1>8. LookedAtIsLeft'
  <2> SUFFICES ASSUME NEW i \in 1..(L + 1), NEW m \in deps[path'[i]] \ rest'[path'[i]]
               PROVE  \/ \E j \in 1..Len(left) : left[j] = m
                      \/ i < L + 1 /\ m = path'[i + 1]
    BY <1>1 DEF LookedAtIsLeft
  <2>1. CASE i = L + 1
    BY <1>1, <1>4, <2>1
  <2>2. CASE i \in 1..L /\ i = L /\ m = n
    BY <1>1, <2>2
  <2>3. CASE i \in 1..L /\ (i # L \/ m # n)
    <3>1. m \in deps[path[i]] \ rest[path[i]]
      BY <1>1, <1>5, <2>3
    <3>2. (\E j \in 1..Len(left) : left[j] = m) \/ (i < L /\ m = path[i + 1])
      BY <2>3, <3>1 DEF LookedAtIsLeft, L
    <3> QED
      BY <1>1, <2>3, <3>2
  <2> QED
    BY <1>2, <2>1, <2>2, <2>3
<1>9. RestOfPath'
  BY <1>1, <1>2, <1>4, <1>5 DEF RestOfPath, L
<1> QED
  BY <1>4, <1>6, <1>7, <1>8, <1>9

-----------------------------------------------------------------------------
(* Entering a node keeps the invariant.                                                *)
LEMMA EnterKeepsIInv ==
  ASSUME GraphInv, Enter PROVE GraphInv'
<1>1. PICK g \in groups \ Visited : Push(g) /\ rest' = [rest EXCEPT ![g] = deps[g]]
  BY DEF Enter
<1>2. g \in Names /\ g \notin OnPath /\ path = <<>> /\ UNCHANGED <<graph, search, left, cycle>>
  BY <1>1, PathFacts, EmptySeq DEF GraphInv, GraphTypeOK, Enter
<1>3. /\ rest' \in [Names -> SUBSET Names]
      /\ PathIsChain' /\ LeftInOrder' /\ LookedAtIsLeft' /\ RestOfPath'
  BY <1>1, <1>2, CallKeepsPath DEF GraphInv, Enter
<1>4. GraphTypeOK'
  BY <1>1, <1>2, <1>3, PushFacts DEF GraphInv, GraphTypeOK, graph
<1>5. \A i \in 1..Len(path') : path'[i] \in groups
  BY <1>1, <1>2, PushFacts, PathFacts, EmptySeq DEF GraphInv
<1>6. Accepted'
  BY <1>2, <1>5 DEF GraphInv, Accepted, WellFounded, Known, graph, Enter, Searching
<1> QED
  BY <1>3, <1>4, <1>6 DEF GraphInv

(* Looking at a dependency: passed over when its call has returned, called when it is new, *)
(* and in the first search the end when it is on the path.                                 *)
LEMMA LookKeepsIInv ==
  ASSUME GraphInv, Look PROVE GraphInv'
<1>1. PICK n \in rest[Top] :
        /\ IF n \in OnPath \/ n \in Visited
           THEN rest' = [rest EXCEPT ![Top] = @ \ {n}] /\ UNCHANGED path
           ELSE Push(n) /\ rest' = [rest EXCEPT ![Top] = @ \ {n}, ![n] = deps[n]]
        /\ IF n \notin OnPath THEN UNCHANGED <<search, cycle>>
           ELSE \/ search = "detect" /\ search' = "refused" /\ cycle' = CycleAt(n)
                \/ search = "sort" /\ search' = "failed" /\ UNCHANGED cycle
        /\ UNCHANGED <<graph, left>>
  BY DEF Look
<1>2. /\ path # <<>> /\ Top \in Names /\ n \in Names /\ n \in deps[Top]
      /\ search \in {"detect", "sort"} /\ Top = path[Len(path)]
  BY <1>1, PathFacts DEF GraphInv, GraphTypeOK, Look, RestOfPath, Top, Searching
<1>3. n \in OnPath => ~WellFounded
  BY <1>1, <1>2, NoCycleWhenWellFounded DEF GraphInv
<1>4. WellFounded' = WellFounded /\ Known' = Known
  BY <1>1 DEF WellFounded, Known, graph
<1>5. n \in OnPath => search' = "refused"
  BY <1>1, <1>3 DEF GraphInv, Accepted
<1>6. CASE n \in OnPath \/ n \in Visited
  <2>1. rest' = [rest EXCEPT ![Top] = @ \ {n}] /\ path' = path /\ left' = left /\ deps' = deps
        /\ groups' = groups
    BY <1>1, <1>6 DEF graph
  <2>2. GraphTypeOK' /\ PathIsChain' /\ LeftInOrder'
    BY <1>1, <1>2, <1>5, <2>1 DEF GraphInv, GraphTypeOK, PathIsChain, LeftInOrder
  <2>3. RestOfPath'
    BY <2>1 DEF GraphInv, GraphTypeOK, RestOfPath
  <2>4. LookedAtIsLeft'
    <3> SUFFICES ASSUME Searching', NEW i \in 1..Len(path), NEW m \in deps[path[i]] \ rest'[path[i]]
                 PROVE  \/ \E j \in 1..Len(left) : left[j] = m
                        \/ i < Len(path) /\ m = path[i + 1]
      BY <2>1 DEF LookedAtIsLeft
    <3>1. n \in Visited
      BY <1>5, <1>6 DEF Searching
    <3>2. m = n \/ m \in deps[path[i]] \ rest[path[i]]
      BY <2>1 DEF GraphInv, GraphTypeOK
    <3>3. CASE m = n
      BY <3>1, <3>3, PathFacts DEF GraphInv
    <3>4. CASE m \in deps[path[i]] \ rest[path[i]]
      BY <1>2, <3>4 DEF GraphInv, LookedAtIsLeft, Searching
    <3> QED
      BY <3>2, <3>3, <3>4
  <2>5. Accepted'
    BY <1>1, <1>2, <1>3, <1>4, <1>5, <2>1 DEF GraphInv, Accepted
  <2> QED
    BY <2>2, <2>3, <2>4, <2>5 DEF GraphInv
<1>7. CASE n \notin OnPath /\ n \notin Visited
  <2>1. /\ rest' \in [Names -> SUBSET Names]
        /\ PathIsChain' /\ LeftInOrder' /\ LookedAtIsLeft' /\ RestOfPath'
    BY <1>1, <1>2, <1>7, CallKeepsPath DEF GraphInv, Searching
  <2>2. GraphTypeOK'
    BY <1>1, <1>2, <1>7, <2>1, PushFacts DEF GraphInv, GraphTypeOK, graph
  <2>3. search = "sort" => n \in groups
    BY <1>2, PathFacts DEF GraphInv, Accepted, Known
  <2>4. search = "sort" => \A i \in 1..Len(path') : path'[i] \in groups
    BY <1>1, <1>2, <1>7, <2>3, PushFacts, PathFacts DEF GraphInv, Accepted
  <2>5. Accepted'
    BY <1>1, <1>2, <1>4, <1>7, <2>4 DEF GraphInv, Accepted, graph
  <2> QED
    BY <2>1, <2>2, <2>5 DEF GraphInv
<1> QED
  BY <1>6, <1>7

(* A call returns: everything it depends on has returned before it.                        *)
LEMMA LeaveKeepsIInv ==
  ASSUME GraphInv, Leave PROVE GraphInv'
<1> DEFINE L == Len(path)
<1> DEFINE K == Len(left)
<1>1. /\ path # <<>> /\ rest[Top] = {} /\ left' = Append(left, Top)
      /\ path' = SubSeq(path, 1, L - 1) /\ UNCHANGED <<graph, search, rest, cycle>>
      /\ Searching
  BY DEF Leave
<1>2. /\ L \in Nat /\ L > 0 /\ K \in Nat /\ Top \in Names /\ Top = path[L]
      /\ \A i \in 1..L : path[i] \in Names
  BY <1>1, PathFacts DEF GraphInv, Top
<1>3. /\ left' \in Seq(Names) /\ Len(left') = K + 1 /\ left'[K + 1] = Top
      /\ \A i \in 1..K : left'[i] = left[i]
  BY <1>1, <1>2, AppendProperties DEF GraphInv, GraphTypeOK
<1>4. path' \in Seq(Names) /\ Len(path') = L - 1 /\ \A i \in 1..(L - 1) : path'[i] = path[i]
  <2>1. \A i \in 1..(L - 1) : path[i] \in Names
    BY <1>2
  <2>2. 1 \in Int /\ L - 1 \in Int
    BY <1>2
  <2>3. /\ SubSeq(path, 1, L - 1) \in Seq(Names)
        /\ Len(SubSeq(path, 1, L - 1)) = IF 1 <= L - 1 THEN (L - 1) - 1 + 1 ELSE 0
        /\ \A i \in 1..((L - 1) - 1 + 1) : SubSeq(path, 1, L - 1)[i] = path[1 + i - 1]
    BY <2>1, <2>2, SubSeqProperties
  <2> HIDE DEF L
  <2>4. (IF 1 <= L - 1 THEN (L - 1) - 1 + 1 ELSE 0) = L - 1 /\ (L - 1) - 1 + 1 = L - 1
    BY <1>2
  <2>5. \A i \in 1..(L - 1) : 1 + i - 1 = i
    BY <1>2
  <2>6. \A i \in 1..(L - 1) : SubSeq(path, 1, L - 1)[i] = path[i]
    BY <2>3, <2>4, <2>5
  <2>7. path' = SubSeq(path, 1, L - 1)
    BY <1>1
  <2> QED
    BY <2>3, <2>4, <2>6, <2>7
<1> HIDE DEF L, K
<1>5. \A i \in 1..(K + 1) : i \in 1..K \/ i = K + 1
  BY <1>2
<1>6. \A i \in 1..(L - 1) : i \in 1..L /\ i < L /\ path[i] # Top /\ i + 1 \in 1..L
  BY <1>2 DEF GraphInv, PathIsChain, L
<1>7. GraphTypeOK'
  BY <1>1, <1>3, <1>4 DEF GraphInv, GraphTypeOK, graph
<1>8. PathIsChain'
  <2>1. deps' = deps
    BY <1>1 DEF graph
  <2>2. ASSUME NEW i \in 1..(L - 1), i < L - 1 PROVE path'[i + 1] \in deps[path'[i]]
    <3>1. i + 1 \in 1..(L - 1) /\ path'[i + 1] = path[i + 1] /\ path'[i] = path[i]
      BY <1>2, <1>4, <2>2
    <3>2. path[i + 1] \in deps[path[i]]
      BY <1>6 DEF GraphInv, PathIsChain, L
    <3> QED
      BY <3>1, <3>2
  <2>3. ASSUME NEW i \in 1..(L - 1), NEW j \in 1..(L - 1), path'[i] = path'[j] PROVE i = j
    <3>1. i \in 1..L /\ j \in 1..L /\ path[i] = path[j]
      BY <1>4, <1>6, <2>3
    <3> QED
      BY <3>1 DEF GraphInv, PathIsChain, L
  <2>4. Len(path') = L - 1
    BY <1>4
  <2> QED
    BY <2>1, <2>2, <2>3, <2>4 DEF PathIsChain
<1>9. deps[Top] \subseteq {left[j] : j \in 1..K}
  <2>1. \A i \in 1..L : \A m \in deps[path[i]] \ rest[path[i]] :
          (\E j \in 1..K : left[j] = m) \/ (i < L /\ m = path[i + 1])
    BY <1>1 DEF GraphInv, LookedAtIsLeft, L, K
  <2>2. L \in 1..L /\ ~(L < L)
    BY <1>2
  <2>3. \A m \in deps[path[L]] \ rest[path[L]] : \E j \in 1..K : left[j] = m
    BY <2>1, <2>2
  <2>4. deps[path[L]] \ rest[path[L]] = deps[Top]
    BY <1>1, <1>2
  <2> QED
    BY <1>2, <2>3, <2>4
<1>10. LeftInOrder'
  <2>1. ASSUME NEW i \in 1..(K + 1)
        PROVE  deps[left'[i]] \subseteq {left'[j] : j \in 1..(i - 1)}
    <3>1. CASE i \in 1..K
      <4>1. deps[left[i]] \subseteq {left[j] : j \in 1..(i - 1)}
        BY <3>1 DEF GraphInv, LeftInOrder, K
      <4>2. \A j \in 1..(i - 1) : left'[j] = left[j]
        BY <1>2, <1>3, <3>1
      <4> QED
        BY <1>3, <3>1, <4>1, <4>2
    <3>2. CASE i = K + 1
      <4>1. (K + 1) - 1 = K
        BY <1>2
      <4> QED
        BY <1>3, <1>9, <3>2, <4>1
    <3> QED
      BY <1>5, <3>1, <3>2
  <2>2. \A j \in 1..K : left[j] # Top
    BY <1>2 DEF GraphInv, LeftInOrder, L, K
  <2>3. ASSUME NEW i \in 1..(K + 1), NEW j \in 1..(K + 1), left'[i] = left'[j] PROVE i = j
    BY <1>3, <1>5, <2>2, <2>3 DEF GraphInv, LeftInOrder, K
  <2>4. ASSUME NEW i \in 1..(L - 1), NEW j \in 1..(K + 1) PROVE path'[i] # left'[j]
    BY <1>3, <1>4, <1>5, <1>6, <2>4 DEF GraphInv, LeftInOrder, L, K
  <2>5. deps' = deps /\ Len(left') = K + 1 /\ Len(path') = L - 1
    BY <1>1, <1>3, <1>4 DEF graph
  <2> QED
    BY <2>1, <2>3, <2>4, <2>5 DEF LeftInOrder
<1>11. LookedAtIsLeft'
  <2> SUFFICES ASSUME NEW i \in 1..(L - 1), NEW m \in deps[path[i]] \ rest[path[i]]
               PROVE  \/ \E j \in 1..(K + 1) : left'[j] = m
                      \/ i < L - 1 /\ m = path[i + 1]
    <3>1. /\ deps' = deps /\ rest' = rest /\ Len(left') = K + 1 /\ Len(path') = L - 1
          /\ \A i \in 1..(L - 1) : path'[i] = path[i]
      BY <1>1, <1>3, <1>4 DEF graph
    <3>2. \A i \in 1..(L - 1) : i < L - 1 => i + 1 \in 1..(L - 1)
      BY <1>2
    <3> QED
      BY <3>1, <3>2 DEF LookedAtIsLeft
  <2>1. (\E j \in 1..K : left[j] = m) \/ m = path[i + 1]
    BY <1>1, <1>6 DEF GraphInv, LookedAtIsLeft, L, K
  <2>2. CASE \E j \in 1..K : left[j] = m
    BY <1>2, <1>3, <2>2
  <2>3. CASE m = path[i + 1] /\ i = L - 1
    BY <1>2, <1>3, <2>3
  <2>4. i < L - 1 \/ i = L - 1
    BY <1>2
  <2> QED
    BY <2>1, <2>2, <2>3, <2>4
<1>12. RestOfPath'
  BY <1>1, <1>4, <1>6 DEF GraphInv, RestOfPath, graph, L
<1>13. Accepted'
  <2>1. search \in {"sort"} => \A i \in 1..(K + 1) : left'[i] \in groups
    BY <1>2, <1>3, <1>5 DEF GraphInv, Accepted, L, K
  <2>2. search \in {"sort"} => \A i \in 1..(L - 1) : path'[i] \in groups
    BY <1>4, <1>6 DEF GraphInv, Accepted, L
  <2> QED
    BY <1>1, <1>3, <1>4, <2>1, <2>2 DEF GraphInv, Accepted, WellFounded, Known, graph, Searching
<1> QED
  BY <1>7, <1>8, <1>10, <1>11, <1>12, <1>13 DEF GraphInv

(* The end of a search: the first shows that the graph is well founded.                    *)
LEMMA DoneKeepsIInv ==
  ASSUME GraphInv, Done PROVE GraphInv'
<1>1. /\ path = <<>> /\ groups \subseteq Visited /\ UNCHANGED <<graph, path, rest, cycle>>
      /\ \/ search = "detect" /\ ~Known /\ search' = "refused" /\ UNCHANGED left
         \/ search = "detect" /\ Known /\ search' = "sort" /\ left' = <<>>
         \/ search = "sort" /\ search' = "loaded" /\ UNCHANGED left
  BY DEF Done
<1>2. Len(path) = 0 /\ Len(path') = 0 /\ (left' = <<>> => Len(left') = 0 /\ left' \in Seq(Names))
  BY <1>1, EmptySeq
<1>3. WellFounded
  BY <1>1, AllLeftIsWellFounded DEF GraphInv
<1>4. WellFounded' = WellFounded /\ Known' = Known
  BY <1>1 DEF WellFounded, Known, graph
<1>5. GraphTypeOK'
  BY <1>1, <1>2 DEF GraphInv, GraphTypeOK, graph
<1>6. PathIsChain' /\ LookedAtIsLeft' /\ RestOfPath'
  BY <1>2 DEF PathIsChain, LookedAtIsLeft, RestOfPath
<1>7. LeftInOrder'
  <2>1. CASE UNCHANGED left
    BY <1>1, <2>1, SMTT(30) DEF GraphInv, LeftInOrder, graph
  <2>2. CASE left' = <<>>
    BY <1>2, <2>2 DEF LeftInOrder
  <2> QED
    BY <1>1, <2>1, <2>2
<1>8. Accepted'
  <2>1. CASE search = "detect" /\ ~Known /\ search' = "refused"
    BY <1>1, <1>4, <2>1 DEF Accepted
  <2>2. CASE search = "detect" /\ Known /\ search' = "sort" /\ left' = <<>>
    BY <1>1, <1>2, <1>3, <1>4, <2>2 DEF Accepted
  <2>3. CASE search = "sort" /\ search' = "loaded" /\ UNCHANGED left
    <3>1. \A g \in groups : \E i \in 1..Len(left) : left[i] = g
      BY <1>1, PathFacts DEF GraphInv
    <3> QED
      BY <1>1, <1>4, <2>3, <3>1 DEF GraphInv, Accepted, graph
  <2> QED
    BY <1>1, <2>1, <2>2, <2>3
<1> QED
  BY <1>5, <1>6, <1>7, <1>8 DEF GraphInv

-----------------------------------------------------------------------------
(* The invariant of the two searches, for any graph that is loaded.                        *)
THEOREM GraphInvariant == ConfigSpec => []GraphInv
<1>1. ConfigInit => GraphInv
  <2> SUFFICES ASSUME ConfigInit PROVE GraphInv
    OBVIOUS
  <2>1. Len(path) = 0 /\ Len(left) = 0 /\ <<>> \in Seq(Names)
    BY EmptySeq DEF ConfigInit
  <2>2. GraphTypeOK
    BY <2>1 DEF ConfigInit, GraphTypeOK
  <2>3. PathIsChain /\ LeftInOrder /\ LookedAtIsLeft /\ RestOfPath
    BY <2>1 DEF PathIsChain, LeftInOrder, LookedAtIsLeft, RestOfPath
  <2>4. Accepted
    BY DEF ConfigInit, Accepted
  <2> QED
    BY <2>2, <2>3, <2>4 DEF GraphInv
<1>2. GraphInv /\ [ConfigNext]_configVars => GraphInv'
  <2> SUFFICES ASSUME GraphInv, [ConfigNext]_configVars PROVE GraphInv'
    OBVIOUS
  <2>1. CASE Load
    <3>1. path = <<>> /\ left = <<>> /\ search' = "detect" /\ UNCHANGED <<path, rest, left, cycle>>
      BY <2>1 DEF Load, GraphInv, Accepted
    <3>2. Len(path) = 0 /\ Len(left) = 0
      BY <3>1, EmptySeq
    <3>3. GraphTypeOK'
      BY <2>1, <3>1 DEF Load, GraphInv, GraphTypeOK
    <3>4. PathIsChain' /\ LeftInOrder' /\ LookedAtIsLeft' /\ RestOfPath'
      BY <3>1, <3>2 DEF PathIsChain, LeftInOrder, LookedAtIsLeft, RestOfPath
    <3>5. Accepted'
      BY <3>1 DEF Accepted
    <3> QED
      BY <3>3, <3>4, <3>5 DEF GraphInv
  <2>2. CASE UNCHANGED configVars
    BY <2>2 DEF GraphInv, GraphTypeOK, PathIsChain, LeftInOrder, LookedAtIsLeft, RestOfPath, Accepted,
                WellFounded, Known, Searching, configVars, graph
  <2> QED
    BY <2>1, <2>2, EnterKeepsIInv, LookKeepsIInv, LeaveKeepsIInv, DoneKeepsIInv DEF ConfigNext
<1> QED
  BY <1>1, <1>2, PTL DEF ConfigSpec

(* The loader accepts the well-founded graphs over defined names and no others, so what    *)
(* DependencyResolver assumes of its graph is what the loader has checked; and the sort of *)
(* the engine does not fail on what was accepted.                                          *)
THEOREM LoaderAcceptsTheWellFounded == ConfigSpec => []AcceptsTheWellFounded
<1>1. GraphInv => AcceptsTheWellFounded
  BY DEF GraphInv, Accepted, AcceptsTheWellFounded
<1> QED
  BY <1>1, GraphInvariant, PTL

(* The engine's order has dependencies first, every group, and none twice.                 *)
THEOREM OrderHasDependenciesFirst == ConfigSpec => []SortsDependenciesFirst
<1>1. GraphInv => SortsDependenciesFirst
  <2> SUFFICES ASSUME GraphInv PROVE SortsDependenciesFirst
    OBVIOUS
  <2>1. DOMAIN left = 1..Len(left) /\ \A n : n \in Visited <=> \E i \in 1..Len(left) : left[i] = n
    BY PathFacts DEF GraphInv
  <2>2. search = "loaded" => Visited = groups
    BY <2>1 DEF GraphInv, Accepted
  <2> QED
    BY <2>1, <2>2 DEF GraphInv, LeftInOrder, SortsDependenciesFirst
<1> QED
  BY <1>1, GraphInvariant, PTL

-----------------------------------------------------------------------------
(* The start of all groups.                                                                *)
(***************************************************************************)
(* startup leaves a state that satisfies the invariant.                    *)
(***************************************************************************)
LEMMA InitEstablishesInvariant == Init => IInv
<1> SUFFICES ASSUME Init PROVE IInv
  OBVIOUS
<1> USE DEF Init
<1>1. \A g \in Groups : UnreadyDependencies(AllPending, g) = DependsOn[g]
  BY DependsOnAssumption DEF UnreadyDependencies, IsReady, AllPending
<1>2. \A g \in Groups :
        /\ waiting[g] = DependsOn[g]
        /\ statuses[g] = IF waiting[g] = {} THEN "Pending" ELSE "Waiting"
        /\ status[g] = IF waiting[g] = {} THEN "Running" ELSE "Waiting"
  BY <1>1
<1>3. TypeOK
  BY <1>1, DependsOnAssumption
     DEF TypeOK, WaitingMap, StatusMap, GroupStatus
<1>4. DependenciesFirst
  BY <1>2 DEF DependenciesFirst
<1>5. NobodyWaitsInVain
  BY <1>2, DependsOnAssumption DEF NobodyWaitsInVain
<1>6. SkippedOnlyBehindFailure /\ CopiesAgreeOnFailure
  BY <1>2 DEF SkippedOnlyBehindFailure, CopiesAgreeOnFailure, IsFailedOrSkipped
<1>7. EntriesTrackDependencies /\ NobodyIsPending
  BY <1>2 DEF EntriesTrackDependencies, NobodyIsPending
<1>8. QED
  BY <1>3, <1>4, <1>5, <1>6, <1>7 DEF IInv

(***************************************************************************)
(* In the wave, a group that completes has no dependent that is Ready, so  *)
(* the Runtime phase restarts nothing.                                     *)
(***************************************************************************)
LEMMA NothingToRestart ==
  ASSUME IInv, NEW g \in Groups, status[g] = "Running",
         NEW h \in Dependents(g)
  PROVE  status[h] \notin {"Running", "Ready", "Failed"}
BY DEF IInv, DependenciesFirst, Dependents

(***************************************************************************)
(* A step changes the status of some groups; all the invariants follow     *)
(* from how: a group settles, starts behind Ready dependencies, or is      *)
(* skipped behind a failure.  This is the refinement of OrderedStart too.  *)
(***************************************************************************)
LEMMA OrderedStepKeepsOrder ==
  ASSUME IInv, Ordered!Next
  PROVE  DependenciesFirst' /\ SkippedOnlyBehindFailure' /\ NobodyIsPending'
<1> USE DEF Ordered!Next, Ordered!Stay, Ordered!Start, Ordered!Settle,
            Ordered!Skip, Ordered!MayStart, Ordered!MustSkip
<1>1. \A g \in Groups : status[g] \in {"Ready", "Failed", "Skipped"}
                          => status'[g] = status[g]
  OBVIOUS
<1>2. DependsOn \in [Groups -> SUBSET Groups]
  BY DependsOnAssumption
<1>3. DependenciesFirst'
  <2>1. SUFFICES ASSUME NEW g \in Groups, status'[g] \in {"Running", "Ready", "Failed"},
                        NEW d \in DependsOn[g]
                 PROVE  status'[d] = "Ready"
    BY DEF DependenciesFirst
  <2>2. d \in Groups
    BY <1>2
  <2>3. CASE status[g] \in {"Running", "Ready", "Failed"}
    BY <1>1, <2>2, <2>3 DEF IInv, DependenciesFirst
  <2>4. CASE Ordered!Start(g)
    BY <2>4
  <2>5. QED
    BY <2>1, <2>3, <2>4
<1>4. SkippedOnlyBehindFailure'
  <2>1. SUFFICES ASSUME NEW g \in Groups, status'[g] = "Skipped"
                 PROVE  \E d \in DependsOn[g] : status'[d] \in {"Failed", "Skipped"}
    BY DEF SkippedOnlyBehindFailure
  <2>2. CASE status[g] = "Skipped"
    BY <1>1, <1>2, <2>2 DEF IInv, SkippedOnlyBehindFailure
  <2>3. CASE Ordered!Skip(g)
    BY <2>3
  <2>4. QED
    BY <2>1, <2>2, <2>3
<1>5. NobodyIsPending'
  BY DEF IInv, NobodyIsPending
<1>6. QED
  BY <1>3, <1>4, <1>5

(***************************************************************************)
(* The resolver's entries follow the statuses: when a set of groups        *)
(* reports, they leave every entry, and exactly the groups whose entry     *)
(* this empties stop waiting.                                              *)
(***************************************************************************)
LEMMA EntriesFollowReports ==
  ASSUME IInv, Ordered!Next, NEW P \in SUBSET Groups,
         waiting' = StopWaitingFor(waiting, P),
         \A p \in P : status'[p] \in {"Ready", "Failed", "Skipped"},
         \A h \in Groups \ P : status[h] \in {"Running", "Waiting"}
                               => status'[h] \in {"Running", "Waiting"},
         \A h \in Groups : status'[h] = "Waiting"
                           <=> status[h] = "Waiting" /\ ~(waiting[h] \subseteq P)
  PROVE  NobodyWaitsInVain' /\ EntriesTrackDependencies'
<1>1. \A h \in Groups : waiting'[h] = waiting[h] \ P
  BY DEF StopWaitingFor
<1>2. \A h \in Groups : waiting[h] \subseteq Groups /\ waiting[h] \subseteq DependsOn[h]
  BY DEF IInv, TypeOK, WaitingMap, EntriesTrackDependencies
<1>3. NobodyWaitsInVain'
  <2>1. SUFFICES ASSUME NEW h \in Groups, status'[h] = "Waiting"
                 PROVE  /\ waiting'[h] # {}
                        /\ \A d \in waiting'[h] : status'[d] \in {"Running", "Waiting"}
    BY DEF NobodyWaitsInVain
  <2>2. waiting'[h] # {}
    BY <1>1, <2>1
  <2>3. ASSUME NEW d \in waiting'[h] PROVE status'[d] \in {"Running", "Waiting"}
    <3>1. d \in Groups \ P /\ d \in waiting[h]
      BY <1>1, <1>2
    <3>2. status[d] \in {"Running", "Waiting"}
      BY <2>1, <3>1 DEF IInv, NobodyWaitsInVain
    <3>3. QED
      BY <3>1, <3>2
  <2>4. QED
    BY <2>2, <2>3
<1>4. EntriesTrackDependencies'
  <2>1. SUFFICES ASSUME NEW h \in Groups
                 PROVE  /\ waiting'[h] \subseteq DependsOn[h]
                        /\ waiting'[h] # {} => status'[h] = "Waiting"
                        /\ status'[h] = "Waiting" =>
                             \A d \in DependsOn[h] \ waiting'[h] :
                               status'[d] \in {"Ready", "Failed", "Skipped"}
    BY DEF EntriesTrackDependencies
  <2>2. waiting'[h] \subseteq DependsOn[h]
    BY <1>1, <1>2
  <2>3. ASSUME waiting'[h] # {} PROVE status'[h] = "Waiting"
    <3>1. waiting[h] # {} /\ ~(waiting[h] \subseteq P)
      BY <1>1, <2>3
    <3>2. status[h] = "Waiting"
      BY <3>1 DEF IInv, EntriesTrackDependencies
    <3>3. QED
      BY <3>1, <3>2
  <2>4. ASSUME status'[h] = "Waiting", NEW d \in DependsOn[h] \ waiting'[h]
        PROVE  status'[d] \in {"Ready", "Failed", "Skipped"}
    <3>1. CASE d \in P
      BY <3>1
    <3>2. CASE d \notin P
      <4>1. d \in Groups
        BY DependsOnAssumption
      <4>2. status[d] \in {"Ready", "Failed", "Skipped"}
        BY <1>1, <2>4, <3>2 DEF IInv, EntriesTrackDependencies
      <4>3. QED
        BY <4>1, <4>2
           DEF Ordered!Next, Ordered!Stay, Ordered!Start, Ordered!Settle, Ordered!Skip
    <3>3. QED
      BY <3>1, <3>2
  <2>5. QED
    BY <2>2, <2>3, <2>4
<1>5. QED
  BY <1>3, <1>4

(***************************************************************************)
(* cascade_failure is an ordered step and keeps the invariant.             *)
(***************************************************************************)
LEMMA FailKeepsInvariant ==
  ASSUME IInv, NEW g \in Groups, Fail(g)
  PROVE  Ordered!Next /\ IInv'
<1> DEFINE gone == SkippedBehind(waiting, {g})
           P    == gone \cup {g}
<1>1. /\ waiting \in WaitingMap /\ statuses \in StatusMap /\ status \in StatusMap
      /\ status[g] = "Running"
  BY DEF IInv, TypeOK, Fail
<1>2. \A h \in Groups : /\ waiting[h] \subseteq DependsOn[h]
                        /\ waiting[h] \subseteq Groups
  BY <1>1 DEF IInv, EntriesTrackDependencies, WaitingMap
<1>3. gone \in SUBSET Groups /\ ClosedUnderSkip(waiting, {g}, gone)
  BY <1>1, SkippedBehindIsClosed
<1>4. \A h \in gone : waiting[h] # {} /\ waiting[h] \subseteq P /\ status[h] = "Waiting"
  <2>1. ASSUME NEW h \in gone PROVE waiting[h] # {} /\ waiting[h] \subseteq P
    BY <1>1, SkippedBehindIsJustified
  <2>2. QED
    BY <1>3, <2>1 DEF IInv, EntriesTrackDependencies
<1>5. g \notin gone
  BY <1>1, <1>4
<1>6. /\ waiting' = StopWaitingFor(waiting, P)
      /\ status' = [h \in Groups |-> CASE h \in gone -> "Skipped"
                                      [] h \in {g} \ gone -> "Failed"
                                      [] OTHER -> status[h]]
      /\ statuses' = [h \in Groups |-> CASE h \in gone -> "Skipped"
                                        [] h \in {g} \ gone -> "Failed"
                                        [] OTHER -> statuses[h]]
  BY DEF Fail, WaitingAfterSkip, StatusAfterSkip
<1>7. \A h \in Groups :
        /\ h \in gone => status'[h] = "Skipped" /\ statuses'[h] = "Skipped"
        /\ h = g => status'[h] = "Failed" /\ statuses'[h] = "Failed"
        /\ h \notin P => status'[h] = status[h] /\ statuses'[h] = statuses[h]
  BY <1>5, <1>6
<1>8. TypeOK'
  <2>1. waiting' \in WaitingMap
    BY <1>2, <1>6 DEF StopWaitingFor, WaitingMap
  <2>2. status' \in StatusMap /\ statuses' \in StatusMap
    BY <1>1, <1>6, <1>7 DEF StatusMap, GroupStatus
  <2>3. QED
    BY <2>1, <2>2 DEF TypeOK
<1>9. Ordered!Next
  <2>1. SUFFICES ASSUME NEW h \in Groups
                 PROVE  Ordered!Stay(h) \/ Ordered!Settle(h) \/ Ordered!Skip(h)
    BY <1>8 DEF TypeOK, StatusMap, GroupStatus,
                Ordered!Next, Ordered!StatusMap, Ordered!GroupStatus
  <2>2. CASE h = g
    BY <1>1, <1>7, <2>2 DEF Ordered!Settle
  <2>3. CASE h \in gone
    <3>1. PICK d \in waiting[h] : d \in P
      BY <1>4, <2>3
    <3>2. d \in DependsOn[h] /\ d \in Groups
      BY <1>2, <3>1
    <3>3. status'[d] \in {"Failed", "Skipped"}
      BY <1>7, <3>1, <3>2
    <3>4. QED
      BY <1>4, <1>7, <2>3, <3>2, <3>3 DEF Ordered!Skip, Ordered!MustSkip
  <2>4. CASE h \notin P
    BY <1>7, <2>4 DEF Ordered!Stay
  <2>5. QED
    BY <2>2, <2>3, <2>4
<1>10. \A h \in Groups : status'[h] = "Waiting"
                         <=> status[h] = "Waiting" /\ ~(waiting[h] \subseteq P)
  <2>1. ASSUME NEW h \in Groups \ P, status[h] = "Waiting", waiting[h] \subseteq P
        PROVE  FALSE
    <3>1. waiting[h] # {}
      BY <2>1 DEF IInv, NobodyWaitsInVain
    <3>2. QED
      BY <1>3, <2>1, <3>1 DEF ClosedUnderSkip
  <2>2. QED
    BY <1>1, <1>4, <1>7, <2>1
<1>11. NobodyWaitsInVain' /\ EntriesTrackDependencies'
  <2> HIDE DEF gone, P
  <2>1. P \in SUBSET Groups
    BY <1>3 DEF P
  <2>2. \A p \in P : status'[p] \in {"Ready", "Failed", "Skipped"}
    BY <1>3, <1>7 DEF P
  <2>3. \A h \in Groups \ P : status'[h] = status[h]
    BY <1>7
  <2>4. QED
    BY <1>6, <1>9, <1>10, <2>1, <2>2, <2>3, EntriesFollowReports
<1>12. CopiesAgreeOnFailure'
  BY <1>7 DEF IInv, CopiesAgreeOnFailure, IsFailedOrSkipped
<1>13. QED
  BY <1>8, <1>9, <1>11, <1>12, OrderedStepKeepsOrder DEF IInv

(***************************************************************************)
(* trigger_dependents is an ordered step and keeps the invariant.          *)
(***************************************************************************)
LEMMA TriggerKeepsInvariant ==
  ASSUME IInv, NEW g \in Groups, status[g] = "Running", TriggerDependents(g)
  PROVE  Ordered!Next /\ IInv'
<1> DEFINE started == ReadyToStart(waiting, statuses, g)
           refused == NeedsSkip(waiting, statuses, g)
           others == StopWaitingFor(waiting, {g})
           gone    == SkippedBehind(others, refused) \cup refused
           P       == gone \cup {g}
<1>1. waiting \in WaitingMap /\ statuses \in StatusMap /\ status \in StatusMap
  BY DEF IInv, TypeOK
<1>2. \A h \in Groups : /\ waiting[h] \subseteq DependsOn[h]
                        /\ waiting[h] \subseteq Groups
                        /\ DependsOn[h] \subseteq Groups
                        /\ others[h] = waiting[h] \ {g}
                        /\ waiting[h] # {} <=> status[h] = "Waiting"
  BY <1>1, DependsOnAssumption
     DEF IInv, EntriesTrackDependencies, NobodyWaitsInVain, WaitingMap, StopWaitingFor
<1>3. others \in WaitingMap
  BY <1>2 DEF WaitingMap, StopWaitingFor
<1>4. /\ started \cap refused = {} /\ refused \in SUBSET Groups
      /\ \A h \in Groups : h \in started \cup refused
                          <=> waiting[h] # {} /\ waiting[h] \subseteq {g}
  <2>1. \A h \in Groups : waiting[h] # {} /\ waiting[h] \subseteq {g}
                          => h \in Dependents(g)
    BY <1>2 DEF Dependents
  <2>2. QED
    BY <2>1 DEF ReadyToStart, NeedsSkip, Released, Dependents
<1>5. gone \in SUBSET Groups /\ ClosedUnderSkip(others, refused, SkippedBehind(others, refused))
  BY <1>3, <1>4, SkippedBehindIsClosed
<1>6. \A h \in SkippedBehind(others, refused) : others[h] # {} /\ others[h] \subseteq gone
  BY <1>3, <1>4, SkippedBehindIsJustified
<1>7. \A h \in gone : status[h] = "Waiting" /\ waiting[h] \subseteq P
  <2> HIDE DEF refused, others
  <2>1. ASSUME NEW h \in refused PROVE status[h] = "Waiting" /\ waiting[h] \subseteq P
    BY <1>2, <1>4, <2>1
  <2>2. ASSUME NEW h \in SkippedBehind(others, refused)
        PROVE  status[h] = "Waiting" /\ waiting[h] \subseteq P
    <3>1. h \in Groups /\ others[h] # {} /\ others[h] \subseteq gone
      BY <1>5, <1>6, <2>2
    <3>2. QED
      BY <1>2, <3>1
  <2>3. QED
    BY <2>1, <2>2
<1>8. \A h \in started : status[h] = "Waiting" /\ h \in Groups /\ h \notin gone
  <2>1. started \subseteq Groups
    BY DEF ReadyToStart, Released, Dependents
  <2> HIDE DEF started, refused, others
  <2>2. ASSUME NEW h \in started PROVE status[h] = "Waiting" /\ others[h] = {}
    BY <1>2, <1>4, <2>1, <2>2
  <2>3. QED
    BY <1>4, <1>6, <2>1, <2>2
<1>9. \A h \in Groups :
        /\ h \in gone => status'[h] = "Skipped" /\ statuses'[h] = "Skipped"
        /\ h = g => status'[h] = "Ready" /\ statuses'[h] = "Ready"
        /\ h \in started => status'[h] = "Running" /\ statuses'[h] = statuses[h]
        /\ h \notin P \cup started => status'[h] = status[h] /\ statuses'[h] = statuses[h]
  <2>1. g \notin gone \cup started
    BY <1>7, <1>8
  <2>2. \A h \in Groups : status'[h] = CASE h \in gone    -> "Skipped"
                                         [] h \in started -> "Running"
                                         [] h = g         -> "Ready"
                                         [] OTHER         -> status[h]
    BY DEF TriggerDependents
  <2>3. \A h \in Groups : statuses'[h] =
           CASE h \in SkippedBehind(others, refused)             -> "Skipped"
             [] h \in refused \ SkippedBehind(others, refused)   -> "Skipped"
             [] OTHER -> MarkReady(statuses, g)[h]
    BY DEF TriggerDependents, StatusAfterSkip
  <2>4. \A h \in Groups : MarkReady(statuses, g)[h] = IF h = g THEN "Ready" ELSE statuses[h]
    BY <1>1 DEF MarkReady, StatusMap
  <2> HIDE DEF started, refused, others
  <2>5. QED
    BY <1>8, <2>1, <2>2, <2>3, <2>4
<1>10. waiting' = StopWaitingFor(waiting, P)
  <2>1. waiting' = StopWaitingFor(others, gone)
    BY DEF TriggerDependents, WaitingAfterSkip
  <2>2. \A h \in Groups : others[h] \ gone = waiting[h] \ P
    BY <1>2
  <2>3. QED
    BY <2>1, <2>2 DEF StopWaitingFor
<1> HIDE DEF started, refused, others, gone, P
<1>11. TypeOK'
  <2>1. waiting' \in WaitingMap
    BY <1>2, <1>10 DEF StopWaitingFor, WaitingMap
  <2>2. DOMAIN status' = Groups /\ status' = [h \in Groups |-> status'[h]]
    BY DEF TriggerDependents
  <2>3. statuses' = [h \in Groups |-> statuses'[h]]
    BY DEF TriggerDependents, StatusAfterSkip
  <2>4. \A h \in Groups : status'[h] \in GroupStatus /\ statuses'[h] \in GroupStatus
    BY <1>1, <1>9 DEF StatusMap, GroupStatus, P
  <2>5. QED
    BY <2>1, <2>2, <2>3, <2>4 DEF TypeOK, StatusMap
<1>12. ASSUME NEW h \in started PROVE Ordered!Start(h)
  <2>1. ASSUME NEW d \in DependsOn[h], d # g PROVE status[d] = "Ready"
    <3>1. d \in Groups /\ d \notin waiting[h]
      BY <1>2, <1>4, <1>8, <2>1
    <3>2. status[d] \in {"Ready", "Failed", "Skipped"}
      BY <1>8, <2>1, <3>1 DEF IInv, EntriesTrackDependencies
    <3>3. ~IsFailedOrSkipped(MarkReady(statuses, g), d)
      BY <1>8, <2>1 DEF started, ReadyToStart, NeedsSkip, AnyDependencyFailed
    <3>4. ~IsFailedOrSkipped(statuses, d)
      BY <1>1, <2>1, <3>1, <3>3 DEF IsFailedOrSkipped, MarkReady, StatusMap
    <3>5. QED
      BY <3>1, <3>2, <3>4 DEF IInv, CopiesAgreeOnFailure, IsFailedOrSkipped
  <2>2. \A d \in DependsOn[h] : status'[d] = "Ready"
    BY <1>2, <1>7, <1>8, <1>9, <2>1 DEF P
  <2>3. QED
    BY <1>8, <1>9, <2>2 DEF Ordered!Start, Ordered!MayStart
<1>13. ASSUME NEW h \in gone PROVE Ordered!Skip(h)
  <2>1. \E d \in DependsOn[h] : status'[d] \in {"Failed", "Skipped"}
    <3>1. CASE h \in refused
      <4>1. PICK d \in DependsOn[h] : IsFailedOrSkipped(MarkReady(statuses, g), d)
        BY <3>1 DEF refused, NeedsSkip, AnyDependencyFailed
      <4>2. d \in Groups
        BY <1>2, <1>5
      <4>3. d # g /\ IsFailedOrSkipped(statuses, d)
        BY <1>1, <4>1, <4>2 DEF IsFailedOrSkipped, MarkReady, StatusMap
      <4>4. status[d] \in {"Failed", "Skipped"}
        BY <4>2, <4>3 DEF IInv, CopiesAgreeOnFailure, IsFailedOrSkipped
      <4>5. d \notin P \cup started
        BY <1>7, <1>8, <4>3, <4>4 DEF P
      <4>6. QED
        BY <1>9, <4>2, <4>4, <4>5
    <3>2. CASE h \in SkippedBehind(others, refused)
      <4>1. PICK d \in others[h] : d \in gone
        BY <1>6, <3>2
      <4>2. d \in DependsOn[h] /\ d \in Groups
        BY <1>2, <1>5, <4>1
      <4>3. QED
        BY <1>9, <4>1, <4>2
    <3>3. QED
      BY <3>1, <3>2 DEF gone
  <2>2. QED
    BY <1>5, <1>7, <1>9, <2>1 DEF Ordered!Skip, Ordered!MustSkip
<1>14. Ordered!Next
  <2>1. SUFFICES ASSUME NEW h \in Groups
                 PROVE  \/ Ordered!Stay(h) \/ Ordered!Start(h)
                        \/ Ordered!Settle(h) \/ Ordered!Skip(h)
    BY <1>11 DEF TypeOK, StatusMap, GroupStatus,
                 Ordered!Next, Ordered!StatusMap, Ordered!GroupStatus
  <2>2. CASE h = g
    BY <1>9, <2>2 DEF Ordered!Settle
  <2>3. CASE h \notin P \cup started
    BY <1>9, <2>3 DEF Ordered!Stay
  <2>4. QED
    BY <1>12, <1>13, <2>2, <2>3 DEF P
<1>15. \A h \in Groups : status'[h] = "Waiting"
                         <=> status[h] = "Waiting" /\ ~(waiting[h] \subseteq P)
  <2>1. ASSUME NEW h \in Groups \ (P \cup started),
               status[h] = "Waiting", waiting[h] \subseteq P
        PROVE  FALSE
    <3>1. waiting[h] # {} /\ ~(waiting[h] \subseteq {g})
      BY <1>2, <1>4, <2>1 DEF P, gone
    <3>2. others[h] # {} /\ others[h] \subseteq gone
      BY <1>2, <2>1, <3>1 DEF P
    <3>3. QED
      BY <1>5, <2>1, <3>2 DEF ClosedUnderSkip, gone, P
  <2>2. \A h \in started : waiting[h] \subseteq P
    BY <1>4, <1>8 DEF P
  <2>3. QED
    BY <1>7, <1>8, <1>9, <2>1, <2>2 DEF P
<1>16. NobodyWaitsInVain' /\ EntriesTrackDependencies'
  <2>1. P \in SUBSET Groups
    BY <1>5 DEF P
  <2>2. \A p \in P : status'[p] \in {"Ready", "Failed", "Skipped"}
    BY <1>9, <2>1 DEF P
  <2>3. \A h \in Groups \ P : status[h] \in {"Running", "Waiting"}
                              => status'[h] \in {"Running", "Waiting"}
    BY <1>9
  <2>4. QED
    BY <1>10, <1>14, <1>15, <2>1, <2>2, <2>3, EntriesFollowReports
<1>17. CopiesAgreeOnFailure'
  BY <1>8, <1>9 DEF P, IInv, CopiesAgreeOnFailure, IsFailedOrSkipped
<1>18. QED
  BY <1>11, <1>14, <1>16, <1>17, OrderedStepKeepsOrder DEF IInv

(***************************************************************************)
(* The Runtime phase, for a group nobody waits for, settles that group and *)
(* restarts nothing.                                                       *)
(***************************************************************************)
LEMMA RestartKeepsInvariant ==
  ASSUME IInv, NEW g \in Groups, status[g] = "Running",
         ~HasWaitingDependents(waiting, g), CascadeRestart(g)
  PROVE  Ordered!Next /\ IInv'
<1>1. waiting \in WaitingMap /\ statuses \in StatusMap /\ status \in StatusMap
  BY DEF IInv, TypeOK
<1>2. waiting' = waiting /\ statuses' = statuses
  BY DEF CascadeRestart
<1>3. status' = [status EXCEPT ![g] = "Ready"]
  <2>1. \A h \in Dependents(g) : status[h] # "Ready"
    BY NothingToRestart
  <2>2. \A h \in Groups : status'[h] = IF h = g THEN "Ready" ELSE status[h]
    BY <2>1 DEF CascadeRestart
  <2>3. status' = [h \in Groups |-> status'[h]]
    BY DEF CascadeRestart
  <2>4. QED
    BY <1>1, <2>2, <2>3 DEF StatusMap
<1>4. TypeOK'
  BY <1>1, <1>2, <1>3 DEF TypeOK, StatusMap, GroupStatus
<1>5. Ordered!Next
  BY <1>1, <1>3, <1>4
     DEF TypeOK, StatusMap, GroupStatus, Ordered!Next, Ordered!StatusMap,
         Ordered!GroupStatus, Ordered!Stay, Ordered!Settle
<1>6. \A h \in Groups : g \notin waiting[h]
  BY DEF HasWaitingDependents, Dependents, IInv, EntriesTrackDependencies
<1>7. NobodyWaitsInVain' /\ EntriesTrackDependencies'
  <2>1. waiting' = StopWaitingFor(waiting, {g})
    <3>1. \A h \in Groups : waiting[h] = waiting[h] \ {g}
      BY <1>6
    <3>2. QED
      BY <1>1, <1>2, <3>1 DEF StopWaitingFor, WaitingMap
  <2>2. \A h \in Groups : status'[h] = "Waiting"
                          <=> status[h] = "Waiting" /\ ~(waiting[h] \subseteq {g})
    BY <1>1, <1>3, <1>6 DEF StatusMap, IInv, NobodyWaitsInVain
  <2>3. /\ \A p \in {g} : status'[p] \in {"Ready", "Failed", "Skipped"}
        /\ \A h \in Groups \ {g} : status'[h] = status[h]
    BY <1>1, <1>3 DEF StatusMap
  <2>4. QED
    BY <1>5, <2>1, <2>2, <2>3, EntriesFollowReports
<1>8. CopiesAgreeOnFailure'
  BY <1>1, <1>2, <1>3 DEF IInv, CopiesAgreeOnFailure, IsFailedOrSkipped, StatusMap
<1>9. QED
  BY <1>4, <1>5, <1>7, <1>8, OrderedStepKeepsOrder DEF IInv

(***************************************************************************)
(* Every step of the engine's wave is an ordered step and keeps IInv.      *)
(***************************************************************************)
LEMMA NextKeepsInvariant ==
  ASSUME IInv, Next
  PROVE  Ordered!Next /\ IInv'
<1>1. ASSUME NEW g \in Groups, Complete(g) PROVE Ordered!Next /\ IInv'
  BY <1>1, TriggerKeepsInvariant, RestartKeepsInvariant DEF Complete
<1>2. ASSUME NEW g \in Groups, Fail(g) PROVE Ordered!Next /\ IInv'
  BY <1>2, FailKeepsInvariant
<1>3. QED
  BY <1>1, <1>2 DEF Next

(***************************************************************************)
(* IInv is an invariant of the wave.                                       *)
(***************************************************************************)
THEOREM WaveInvariant == Spec => []IInv
<1>1. IInv /\ UNCHANGED vars => IInv'
  BY DEF vars, IInv, TypeOK, DependenciesFirst, NobodyWaitsInVain,
         SkippedOnlyBehindFailure, CopiesAgreeOnFailure, IsFailedOrSkipped,
         EntriesTrackDependencies, NobodyIsPending
<1>2. IInv /\ [Next]_vars => IInv'
  BY <1>1, NextKeepsInvariant
<1>3. QED
  BY <1>2, InitEstablishesInvariant, PTL DEF Spec

(***************************************************************************)
(* Nothing runs, or has run, whose dependencies are not all Ready.         *)
(***************************************************************************)
THEOREM WaveStartsDependenciesFirst == Spec => []DependenciesFirst
<1>1. IInv => DependenciesFirst
  BY DEF IInv
<1>2. QED
  BY <1>1, WaveInvariant, PTL

(***************************************************************************)
(* A waiting group always waits for groups that are still going to report. *)
(***************************************************************************)
THEOREM WaveLosesNoWakeup == Spec => []NobodyWaitsInVain
<1>1. IInv => NobodyWaitsInVain
  BY DEF IInv
<1>2. QED
  BY <1>1, WaveInvariant, PTL

(***************************************************************************)
(* A group is skipped only behind a failure, and the resolver's copy of    *)
(* the statuses agrees with the engine's on what has failed.               *)
(***************************************************************************)
THEOREM WaveSkipsOnlyBehindFailure ==
  Spec => [](SkippedOnlyBehindFailure /\ CopiesAgreeOnFailure)
<1>1. IInv => SkippedOnlyBehindFailure /\ CopiesAgreeOnFailure
  BY DEF IInv
<1>2. QED
  BY <1>1, WaveInvariant, PTL

(***************************************************************************)
(* The wave implements the ordered start: trigger_dependents,              *)
(* cascade_failure and the restart cascade do to the statuses only what    *)
(* OrderedStart allows.                                                    *)
(***************************************************************************)
THEOREM WaveIsAnOrderedStart == Spec => OrderedStartSpec
<1>1. Init => Ordered!Init
  <2>1. \A g \in Groups : UnreadyDependencies(AllPending, g) = DependsOn[g]
    BY DependsOnAssumption DEF UnreadyDependencies, IsReady, AllPending
  <2>2. QED
    BY <2>1 DEF Init, Ordered!Init
<1>2. IInv /\ [Next]_vars => [Ordered!Next]_status
  BY NextKeepsInvariant DEF vars
<1>3. QED
  BY <1>1, <1>2, WaveInvariant, PTL DEF Spec, OrderedStartSpec, Ordered!Spec
=============================================================================
