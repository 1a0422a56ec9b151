---------------------------- MODULE ShutdownProofs ----------------------------
(***************************************************************************)
(* For every set of services, whatever they configure, and every timeout:  *)
(* the shutdown forces nobody early or twice, and a shutdown that returns  *)
(* leaves nothing running that it has not forced.  And for every set of    *)
(* configurations and every debounce: what the watcher the shutdown ends   *)
(* has handed over until then was due.  Module MCShutdown composes the two *)
(* the same way.                                                           *)
(***************************************************************************)
EXTENDS Shutdown, FileWatch, TLAPS

USE ShutdownAssumption

-----------------------------------------------------------------------------
(* A stop has asked the service; if it runs, its whole window lies before it. *)
LEMMA StopServiceKeepsIInv ==
  ASSUME IInv, NEW s \in Services, StopService(s) PROVE IInv'
<1>1. TypeOK'
  BY DEF IInv, TypeOK, StopService, StopCommand, Signal, ArmDeadline, Unset
<1>2. phase = "stop" /\ s \in todo /\ s \notin asked /\ asked' = asked \cup {s}
      /\ todo' = todo \ {s} /\ phase' \in {"stop", "failed"}
  BY DEF IInv, TypeOK, StopService, StopCommand, Signal
<1>3. phase' = "stop" => asked' = Services \ todo'
  BY <1>2 DEF IInv, TypeOK
<1>4. ASSUME NEW t \in Services
      PROVE /\ t \notin asked' => forced'[t] = 0
            /\ t \in asked' /\ child'[t] = "up" /\ phase' # "failed"
                 => left'[t] + since'[t] = StopTimeout \/ forced'[t] = 1
            /\ forced'[t] \in {0, 1}
            /\ forced'[t] = 1 => since'[t] = StopTimeout /\ left'[t] = Unset
  BY <1>2, <1>4 DEF IInv, TypeOK, StopService, StopCommand, Signal, ArmDeadline, HasId, Unset
<1>5. ASSUME NEW t \in Services, t \in asked', child'[t] = "up", phase' = "failed"
      PROVE left'[t] + since'[t] = StopTimeout \/ forced'[t] = 1
  BY <1>2, <1>5 DEF IInv, TypeOK, StopService, StopCommand, Signal, ArmDeadline, HasId, Unset
<1> QED BY <1>1, <1>2, <1>3, <1>4, <1>5 DEF IInv

(* What is looked at runs no more, or was forced, or has its window open: then the pass is *)
(* followed by another.                                                                    *)
LEMMA LookKeepsIInv ==
  ASSUME IInv, NEW s \in Services, Look(s) PROVE IInv'
<1>0. waiting' \in BOOLEAN
  BY Zenon DEF Look
<1>a. /\ child' = [child EXCEPT ![s] = IF @ = "exited" THEN "reaped" ELSE @]
      /\ todo' = todo \ {s} /\ UNCHANGED <<phase, left, hook, asked, since, forced>>
  BY DEF Look, Reap, history
<1>b. child' \in [Services -> {"none", "up", "exited", "reaped"}] /\ todo' \subseteq Services
  BY <1>a DEF IInv, TypeOK
<1>1. TypeOK'
  BY <1>0, <1>a, <1>b, Zenon DEF IInv, TypeOK
<1>2. child'[s] = "up" => child[s] = "up" /\ left[s] # 0
  BY DEF IInv, TypeOK, Look, Reap, Due
<1>3. s \in asked
  BY DEF IInv, Look
<1>4. child'[s] = "up" /\ forced[s] # 1 => waiting'
  <2>1. SUFFICES ASSUME child'[s] = "up", forced[s] # 1 PROVE waiting'
    OBVIOUS
  <2>2. left[s] + since[s] = StopTimeout /\ left[s] \in {-1} \cup 0..StopTimeout
        /\ since[s] \in 0..StopTimeout
    BY <1>2, <1>3, <2>1 DEF IInv, TypeOK, Unset
  <2>3. left[s] > 0
    BY <1>2, <2>1, <2>2
  <2> QED
    BY <1>2, <2>1, <2>3 DEF Look, Owes
<1>5. ASSUME NEW t \in Services, t # s
      PROVE child'[t] = "up" => child[t] = "up"
  BY <1>5 DEF IInv, TypeOK, Look, Reap
<1>6. ASSUME NEW t \in Services, t \notin todo', ~waiting', child'[t] = "up"
      PROVE forced'[t] = 1
  <2>1. CASE t = s
    BY <1>4, <1>6, <2>1 DEF Look, history
  <2>2. CASE t # s
    BY <1>5, <1>6, <2>2 DEF IInv, TypeOK, Look, history
  <2> QED
    BY <2>1, <2>2
<1>7. \A t \in Services : child'[t] = "up" => child[t] = "up"
  BY <1>2, <1>5
<1> QED
  BY <1>1, <1>6, <1>7 DEF IInv, Look, history

(* A deadline that is due has the whole window behind it; it is cleared before the         *)
(* service is looked at again.                                                             *)
LEMMA EscalateKeepsIInv ==
  ASSUME IInv, NEW s \in Services, Escalate(s) PROVE IInv'
<1>1. /\ phase = "wait" /\ phase' = phase /\ s \in todo /\ todo' = todo \ {s}
      /\ left[s] = 0 /\ left' = [left EXCEPT ![s] = Unset] /\ asked' = asked
      /\ since' = since /\ waiting' = waiting
      /\ child' = [child EXCEPT ![s] = IF @ = "exited" THEN "reaped" ELSE @]
  BY DEF Escalate, Due, Reap
<1>2. IF child[s] = "up" THEN forced' = [forced EXCEPT ![s] = @ + 1] ELSE forced' = forced
  BY DEF Escalate
<1>3. hook' \in [Services -> {"none", "stop", "kill"}]
  BY DEF IInv, TypeOK, Escalate
<1>4. TypeOK'
  <2>1. forced' \in [Services -> Nat]
    BY <1>2 DEF IInv, TypeOK
  <2>2. /\ child' \in [Services -> {"none", "up", "exited", "reaped"}]
        /\ left' \in [Services -> {Unset} \cup 0..StopTimeout] /\ todo' \subseteq Services
    BY <1>1 DEF IInv, TypeOK
  <2> QED
    BY <1>1, <1>3, <2>1, <2>2 DEF IInv, TypeOK
<1>5. forced[s] = 0
  BY <1>1 DEF IInv, TypeOK, Unset
<1>6. s \in asked
  BY <1>1 DEF IInv
<1>7. child[s] = "up" => since[s] = StopTimeout
  <2>1. SUFFICES ASSUME child[s] = "up" PROVE since[s] = StopTimeout
    OBVIOUS
  <2>2. left[s] + since[s] = StopTimeout /\ since[s] \in 0..StopTimeout
    BY <1>5, <1>6, <2>1 DEF IInv, TypeOK
  <2> QED
    BY <1>1, <2>2
<1>8. /\ s \in asked' /\ forced'[s] \in {0, 1}
      /\ child'[s] = "up" => forced'[s] = 1
      /\ forced'[s] = 1 => since'[s] = StopTimeout /\ left'[s] = Unset
  BY <1>1, <1>2, <1>5, <1>6, <1>7 DEF IInv, TypeOK
<1>9. ASSUME NEW t \in Services, t # s
      PROVE child'[t] = child[t] /\ left'[t] = left[t] /\ forced'[t] = forced[t]
  BY <1>1, <1>2, <1>9 DEF IInv, TypeOK
<1> QED
  BY <1>1, <1>4, <1>8, <1>9 DEF IInv

(* Time passes: what a window loses its account gains.                                     *)
LEMMA TickKeepsIInv ==
  ASSUME IInv, Tick PROVE IInv'
<1>1. TypeOK'
  BY DEF IInv, TypeOK, Tick, Unset
<1>2. ASSUME NEW t \in Services
      PROVE /\ t \in asked' /\ child'[t] = "up" => left'[t] + since'[t] = StopTimeout
                                                     \/ forced'[t] = 1
            /\ forced'[t] = 1 => since'[t] = StopTimeout /\ left'[t] = Unset
  <2>1. left[t] \in {-1} \cup 0..StopTimeout /\ since[t] \in 0..StopTimeout
    BY DEF IInv, TypeOK, Unset
  <2>2. /\ left'[t] = IF left[t] > 0 THEN left[t] - 1 ELSE left[t]
        /\ since'[t] = IF t \in asked /\ since[t] < StopTimeout THEN since[t] + 1 ELSE since[t]
        /\ UNCHANGED <<asked, child, forced>>
    BY DEF Tick
  <2> QED
    BY <2>1, <2>2 DEF IInv, Unset
<1> QED
  BY <1>1, <1>2 DEF IInv, Tick

-----------------------------------------------------------------------------
(* The inductive invariant of the shutdown.                                                *)
THEOREM ShutdownInvariant == Spec => []IInv
<1>1. Init => IInv
  <2> SUFFICES ASSUME Init PROVE IInv
    OBVIOUS
  <2>1. waiting \in BOOLEAN
    BY Zenon DEF Init, MayFind
  <2>2. since \in [Services -> 0..StopTimeout] /\ forced \in [Services -> Nat]
    BY DEF Init, MayFind
  <2>3. TypeOK
    BY <2>1, <2>2, Zenon DEF Init, TypeOK
  <2> QED
    BY <2>3 DEF Init, IInv
<1>2. IInv /\ [Next]_vars => IInv'
  <2> SUFFICES ASSUME IInv, [Next]_vars PROVE IInv'
    OBVIOUS
  <2>1. ASSUME NEW s \in Services, StopService(s) PROVE IInv'
    BY <2>1, StopServiceKeepsIInv
  <2>2. ASSUME NEW s \in Services, Look(s) PROVE IInv'
    BY <2>2, LookKeepsIInv
  <2>3. ASSUME NEW s \in Services, Escalate(s) PROVE IInv'
    BY <2>3, EscalateKeepsIInv
  <2>4. CASE AllStopped
    BY <2>4 DEF IInv, TypeOK, AllStopped, history
  <2>5. CASE EndPass
    BY <2>5 DEF IInv, TypeOK, EndPass, history
  <2>6. CASE Tick
    BY <2>6, TickKeepsIInv
  <2>7. ASSUME NEW s \in Services, Exits(s) PROVE IInv'
    BY <2>7 DEF IInv, TypeOK, Exits, history
  <2>8. ASSUME NEW s \in Services, HookEnds(s) PROVE IInv'
    BY <2>8 DEF IInv, TypeOK, HookEnds, history
  <2>9. CASE UNCHANGED vars
    BY <2>9 DEF IInv, TypeOK, vars, history
  <2> QED
    BY <2>1, <2>2, <2>3, <2>4, <2>5, <2>6, <2>7, <2>8, <2>9 DEF Next, Proceed
<1> QED
  BY <1>1, <1>2, PTL DEF Spec

(* Nobody is forced twice, or before the window of the shutdown is over.                   *)
THEOREM ForcedOnceAndNotEarly == Spec => []ForcedOnceAfterItsWindow
<1>1. IInv => ForcedOnceAfterItsWindow
  BY DEF IInv, ForcedOnceAfterItsWindow
<1> QED
  BY <1>1, ShutdownInvariant, PTL

(* Returning leaves only what was forced: a pass that found nothing to wait for ended it,  *)
(* and nothing starts after that.                                                          *)
THEOREM ShutdownLeavesNoneUnforced == Spec => []NoneLeftUnforced
<1> DEFINE Quiet == phase = "returned" => todo = {} /\ ~waiting
<1>1. Init => Quiet
  BY DEF Init
<1>2. Quiet /\ [Next]_vars => Quiet'
  BY DEF Next, Proceed, StopService, StopCommand, Signal, Look, Escalate, AllStopped, EndPass, Tick, Exits,
         HookEnds, vars, history
<1>3. IInv /\ Quiet => NoneLeftUnforced
  BY DEF IInv, NoneLeftUnforced
<1> QED
  BY <1>1, <1>2, <1>3, ShutdownInvariant, PTL DEF Spec

-----------------------------------------------------------------------------
(* The watcher.  A batch is as old as one of its paths, or younger.                        *)
Age == 0..MaxWindow \cup {None}

WatchTypes ==
  /\ config \in Configs /\ window \in 0..MaxWindow
  /\ queue \subseteq Paths /\ batch \subseteq Paths
  /\ age \in Age /\ waited \in [Paths -> Age]

OldestWaits ==
  /\ \A p \in queue : waited[p] # None
  /\ batch # {} <=> age # None
  /\ age # None => \E p \in batch : waited[p] # None /\ waited[p] >= age

WatchIInv == WatchTypes /\ OldestWaits

(* What the combined patterns let through is wanted: it does not count as forgotten.       *)
LEMMA CombinedIsWanted ==
  ASSUME NEW p, p \in Combined PROVE Wanted(p)
<1>1. PICK g \in Groups : p \in config.include[g]
  BY DEF Combined
<1>2. ASSUME NEW h \in Groups PROVE p \notin config.ignore[h]
  <2>1. p \notin Ignored
    BY DEF Combined
  <2> QED
    BY <2>1 DEF Ignored
<1>3. g \in Affected({p})
  BY <1>1, <1>2 DEF Affected, Matches
<1> QED
  BY <1>2, <1>3 DEF Wanted

(* A path of the batch keeps its time, and so does a path that joins it.                   *)
LEMMA CollectedKeepTheirTime ==
  ASSUME WatchIInv
  PROVE  /\ Collected \subseteq Paths /\ CollectedAge \in Age
         /\ Collected # {} <=> CollectedAge # None
         /\ Collected \cap Unwanted = {}
         /\ CollectedAge # None =>
              \E p \in Collected : waited[p] # None /\ waited[p] >= CollectedAge
<1> USE WatchAssumption
<1>1. Collected \subseteq Paths /\ CollectedAge \in Age
  BY DEF WatchIInv, WatchTypes, Collected, CollectedAge, Age
<1>2. Collected # {} <=> CollectedAge # None
  BY DEF WatchIInv, OldestWaits, Collected, CollectedAge
<1>3. Collected \cap Unwanted = {}
  BY CombinedIsWanted DEF Collected, Unwanted
<1>4. ASSUME CollectedAge # None
      PROVE  \E p \in Collected : waited[p] # None /\ waited[p] >= CollectedAge
  <2>1. CASE age # None
    BY <2>1 DEF WatchIInv, OldestWaits, Collected, CollectedAge
  <2>2. CASE age = None
    <3>1. PICK p \in queue \cap Combined : TRUE
      BY <1>4, <2>2 DEF CollectedAge
    <3>2. waited[p] # None /\ waited[p] \in Age /\ CollectedAge = 0
      BY <1>4, <2>2, <3>1 DEF WatchIInv, WatchTypes, OldestWaits, CollectedAge
    <3> QED
      BY <3>1, <3>2 DEF Collected, Age
  <2> QED
    BY <2>1, <2>2
<1> QED
  BY <1>1, <1>2, <1>3, <1>4

(* Time passes for the batch and for its paths alike, up to the longest window.            *)
LEMMA ElapseKeepsWatchIInv ==
  ASSUME WatchIInv, Elapse PROVE WatchIInv'
<1> USE WatchAssumption
<1>1. \A t \in Age : Later(t) \in Age /\ (Later(t) = None <=> t = None)
  BY DEF Age, Later
<1>2. \A t, u \in Age : t # None /\ u # None /\ u >= t => Later(u) >= Later(t)
  BY DEF Age, Later
<1>3. WatchTypes'
  BY <1>1 DEF WatchIInv, WatchTypes, Elapse
<1>4. \A p \in Paths : waited'[p] = Later(waited[p]) /\ waited[p] \in Age
  BY DEF WatchIInv, WatchTypes, Elapse
<1>5. ASSUME age' # None PROVE \E p \in batch' : waited'[p] # None /\ waited'[p] >= age'
  <2>1. age # None /\ age \in Age /\ age' = Later(age) /\ batch' = batch
    BY <1>1, <1>5 DEF WatchIInv, WatchTypes, Elapse
  <2>2. PICK p \in batch : waited[p] # None /\ waited[p] >= age
    BY <2>1 DEF WatchIInv, OldestWaits
  <2>3. p \in Paths /\ waited[p] \in Age
    BY <1>4 DEF WatchIInv, WatchTypes
  <2> QED
    BY <1>1, <1>2, <1>4, <2>1, <2>2, <2>3
<1>6. \A p \in queue' : waited'[p] # None
  BY <1>1, <1>4 DEF WatchIInv, WatchTypes, OldestWaits, Elapse
<1>7. batch' # {} <=> age' # None
  BY <1>1 DEF WatchIInv, WatchTypes, OldestWaits, Elapse
<1> QED
  BY <1>3, <1>5, <1>6, <1>7 DEF WatchIInv, OldestWaits

LEMMA WatchStepKeepsIInv ==
  ASSUME WatchIInv, [WatchNext]_watchVars PROVE WatchIInv'
<1> USE WatchAssumption
<1>1. CASE Write
  <2>1. PICK files \in SUBSET Paths :
          /\ queue' = queue \cup files
          /\ waited' = [p \in Paths |-> IF p \in files /\ waited[p] = None THEN 0
                                        ELSE waited[p]]
    BY <1>1 DEF Write
  <2>2. UNCHANGED <<config, window, batch, age>>
    BY <1>1 DEF Write
  <2>3. WatchTypes'
    BY <2>1, <2>2 DEF WatchIInv, WatchTypes, Age
  <2>4. \A p \in Paths : waited[p] # None => waited'[p] = waited[p]
    BY <2>1
  <2>5. \A p \in queue' : waited'[p] # None
    BY <2>1 DEF WatchIInv, WatchTypes, OldestWaits
  <2> QED
    BY <2>2, <2>3, <2>4, <2>5 DEF WatchIInv, WatchTypes, OldestWaits
<1>2. CASE Collect
  <2>1. /\ queue' = {} /\ batch' = Collected /\ age' = CollectedAge
        /\ waited' = [p \in Paths |-> IF p \in Unwanted THEN None ELSE waited[p]]
        /\ UNCHANGED <<config, window>>
    BY <1>2 DEF Collect, Forget
  <2>2. WatchTypes'
    BY <2>1, CollectedKeepTheirTime DEF WatchIInv, WatchTypes, Age
  <2>3. \A p \in Collected : waited'[p] = waited[p]
    BY <2>1, CollectedKeepTheirTime
  <2> QED
    BY <2>1, <2>2, <2>3, CollectedKeepTheirTime DEF WatchIInv, OldestWaits
<1>3. CASE HandOver
  <2>1. /\ queue' = {} /\ batch' = {} /\ age' = None
        /\ waited' = [p \in Paths |-> IF p \in Collected \cup Unwanted THEN None
                                      ELSE waited[p]]
        /\ UNCHANGED <<config, window>>
    BY <1>3 DEF HandOver, Forget
  <2> QED
    BY <2>1 DEF WatchIInv, WatchTypes, OldestWaits, Age
<1>4. CASE Run \/ DropPoll \/ UNCHANGED watchVars
  BY <1>4 DEF Run, DropPoll, watchVars, watching, WatchIInv, WatchTypes, OldestWaits
<1>5. CASE Reload
  BY <1>5 DEF Reload, WatchIInv, WatchTypes, OldestWaits
<1>6. CASE Elapse
  BY <1>6, ElapseKeepsWatchIInv
<1> QED
  BY <1>1, <1>2, <1>3, <1>4, <1>5, <1>6 DEF WatchNext, Poll

(* Whoever is not run stands behind an affected group that is: in what was left out there  *)
(* would be a group that depends on none of it.                                            *)
LEMMA RootsCover ==
  ASSUME config \in Configs, NEW affected \in SUBSET Groups
  PROVE  Covers(Roots(affected), affected)
<1>1. SUFFICES ASSUME NEW S \in SUBSET affected, Roots(affected) \subseteq S,
                      \A g \in affected : config.depends[g] \cap S # {} => g \in S,
                      S # affected
               PROVE  FALSE
  BY DEF Covers
<1>2. PICK g \in affected \ S : config.depends[g] \cap (affected \ S) = {}
  BY <1>1, WatchAssumption
<1>3. g \notin Roots(affected) /\ config.depends[g] \cap S = {}
  BY <1>1, <1>2
<1> QED
  BY <1>2, <1>3 DEF Roots

(* The inductive invariant of the watcher and its debounce window.                         *)
THEOREM WatchInvariant == WatchSpec => []WatchIInv
<1>1. WatchInit => WatchIInv
  BY WatchAssumption DEF WatchInit, WatchIInv, WatchTypes, OldestWaits, Age
<1>2. WatchIInv /\ [WatchNext]_watchVars => WatchIInv'
  BY WatchStepKeepsIInv
<1> QED
  BY <1>1, <1>2, PTL DEF WatchSpec

(* No batch is handed over before its window has passed since a change in it, and then no  *)
(* group that a change concerns is forgotten: it is run, or stands behind one that is.     *)
THEOREM BatchesAreDue == WatchSpec => HandsOverInTime
<1> USE WatchAssumption
<1> DEFINE Due1 ==
      queue' = {} /\ batch' = {} /\ writes' = writes /\ Collected # {} =>
        /\ \E p \in changed' : waited[p] # None /\ waited[p] >= window
        /\ Covers(plan', Affected(Collected))
<1>1. WatchIInv /\ [WatchNext]_watchVars => [Due1]_watchVars
  <2> SUFFICES ASSUME WatchIInv, WatchNext, queue' = {}, batch' = {}, writes' = writes,
                      Collected # {}
               PROVE  /\ \E p \in changed' : waited[p] # None /\ waited[p] >= window
                      /\ Covers(plan', Affected(Collected))
    OBVIOUS
  <2>1. CASE HandOver
    <3>1. /\ CollectedAge # None /\ CollectedAge >= window
          /\ changed' = Collected /\ plan' = Roots(Affected(Collected))
      BY <2>1 DEF HandOver
    <3>2. PICK p \in Collected : waited[p] # None /\ waited[p] >= CollectedAge
      BY <3>1, CollectedKeepTheirTime
    <3>3. waited[p] >= window
      <4>1. waited[p] \in Age /\ CollectedAge \in Age /\ window \in 0..MaxWindow
        BY CollectedKeepTheirTime DEF WatchIInv, WatchTypes
      <4> QED
        BY <3>1, <3>2, <4>1 DEF Age
    <3>4. Covers(plan', Affected(Collected))
      BY <3>1, RootsCover DEF Affected, WatchIInv, WatchTypes
    <3> QED
      BY <3>1, <3>2, <3>3, <3>4
  <2>2. CASE Write
    BY <2>2 DEF Write, Collected
  <2>3. CASE Collect
    BY <2>3 DEF Collect
  <2>4. CASE Run \/ DropPoll \/ Reload \/ Elapse
    BY <2>4 DEF Run, DropPoll, Reload, Elapse, Collected
  <2> QED
    BY <2>1, <2>2, <2>3, <2>4 DEF WatchNext, Poll
<1> QED
  BY <1>1, WatchInvariant, PTL DEF WatchSpec, HandsOverInTime
=============================================================================
