---------------------------- MODULE EngineProofs ----------------------------
(***************************************************************************)
(* What the engine keeps, for every configuration, every mix of requests   *)
(* and every bound on its environment: the types of its state, and that a  *)
(* service of a started group never is without both a process and a        *)
(* scheduled restart, whatever fails to spawn, is cancelled or is          *)
(* reloaded, if every configuration expands its command.                   *)
(*                                                                         *)
(* Then, of an engine that is Undisturbed: nobody waits in vain, services  *)
(* are started after the tasks of their group, and the task command leaves *)
(* nothing undone.  The other engines do not keep these.                   *)
(*                                                                         *)
(* Last, that the first start of all groups implements OrderedStart.       *)
(***************************************************************************)
EXTENDS Engine, SequenceTheorems, TLAPS

(***************************************************************************)
(* A service that every configuration expands is covered when it has a     *)
(* process, dead or alive, or a restart scheduled.  The services a serve   *)
(* item has handled already are; the others are only once it is done.  So  *)
(* the group may be called started at the end of the item, and what a      *)
(* request drops in its midst is not called started.                       *)
(***************************************************************************)
Covered(s) == s \notin MayNotExpand /\ proc[s] = "none" => s \in slot

Sound == {x \in Items : x.do = "serve" => \A s \in Services[x.group] \ x.left : Covered(s)}

IInv == TypeOK /\ todo \in Seq(Sound) /\ ServicesStaySupervised

\* no step but a reload takes the cover of a service away
KeepsCover == \A s \in AllServices : Covered(s) => Covered(s)'

Plain == {x \in Items : x.do # "serve"}

(***************************************************************************)
(* The conjuncts of the type invariant, by component.                      *)
(***************************************************************************)
ResolverTypes == waiting \in WaitingMap /\ statuses \in StatusMap

GroupTypes ==
  /\ status \in StatusMap
  /\ services_started \in [Groups -> BOOLEAN]
  /\ pending_ready \in [Groups -> [phase : Phases, cascade : BOOLEAN] \cup {None}]
  /\ suppress \subseteq Groups

TaskTypes ==
  /\ run \in [Tasks -> {"idle", "executing", "succeeded", "failed"}]
  /\ failed \cup pending \subseteq Tasks
  /\ unexpandable \subseteq MayNotExpand

ServiceTypes ==
  /\ proc \in [AllServices -> {"none", "alive", "dead"}]
  /\ window \subseteq HasReadyCheck /\ slot \subseteq AllServices
  /\ service_status \in
       [AllServices -> {"Pending", "Starting", "Running", "Failed", "Backoff"}]

QueueTypes == queued \in [Groups -> [start : Nat, restart : Nat]]

LoopTypes ==
  /\ job \in {"new", "startup", "idle", "poll", "request", "last", "done"}
  /\ budget \in [{"failures", "changes", "requests", "exits"} -> Nat]

Typed ==
  /\ ResolverTypes /\ GroupTypes /\ TaskTypes /\ ServiceTypes /\ QueueTypes /\ LoopTypes

LEMMA TypesByComponent == TypeOK <=> Typed /\ todo \in Seq(Items)
BY DEF TypeOK, Typed, ResolverTypes, GroupTypes, TaskTypes, ServiceTypes, QueueTypes, LoopTypes

-----------------------------------------------------------------------------
(***************************************************************************)
(* The stack: what is at its head, and what is put on it.                  *)
(***************************************************************************)
LEMMA SeqWidens ==
  ASSUME NEW S, NEW T, S \subseteq T
  PROVE  Seq(S) \subseteq Seq(T)
BY SeqDef

LEMMA Concatenated ==
  ASSUME NEW S, NEW q \in Seq(S), NEW r \in Seq(S)
  PROVE  q \o r \in Seq(S)
BY ConcatProperties

LEMMA Single ==
  ASSUME NEW S, NEW x \in S
  PROVE  <<x>> \in Seq(S)
OBVIOUS

LEMMA HeadAndTail ==
  ASSUME NEW S, NEW q \in Seq(S), q # <<>>
  PROVE  Head(q) \in S /\ Tail(q) \in Seq(S)
BY HeadTailProperties

LEMMA PlainIsSound == Plain \subseteq Sound /\ Seq(Plain) \subseteq Seq(Sound)
<1>1. Plain \subseteq Sound
  BY DEF Plain, Sound
<1>2. QED
  BY <1>1, SeqWidens

LEMMA SoundAreItems == Sound \subseteq Items /\ Seq(Sound) \subseteq Seq(Items)
<1>1. Sound \subseteq Items
  BY DEF Sound
<1>2. QED
  BY <1>1, SeqWidens

(***************************************************************************)
(* Where the cover is kept, what was sound stays sound.                    *)
(***************************************************************************)
LEMMA SoundStaysSound ==
  ASSUME EngineAssumption, KeepsCover
  PROVE  Sound \subseteq Sound' /\ Seq(Sound) \subseteq Seq(Sound')
<1>1. ASSUME NEW x \in Sound PROVE x \in Sound'
  <2>1. CASE x.do = "serve"
    <3>1. x \in Items /\ x.group \in Groups
      BY <2>1 DEF Sound, Items
    <3>2. Services[x.group] \subseteq AllServices
      BY <3>1 DEF AllServices
    <3>3. \A s \in Services[x.group] \ x.left : Covered(s)'
      BY <2>1, <3>2 DEF Sound, KeepsCover
    <3>4. QED
      BY <3>1, <3>3 DEF Sound
  <2>2. CASE x.do # "serve"
    BY <2>2 DEF Sound
  <2>3. QED
    BY <2>1, <2>2
<1>2. QED
  BY <1>1, SeqWidens

(***************************************************************************)
(* The fields of an item, by its kind.                                     *)
(***************************************************************************)
LoopKinds == {"trigger", "start", "skip", "fail", "cascade", "check"}

LEMMA KindsOfItems ==
  ASSUME NEW x \in Items
  PROVE  /\ x.do \in LoopKinds => x \in [do : LoopKinds, groups : SUBSET Groups]
         /\ x.do = "exec" =>
              x \in [do : {"exec"}, groups : SUBSET Groups, onChange : BOOLEAN,
                     cascade : BOOLEAN]
         /\ x.do = "serve" =>
              x \in [do : {"serve"}, group : Groups, start : BOOLEAN,
                     left : SUBSET AllServices, at : SUBSET AllServices,
                     phase : Phases \cup {"Later"}, cascade : BOOLEAN]
         /\ x.do = "drain" =>
              x \in [do : {"drain"}, failed : SUBSET Groups, actions : Seq(Actions)]
         /\ x.do = "act" => x \in [do : {"act"}, action : Actions]
         /\ x.do = "supervise" =>
              x \in [do : {"supervise"}, group : Groups, left : SUBSET AllServices,
                     at : SUBSET AllServices]
         /\ x.do = "settle" => x \in [do : {"settle"}, group : Groups, ok : BOOLEAN]
BY DEF Items, LoopKinds

LEMMA LoopsArePlain ==
  ASSUME NEW kind \in LoopKinds, NEW S \in SUBSET Groups
  PROVE  Loop(kind, S) \in Seq(Plain)
<1>1. [do |-> kind, groups |-> S] \in Plain
  BY DEF Plain, Items, LoopKinds
<1>2. QED
  BY <1>1 DEF Loop

LEMMA ExecsArePlain ==
  ASSUME NEW S \in SUBSET Groups, NEW onChange \in BOOLEAN, NEW cascade \in BOOLEAN
  PROVE  Exec(S, onChange, cascade) \in Seq(Plain)
<1>1. [do |-> "exec", groups |-> S, onChange |-> onChange, cascade |-> cascade] \in Plain
  BY DEF Plain, Items
<1>2. QED
  BY <1>1 DEF Exec

LEMMA SinglesArePlain ==
  /\ Drain \in Seq(Plain)
  /\ Simple("watch") \in Seq(Plain)
  /\ Check \in Seq(Plain)
  /\ EngineAssumption => \A g \in Groups : Supervise(g) \in Seq(Plain)
  /\ \A g \in Groups, ok \in BOOLEAN : Settle(g, ok) \in Seq(Plain)
<1>1. [do |-> "drain", failed |-> {}, actions |-> <<>>] \in Plain
  BY DEF Plain, Items
<1>2. [do |-> "watch"] \in Plain
  BY DEF Plain, Items
<1>3. Check \in Seq(Plain)
  BY LoopsArePlain DEF Check, LoopKinds
<1>4. ASSUME EngineAssumption, NEW g \in Groups
      PROVE  [do |-> "supervise", group |-> g, left |-> Services[g], at |-> {}] \in Plain
  BY DEF Plain, Items, AllServices
<1>5. ASSUME NEW g \in Groups, NEW ok \in BOOLEAN
      PROVE  [do |-> "settle", group |-> g, ok |-> ok] \in Plain
  BY DEF Plain, Items
<1>6. QED
  BY <1>1, <1>2, <1>3, <1>4, <1>5, Single DEF Drain, Simple, Supervise, Settle

LEMMA PropagationIsPlain ==
  ASSUME NEW g \in Groups, NEW phase, NEW cascade
  PROVE  Propagate(g, phase, cascade) \in Seq(Plain)
<1>1. Dependents(g) \in SUBSET Groups
  BY DEF Dependents
<1>2. Loop("trigger", {g}) \in Seq(Plain) /\ Loop("cascade", Dependents(g)) \in Seq(Plain)
  BY <1>1, LoopsArePlain DEF LoopKinds
<1>3. <<>> \in Seq(Plain)
  OBVIOUS
<1>4. QED
  BY <1>2, <1>3 DEF Propagate

LEMMA ServesAreSound ==
  ASSUME EngineAssumption, NEW g \in Groups, NEW start \in BOOLEAN,
         NEW phase \in Phases \cup {"Later"}, NEW cascade \in BOOLEAN
  PROVE  Serve(g, start, phase, cascade) \in Seq(Sound)
<1> DEFINE x == [do |-> "serve", group |-> g, start |-> start, left |-> Services[g],
                 at |-> {}, phase |-> phase, cascade |-> cascade]
<1>1. Services[g] \in SUBSET AllServices
  BY DEF AllServices
<1>2. x \in Items
  BY <1>1 DEF Items
<1>3. x \in Sound
  BY <1>2 DEF Sound
<1>4. QED
  BY <1>3, Single DEF Serve

LEMMA ActionsArePlain ==
  ASSUME NEW acts \in Seq(Actions)
  PROVE  [i \in DOMAIN acts |-> [do |-> "act", action |-> acts[i]]] \in Seq(Plain)
<1> DEFINE f == [i \in DOMAIN acts |-> [do |-> "act", action |-> acts[i]]]
<1>1. DOMAIN acts = 1..Len(acts) /\ Len(acts) \in Nat
  OBVIOUS
<1>2. ASSUME NEW i \in DOMAIN acts PROVE [do |-> "act", action |-> acts[i]] \in Plain
  <2>1. acts[i] \in Actions
    BY <1>1
  <2>2. QED
    BY <2>1 DEF Plain, Items
<1>3. f \in [1..Len(acts) -> Plain]
  BY <1>1, <1>2
<1> HIDE DEF f
<1>4. QED
  BY <1>1, <1>3, SeqDef DEF f

(***************************************************************************)
(* The step looks at the head of the stack and leaves its tail alone.      *)
(***************************************************************************)
LEMMA StackFacts ==
  ASSUME todo \in Seq(Sound), NEW kind, Doing(kind)
  PROVE  /\ Now \in Sound /\ Now \in Items /\ Now.do = kind
         /\ Tail(todo) \in Seq(Sound)
<1>1. todo # <<>>
  BY DEF Doing
<1>2. Head(todo) \in Sound /\ Tail(todo) \in Seq(Sound)
  BY <1>1, HeadAndTail
<1>3. QED
  BY <1>2, SoundAreItems DEF Doing, Now

LEMMA PutOnTheStack ==
  ASSUME NEW q \in Seq(Plain), NEW r \in Seq(Sound)
  PROVE  q \o r \in Seq(Sound) /\ r \o q \in Seq(Sound)
BY PlainIsSound, Concatenated

LEMMA LoopGoesOn ==
  ASSUME todo \in Seq(Sound), NEW kind \in LoopKinds \cup {"exec"}, Doing(kind),
         NEW g \in Now.groups
  PROVE  After(g) \in Seq(Sound) /\ g \in Groups
<1>1. Now \in Items /\ Now.do = kind /\ Tail(todo) \in Seq(Sound)
  BY StackFacts
<1> DEFINE x == [Now EXCEPT !.groups = @ \ {g}]
<1>2. x \in Plain /\ g \in Groups
  <2>1. CASE kind \in LoopKinds
    <3>1. Now \in [do : LoopKinds, groups : SUBSET Groups]
      BY <1>1, <2>1, KindsOfItems
    <3>2. x \in [do : LoopKinds, groups : SUBSET Groups] /\ g \in Groups
      BY <3>1
    <3>3. QED
      BY <3>2 DEF Plain, Items, LoopKinds
  <2>2. CASE kind = "exec"
    <3>1. Now \in [do : {"exec"}, groups : SUBSET Groups, onChange : BOOLEAN,
                   cascade : BOOLEAN]
      BY <1>1, <2>2, KindsOfItems
    <3>2. /\ x \in [do : {"exec"}, groups : SUBSET Groups, onChange : BOOLEAN,
                    cascade : BOOLEAN]
          /\ g \in Groups
      BY <3>1
    <3>3. QED
      BY <3>2 DEF Plain, Items
  <2>3. QED
    BY <2>1, <2>2
<1>3. <<x>> \in Seq(Plain)
  BY <1>2, Single
<1> HIDE DEF x
<1>4. <<x>> \o Tail(todo) \in Seq(Sound)
  BY <1>1, <1>3, PutOnTheStack
<1>5. QED
  BY <1>1, <1>2, <1>4 DEF After, x

(***************************************************************************)
(* What a step has to show: the types, the stack and the cover.            *)
(***************************************************************************)
Kept == Typed' /\ todo' \in Seq(Sound) /\ KeepsCover /\ UNCHANGED services_started

LEMMA StackIsEnough ==
  ASSUME EngineAssumption, IInv, Typed', todo' \in Seq(Sound'), KeepsCover,
         UNCHANGED services_started
  PROVE  IInv'
<1>1. todo' \in Seq(Items)
  <2>1. Sound' \subseteq Items
    BY DEF Sound
  <2>2. QED
    BY <2>1, SeqWidens
<1>2. TypeOK'
  BY <1>1 DEF TypeOK, Typed, ResolverTypes, GroupTypes, TaskTypes, ServiceTypes, QueueTypes,
     LoopTypes
<1>3. ServicesStaySupervised'
  BY DEF IInv, ServicesStaySupervised, KeepsCover, Covered, AllServices
<1>4. QED
  BY <1>2, <1>3 DEF IInv

LEMMA KeptIsEnough ==
  ASSUME EngineAssumption, IInv, Kept
  PROVE  IInv'
<1>1. todo' \in Seq(Sound')
  BY SoundStaysSound DEF Kept
<1>2. QED
  BY <1>1, StackIsEnough DEF Kept

LEMMA NothingServed == UNCHANGED serviceVars => KeepsCover
BY DEF KeepsCover, Covered, serviceVars

(***************************************************************************)
(* The operators the steps are built from return what the types ask for.   *)
(***************************************************************************)
LEMMA TasksAreTasks ==
  ASSUME NEW g \in Groups, NEW onChange
  PROVE  RunnableTasks(g, onChange) \subseteq Tasks
BY DEF RunnableTasks, TasksOf, Tasks

LEMMA SpawnKeepsTypes ==
  ASSUME TaskTypes, NEW S \in SUBSET Tasks, Spawn(S)
  PROVE  TaskTypes'
BY DEF TaskTypes, Spawn

LEMMA SpawnGroupKeepsTypes ==
  ASSUME TaskTypes, GroupTypes, NEW g \in Groups, NEW onChange,
         SpawnGroupTasks(g, onChange),
         UNCHANGED <<services_started, pending_ready, suppress>>
  PROVE  TaskTypes' /\ GroupTypes'
<1>1. TaskTypes'
  <2>1. (RunnableTasks(g, onChange) \ unexpandable) \in SUBSET Tasks
    BY TasksAreTasks
  <2>2. QED
    BY <2>1, SpawnKeepsTypes DEF SpawnGroupTasks
<1>2. GroupTypes'
  BY DEF GroupTypes, SpawnGroupTasks, StatusMap, GroupStatus
<1>3. QED
  BY <1>1, <1>2

LEMMA SetReadyKeepsTypes ==
  ASSUME GroupTypes, statuses \in StatusMap, NEW g \in Groups, SetReady(g),
         UNCHANGED <<services_started, pending_ready, suppress>>
  PROVE  GroupTypes' /\ statuses' \in StatusMap
BY DEF GroupTypes, SetReady, MarkReady, StatusMap, GroupStatus

LEMMA StopWaitingKeepsTypes ==
  ASSUME NEW w \in WaitingMap, NEW S
  PROVE  StopWaitingFor(w, S) \in WaitingMap
BY DEF StopWaitingFor, WaitingMap

LEMMA SkipKeepsTypes ==
  ASSUME ResolverTypes, GroupTypes, NEW S \in SUBSET Groups, NEW own \in GroupStatus,
         SkipBehind(S, own), UNCHANGED <<services_started, pending_ready, suppress>>
  PROVE  ResolverTypes' /\ GroupTypes'
<1>1. waiting' \in WaitingMap
  BY StopWaitingKeepsTypes DEF SkipBehind, WaitingAfterSkip, ResolverTypes
<1>2. ASSUME NEW st \in StatusMap PROVE StatusAfterSkip(waiting, st, S, own) \in StatusMap
  BY DEF StatusAfterSkip, StatusMap, GroupStatus
<1>3. statuses' \in StatusMap /\ status' \in StatusMap
  BY <1>2 DEF SkipBehind, ResolverTypes, GroupTypes
<1>4. QED
  BY <1>1, <1>3 DEF ResolverTypes, GroupTypes

LEMMA StartKeepsTypes ==
  ASSUME ServiceTypes, NEW s \in AllServices, StartService(s)
  PROVE  /\ proc' \in [AllServices -> {"none", "alive", "dead"}] /\ proc'[s] # "none"
         /\ \A r \in AllServices \ {s} : proc'[r] = proc[r]
         /\ window' \subseteq HasReadyCheck
         /\ service_status' \in
              [AllServices -> {"Pending", "Starting", "Running", "Failed", "Backoff"}]
BY DEF ServiceTypes, StartService

LEMMA PhasesArePhases ==
  ASSUME NEW g, NEW started
  PROVE  Phase(g, started) \in Phases
BY DEF Phase, Phases

LEMMA WaveKeepsTypes ==
  ASSUME GroupTypes, NEW st0 \in StatusMap, StartWave(st0),
         UNCHANGED <<services_started, pending_ready, suppress>>
  PROVE  ResolverTypes' /\ GroupTypes' /\ todo' \in Seq(Sound)
<1> DEFINE unready == [g \in Groups |-> UnreadyDependencies(st0, g)]
           late    == {g \in Groups : unready[g] # {}}
<1>1. unready \in WaitingMap
  BY DependsOnAssumption DEF WaitingMap, UnreadyDependencies
<1>2. /\ [g \in Groups |-> IF g \in late THEN "Waiting" ELSE st0[g]] \in StatusMap
      /\ [g \in Groups |-> IF g \in late THEN "Waiting" ELSE status[g]] \in StatusMap
  BY DEF GroupTypes, StatusMap, GroupStatus
<1>3. Exec(Groups \ late, FALSE, TRUE) \in Seq(Sound)
  BY ExecsArePlain, PlainIsSound
<1>4. QED
  BY <1>1, <1>2, <1>3 DEF StartWave, ResolverTypes, GroupTypes

-----------------------------------------------------------------------------
(***************************************************************************)
(* The steps of the loop.                                                  *)
(***************************************************************************)
LEMMA LoopKeeps ==
  ASSUME EngineAssumption, IInv, Startup \/ Finish \/ Poll
  PROVE  Kept
<1>1. Typed /\ todo \in Seq(Sound)
  BY TypesByComponent DEF IInv
<1>2. CASE Startup
  <2>1. ResolverTypes' /\ GroupTypes' /\ todo' \in Seq(Sound)
    BY <1>1, <1>2, WaveKeepsTypes DEF Typed, ResolverTypes, Startup
  <2>2. KeepsCover
    BY <1>2, NothingServed DEF Startup
  <2>3. TaskTypes' /\ ServiceTypes' /\ QueueTypes' /\ LoopTypes'
    BY <1>1, <1>2 DEF Startup, Typed, TaskTypes, ServiceTypes, QueueTypes, LoopTypes,
       taskVars, serviceVars
  <2>4. QED
    BY <1>2, <2>1, <2>2, <2>3 DEF Kept, Typed, Startup
<1>3. CASE Finish \/ Poll
  <2>1. todo' \in Seq(Sound)
    <3>1. Drain \in Seq(Sound) /\ Drain \o Simple("watch") \o Check \in Seq(Sound)
      BY SinglesArePlain, Concatenated, PlainIsSound
    <3>2. QED
      BY <1>1, <1>3, <3>1 DEF Finish, Poll
  <2>2. UNCHANGED <<resolver, groupVars, taskVars, queued, serviceVars, budget>>
    BY <1>3 DEF Finish, Poll
  <2>3. LoopTypes'
    BY <1>1, <1>3 DEF Finish, Poll, Typed, LoopTypes
  <2>4. ResolverTypes' /\ GroupTypes' /\ TaskTypes' /\ ServiceTypes' /\ QueueTypes'
    BY <1>1, <2>2 DEF Typed, ResolverTypes, GroupTypes, TaskTypes, ServiceTypes, QueueTypes,
       resolver, groupVars, taskVars, serviceVars
  <2>5. QED
    BY <2>1, <2>2, <2>3, <2>4, NothingServed DEF Kept, Typed, groupVars
<1>4. QED
  BY <1>2, <1>3

(***************************************************************************)
(* A step that changes nothing but the stack.                              *)
(***************************************************************************)
LEMMA OnlyTheStackMoves ==
  ASSUME IInv, todo' \in Seq(Sound),
         UNCHANGED <<resolver, groupVars, taskVars, queued, serviceVars, job, budget>>
  PROVE  Kept
<1>1. Typed
  BY TypesByComponent DEF IInv
<1>2. Typed'
  BY <1>1 DEF Typed, ResolverTypes, GroupTypes, TaskTypes, ServiceTypes, QueueTypes, LoopTypes,
     resolver, groupVars, taskVars, serviceVars
<1>3. QED
  BY <1>2, NothingServed DEF Kept, groupVars

(***************************************************************************)
(* execute_groups.                                                         *)
(***************************************************************************)
LEMMA ExecKeeps ==
  ASSUME EngineAssumption, IInv, NEW g \in Groups,
         ExecTasks(g) \/ ExecNothing(g) \/ ExecServices(g)
  PROVE  Kept
<1>1. Typed /\ todo \in Seq(Sound)
  BY TypesByComponent DEF IInv
<1>2. /\ Doing("exec") /\ g \in Now.groups
      /\ UNCHANGED <<services_started, serviceVars>>
  BY DEF ExecTasks, ExecNothing, ExecServices, groupVars
<1>3. After(g) \in Seq(Sound) /\ KeepsCover
  BY <1>1, <1>2, LoopGoesOn, NothingServed
<1>4. CASE ExecTasks(g)
  <2>1. TaskTypes' /\ GroupTypes'
    BY <1>1, <1>4, SpawnGroupKeepsTypes DEF Typed, ExecTasks
  <2>2. ResolverTypes' /\ ServiceTypes' /\ QueueTypes' /\ LoopTypes'
    BY <1>1, <1>4 DEF ExecTasks, Typed, ResolverTypes, ServiceTypes, QueueTypes, LoopTypes,
       resolver, serviceVars
  <2>3. QED
    BY <1>2, <1>3, <1>4, <2>1, <2>2 DEF Kept, Typed, ExecTasks
<1>5. CASE ExecNothing(g)
  <2>1. GroupTypes' /\ statuses' \in StatusMap
    BY <1>1, <1>5, SetReadyKeepsTypes DEF Typed, ResolverTypes, ExecNothing
  <2>2. ResolverTypes'
    BY <1>1, <1>5, <2>1 DEF ExecNothing, Typed, ResolverTypes
  <2>3. TaskTypes' /\ ServiceTypes' /\ QueueTypes' /\ LoopTypes'
    BY <1>1, <1>5 DEF ExecNothing, Typed, TaskTypes, ServiceTypes, QueueTypes, LoopTypes,
       taskVars, serviceVars
  <2>4. Propagate(g, Phase(g, services_started[g]), Now.cascade) \in Seq(Plain)
    BY PropagationIsPlain
  <2>5. todo' \in Seq(Sound)
    BY <1>3, <1>5, <2>4, PutOnTheStack DEF ExecNothing
  <2>6. QED
    BY <1>2, <1>3, <2>1, <2>2, <2>3, <2>5 DEF Kept, Typed
<1>6. CASE ExecServices(g)
  <2>1. Now \in [do : {"exec"}, groups : SUBSET Groups, onChange : BOOLEAN,
                 cascade : BOOLEAN]
    BY <1>1, <1>2, StackFacts, KindsOfItems
  <2>2. Now.cascade \in BOOLEAN
    BY <2>1
  <2>3. Serve(g, ~services_started[g], Phase(g, services_started[g]), Now.cascade)
          \in Seq(Sound)
    BY <2>2, PhasesArePhases, ServesAreSound
  <2>4. todo' \in Seq(Sound)
    BY <1>3, <1>6, <2>3, Concatenated DEF ExecServices
  <2>5. QED
    BY <1>6, <2>4, OnlyTheStackMoves DEF ExecServices
<1>7. QED
  BY <1>4, <1>5, <1>6

(***************************************************************************)
(* handle_service_action.  A service leaves the item with a process.       *)
(***************************************************************************)
ServeItems ==
  [do : {"serve"}, group : Groups, start : BOOLEAN, left : SUBSET AllServices,
   at : SUBSET AllServices, phase : Phases \cup {"Later"}, cascade : BOOLEAN]

LEMMA ServeFacts ==
  ASSUME todo \in Seq(Sound), Doing("serve")
  PROVE  /\ Now \in ServeItems /\ Now \in Sound /\ Tail(todo) \in Seq(Sound)
         /\ Now.group \in Groups /\ Now.cascade \in BOOLEAN
         /\ \A s \in Services[Now.group] \ Now.left : Covered(s)
<1>1. Now \in Sound /\ Now \in Items /\ Now.do = "serve" /\ Tail(todo) \in Seq(Sound)
  BY StackFacts
<1>2. Now \in ServeItems
  BY <1>1, KindsOfItems DEF ServeItems
<1>3. QED
  BY <1>1, <1>2 DEF ServeItems, Sound

LEMMA ServeKeeps ==
  ASSUME EngineAssumption, IInv, NEW s \in AllServices,
         ServeSignal(s) \/ ServeBegin(s) \/ ServeStart(s) \/ ServeSkips(s)
  PROVE  Kept \/ IInv'
<1>1. Typed /\ todo \in Seq(Sound)
  BY TypesByComponent DEF IInv
<1>2. Doing("serve")
  BY DEF ServeSignal, ServeBegin, ServeStart, ServeSkips
<1>3. /\ Now \in ServeItems /\ Tail(todo) \in Seq(Sound)
      /\ \A r \in Services[Now.group] \ Now.left : Covered(r)
  BY <1>1, <1>2, ServeFacts
<1>4. CASE ServeSignal(s)
  <2> DEFINE x == [Now EXCEPT !.left = @ \ {s}]
  <2>1. x \in ServeItems /\ x.group = Now.group /\ x.left = Now.left \ {s} /\ x.do = "serve"
    BY <1>3 DEF ServeItems
  <2> HIDE DEF x
  <2>2. Covered(s)
    BY <1>4 DEF ServeSignal, Covered
  <2>3. x \in Sound
    BY <1>3, <2>1, <2>2 DEF Sound, Items, ServeItems
  <2>4. todo' \in Seq(Sound)
    BY <1>3, <1>4, <2>3, Single, Concatenated DEF ServeSignal, x
  <2>5. KeepsCover
    BY <1>4 DEF ServeSignal, KeepsCover, Covered
  <2>6. ServiceTypes'
    BY <1>1, <1>4 DEF ServeSignal, Typed, ServiceTypes
  <2>7. ResolverTypes' /\ GroupTypes' /\ TaskTypes' /\ QueueTypes' /\ LoopTypes'
    BY <1>1, <1>4 DEF ServeSignal, Typed, ResolverTypes, GroupTypes, TaskTypes, QueueTypes,
       LoopTypes, resolver, groupVars, taskVars
  <2>8. QED
    BY <1>4, <2>4, <2>5, <2>6, <2>7 DEF Kept, Typed, ServeSignal, groupVars
<1>5. CASE ServeBegin(s)
  <2> DEFINE x == [Now EXCEPT !.at = {s}]
  <2>1. x \in ServeItems /\ x.group = Now.group /\ x.left = Now.left /\ x.do = "serve"
    BY <1>3 DEF ServeItems
  <2> HIDE DEF x
  <2>2. x \in Sound
    BY <1>3, <2>1 DEF Sound, Items, ServeItems
  <2>3. todo' \in Seq(Sound)
    BY <1>3, <1>5, <2>2, Single, Concatenated DEF ServeBegin, x
  <2>4. QED
    BY <1>5, <2>3, OnlyTheStackMoves DEF ServeBegin
<1>6. CASE ServeStart(s)
  <2> DEFINE x == [Now EXCEPT !.left = @ \ {s}, !.at = {}]
  <2>1. /\ x \in ServeItems /\ x.group = Now.group /\ x.left = Now.left \ {s}
        /\ x.do = "serve"
    BY <1>3 DEF ServeItems
  <2> HIDE DEF x
  <2>2. /\ ServiceTypes' /\ proc'[s] # "none" /\ UNCHANGED slot
        /\ \A r \in AllServices \ {s} : proc'[r] = proc[r]
    BY <1>1, <1>6, StartKeepsTypes DEF ServeStart, Typed, ServiceTypes
  <2>3. KeepsCover
    BY <2>2 DEF KeepsCover, Covered
  <2>4. x \in Sound'
    <3>1. Services[x.group] \subseteq AllServices
      BY <2>1 DEF ServeItems, AllServices
    <3>2. ASSUME NEW r \in Services[x.group] \ x.left PROVE Covered(r)'
      BY <1>3, <2>1, <2>2, <2>3, <3>1 DEF KeepsCover, Covered
    <3>3. x \in Items
      BY <2>1 DEF Items, ServeItems
    <3>4. QED
      BY <3>2, <3>3 DEF Sound
  <2>5. todo' \in Seq(Sound')
    <3>1. Tail(todo) \in Seq(Sound')
      BY <1>3, <2>3, SoundStaysSound
    <3>2. QED
      BY <1>6, <2>4, <3>1, Single, Concatenated DEF ServeStart, x
  <2>6. Typed'
    <3>1. ResolverTypes' /\ GroupTypes' /\ TaskTypes' /\ QueueTypes' /\ LoopTypes'
      BY <1>1, <1>6 DEF ServeStart, Typed, ResolverTypes, GroupTypes, TaskTypes, QueueTypes,
         LoopTypes, resolver, groupVars, taskVars
    <3>2. QED
      BY <2>2, <3>1 DEF Typed
  <2>7. UNCHANGED services_started
    BY <1>6 DEF ServeStart, groupVars
  <2>8. QED
    BY <2>3, <2>5, <2>6, <2>7, StackIsEnough
<1>7. CASE ServeSkips(s)
  <2> DEFINE x == [Now EXCEPT !.left = @ \ {s}, !.at = {}]
  <2>1. /\ x \in ServeItems /\ x.group = Now.group /\ x.left = Now.left \ {s}
        /\ x.do = "serve"
    BY <1>3 DEF ServeItems
  <2> HIDE DEF x
  <2>2. Covered(s)
    BY <1>1, <1>7 DEF ServeSkips, Covered, Typed, TaskTypes
  <2>3. x \in Sound
    BY <1>3, <2>1, <2>2 DEF Sound, Items, ServeItems
  <2>4. todo' \in Seq(Sound)
    BY <1>3, <1>7, <2>3, Single, Concatenated DEF ServeSkips, x
  <2>5. QED
    BY <1>7, <2>4, OnlyTheStackMoves DEF ServeSkips
<1>8. QED
  BY <1>4, <1>5, <1>6, <1>7

(***************************************************************************)
(* What is deferred is typed, and what is propagated is plain.             *)
(***************************************************************************)
LEMMA DeferralKeepsTypes ==
  ASSUME EngineAssumption, IInv, Doing("serve"), NEW phase \in Phases,
         DeferOrPropagate(Now.group, phase, Now.cascade),
         \/ pending_ready' = pending_ready
         \/ pending_ready' = [pending_ready EXCEPT ![Now.group] = None]
         \/ AwaitsReadiness(Now.group)
  PROVE  /\ pending_ready' \in [Groups -> [phase : Phases, cascade : BOOLEAN] \cup {None}]
         /\ todo' \in Seq(Sound)
<1>1. /\ pending_ready \in [Groups -> [phase : Phases, cascade : BOOLEAN] \cup {None}]
      /\ todo \in Seq(Sound)
  BY TypesByComponent DEF IInv, Typed, GroupTypes
<1>2. Now.group \in Groups /\ Now.cascade \in BOOLEAN /\ Tail(todo) \in Seq(Sound)
  BY <1>1, ServeFacts
<1>3. Propagate(Now.group, phase, Now.cascade) \o Tail(todo) \in Seq(Sound)
  BY <1>2, PropagationIsPlain, PutOnTheStack
<1>4. todo' \in Seq(Sound)
  BY <1>2, <1>3 DEF DeferOrPropagate
<1>5. [phase |-> phase, cascade |-> Now.cascade] \in [phase : Phases, cascade : BOOLEAN]
  BY <1>2
<1>6. pending_ready' \in [Groups -> [phase : Phases, cascade : BOOLEAN] \cup {None}]
  BY <1>1, <1>2, <1>5 DEF DeferOrPropagate
<1>7. QED
  BY <1>4, <1>6

(***************************************************************************)
(* At the end of a serve item every service of its group is covered: the   *)
(* group may be called started.                                            *)
(***************************************************************************)
LEMMA ServeDoneKeeps ==
  ASSUME EngineAssumption, IInv, ServeDone
  PROVE  IInv'
<1>1. Typed /\ todo \in Seq(Sound)
  BY TypesByComponent DEF IInv
<1>2. Doing("serve") /\ Now.left = {}
  BY DEF ServeDone
<1> DEFINE g == Now.group
           phase == IF Now.phase = "Later" THEN Phase(g, TRUE) ELSE Now.phase
<1>3. /\ g \in Groups /\ Now \in ServeItems
      /\ \A s \in Services[g] : Covered(s)
  BY <1>1, <1>2, ServeFacts
<1>4. phase \in Phases
  BY <1>3, PhasesArePhases DEF ServeItems
<1>5. /\ services_started' = [services_started EXCEPT ![g] = TRUE]
      /\ status' = [status EXCEPT ![g] = IF AwaitsReadiness(g) THEN "Running" ELSE "Ready"]
      /\ DeferOrPropagate(g, phase, Now.cascade)
      /\ ~AwaitsReadiness(g) => pending_ready' = [pending_ready EXCEPT ![g] = None]
      /\ UNCHANGED <<resolver, suppress, taskVars, queued, serviceVars, job, budget>>
  BY DEF ServeDone
<1> HIDE DEF phase
<1>6. /\ pending_ready' \in [Groups -> [phase : Phases, cascade : BOOLEAN] \cup {None}]
      /\ todo' \in Seq(Sound)
  BY <1>2, <1>4, <1>5, DeferralKeepsTypes
<1>7. GroupTypes'
  BY <1>1, <1>3, <1>5, <1>6 DEF Typed, GroupTypes, StatusMap, GroupStatus
<1>8. Typed'
  BY <1>1, <1>5, <1>7 DEF Typed, ResolverTypes, TaskTypes, ServiceTypes, QueueTypes, LoopTypes,
     resolver, taskVars, serviceVars
<1>9. KeepsCover
  BY <1>5, NothingServed
<1>10. todo' \in Seq(Sound')
  BY <1>6, <1>9, SoundStaysSound
<1>11. todo' \in Seq(Items)
  BY <1>6, SoundAreItems
<1>12. TypeOK'
  BY <1>8, <1>11 DEF TypeOK, Typed, ResolverTypes, GroupTypes, TaskTypes, ServiceTypes,
     QueueTypes, LoopTypes
<1>13. ServicesStaySupervised'
  <2>1. \A h \in Groups : h # g => services_started'[h] = services_started[h]
    BY <1>1, <1>3, <1>5 DEF Typed, GroupTypes
  <2>2. proc' = proc /\ slot' = slot
    BY <1>5 DEF serviceVars
  <2>3. QED
    BY <1>3, <2>1, <2>2 DEF IInv, ServicesStaySupervised, Covered
<1>14. QED
  BY <1>10, <1>12, <1>13 DEF IInv

LEMMA ServeFailsKeeps ==
  ASSUME EngineAssumption, IInv, ServeFails
  PROVE  Kept
<1>1. Typed /\ todo \in Seq(Sound)
  BY TypesByComponent DEF IInv
<1>2. /\ Doing("serve")
      /\ UNCHANGED <<resolver, status, services_started, suppress, taskVars, queued,
                     serviceVars, job, budget>>
  BY DEF ServeFails
<1>3. /\ pending_ready' \in [Groups -> [phase : Phases, cascade : BOOLEAN] \cup {None}]
      /\ todo' \in Seq(Sound)
  <2>1. CASE Now.phase = "Later"
    <3>1. Phase(Now.group, services_started[Now.group]) \in Phases
      BY PhasesArePhases
    <3>2. /\ DeferOrPropagate(Now.group, Phase(Now.group, services_started[Now.group]),
                              Now.cascade)
          /\ AwaitsReadiness(Now.group) \/ pending_ready' = pending_ready
      BY <2>1 DEF ServeFails
    <3>3. QED
      BY <1>2, <3>1, <3>2, DeferralKeepsTypes
  <2>2. CASE Now.phase # "Later"
    <3>1. todo' = Tail(todo) /\ UNCHANGED pending_ready
      BY <2>2 DEF ServeFails
    <3>2. Tail(todo) \in Seq(Sound)
      BY <1>1, <1>2, ServeFacts
    <3>3. QED
      BY <1>1, <3>1, <3>2 DEF Typed, GroupTypes
  <2>3. QED
    BY <2>1, <2>2
<1>4. Typed'
  BY <1>1, <1>2, <1>3 DEF Typed, GroupTypes, ResolverTypes, TaskTypes, ServiceTypes, QueueTypes,
     LoopTypes, resolver, taskVars, serviceVars
<1>5. QED
  BY <1>2, <1>3, <1>4, NothingServed DEF Kept

-----------------------------------------------------------------------------
(***************************************************************************)
(* trigger_dependents, start_waiting_group and the skips.                  *)
(***************************************************************************)
LEMMA TriggerKeeps ==
  ASSUME EngineAssumption, IInv, NEW g \in Groups, Trigger(g)
  PROVE  Kept
<1>1. Typed /\ todo \in Seq(Sound)
  BY TypesByComponent DEF IInv
<1>2. Tail(todo) \in Seq(Sound)
  BY <1>1, StackFacts DEF Trigger
<1>3. /\ ReadyToStart(waiting, statuses, g) \in SUBSET Groups
      /\ NeedsSkip(waiting, statuses, g) \in SUBSET Groups
  BY DEF ReadyToStart, NeedsSkip, Released, Dependents
<1>4. /\ Loop("start", ReadyToStart(waiting, statuses, g)) \in Seq(Plain)
      /\ Loop("skip", NeedsSkip(waiting, statuses, g)) \in Seq(Plain)
  BY <1>3, LoopsArePlain DEF LoopKinds
<1>5. todo' \in Seq(Sound)
  <2>1. Loop("skip", NeedsSkip(waiting, statuses, g)) \o Tail(todo) \in Seq(Sound)
    BY <1>2, <1>4, PutOnTheStack
  <2>2. /\ Loop("start", ReadyToStart(waiting, statuses, g)) \in Seq(Sound)
        /\ Loop("skip", NeedsSkip(waiting, statuses, g)) \in Seq(Sound)
    BY <1>4, PlainIsSound
  <2>3. Loop("start", ReadyToStart(waiting, statuses, g))
          \o Loop("skip", NeedsSkip(waiting, statuses, g)) \in Seq(Sound)
    BY <2>2, Concatenated
  <2>4. QED
    BY <1>2, <2>3, Concatenated DEF Trigger
<1>6. GroupTypes' /\ ResolverTypes'
  BY <1>1, SetReadyKeepsTypes, StopWaitingKeepsTypes DEF Trigger, Typed, ResolverTypes
<1>7. TaskTypes' /\ ServiceTypes' /\ QueueTypes' /\ LoopTypes'
  BY <1>1 DEF Trigger, Typed, TaskTypes, ServiceTypes, QueueTypes, LoopTypes, taskVars,
     serviceVars
<1>8. QED
  BY <1>5, <1>6, <1>7, NothingServed DEF Kept, Typed, Trigger

LEMMA StartWaitingKeeps ==
  ASSUME EngineAssumption, IInv, NEW g \in Groups,
         StartWaitingTasks(g) \/ StartWaitingNothing(g) \/ QueueServiceAction(g)
  PROVE  Kept
<1>1. Typed /\ todo \in Seq(Sound)
  BY TypesByComponent DEF IInv
<1>2. /\ Doing("start") /\ g \in Now.groups
      /\ UNCHANGED <<services_started, serviceVars>>
  BY DEF StartWaitingTasks, StartWaitingNothing, QueueServiceAction, groupVars
<1>3. After(g) \in Seq(Sound) /\ KeepsCover
  BY <1>1, <1>2, LoopGoesOn, NothingServed DEF LoopKinds
<1>4. CASE StartWaitingTasks(g)
  <2>1. TaskTypes' /\ GroupTypes'
    BY <1>1, <1>4, SpawnGroupKeepsTypes DEF Typed, StartWaitingTasks
  <2>2. ResolverTypes' /\ ServiceTypes' /\ QueueTypes' /\ LoopTypes'
    BY <1>1, <1>4 DEF StartWaitingTasks, Typed, ResolverTypes, ServiceTypes, QueueTypes,
       LoopTypes, resolver, serviceVars
  <2>3. QED
    BY <1>2, <1>3, <1>4, <2>1, <2>2 DEF Kept, Typed, StartWaitingTasks
<1>5. CASE StartWaitingNothing(g)
  <2>1. GroupTypes' /\ statuses' \in StatusMap
    BY <1>1, <1>5, SetReadyKeepsTypes DEF Typed, ResolverTypes, StartWaitingNothing
  <2>2. ResolverTypes' /\ TaskTypes' /\ ServiceTypes' /\ QueueTypes' /\ LoopTypes'
    BY <1>1, <1>5, <2>1 DEF StartWaitingNothing, Typed, ResolverTypes, TaskTypes, ServiceTypes,
       QueueTypes, LoopTypes, taskVars, serviceVars
  <2>3. Loop("trigger", {g}) \in Seq(Plain)
    BY LoopsArePlain DEF LoopKinds
  <2>4. todo' \in Seq(Sound)
    BY <1>3, <1>5, <2>3, PutOnTheStack DEF StartWaitingNothing
  <2>5. QED
    BY <1>2, <1>3, <2>1, <2>2, <2>4 DEF Kept, Typed
<1>6. CASE QueueServiceAction(g)
  <2>1. QueueTypes'
    BY <1>1, <1>6 DEF QueueServiceAction, Typed, QueueTypes
  <2>2. ResolverTypes' /\ GroupTypes' /\ TaskTypes' /\ ServiceTypes' /\ LoopTypes'
    BY <1>1, <1>6 DEF QueueServiceAction, Typed, ResolverTypes, GroupTypes, TaskTypes,
       ServiceTypes, LoopTypes, resolver, groupVars, taskVars, serviceVars
  <2>3. QED
    BY <1>2, <1>3, <1>6, <2>1, <2>2 DEF Kept, Typed, QueueServiceAction
<1>7. QED
  BY <1>4, <1>5, <1>6

SkipsLeave ==
  /\ UNCHANGED <<services_started, pending_ready, suppress, taskVars, queued, serviceVars,
                 job, budget>>
  /\ \E S \in SUBSET Groups, own \in GroupStatus : SkipBehind(S, own)
  /\ todo' \in Seq(Sound)

LEMMA SkipsKeep ==
  ASSUME EngineAssumption, IInv, Skip \/ \E g \in Groups : Fail(g)
  PROVE  Kept
<1>1. Typed /\ todo \in Seq(Sound)
  BY TypesByComponent DEF IInv
<1>2. SkipsLeave
  <2>1. CASE Skip
    <3>1. Now \in Items /\ Now.do = "skip" /\ Tail(todo) \in Seq(Sound)
      BY <1>1, <2>1, StackFacts DEF Skip
    <3>2. Now.groups \in SUBSET Groups
      BY <3>1, KindsOfItems DEF LoopKinds
    <3>3. QED
      BY <2>1, <3>1, <3>2 DEF Skip, SkipsLeave, GroupStatus
  <2>2. ASSUME NEW g \in Groups, Fail(g) PROVE SkipsLeave
    <3>1. After(g) \in Seq(Sound)
      BY <1>1, <2>2, LoopGoesOn DEF Fail, LoopKinds
    <3>2. {g} \in SUBSET Groups /\ "Failed" \in GroupStatus
      BY DEF GroupStatus
    <3>3. QED
      BY <2>2, <3>1, <3>2 DEF Fail, SkipsLeave
  <2>3. QED
    BY <2>1, <2>2
<1>3. ResolverTypes' /\ GroupTypes'
  BY <1>1, <1>2, SkipKeepsTypes DEF Typed, SkipsLeave
<1>4. TaskTypes' /\ ServiceTypes' /\ QueueTypes' /\ LoopTypes'
  BY <1>1, <1>2 DEF SkipsLeave, Typed, TaskTypes, ServiceTypes, QueueTypes, LoopTypes,
     taskVars, serviceVars
<1>5. QED
  BY <1>2, <1>3, <1>4, NothingServed DEF Kept, Typed, SkipsLeave

(***************************************************************************)
(* cascade_service_restart.                                                *)
(***************************************************************************)
LEMMA CascadeKeeps ==
  ASSUME EngineAssumption, IInv, NEW g \in Groups,
         CascadeTasks(g) \/ CascadeServices(g) \/ CascadeNothing(g)
  PROVE  Kept
<1>1. Typed /\ todo \in Seq(Sound)
  BY TypesByComponent DEF IInv
<1>2. Doing("cascade") /\ g \in Now.groups
  BY DEF CascadeTasks, CascadeServices, CascadeNothing
<1>3. After(g) \in Seq(Sound)
  BY <1>1, <1>2, LoopGoesOn DEF LoopKinds
<1>4. CASE CascadeTasks(g)
  <2>1. TaskTypes' /\ GroupTypes'
    BY <1>1, <1>4, SpawnGroupKeepsTypes DEF Typed, CascadeTasks
  <2>2. ResolverTypes' /\ ServiceTypes' /\ QueueTypes' /\ LoopTypes'
    BY <1>1, <1>4 DEF CascadeTasks, Typed, ResolverTypes, ServiceTypes, QueueTypes,
       LoopTypes, resolver, serviceVars
  <2>3. QED
    BY <1>3, <1>4, <2>1, <2>2, NothingServed DEF Kept, Typed, CascadeTasks
<1>5. CASE CascadeServices(g)
  <2>1. ServiceTypes'
    BY <1>1, <1>5 DEF CascadeServices, Typed, ServiceTypes
  <2>2. ResolverTypes' /\ GroupTypes' /\ TaskTypes' /\ QueueTypes' /\ LoopTypes'
    BY <1>1, <1>5 DEF CascadeServices, Typed, ResolverTypes, GroupTypes, TaskTypes, QueueTypes,
       LoopTypes, resolver, groupVars, taskVars
  <2>3. Loop("cascade", Dependents(g)) \in Seq(Plain)
    BY LoopsArePlain DEF LoopKinds, Dependents
  <2>4. todo' \in Seq(Sound)
    BY <1>3, <1>5, <2>3, PutOnTheStack DEF CascadeServices
  <2>5. KeepsCover
    BY <1>5 DEF CascadeServices, KeepsCover, Covered
  <2>6. QED
    BY <1>5, <2>1, <2>2, <2>4, <2>5 DEF Kept, Typed, CascadeServices, groupVars
<1>6. CASE CascadeNothing(g)
  BY <1>3, <1>6, OnlyTheStackMoves DEF CascadeNothing
<1>7. QED
  BY <1>4, <1>5, <1>6

-----------------------------------------------------------------------------
(***************************************************************************)
(* process_task_completions and what it queued.                            *)
(***************************************************************************)
DrainItems == [do : {"drain"}, failed : SUBSET Groups, actions : Seq(Actions)]

LEMMA DrainFacts ==
  ASSUME todo \in Seq(Sound), Doing("drain")
  PROVE  /\ Now \in DrainItems /\ <<Now>> \o Tail(todo) \in Seq(Sound)
         /\ Tail(todo) \in Seq(Sound)
<1>1. Now \in Sound /\ Now \in Items /\ Now.do = "drain" /\ Tail(todo) \in Seq(Sound)
  BY StackFacts
<1>2. <<Now>> \in Seq(Sound)
  BY <1>1, Single
<1>3. QED
  BY <1>1, <1>2, KindsOfItems, Concatenated DEF DrainItems

LEMMA DrainedIsSound ==
  ASSUME NEW x \in DrainItems, todo \in Seq(Sound), Doing("drain")
  PROVE  <<x>> \o Tail(todo) \in Seq(Sound)
<1>1. x \in Plain
  BY DEF DrainItems, Plain, Items
<1>2. <<x>> \in Seq(Plain)
  BY <1>1, Single
<1>3. QED
  BY <1>2, DrainFacts, PutOnTheStack

LEMMA AppendedActions ==
  ASSUME NEW x \in DrainItems, NEW act \in Actions
  PROVE  [x EXCEPT !.actions = Append(@, act)] \in DrainItems
<1>1. x.actions \in Seq(Actions)
  BY DEF DrainItems
<1>2. Append(x.actions, act) \in Seq(Actions)
  BY <1>1
<1>3. QED
  BY <1>2 DEF DrainItems

LEMMA DrainTaskKeeps ==
  ASSUME EngineAssumption, IInv, NEW t \in Tasks, DrainTask(t)
  PROVE  Kept
<1> DEFINE g     == GroupOfTask(t)
           last  == \A u \in TasksOf(g) \ {t} : ~InFlight(u)
           broke == FailedAfter(t) \cap TasksOf(g) # {}
           act   == [group |-> g, start |-> ~services_started[g],
                     cascade |-> g \notin suppress]
<1>1. Typed /\ todo \in Seq(Sound)
  BY TypesByComponent DEF IInv
<1>2. /\ Doing("drain")
      /\ status' = IF last THEN [status EXCEPT ![g] = IF broke THEN "Failed" ELSE "Ready"]
                   ELSE status
      /\ suppress' = IF last THEN suppress \ {g} ELSE suppress
      /\ todo' = CASE last /\ broke  -> <<[Now EXCEPT !.failed = @ \cup {g}]>> \o Tail(todo)
                   [] last /\ ~broke -> <<[Now EXCEPT !.actions = Append(@, act)]>> \o Tail(todo)
                   [] OTHER          -> todo
      /\ pending' = pending \ {t}
      /\ run' = [run EXCEPT ![t] = IF t \in pending /\ t \notin unexpandable
                                   THEN "executing" ELSE "idle"]
      /\ failed' = IF t \in pending /\ t \notin unexpandable
                   THEN failed \ {t} ELSE FailedAfter(t)
      /\ UNCHANGED <<resolver, services_started, pending_ready, unexpandable, queued,
                     serviceVars, job, budget>>
  BY DEF DrainTask
<1>3. g \in Groups
  <2>1. \E h \in Groups : t \in TasksOf(h)
    BY DEF Tasks, TasksOf
  <2>2. QED
    BY <2>1 DEF GroupOfTask
<1>4. act \in Actions
  <2>1. services_started[g] \in BOOLEAN
    BY <1>1, <1>3 DEF Typed, GroupTypes
  <2>2. QED
    BY <1>3, <2>1 DEF Actions
<1> HIDE DEF g, last, broke, act
<1>5. Now \in DrainItems
  BY <1>1, <1>2, DrainFacts
<1>6. todo' \in Seq(Sound)
  <2>1. [Now EXCEPT !.failed = @ \cup {g}] \in DrainItems
    BY <1>3, <1>5 DEF DrainItems
  <2>2. [Now EXCEPT !.actions = Append(@, act)] \in DrainItems
    BY <1>4, <1>5, AppendedActions
  <2>3. /\ <<[Now EXCEPT !.failed = @ \cup {g}]>> \o Tail(todo) \in Seq(Sound)
        /\ <<[Now EXCEPT !.actions = Append(@, act)]>> \o Tail(todo) \in Seq(Sound)
    BY <1>1, <1>2, <2>1, <2>2, DrainedIsSound
  <2>4. CASE last /\ broke
    BY <1>2, <2>3, <2>4
  <2>5. CASE last /\ ~broke
    BY <1>2, <2>3, <2>5
  <2>6. CASE ~last
    BY <1>1, <1>2, <2>6
  <2>7. QED
    BY <2>4, <2>5, <2>6
<1>7. TaskTypes'
  <2>1. FailedAfter(t) \subseteq Tasks
    BY <1>1 DEF Typed, TaskTypes, FailedAfter
  <2>2. QED
    BY <1>1, <1>2, <2>1 DEF Typed, TaskTypes
<1>8. GroupTypes'
  BY <1>1, <1>2, <1>3 DEF Typed, GroupTypes, StatusMap, GroupStatus
<1>9. ResolverTypes' /\ ServiceTypes' /\ QueueTypes' /\ LoopTypes'
  BY <1>1, <1>2 DEF Typed, ResolverTypes, ServiceTypes, QueueTypes, LoopTypes, resolver,
     serviceVars
<1>10. QED
  BY <1>2, <1>6, <1>7, <1>8, <1>9, NothingServed DEF Kept, Typed

LEMMA DrainQueuedKeeps ==
  ASSUME EngineAssumption, IInv, NEW g \in Groups, DrainQueued(g)
  PROVE  Kept
<1>1. Typed /\ todo \in Seq(Sound)
  BY TypesByComponent DEF IInv
<1>2. Doing("drain") /\ UNCHANGED <<resolver, groupVars, taskVars, serviceVars, job, budget>>
  BY DEF DrainQueued
<1>3. PICK kind \in {"start", "restart"} :
        /\ queued[g][kind] > 0
        /\ queued' = [queued EXCEPT ![g][kind] = @ - 1]
        /\ todo' = <<[Now EXCEPT !.actions =
                        Append(@, [group |-> g, start |-> kind = "start", cascade |-> TRUE])]>>
                     \o Tail(todo)
  BY DEF DrainQueued
<1>4. [group |-> g, start |-> kind = "start", cascade |-> TRUE] \in Actions
  BY DEF Actions
<1>5. todo' \in Seq(Sound)
  <2>1. Now \in DrainItems
    BY <1>1, <1>2, DrainFacts
  <2>2. QED
    BY <1>1, <1>2, <1>3, <1>4, <2>1, AppendedActions, DrainedIsSound
<1>6. QueueTypes'
  <2> DEFINE q == queued[g]
             r == [q EXCEPT ![kind] = q[kind] - 1]
  <2>1. q \in [start : Nat, restart : Nat] /\ q[kind] > 0
    BY <1>1, <1>3 DEF Typed, QueueTypes
  <2>2. queued' = [queued EXCEPT ![g] = r]
    BY <1>1, <1>3 DEF Typed, QueueTypes
  <2> HIDE DEF q
  <2>3. r \in [start : Nat, restart : Nat]
    <3>1. CASE kind = "start"
      <4>1. q.start > 0 /\ q.start \in Nat /\ q.start - 1 \in Nat
        BY <2>1, <3>1
      <4>2. r = [q EXCEPT !.start = q.start - 1]
        BY <3>1
      <4>3. QED
        BY <2>1, <4>1, <4>2
    <3>2. CASE kind = "restart"
      <4>1. q.restart > 0 /\ q.restart \in Nat /\ q.restart - 1 \in Nat
        BY <2>1, <3>2
      <4>2. r = [q EXCEPT !.restart = q.restart - 1]
        BY <3>2
      <4>3. QED
        BY <2>1, <4>1, <4>2
    <3>3. QED
      BY <1>3, <3>1, <3>2
  <2> HIDE DEF r
  <2>4. QED
    BY <1>1, <2>2, <2>3 DEF Typed, QueueTypes
<1>7. ResolverTypes' /\ GroupTypes' /\ TaskTypes' /\ ServiceTypes' /\ LoopTypes'
  BY <1>1, <1>2 DEF Typed, ResolverTypes, GroupTypes, TaskTypes, ServiceTypes, LoopTypes,
     resolver, groupVars, taskVars, serviceVars
<1>8. QED
  BY <1>2, <1>5, <1>6, <1>7, NothingServed DEF Kept, Typed, groupVars

LEMMA DrainEndsKeeps ==
  ASSUME EngineAssumption, IInv, DrainEnds
  PROVE  Kept
<1>1. todo \in Seq(Sound) /\ Doing("drain")
  BY DEF IInv, DrainEnds
<1>2. Now \in DrainItems /\ Tail(todo) \in Seq(Sound)
  BY <1>1, DrainFacts
<1> DEFINE acts == [i \in DOMAIN Now.actions |-> [do |-> "act", action |-> Now.actions[i]]]
<1>3. Now.failed \in SUBSET Groups /\ Now.actions \in Seq(Actions)
  BY <1>2 DEF DrainItems
<1>4. Loop("fail", Now.failed) \in Seq(Plain) /\ acts \in Seq(Plain)
  BY <1>3, LoopsArePlain, ActionsArePlain DEF LoopKinds
<1>5. todo' = Loop("fail", Now.failed) \o acts \o Tail(todo)
  BY DEF DrainEnds
<1> HIDE DEF acts
<1>6. todo' \in Seq(Sound)
  BY <1>2, <1>4, <1>5, Concatenated, PutOnTheStack
<1>7. QED
  BY <1>6, OnlyTheStackMoves DEF DrainEnds

LEMMA ActKeeps ==
  ASSUME EngineAssumption, IInv, ActServices \/ ActNothing
  PROVE  Kept
<1>1. todo \in Seq(Sound) /\ Doing("act")
  BY DEF IInv, ActServices, ActNothing
<1>2. Now \in [do : {"act"}, action : Actions] /\ Tail(todo) \in Seq(Sound)
  BY <1>1, StackFacts, KindsOfItems
<1>3. Now.action \in Actions
  BY <1>2
<1>4. Now.action.group \in Groups /\ Now.action.start \in BOOLEAN /\ Now.action.cascade \in BOOLEAN
  BY <1>3 DEF Actions
<1>5. CASE ActServices
  <2>1. Serve(Now.action.group, Now.action.start, "Later", Now.action.cascade) \in Seq(Sound)
    BY <1>4, ServesAreSound
  <2>2. QED
    BY <1>2, <1>5, <2>1, Concatenated, OnlyTheStackMoves DEF ActServices
<1>6. CASE ActNothing
  <2> DEFINE g == Now.action.group
  <2>1. Propagate(g, Phase(g, services_started[g]), Now.action.cascade) \in Seq(Plain)
    BY <1>4, PropagationIsPlain
  <2>2. todo' \in Seq(Sound)
    BY <1>2, <1>6, <2>1, PutOnTheStack DEF ActNothing
  <2>3. QED
    BY <1>6, <2>2, OnlyTheStackMoves DEF ActNothing
<1>7. QED
  BY <1>5, <1>6

(***************************************************************************)
(* handle_changes.                                                         *)
(***************************************************************************)
LEMMA WatchKeeps ==
  ASSUME EngineAssumption, IInv, NoChange \/ \E affected \in SUBSET Groups : Change(affected)
  PROVE  Kept
<1>1. Typed /\ todo \in Seq(Sound)
  BY TypesByComponent DEF IInv
<1>2. Tail(todo) \in Seq(Sound)
  BY <1>1, StackFacts DEF NoChange, Change
<1>3. CASE NoChange
  BY <1>2, <1>3, OnlyTheStackMoves DEF NoChange
<1>4. ASSUME NEW affected \in SUBSET Groups, Change(affected) PROVE Kept
  <2>1. Roots(affected) \in SUBSET Groups
    BY DEF Roots
  <2>2. Exec(Roots(affected), TRUE, TRUE) \in Seq(Plain)
    BY <2>1, ExecsArePlain
  <2>3. todo' \in Seq(Sound)
    BY <1>2, <1>4, <2>2, PutOnTheStack DEF Change
  <2>4. LoopTypes'
    BY <1>1, <1>4 DEF Change, Typed, LoopTypes
  <2>5. ResolverTypes' /\ GroupTypes' /\ TaskTypes' /\ ServiceTypes' /\ QueueTypes'
    BY <1>1, <1>4 DEF Change, Typed, ResolverTypes, GroupTypes, TaskTypes, ServiceTypes,
       QueueTypes, resolver, groupVars, taskVars, serviceVars
  <2>6. QED
    BY <1>4, <2>3, <2>4, <2>5, NothingServed DEF Kept, Typed, Change, groupVars
<1>5. QED
  BY <1>3, <1>4

-----------------------------------------------------------------------------
(***************************************************************************)
(* check_services and settle_group_readiness.                              *)
(***************************************************************************)
SuperviseItems ==
  [do : {"supervise"}, group : Groups, left : SUBSET AllServices, at : SUBSET AllServices]

LEMMA SuperviseFacts ==
  ASSUME EngineAssumption, todo \in Seq(Sound), Doing("supervise")
  PROVE  /\ Now.group \in Groups /\ Tail(todo) \in Seq(Sound)
         /\ \A s \in AllServices :
              /\ Looked(s) \in Seq(Sound)
              /\ <<[Now EXCEPT !.at = {s}]>> \o Tail(todo) \in Seq(Sound)
<1>1. Now \in SuperviseItems /\ Tail(todo) \in Seq(Sound)
  BY StackFacts, KindsOfItems DEF SuperviseItems
<1>2. ASSUME NEW x \in SuperviseItems PROVE <<x>> \o Tail(todo) \in Seq(Sound)
  <2>1. x \in Plain
    BY DEF SuperviseItems, Plain, Items
  <2>2. <<x>> \in Seq(Plain)
    BY <2>1, Single
  <2>3. QED
    BY <1>1, <2>2, PutOnTheStack
<1>3. ASSUME NEW s \in AllServices
      PROVE  /\ [Now EXCEPT !.left = @ \ {s}, !.at = {}] \in SuperviseItems
             /\ [Now EXCEPT !.at = {s}] \in SuperviseItems
  BY <1>1 DEF SuperviseItems
<1>4. Now.group \in Groups
  BY <1>1 DEF SuperviseItems
<1>5. QED
  BY <1>1, <1>2, <1>3, <1>4 DEF Looked

LEMMA CheckKeeps ==
  ASSUME EngineAssumption, IInv,
         \/ \E g \in Groups : CheckGroup(g)
         \/ RespawnFails \/ GroupLooked
         \/ \E s \in AllServices : RespawnDue(s) \/ RespawnLater(s) \/ NothingToDo(s)
  PROVE  Kept
<1>1. todo \in Seq(Sound)
  BY DEF IInv
<1>2. ASSUME NEW g \in Groups, CheckGroup(g) PROVE Kept
  <2>1. After(g) \in Seq(Sound)
    BY <1>1, <1>2, LoopGoesOn DEF CheckGroup, LoopKinds
  <2>2. Supervise(g) \in Seq(Plain)
    BY SinglesArePlain
  <2>3. QED
    BY <1>2, <2>1, <2>2, PutOnTheStack, OnlyTheStackMoves DEF CheckGroup
<1>3. CASE RespawnFails
  <2>1. todo' \in Seq(Sound)
    BY <1>3 DEF RespawnFails
  <2>2. QED
    BY <1>3, <2>1, OnlyTheStackMoves DEF RespawnFails
<1>4. CASE GroupLooked
  <2> DEFINE g  == Now.group
             ok == \A s \in Services[g] : service_status[s] # "Failed"
  <2>1. Now.group \in Groups /\ Tail(todo) \in Seq(Sound)
    BY <1>1, <1>4, SuperviseFacts DEF GroupLooked
  <2>2. ok \in BOOLEAN
    OBVIOUS
  <2> HIDE DEF ok
  <2>3. Settle(g, ok) \in Seq(Plain)
    BY <2>1, <2>2, SinglesArePlain
  <2>4. Tail(todo) \o Settle(g, ok) \in Seq(Sound) /\ Tail(todo) \o <<>> \in Seq(Sound)
    BY <2>1, <2>3, PutOnTheStack, Concatenated
  <2>5. todo' = Tail(todo) \o (IF pending_ready[g] # None /\ ~AwaitsReadiness(g)
                               THEN Settle(g, ok) ELSE <<>>)
    BY <1>4 DEF GroupLooked, ok
  <2>6. todo' \in Seq(Sound)
    BY <2>4, <2>5
  <2>7. QED
    BY <1>4, <2>6, OnlyTheStackMoves DEF GroupLooked
<1>5. ASSUME NEW s \in AllServices, RespawnDue(s) \/ RespawnLater(s) \/ NothingToDo(s)
      PROVE  Kept
  <2>1. todo' \in Seq(Sound)
    BY <1>1, <1>5, SuperviseFacts DEF RespawnDue, RespawnLater, NothingToDo, Looking
  <2>2. UNCHANGED <<resolver, groupVars, taskVars, queued, serviceVars, job, budget>>
    BY <1>5 DEF RespawnDue, RespawnLater, NothingToDo
  <2>3. QED
    BY <2>1, <2>2, OnlyTheStackMoves
<1>6. QED
  BY <1>2, <1>3, <1>4, <1>5

(***************************************************************************)
(* A slot is cleared for a process started, or for a command that does not *)
(* expand, and filled for a process that ended.                            *)
(***************************************************************************)
LEMMA SuperviseKeeps ==
  ASSUME EngineAssumption, IInv, NEW s \in AllServices,
         \/ Respawn(s) \/ RespawnDropped(s) \/ NoticeExit(s)
         \/ \E passed \in BOOLEAN : ReadinessAnswers(s, passed)
  PROVE  Kept
<1>1. Typed /\ todo \in Seq(Sound)
  BY TypesByComponent DEF IInv
<1>2. /\ Doing("supervise") /\ todo' = Looked(s)
      /\ UNCHANGED <<resolver, groupVars, taskVars, queued, job, budget>>
  BY DEF Respawn, RespawnDropped, NoticeExit, ReadinessAnswers, Looking
<1>3. todo' \in Seq(Sound)
  BY <1>1, <1>2, SuperviseFacts
<1>4. ServiceTypes' /\ KeepsCover
  <2>1. CASE Respawn(s)
    <3>1. /\ proc' \in [AllServices -> {"none", "alive", "dead"}] /\ proc'[s] # "none"
          /\ \A r \in AllServices \ {s} : proc'[r] = proc[r]
          /\ window' \subseteq HasReadyCheck
          /\ service_status' \in
               [AllServices -> {"Pending", "Starting", "Running", "Failed", "Backoff"}]
      BY <1>1, <2>1, StartKeepsTypes DEF Respawn, Typed
    <3>2. slot' = slot \ {s}
      BY <2>1 DEF Respawn
    <3>3. ServiceTypes'
      BY <1>1, <3>1, <3>2 DEF Typed, ServiceTypes
    <3>4. KeepsCover
      BY <3>1, <3>2 DEF KeepsCover, Covered
    <3>5. QED
      BY <3>3, <3>4
  <2>2. CASE NoticeExit(s)
    <3>1. ServiceTypes'
      BY <1>1, <2>2 DEF NoticeExit, Typed, ServiceTypes
    <3>2. KeepsCover
      BY <1>1, <2>2 DEF NoticeExit, KeepsCover, Covered, Typed, ServiceTypes
    <3>3. QED
      BY <3>1, <3>2
  <2>3. ASSUME NEW passed \in BOOLEAN, ReadinessAnswers(s, passed)
        PROVE  ServiceTypes' /\ KeepsCover
    <3>1. ServiceTypes'
      BY <1>1, <2>3 DEF ReadinessAnswers, Typed, ServiceTypes
    <3>2. KeepsCover
      BY <2>3 DEF ReadinessAnswers, KeepsCover, Covered
    <3>3. QED
      BY <3>1, <3>2
  <2>4. CASE RespawnDropped(s)
    <3>1. s \in MayNotExpand
      BY <1>1, <2>4 DEF RespawnDropped, Typed, TaskTypes
    <3>2. ServiceTypes'
      BY <1>1, <2>4 DEF RespawnDropped, Typed, ServiceTypes
    <3>3. KeepsCover
      BY <2>4, <3>1 DEF RespawnDropped, KeepsCover, Covered
    <3>4. QED
      BY <3>2, <3>3
  <2>5. QED
    BY <2>1, <2>2, <2>3, <2>4
<1>5. ResolverTypes' /\ GroupTypes' /\ TaskTypes' /\ QueueTypes' /\ LoopTypes'
  BY <1>1, <1>2 DEF Typed, ResolverTypes, GroupTypes, TaskTypes, QueueTypes, LoopTypes,
     resolver, groupVars, taskVars
<1>6. QED
  BY <1>2, <1>3, <1>4, <1>5 DEF Kept, Typed, groupVars

LEMMA SettleKeeps ==
  ASSUME EngineAssumption, IInv, SettleReady \/ SettleFailed
  PROVE  Kept
<1>1. Typed /\ todo \in Seq(Sound)
  BY TypesByComponent DEF IInv
<1>2. /\ Doing("settle")
      /\ UNCHANGED <<services_started, suppress, taskVars, queued, serviceVars, job, budget>>
      /\ pending_ready' = [pending_ready EXCEPT ![Now.group] = None]
  BY DEF SettleReady, SettleFailed
<1>3. Now.group \in Groups /\ Tail(todo) \in Seq(Sound)
  <2>1. Now \in [do : {"settle"}, group : Groups, ok : BOOLEAN]
    BY <1>1, <1>2, StackFacts, KindsOfItems
  <2>2. QED
    BY <1>1, <1>2, <2>1, StackFacts
<1> DEFINE g == Now.group
<1>4. pending_ready' \in [Groups -> [phase : Phases, cascade : BOOLEAN] \cup {None}]
  BY <1>1, <1>2, <1>3 DEF Typed, GroupTypes
<1>5. ResolverTypes' /\ status' \in StatusMap /\ todo' \in Seq(Sound)
  <2>1. CASE SettleReady
    <3>1. Propagate(g, pending_ready[g].phase, pending_ready[g].cascade) \o Tail(todo)
            \in Seq(Sound)
      BY <1>3, PropagationIsPlain, PutOnTheStack
    <3>2. todo' \in Seq(Sound)
      BY <1>3, <2>1, <3>1 DEF SettleReady
    <3>3. status' \in StatusMap
      BY <1>1, <1>3, <2>1 DEF SettleReady, Typed, GroupTypes, StatusMap, GroupStatus
    <3>4. ResolverTypes'
      BY <1>1, <2>1 DEF SettleReady, Typed, ResolverTypes, resolver
    <3>5. QED
      BY <3>2, <3>3, <3>4
  <2>2. CASE SettleFailed
    <3>1. todo' \in Seq(Sound)
      BY <1>3, <2>2 DEF SettleFailed
    <3>2. CASE pending_ready[g] = None \/ status[g] = "Ready"
      <4>1. UNCHANGED <<resolver, status>>
        BY <2>2, <3>2 DEF SettleFailed
      <4>2. QED
        BY <1>1, <3>1, <4>1 DEF Typed, ResolverTypes, GroupTypes, resolver
    <3>3. CASE ~(pending_ready[g] = None \/ status[g] = "Ready")
      <4>1. SkipBehind({g}, "Failed")
        BY <2>2, <3>3 DEF SettleFailed
      <4>2. waiting' \in WaitingMap
        BY <1>1, <4>1, StopWaitingKeepsTypes
           DEF SkipBehind, WaitingAfterSkip, Typed, ResolverTypes
      <4>3. statuses' \in StatusMap /\ status' \in StatusMap
        BY <1>1, <4>1 DEF SkipBehind, StatusAfterSkip, Typed, ResolverTypes, GroupTypes,
           StatusMap, GroupStatus
      <4>4. QED
        BY <3>1, <4>2, <4>3 DEF ResolverTypes
    <3>4. QED
      BY <3>2, <3>3
  <2>3. QED
    BY <2>1, <2>2
<1>6. GroupTypes'
  BY <1>1, <1>2, <1>4, <1>5 DEF Typed, GroupTypes
<1>7. TaskTypes' /\ ServiceTypes' /\ QueueTypes' /\ LoopTypes'
  BY <1>1, <1>2 DEF Typed, TaskTypes, ServiceTypes, QueueTypes, LoopTypes, taskVars, serviceVars
<1>8. QED
  BY <1>2, <1>5, <1>6, <1>7, NothingServed DEF Kept, Typed

-----------------------------------------------------------------------------
(***************************************************************************)
(* The requests.  A reload takes the cover of services away, and says of   *)
(* their groups that they are not started.                                 *)
(***************************************************************************)
LEMMA RequestKeepsLoop ==
  ASSUME IInv, NEW kind, TakeRequest(kind)
  PROVE  LoopTypes'
<1>1. LoopTypes
  BY TypesByComponent DEF IInv, Typed
<1>2. QED
  BY <1>1 DEF TakeRequest, LoopTypes

LEMMA PlainRequestsKeep ==
  ASSUME EngineAssumption, IInv,
         \/ StatusRequest \/ RestartAll
         \/ \E g \in Groups : RestartGroup(g)
         \/ \E t \in Tasks : RestartTask(t)
         \/ \E s \in AllServices : RestartService(s)
  PROVE  Kept
<1>1. Typed /\ todo \in Seq(Sound) /\ <<>> \in Seq(Sound)
  BY TypesByComponent DEF IInv
<1>2. LoopTypes'
  BY RequestKeepsLoop DEF StatusRequest, RestartAll, RestartGroup, RestartTask, RestartService
<1>3. CASE StatusRequest \/ \E g \in Groups : RestartGroup(g)
  <2>1. todo' \in Seq(Sound)
    <3>1. \A g \in Groups : Exec({g}, FALSE, TRUE) \in Seq(Sound)
      BY ExecsArePlain, PlainIsSound
    <3>2. QED
      BY <1>1, <1>3, <3>1 DEF StatusRequest, RestartGroup
  <2>2. UNCHANGED <<resolver, groupVars, taskVars, queued, serviceVars>>
    BY <1>3 DEF StatusRequest, RestartGroup
  <2>3. ResolverTypes' /\ GroupTypes' /\ TaskTypes' /\ ServiceTypes' /\ QueueTypes'
    BY <1>1, <2>2 DEF Typed, ResolverTypes, GroupTypes, TaskTypes, ServiceTypes, QueueTypes,
       resolver, groupVars, taskVars, serviceVars
  <2>4. QED
    BY <1>2, <2>1, <2>2, <2>3, NothingServed DEF Kept, Typed, groupVars
<1>4. CASE RestartAll
  <2>1. [g \in Groups |-> "Pending"] \in StatusMap
    BY DEF StatusMap, GroupStatus
  <2>2. ResolverTypes' /\ GroupTypes' /\ todo' \in Seq(Sound)
    BY <1>1, <1>4, <2>1, WaveKeepsTypes DEF RestartAll, Typed
  <2>3. TaskTypes' /\ ServiceTypes' /\ QueueTypes'
    BY <1>1, <1>4 DEF RestartAll, Typed, TaskTypes, ServiceTypes, QueueTypes, taskVars,
       serviceVars
  <2>4. QED
    BY <1>2, <1>4, <2>2, <2>3, NothingServed DEF Kept, Typed, RestartAll
<1>5. ASSUME NEW t \in Tasks, RestartTask(t) PROVE Kept
  <2>1. TaskTypes'
    <3>1. {t} \ unexpandable \in SUBSET Tasks
      OBVIOUS
    <3>2. QED
      BY <1>1, <1>5, <3>1, SpawnKeepsTypes DEF RestartTask, Typed
  <2>2. ResolverTypes' /\ GroupTypes' /\ ServiceTypes' /\ QueueTypes'
    BY <1>1, <1>5 DEF RestartTask, Typed, ResolverTypes, GroupTypes, ServiceTypes, QueueTypes,
       resolver, groupVars, serviceVars
  <2>3. QED
    BY <1>1, <1>2, <1>5, <2>1, <2>2, NothingServed DEF Kept, Typed, RestartTask, groupVars
<1>6. ASSUME NEW s \in AllServices, RestartService(s) PROVE Kept
  <2>1. ServiceTypes'
    <3>1. proc[s] \in {"none", "alive", "dead"}
      BY <1>1 DEF Typed, ServiceTypes
    <3>2. window' \subseteq window
      BY <1>6, <3>1 DEF RestartService
    <3>3. QED
      BY <1>1, <1>6, <3>2 DEF RestartService, Typed, ServiceTypes
  <2>2. ResolverTypes' /\ GroupTypes' /\ TaskTypes' /\ QueueTypes'
    BY <1>1, <1>6 DEF RestartService, Typed, ResolverTypes, GroupTypes, TaskTypes, QueueTypes,
       resolver, groupVars, taskVars
  <2>3. Dependents(GroupOfService(s)) \in SUBSET Groups
    BY DEF Dependents
  <2>4. todo' \in Seq(Sound)
    <3>1. Loop("cascade", Dependents(GroupOfService(s))) \in Seq(Sound)
      BY <2>3, LoopsArePlain, PlainIsSound DEF LoopKinds
    <3>2. QED
      BY <1>1, <1>6, <3>1 DEF RestartService
  <2>5. KeepsCover
    BY <1>6 DEF RestartService, KeepsCover, Covered
  <2>6. QED
    BY <1>2, <1>6, <2>1, <2>2, <2>4, <2>5 DEF Kept, Typed, RestartService, groupVars
<1>7. QED
  BY <1>3, <1>4, <1>5, <1>6

LEMMA ReloadKeeps ==
  ASSUME EngineAssumption, IInv, NEW M \in SUBSET Groups, ReloadConfig(M)
  PROVE  IInv'
<1> DEFINE forget == UNION {Services[g] : g \in M}
<1>1. Typed
  BY TypesByComponent DEF IInv
<1>2. /\ waiting' = [g \in Groups |-> {}]
      /\ statuses' = [g \in Groups |-> "Pending"]
      /\ status' = [g \in Groups |-> IF g \in M THEN "Pending" ELSE status[g]]
      /\ services_started' = [g \in Groups |-> g \notin M /\ services_started[g]]
      /\ pending_ready' = [g \in Groups |-> IF g \in M THEN None ELSE pending_ready[g]]
      /\ suppress' = suppress \cup M
      /\ failed' = {t \in failed : GroupOfTask(t) \notin M}
      /\ unexpandable' \in SUBSET MayNotExpand
      /\ proc' = [s \in AllServices |-> IF s \in forget THEN "none" ELSE proc[s]]
      /\ window' = window \ forget
      /\ slot' = slot \ forget
      /\ service_status' =
           [s \in AllServices |-> IF s \in forget THEN "Pending" ELSE service_status[s]]
      /\ todo' = Exec(M, FALSE, FALSE)
      /\ UNCHANGED <<run, pending, queued>>
  BY DEF ReloadConfig
<1> HIDE DEF forget
<1>3. todo' \in Seq(Plain)
  BY <1>2, ExecsArePlain
<1>4. LoopTypes'
  BY RequestKeepsLoop DEF ReloadConfig
<1>5. ResolverTypes'
  BY <1>2 DEF ResolverTypes, WaitingMap, StatusMap, GroupStatus
<1>6. services_started' \in [Groups -> BOOLEAN]
  <2>1. \A g \in Groups : (g \notin M /\ services_started[g]) \in BOOLEAN
    OBVIOUS
  <2>2. QED
    BY <1>2, <2>1
<1>7. GroupTypes'
  <2>1. status' \in StatusMap
    BY <1>1, <1>2 DEF Typed, GroupTypes, StatusMap, GroupStatus
  <2>2. pending_ready' \in [Groups -> [phase : Phases, cascade : BOOLEAN] \cup {None}]
    BY <1>1, <1>2 DEF Typed, GroupTypes
  <2>3. suppress' \subseteq Groups
    BY <1>1, <1>2 DEF Typed, GroupTypes
  <2>4. QED
    BY <1>6, <2>1, <2>2, <2>3 DEF GroupTypes
<1>8. TaskTypes' /\ ServiceTypes' /\ QueueTypes'
  BY <1>1, <1>2 DEF Typed, TaskTypes, ServiceTypes, QueueTypes
<1>9. TypeOK'
  <2>1. todo' \in Seq(Items)
    BY <1>3, PlainIsSound, SoundAreItems
  <2>2. QED
    BY <1>4, <1>5, <1>7, <1>8, <2>1
       DEF TypeOK, ResolverTypes, GroupTypes, TaskTypes, ServiceTypes, QueueTypes, LoopTypes
<1>10. todo' \in Seq(Sound')
  <2>1. Plain \subseteq Sound'
    BY DEF Plain, Sound
  <2>2. QED
    BY <1>3, <2>1, SeqWidens
<1>11. ServicesStaySupervised'
  <2>1. SUFFICES ASSUME NEW g \in Groups, NEW s \in Services[g] \ MayNotExpand,
                        services_started'[g], proc'[s] = "none"
                 PROVE  s \in slot'
    BY DEF ServicesStaySupervised
  <2>2. g \notin M /\ services_started[g]
    BY <1>2, <2>1
  <2>3. s \notin forget /\ s \in AllServices
    BY <2>2 DEF forget, EngineAssumption, AllServices
  <2>4. proc[s] = "none"
    BY <1>2, <2>1, <2>3
  <2>5. s \in slot
    BY <2>2, <2>4 DEF IInv, ServicesStaySupervised
  <2>6. QED
    BY <1>2, <2>3, <2>5
<1>12. QED
  BY <1>9, <1>10, <1>11 DEF IInv

(***************************************************************************)
(* What the processes do meanwhile.                                        *)
(***************************************************************************)
LEMMA WorldKeeps ==
  ASSUME EngineAssumption, IInv, World
  PROVE  Kept
<1>1. Typed /\ todo \in Seq(Sound)
  BY TypesByComponent DEF IInv
<1>2. ASSUME NEW t \in Tasks, NEW ok \in BOOLEAN, TaskEnds(t, ok) PROVE Kept
  <2>1. TaskTypes'
    BY <1>1, <1>2 DEF TaskEnds, Typed, TaskTypes
  <2>2. LoopTypes'
    BY <1>1, <1>2 DEF TaskEnds, Typed, LoopTypes
  <2>3. ResolverTypes' /\ GroupTypes' /\ ServiceTypes' /\ QueueTypes'
    BY <1>1, <1>2 DEF TaskEnds, Typed, ResolverTypes, GroupTypes, ServiceTypes, QueueTypes,
       resolver, groupVars, serviceVars
  <2>4. QED
    BY <1>1, <1>2, <2>1, <2>2, <2>3, NothingServed DEF Kept, Typed, TaskEnds, groupVars
<1>3. ASSUME NEW s \in AllServices, ServiceExits(s) PROVE Kept
  <2>1. ServiceTypes'
    BY <1>1, <1>3 DEF ServiceExits, Typed, ServiceTypes
  <2>2. LoopTypes'
    BY <1>1, <1>3 DEF ServiceExits, Typed, LoopTypes
  <2>3. ResolverTypes' /\ GroupTypes' /\ TaskTypes' /\ QueueTypes'
    BY <1>1, <1>3 DEF ServiceExits, Typed, ResolverTypes, GroupTypes, TaskTypes, QueueTypes,
       resolver, groupVars, taskVars
  <2>4. KeepsCover
    BY <1>1, <1>3 DEF ServiceExits, KeepsCover, Covered, Typed, ServiceTypes
  <2>5. QED
    BY <1>1, <1>3, <2>1, <2>2, <2>3, <2>4 DEF Kept, Typed, ServiceExits, groupVars
<1>4. QED
  BY <1>2, <1>3 DEF World

-----------------------------------------------------------------------------
LEMMA Initially ==
  ASSUME EngineAssumption, Init
  PROVE  IInv
<1>1. TypeOK
  <2>1. ResolverTypes
    BY DEF Init, ResolverTypes, WaitingMap, StatusMap, GroupStatus
  <2>2. GroupTypes
    BY DEF Init, GroupTypes, StatusMap, GroupStatus
  <2>3. TaskTypes /\ QueueTypes
    BY DEF Init, TaskTypes, QueueTypes
  <2>4. ServiceTypes
    BY DEF Init, ServiceTypes
  <2>5. LoopTypes
    BY DEF Init, LoopTypes, EngineAssumption
  <2>6. todo \in Seq(Items)
    BY DEF Init
  <2>7. QED
    BY <2>1, <2>2, <2>3, <2>4, <2>5, <2>6, TypesByComponent DEF Typed
<1>2. todo \in Seq(Sound)
  BY DEF Init
<1>3. ServicesStaySupervised
  BY DEF Init, ServicesStaySupervised
<1>4. QED
  BY <1>1, <1>2, <1>3 DEF IInv

LEMMA EngineStepKeeps ==
  ASSUME EngineAssumption, IInv, EngineStep
  PROVE  IInv'
<1>1. CASE Startup \/ Finish \/ Poll
  BY <1>1, LoopKeeps, KeptIsEnough
<1>2. CASE \E g \in Groups : ExecTasks(g) \/ ExecNothing(g) \/ ExecServices(g)
  BY <1>2, ExecKeeps, KeptIsEnough
<1>3. CASE \E s \in AllServices :
              \/ ServeSignal(s) \/ ServeBegin(s) \/ ServeStart(s) \/ ServeSkips(s)
  BY <1>3, ServeKeeps, KeptIsEnough
<1>4. CASE ServeDone
  BY <1>4, ServeDoneKeeps
<1>5. CASE ServeFails
  BY <1>5, ServeFailsKeeps, KeptIsEnough
<1>6. CASE \E g \in Groups : Trigger(g)
  BY <1>6, TriggerKeeps, KeptIsEnough
<1>7. CASE \E g \in Groups :
             StartWaitingTasks(g) \/ StartWaitingNothing(g) \/ QueueServiceAction(g)
  BY <1>7, StartWaitingKeeps, KeptIsEnough
<1>8. CASE Skip \/ \E g \in Groups : Fail(g)
  BY <1>8, SkipsKeep, KeptIsEnough
<1>9. CASE \E g \in Groups : CascadeTasks(g) \/ CascadeServices(g) \/ CascadeNothing(g)
  BY <1>9, CascadeKeeps, KeptIsEnough
<1>10. CASE DrainEnds \/ \E t \in Tasks : DrainTask(t)
  BY <1>10, DrainEndsKeeps, DrainTaskKeeps, KeptIsEnough
<1>11. CASE \E g \in Groups : DrainQueued(g)
  BY <1>11, DrainQueuedKeeps, KeptIsEnough
<1>12. CASE ActServices \/ ActNothing
  BY <1>12, ActKeeps, KeptIsEnough
<1>13. CASE NoChange \/ \E affected \in SUBSET Groups : Change(affected)
  BY <1>13, WatchKeeps, KeptIsEnough
<1>14. CASE \/ \E g \in Groups : CheckGroup(g)
            \/ RespawnFails \/ GroupLooked
            \/ \E s \in AllServices : RespawnDue(s) \/ RespawnLater(s) \/ NothingToDo(s)
  BY <1>14, CheckKeeps, KeptIsEnough
<1>15. CASE \E s \in AllServices :
              \/ Respawn(s) \/ RespawnDropped(s) \/ NoticeExit(s)
              \/ \E passed \in BOOLEAN : ReadinessAnswers(s, passed)
  BY <1>15, SuperviseKeeps, KeptIsEnough
<1>16. CASE SettleReady \/ SettleFailed
  BY <1>16, SettleKeeps, KeptIsEnough
<1>17. QED
  BY <1>1, <1>2, <1>3, <1>4, <1>5, <1>6, <1>7, <1>8, <1>9, <1>10, <1>11, <1>12, <1>13, <1>14,
     <1>15, <1>16 DEF EngineStep

LEMMA StepKeeps ==
  ASSUME EngineAssumption, IInv, [Next]_vars
  PROVE  IInv'
<1>1. CASE EngineStep
  BY <1>1, EngineStepKeeps
<1>2. CASE Request
  BY <1>2, PlainRequestsKeep, ReloadKeeps, KeptIsEnough DEF Request
<1>3. CASE World
  BY <1>3, WorldKeeps, KeptIsEnough
<1>4. CASE UNCHANGED vars
  <2>1. /\ UNCHANGED <<resolver, groupVars, taskVars, queued, serviceVars, job, budget>>
        /\ todo' = todo
    BY <1>4 DEF vars
  <2>2. todo' \in Seq(Sound)
    BY <2>1 DEF IInv
  <2>3. QED
    BY <2>1, <2>2, OnlyTheStackMoves, KeptIsEnough
<1>5. QED
  BY <1>1, <1>2, <1>3, <1>4 DEF Next, Done

(***************************************************************************)
(* The inductive invariant of the engine: the types of its state, and the  *)
(* cover of every service of a started group, with what the unfinished     *)
(* service actions on its stack promise.                                   *)
(***************************************************************************)
THEOREM EngineInvariant == Spec => []IInv
<1>1. Init => IInv
  BY Initially, EngineAssumption
<1>2. IInv /\ [Next]_vars => IInv'
  BY StepKeeps, EngineAssumption
<1>3. QED
  BY <1>1, <1>2, PTL DEF Spec

(***************************************************************************)
(* The engine's state has its types, whatever clients ask and files do.    *)
(***************************************************************************)
THEOREM EngineTypes == Spec => []TypeOK
<1>1. IInv => TypeOK
  BY DEF IInv
<1>2. QED
  BY <1>1, EngineInvariant, PTL

(***************************************************************************)
(* A service of a started group that has no process has its restart        *)
(* scheduled, if every configuration expands its command: a spawn that     *)
(* fails, a poll a request drops in the middle of a delay or a hook, and a *)
(* reload do not lose it.  check_services gives up the restart of a        *)
(* command that does not expand, and handle_service_action its start;      *)
(* those services are excepted by name, and only those.                    *)
(***************************************************************************)
THEOREM NoServiceIsForgotten == Spec => []ServicesStaySupervised
<1>1. IInv => ServicesStaySupervised
  BY DEF IInv
<1>2. QED
  BY <1>1, EngineInvariant, PTL

-----------------------------------------------------------------------------

(***************************************************************************)
(* Hypotheses on the constants.  No poll is dropped: there are no requests *)
(* or nothing to be suspended at, neither a startup delay nor a cleanup    *)
(* hook.  Nothing is reloaded.  The task command answers no requests.      *)
(***************************************************************************)
NoDrops  == TaskOnly \/ RequestKinds = {} \/ HasDelay \cup HasCleanup = {}
NoReload == TaskOnly \/ "reload" \notin RequestKinds

\* every configuration expands the commands of all tasks
TasksExpand == MayNotExpand \cap Tasks = {}

(***************************************************************************)
(* Whom the stack calls for: the groups some item of it is going to start, *)
(* to settle or to skip.                                                   *)
(***************************************************************************)
Calling == {"exec", "start", "skip", "fail", "trigger"}

CallsFor(x, d) ==
  \/ x.do \in Calling /\ d \in x.groups
  \/ x.do = "serve" /\ x.group = d
  \/ x.do = "act" /\ x.action.group = d
  \/ x.do = "drain" /\ (d \in x.failed \/ \E k \in DOMAIN x.actions : x.actions[k].group = d)

Names(q, d) == \E i \in DOMAIN q : CallsFor(q[i], d)

LEMMA NobodyNamed == \A d : ~Names(<<>>, d)
BY DEF Names

LEMMA SingleNames ==
  ASSUME NEW x, NEW d
  PROVE  Names(<<x>>, d) <=> CallsFor(x, d)
BY DEF Names

LEMMA ConcatNames ==
  ASSUME NEW S, NEW q \in Seq(S), NEW r \in Seq(S), NEW d
  PROVE  Names(q \o r, d) <=> Names(q, d) \/ Names(r, d)
<1>1. /\ q \o r \in Seq(S) /\ Len(q \o r) = Len(q) + Len(r)
      /\ Len(q) \in Nat /\ Len(r) \in Nat
      /\ DOMAIN q = 1..Len(q) /\ DOMAIN r = 1..Len(r) /\ DOMAIN (q \o r) = 1..Len(q \o r)
  BY ConcatProperties
<1>2. /\ \A i \in 1..Len(q) : (q \o r)[i] = q[i]
      /\ \A i \in 1..Len(r) : (q \o r)[Len(q) + i] = r[i]
  BY <1>1, ConcatProperties
<1>3. ASSUME Names(q \o r, d) PROVE Names(q, d) \/ Names(r, d)
  <2>1. PICK i \in 1..Len(q \o r) : CallsFor((q \o r)[i], d)
    BY <1>1, <1>3 DEF Names
  <2>2. CASE i <= Len(q)
    <3>1. i \in DOMAIN q /\ (q \o r)[i] = q[i]
      BY <1>1, <1>2, <2>1, <2>2
    <3>2. QED
      BY <2>1, <3>1 DEF Names
  <2>3. CASE ~(i <= Len(q))
    <3>1. i - Len(q) \in 1..Len(r) /\ Len(q) + (i - Len(q)) = i
      BY <1>1, <2>1, <2>3
    <3>2. i - Len(q) \in DOMAIN r /\ (q \o r)[i] = r[i - Len(q)]
      BY <1>1, <1>2, <3>1
    <3>3. QED
      BY <2>1, <3>2 DEF Names
  <2>4. QED
    BY <2>2, <2>3
<1>4. ASSUME Names(q, d) PROVE Names(q \o r, d)
  <2>1. PICK i \in 1..Len(q) : CallsFor(q[i], d)
    BY <1>1, <1>4 DEF Names
  <2>2. i \in DOMAIN (q \o r) /\ (q \o r)[i] = q[i]
    BY <1>1, <1>2
  <2>3. QED
    BY <2>1, <2>2 DEF Names
<1>5. ASSUME Names(r, d) PROVE Names(q \o r, d)
  <2>1. PICK i \in 1..Len(r) : CallsFor(r[i], d)
    BY <1>1, <1>5 DEF Names
  <2>2. Len(q) + i \in DOMAIN (q \o r) /\ (q \o r)[Len(q) + i] = r[i]
    BY <1>1, <1>2
  <2>3. QED
    BY <2>1, <2>2 DEF Names
<1>6. QED
  BY <1>3, <1>4, <1>5

LEMMA HeadNames ==
  ASSUME NEW S, NEW q \in Seq(S), q # <<>>, NEW d
  PROVE  Names(q, d) <=> CallsFor(Head(q), d) \/ Names(Tail(q), d)
<1>1. PICK x \in S, r \in Seq(S) : x = Head(q) /\ r = Tail(q) /\ q = <<x>> \o r
  <2>1. Head(q) \in S /\ Tail(q) \in Seq(S) /\ q = <<Head(q)>> \o Tail(q)
    BY HeadTailProperties
  <2>2. QED
    BY <2>1
<1>2. <<x>> \in Seq(S)
  BY Single
<1>3. Names(<<x>> \o r, d) <=> Names(<<x>>, d) \/ Names(r, d)
  BY <1>2, ConcatNames
<1>4. QED
  BY <1>1, <1>3, SingleNames

LEMMA LoopNames ==
  ASSUME NEW kind \in LoopKinds, NEW S, NEW d
  PROVE  Names(Loop(kind, S), d) <=> kind \in Calling /\ d \in S
<1>1. CASE S = {}
  BY <1>1, NobodyNamed DEF Loop
<1>2. CASE S # {}
  <2>1. Loop(kind, S) = <<[do |-> kind, groups |-> S]>>
    BY <1>2 DEF Loop
  <2> DEFINE x == [do |-> kind, groups |-> S]
  <2>2. x.do = kind /\ x.groups = S
    OBVIOUS
  <2> HIDE DEF x
  <2>3. CallsFor(x, d) <=> kind \in Calling /\ d \in S
    BY <2>2 DEF CallsFor, LoopKinds
  <2>4. QED
    BY <2>1, <2>3, SingleNames DEF x
<1>3. QED
  BY <1>1, <1>2

LEMMA ExecNames ==
  ASSUME NEW S, NEW onChange, NEW cascade, NEW d
  PROVE  Names(Exec(S, onChange, cascade), d) <=> d \in S
<1>1. CASE S = {}
  BY <1>1, NobodyNamed DEF Exec
<1>2. CASE S # {}
  <2> DEFINE x == [do |-> "exec", groups |-> S, onChange |-> onChange, cascade |-> cascade]
  <2>1. Exec(S, onChange, cascade) = <<x>> /\ x.do = "exec" /\ x.groups = S
    BY <1>2 DEF Exec
  <2> HIDE DEF x
  <2>2. CallsFor(x, d) <=> d \in S
    BY <2>1 DEF CallsFor, Calling
  <2>3. QED
    BY <2>1, <2>2, SingleNames
<1>3. QED
  BY <1>1, <1>2

LEMMA ServeNames ==
  ASSUME NEW g, NEW start, NEW phase, NEW cascade, NEW d
  PROVE  Names(Serve(g, start, phase, cascade), d) <=> d = g
<1> DEFINE x == [do |-> "serve", group |-> g, start |-> start, left |-> Services[g],
                 at |-> {}, phase |-> phase, cascade |-> cascade]
<1>1. Serve(g, start, phase, cascade) = <<x>> /\ x.do = "serve" /\ x.group = g
  BY DEF Serve
<1> HIDE DEF x
<1>2. CallsFor(x, d) <=> d = g
  BY <1>1 DEF CallsFor, Calling
<1>3. QED
  BY <1>1, <1>2, SingleNames

LEMMA ActsName ==
  ASSUME NEW acts \in Seq(Actions), NEW d
  PROVE  Names([i \in DOMAIN acts |-> [do |-> "act", action |-> acts[i]]], d)
           <=> \E k \in DOMAIN acts : acts[k].group = d
<1> DEFINE f == [i \in DOMAIN acts |-> [do |-> "act", action |-> acts[i]]]
<1>1. DOMAIN f = DOMAIN acts
  OBVIOUS
<1>2. ASSUME NEW i \in DOMAIN acts PROVE CallsFor(f[i], d) <=> acts[i].group = d
  <2> DEFINE x == [do |-> "act", action |-> acts[i]]
  <2>1. x.do = "act" /\ x.action = acts[i] /\ f[i] = x
    OBVIOUS
  <2> HIDE DEF x, f
  <2>2. QED
    BY <2>1 DEF CallsFor, Calling
<1> HIDE DEF f
<1>3. Names(f, d) <=> \E k \in DOMAIN acts : acts[k].group = d
  BY <1>1, <1>2 DEF Names
<1>4. QED
  BY <1>3 DEF f

(***************************************************************************)
(* Where an item names nobody, or the same as before, so does the stack.   *)
(***************************************************************************)
LEMMA AfterNames ==
  ASSUME todo \in Seq(Items), NEW kind \in LoopKinds \cup {"exec"}, Doing(kind),
         NEW g \in Now.groups, NEW d, Names(todo, d)
  PROVE  (d = g /\ kind \in Calling) \/ Names(After(g), d)
<1>1. PICK x \in Items, r \in Seq(Items) :
        x = Now /\ r = Tail(todo) /\ (Names(todo, d) <=> CallsFor(x, d) \/ Names(r, d))
  <2>1. todo # <<>>
    BY DEF Doing
  <2>2. Head(todo) \in Items /\ Tail(todo) \in Seq(Items)
    BY <2>1, HeadAndTail
  <2>3. Names(todo, d) <=> CallsFor(Head(todo), d) \/ Names(Tail(todo), d)
    BY <2>1, HeadNames
  <2>4. QED
    BY <2>2, <2>3 DEF Now
<1>2. x.do = kind /\ g \in x.groups
  BY <1>1 DEF Doing
<1>3. CallsFor(x, d) <=> kind \in Calling /\ d \in x.groups
  BY <1>2 DEF CallsFor, LoopKinds, Calling
<1>4. CASE x.groups = {g}
  BY <1>1, <1>3, <1>4 DEF After
<1>5. CASE x.groups # {g}
  <2> DEFINE y == [x EXCEPT !.groups = @ \ {g}]
  <2>1. y.do = kind /\ y.groups = (x.groups \ {g}) /\ y \in Items
    <3>1. CASE kind \in LoopKinds
      <4>1. x \in [do : LoopKinds, groups : SUBSET Groups]
        BY <1>2, <3>1, KindsOfItems
      <4>2. y \in [do : LoopKinds, groups : SUBSET Groups] /\ y.do = kind
            /\ y.groups = (x.groups \ {g})
        BY <1>2, <4>1
      <4>3. QED
        BY <4>2 DEF Items, LoopKinds
    <3>2. CASE kind = "exec"
      <4>1. x \in [do : {"exec"}, groups : SUBSET Groups, onChange : BOOLEAN,
                   cascade : BOOLEAN]
        BY <1>2, <3>2, KindsOfItems
      <4>2. /\ y \in [do : {"exec"}, groups : SUBSET Groups, onChange : BOOLEAN,
                      cascade : BOOLEAN]
            /\ y.do = kind /\ y.groups = (x.groups \ {g})
        BY <1>2, <4>1
      <4>3. QED
        BY <4>2 DEF Items
    <3>3. QED
      BY <3>1, <3>2
  <2>2. After(g) = <<y>> \o r
    BY <1>1, <1>5 DEF After
  <2> HIDE DEF y
  <2>3. CallsFor(y, d) <=> kind \in Calling /\ d \in x.groups \ {g}
    BY <2>1 DEF CallsFor, LoopKinds, Calling
  <2>4. <<y>> \in Seq(Items)
    BY <2>1, Single
  <2>5. Names(<<y>> \o r, d) <=> CallsFor(y, d) \/ Names(r, d)
    BY <2>4, ConcatNames, SingleNames
  <2>6. QED
    BY <1>1, <1>3, <2>2, <2>3, <2>5
<1>6. QED
  BY <1>4, <1>5

-----------------------------------------------------------------------------
(***************************************************************************)
(* The books the engine keeps of completions.  What is still to do about a *)
(* completed group cascades unless a reload suppressed it, is of the phase *)
(* Startup as long as somebody waits for the group, and is done only once  *)
(* the group's services are started, but for a group that has none.        *)
(***************************************************************************)
Awaited(d) == \E h \in Groups : d \in waiting[h]

ProperAct(a) ==
  /\ NoReload => a.cascade
  /\ TaskOnly \/ Services[a.group] = {} => status[a.group] \notin {"Waiting", "Pending"}

Proper ==
  {x \in Items :
     /\ x.do = "exec" => (NoReload => x.cascade)
     /\ x.do = "serve" => /\ NoReload => x.cascade
                          /\ x.phase = "Runtime" => ~Awaited(x.group)
                          /\ TaskOnly => status[x.group] \notin {"Waiting", "Pending"}
     /\ x.do = "act" => ProperAct(x.action)
     /\ x.do = "drain" => \A k \in DOMAIN x.actions : ProperAct(x.actions[k])
     /\ x.do = "trigger" =>
          TaskOnly \/ \A d \in x.groups : Services[d] = {} \/ services_started[d]}

CascadesUnlessReloaded ==
  NoReload => /\ suppress = {}
              /\ \A g \in Groups : pending_ready[g] # None => pending_ready[g].cascade

EntriesAreDependencies == \A g \in Groups : waiting[g] \subseteq DependsOn[g]

QueuedHaveServices == \A g \in Groups : HasQueued(g) => Services[g] # {} /\ ~TaskOnly

DeferredAreStarted ==
  \A g \in Groups : pending_ready[g] # None => services_started[g] /\ Services[g] # {}

IdleIsIdle == job \in {"new", "idle", "done"} => todo = <<>>

Ledger ==
  /\ todo \in Seq(Proper) /\ CascadesUnlessReloaded /\ EntriesAreDependencies
  /\ QueuedHaveServices /\ DeferredAreStarted /\ IdleIsIdle

(***************************************************************************)
(* A calm step lets nobody wait anew and takes nothing back: proper items  *)
(* stay proper.                                                            *)
(***************************************************************************)
Calm ==
  \A d \in Groups :
    /\ waiting'[d] \subseteq waiting[d]
    /\ status[d] \notin {"Waiting", "Pending"} => status'[d] \notin {"Waiting", "Pending"}
    /\ services_started[d] => services_started'[d]

Still == UNCHANGED <<waiting, status, services_started>>

LEMMA StillIsCalm == Still => Calm
BY DEF Still, Calm

LEMMA ProperAreItems == Proper \subseteq Items /\ Seq(Proper) \subseteq Seq(Items)
<1>1. Proper \subseteq Items
  BY DEF Proper
<1>2. QED
  BY <1>1, SeqWidens

LEMMA ProperActStays ==
  ASSUME Calm, NEW a \in Actions, ProperAct(a)
  PROVE  ProperAct(a)'
<1>1. a.group \in Groups
  BY DEF Actions
<1>2. QED
  BY <1>1 DEF ProperAct, Calm

LEMMA ProperStays ==
  ASSUME Calm
  PROVE  Proper \subseteq Proper' /\ Seq(Proper) \subseteq Seq(Proper')
<1>1. ASSUME NEW x \in Proper PROVE x \in Proper'
  <2>1. x \in Items
    BY DEF Proper
  <2>2. CASE x.do = "serve"
    <3>1. x.group \in Groups
      BY <2>1, <2>2, KindsOfItems
    <3>2. ~Awaited(x.group) => ~Awaited(x.group)'
      BY DEF Calm, Awaited
    <3>3. TaskOnly => status'[x.group] \notin {"Waiting", "Pending"}
      BY <2>2, <3>1 DEF Proper, Calm
    <3>4. QED
      BY <2>1, <2>2, <3>2, <3>3 DEF Proper
  <2>3. CASE x.do = "act"
    <3>1. x \in [do : {"act"}, action : Actions]
      BY <2>1, <2>3, KindsOfItems
    <3>2. x.action \in Actions
      BY <3>1
    <3>3. ProperAct(x.action)'
      BY <2>3, <3>2, ProperActStays DEF Proper
    <3>4. QED
      BY <2>1, <2>3, <3>3 DEF Proper
  <2>4. CASE x.do = "drain"
    <3>1. x \in DrainItems
      BY <2>1, <2>4, KindsOfItems DEF DrainItems
    <3>2. x.actions \in Seq(Actions)
      BY <3>1 DEF DrainItems
    <3>3. ASSUME NEW k \in DOMAIN x.actions PROVE ProperAct(x.actions[k])'
      <4>1. x.actions[k] \in Actions
        BY <3>2
      <4>2. ProperAct(x.actions[k])
        BY <2>4 DEF Proper
      <4>3. QED
        BY <4>1, <4>2, ProperActStays
    <3>4. QED
      BY <2>1, <2>4, <3>3 DEF Proper
  <2>5. CASE x.do = "trigger"
    <3>1. x \in [do : LoopKinds, groups : SUBSET Groups]
      BY <2>1, <2>5, KindsOfItems DEF LoopKinds
    <3>2. x.groups \in SUBSET Groups
      BY <3>1
    <3>3. TaskOnly \/ \A d \in x.groups : Services[d] = {} \/ services_started[d]
      BY <2>5 DEF Proper
    <3>4. TaskOnly \/ \A d \in x.groups : Services[d] = {} \/ services_started'[d]
      BY <3>2, <3>3 DEF Calm
    <3>5. QED
      BY <2>1, <2>5, <3>4 DEF Proper
  <2>6. CASE x.do \notin {"serve", "act", "drain", "trigger"}
    BY <2>1, <2>6 DEF Proper
  <2>7. QED
    BY <2>2, <2>3, <2>4, <2>5, <2>6
<1>2. QED
  BY <1>1, SeqWidens

(***************************************************************************)
(* The items of which nothing is asked that the state could take away.     *)
(***************************************************************************)
Bare ==
  {x \in Items : /\ x.do \notin {"trigger", "serve", "act"}
                 /\ x.do = "exec" => (NoReload => x.cascade)
                 /\ x.do = "drain" => x.actions = <<>>}

LEMMA BareIsProper ==
  /\ Bare \subseteq Proper /\ Seq(Bare) \subseteq Seq(Proper)
  /\ Bare \subseteq Proper' /\ Seq(Bare) \subseteq Seq(Proper')
<1>1. Bare \subseteq Proper /\ Bare \subseteq Proper'
  BY DEF Bare, Proper
<1>2. QED
  BY <1>1, SeqWidens

LEMMA LoopsAreBare ==
  ASSUME NEW kind \in LoopKinds \ {"trigger"}, NEW S \in SUBSET Groups
  PROVE  Loop(kind, S) \in Seq(Bare)
<1>1. [do |-> kind, groups |-> S] \in Bare
  BY DEF Bare, Items, LoopKinds
<1>2. QED
  BY <1>1 DEF Loop

LEMMA ExecsAreBare ==
  ASSUME NEW S \in SUBSET Groups, NEW onChange \in BOOLEAN, NEW cascade \in BOOLEAN,
         NoReload => cascade
  PROVE  Exec(S, onChange, cascade) \in Seq(Bare)
<1>1. [do |-> "exec", groups |-> S, onChange |-> onChange, cascade |-> cascade] \in Bare
  BY DEF Bare, Items
<1>2. QED
  BY <1>1 DEF Exec

LEMMA SinglesAreBare ==
  /\ Drain \in Seq(Bare)
  /\ Simple("watch") \in Seq(Bare)
  /\ Check \in Seq(Bare)
  /\ EngineAssumption => \A g \in Groups : Supervise(g) \in Seq(Bare)
  /\ \A g \in Groups, ok \in BOOLEAN : Settle(g, ok) \in Seq(Bare)
<1>1. [do |-> "drain", failed |-> {}, actions |-> <<>>] \in Bare
  BY DEF Bare, Items
<1>2. [do |-> "watch"] \in Bare
  BY DEF Bare, Items
<1>3. Check \in Seq(Bare)
  BY LoopsAreBare DEF Check, LoopKinds
<1>4. ASSUME EngineAssumption, NEW g \in Groups
      PROVE  [do |-> "supervise", group |-> g, left |-> Services[g], at |-> {}] \in Bare
  BY DEF Bare, Items, AllServices
<1>5. ASSUME NEW g \in Groups, NEW ok \in BOOLEAN
      PROVE  [do |-> "settle", group |-> g, ok |-> ok] \in Bare
  BY DEF Bare, Items
<1>6. QED
  BY <1>1, <1>2, <1>3, <1>4, <1>5, Single DEF Drain, Simple, Supervise, Settle

LEMMA ServesAreProper ==
  ASSUME EngineAssumption, NEW g \in Groups, NEW start \in BOOLEAN,
         NEW phase \in Phases \cup {"Later"}, NEW cascade \in BOOLEAN,
         NoReload => cascade, phase = "Runtime" => ~Awaited(g),
         TaskOnly => status[g] \notin {"Waiting", "Pending"}
  PROVE  Serve(g, start, phase, cascade) \in Seq(Proper)
<1> DEFINE x == [do |-> "serve", group |-> g, start |-> start, left |-> Services[g],
                 at |-> {}, phase |-> phase, cascade |-> cascade]
<1>1. Services[g] \in SUBSET AllServices
  BY DEF AllServices
<1>2. x \in Items /\ x.do = "serve" /\ x.group = g /\ x.phase = phase /\ x.cascade = cascade
  BY <1>1 DEF Items
<1>3. Serve(g, start, phase, cascade) = <<x>>
  BY DEF Serve
<1> HIDE DEF x
<1>4. x \in Proper
  BY <1>2 DEF Proper
<1>5. QED
  BY <1>3, <1>4, Single

LEMMA PropagationIsProper ==
  ASSUME NEW g \in Groups, NEW phase, NEW cascade,
         TaskOnly \/ Services[g] = {} \/ services_started[g]
  PROVE  Propagate(g, phase, cascade) \in Seq(Proper)
<1>1. Dependents(g) \in SUBSET Groups
  BY DEF Dependents
<1>2. Loop("cascade", Dependents(g)) \in Seq(Proper)
  BY <1>1, LoopsAreBare, BareIsProper DEF LoopKinds
<1>3. Loop("trigger", {g}) \in Seq(Proper)
  <2> DEFINE x == [do |-> "trigger", groups |-> {g}]
  <2>1. x \in Items /\ x.do = "trigger" /\ x.groups = {g}
    BY DEF Items
  <2>2. Loop("trigger", {g}) = <<x>>
    BY DEF Loop
  <2> HIDE DEF x
  <2>3. x \in Proper
    BY <2>1 DEF Proper
  <2>4. QED
    BY <2>2, <2>3, Single
<1>4. <<>> \in Seq(Proper)
  OBVIOUS
<1>5. QED
  BY <1>2, <1>3, <1>4 DEF Propagate

LEMMA ProperActsAreProper ==
  ASSUME NEW acts \in Seq(Actions), \A k \in DOMAIN acts : ProperAct(acts[k])
  PROVE  [i \in DOMAIN acts |-> [do |-> "act", action |-> acts[i]]] \in Seq(Proper)
<1> DEFINE f == [i \in DOMAIN acts |-> [do |-> "act", action |-> acts[i]]]
<1>1. DOMAIN acts = 1..Len(acts) /\ Len(acts) \in Nat
  OBVIOUS
<1>2. ASSUME NEW i \in DOMAIN acts PROVE [do |-> "act", action |-> acts[i]] \in Proper
  <2> DEFINE x == [do |-> "act", action |-> acts[i]]
  <2>1. acts[i] \in Actions
    BY <1>1
  <2>2. x \in Items /\ x.do = "act" /\ x.action = acts[i]
    BY <2>1 DEF Items
  <2> HIDE DEF x
  <2>3. x \in Proper
    BY <2>2 DEF Proper
  <2>4. QED
    BY <2>3 DEF x
<1>3. f \in [1..Len(acts) -> Proper]
  BY <1>1, <1>2
<1> HIDE DEF f
<1>4. QED
  BY <1>1, <1>3, SeqDef DEF f

(***************************************************************************)
(* The head of a proper stack, and a loop after one of its rounds.         *)
(***************************************************************************)
LEMMA ProperFacts ==
  ASSUME todo \in Seq(Proper), NEW kind, Doing(kind)
  PROVE  /\ Now \in Proper /\ Now \in Items /\ Now.do = kind
         /\ Tail(todo) \in Seq(Proper)
<1>1. todo # <<>>
  BY DEF Doing
<1>2. Head(todo) \in Proper /\ Tail(todo) \in Seq(Proper)
  BY <1>1, HeadAndTail
<1>3. QED
  BY <1>2, ProperAreItems DEF Doing, Now

LEMMA ProperLoopGoesOn ==
  ASSUME todo \in Seq(Proper), NEW kind \in (LoopKinds \ {"trigger"}) \cup {"exec"},
         Doing(kind), NEW g \in Now.groups
  PROVE  After(g) \in Seq(Proper) /\ g \in Groups
<1>1. Now \in Proper /\ Now \in Items /\ Now.do = kind /\ Tail(todo) \in Seq(Proper)
  BY ProperFacts
<1> DEFINE x == [Now EXCEPT !.groups = @ \ {g}]
<1>2. x \in Proper /\ g \in Groups
  <2>1. CASE kind \in LoopKinds \ {"trigger"}
    <3>1. Now \in [do : LoopKinds, groups : SUBSET Groups]
      BY <1>1, <2>1, KindsOfItems
    <3>2. x \in [do : LoopKinds, groups : SUBSET Groups] /\ g \in Groups /\ x.do = kind
      BY <1>1, <3>1
    <3>3. x \in Bare
      BY <2>1, <3>2 DEF Bare, Items, LoopKinds
    <3>4. QED
      BY <3>2, <3>3, BareIsProper
  <2>2. CASE kind = "exec"
    <3>1. Now \in [do : {"exec"}, groups : SUBSET Groups, onChange : BOOLEAN,
                   cascade : BOOLEAN]
      BY <1>1, <2>2, KindsOfItems
    <3>2. /\ x \in [do : {"exec"}, groups : SUBSET Groups, onChange : BOOLEAN,
                    cascade : BOOLEAN]
          /\ g \in Groups /\ x.do = "exec" /\ x.cascade = Now.cascade
      BY <1>1, <2>2, <3>1
    <3>3. x \in Items
      BY <3>2 DEF Items
    <3>4. QED
      BY <1>1, <2>2, <3>2, <3>3 DEF Proper
  <2>3. QED
    BY <2>1, <2>2
<1>3. <<x>> \in Seq(Proper)
  BY <1>2, Single
<1> HIDE DEF x
<1>4. <<x>> \o Tail(todo) \in Seq(Proper)
  BY <1>1, <1>3, Concatenated
<1>5. QED
  BY <1>1, <1>2, <1>4 DEF After, x

(***************************************************************************)
(* A step that leaves the deferred, the suppressed and the queued alone.   *)
(***************************************************************************)
LEMMA Unstirred ==
  ASSUME Ledger, Calm, todo' \in Seq(Proper), IdleIsIdle',
         UNCHANGED <<pending_ready, suppress, queued>>
  PROVE  Ledger'
<1>1. todo' \in Seq(Proper')
  BY ProperStays
<1>2. EntriesAreDependencies'
  BY DEF Ledger, Calm, EntriesAreDependencies
<1>3. DeferredAreStarted'
  BY DEF Ledger, Calm, DeferredAreStarted
<1>4. CascadesUnlessReloaded' /\ QueuedHaveServices'
  BY DEF Ledger, CascadesUnlessReloaded, QueuedHaveServices, HasQueued
<1>5. QED
  BY <1>1, <1>2, <1>3, <1>4 DEF Ledger

LEMMA AtWork ==
  ASSUME Ledger, NEW kind, Doing(kind), UNCHANGED job
  PROVE  IdleIsIdle' /\ job \notin {"new", "idle", "done"}
BY DEF Ledger, IdleIsIdle, Doing

LEMMA StackRestacked ==
  ASSUME Ledger, NEW kind, Doing(kind), todo' \in Seq(Proper),
         UNCHANGED <<resolver, groupVars, queued, job>>
  PROVE  Ledger'
<1>1. Calm /\ UNCHANGED <<pending_ready, suppress, queued>>
  BY StillIsCalm DEF Still, resolver, groupVars
<1>2. QED
  BY <1>1, AtWork, Unstirred

(***************************************************************************)
(* A wave that starts: the groups that wait do so for dependencies.        *)
(***************************************************************************)
LEMMA WaveIsProper ==
  ASSUME NEW st0, StartWave(st0)
  PROVE  todo' \in Seq(Proper') /\ EntriesAreDependencies'
<1> DEFINE S == {g \in Groups : [h \in Groups |-> UnreadyDependencies(st0, h)][g] # {}}
<1>1. todo' = Exec(Groups \ S, FALSE, TRUE)
  BY DEF StartWave
<1>2. Groups \ S \in SUBSET Groups
  OBVIOUS
<1> HIDE DEF S
<1>3. todo' \in Seq(Bare)
  BY <1>1, <1>2, ExecsAreBare
<1>4. EntriesAreDependencies'
  BY DEF StartWave, EntriesAreDependencies, UnreadyDependencies
<1>5. QED
  BY <1>3, <1>4, BareIsProper

LEMMA LoopLedger ==
  ASSUME IInv, Ledger, Startup \/ Finish \/ Poll
  PROVE  Ledger'
<1>1. CASE Startup
  <2>1. todo' \in Seq(Proper') /\ EntriesAreDependencies'
    BY <1>1, WaveIsProper DEF Startup
  <2>2. /\ UNCHANGED <<services_started, pending_ready, suppress, queued>>
        /\ job' = "startup"
    BY <1>1 DEF Startup
  <2>3. CascadesUnlessReloaded' /\ QueuedHaveServices' /\ DeferredAreStarted' /\ IdleIsIdle'
    BY <2>2 DEF Ledger, CascadesUnlessReloaded, QueuedHaveServices, HasQueued,
       DeferredAreStarted, IdleIsIdle
  <2>4. QED
    BY <2>1, <2>3 DEF Ledger
<1>2. CASE Finish
  <2>1. Calm /\ UNCHANGED <<pending_ready, suppress, queued>>
    BY <1>2, StillIsCalm DEF Finish, Still, resolver, groupVars
  <2>2. IdleIsIdle' /\ todo' \in Seq(Proper)
    BY <1>2 DEF Finish, IdleIsIdle, Ledger
  <2>3. QED
    BY <2>1, <2>2, Unstirred
<1>3. CASE Poll
  <2>1. Calm /\ UNCHANGED <<pending_ready, suppress, queued>>
    BY <1>3, StillIsCalm DEF Poll, Still, resolver, groupVars
  <2>2. todo' \in Seq(Proper)
    <3>1. Drain \in Seq(Proper) /\ Drain \o Simple("watch") \o Check \in Seq(Proper)
      BY SinglesAreBare, BareIsProper, Concatenated
    <3>2. QED
      BY <1>3, <3>1 DEF Poll
  <2>3. IdleIsIdle'
    BY <1>3 DEF Poll, IdleIsIdle
  <2>4. QED
    BY <2>1, <2>2, <2>3, Unstirred
<1>4. QED
  BY <1>1, <1>2, <1>3

LEMMA ReadyIsCalm ==
  ASSUME IInv, NEW g \in Groups, NEW v \in {"Running", "Ready", "Failed", "Skipped"},
         status' = [status EXCEPT ![g] = v] \/ UNCHANGED status,
         UNCHANGED services_started, UNCHANGED waiting \/ waiting' = StopWaitingFor(waiting, {g})
  PROVE  Calm
<1>1. status \in StatusMap
  BY DEF IInv, TypeOK
<1>2. \A d \in Groups : waiting'[d] \subseteq waiting[d]
  BY DEF StopWaitingFor
<1>3. \A d \in Groups :
        status[d] \notin {"Waiting", "Pending"} => status'[d] \notin {"Waiting", "Pending"}
  BY <1>1 DEF StatusMap
<1>4. QED
  BY <1>2, <1>3 DEF Calm

LEMMA RuntimeIsUnawaited ==
  ASSUME EntriesAreDependencies, NEW g, NEW started, Phase(g, started) = "Runtime"
  PROVE  ~Awaited(g)
<1>1. SUFFICES ASSUME NEW h \in Groups, g \in waiting[h]
               PROVE  FALSE
  BY DEF Awaited
<1>2. h \in Dependents(g)
  BY <1>1 DEF EntriesAreDependencies, Dependents
<1>3. HasWaitingDependents(waiting, g)
  BY <1>1, <1>2 DEF HasWaitingDependents
<1>4. QED
  BY <1>3 DEF Phase

LEMMA ExecLedger ==
  ASSUME EngineAssumption, IInv, Ledger, NEW g \in Groups,
         ExecTasks(g) \/ ExecNothing(g) \/ ExecServices(g)
  PROVE  Ledger'
<1>1. /\ Doing("exec") /\ g \in Now.groups
      /\ UNCHANGED <<services_started, pending_ready, suppress, queued, waiting, job>>
  BY DEF ExecTasks, ExecNothing, ExecServices, groupVars, resolver
<1>2. /\ todo \in Seq(Proper) /\ After(g) \in Seq(Proper) /\ Now \in Proper
      /\ Now.cascade \in BOOLEAN
  <2>1. todo \in Seq(Proper)
    BY DEF Ledger
  <2>2. Now \in Proper /\ Now \in Items /\ Now.do = "exec"
    BY <1>1, <2>1, ProperFacts
  <2>3. Now.cascade \in BOOLEAN
    BY <2>2, KindsOfItems
  <2>4. QED
    BY <1>1, <2>1, <2>2, <2>3, ProperLoopGoesOn
<1>3. IdleIsIdle'
  BY <1>1, AtWork
<1>4. Calm
  <2>1. \/ status' = [status EXCEPT ![g] = "Running"]
        \/ status' = [status EXCEPT ![g] = "Ready"]
        \/ UNCHANGED status
    BY DEF ExecTasks, ExecNothing, ExecServices, SpawnGroupTasks, SetReady, groupVars
  <2>2. QED
    BY <1>1, <2>1, ReadyIsCalm
<1>5. todo' \in Seq(Proper)
  <2>1. CASE ExecTasks(g)
    BY <1>2, <2>1 DEF ExecTasks
  <2>2. CASE ExecNothing(g)
    <3>1. TaskOnly \/ Services[g] = {} \/ services_started[g]
      BY <2>2 DEF ExecNothing
    <3>2. Propagate(g, Phase(g, services_started[g]), Now.cascade) \in Seq(Proper)
      BY <3>1, PropagationIsProper
    <3>3. QED
      BY <1>2, <2>2, <3>2, Concatenated DEF ExecNothing
  <2>3. CASE ExecServices(g)
    <3>1. /\ todo' = Serve(g, ~services_started[g], Phase(g, services_started[g]), Now.cascade)
                       \o After(g)
          /\ ~TaskOnly
      BY <2>3 DEF ExecServices
    <3>2. NoReload => Now.cascade
      BY <1>1, <1>2 DEF Proper, Doing
    <3>3. Phase(g, services_started[g]) \in Phases \cup {"Later"}
      BY PhasesArePhases
    <3>4. Phase(g, services_started[g]) = "Runtime" => ~Awaited(g)
      BY RuntimeIsUnawaited DEF Ledger
    <3>5. (~services_started[g]) \in BOOLEAN
      OBVIOUS
    <3>6. Serve(g, ~services_started[g], Phase(g, services_started[g]), Now.cascade)
            \in Seq(Proper)
      BY <1>2, <3>1, <3>2, <3>3, <3>4, <3>5, ServesAreProper
    <3>7. QED
      BY <1>2, <3>1, <3>6, Concatenated
  <2>4. QED
    BY <2>1, <2>2, <2>3
<1>6. QED
  BY <1>1, <1>3, <1>4, <1>5, Unstirred

LEMMA ServeLedger ==
  ASSUME EngineAssumption, IInv, Ledger, NEW s \in AllServices,
         ServeSignal(s) \/ ServeBegin(s) \/ ServeStart(s) \/ ServeSkips(s)
  PROVE  Ledger'
<1>1. Doing("serve") /\ UNCHANGED <<resolver, groupVars, queued, job>>
  BY DEF ServeSignal, ServeBegin, ServeStart, ServeSkips
<1>2. Now \in Proper /\ Tail(todo) \in Seq(Proper) /\ Now \in ServeItems
  BY <1>1, ProperFacts, KindsOfItems DEF Ledger, ServeItems
<1>3. ASSUME NEW x \in ServeItems, x.group = Now.group, x.phase = Now.phase,
             x.cascade = Now.cascade
      PROVE  <<x>> \o Tail(todo) \in Seq(Proper)
  <2>1. x \in Items /\ x.do = "serve" /\ Now.do = "serve"
    BY <1>2, <1>3 DEF ServeItems, Items
  <2>2. x \in Proper
    BY <1>2, <1>3, <2>1 DEF Proper
  <2>3. QED
    BY <1>2, <2>2, Single, Concatenated
<1>4. todo' \in Seq(Proper)
  <2>1. CASE ServeSignal(s)
    <3> DEFINE x == [Now EXCEPT !.left = @ \ {s}]
    <3>1. /\ x \in ServeItems /\ x.group = Now.group /\ x.phase = Now.phase
          /\ x.cascade = Now.cascade
      BY <1>2 DEF ServeItems
    <3>2. todo' = <<x>> \o Tail(todo)
      BY <2>1 DEF ServeSignal
    <3> HIDE DEF x
    <3>3. QED
      BY <1>3, <3>1, <3>2
  <2>2. CASE ServeBegin(s)
    <3> DEFINE x == [Now EXCEPT !.at = {s}]
    <3>1. /\ x \in ServeItems /\ x.group = Now.group /\ x.phase = Now.phase
          /\ x.cascade = Now.cascade
      BY <1>2 DEF ServeItems
    <3>2. todo' = <<x>> \o Tail(todo)
      BY <2>2 DEF ServeBegin
    <3> HIDE DEF x
    <3>3. QED
      BY <1>3, <3>1, <3>2
  <2>3. CASE ServeStart(s)
    <3> DEFINE x == [Now EXCEPT !.left = @ \ {s}, !.at = {}]
    <3>1. /\ x \in ServeItems /\ x.group = Now.group /\ x.phase = Now.phase
          /\ x.cascade = Now.cascade
      BY <1>2 DEF ServeItems
    <3>2. todo' = <<x>> \o Tail(todo)
      BY <2>3 DEF ServeStart
    <3> HIDE DEF x
    <3>3. QED
      BY <1>3, <3>1, <3>2
  <2>4. CASE ServeSkips(s)
    <3> DEFINE x == [Now EXCEPT !.left = @ \ {s}, !.at = {}]
    <3>1. /\ x \in ServeItems /\ x.group = Now.group /\ x.phase = Now.phase
          /\ x.cascade = Now.cascade
      BY <1>2 DEF ServeItems
    <3>2. todo' = <<x>> \o Tail(todo)
      BY <2>4 DEF ServeSkips
    <3> HIDE DEF x
    <3>3. QED
      BY <1>3, <3>1, <3>2
  <2>5. QED
    BY <2>1, <2>2, <2>3, <2>4
<1>5. QED
  BY <1>1, <1>4, StackRestacked

(***************************************************************************)
(* The end of a serve item: its group is started, so its completion may    *)
(* be propagated, now or once its readiness checks have answered.          *)
(***************************************************************************)
LEMMA ServeDoneLedger ==
  ASSUME EngineAssumption, IInv, Ledger, ServeDone
  PROVE  Ledger'
<1>1. /\ Doing("serve")
      /\ UNCHANGED <<waiting, suppress, queued, job>>
  BY DEF ServeDone, resolver
<1>2. /\ Now \in Proper /\ Now.do = "serve" /\ Tail(todo) \in Seq(Proper)
      /\ Now \in ServeItems
  BY <1>1, ProperFacts, KindsOfItems DEF Ledger, ServeItems
<1> DEFINE g == Now.group
           phase == IF Now.phase = "Later" THEN Phase(g, TRUE) ELSE Now.phase
<1>3. /\ services_started' = [services_started EXCEPT ![g] = TRUE]
      /\ status' = [status EXCEPT ![g] = IF AwaitsReadiness(g) THEN "Running" ELSE "Ready"]
      /\ DeferOrPropagate(g, phase, Now.cascade)
      /\ ~AwaitsReadiness(g) => pending_ready' = [pending_ready EXCEPT ![g] = None]
  BY DEF ServeDone
<1>4. g \in Groups /\ Now.cascade \in BOOLEAN /\ (NoReload => Now.cascade)
  BY <1>2 DEF ServeItems, Proper
<1> HIDE DEF g, phase
<1>5. /\ status \in StatusMap /\ services_started \in [Groups -> BOOLEAN]
      /\ pending_ready \in [Groups -> [phase : Phases, cascade : BOOLEAN] \cup {None}]
  BY DEF IInv, TypeOK
<1>6. Calm /\ services_started'[g]
  BY <1>1, <1>3, <1>4, <1>5 DEF Calm, StatusMap
<1>7. \/ /\ pending_ready' =
               [pending_ready EXCEPT ![g] = [phase |-> phase, cascade |-> Now.cascade]]
         /\ AwaitsReadiness(g)
      \/ pending_ready' = [pending_ready EXCEPT ![g] = None]
  BY <1>3 DEF DeferOrPropagate
<1>8. /\ \A h \in Groups : h # g => pending_ready'[h] = pending_ready[h]
      /\ pending_ready'[g] # None => (NoReload => pending_ready'[g].cascade)
      /\ pending_ready'[g] # None => Services[g] # {}
  <2>1. AwaitsReadiness(g) => Services[g] # {}
    BY DEF AwaitsReadiness
  <2>2. [phase |-> phase, cascade |-> Now.cascade].cascade = Now.cascade
    OBVIOUS
  <2>3. QED
    BY <1>4, <1>5, <1>7, <2>1, <2>2
<1>9. CascadesUnlessReloaded' /\ DeferredAreStarted'
  <2>1. CascadesUnlessReloaded'
    BY <1>1, <1>8 DEF Ledger, CascadesUnlessReloaded
  <2>2. DeferredAreStarted'
    BY <1>6, <1>8 DEF Ledger, DeferredAreStarted, Calm
  <2>3. QED
    BY <2>1, <2>2
<1>10. todo' \in Seq(Proper')
  <2>1. Tail(todo) \in Seq(Proper')
    BY <1>2, <1>6, ProperStays
  <2>2. Propagate(g, phase, Now.cascade) \in Seq(Proper')
    <3>1. Dependents(g) \in SUBSET Groups
      BY DEF Dependents
    <3>2. Loop("cascade", Dependents(g)) \in Seq(Proper')
      BY <3>1, LoopsAreBare, BareIsProper DEF LoopKinds
    <3>3. Loop("trigger", {g}) \in Seq(Proper')
      <4> DEFINE x == [do |-> "trigger", groups |-> {g}]
      <4>1. x \in Items /\ x.do = "trigger" /\ x.groups = {g}
        BY <1>4 DEF Items
      <4>2. Loop("trigger", {g}) = <<x>>
        BY DEF Loop
      <4> HIDE DEF x
      <4>3. x \in Proper'
        BY <1>6, <4>1 DEF Proper
      <4>4. QED
        BY <4>2, <4>3, Single
    <3>4. <<>> \in Seq(Proper')
      OBVIOUS
    <3>5. QED
      BY <3>2, <3>3, <3>4 DEF Propagate
  <2>3. todo' = Tail(todo) \/ todo' = Propagate(g, phase, Now.cascade) \o Tail(todo)
    BY <1>3 DEF DeferOrPropagate
  <2>4. Propagate(g, phase, Now.cascade) \o Tail(todo) \in Seq(Proper')
    BY <2>1, <2>2, Concatenated
  <2>5. QED
    BY <2>1, <2>3, <2>4
<1>11. EntriesAreDependencies' /\ QueuedHaveServices' /\ IdleIsIdle'
  <2>1. EntriesAreDependencies' /\ QueuedHaveServices'
    BY <1>1 DEF Ledger, EntriesAreDependencies, QueuedHaveServices, HasQueued
  <2>2. QED
    BY <1>1, <2>1, AtWork
<1>12. QED
  BY <1>9, <1>10, <1>11 DEF Ledger

-----------------------------------------------------------------------------
LEMMA TriggerLedger ==
  ASSUME IInv, Ledger, NEW g \in Groups, Trigger(g)
  PROVE  Ledger'
<1>1. /\ Doing("trigger")
      /\ UNCHANGED <<services_started, pending_ready, suppress, queued, job>>
      /\ todo' = Loop("start", ReadyToStart(waiting, statuses, g))
                   \o Loop("skip", NeedsSkip(waiting, statuses, g)) \o Tail(todo)
  BY DEF Trigger
<1>2. Tail(todo) \in Seq(Proper)
  BY <1>1, ProperFacts DEF Ledger
<1>3. /\ ReadyToStart(waiting, statuses, g) \in SUBSET Groups
      /\ NeedsSkip(waiting, statuses, g) \in SUBSET Groups
  BY DEF ReadyToStart, NeedsSkip, Released, Dependents
<1>4. /\ Loop("start", ReadyToStart(waiting, statuses, g)) \in Seq(Proper)
      /\ Loop("skip", NeedsSkip(waiting, statuses, g)) \in Seq(Proper)
  BY <1>3, LoopsAreBare, BareIsProper DEF LoopKinds
<1>5. todo' \in Seq(Proper)
  BY <1>1, <1>2, <1>4, Concatenated
<1>6. Calm
  <2>1. status' = [status EXCEPT ![g] = "Ready"] /\ waiting' = StopWaitingFor(waiting, {g})
    BY DEF Trigger, SetReady
  <2>2. QED
    BY <1>1, <2>1, ReadyIsCalm
<1>7. QED
  BY <1>1, <1>5, <1>6, AtWork, Unstirred

LEMMA StartWaitingLedger ==
  ASSUME EngineAssumption, IInv, Ledger, NEW g \in Groups,
         StartWaitingTasks(g) \/ StartWaitingNothing(g) \/ QueueServiceAction(g)
  PROVE  Ledger'
<1>1. /\ Doing("start") /\ g \in Now.groups
      /\ UNCHANGED <<waiting, services_started, pending_ready, suppress, job>>
  BY DEF StartWaitingTasks, StartWaitingNothing, QueueServiceAction, resolver, groupVars
<1>2. After(g) \in Seq(Proper)
  BY <1>1, ProperLoopGoesOn DEF LoopKinds, Ledger
<1>3. Calm
  <2>1. \/ status' = [status EXCEPT ![g] = "Running"]
        \/ status' = [status EXCEPT ![g] = "Ready"]
        \/ UNCHANGED status
    BY DEF StartWaitingTasks, StartWaitingNothing, QueueServiceAction, SpawnGroupTasks,
       SetReady, groupVars
  <2>2. QED
    BY <1>1, <2>1, ReadyIsCalm
<1>4. todo' \in Seq(Proper)
  <2>1. CASE StartWaitingNothing(g)
    <3>1. /\ TaskOnly \/ Services[g] = {}
          /\ todo' = Loop("trigger", {g}) \o After(g)
      BY <2>1 DEF StartWaitingNothing
    <3>2. Loop("trigger", {g}) = Propagate(g, "Startup", TRUE)
      BY DEF Propagate
    <3>3. Propagate(g, "Startup", TRUE) \in Seq(Proper)
      BY <3>1, PropagationIsProper
    <3>4. QED
      BY <1>2, <3>1, <3>2, <3>3, Concatenated
  <2>2. CASE StartWaitingTasks(g) \/ QueueServiceAction(g)
    BY <1>2, <2>2 DEF StartWaitingTasks, QueueServiceAction
  <2>3. QED
    BY <2>1, <2>2
<1>5. CASE StartWaitingTasks(g) \/ StartWaitingNothing(g)
  <2>1. UNCHANGED queued
    BY <1>5 DEF StartWaitingTasks, StartWaitingNothing
  <2>2. QED
    BY <1>1, <1>3, <1>4, <2>1, AtWork, Unstirred
<1>6. CASE QueueServiceAction(g)
  <2>1. QueuedHaveServices'
    <3>1. \A h \in Groups : h # g => queued'[h] = queued[h]
      <4>1. queued \in [Groups -> [start : Nat, restart : Nat]]
        BY DEF IInv, TypeOK
      <4>2. QED
        BY <1>6, <4>1 DEF QueueServiceAction
    <3>2. ~TaskOnly /\ Services[g] # {}
      BY <1>6 DEF QueueServiceAction
    <3>3. QED
      BY <3>1, <3>2 DEF Ledger, QueuedHaveServices, HasQueued
  <2>2. todo' \in Seq(Proper')
    BY <1>3, <1>4, ProperStays
  <2>3. EntriesAreDependencies' /\ DeferredAreStarted' /\ CascadesUnlessReloaded' /\ IdleIsIdle'
    <3>1. IdleIsIdle'
      BY <1>1, AtWork
    <3>2. EntriesAreDependencies' /\ DeferredAreStarted' /\ CascadesUnlessReloaded'
      BY <1>1 DEF Ledger, EntriesAreDependencies, DeferredAreStarted, CascadesUnlessReloaded
    <3>3. QED
      BY <3>1, <3>2
  <2>4. QED
    BY <2>1, <2>2, <2>3 DEF Ledger
<1>7. QED
  BY <1>5, <1>6

LEMMA SkippingIsCalm ==
  ASSUME IInv, NEW S, NEW own \in {"Failed", "Skipped"}, SkipBehind(S, own),
         UNCHANGED services_started
  PROVE  Calm
<1>1. \A d \in Groups : waiting'[d] \subseteq waiting[d]
  BY DEF SkipBehind, WaitingAfterSkip, StopWaitingFor
<1>2. \A d \in Groups : status'[d] \in {status[d], "Skipped", own}
  BY DEF SkipBehind, StatusAfterSkip
<1>3. QED
  BY <1>1, <1>2 DEF Calm

LEMMA SkipsLedger ==
  ASSUME EngineAssumption, IInv, Ledger, Skip \/ \E g \in Groups : Fail(g)
  PROVE  Ledger'
<1>1. UNCHANGED <<services_started, pending_ready, suppress, queued, job>>
  BY DEF Skip, Fail
<1>2. Calm /\ todo' \in Seq(Proper) /\ IdleIsIdle'
  <2>1. CASE Skip
    <3>1. Calm
      BY <1>1, <2>1, SkippingIsCalm DEF Skip
    <3>2. todo' \in Seq(Proper)
      BY <2>1, ProperFacts DEF Skip, Ledger
    <3>3. IdleIsIdle'
      BY <1>1, <2>1, AtWork DEF Skip
    <3>4. QED
      BY <3>1, <3>2, <3>3
  <2>2. ASSUME NEW g \in Groups, Fail(g) PROVE Calm /\ todo' \in Seq(Proper) /\ IdleIsIdle'
    <3>1. Calm
      BY <1>1, <2>2, SkippingIsCalm DEF Fail
    <3>2. todo' \in Seq(Proper)
      BY <2>2, ProperLoopGoesOn DEF Fail, Ledger, LoopKinds
    <3>3. IdleIsIdle'
      BY <1>1, <2>2, AtWork DEF Fail
    <3>4. QED
      BY <3>1, <3>2, <3>3
  <2>3. QED
    BY <2>1, <2>2
<1>3. QED
  BY <1>1, <1>2, Unstirred

LEMMA CascadeLedger ==
  ASSUME EngineAssumption, IInv, Ledger, NEW g \in Groups,
         CascadeTasks(g) \/ CascadeServices(g) \/ CascadeNothing(g)
  PROVE  Ledger'
<1>1. /\ Doing("cascade") /\ g \in Now.groups
      /\ UNCHANGED <<waiting, services_started, pending_ready, suppress, queued, job>>
  BY DEF CascadeTasks, CascadeServices, CascadeNothing, resolver, groupVars
<1>2. After(g) \in Seq(Proper)
  BY <1>1, ProperLoopGoesOn DEF LoopKinds, Ledger
<1>3. Calm
  <2>1. status' = [status EXCEPT ![g] = "Running"] \/ UNCHANGED status
    BY DEF CascadeTasks, CascadeServices, CascadeNothing, SpawnGroupTasks, groupVars
  <2>2. QED
    BY <1>1, <2>1, ReadyIsCalm
<1>4. todo' \in Seq(Proper)
  <2>1. Dependents(g) \in SUBSET Groups
    BY DEF Dependents
  <2>2. Loop("cascade", Dependents(g)) \o After(g) \in Seq(Proper)
    BY <1>2, <2>1, LoopsAreBare, BareIsProper, Concatenated DEF LoopKinds
  <2>3. todo' \in {After(g), Loop("cascade", Dependents(g)) \o After(g)}
    BY DEF CascadeTasks, CascadeServices, CascadeNothing
  <2>4. QED
    BY <1>2, <2>2, <2>3
<1>5. QED
  BY <1>1, <1>3, <1>4, AtWork, Unstirred

-----------------------------------------------------------------------------
LEMMA EachOfAppended ==
  ASSUME NEW S, NEW q \in Seq(S), NEW x \in S, NEW k \in DOMAIN Append(q, x)
  PROVE  Append(q, x)[k] = x \/ (k \in DOMAIN q /\ Append(q, x)[k] = q[k])
OBVIOUS

LEMMA GroupsOfTasks ==
  ASSUME NEW t \in Tasks
  PROVE  GroupOfTask(t) \in Groups /\ t \in TasksOf(GroupOfTask(t))
<1>1. \E h \in Groups : t \in TasksOf(h)
  BY DEF Tasks, TasksOf
<1>2. QED
  BY <1>1 DEF GroupOfTask

LEMMA AppendedIsProper ==
  ASSUME NEW x \in DrainItems, x \in Proper', NEW a \in Actions, ProperAct(a)'
  PROVE  [x EXCEPT !.actions = Append(@, a)] \in Proper'
<1>1. PICK y \in DrainItems :
        y = [x EXCEPT !.actions = Append(@, a)] /\ y.actions = Append(x.actions, a)
  <2>1. [x EXCEPT !.actions = Append(@, a)].actions = Append(x.actions, a)
    BY DEF DrainItems
  <2>2. QED
    BY <2>1, AppendedActions
<1>2. y \in Items /\ y.do = "drain" /\ x.do = "drain"
  BY DEF DrainItems, Items
<1>3. x.actions \in Seq(Actions)
  BY DEF DrainItems
<1>4. ASSUME NEW k \in DOMAIN y.actions PROVE ProperAct(y.actions[k])'
  <2>1. PICK b : b = y.actions[k]
    OBVIOUS
  <2>2. b = a \/ (k \in DOMAIN x.actions /\ b = x.actions[k])
    BY <1>1, <1>3, <2>1, EachOfAppended
  <2>3. CASE b = a
    BY <2>1, <2>3 DEF ProperAct
  <2>4. CASE k \in DOMAIN x.actions /\ b = x.actions[k]
    <3>1. ProperAct(x.actions[k])'
      BY <1>2, <2>4 DEF Proper
    <3>2. QED
      BY <2>1, <2>4, <3>1
  <2>5. QED
    BY <2>2, <2>3, <2>4
<1>5. y \in Proper'
  BY <1>2, <1>4 DEF Proper
<1>6. QED
  BY <1>1, <1>5

LEMMA DrainStaysProper ==
  ASSUME EngineAssumption, IInv, Ledger, Doing("drain"), Calm, NEW a \in Actions,
         ProperAct(a)'
  PROVE  <<[Now EXCEPT !.actions = Append(@, a)]>> \o Tail(todo) \in Seq(Proper')
<1>1. Now \in Proper /\ Now.do = "drain" /\ Tail(todo) \in Seq(Proper) /\ Now \in DrainItems
  BY ProperFacts, KindsOfItems DEF Ledger, DrainItems
<1>2. Now \in Proper' /\ Tail(todo) \in Seq(Proper')
  BY <1>1, ProperStays
<1>3. PICK x \in DrainItems : x = Now
  BY <1>1
<1>4. [x EXCEPT !.actions = Append(@, a)] \in Proper'
  BY <1>2, <1>3, AppendedIsProper
<1>5. QED
  BY <1>2, <1>3, <1>4, Single, Concatenated

LEMMA DrainTaskLedger ==
  ASSUME EngineAssumption, IInv, Ledger, NEW t \in Tasks, DrainTask(t)
  PROVE  Ledger'
<1>1. PICK g \in Groups : g = GroupOfTask(t) /\ t \in TasksOf(g)
  BY GroupsOfTasks
<1> DEFINE last  == \A u \in TasksOf(g) \ {t} : ~InFlight(u)
           broke == FailedAfter(t) \cap TasksOf(g) # {}
<1>2. PICK a \in Actions :
        a = [group |-> g, start |-> ~services_started[g], cascade |-> g \notin suppress]
  <2>1. (~services_started[g]) \in BOOLEAN /\ (g \notin suppress) \in BOOLEAN
    OBVIOUS
  <2>2. [group |-> g, start |-> ~services_started[g], cascade |-> g \notin suppress] \in Actions
    BY <2>1 DEF Actions
  <2>3. QED
    BY <2>2
<1>3. /\ Doing("drain")
      /\ status' = IF last THEN [status EXCEPT ![g] = IF broke THEN "Failed" ELSE "Ready"]
                   ELSE status
      /\ suppress' = IF last THEN suppress \ {g} ELSE suppress
      /\ todo' = CASE last /\ broke  -> <<[Now EXCEPT !.failed = @ \cup {g}]>> \o Tail(todo)
                   [] last /\ ~broke -> <<[Now EXCEPT !.actions = Append(@, a)]>> \o Tail(todo)
                   [] OTHER          -> todo
      /\ UNCHANGED <<waiting, services_started, pending_ready, queued, job>>
  BY <1>1, <1>2 DEF DrainTask, resolver
<1> HIDE DEF last, broke
<1>4. status \in StatusMap
  BY DEF IInv, TypeOK
<1>5. Calm
  <2>1. \A d \in Groups : status'[d] \in {status[d], "Failed", "Ready"}
    BY <1>3, <1>4 DEF StatusMap
  <2>2. QED
    BY <1>3, <2>1 DEF Calm
<1>6. CascadesUnlessReloaded'
  BY <1>3 DEF Ledger, CascadesUnlessReloaded
<1>7. last /\ ~broke => ProperAct(a)'
  <2>1. a.group = g /\ a.cascade = (g \notin suppress)
    BY <1>2
  <2>2. NoReload => a.cascade
    BY <2>1 DEF Ledger, CascadesUnlessReloaded
  <2>3. last /\ ~broke => status'[g] = "Ready"
    BY <1>3, <1>4 DEF StatusMap
  <2>4. QED
    BY <1>1, <2>1, <2>2, <2>3 DEF ProperAct
<1>8. todo' \in Seq(Proper')
  <2>1. CASE last /\ ~broke
    <3>1. <<[Now EXCEPT !.actions = Append(@, a)]>> \o Tail(todo) \in Seq(Proper')
      BY <1>3, <1>5, <1>7, <2>1, DrainStaysProper
    <3>2. QED
      BY <1>3, <2>1, <3>1
  <2>2. CASE last /\ broke
    <3>1. Now \in Proper /\ Tail(todo) \in Seq(Proper) /\ Now \in DrainItems /\ Now.do = "drain"
      BY <1>3, ProperFacts, KindsOfItems DEF Ledger, DrainItems
    <3> DEFINE x == [Now EXCEPT !.failed = @ \cup {g}]
    <3>2. x \in DrainItems /\ x.actions = Now.actions
      BY <3>1 DEF DrainItems
    <3>3. todo' = <<x>> \o Tail(todo)
      BY <1>3, <2>2
    <3> HIDE DEF x
    <3>4. x \in Proper
      BY <3>1, <3>2 DEF Proper, DrainItems, Items
    <3>5. <<x>> \o Tail(todo) \in Seq(Proper)
      BY <3>1, <3>4, Single, Concatenated
    <3>6. QED
      BY <1>5, <3>3, <3>5, ProperStays
  <2>3. CASE ~last
    <3>1. todo' = todo /\ todo \in Seq(Proper)
      BY <1>3, <2>3 DEF Ledger
    <3>2. QED
      BY <1>5, <3>1, ProperStays
  <2>4. QED
    BY <2>1, <2>2, <2>3
<1>9. /\ EntriesAreDependencies' /\ QueuedHaveServices' /\ DeferredAreStarted' /\ IdleIsIdle'
  <2>1. EntriesAreDependencies' /\ QueuedHaveServices' /\ DeferredAreStarted'
    BY <1>3 DEF Ledger, EntriesAreDependencies, QueuedHaveServices, DeferredAreStarted, HasQueued
  <2>2. QED
    BY <1>3, <2>1, AtWork
<1>10. QED
  BY <1>6, <1>8, <1>9 DEF Ledger

LEMMA NothingNewIsQueued ==
  ASSUME IInv, NEW g \in Groups, NEW kind \in {"start", "restart"}, queued[g][kind] > 0,
         queued' = [queued EXCEPT ![g][kind] = @ - 1]
  PROVE  HasQueued(g) /\ \A h \in Groups \ {g} : queued'[h] = queued[h]
<1>1. queued \in [Groups -> [start : Nat, restart : Nat]]
  BY DEF IInv, TypeOK
<1>2. \A h \in Groups \ {g} : queued'[h] = queued[h]
  BY <1>1
<1>3. HasQueued(g)
  <2>1. SUFFICES ASSUME queued[g] = [start |-> 0, restart |-> 0]
                 PROVE  FALSE
    BY DEF HasQueued
  <2>2. queued[g][kind] = 0
    BY <2>1
  <2>3. QED
    BY <2>2
<1>4. QED
  BY <1>2, <1>3

LEMMA DrainQueuedLedger ==
  ASSUME EngineAssumption, IInv, Ledger, NEW g \in Groups, DrainQueued(g)
  PROVE  Ledger'
<1>1. Doing("drain") /\ UNCHANGED <<resolver, groupVars, job>>
  BY DEF DrainQueued
<1>2. PICK kind \in {"start", "restart"} :
        /\ queued[g][kind] > 0
        /\ queued' = [queued EXCEPT ![g][kind] = @ - 1]
        /\ todo' = <<[Now EXCEPT !.actions =
                        Append(@, [group |-> g, start |-> kind = "start", cascade |-> TRUE])]>>
                     \o Tail(todo)
  BY DEF DrainQueued
<1>3. PICK a \in Actions : a = [group |-> g, start |-> kind = "start", cascade |-> TRUE]
  <2>1. (kind = "start") \in BOOLEAN
    OBVIOUS
  <2>2. QED
    BY <2>1 DEF Actions
<1>4. Calm
  BY <1>1, StillIsCalm DEF Still, resolver, groupVars
<1>5. HasQueued(g) /\ \A h \in Groups \ {g} : queued'[h] = queued[h]
  BY <1>2, NothingNewIsQueued
<1>6. Services[g] # {} /\ ~TaskOnly
  BY <1>5 DEF Ledger, QueuedHaveServices
<1>7. ProperAct(a)'
  <2>1. a.group = g /\ a.cascade = TRUE
    BY <1>3
  <2>2. QED
    BY <1>6, <2>1 DEF ProperAct
<1>8. todo' \in Seq(Proper')
  <2>1. <<[Now EXCEPT !.actions = Append(@, a)]>> \o Tail(todo) \in Seq(Proper')
    BY <1>1, <1>4, <1>7, DrainStaysProper
  <2>2. QED
    BY <1>2, <1>3, <2>1
<1>9. QueuedHaveServices'
  BY <1>5, <1>6 DEF Ledger, QueuedHaveServices, HasQueued
<1>10. EntriesAreDependencies' /\ DeferredAreStarted' /\ CascadesUnlessReloaded' /\ IdleIsIdle'
  <2>1. EntriesAreDependencies' /\ DeferredAreStarted' /\ CascadesUnlessReloaded'
    BY <1>1 DEF Ledger, EntriesAreDependencies, DeferredAreStarted, CascadesUnlessReloaded,
       resolver, groupVars
  <2>2. QED
    BY <1>1, <2>1, AtWork
<1>11. QED
  BY <1>8, <1>9, <1>10 DEF Ledger

LEMMA DrainEndsLedger ==
  ASSUME EngineAssumption, IInv, Ledger, DrainEnds
  PROVE  Ledger'
<1>1. Doing("drain") /\ UNCHANGED <<resolver, groupVars, queued, job>>
  BY DEF DrainEnds
<1>2. /\ Now \in Proper /\ Tail(todo) \in Seq(Proper) /\ Now \in DrainItems
      /\ Now.do = "drain"
  BY <1>1, ProperFacts, KindsOfItems DEF Ledger, DrainItems
<1>3. PICK acts \in Seq(Actions), f \in SUBSET Groups :
        acts = Now.actions /\ f = Now.failed
  BY <1>2 DEF DrainItems
<1>4. \A k \in DOMAIN acts : ProperAct(acts[k])
  BY <1>2, <1>3 DEF Proper
<1> DEFINE q == [i \in DOMAIN acts |-> [do |-> "act", action |-> acts[i]]]
<1>5. q \in Seq(Proper)
  BY <1>4, ProperActsAreProper
<1>6. Loop("fail", f) \in Seq(Proper)
  BY LoopsAreBare, BareIsProper DEF LoopKinds
<1>7. todo' = Loop("fail", f) \o q \o Tail(todo)
  BY <1>3 DEF DrainEnds
<1> HIDE DEF q
<1>8. todo' \in Seq(Proper)
  BY <1>2, <1>5, <1>6, <1>7, Concatenated
<1>9. QED
  BY <1>1, <1>8, StackRestacked

LEMMA ActLedger ==
  ASSUME EngineAssumption, IInv, Ledger, ActServices \/ ActNothing
  PROVE  Ledger'
<1>1. Doing("act") /\ UNCHANGED <<resolver, groupVars, queued, job>>
  BY DEF ActServices, ActNothing
<1>2. /\ Now \in Proper /\ Tail(todo) \in Seq(Proper) /\ Now.do = "act"
      /\ Now \in [do : {"act"}, action : Actions]
  BY <1>1, ProperFacts, KindsOfItems DEF Ledger
<1>3. PICK a \in Actions : a = Now.action
  BY <1>2
<1>4. ProperAct(a) /\ a.group \in Groups /\ a.start \in BOOLEAN /\ a.cascade \in BOOLEAN
  BY <1>2, <1>3 DEF Proper, Actions
<1>5. CASE ActServices
  <2>1. Serve(a.group, a.start, "Later", a.cascade) \in Seq(Proper)
    BY <1>4, ServesAreProper DEF ProperAct
  <2>2. QED
    BY <1>1, <1>2, <1>3, <1>5, <2>1, Concatenated, StackRestacked DEF ActServices
<1>6. CASE ActNothing
  <2>1. PICK g \in Groups : g = a.group
    BY <1>4
  <2>2. Services[g] = {}
    BY <1>3, <1>6, <2>1 DEF ActNothing
  <2>3. Propagate(g, Phase(g, services_started[g]), a.cascade) \in Seq(Proper)
    BY <2>2, PropagationIsProper
  <2>4. todo' = Propagate(g, Phase(g, services_started[g]), a.cascade) \o Tail(todo)
    BY <1>3, <1>6, <2>1 DEF ActNothing
  <2>5. QED
    BY <1>1, <1>2, <2>3, <2>4, Concatenated, StackRestacked
<1>7. QED
  BY <1>5, <1>6

LEMMA WatchLedger ==
  ASSUME EngineAssumption, IInv, Ledger,
         NoChange \/ \E affected \in SUBSET Groups : Change(affected)
  PROVE  Ledger'
<1>1. Doing("watch") /\ UNCHANGED <<resolver, groupVars, queued, job>>
  BY DEF NoChange, Change
<1>2. Tail(todo) \in Seq(Proper)
  BY <1>1, ProperFacts DEF Ledger
<1>3. ASSUME NEW affected \in SUBSET Groups
      PROVE  Exec(Roots(affected), TRUE, TRUE) \o Tail(todo) \in Seq(Proper)
  <2>1. Roots(affected) \in SUBSET Groups
    BY DEF Roots
  <2>2. QED
    BY <1>2, <2>1, ExecsAreBare, BareIsProper, Concatenated
<1>4. todo' \in Seq(Proper)
  BY <1>2, <1>3 DEF NoChange, Change
<1>5. QED
  BY <1>1, <1>4, StackRestacked

-----------------------------------------------------------------------------
LEMMA SupervisedAreBare ==
  ASSUME EngineAssumption, IInv, Ledger, Doing("supervise")
  PROVE  /\ Now.group \in Groups /\ Tail(todo) \in Seq(Proper)
         /\ \A s \in AllServices :
              /\ Looked(s) \in Seq(Proper)
              /\ <<[Now EXCEPT !.at = {s}]>> \o Tail(todo) \in Seq(Proper)
<1>1. Now \in SuperviseItems /\ Tail(todo) \in Seq(Proper)
  BY ProperFacts, KindsOfItems DEF SuperviseItems, Ledger
<1>2. ASSUME NEW x \in SuperviseItems PROVE <<x>> \o Tail(todo) \in Seq(Proper)
  <2>1. x \in Bare
    BY DEF SuperviseItems, Bare, Items
  <2>2. <<x>> \in Seq(Proper)
    BY <2>1, Single, BareIsProper
  <2>3. QED
    BY <1>1, <2>2, Concatenated
<1>3. ASSUME NEW s \in AllServices
      PROVE  /\ [Now EXCEPT !.left = @ \ {s}, !.at = {}] \in SuperviseItems
             /\ [Now EXCEPT !.at = {s}] \in SuperviseItems
  BY <1>1 DEF SuperviseItems
<1>4. Now.group \in Groups
  BY <1>1 DEF SuperviseItems
<1>5. QED
  BY <1>1, <1>2, <1>3, <1>4 DEF Looked

LEMMA CheckLedger ==
  ASSUME EngineAssumption, IInv, Ledger,
         \/ \E g \in Groups : CheckGroup(g)
         \/ RespawnFails \/ GroupLooked
         \/ \E s \in AllServices : RespawnDue(s) \/ RespawnLater(s) \/ NothingToDo(s)
  PROVE  Ledger'
<1>1. UNCHANGED <<resolver, groupVars, queued, job>>
  BY DEF CheckGroup, RespawnFails, GroupLooked, RespawnDue, RespawnLater, NothingToDo
<1>2. ASSUME NEW g \in Groups, CheckGroup(g) PROVE Ledger'
  <2>1. After(g) \in Seq(Proper) /\ Supervise(g) \in Seq(Proper)
    BY <1>2, ProperLoopGoesOn, SinglesAreBare, BareIsProper DEF CheckGroup, LoopKinds, Ledger
  <2>2. QED
    BY <1>1, <1>2, <2>1, Concatenated, StackRestacked DEF CheckGroup
<1>3. CASE RespawnFails
  <2>1. todo' \in Seq(Proper)
    BY <1>3 DEF RespawnFails
  <2>2. QED
    BY <1>1, <1>3, <2>1, StackRestacked DEF RespawnFails
<1>4. CASE GroupLooked
  <2> DEFINE ok == \A s \in Services[Now.group] : service_status[s] # "Failed"
  <2>1. Now.group \in Groups /\ Tail(todo) \in Seq(Proper)
    BY <1>4, SupervisedAreBare DEF GroupLooked
  <2>2. ok \in BOOLEAN
    OBVIOUS
  <2>3. todo' = Tail(todo) \o (IF pending_ready[Now.group] # None /\ ~AwaitsReadiness(Now.group)
                               THEN Settle(Now.group, ok) ELSE <<>>)
    BY <1>4 DEF GroupLooked
  <2> HIDE DEF ok
  <2>4. Settle(Now.group, ok) \in Seq(Proper)
    BY <2>1, <2>2, SinglesAreBare, BareIsProper
  <2>5. Tail(todo) \o Settle(Now.group, ok) \in Seq(Proper) /\ Tail(todo) \o <<>> \in Seq(Proper)
    BY <2>1, <2>4, Concatenated
  <2>6. todo' \in Seq(Proper)
    BY <2>3, <2>5
  <2>7. QED
    BY <1>1, <1>4, <2>6, StackRestacked DEF GroupLooked
<1>5. ASSUME NEW s \in AllServices, RespawnDue(s) \/ RespawnLater(s) \/ NothingToDo(s)
      PROVE  Ledger'
  <2>1. Doing("supervise")
    BY <1>5 DEF RespawnDue, RespawnLater, NothingToDo, Looking
  <2>2. todo' \in Seq(Proper)
    BY <1>5, <2>1, SupervisedAreBare DEF RespawnDue, RespawnLater, NothingToDo
  <2>3. QED
    BY <1>1, <2>1, <2>2, StackRestacked
<1>6. QED
  BY <1>2, <1>3, <1>4, <1>5

LEMMA SuperviseLedger ==
  ASSUME EngineAssumption, IInv, Ledger, NEW s \in AllServices,
         \/ Respawn(s) \/ RespawnDropped(s) \/ NoticeExit(s)
         \/ \E passed \in BOOLEAN : ReadinessAnswers(s, passed)
  PROVE  Ledger'
<1>1. /\ Doing("supervise") /\ todo' = Looked(s)
      /\ UNCHANGED <<resolver, groupVars, queued, job>>
  BY DEF Respawn, RespawnDropped, NoticeExit, ReadinessAnswers, Looking
<1>2. todo' \in Seq(Proper)
  BY <1>1, SupervisedAreBare
<1>3. QED
  BY <1>1, <1>2, StackRestacked

LEMMA SettleLedger ==
  ASSUME EngineAssumption, IInv, Ledger, SettleReady \/ SettleFailed
  PROVE  Ledger'
<1>1. /\ Doing("settle")
      /\ UNCHANGED <<services_started, suppress, queued, job>>
      /\ pending_ready' = [pending_ready EXCEPT ![Now.group] = None]
  BY DEF SettleReady, SettleFailed
<1>2. Tail(todo) \in Seq(Proper) /\ Now.group \in Groups
  <2>1. Now \in [do : {"settle"}, group : Groups, ok : BOOLEAN] /\ Tail(todo) \in Seq(Proper)
    BY <1>1, ProperFacts, KindsOfItems DEF Ledger
  <2>2. QED
    BY <2>1
<1>3. PICK g \in Groups : g = Now.group
  BY <1>2
<1>4. /\ status \in StatusMap
      /\ pending_ready \in [Groups -> [phase : Phases, cascade : BOOLEAN] \cup {None}]
  BY DEF IInv, TypeOK
<1>5. \A h \in Groups : pending_ready'[h] \in {pending_ready[h], None}
  BY <1>1, <1>3, <1>4
<1>6. CascadesUnlessReloaded' /\ DeferredAreStarted'
  <2>1. CascadesUnlessReloaded'
    BY <1>1, <1>5 DEF Ledger, CascadesUnlessReloaded
  <2>2. DeferredAreStarted'
    BY <1>1, <1>5 DEF Ledger, DeferredAreStarted
  <2>3. QED
    BY <2>1, <2>2
<1>7. Calm /\ todo' \in Seq(Proper)
  <2>1. CASE SettleReady
    <3>1. UNCHANGED waiting /\ (status' = [status EXCEPT ![g] = "Ready"] \/ UNCHANGED status)
      BY <1>3, <2>1 DEF SettleReady, resolver
    <3>2. \/ todo' = Tail(todo)
          \/ /\ pending_ready[g] # None
             /\ todo' = Propagate(g, pending_ready[g].phase, pending_ready[g].cascade)
                          \o Tail(todo)
      BY <1>3, <2>1 DEF SettleReady
    <3>3. pending_ready[g] # None =>
            Propagate(g, pending_ready[g].phase, pending_ready[g].cascade) \in Seq(Proper)
      BY PropagationIsProper DEF Ledger, DeferredAreStarted
    <3>4. pending_ready[g] # None =>
            Propagate(g, pending_ready[g].phase, pending_ready[g].cascade) \o Tail(todo)
              \in Seq(Proper)
      BY <1>2, <3>3, Concatenated
    <3>5. todo' \in Seq(Proper)
      BY <1>2, <3>2, <3>4
    <3>6. QED
      BY <1>1, <3>1, <3>5, ReadyIsCalm
  <2>2. CASE SettleFailed
    <3>1. \/ UNCHANGED <<resolver, status>>
          \/ SkipBehind({g}, "Failed")
      BY <1>3, <2>2 DEF SettleFailed
    <3>2. UNCHANGED <<resolver, status>> => Calm
      BY <1>1, StillIsCalm DEF Still, resolver
    <3>3. SkipBehind({g}, "Failed") => Calm
      BY <1>1, SkippingIsCalm
    <3>4. todo' = Tail(todo)
      BY <2>2 DEF SettleFailed
    <3>5. QED
      BY <1>2, <3>1, <3>2, <3>3, <3>4
  <2>3. QED
    BY <2>1, <2>2
<1>8. todo' \in Seq(Proper')
  BY <1>7, ProperStays
<1>9. EntriesAreDependencies' /\ QueuedHaveServices' /\ IdleIsIdle'
  <2>1. EntriesAreDependencies'
    BY <1>7 DEF Ledger, Calm, EntriesAreDependencies
  <2>2. QueuedHaveServices'
    BY <1>1 DEF Ledger, QueuedHaveServices, HasQueued
  <2>3. QED
    BY <1>1, <2>1, <2>2, AtWork
<1>10. QED
  BY <1>6, <1>8, <1>9 DEF Ledger

-----------------------------------------------------------------------------
LEMMA RequestLedger ==
  ASSUME EngineAssumption, IInv, Ledger, Request
  PROVE  Ledger'
<1>1. IdleIsIdle'
  BY DEF Request, StatusRequest, RestartAll, RestartGroup, RestartTask, RestartService,
     ReloadConfig, TakeRequest, IdleIsIdle
<1>2. CASE \/ StatusRequest
           \/ \E g \in Groups : RestartGroup(g)
           \/ \E t \in Tasks : RestartTask(t)
           \/ \E s \in AllServices : RestartService(s)
  <2>1. UNCHANGED <<resolver, groupVars, queued>>
    BY <1>2 DEF StatusRequest, RestartGroup, RestartTask, RestartService
  <2>2. todo' \in Seq(Proper)
    <3>1. ASSUME NEW g \in Groups PROVE Exec({g}, FALSE, TRUE) \in Seq(Proper)
      BY ExecsAreBare, BareIsProper
    <3>2. ASSUME NEW g PROVE Loop("cascade", Dependents(g)) \in Seq(Proper)
      <4>1. Dependents(g) \in SUBSET Groups
        BY DEF Dependents
      <4>2. QED
        BY <4>1, LoopsAreBare, BareIsProper DEF LoopKinds
    <3>3. \/ todo' = <<>>
          \/ \E g \in Groups : todo' = Exec({g}, FALSE, TRUE)
          \/ \E g : todo' = Loop("cascade", Dependents(g))
      BY <1>2 DEF StatusRequest, RestartGroup, RestartTask, RestartService
    <3>4. CASE todo' = <<>>
      BY <3>4
    <3>5. CASE \E g \in Groups : todo' = Exec({g}, FALSE, TRUE)
      BY <3>1, <3>5
    <3>6. CASE \E g : todo' = Loop("cascade", Dependents(g))
      BY <3>2, <3>6, Zenon
    <3>7. QED
      BY <3>3, <3>4, <3>5, <3>6
  <2>3. Calm /\ UNCHANGED <<pending_ready, suppress, queued>>
    BY <2>1, StillIsCalm DEF Still, resolver, groupVars
  <2>4. QED
    BY <1>1, <2>2, <2>3, Unstirred
<1>3. CASE RestartAll
  <2>1. todo' \in Seq(Proper') /\ EntriesAreDependencies'
    BY <1>3, WaveIsProper DEF RestartAll
  <2>2. UNCHANGED <<services_started, pending_ready, suppress, queued>>
    BY <1>3 DEF RestartAll
  <2>3. CascadesUnlessReloaded' /\ QueuedHaveServices' /\ DeferredAreStarted'
    BY <2>2 DEF Ledger, CascadesUnlessReloaded, QueuedHaveServices, HasQueued,
       DeferredAreStarted
  <2>4. QED
    BY <1>1, <2>1, <2>3 DEF Ledger
<1>4. ASSUME NEW M \in SUBSET Groups, ReloadConfig(M) PROVE Ledger'
  <2>1. /\ ~NoReload
        /\ waiting' = [g \in Groups |-> {}]
        /\ services_started' = [g \in Groups |-> g \notin M /\ services_started[g]]
        /\ pending_ready' = [g \in Groups |-> IF g \in M THEN None ELSE pending_ready[g]]
        /\ todo' = Exec(M, FALSE, FALSE)
        /\ UNCHANGED queued
    BY <1>4 DEF ReloadConfig, TakeRequest, NoReload
  <2>2. todo' \in Seq(Proper')
    BY <2>1, ExecsAreBare, BareIsProper
  <2>3. CascadesUnlessReloaded' /\ EntriesAreDependencies' /\ QueuedHaveServices'
    BY <2>1 DEF Ledger, CascadesUnlessReloaded, EntriesAreDependencies, QueuedHaveServices,
       HasQueued
  <2>4. DeferredAreStarted'
    BY <2>1 DEF Ledger, DeferredAreStarted
  <2>5. QED
    BY <1>1, <2>2, <2>3, <2>4 DEF Ledger
<1>5. QED
  BY <1>2, <1>3, <1>4 DEF Request

LEMMA WorldLedger ==
  ASSUME IInv, Ledger, World \/ UNCHANGED vars
  PROVE  Ledger'
<1>1. UNCHANGED <<resolver, groupVars, queued, job, todo>>
  BY DEF World, TaskEnds, ServiceExits, vars
<1>2. Calm /\ UNCHANGED <<pending_ready, suppress, queued>>
  BY <1>1, StillIsCalm DEF Still, resolver, groupVars
<1>3. todo' \in Seq(Proper) /\ IdleIsIdle'
  BY <1>1 DEF Ledger, IdleIsIdle
<1>4. QED
  BY <1>2, <1>3, Unstirred

LEMMA LedgerStays ==
  ASSUME EngineAssumption, ~ServeFails, IInv, Ledger, [Next]_vars
  PROVE  Ledger'
<1>1. CASE EngineStep
  <2>1. CASE Startup \/ Finish \/ Poll
    BY <2>1, LoopLedger
  <2>2. CASE \E g \in Groups : ExecTasks(g) \/ ExecNothing(g) \/ ExecServices(g)
    BY <2>2, ExecLedger
  <2>3. CASE \E s \in AllServices :
              \/ ServeSignal(s) \/ ServeBegin(s) \/ ServeStart(s) \/ ServeSkips(s)
    BY <2>3, ServeLedger
  <2>4. CASE ServeDone
    BY <2>4, ServeDoneLedger
  <2>5. CASE ServeFails
    BY <2>5
  <2>6. CASE \E g \in Groups : Trigger(g)
    BY <2>6, TriggerLedger
  <2>7. CASE \E g \in Groups :
               StartWaitingTasks(g) \/ StartWaitingNothing(g) \/ QueueServiceAction(g)
    BY <2>7, StartWaitingLedger
  <2>8. CASE Skip \/ \E g \in Groups : Fail(g)
    BY <2>8, SkipsLedger
  <2>9. CASE \E g \in Groups : CascadeTasks(g) \/ CascadeServices(g) \/ CascadeNothing(g)
    BY <2>9, CascadeLedger
  <2>10. CASE DrainEnds \/ \E t \in Tasks : DrainTask(t)
    BY <2>10, DrainEndsLedger, DrainTaskLedger
  <2>11. CASE \E g \in Groups : DrainQueued(g)
    BY <2>11, DrainQueuedLedger
  <2>12. CASE ActServices \/ ActNothing
    BY <2>12, ActLedger
  <2>13. CASE NoChange \/ \E affected \in SUBSET Groups : Change(affected)
    BY <2>13, WatchLedger
  <2>14. CASE \/ \E g \in Groups : CheckGroup(g)
              \/ RespawnFails \/ GroupLooked
              \/ \E s \in AllServices : RespawnDue(s) \/ RespawnLater(s) \/ NothingToDo(s)
    BY <2>14, CheckLedger
  <2>15. CASE \E s \in AllServices :
                \/ Respawn(s) \/ RespawnDropped(s) \/ NoticeExit(s)
                \/ \E passed \in BOOLEAN : ReadinessAnswers(s, passed)
    BY <2>15, SuperviseLedger
  <2>16. CASE SettleReady \/ SettleFailed
    BY <2>16, SettleLedger
  <2>17. QED
    BY <1>1, <2>1, <2>2, <2>3, <2>4, <2>5, <2>6, <2>7, <2>8, <2>9, <2>10, <2>11, <2>12, <2>13,
       <2>14, <2>15, <2>16 DEF EngineStep
<1>2. CASE Request
  BY <1>2, RequestLedger
<1>3. CASE World \/ UNCHANGED vars
  BY <1>3, WorldLedger
<1>4. QED
  BY <1>1, <1>2, <1>3 DEF Next, Done

LEMMA LedgerAtFirst == Init => Ledger
BY DEF Init, Ledger, CascadesUnlessReloaded, EntriesAreDependencies, QueuedHaveServices,
   HasQueued, DeferredAreStarted, IdleIsIdle, None

-----------------------------------------------------------------------------
(***************************************************************************)
(* No lost wakeup.  A group the stack calls for, or whose service action   *)
(* is in the channel, is going to be heard of; so is one with a task in    *)
(* flight, though its status may not follow.  Of all the others it can be  *)
(* said what they wait for.                                                *)
(***************************************************************************)
Working(d) == \E t \in TasksOf(d) : InFlight(t)

Voiced(d) == Names(todo, d) \/ HasQueued(d)

\* a deferred transition that will release those who wait for the group
Held(d) == pending_ready[d].phase = "Startup" /\ status[d] # "Ready"

Listed(d) == NoReload /\ status[d] = "Waiting" => waiting[d] # {}

Quiet(d) ==
  /\ NoReload /\ Awaited(d) => waiting[d] # {} \/ Held(d)
  /\ status[d] = "Pending" => job = "new"
  /\ ~TaskOnly /\ status[d] = "Ready" /\ Services[d] # {} => services_started[d]

Awake(d) == (Voiced(d) \/ Listed(d)) /\ (Voiced(d) \/ Working(d) \/ Quiet(d))

Wakes == \A d \in Groups : Awake(d)

(***************************************************************************)
(* A group a step does not touch stays awake.                              *)
(***************************************************************************)
Unmoved(d) ==
  /\ status'[d] = status[d] /\ pending_ready'[d] = pending_ready[d]
  /\ services_started[d] => services_started'[d]
  /\ \A h \in Groups : waiting'[h] \subseteq waiting[h]
  /\ waiting[d] # {} => waiting'[d] # {}
  /\ UNCHANGED job \/ job # "new"

LEMMA QuietStays ==
  ASSUME NEW d \in Groups, Unmoved(d)
  PROVE  (Quiet(d) => Quiet(d)') /\ (Listed(d) => Listed(d)')
<1>1. Awaited(d)' => Awaited(d)
  BY DEF Unmoved, Awaited
<1>2. Quiet(d) => Quiet(d)'
  BY <1>1 DEF Unmoved, Quiet, Held
<1>3. Listed(d) => Listed(d)'
  BY DEF Unmoved, Listed
<1>4. QED
  BY <1>2, <1>3

LEMMA AwakeStays ==
  ASSUME NEW d \in Groups, Awake(d), Unmoved(d), Voiced(d) => Voiced(d)',
         Working(d) => Working(d)' \/ Voiced(d)'
  PROVE  Awake(d)'
BY QuietStays DEF Awake

LEMMA VoicedIsAwake ==
  ASSUME NEW d, Names(todo', d) \/ HasQueued(d)'
  PROVE  Voiced(d)' /\ Awake(d)'
BY DEF Awake, Voiced

LEMMA UnmovedByTheStack ==
  ASSUME UNCHANGED <<resolver, groupVars>>, UNCHANGED job \/ job # "new"
  PROVE  \A d \in Groups : Unmoved(d)
BY DEF Unmoved, resolver, groupVars

(***************************************************************************)
(* A step that touches nothing but the stack, the tasks and the channel.   *)
(***************************************************************************)
LEMMA NobodyTouched ==
  ASSUME Wakes, UNCHANGED <<resolver, groupVars>>, UNCHANGED job \/ job # "new",
         \A d \in Groups : Voiced(d) => Names(todo', d) \/ HasQueued(d)',
         \A d \in Groups : Working(d) => Working(d)' \/ Names(todo', d)
  PROVE  Wakes'
<1>1. SUFFICES ASSUME NEW d \in Groups PROVE Awake(d)'
  BY DEF Wakes
<1>2. Unmoved(d)
  BY UnmovedByTheStack
<1>3. Voiced(d) => Voiced(d)'
  BY DEF Voiced
<1>4. Working(d) => Working(d)' \/ Voiced(d)'
  BY DEF Voiced
<1>5. QED
  BY <1>2, <1>3, <1>4, AwakeStays DEF Wakes

(***************************************************************************)
(* What the stack says after a step.                                       *)
(***************************************************************************)
LEMMA StackNames ==
  ASSUME todo \in Seq(Items), NEW kind, Doing(kind)
  PROVE  /\ Now \in Items /\ Now.do = kind /\ Tail(todo) \in Seq(Items)
         /\ \A d : Names(todo, d) <=> CallsFor(Now, d) \/ Names(Tail(todo), d)
         /\ \A q \in Seq(Items) : \A d :
              Names(q \o Tail(todo), d) <=> Names(q, d) \/ Names(Tail(todo), d)
<1>1. todo # <<>> /\ Now.do = kind
  BY DEF Doing
<1>2. Head(todo) \in Items /\ Tail(todo) \in Seq(Items)
  BY <1>1, HeadAndTail
<1>3. ASSUME NEW d PROVE Names(todo, d) <=> CallsFor(Now, d) \/ Names(Tail(todo), d)
  BY <1>1, HeadNames DEF Now
<1>4. ASSUME NEW q \in Seq(Items), NEW d
      PROVE  Names(q \o Tail(todo), d) <=> Names(q, d) \/ Names(Tail(todo), d)
  BY <1>2, ConcatNames
<1>5. QED
  BY <1>1, <1>2, <1>3, <1>4 DEF Now

LEMMA WorkGoesOn ==
  ASSUME UNCHANGED run \/ \E S \in SUBSET Tasks : Spawn(S)
  PROVE  \A d \in Groups : Working(d) => Working(d)'
<1>1. SUFFICES ASSUME NEW d \in Groups, NEW t \in TasksOf(d), InFlight(t)
               PROVE  InFlight(t)'
  BY DEF Working
<1>2. t \in Tasks
  BY <1>1 DEF Tasks, TasksOf
<1>3. QED
  BY <1>1, <1>2 DEF InFlight, Spawn

LEMMA TasksAreSpawned ==
  ASSUME IInv, TasksExpand, NEW g \in Groups, NEW onChange, SpawnGroupTasks(g, onChange)
  PROVE  Spawn(RunnableTasks(g, onChange))
<1>1. unexpandable \subseteq MayNotExpand
  BY DEF IInv, TypeOK
<1>2. RunnableTasks(g, onChange) \ unexpandable = RunnableTasks(g, onChange)
  BY <1>1, TasksAreTasks DEF TasksExpand
<1>3. QED
  BY <1>2 DEF SpawnGroupTasks

LEMMA SpawnedIsWorking ==
  ASSUME NEW g \in Groups, NEW S \in SUBSET Tasks, S \subseteq TasksOf(g), S # {}, Spawn(S)
  PROVE  Working(g)'
<1>1. PICK t \in S : TRUE
  OBVIOUS
<1>2. t \in Tasks /\ t \in TasksOf(g)
  BY <1>1
<1>3. run'[t] # "idle"
  BY <1>1, <1>2 DEF Spawn, InFlight
<1>4. QED
  BY <1>2, <1>3 DEF Working, InFlight

(***************************************************************************)
(* A completed group is propagated to those who wait for it.               *)
(***************************************************************************)
LEMMA CompletionIsNamed ==
  ASSUME EntriesAreDependencies, NEW g \in Groups, NEW started, NEW cascade,
         NoReload => cascade
  PROVE  NoReload /\ Awaited(g) => Names(Propagate(g, Phase(g, started), cascade), g)
<1>1. SUFFICES ASSUME NoReload, Awaited(g)
               PROVE  Names(Propagate(g, Phase(g, started), cascade), g)
  OBVIOUS
<1>2. Phase(g, started) = "Startup"
  BY <1>1, RuntimeIsUnawaited, PhasesArePhases DEF Phases
<1>3. Propagate(g, Phase(g, started), cascade) = Loop("trigger", {g})
  BY <1>1, <1>2 DEF Propagate
<1>4. QED
  BY <1>3, LoopNames DEF LoopKinds, Calling

LEMMA PropagationIsItems ==
  ASSUME NEW g \in Groups, NEW phase, NEW cascade
  PROVE  Propagate(g, phase, cascade) \in Seq(Items)
<1>1. Plain \subseteq Items
  BY DEF Plain
<1>2. QED
  BY <1>1, PropagationIsPlain, SeqWidens

(***************************************************************************)
(* One round of a loop over groups: those still to come stay named.        *)
(***************************************************************************)
LEMMA RoundNames ==
  ASSUME IInv, Ledger, NEW kind \in (LoopKinds \ {"trigger"}) \cup {"exec"}, Doing(kind),
         NEW g \in Now.groups, NEW q \in Seq(Items)
  PROVE  /\ g \in Groups
         /\ \A d : /\ Names(todo, d) => (d = g /\ kind \in Calling) \/ Names(After(g), d)
                   /\ Names(After(g), d) => Names(q \o After(g), d)
                   /\ Names(q, d) => Names(q \o After(g), d)
<1>1. todo \in Seq(Items) /\ todo \in Seq(Proper)
  BY DEF IInv, TypeOK, Ledger
<1>2. After(g) \in Seq(Proper) /\ g \in Groups
  BY <1>1, ProperLoopGoesOn
<1>3. After(g) \in Seq(Items)
  BY <1>2, ProperAreItems
<1>4. ASSUME NEW d
      PROVE  Names(todo, d) => (d = g /\ kind \in Calling) \/ Names(After(g), d)
  BY <1>1, AfterNames
<1>5. ASSUME NEW d PROVE Names(q \o After(g), d) <=> Names(q, d) \/ Names(After(g), d)
  BY <1>3, ConcatNames
<1>6. QED
  BY <1>2, <1>4, <1>5

(***************************************************************************)
(* A group whose tasks are spawned.                                        *)
(***************************************************************************)
LEMMA SpawnedIsAwake ==
  ASSUME IInv, TasksExpand, Wakes, NEW g \in Groups, NEW onChange,
         RunnableTasks(g, onChange) # {}, SpawnGroupTasks(g, onChange),
         UNCHANGED <<resolver, services_started, pending_ready, queued, job>>,
         \A d \in Groups \ {g} : Names(todo, d) => Names(todo', d),
         job # "new"
  PROVE  Wakes'
<1>1. SUFFICES ASSUME NEW d \in Groups PROVE Awake(d)'
  BY DEF Wakes
<1>2. status \in StatusMap
  BY DEF IInv, TypeOK
<1>3. RunnableTasks(g, onChange) \in SUBSET Tasks /\ RunnableTasks(g, onChange) \subseteq TasksOf(g)
  BY TasksAreTasks DEF RunnableTasks, TasksOf
<1>4. PICK S \in SUBSET Tasks : S = RunnableTasks(g, onChange) /\ Spawn(S)
  BY <1>3, TasksAreSpawned
<1>5. CASE d = g
  <2>1. Working(g)'
    BY <1>3, <1>4, SpawnedIsWorking
  <2>2. Listed(g)'
    BY <1>2 DEF SpawnGroupTasks, Listed, StatusMap
  <2>3. QED
    BY <1>5, <2>1, <2>2 DEF Awake
<1>6. CASE d # g
  <2>1. Unmoved(d)
    BY <1>2, <1>6 DEF Unmoved, SpawnGroupTasks, StatusMap, resolver
  <2>2. Voiced(d) => Voiced(d)'
    BY <1>6 DEF Voiced, HasQueued
  <2>3. Working(d) => Working(d)'
    BY <1>4, WorkGoesOn
  <2>4. QED
    BY <2>1, <2>2, <2>3, AwakeStays DEF Wakes
<1>7. QED
  BY <1>5, <1>6

LEMMA LoopWakes ==
  ASSUME IInv, Ledger, Wakes, Finish \/ Poll
  PROVE  Wakes'
<1>1. UNCHANGED <<resolver, groupVars, taskVars, queued>> /\ job # "new"
  BY DEF Finish, Poll
<1>2. todo = <<>>
  BY DEF Finish, Poll, Ledger, IdleIsIdle
<1>3. \A d \in Groups : Voiced(d) => HasQueued(d)'
  BY <1>1, <1>2, NobodyNamed DEF Voiced, HasQueued
<1>4. \A d \in Groups : Working(d) => Working(d)'
  BY <1>1, WorkGoesOn DEF taskVars
<1>5. QED
  BY <1>1, <1>3, <1>4, NobodyTouched

(***************************************************************************)
(* A wave: the groups that wait have somebody to wait for, the others are  *)
(* to be executed.                                                         *)
(***************************************************************************)
LEMMA WaveWakes ==
  ASSUME IInv, NEW st0, StartWave(st0)
  PROVE  Wakes'
<1>1. SUFFICES ASSUME NEW d \in Groups PROVE Awake(d)'
  BY DEF Wakes
<1> DEFINE late == {g \in Groups : UnreadyDependencies(st0, g) # {}}
<1>2. /\ waiting' = [g \in Groups |-> UnreadyDependencies(st0, g)]
      /\ status' = [g \in Groups |-> IF g \in late THEN "Waiting" ELSE status[g]]
      /\ todo' = Exec(Groups \ late, FALSE, TRUE)
  <2>1. {g \in Groups : [h \in Groups |-> UnreadyDependencies(st0, h)][g] # {}} = late
    OBVIOUS
  <2>2. QED
    BY <2>1 DEF StartWave
<1>3. CASE d \in late
  <2>1. waiting'[d] # {} /\ status'[d] = "Waiting"
    BY <1>2, <1>3
  <2>2. Listed(d)' /\ Quiet(d)'
    BY <2>1 DEF Listed, Quiet
  <2>3. QED
    BY <2>2 DEF Awake
<1>4. CASE d \notin late
  <2>1. d \in Groups \ late
    BY <1>4
  <2> HIDE DEF late
  <2>2. Names(todo', d)
    BY <1>2, <2>1, ExecNames
  <2>3. QED
    BY <2>2, VoicedIsAwake
<1>5. QED
  BY <1>3, <1>4

LEMMA ExecWakes ==
  ASSUME EngineAssumption, TasksExpand, IInv, Ledger, Wakes, NEW g \in Groups,
         ExecTasks(g) \/ ExecNothing(g) \/ ExecServices(g)
  PROVE  Wakes'
<1>1. Doing("exec") /\ g \in Now.groups /\ UNCHANGED <<job, queued>>
  BY DEF ExecTasks, ExecNothing, ExecServices
<1>2. job # "new"
  BY <1>1, AtWork
<1>3. ASSUME NEW q \in Seq(Items), NEW d
      PROVE  /\ Names(todo, d) => d = g \/ Names(q \o After(g), d)
             /\ Names(todo, d) => d = g \/ Names(After(g), d)
             /\ Names(q, d) => Names(q \o After(g), d)
  BY <1>1, RoundNames
<1>4. CASE ExecTasks(g)
  <2>1. /\ RunnableTasks(g, Now.onChange) # {}
        /\ SpawnGroupTasks(g, Now.onChange)
        /\ UNCHANGED <<resolver, services_started, pending_ready, queued, job>>
        /\ todo' = After(g)
    BY <1>4 DEF ExecTasks
  <2>2. \A d \in Groups \ {g} : Names(todo, d) => Names(todo', d)
    <3>1. <<>> \in Seq(Items)
      OBVIOUS
    <3>2. QED
      BY <1>3, <2>1, <3>1
  <2>3. PICK onChange : onChange = Now.onChange
    OBVIOUS
  <2>4. QED
    BY <1>2, <2>1, <2>2, <2>3, SpawnedIsAwake
<1>5. CASE ExecNothing(g)
  <2>1. /\ TaskOnly \/ Services[g] = {}
        /\ status' = [status EXCEPT ![g] = "Ready"]
        /\ todo' = Propagate(g, Phase(g, services_started[g]), Now.cascade) \o After(g)
        /\ UNCHANGED <<waiting, services_started, pending_ready, taskVars>>
    BY <1>5 DEF ExecNothing, SetReady
  <2>2. Propagate(g, Phase(g, services_started[g]), Now.cascade) \in Seq(Items)
    BY PropagationIsItems
  <2>3. \A d : /\ Names(todo, d) => d = g \/ Names(todo', d)
               /\ Names(Propagate(g, Phase(g, services_started[g]), Now.cascade), d)
                    => Names(todo', d)
    BY <1>3, <2>1, <2>2
  <2>4. status \in StatusMap
    BY DEF IInv, TypeOK
  <2>5. SUFFICES ASSUME NEW d \in Groups PROVE Awake(d)'
    BY DEF Wakes
  <2>6. CASE d = g
    <3>1. NoReload => Now.cascade
      BY <1>1, ProperFacts DEF Ledger, Proper
    <3>2. NoReload /\ Awaited(g)
            => Names(Propagate(g, Phase(g, services_started[g]), Now.cascade), g)
      BY <3>1, CompletionIsNamed DEF Ledger
    <3>3. CASE NoReload /\ Awaited(g)
      BY <2>3, <2>6, <3>2, <3>3, VoicedIsAwake
    <3>4. CASE ~(NoReload /\ Awaited(g))
      <4>1. status'[g] = "Ready" /\ (Awaited(g)' <=> Awaited(g))
        BY <2>1, <2>4 DEF StatusMap, Awaited
      <4>2. Listed(g)' /\ Quiet(g)'
        BY <2>1, <3>4, <4>1 DEF Listed, Quiet
      <4>3. QED
        BY <2>6, <4>2 DEF Awake
    <3>5. QED
      BY <3>3, <3>4
  <2>7. CASE d # g
    <3>1. Unmoved(d)
      BY <1>1, <2>1, <2>4, <2>7 DEF Unmoved, StatusMap
    <3>2. Voiced(d) => Voiced(d)'
      BY <1>1, <2>3, <2>7 DEF Voiced, HasQueued
    <3>3. Working(d) => Working(d)'
      BY <2>1, WorkGoesOn DEF taskVars
    <3>4. QED
      BY <3>1, <3>2, <3>3, AwakeStays DEF Wakes
  <2>8. QED
    BY <2>6, <2>7
<1>6. CASE ExecServices(g)
  <2> DEFINE q == Serve(g, ~services_started[g], Phase(g, services_started[g]), Now.cascade)
  <2>1. todo' = q \o After(g) /\ UNCHANGED <<resolver, groupVars, taskVars, queued, job>>
    BY <1>6 DEF ExecServices
  <2>2. Names(q, g)
    BY ServeNames
  <2>3. q \in Seq(Items)
    <3>1. Now \in Items /\ Now.do = "exec"
      BY <1>1, StackNames DEF IInv, TypeOK
    <3>2. Now.cascade \in BOOLEAN /\ (~services_started[g]) \in BOOLEAN
      BY <3>1, KindsOfItems
    <3>3. Phase(g, services_started[g]) \in Phases \cup {"Later"}
      BY PhasesArePhases
    <3>4. q \in Seq(Sound)
      BY <3>2, <3>3, ServesAreSound
    <3>5. QED
      BY <3>4, SoundAreItems
  <2> HIDE DEF q
  <2>4. \A d \in Groups : Names(todo, d) => Names(todo', d)
    BY <1>3, <2>1, <2>2, <2>3
  <2>5. \A d \in Groups : Voiced(d) => Names(todo', d) \/ HasQueued(d)'
    BY <2>1, <2>4 DEF Voiced, HasQueued
  <2>6. \A d \in Groups : Working(d) => Working(d)'
    BY <2>1, WorkGoesOn DEF taskVars
  <2>7. QED
    BY <2>1, <2>5, <2>6, NobodyTouched
<1>7. QED
  BY <1>4, <1>5, <1>6

(***************************************************************************)
(* The item at the head gives way to another.                              *)
(***************************************************************************)
LEMMA HeadReplaced ==
  ASSUME IInv, NEW kind, Doing(kind), NEW x \in Items, NEW d
  PROVE  /\ Names(<<x>> \o Tail(todo), d) <=> CallsFor(x, d) \/ Names(Tail(todo), d)
         /\ Names(todo, d) <=> CallsFor(Now, d) \/ Names(Tail(todo), d)
<1>1. todo \in Seq(Items)
  BY DEF IInv, TypeOK
<1>2. <<x>> \in Seq(Items)
  BY Single
<1>3. Names(<<x>> \o Tail(todo), d) <=> Names(<<x>>, d) \/ Names(Tail(todo), d)
  BY <1>1, <1>2, StackNames
<1>4. Names(todo, d) <=> CallsFor(Now, d) \/ Names(Tail(todo), d)
  BY <1>1, StackNames
<1>5. QED
  BY <1>3, <1>4, SingleNames

LEMMA ServeWakes ==
  ASSUME EngineAssumption, IInv, Ledger, Wakes, NEW s \in AllServices,
         ServeSignal(s) \/ ServeBegin(s) \/ ServeStart(s) \/ ServeSkips(s)
  PROVE  Wakes'
<1>1. Doing("serve") /\ UNCHANGED <<resolver, groupVars, taskVars, queued, job>>
  BY DEF ServeSignal, ServeBegin, ServeStart, ServeSkips
<1>2. Now \in ServeItems
  BY <1>1, ServeFacts DEF IInv
<1>3. PICK x \in ServeItems : x.group = Now.group /\ todo' = <<x>> \o Tail(todo)
  <2>1. CASE ServeSignal(s)
    <3>1. [Now EXCEPT !.left = @ \ {s}] \in ServeItems
          /\ [Now EXCEPT !.left = @ \ {s}].group = Now.group
      BY <1>2 DEF ServeItems
    <3>2. QED
      BY <2>1, <3>1 DEF ServeSignal
  <2>2. CASE ServeBegin(s)
    <3>1. [Now EXCEPT !.at = {s}] \in ServeItems /\ [Now EXCEPT !.at = {s}].group = Now.group
      BY <1>2 DEF ServeItems
    <3>2. QED
      BY <2>2, <3>1 DEF ServeBegin
  <2>3. CASE ServeStart(s) \/ ServeSkips(s)
    <3>1. [Now EXCEPT !.left = @ \ {s}, !.at = {}] \in ServeItems
          /\ [Now EXCEPT !.left = @ \ {s}, !.at = {}].group = Now.group
      BY <1>2 DEF ServeItems
    <3>2. QED
      BY <2>3, <3>1 DEF ServeStart, ServeSkips
  <2>4. QED
    BY <2>1, <2>2, <2>3
<1>4. x \in Items /\ x.do = "serve" /\ Now.do = "serve"
  BY <1>2, <1>3 DEF ServeItems, Items
<1>5. \A d : CallsFor(Now, d) => CallsFor(x, d)
  BY <1>3, <1>4 DEF CallsFor, Calling
<1>6. \A d : Names(todo, d) => Names(todo', d)
  BY <1>1, <1>3, <1>4, <1>5, HeadReplaced
<1>7. \A d \in Groups : Voiced(d) => Names(todo', d) \/ HasQueued(d)'
  BY <1>1, <1>6 DEF Voiced, HasQueued
<1>8. \A d \in Groups : Working(d) => Working(d)'
  BY <1>1, WorkGoesOn DEF taskVars
<1>9. job # "new"
  BY <1>1, AtWork
<1>10. QED
  BY <1>1, <1>7, <1>8, <1>9, NobodyTouched

(***************************************************************************)
(* The head is consumed, and what replaces it names all but the group it   *)
(* called for.                                                             *)
(***************************************************************************)
LEMMA HeadConsumed ==
  ASSUME IInv, NEW kind, Doing(kind), NEW g, NEW q \in Seq(Items),
         \A d : CallsFor(Now, d) => d = g
  PROVE  \A d : /\ Names(todo, d) => d = g \/ Names(Tail(todo), d)
                /\ Names(Tail(todo), d) => Names(q \o Tail(todo), d)
                /\ Names(q, d) => Names(q \o Tail(todo), d)
<1>1. todo \in Seq(Items)
  BY DEF IInv, TypeOK
<1>2. QED
  BY <1>1, StackNames

LEMMA ServeDoneWakes ==
  ASSUME EngineAssumption, IInv, Ledger, Wakes, ServeDone
  PROVE  Wakes'
<1>1. Doing("serve") /\ UNCHANGED <<waiting, taskVars, queued, job>>
  BY DEF ServeDone, resolver
<1>2. Now \in ServeItems /\ Now \in Proper /\ Now.do = "serve"
  BY <1>1, ServeFacts, ProperFacts DEF IInv, Ledger
<1>3. PICK g \in Groups, cascade \in BOOLEAN : g = Now.group /\ cascade = Now.cascade
  BY <1>2 DEF ServeItems
<1>4. PICK phase \in Phases :
        phase = IF Now.phase = "Later" THEN Phase(g, TRUE) ELSE Now.phase
  BY <1>2, PhasesArePhases DEF ServeItems
<1>5. /\ services_started' = [services_started EXCEPT ![g] = TRUE]
      /\ status' = [status EXCEPT ![g] = IF AwaitsReadiness(g) THEN "Running" ELSE "Ready"]
      /\ DeferOrPropagate(g, phase, cascade)
      /\ ~AwaitsReadiness(g) => pending_ready' = [pending_ready EXCEPT ![g] = None]
  BY <1>3, <1>4 DEF ServeDone
<1>6. /\ status \in StatusMap /\ services_started \in [Groups -> BOOLEAN]
      /\ pending_ready \in [Groups -> [phase : Phases, cascade : BOOLEAN] \cup {None}]
  BY DEF IInv, TypeOK
<1>7. Propagate(g, phase, cascade) \in Seq(Items) /\ <<>> \in Seq(Items)
  BY PropagationIsItems
<1>8. \A d : CallsFor(Now, d) => d = g
  BY <1>2, <1>3 DEF CallsFor, Calling
<1>9. \A d : /\ Names(todo, d) => d = g \/ Names(Tail(todo), d)
             /\ Names(Tail(todo), d) => Names(Propagate(g, phase, cascade) \o Tail(todo), d)
             /\ Names(Propagate(g, phase, cascade), d)
                  => Names(Propagate(g, phase, cascade) \o Tail(todo), d)
  BY <1>1, <1>7, <1>8, HeadConsumed
<1>10. \A d : Names(todo, d) => d = g \/ Names(todo', d)
  BY <1>5, <1>9 DEF DeferOrPropagate
<1>11. NoReload /\ Awaited(g) => cascade /\ phase = "Startup"
  <2>1. NoReload => cascade
    BY <1>2, <1>3 DEF Proper
  <2>2. Now.phase = "Runtime" => ~Awaited(g)
    BY <1>2, <1>3 DEF Proper
  <2>3. Phase(g, TRUE) = "Runtime" => ~Awaited(g)
    BY RuntimeIsUnawaited DEF Ledger
  <2>4. QED
    BY <1>4, <2>1, <2>2, <2>3 DEF Phases
<1>12. /\ services_started'[g]
       /\ Awaited(g)' <=> Awaited(g)
       /\ status'[g] = IF AwaitsReadiness(g) THEN "Running" ELSE "Ready"
  BY <1>1, <1>5, <1>6 DEF StatusMap, Awaited
<1>13. Awake(g)'
  <2>1. Listed(g)'
    BY <1>12 DEF Listed
  <2>2. CASE AwaitsReadiness(g)
    <3>1. pending_ready'[g].phase = phase
      BY <1>5, <1>6, <2>2 DEF DeferOrPropagate
    <3>2. Quiet(g)'
      BY <1>11, <1>12, <2>2, <3>1 DEF Quiet, Held
    <3>3. QED
      BY <2>1, <3>2 DEF Awake
  <2>3. CASE ~AwaitsReadiness(g) /\ NoReload /\ Awaited(g)
    <3>1. Propagate(g, phase, cascade) = Loop("trigger", {g})
      BY <1>11, <2>3 DEF Propagate
    <3>2. Names(Propagate(g, phase, cascade), g)
      BY <3>1, LoopNames DEF LoopKinds, Calling
    <3>3. Names(todo', g)
      BY <1>5, <1>9, <2>3, <3>2 DEF DeferOrPropagate
    <3>4. QED
      BY <3>3, VoicedIsAwake
  <2>4. CASE ~AwaitsReadiness(g) /\ ~(NoReload /\ Awaited(g))
    <3>1. Quiet(g)'
      BY <1>12, <2>4 DEF Quiet
    <3>2. QED
      BY <2>1, <3>1 DEF Awake
  <2>5. QED
    BY <2>2, <2>3, <2>4
<1>14. ASSUME NEW d \in Groups \ {g} PROVE Awake(d)'
  <2>1. pending_ready'[d] = pending_ready[d]
    BY <1>5, <1>6 DEF DeferOrPropagate
  <2>2. Unmoved(d)
    BY <1>1, <1>5, <1>6, <2>1 DEF Unmoved, StatusMap
  <2>3. Voiced(d) => Voiced(d)'
    BY <1>1, <1>10 DEF Voiced, HasQueued
  <2>4. Working(d) => Working(d)'
    BY <1>1, WorkGoesOn DEF taskVars
  <2>5. QED
    BY <2>2, <2>3, <2>4, AwakeStays DEF Wakes
<1>15. QED
  BY <1>13, <1>14 DEF Wakes

(***************************************************************************)
(* A completed group releases those who wait for nobody else: they are     *)
(* started, or skipped.                                                    *)
(***************************************************************************)
LEMMA TriggerWakes ==
  ASSUME EngineAssumption, IInv, Ledger, Wakes, NEW g \in Groups, Trigger(g)
  PROVE  Wakes'
<1>1. /\ Doing("trigger") /\ Now.groups = {g}
      /\ waiting' = StopWaitingFor(waiting, {g})
      /\ status' = [status EXCEPT ![g] = "Ready"]
      /\ todo' = Loop("start", ReadyToStart(waiting, statuses, g))
                   \o Loop("skip", NeedsSkip(waiting, statuses, g)) \o Tail(todo)
      /\ UNCHANGED <<services_started, pending_ready, taskVars, queued, job>>
  BY DEF Trigger, SetReady
<1>2. status \in StatusMap /\ waiting \in WaitingMap /\ todo \in Seq(Items)
  BY DEF IInv, TypeOK
<1>3. Now \in Proper /\ Now.do = "trigger"
  BY <1>1, ProperFacts DEF Ledger
<1>4. PICK S \in SUBSET Groups, N \in SUBSET Groups :
        S = ReadyToStart(waiting, statuses, g) /\ N = NeedsSkip(waiting, statuses, g)
  BY DEF ReadyToStart, NeedsSkip, Released, Dependents
<1>5. PICK q \in Seq(Items) :
        /\ q = Loop("start", S) \o Loop("skip", N)
        /\ \A d : d \in S \cup N => Names(q, d)
  <2>1. Loop("start", S) \in Seq(Items) /\ Loop("skip", N) \in Seq(Items)
    BY LoopsAreBare, BareIsProper, ProperAreItems DEF LoopKinds
  <2>2. Loop("start", S) \o Loop("skip", N) \in Seq(Items)
    BY <2>1, Concatenated
  <2>3. \A d : Names(Loop("start", S) \o Loop("skip", N), d)
                 <=> Names(Loop("start", S), d) \/ Names(Loop("skip", N), d)
    BY <2>1, ConcatNames
  <2>4. \A d : /\ Names(Loop("start", S), d) <=> d \in S
               /\ Names(Loop("skip", N), d) <=> d \in N
    BY LoopNames DEF LoopKinds, Calling
  <2>5. QED
    BY <2>2, <2>3, <2>4
<1>6. todo' = q \o Tail(todo)
  BY <1>1, <1>4, <1>5
<1>7. \A d : CallsFor(Now, d) => d = g
  BY <1>1, <1>3 DEF CallsFor, Calling
<1>8. \A d : /\ Names(todo, d) => d = g \/ Names(todo', d)
             /\ Names(q, d) => Names(todo', d)
  BY <1>1, <1>6, <1>7, HeadConsumed, ZenonT(30)
<1>9. Awake(g)'
  <2>1. ~Awaited(g)'
    BY <1>1 DEF Awaited, StopWaitingFor
  <2>2. status'[g] = "Ready"
    BY <1>1, <1>2 DEF StatusMap
  <2>3. TaskOnly \/ Services[g] = {} \/ services_started'[g]
    BY <1>1, <1>3 DEF Proper
  <2>4. Listed(g)' /\ Quiet(g)'
    BY <2>1, <2>2, <2>3 DEF Listed, Quiet
  <2>5. QED
    BY <2>4 DEF Awake
<1>10. ASSUME NEW d \in Groups \ {g} PROVE Awake(d)'
  <2>1. \A h \in Groups : waiting'[h] = (waiting[h] \ {g})
    BY <1>1 DEF StopWaitingFor
  <2>2. CASE waiting[d] # {} /\ waiting'[d] = {}
    <3>1. waiting[d] \subseteq {g}
      BY <2>1, <2>2
    <3>2. d \in Dependents(g)
      BY <2>2, <3>1 DEF Ledger, EntriesAreDependencies, Dependents
    <3>3. d \in Released(waiting, g)
      BY <2>2, <3>1, <3>2 DEF Released
    <3>4. d \in S \cup N
      BY <1>4, <3>3 DEF ReadyToStart
    <3>5. Names(todo', d)
      BY <1>5, <1>8, <3>4
    <3>6. QED
      BY <3>5, VoicedIsAwake
  <2>3. CASE ~(waiting[d] # {} /\ waiting'[d] = {})
    <3>1. Unmoved(d)
      BY <1>1, <1>2, <2>1, <2>3 DEF Unmoved, StatusMap
    <3>2. Voiced(d) => Voiced(d)'
      BY <1>1, <1>8 DEF Voiced, HasQueued
    <3>3. Working(d) => Working(d)'
      BY <1>1, WorkGoesOn DEF taskVars
    <3>4. QED
      BY <3>1, <3>2, <3>3, AwakeStays DEF Wakes
  <2>4. QED
    BY <2>2, <2>3
<1>11. QED
  BY <1>9, <1>10 DEF Wakes

LEMMA StartWaitingWakes ==
  ASSUME EngineAssumption, TasksExpand, IInv, Ledger, Wakes, NEW g \in Groups,
         StartWaitingTasks(g) \/ StartWaitingNothing(g) \/ QueueServiceAction(g)
  PROVE  Wakes'
<1>1. Doing("start") /\ g \in Now.groups /\ UNCHANGED job /\ job # "new"
  <2>1. Doing("start") /\ g \in Now.groups /\ UNCHANGED job
    BY DEF StartWaitingTasks, StartWaitingNothing, QueueServiceAction
  <2>2. QED
    BY <2>1, AtWork
<1>2. ASSUME NEW q \in Seq(Items), NEW d
      PROVE  /\ Names(todo, d) => d = g \/ Names(q \o After(g), d)
             /\ Names(todo, d) => d = g \/ Names(After(g), d)
             /\ Names(q, d) => Names(q \o After(g), d)
  BY <1>1, RoundNames DEF LoopKinds
<1>3. <<>> \in Seq(Items)
  OBVIOUS
<1>4. status \in StatusMap /\ queued \in [Groups -> [start : Nat, restart : Nat]]
  BY DEF IInv, TypeOK
<1>5. CASE StartWaitingTasks(g)
  <2>1. /\ RunnableTasks(g, FALSE) # {} /\ SpawnGroupTasks(g, FALSE)
        /\ UNCHANGED <<resolver, services_started, pending_ready, queued, job>>
        /\ todo' = After(g)
    BY <1>5 DEF StartWaitingTasks, RunnableTasks
  <2>2. \A d \in Groups \ {g} : Names(todo, d) => Names(todo', d)
    BY <1>2, <1>3, <2>1
  <2>3. QED
    BY <1>1, <2>1, <2>2, SpawnedIsAwake
<1>6. CASE StartWaitingNothing(g)
  <2>1. /\ status' = [status EXCEPT ![g] = "Ready"]
        /\ todo' = Loop("trigger", {g}) \o After(g)
        /\ UNCHANGED <<waiting, services_started, pending_ready, taskVars, queued>>
    BY <1>6 DEF StartWaitingNothing, SetReady
  <2>2. Loop("trigger", {g}) \in Seq(Items)
    <3>1. Loop("trigger", {g}) = Propagate(g, "Startup", TRUE)
      BY DEF Propagate
    <3>2. Propagate(g, "Startup", TRUE) \in Seq(Items)
      BY PropagationIsItems
    <3>3. QED
      BY <3>1, <3>2
  <2>3. \A d : Names(todo, d) => Names(todo', d)
    <3>1. Names(Loop("trigger", {g}), g)
      BY LoopNames DEF LoopKinds, Calling
    <3>2. QED
      BY <1>2, <2>1, <2>2, <3>1
  <2>4. Names(todo', g)
    <3>1. Names(Loop("trigger", {g}), g)
      BY LoopNames DEF LoopKinds, Calling
    <3>2. QED
      BY <1>2, <2>1, <2>2, <3>1
  <2>5. ASSUME NEW d \in Groups \ {g} PROVE Awake(d)'
    <3>1. Unmoved(d)
      BY <1>1, <1>4, <2>1 DEF Unmoved, StatusMap
    <3>2. Voiced(d) => Voiced(d)'
      BY <2>1, <2>3 DEF Voiced, HasQueued
    <3>3. Working(d) => Working(d)'
      BY <2>1, WorkGoesOn DEF taskVars
    <3>4. QED
      BY <3>1, <3>2, <3>3, AwakeStays DEF Wakes
  <2>6. QED
    BY <2>4, <2>5, VoicedIsAwake DEF Wakes
<1>7. CASE QueueServiceAction(g)
  <2>1. /\ todo' = After(g)
        /\ UNCHANGED <<resolver, groupVars, taskVars, job>>
        /\ \/ queued' = [queued EXCEPT ![g].restart = @ + 1]
           \/ queued' = [queued EXCEPT ![g].start = @ + 1]
    BY <1>7 DEF QueueServiceAction
  <2>2. HasQueued(g)' /\ \A d \in Groups \ {g} : queued'[d] = queued[d]
    <3>1. PICK p \in Nat, r \in Nat : queued[g] = [start |-> p, restart |-> r]
      BY <1>4
    <3>2. queued'[g] = [start |-> p + 1, restart |-> r]
          \/ queued'[g] = [start |-> p, restart |-> r + 1]
      BY <1>4, <2>1, <3>1
    <3>3. p + 1 # 0 /\ r + 1 # 0
      OBVIOUS
    <3>4. HasQueued(g)'
      BY <3>2, <3>3 DEF HasQueued
    <3>5. QED
      BY <1>4, <2>1, <3>4
  <2>3. \A d \in Groups : Voiced(d) => Names(todo', d) \/ HasQueued(d)'
    BY <1>2, <1>3, <2>1, <2>2 DEF Voiced, HasQueued
  <2>4. \A d \in Groups : Working(d) => Working(d)'
    BY <2>1, WorkGoesOn DEF taskVars
  <2>5. QED
    BY <1>1, <2>1, <2>3, <2>4, NobodyTouched
<1>8. QED
  BY <1>5, <1>6, <1>7

(***************************************************************************)
(* What a skip reaches is closed: a group it leaves behind with somebody   *)
(* to wait for still has somebody to wait for afterwards.                  *)
(***************************************************************************)
LEMMA SkippedIsClosed ==
  ASSUME NEW S, NEW h \in Groups, waiting[h] # {},
         waiting[h] \subseteq SkippedBehind(waiting, S) \cup S
  PROVE  h \in SkippedBehind(waiting, S)
<1>1. SUFFICES ASSUME NEW T \in SUBSET Groups, ClosedUnderSkip(waiting, S, T)
               PROVE  h \in T
  BY DEF SkippedBehind
<1>2. SkippedBehind(waiting, S) \subseteq T
  BY <1>1 DEF SkippedBehind
<1>3. waiting[h] \subseteq T \cup S
  BY <1>2
<1>4. QED
  BY <1>1, <1>3 DEF ClosedUnderSkip

(***************************************************************************)
(* Nobody waits any longer for a group that is skipped or failed, so it is *)
(* at rest; what was named stays so, but for the groups skipped.           *)
(***************************************************************************)
LEMMA SkippingWakes ==
  ASSUME IInv, Wakes, NEW S \in SUBSET Groups, NEW own \in {"Failed", "Skipped"},
         SkipBehind(S, own),
         UNCHANGED <<services_started, taskVars, queued, job>>, job # "new",
         \A d \in Groups \ S : Names(todo, d) => Names(todo', d),
         \A d \in Groups \ S : pending_ready'[d] = pending_ready[d]
  PROVE  Wakes'
<1>1. SUFFICES ASSUME NEW d \in Groups PROVE Awake(d)'
  BY DEF Wakes
<1> DEFINE B == SkippedBehind(waiting, S)
<1>2. /\ waiting' = [h \in Groups |-> waiting[h] \ (B \cup S)]
      /\ status' = [h \in Groups |-> CASE h \in B -> "Skipped"
                                       [] h \in S \ B -> own
                                       [] OTHER -> status[h]]
  BY DEF SkipBehind, WaitingAfterSkip, StopWaitingFor, StatusAfterSkip
<1>3. \A h \in Groups : waiting[h] # {} /\ waiting[h] \subseteq B \cup S => h \in B
  BY SkippedIsClosed
<1> HIDE DEF B
<1>4. CASE d \in B \cup S
  <2>1. ~Awaited(d)'
    BY <1>2, <1>4 DEF Awaited
  <2>2. status'[d] \in {"Failed", "Skipped"}
    BY <1>2, <1>4
  <2>3. Listed(d)' /\ Quiet(d)'
    BY <2>1, <2>2 DEF Listed, Quiet
  <2>4. QED
    BY <2>3 DEF Awake
<1>5. CASE d \notin B \cup S
  <2>1. status'[d] = status[d] /\ \A h \in Groups : waiting'[h] \subseteq waiting[h]
    BY <1>2, <1>5
  <2>2. waiting[d] # {} => waiting'[d] # {}
    BY <1>2, <1>3, <1>5
  <2>3. Unmoved(d)
    BY <1>5, <2>1, <2>2 DEF Unmoved
  <2>4. Voiced(d) => Voiced(d)'
    BY <1>5 DEF Voiced, HasQueued
  <2>5. Working(d) => Working(d)'
    BY WorkGoesOn DEF taskVars
  <2>6. QED
    BY <2>3, <2>4, <2>5, AwakeStays DEF Wakes
<1>6. QED
  BY <1>4, <1>5

LEMMA SkipsWake ==
  ASSUME EngineAssumption, IInv, Ledger, Wakes, Skip \/ \E g \in Groups : Fail(g)
  PROVE  Wakes'
<1>1. CASE Skip
  <2>1. /\ Doing("skip") /\ todo' = Tail(todo)
        /\ SkipBehind(Now.groups, "Skipped")
        /\ UNCHANGED <<services_started, pending_ready, taskVars, queued, job>>
    BY <1>1 DEF Skip
  <2>2. todo \in Seq(Items)
    BY DEF IInv, TypeOK
  <2>3. Now \in Items /\ Now.do = "skip"
    BY <2>1, <2>2, StackNames
  <2>4. PICK S \in SUBSET Groups : S = Now.groups
    BY <2>3, KindsOfItems DEF LoopKinds
  <2>5. \A d \in Groups \ S : Names(todo, d) => Names(todo', d)
    <3>1. \A d \in Groups \ S : ~CallsFor(Now, d)
      BY <2>3, <2>4 DEF CallsFor, Calling
    <3>2. \A d : Names(todo, d) <=> CallsFor(Now, d) \/ Names(Tail(todo), d)
      BY <2>1, <2>2, StackNames
    <3>3. QED
      BY <2>1, <3>1, <3>2
  <2>6. job # "new"
    BY <2>1, AtWork
  <2>7. QED
    BY <2>1, <2>4, <2>5, <2>6, SkippingWakes
<1>2. ASSUME NEW g \in Groups, Fail(g) PROVE Wakes'
  <2>1. /\ Doing("fail") /\ g \in Now.groups /\ todo' = After(g)
        /\ SkipBehind({g}, "Failed")
        /\ UNCHANGED <<services_started, pending_ready, taskVars, queued, job>>
    BY <1>2 DEF Fail
  <2>2. <<>> \in Seq(Items)
    OBVIOUS
  <2>3. \A d \in Groups \ {g} : Names(todo, d) => Names(todo', d)
    BY <2>1, <2>2, RoundNames DEF LoopKinds
  <2>4. job # "new"
    BY <2>1, AtWork
  <2>5. QED
    BY <2>1, <2>3, <2>4, SkippingWakes
<1>3. QED
  BY <1>1, <1>2

LEMMA CascadeWakes ==
  ASSUME EngineAssumption, TasksExpand, IInv, Ledger, Wakes, NEW g \in Groups,
         CascadeTasks(g) \/ CascadeServices(g) \/ CascadeNothing(g)
  PROVE  Wakes'
<1>1. Doing("cascade") /\ g \in Now.groups /\ UNCHANGED <<job, queued>> /\ job # "new"
  <2>1. Doing("cascade") /\ g \in Now.groups /\ UNCHANGED <<job, queued>>
    BY DEF CascadeTasks, CascadeServices, CascadeNothing
  <2>2. QED
    BY <2>1, AtWork
<1>2. ASSUME NEW q \in Seq(Items), NEW d
      PROVE  /\ Names(todo, d) => Names(q \o After(g), d)
             /\ Names(todo, d) => Names(After(g), d)
  BY <1>1, RoundNames DEF LoopKinds, Calling
<1>3. <<>> \in Seq(Items) /\ Loop("cascade", Dependents(g)) \in Seq(Items)
  <2>1. Dependents(g) \in SUBSET Groups
    BY DEF Dependents
  <2>2. QED
    BY <2>1, LoopsAreBare, BareIsProper, ProperAreItems DEF LoopKinds
<1>4. \A d : Names(todo, d) => Names(todo', d)
  <2>1. todo' \in {After(g), Loop("cascade", Dependents(g)) \o After(g)}
    BY DEF CascadeTasks, CascadeServices, CascadeNothing
  <2>2. QED
    BY <1>2, <1>3, <2>1
<1>5. CASE CascadeTasks(g)
  <2>1. /\ RunnableTasks(g, FALSE) # {} /\ SpawnGroupTasks(g, FALSE)
        /\ UNCHANGED <<resolver, services_started, pending_ready, queued, job>>
    BY <1>5 DEF CascadeTasks, RunnableTasks
  <2>2. QED
    BY <1>1, <1>4, <2>1, SpawnedIsAwake
<1>6. CASE CascadeServices(g) \/ CascadeNothing(g)
  <2>1. UNCHANGED <<resolver, groupVars, taskVars>>
    BY <1>6 DEF CascadeServices, CascadeNothing
  <2>2. \A d \in Groups : Voiced(d) => Names(todo', d) \/ HasQueued(d)'
    BY <1>1, <1>4 DEF Voiced, HasQueued
  <2>3. \A d \in Groups : Working(d) => Working(d)'
    BY <2>1, WorkGoesOn DEF taskVars
  <2>4. QED
    BY <1>1, <2>1, <2>2, <2>3, NobodyTouched
<1>7. QED
  BY <1>5, <1>6

-----------------------------------------------------------------------------
LEMMA TasksOfOneGroup ==
  ASSUME EngineAssumption, NEW g \in Groups, NEW d \in Groups, NEW t, t \in TasksOf(g),
         t \in TasksOf(d)
  PROVE  d = g
BY DEF EngineAssumption

(***************************************************************************)
(* A completion is drained: the group still has a task in flight, or is    *)
(* named by what follows.                                                  *)
(***************************************************************************)
LEMMA DrainTaskWakes ==
  ASSUME EngineAssumption, IInv, Ledger, Wakes, NEW t \in Tasks, DrainTask(t)
  PROVE  Wakes'
<1>1. PICK g \in Groups : g = GroupOfTask(t) /\ t \in TasksOf(g)
  BY GroupsOfTasks
<1> DEFINE last  == \A u \in TasksOf(g) \ {t} : ~InFlight(u)
           broke == FailedAfter(t) \cap TasksOf(g) # {}
<1>2. PICK a \in Actions :
        a = [group |-> g, start |-> ~services_started[g], cascade |-> g \notin suppress]
  <2>1. (~services_started[g]) \in BOOLEAN /\ (g \notin suppress) \in BOOLEAN
    OBVIOUS
  <2>2. [group |-> g, start |-> ~services_started[g], cascade |-> g \notin suppress] \in Actions
    BY <2>1 DEF Actions
  <2>3. QED
    BY <2>2
<1>3. /\ Doing("drain")
      /\ status' = IF last THEN [status EXCEPT ![g] = IF broke THEN "Failed" ELSE "Ready"]
                   ELSE status
      /\ todo' = CASE last /\ broke  -> <<[Now EXCEPT !.failed = @ \cup {g}]>> \o Tail(todo)
                   [] last /\ ~broke -> <<[Now EXCEPT !.actions = Append(@, a)]>> \o Tail(todo)
                   [] OTHER          -> todo
      /\ run' = [run EXCEPT ![t] = IF t \in pending /\ t \notin unexpandable
                                   THEN "executing" ELSE "idle"]
      /\ UNCHANGED <<waiting, services_started, pending_ready, queued, job>>
  BY <1>1, <1>2 DEF DrainTask, resolver
<1>4. /\ status \in StatusMap /\ run \in [Tasks -> {"idle", "executing", "succeeded", "failed"}]
      /\ todo \in Seq(Items)
  BY DEF IInv, TypeOK
<1>5. Now \in DrainItems /\ job # "new"
  BY <1>3, DrainFacts, AtWork DEF IInv
<1>6. last => /\ Names(todo', g)
              /\ \A d : Names(todo, d) => Names(todo', d)
  <2>1. CASE last /\ broke
    <3> DEFINE y == [Now EXCEPT !.failed = @ \cup {g}]
    <3>1. y \in DrainItems /\ y.failed = Now.failed \cup {g} /\ y.actions = Now.actions
      BY <1>5 DEF DrainItems
    <3>2. todo' = <<y>> \o Tail(todo)
      BY <1>3, <2>1
    <3> HIDE DEF y
    <3>3. y \in Items /\ y.do = "drain" /\ Now.do = "drain"
      BY <1>5, <3>1 DEF DrainItems, Items
    <3>4. CallsFor(y, g) /\ \A d : CallsFor(Now, d) => CallsFor(y, d)
      BY <3>1, <3>3 DEF CallsFor, Calling
    <3>5. QED
      BY <1>3, <3>2, <3>3, <3>4, HeadReplaced
  <2>2. CASE last /\ ~broke
    <3> DEFINE y == [Now EXCEPT !.actions = Append(@, a)]
    <3>1. y \in DrainItems /\ y.failed = Now.failed /\ y.actions = Append(Now.actions, a)
      BY <1>5, AppendedActions DEF DrainItems
    <3>2. todo' = <<y>> \o Tail(todo)
      BY <1>3, <2>2
    <3> HIDE DEF y
    <3>3. y \in Items /\ y.do = "drain" /\ Now.do = "drain"
      BY <1>5, <3>1 DEF DrainItems, Items
    <3>4. PICK acts \in Seq(Actions) : acts = Now.actions
      BY <1>5 DEF DrainItems
    <3>5. /\ Len(acts) + 1 \in DOMAIN Append(acts, a)
          /\ Append(acts, a)[Len(acts) + 1] = a
          /\ \A k \in DOMAIN acts :
               k \in DOMAIN Append(acts, a) /\ Append(acts, a)[k] = acts[k]
      OBVIOUS
    <3>6. a.group = g
      BY <1>2
    <3>7. CallsFor(y, g)
      BY <3>1, <3>3, <3>4, <3>5, <3>6 DEF CallsFor, Calling
    <3>8. \A d : CallsFor(Now, d) => CallsFor(y, d)
      BY <3>1, <3>3, <3>4, <3>5 DEF CallsFor, Calling
    <3>9. QED
      BY <1>3, <3>2, <3>3, <3>7, <3>8, HeadReplaced
  <2>3. QED
    BY <2>1, <2>2
<1>7. ~last => Working(g)' /\ todo' = todo /\ status' = status
  <2>1. ASSUME ~last PROVE Working(g)'
    <3>1. PICK u \in TasksOf(g) \ {t} : InFlight(u)
      BY <2>1
    <3>2. u \in Tasks
      BY DEF Tasks, TasksOf
    <3>3. run'[u] = run[u]
      BY <1>3, <1>4, <3>1, <3>2
    <3>4. QED
      BY <3>1, <3>3 DEF Working, InFlight
  <2>2. QED
    BY <1>3, <2>1
<1> HIDE DEF last, broke
<1>8. \A d : Names(todo, d) => Names(todo', d)
  BY <1>6, <1>7
<1>9. Awake(g)'
  <2>1. CASE last
    BY <1>6, <2>1, VoicedIsAwake
  <2>2. CASE ~last
    <3>1. Voiced(g) => Voiced(g)'
      BY <1>3, <1>8 DEF Voiced, HasQueued
    <3>2. Listed(g) => Listed(g)'
      BY <1>3, <1>7, <2>2 DEF Listed
    <3>3. Working(g)'
      BY <1>7, <2>2
    <3>4. QED
      BY <3>1, <3>2, <3>3 DEF Awake, Wakes
  <2>3. QED
    BY <2>1, <2>2
<1>10. ASSUME NEW d \in Groups \ {g} PROVE Awake(d)'
  <2>1. Unmoved(d)
    BY <1>3, <1>4, <1>5 DEF Unmoved, StatusMap
  <2>2. Voiced(d) => Voiced(d)'
    BY <1>3, <1>8 DEF Voiced, HasQueued
  <2>3. Working(d) => Working(d)'
    <3>1. SUFFICES ASSUME NEW u \in TasksOf(d), InFlight(u) PROVE InFlight(u)'
      BY DEF Working
    <3>2. u \in Tasks
      BY DEF Tasks, TasksOf
    <3>3. u # t
      BY <1>1, TasksOfOneGroup
    <3>4. QED
      BY <1>3, <1>4, <3>1, <3>2, <3>3 DEF InFlight
  <2>4. QED
    BY <2>1, <2>2, <2>3, AwakeStays DEF Wakes
<1>11. QED
  BY <1>9, <1>10 DEF Wakes

LEMMA DrainQueuedWakes ==
  ASSUME EngineAssumption, IInv, Ledger, Wakes, NEW g \in Groups, DrainQueued(g)
  PROVE  Wakes'
<1>1. Doing("drain") /\ UNCHANGED <<resolver, groupVars, taskVars, job>>
  BY DEF DrainQueued
<1>2. PICK kind \in {"start", "restart"} :
        /\ queued[g][kind] > 0
        /\ queued' = [queued EXCEPT ![g][kind] = @ - 1]
        /\ todo' = <<[Now EXCEPT !.actions =
                        Append(@, [group |-> g, start |-> kind = "start", cascade |-> TRUE])]>>
                     \o Tail(todo)
  BY DEF DrainQueued
<1>3. PICK a \in Actions : a = [group |-> g, start |-> kind = "start", cascade |-> TRUE]
  <2>1. (kind = "start") \in BOOLEAN
    OBVIOUS
  <2>2. QED
    BY <2>1 DEF Actions
<1>4. \A h \in Groups \ {g} : queued'[h] = queued[h]
  BY <1>2, NothingNewIsQueued
<1>5. Now \in DrainItems /\ job # "new"
  BY <1>1, DrainFacts, AtWork DEF IInv
<1> DEFINE y == [Now EXCEPT !.actions = Append(@, a)]
<1>6. y \in DrainItems /\ y.failed = Now.failed /\ y.actions = Append(Now.actions, a)
  BY <1>5, AppendedActions DEF DrainItems
<1>7. todo' = <<y>> \o Tail(todo)
  BY <1>2, <1>3
<1> HIDE DEF y
<1>8. y \in Items /\ y.do = "drain" /\ Now.do = "drain"
  BY <1>5, <1>6 DEF DrainItems, Items
<1>9. PICK acts \in Seq(Actions) : acts = Now.actions
  BY <1>5 DEF DrainItems
<1>10. /\ Len(acts) + 1 \in DOMAIN Append(acts, a)
       /\ Append(acts, a)[Len(acts) + 1] = a
       /\ \A k \in DOMAIN acts :
            k \in DOMAIN Append(acts, a) /\ Append(acts, a)[k] = acts[k]
  OBVIOUS
<1>11. a.group = g
  BY <1>3
<1>12. CallsFor(y, g)
  BY <1>6, <1>8, <1>9, <1>10, <1>11 DEF CallsFor, Calling
<1>13. \A d : CallsFor(Now, d) => CallsFor(y, d)
  BY <1>6, <1>8, <1>9, <1>10 DEF CallsFor, Calling
<1>14. Names(todo', g) /\ \A d : Names(todo, d) => Names(todo', d)
  BY <1>1, <1>7, <1>8, <1>12, <1>13, HeadReplaced
<1>15. \A d \in Groups : Voiced(d) => Names(todo', d) \/ HasQueued(d)'
  BY <1>4, <1>14 DEF Voiced, HasQueued
<1>16. \A d \in Groups : Working(d) => Working(d)'
  BY <1>1, WorkGoesOn DEF taskVars
<1>17. QED
  BY <1>1, <1>5, <1>15, <1>16, NobodyTouched

LEMMA DrainEndsWakes ==
  ASSUME EngineAssumption, IInv, Ledger, Wakes, DrainEnds
  PROVE  Wakes'
<1>1. Doing("drain") /\ UNCHANGED <<resolver, groupVars, taskVars, queued, job>>
  BY DEF DrainEnds
<1>2. Now \in DrainItems /\ job # "new" /\ todo \in Seq(Items)
  BY <1>1, DrainFacts, AtWork DEF IInv, TypeOK
<1>3. PICK acts \in Seq(Actions), f \in SUBSET Groups :
        acts = Now.actions /\ f = Now.failed
  BY <1>2 DEF DrainItems
<1>4. PICK r \in Seq(Items) :
        /\ r = [i \in DOMAIN acts |-> [do |-> "act", action |-> acts[i]]]
        /\ \A d : Names(r, d) <=> \E k \in DOMAIN acts : acts[k].group = d
  <2> DEFINE r == [i \in DOMAIN acts |-> [do |-> "act", action |-> acts[i]]]
  <2>1. r \in Seq(Items)
    <3>1. r \in Seq(Plain)
      BY ActionsArePlain
    <3>2. Plain \subseteq Items
      BY DEF Plain
    <3> HIDE DEF r
    <3>3. QED
      BY <3>1, <3>2, SeqWidens
  <2>2. ASSUME NEW d PROVE Names(r, d) <=> \E k \in DOMAIN acts : acts[k].group = d
    BY ActsName
  <2> HIDE DEF r
  <2>3. QED
    BY <2>1, <2>2 DEF r
<1>5. PICK q \in Seq(Items) : q = Loop("fail", f) /\ \A d : Names(q, d) <=> d \in f
  <2>1. Loop("fail", f) \in Seq(Items)
    BY LoopsAreBare, BareIsProper, ProperAreItems DEF LoopKinds
  <2>2. \A d : Names(Loop("fail", f), d) <=> d \in f
    BY LoopNames DEF LoopKinds, Calling
  <2>3. QED
    BY <2>1, <2>2
<1>6. todo' = q \o r \o Tail(todo) /\ q \o r \in Seq(Items)
  BY <1>3, <1>4, <1>5, Concatenated DEF DrainEnds
<1>7. \A d : CallsFor(Now, d) => d \in f \/ \E k \in DOMAIN acts : acts[k].group = d
  <2>1. Now.do = "drain"
    BY <1>2 DEF DrainItems
  <2>2. QED
    BY <1>3, <2>1 DEF CallsFor, Calling
<1>8. \A d : Names(todo, d) => Names(todo', d)
  <2>1. SUFFICES ASSUME NEW d, Names(todo, d) PROVE Names(todo', d)
    OBVIOUS
  <2>2. CallsFor(Now, d) \/ Names(Tail(todo), d)
    BY <1>1, <1>2, <2>1, StackNames
  <2>3. Names(q \o r, d) <=> Names(q, d) \/ Names(r, d)
    BY ConcatNames
  <2>4. CallsFor(Now, d) => Names(q \o r, d)
    BY <1>4, <1>5, <1>7, <2>3
  <2>5. Names((q \o r) \o Tail(todo), d) <=> Names(q \o r, d) \/ Names(Tail(todo), d)
    BY <1>1, <1>2, <1>6, StackNames
  <2>6. QED
    BY <1>6, <2>2, <2>4, <2>5
<1>9. \A d \in Groups : Voiced(d) => Names(todo', d) \/ HasQueued(d)'
  BY <1>1, <1>8 DEF Voiced, HasQueued
<1>10. \A d \in Groups : Working(d) => Working(d)'
  BY <1>1, WorkGoesOn DEF taskVars
<1>11. QED
  BY <1>1, <1>2, <1>9, <1>10, NobodyTouched

LEMMA ActWakes ==
  ASSUME EngineAssumption, IInv, Ledger, Wakes, ActServices \/ ActNothing
  PROVE  Wakes'
<1>1. /\ Doing("act") /\ UNCHANGED <<resolver, groupVars, taskVars, queued, job>>
      /\ job # "new"
  <2>1. Doing("act") /\ UNCHANGED <<resolver, groupVars, taskVars, queued, job>>
    BY DEF ActServices, ActNothing
  <2>2. QED
    BY <2>1, AtWork
<1>2. Now \in Proper /\ Now.do = "act" /\ Now \in [do : {"act"}, action : Actions]
  BY <1>1, ProperFacts, KindsOfItems DEF Ledger
<1>3. PICK a \in Actions, g \in Groups, cascade \in BOOLEAN :
        a = Now.action /\ g = a.group /\ cascade = a.cascade
  BY <1>2 DEF Actions
<1>4. ProperAct(a) /\ a.start \in BOOLEAN
  BY <1>2, <1>3 DEF Proper, Actions
<1>5. \A d : CallsFor(Now, d) => d = g
  BY <1>2, <1>3 DEF CallsFor, Calling
<1>6. Doing("act")
  BY <1>1
<1>7. CASE ActServices
  <2>1. PICK q \in Seq(Items) : q = Serve(g, a.start, "Later", cascade) /\ Names(q, g)
    <3>1. Serve(g, a.start, "Later", cascade) \in Seq(Sound)
      BY <1>4, ServesAreSound
    <3>2. Serve(g, a.start, "Later", cascade) \in Seq(Items)
      BY <3>1, SoundAreItems
    <3>3. Names(Serve(g, a.start, "Later", cascade), g)
      BY ServeNames
    <3>4. QED
      BY <3>2, <3>3
  <2>2. todo' = q \o Tail(todo)
    BY <1>3, <1>7, <2>1 DEF ActServices
  <2>3. \A d : /\ Names(todo, d) => d = g \/ Names(Tail(todo), d)
               /\ Names(Tail(todo), d) => Names(todo', d)
               /\ Names(q, d) => Names(todo', d)
    BY <1>5, <1>6, <2>2, HeadConsumed
  <2>4. \A d \in Groups : Voiced(d) => Names(todo', d) \/ HasQueued(d)'
    BY <1>1, <2>1, <2>3 DEF Voiced, HasQueued
  <2>5. \A d \in Groups : Working(d) => Working(d)'
    BY <1>1, WorkGoesOn DEF taskVars
  <2>6. QED
    BY <1>1, <2>4, <2>5, NobodyTouched
<1>8. CASE ActNothing
  <2>1. PICK q \in Seq(Items) : q = Propagate(g, Phase(g, services_started[g]), cascade)
    BY PropagationIsItems
  <2>2. todo' = q \o Tail(todo) /\ Services[g] = {}
    BY <1>3, <1>8, <2>1 DEF ActNothing
  <2>3. \A d : /\ Names(todo, d) => d = g \/ Names(todo', d)
               /\ Names(q, d) => Names(todo', d)
    BY <1>5, <1>6, <2>2, HeadConsumed
  <2>4. ASSUME NEW d \in Groups \ {g} PROVE Awake(d)'
    <3>1. Unmoved(d)
      BY <1>1, UnmovedByTheStack
    <3>2. Voiced(d) => Voiced(d)'
      BY <1>1, <2>3 DEF Voiced, HasQueued
    <3>3. Working(d) => Working(d)'
      BY <1>1, WorkGoesOn DEF taskVars
    <3>4. QED
      BY <3>1, <3>2, <3>3, AwakeStays DEF Wakes
  <2>5. Awake(g)'
    <3>1. CASE NoReload /\ Awaited(g)
      <4>1. NoReload => cascade
        BY <1>3, <1>4 DEF ProperAct
      <4>2. Names(q, g)
        BY <2>1, <3>1, <4>1, CompletionIsNamed DEF Ledger
      <4>3. QED
        BY <2>3, <4>2, VoicedIsAwake
    <3>2. CASE ~(NoReload /\ Awaited(g))
      <4>1. status[g] \notin {"Waiting", "Pending"}
        BY <1>3, <1>4, <2>2 DEF ProperAct
      <4>2. Quiet(g) /\ Listed(g)
        BY <2>2, <3>2, <4>1 DEF Quiet, Listed
      <4>3. Quiet(g)' /\ Listed(g)'
        BY <1>1, <4>2, QuietStays, UnmovedByTheStack
      <4>4. QED
        BY <4>3 DEF Awake
    <3>3. QED
      BY <3>1, <3>2
  <2>6. QED
    BY <2>4, <2>5 DEF Wakes
<1>9. QED
  BY <1>7, <1>8

LEMMA WatchWakes ==
  ASSUME EngineAssumption, IInv, Ledger, Wakes,
         NoChange \/ \E affected \in SUBSET Groups : Change(affected)
  PROVE  Wakes'
<1>1. /\ Doing("watch") /\ UNCHANGED <<resolver, groupVars, taskVars, queued, job>>
      /\ job # "new"
  <2>1. Doing("watch") /\ UNCHANGED <<resolver, groupVars, taskVars, queued, job>>
    BY DEF NoChange, Change
  <2>2. QED
    BY <2>1, AtWork
<1>2. Doing("watch") /\ todo \in Seq(Items)
  BY <1>1 DEF IInv, TypeOK
<1>3. Now.do = "watch" /\ \A d : Names(todo, d) <=> CallsFor(Now, d) \/ Names(Tail(todo), d)
  BY <1>2, StackNames
<1>4. \A d : ~CallsFor(Now, d)
  BY <1>3 DEF CallsFor, Calling
<1>5. \E q \in Seq(Items) : todo' = q \o Tail(todo) \/ todo' = Tail(todo)
  <2>1. ASSUME NEW affected \in SUBSET Groups
        PROVE  Exec(Roots(affected), TRUE, TRUE) \in Seq(Items)
    <3>1. Roots(affected) \in SUBSET Groups
      BY DEF Roots
    <3>2. QED
      BY <3>1, ExecsAreBare, BareIsProper, ProperAreItems
  <2>2. <<>> \in Seq(Items)
    OBVIOUS
  <2>3. CASE NoChange
    BY <2>2, <2>3 DEF NoChange
  <2>4. ASSUME NEW affected \in SUBSET Groups, Change(affected)
        PROVE  \E q \in Seq(Items) : todo' = q \o Tail(todo)
    BY <2>1, <2>4 DEF Change
  <2>5. QED
    BY <2>3, <2>4
<1>6. PICK q \in Seq(Items) : todo' = q \o Tail(todo) \/ todo' = Tail(todo)
  BY <1>5
<1>7. \A d : Names(Tail(todo), d) => Names(todo', d)
  <2>1. \A d : Names(q \o Tail(todo), d) <=> Names(q, d) \/ Names(Tail(todo), d)
    BY <1>2, StackNames
  <2>2. QED
    BY <1>6, <2>1
<1>8. \A d \in Groups : Voiced(d) => Names(todo', d) \/ HasQueued(d)'
  BY <1>1, <1>3, <1>4, <1>7 DEF Voiced, HasQueued
<1>9. \A d \in Groups : Working(d) => Working(d)'
  BY <1>1, WorkGoesOn DEF taskVars
<1>10. QED
  BY <1>1, <1>8, <1>9, NobodyTouched

-----------------------------------------------------------------------------
(***************************************************************************)
(* The checks of the services name nobody.                                 *)
(***************************************************************************)
LEMMA ChecksWake ==
  ASSUME EngineAssumption, ~RespawnFails, IInv, Ledger, Wakes,
         \/ \E g \in Groups : CheckGroup(g)
         \/ RespawnFails \/ GroupLooked
         \/ \E s \in AllServices :
              \/ RespawnDue(s) \/ RespawnLater(s) \/ NothingToDo(s)
              \/ Respawn(s) \/ RespawnDropped(s) \/ NoticeExit(s)
              \/ \E passed \in BOOLEAN : ReadinessAnswers(s, passed)
  PROVE  Wakes'
<1>1. UNCHANGED <<resolver, groupVars, taskVars, queued, job>>
  BY DEF CheckGroup, RespawnFails, GroupLooked, RespawnDue, RespawnLater, NothingToDo,
     Respawn, RespawnDropped, NoticeExit, ReadinessAnswers
<1>2. todo \in Seq(Items) /\ todo \in Seq(Sound)
  BY DEF IInv, TypeOK
<1>3. job # "new" /\ \A d : Names(todo, d) => Names(todo', d)
  <2>1. ASSUME NEW g \in Groups, CheckGroup(g)
        PROVE  job # "new" /\ \A d : Names(todo, d) => Names(todo', d)
    <3>1. Doing("check") /\ g \in Now.groups /\ todo' = Supervise(g) \o After(g)
      BY <2>1 DEF CheckGroup
    <3>2. Supervise(g) \in Seq(Items)
      BY SinglesAreBare, BareIsProper, ProperAreItems
    <3>3. \A d : Names(todo, d) => Names(After(g), d)
      BY <3>1, <3>2, RoundNames DEF LoopKinds, Calling
    <3>4. \A d : Names(After(g), d) => Names(Supervise(g) \o After(g), d)
      BY <3>1, <3>2, RoundNames DEF LoopKinds
    <3>5. job # "new"
      BY <1>1, <3>1, AtWork
    <3>6. QED
      BY <3>1, <3>3, <3>4, <3>5
  <2>2. ASSUME Doing("supervise")
        PROVE  /\ job # "new" /\ \A d : Names(todo, d) <=> Names(Tail(todo), d)
               /\ Now \in SuperviseItems
    <3>1. Now \in SuperviseItems /\ Now.do = "supervise"
      BY <1>2, <2>2, StackNames, KindsOfItems DEF SuperviseItems
    <3>2. \A d : ~CallsFor(Now, d)
      BY <3>1 DEF CallsFor, Calling
    <3>3. \A d : Names(todo, d) <=> CallsFor(Now, d) \/ Names(Tail(todo), d)
      BY <1>2, <2>2, StackNames
    <3>4. job # "new"
      BY <1>1, <2>2, AtWork
    <3>5. QED
      BY <3>1, <3>2, <3>3, <3>4
  <2>3. CASE GroupLooked
    <3> DEFINE ok == \A s \in Services[Now.group] : service_status[s] # "Failed"
    <3>1. /\ Doing("supervise")
          /\ todo' = Tail(todo) \o
               (IF pending_ready[Now.group] # None /\ ~AwaitsReadiness(Now.group)
                THEN Settle(Now.group, ok) ELSE <<>>)
      BY <2>3 DEF GroupLooked
    <3>2. Now.group \in Groups /\ ok \in BOOLEAN /\ Tail(todo) \in Seq(Items)
      BY <1>2, <2>2, <3>1, StackNames DEF SuperviseItems
    <3> HIDE DEF ok
    <3>3. PICK q \in Seq(Items) : todo' = Tail(todo) \o q
      <4>1. Settle(Now.group, ok) \in Seq(Items)
        BY <3>2, SinglesAreBare, BareIsProper, ProperAreItems
      <4>2. <<>> \in Seq(Items)
        OBVIOUS
      <4>3. QED
        BY <3>1, <4>1, <4>2
    <3>4. \A d : Names(Tail(todo) \o q, d) <=> Names(Tail(todo), d) \/ Names(q, d)
      BY <3>2, ConcatNames
    <3>5. QED
      BY <2>2, <3>1, <3>3, <3>4
  <2>4. ASSUME NEW s \in AllServices,
               \/ RespawnDue(s) \/ RespawnLater(s) \/ NothingToDo(s)
               \/ Respawn(s) \/ RespawnDropped(s) \/ NoticeExit(s)
               \/ \E passed \in BOOLEAN : ReadinessAnswers(s, passed)
        PROVE  job # "new" /\ \A d : Names(todo, d) => Names(todo', d)
    <3>1. /\ Doing("supervise")
          /\ \/ todo' = Looked(s)
             \/ todo' = <<[Now EXCEPT !.at = {s}]>> \o Tail(todo)
      BY <2>4 DEF RespawnDue, RespawnLater, NothingToDo, Respawn, RespawnDropped,
         NoticeExit, ReadinessAnswers, Looking
    <3>2. Now \in SuperviseItems
      BY <2>2, <3>1
    <3>3. PICK x \in SuperviseItems : todo' = <<x>> \o Tail(todo)
      <4>1. /\ [Now EXCEPT !.left = @ \ {s}, !.at = {}] \in SuperviseItems
            /\ [Now EXCEPT !.at = {s}] \in SuperviseItems
        BY <3>2 DEF SuperviseItems
      <4>2. QED
        BY <3>1, <4>1 DEF Looked
    <3>4. x \in Items
      BY DEF SuperviseItems, Items
    <3>5. \A d : Names(<<x>> \o Tail(todo), d) <=> CallsFor(x, d) \/ Names(Tail(todo), d)
      BY <3>1, <3>4, HeadReplaced
    <3>6. QED
      BY <2>2, <3>1, <3>3, <3>5
  <2>5. CASE RespawnFails
    BY <2>5 DEF RespawnFails
  <2>6. QED
    BY <2>1, <2>3, <2>4, <2>5
<1>4. \A d \in Groups : Voiced(d) => Names(todo', d) \/ HasQueued(d)'
  BY <1>1, <1>3 DEF Voiced, HasQueued
<1>5. \A d \in Groups : Working(d) => Working(d)'
  BY <1>1, WorkGoesOn DEF taskVars
<1>6. QED
  BY <1>1, <1>3, <1>4, <1>5, NobodyTouched

(***************************************************************************)
(* A deferred transition is made: the group is Ready, and propagated when  *)
(* it held others back, or it failed, and those behind it are skipped.     *)
(***************************************************************************)
LEMMA SettleWakes ==
  ASSUME EngineAssumption, IInv, Ledger, Wakes, SettleReady \/ SettleFailed
  PROVE  Wakes'
<1>1. /\ Doing("settle")
      /\ UNCHANGED <<services_started, taskVars, queued, job>>
      /\ pending_ready' = [pending_ready EXCEPT ![Now.group] = None]
  BY DEF SettleReady, SettleFailed
<1>2. Doing("settle") /\ job # "new" /\ todo \in Seq(Items)
  BY <1>1, AtWork DEF IInv, TypeOK
<1>3. /\ Now.do = "settle" /\ Now \in Items
      /\ \A d : Names(todo, d) <=> CallsFor(Now, d) \/ Names(Tail(todo), d)
  BY <1>2, StackNames
<1>4. PICK g \in Groups : g = Now.group
  BY <1>3, KindsOfItems
<1>5. \A d : ~CallsFor(Now, d)
  BY <1>3 DEF CallsFor, Calling
<1>6. /\ status \in StatusMap
      /\ pending_ready \in [Groups -> [phase : Phases, cascade : BOOLEAN] \cup {None}]
  BY DEF IInv, TypeOK
<1>7. /\ pending_ready'[g] = None
      /\ \A d \in Groups \ {g} : pending_ready'[d] = pending_ready[d]
  BY <1>1, <1>4, <1>6
<1>8. \A d \in Groups : Working(d) => Working(d)'
  BY <1>1, WorkGoesOn DEF taskVars
<1>9. ASSUME UNCHANGED <<resolver, status>>, pending_ready[g] = None \/ status[g] = "Ready",
             todo' = Tail(todo)
      PROVE  Wakes'
  <2>1. SUFFICES ASSUME NEW d \in Groups PROVE Awake(d)'
    BY DEF Wakes
  <2>2. Voiced(d) => Voiced(d)'
    BY <1>1, <1>3, <1>5, <1>9 DEF Voiced, HasQueued
  <2>3. CASE pending_ready'[d] = pending_ready[d]
    <3>1. Unmoved(d)
      BY <1>1, <1>9, <2>3 DEF Unmoved, resolver
    <3>2. QED
      BY <1>8, <2>2, <3>1, AwakeStays DEF Wakes
  <2>4. CASE pending_ready'[d] # pending_ready[d]
    <3>1. d = g /\ status[d] = "Ready"
      BY <1>7, <1>9, <2>4
    <3>2. Quiet(d) => Quiet(d)'
      BY <1>1, <1>9, <3>1 DEF Quiet, Held, Awaited, resolver
    <3>3. Listed(d)'
      BY <1>9, <3>1 DEF Listed
    <3>4. QED
      BY <1>8, <2>2, <3>2, <3>3 DEF Awake, Wakes
  <2>5. QED
    BY <2>3, <2>4
<1>10. CASE SettleReady
  <2>1. CASE pending_ready[g] = None \/ status[g] = "Ready"
    <3>1. UNCHANGED <<resolver, status>> /\ todo' = Tail(todo)
      BY <1>4, <1>10, <2>1 DEF SettleReady
    <3>2. QED
      BY <1>9, <2>1, <3>1
  <2>2. CASE ~(pending_ready[g] = None \/ status[g] = "Ready")
    <3>1. PICK phase \in Phases, cascade \in BOOLEAN :
            pending_ready[g] = [phase |-> phase, cascade |-> cascade]
      BY <1>6, <2>2
    <3>2. pending_ready[g].phase = phase /\ pending_ready[g].cascade = cascade
      BY <3>1
    <3>3. PICK q \in Seq(Items) : q = Propagate(g, phase, cascade)
      BY PropagationIsItems
    <3>4. /\ UNCHANGED resolver /\ status' = [status EXCEPT ![g] = "Ready"]
          /\ todo' = q \o Tail(todo)
      BY <1>4, <1>10, <2>2, <3>2, <3>3 DEF SettleReady
    <3>5. \A d : Names(q \o Tail(todo), d) <=> Names(q, d) \/ Names(Tail(todo), d)
      BY <1>2, StackNames
    <3>6. \A d : /\ Names(todo, d) => Names(todo', d)
                 /\ Names(q, d) => Names(todo', d)
      BY <1>3, <1>5, <3>4, <3>5
    <3>7. \A d \in Groups : Voiced(d) => Voiced(d)'
      BY <1>1, <3>6 DEF Voiced, HasQueued
    <3>8. ASSUME NEW d \in Groups \ {g} PROVE Awake(d)'
      <4>1. Unmoved(d)
        BY <1>1, <1>6, <1>7, <3>4 DEF Unmoved, StatusMap, resolver
      <4>2. QED
        BY <1>8, <3>7, <4>1, AwakeStays DEF Wakes
    <3>9. Awake(g)'
      <4>1. status'[g] = "Ready" /\ (Awaited(g)' <=> Awaited(g)) /\ waiting' = waiting
        BY <1>6, <3>4 DEF StatusMap, Awaited, resolver
      <4>2. Listed(g)'
        BY <4>1 DEF Listed
      <4>3. Services[g] # {} => services_started'[g]
        BY <1>1, <2>2 DEF Ledger, DeferredAreStarted
      <4>4. CASE NoReload /\ Awaited(g) /\ waiting[g] = {} /\ phase = "Startup"
        <5>1. cascade
          BY <2>2, <3>2, <4>4 DEF Ledger, CascadesUnlessReloaded
        <5>2. q = Loop("trigger", {g})
          BY <3>3, <4>4, <5>1 DEF Propagate
        <5>3. Names(Loop("trigger", {g}), g)
          BY LoopNames DEF LoopKinds, Calling
        <5>4. Names(todo', g)
          BY <3>6, <5>2, <5>3
        <5>5. QED
          BY <5>4, VoicedIsAwake
      <4>5. CASE ~(NoReload /\ Awaited(g) /\ waiting[g] = {} /\ phase = "Startup")
        <5>1. Quiet(g) => Quiet(g)'
          BY <3>2, <4>1, <4>3, <4>5 DEF Quiet, Held
        <5>2. Voiced(g)' \/ Working(g)' \/ Quiet(g)'
          BY <1>8, <3>7, <5>1 DEF Awake, Wakes
        <5>3. QED
          BY <4>2, <5>2 DEF Awake
      <4>6. QED
        BY <4>4, <4>5
    <3>10. QED
      BY <3>8, <3>9 DEF Wakes
  <2>3. QED
    BY <2>1, <2>2
<1>11. CASE SettleFailed
  <2>1. todo' = Tail(todo)
    BY <1>11 DEF SettleFailed
  <2>2. CASE pending_ready[g] = None \/ status[g] = "Ready"
    <3>1. UNCHANGED <<resolver, status>>
      BY <1>4, <1>11, <2>2 DEF SettleFailed
    <3>2. QED
      BY <1>9, <2>1, <2>2, <3>1
  <2>3. CASE ~(pending_ready[g] = None \/ status[g] = "Ready")
    <3>1. SkipBehind({g}, "Failed")
      BY <1>4, <1>11, <2>3 DEF SettleFailed
    <3>2. \A d \in Groups \ {g} : Names(todo, d) => Names(todo', d)
      BY <1>3, <1>5, <2>1
    <3>3. QED
      BY <1>1, <1>2, <1>7, <3>1, <3>2, SkippingWakes
  <2>4. QED
    BY <2>2, <2>3
<1>12. QED
  BY <1>10, <1>11

-----------------------------------------------------------------------------
(***************************************************************************)
(* Requests, none of which drops a poll.                                   *)
(***************************************************************************)
LEMMA RequestsAtRest ==
  ASSUME NoDrops, Ledger, NEW kind, TakeRequest(kind)
  PROVE  job = "idle" /\ todo = <<>> /\ ~TaskOnly /\ kind \in RequestKinds
<1>1. HasDelay \cup HasCleanup = {} /\ kind \in RequestKinds /\ ~TaskOnly
  BY DEF NoDrops, TakeRequest
<1>2. ~Suspended
  BY <1>1 DEF Suspended
<1>3. job = "idle"
  BY <1>2 DEF TakeRequest
<1>4. QED
  BY <1>1, <1>3 DEF Ledger, IdleIsIdle

LEMMA RequestWakes ==
  ASSUME EngineAssumption, NoDrops, IInv, Ledger, Wakes, Request
  PROVE  Wakes'
<1>1. PICK kind : TakeRequest(kind)
  BY DEF Request, StatusRequest, RestartAll, RestartGroup, RestartTask, RestartService,
     ReloadConfig
<1>2. job # "new" /\ todo = <<>>
  BY <1>1, RequestsAtRest
<1>3. CASE \/ StatusRequest
           \/ \E g \in Groups : RestartGroup(g)
           \/ \E t \in Tasks : RestartTask(t)
           \/ \E s \in AllServices : RestartService(s)
  <2>1. UNCHANGED <<resolver, groupVars, queued>>
    BY <1>3 DEF StatusRequest, RestartGroup, RestartTask, RestartService
  <2>2. UNCHANGED run \/ \E S \in SUBSET Tasks : Spawn(S)
    <3>1. \A t \in Tasks : RestartTask(t) =>
                          Spawn({t} \ unexpandable) /\ ({t} \ unexpandable) \in SUBSET Tasks
      BY DEF RestartTask
    <3>2. QED
      BY <1>3, <3>1 DEF StatusRequest, RestartGroup, RestartService, taskVars
  <2>3. \A d \in Groups : Working(d) => Working(d)'
    BY <2>2, WorkGoesOn
  <2>4. \A d \in Groups : Voiced(d) => HasQueued(d)'
    BY <1>2, <2>1, NobodyNamed DEF Voiced, HasQueued
  <2>5. QED
    BY <1>2, <2>1, <2>3, <2>4, NobodyTouched
<1>4. CASE RestartAll
  <2>1. PICK st0 : st0 = [g \in Groups |-> "Pending"]
    OBVIOUS
  <2>2. StartWave(st0)
    BY <1>4, <2>1 DEF RestartAll
  <2>3. QED
    BY <2>2, WaveWakes
<1>5. ASSUME NEW M \in SUBSET Groups, ReloadConfig(M) PROVE Wakes'
  <2>1. SUFFICES ASSUME NEW d \in Groups PROVE Awake(d)'
    BY DEF Wakes
  <2>2. /\ ~NoReload
        /\ status' = [g \in Groups |-> IF g \in M THEN "Pending" ELSE status[g]]
        /\ services_started' = [g \in Groups |-> g \notin M /\ services_started[g]]
        /\ todo' = Exec(M, FALSE, FALSE)
        /\ UNCHANGED <<run, queued>>
    BY <1>5 DEF ReloadConfig, TakeRequest, NoReload
  <2>3. CASE d \in M
    <3>1. Names(todo', d)
      BY <2>2, <2>3, ExecNames
    <3>2. QED
      BY <3>1, VoicedIsAwake
  <2>4. CASE d \notin M
    <3>1. status'[d] = status[d] /\ (services_started[d] => services_started'[d])
      BY <2>2, <2>4
    <3>2. Listed(d)'
      BY <2>2 DEF Listed
    <3>3. Quiet(d) => Quiet(d)'
      BY <1>2, <2>2, <3>1 DEF Quiet
    <3>4. Voiced(d) => Voiced(d)'
      BY <1>2, <2>2, NobodyNamed DEF Voiced, HasQueued
    <3>5. Working(d) => Working(d)'
      BY <2>2, WorkGoesOn
    <3>6. Awake(d)
      BY DEF Wakes
    <3>7. QED
      BY <3>2, <3>3, <3>4, <3>5, <3>6 DEF Awake
  <2>5. QED
    BY <2>3, <2>4
<1>6. QED
  BY <1>3, <1>4, <1>5 DEF Request

LEMMA WorldWakes ==
  ASSUME IInv, Wakes, World \/ UNCHANGED vars
  PROVE  Wakes'
<1>1. UNCHANGED <<resolver, groupVars, queued, job, todo>>
  BY DEF World, TaskEnds, ServiceExits, vars
<1>2. \A t \in Tasks : InFlight(t) => InFlight(t)'
  <2>1. run \in [Tasks -> {"idle", "executing", "succeeded", "failed"}]
    BY DEF IInv, TypeOK
  <2>2. CASE UNCHANGED run
    BY <2>2 DEF InFlight
  <2>3. ASSUME NEW t \in Tasks, NEW ok \in BOOLEAN, TaskEnds(t, ok)
        PROVE  \A u \in Tasks : InFlight(u) => InFlight(u)'
    <3>1. run' = [run EXCEPT ![t] = IF ok THEN "succeeded" ELSE "failed"]
      BY <2>3 DEF TaskEnds
    <3>2. QED
      BY <2>1, <3>1 DEF InFlight
  <2>4. QED
    BY <2>2, <2>3 DEF World, ServiceExits, taskVars, vars
<1>3. \A d \in Groups : Working(d) => Working(d)'
  BY <1>2 DEF Working, Tasks, TasksOf
<1>4. \A d \in Groups : Voiced(d) => Names(todo', d) \/ HasQueued(d)'
  BY <1>1 DEF Voiced, HasQueued
<1>5. QED
  BY <1>1, <1>3, <1>4, NobodyTouched

LEMMA WakesStay ==
  ASSUME EngineAssumption, TasksExpand, NoDrops, ~ServeFails, ~RespawnFails, IInv, Ledger, Wakes,
         [Next]_vars
  PROVE  Wakes'
<1>1. CASE EngineStep
  <2>1. CASE Startup
    BY <2>1, WaveWakes DEF Startup
  <2>2. CASE Finish \/ Poll
    BY <2>2, LoopWakes
  <2>3. CASE \E g \in Groups : ExecTasks(g) \/ ExecNothing(g) \/ ExecServices(g)
    BY <2>3, ExecWakes
  <2>4. CASE \E s \in AllServices :
              \/ ServeSignal(s) \/ ServeBegin(s) \/ ServeStart(s) \/ ServeSkips(s)
    BY <2>4, ServeWakes
  <2>5. CASE ServeDone
    BY <2>5, ServeDoneWakes
  <2>6. CASE ServeFails
    BY <2>6
  <2>7. CASE \E g \in Groups : Trigger(g)
    BY <2>7, TriggerWakes
  <2>8. CASE \E g \in Groups :
               StartWaitingTasks(g) \/ StartWaitingNothing(g) \/ QueueServiceAction(g)
    BY <2>8, StartWaitingWakes
  <2>9. CASE Skip \/ \E g \in Groups : Fail(g)
    BY <2>9, SkipsWake
  <2>10. CASE \E g \in Groups : CascadeTasks(g) \/ CascadeServices(g) \/ CascadeNothing(g)
    BY <2>10, CascadeWakes
  <2>11. CASE \E t \in Tasks : DrainTask(t)
    BY <2>11, DrainTaskWakes
  <2>12. CASE \E g \in Groups : DrainQueued(g)
    BY <2>12, DrainQueuedWakes
  <2>13. CASE DrainEnds
    BY <2>13, DrainEndsWakes
  <2>14. CASE ActServices \/ ActNothing
    BY <2>14, ActWakes
  <2>15. CASE NoChange \/ \E affected \in SUBSET Groups : Change(affected)
    BY <2>15, WatchWakes
  <2>16. CASE \/ \E g \in Groups : CheckGroup(g)
              \/ RespawnFails \/ GroupLooked
              \/ \E s \in AllServices :
                   \/ RespawnDue(s) \/ RespawnLater(s) \/ NothingToDo(s)
                   \/ Respawn(s) \/ RespawnDropped(s) \/ NoticeExit(s)
                   \/ \E passed \in BOOLEAN : ReadinessAnswers(s, passed)
    BY <2>16, ChecksWake
  <2>17. CASE SettleReady \/ SettleFailed
    BY <2>17, SettleWakes
  <2>18. QED
    BY <1>1, <2>1, <2>2, <2>3, <2>4, <2>5, <2>6, <2>7, <2>8, <2>9, <2>10, <2>11, <2>12, <2>13,
       <2>14, <2>15, <2>16, <2>17 DEF EngineStep
<1>2. CASE Request
  BY <1>2, RequestWakes
<1>3. CASE World \/ UNCHANGED vars
  BY <1>3, WorldWakes
<1>4. QED
  BY <1>1, <1>2, <1>3 DEF Next, Done

LEMMA AwakeAtFirst == Init => Wakes
BY DEF Init, Wakes, Awake, Listed, Quiet, Awaited

-----------------------------------------------------------------------------
(***************************************************************************)
(* The one-shot task command.  What it has on its stack: nothing of the    *)
(* daemon's supervision and file watching, no task but a startup task, and *)
(* services only of groups that have one.                                  *)
(***************************************************************************)
Chores ==
  {x \in Items :
     /\ x.do \notin {"check", "watch", "supervise", "settle"}
     /\ x.do = "exec" => ~x.onChange
     /\ x.do = "serve" => StartupTasks[x.group] # {} /\ x.phase = "Later"
     /\ x.do = "act" => StartupTasks[x.action.group] # {}
     /\ x.do = "drain" => \A k \in DOMAIN x.actions : StartupTasks[x.actions[k].group] # {}}

\* no group has both a startup task and a service with a readiness check
Apart == \A g \in Groups : StartupTasks[g] = {} \/ Services[g] \cap HasReadyCheck = {}

OneShot == TaskOnly /\ Apart /\ TasksExpand

(***************************************************************************)
(* What the command keeps: nothing is deferred, only startup tasks run, a  *)
(* group that is Running has one in flight, and once no task was in flight *)
(* before the last drain every group has settled.                          *)
(***************************************************************************)
OnlyStartupTasks ==
  \A g \in Groups : \A t \in TasksOf(g) : InFlight(t) => t \in StartupTasks[g]

RunningIsWorking == \A g \in Groups : status[g] = "Running" => Working(g)

Settled ==
  /\ todo \in {<<>>, Drain}
  /\ \A t \in Tasks : ~InFlight(t)
  /\ \A g \in Groups : status[g] \in {"Ready", "Failed", "Skipped"}

Command ==
  /\ todo \in Seq(Chores)
  /\ \A g \in Groups : pending_ready[g] = None
  /\ OnlyStartupTasks /\ RunningIsWorking
  /\ job \in {"last", "done"} => Settled

LEMMA LoopsAreChores ==
  ASSUME NEW kind \in LoopKinds \ {"check"}, NEW S \in SUBSET Groups
  PROVE  Loop(kind, S) \in Seq(Chores)
<1>1. [do |-> kind, groups |-> S] \in Chores
  BY DEF Chores, Items, LoopKinds
<1>2. QED
  BY <1>1 DEF Loop

LEMMA ExecsAreChores ==
  ASSUME NEW S \in SUBSET Groups, NEW cascade \in BOOLEAN
  PROVE  Exec(S, FALSE, cascade) \in Seq(Chores)
<1>1. [do |-> "exec", groups |-> S, onChange |-> FALSE, cascade |-> cascade] \in Chores
  BY DEF Chores, Items
<1>2. QED
  BY <1>1 DEF Exec

LEMMA DrainIsAChore == Drain \in Seq(Chores) /\ <<>> \in Seq(Chores)
<1>1. [do |-> "drain", failed |-> {}, actions |-> <<>>] \in Chores
  BY DEF Chores, Items
<1>2. QED
  BY <1>1, Single DEF Drain

LEMMA PropagationIsAChore ==
  ASSUME NEW g \in Groups, NEW phase, NEW cascade
  PROVE  Propagate(g, phase, cascade) \in Seq(Chores)
<1>1. Dependents(g) \in SUBSET Groups
  BY DEF Dependents
<1>2. Loop("trigger", {g}) \in Seq(Chores) /\ Loop("cascade", Dependents(g)) \in Seq(Chores)
  BY <1>1, LoopsAreChores DEF LoopKinds
<1>3. QED
  BY <1>2, DrainIsAChore DEF Propagate

LEMMA ServesAreChores ==
  ASSUME EngineAssumption, NEW g \in Groups, NEW start \in BOOLEAN, NEW cascade \in BOOLEAN,
         StartupTasks[g] # {}
  PROVE  Serve(g, start, "Later", cascade) \in Seq(Chores)
<1> DEFINE x == [do |-> "serve", group |-> g, start |-> start, left |-> Services[g],
                 at |-> {}, phase |-> "Later", cascade |-> cascade]
<1>1. Services[g] \in SUBSET AllServices
  BY DEF AllServices
<1>2. x \in Items /\ x.do = "serve" /\ x.group = g /\ x.phase = "Later"
  BY <1>1 DEF Items
<1>3. Serve(g, start, "Later", cascade) = <<x>>
  BY DEF Serve
<1> HIDE DEF x
<1>4. x \in Chores
  BY <1>2 DEF Chores
<1>5. QED
  BY <1>3, <1>4, Single

LEMMA ActionsAreChores ==
  ASSUME NEW acts \in Seq(Actions), \A k \in DOMAIN acts : StartupTasks[acts[k].group] # {}
  PROVE  [i \in DOMAIN acts |-> [do |-> "act", action |-> acts[i]]] \in Seq(Chores)
<1> DEFINE f == [i \in DOMAIN acts |-> [do |-> "act", action |-> acts[i]]]
<1>1. DOMAIN acts = 1..Len(acts) /\ Len(acts) \in Nat
  OBVIOUS
<1>2. ASSUME NEW i \in DOMAIN acts PROVE [do |-> "act", action |-> acts[i]] \in Chores
  <2> DEFINE x == [do |-> "act", action |-> acts[i]]
  <2>1. acts[i] \in Actions
    BY <1>1
  <2>2. x \in Items /\ x.do = "act" /\ x.action = acts[i]
    BY <2>1 DEF Items
  <2> HIDE DEF x
  <2>3. x \in Chores
    BY <2>2 DEF Chores
  <2>4. QED
    BY <2>3 DEF x
<1>3. f \in [1..Len(acts) -> Chores]
  BY <1>1, <1>2
<1> HIDE DEF f
<1>4. QED
  BY <1>1, <1>3, SeqDef DEF f

LEMMA ChoreFacts ==
  ASSUME todo \in Seq(Chores), NEW kind, Doing(kind)
  PROVE  /\ Now \in Chores /\ Now \in Items /\ Now.do = kind
         /\ Tail(todo) \in Seq(Chores)
         /\ kind \notin {"check", "watch", "supervise", "settle"}
<1>1. todo # <<>> /\ Now.do = kind
  BY DEF Doing
<1>2. Head(todo) \in Chores /\ Tail(todo) \in Seq(Chores)
  BY <1>1, HeadAndTail
<1>3. QED
  BY <1>1, <1>2 DEF Now, Chores

LEMMA ChoreLoopGoesOn ==
  ASSUME todo \in Seq(Chores), NEW kind \in LoopKinds \cup {"exec"},
         Doing(kind), NEW g \in Now.groups
  PROVE  After(g) \in Seq(Chores) /\ g \in Groups
<1>1. /\ Now \in Chores /\ Now \in Items /\ Now.do = kind /\ Tail(todo) \in Seq(Chores)
      /\ kind # "check"
  BY ChoreFacts
<1> DEFINE x == [Now EXCEPT !.groups = @ \ {g}]
<1>2. x \in Chores /\ g \in Groups
  <2>1. CASE kind \in LoopKinds
    <3>1. Now \in [do : LoopKinds, groups : SUBSET Groups]
      BY <1>1, <2>1, KindsOfItems
    <3>2. x \in [do : LoopKinds, groups : SUBSET Groups] /\ g \in Groups /\ x.do = kind
      BY <1>1, <3>1
    <3>3. QED
      BY <1>1, <2>1, <3>2 DEF Chores, Items, LoopKinds
  <2>2. CASE kind = "exec"
    <3>1. Now \in [do : {"exec"}, groups : SUBSET Groups, onChange : BOOLEAN,
                   cascade : BOOLEAN]
      BY <1>1, <2>2, KindsOfItems
    <3>2. /\ x \in [do : {"exec"}, groups : SUBSET Groups, onChange : BOOLEAN,
                    cascade : BOOLEAN]
          /\ g \in Groups /\ x.do = "exec" /\ x.onChange = Now.onChange
      BY <1>1, <2>2, <3>1
    <3>3. x \in Items
      BY <3>2 DEF Items
    <3>4. QED
      BY <1>1, <2>2, <3>2, <3>3 DEF Chores
  <2>3. QED
    BY <2>1, <2>2
<1>3. <<x>> \in Seq(Chores)
  BY <1>2, Single
<1> HIDE DEF x
<1>4. <<x>> \o Tail(todo) \in Seq(Chores)
  BY <1>1, <1>3, Concatenated
<1>5. QED
  BY <1>1, <1>2, <1>4 DEF After, x

(***************************************************************************)
(* The steps that touch neither the tasks nor, except to settle it, the    *)
(* status of a group.                                                      *)
(***************************************************************************)
LEMMA AtAChore ==
  ASSUME Command, NEW kind, Doing(kind)
  PROVE  job \in {"last", "done"} => kind = "drain"
<1>1. Drain # <<>> /\ Head(Drain).do = "drain"
  BY DEF Drain
<1>2. QED
  BY <1>1 DEF Command, Settled, Doing, Now

LEMMA CommandGoesOn ==
  ASSUME Command, todo' \in Seq(Chores), \A g \in Groups : pending_ready'[g] = None,
         \A g \in Groups : status'[g] = "Running" => status[g] = "Running",
         UNCHANGED <<run, job>>, job \notin {"last", "done"}
  PROVE  Command'
<1>1. RunningIsWorking'
  BY DEF Command, RunningIsWorking, Working, InFlight
<1>2. OnlyStartupTasks'
  BY DEF Command, OnlyStartupTasks, InFlight
<1>3. QED
  BY <1>1, <1>2 DEF Command

LEMMA CommandRestacked ==
  ASSUME Command, NEW kind, Doing(kind), kind # "drain", todo' \in Seq(Chores),
         UNCHANGED <<pending_ready, status, run, job>>
  PROVE  Command'
<1>1. \A g \in Groups : pending_ready'[g] = None
  BY DEF Command
<1>2. job \notin {"last", "done"}
  BY AtAChore
<1>3. QED
  BY <1>1, <1>2, CommandGoesOn

LEMMA CommandSpawns ==
  ASSUME IInv, TasksExpand, Command, NEW kind, Doing(kind), kind # "drain", todo' \in Seq(Chores),
         NEW g \in Groups, StartupTasks[g] # {}, SpawnGroupTasks(g, FALSE),
         UNCHANGED <<pending_ready, job>>
  PROVE  Command'
<1>1. PICK S \in SUBSET Tasks : S = StartupTasks[g] /\ Spawn(S)
  <2>1. Spawn(RunnableTasks(g, FALSE))
    BY TasksAreSpawned
  <2>2. QED
    BY <2>1, TasksAreTasks DEF RunnableTasks
<1>2. S \subseteq TasksOf(g) /\ S # {}
  BY <1>1 DEF TasksOf
<1>3. OnlyStartupTasks'
  <2>1. SUFFICES ASSUME NEW h \in Groups, NEW t \in TasksOf(h), InFlight(t)'
                 PROVE  t \in StartupTasks[h]
    BY DEF OnlyStartupTasks
  <2>2. t \in Tasks
    BY DEF Tasks, TasksOf
  <2>3. InFlight(t) \/ t \in StartupTasks[g]
    BY <1>1, <2>1, <2>2 DEF Spawn, InFlight
  <2>4. CASE InFlight(t)
    BY <2>4 DEF Command, OnlyStartupTasks
  <2>5. CASE t \in StartupTasks[g]
    BY <2>5, EngineAssumption DEF TasksOf, EngineAssumption
  <2>6. QED
    BY <2>3, <2>4, <2>5
<1>4. RunningIsWorking'
  <2>1. SUFFICES ASSUME NEW h \in Groups, status'[h] = "Running" PROVE Working(h)'
    BY DEF RunningIsWorking
  <2>2. CASE h = g
    BY <1>1, <1>2, <2>2, SpawnedIsWorking
  <2>3. CASE h # g
    <3>1. status[h] = "Running"
      BY <2>1, <2>3 DEF SpawnGroupTasks, IInv, TypeOK, StatusMap
    <3>2. Working(h) => Working(h)'
      BY <1>1, WorkGoesOn
    <3>3. QED
      BY <3>1, <3>2 DEF Command, RunningIsWorking
  <2>4. QED
    BY <2>2, <2>3
<1>5. job \notin {"last", "done"}
  BY AtAChore
<1>6. QED
  BY <1>3, <1>4, <1>5 DEF Command

-----------------------------------------------------------------------------
(***************************************************************************)
(* When no task is left, every group has settled: a group that waited      *)
(* would wait for one that waits, and dependencies have no cycles.         *)
(***************************************************************************)
LEMMA NobodyIsLeft ==
  ASSUME TaskOnly, EngineAssumption, IInv, Ledger, Wakes, Command, job = "idle",
         \A t \in Tasks : ~InFlight(t)
  PROVE  \A g \in Groups : status[g] \in {"Ready", "Failed", "Skipped"}
<1>1. todo = <<>> /\ NoReload
  BY DEF Ledger, IdleIsIdle, NoReload
<1>2. ASSUME NEW d \in Groups
      PROVE  /\ Listed(d) /\ Quiet(d) /\ ~Working(d)
             /\ Awaited(d) => waiting[d] # {}
  <2>1. ~Working(d)
    BY DEF Working, Tasks, TasksOf
  <2>2. ~Voiced(d)
    BY <1>1, NobodyNamed DEF Voiced, Ledger, QueuedHaveServices
  <2>3. Listed(d) /\ Quiet(d)
    BY <2>1, <2>2 DEF Wakes, Awake
  <2>4. ~Held(d)
    BY DEF Command, Held, None
  <2>5. QED
    BY <1>1, <2>1, <2>3, <2>4 DEF Quiet
<1>3. \A g \in Groups : waiting[g] = {}
  <2> DEFINE S == {g \in Groups : waiting[g] # {}}
  <2>1. SUFFICES ASSUME S # {} PROVE FALSE
    OBVIOUS
  <2>2. PICK g \in S : DependsOn[g] \cap S = {}
    BY <2>1, DependsOnAssumption
  <2>3. PICK d \in waiting[g] : d \in DependsOn[g]
    BY <2>2 DEF Ledger, EntriesAreDependencies
  <2>4. d \in Groups /\ Awaited(d)
    BY <2>2, <2>3, DependsOnAssumption DEF Awaited
  <2>5. d \in S
    BY <1>2, <2>4
  <2>6. QED
    BY <2>2, <2>3, <2>5
<1>4. SUFFICES ASSUME NEW g \in Groups PROVE status[g] \in {"Ready", "Failed", "Skipped"}
  OBVIOUS
<1>5. status[g] # "Waiting"
  BY <1>1, <1>2, <1>3 DEF Listed
<1>6. status[g] # "Pending"
  BY <1>2 DEF Quiet
<1>7. status[g] # "Running"
  BY <1>2 DEF Command, RunningIsWorking
<1>8. status[g] \in GroupStatus
  BY DEF IInv, TypeOK, StatusMap
<1>9. QED
  BY <1>5, <1>6, <1>7, <1>8 DEF GroupStatus

LEMMA LoopCommand ==
  ASSUME TaskOnly, EngineAssumption, IInv, Ledger, Wakes, Command,
         Startup \/ Finish \/ Poll
  PROVE  Command'
<1>1. /\ todo' \in Seq(Chores) /\ UNCHANGED <<pending_ready, run>>
      /\ \A g \in Groups : status'[g] = "Running" => status[g] = "Running"
  <2>1. CASE Startup
    <3> DEFINE late == {g \in Groups : [h \in Groups |-> UnreadyDependencies(statuses, h)][g] # {}}
    <3>1. /\ todo' = Exec(Groups \ late, FALSE, TRUE)
          /\ status' = [g \in Groups |-> IF g \in late THEN "Waiting" ELSE status[g]]
          /\ UNCHANGED <<pending_ready, run>>
      BY <2>1 DEF Startup, StartWave, taskVars
    <3> HIDE DEF late
    <3>2. Exec(Groups \ late, FALSE, TRUE) \in Seq(Chores)
      BY ExecsAreChores
    <3>3. QED
      BY <3>1, <3>2
  <2>2. CASE Finish
    BY <2>2, DrainIsAChore DEF Finish, groupVars, taskVars
  <2>3. CASE Poll
    BY <2>3, DrainIsAChore DEF Poll, groupVars, taskVars
  <2>4. QED
    BY <2>1, <2>2, <2>3
<1>2. OnlyStartupTasks' /\ RunningIsWorking'
  BY <1>1 DEF Command, OnlyStartupTasks, RunningIsWorking, Working, InFlight
<1>3. job' \in {"last", "done"} => Settled'
  <2>1. CASE Startup
    BY <2>1 DEF Startup
  <2>2. CASE Finish
    <3>1. UNCHANGED <<status, run, todo>>
      BY <2>2 DEF Finish, groupVars, taskVars
    <3>2. job' \in {"last", "done"} => job = "last"
      BY <2>2 DEF Finish
    <3>3. Settled => Settled'
      BY <3>1 DEF Settled, InFlight
    <3>4. QED
      BY <3>2, <3>3 DEF Command
  <2>3. CASE Poll
    <3>1. UNCHANGED <<status, run>> /\ job = "idle" /\ todo' = Drain
      BY <2>3 DEF Poll, groupVars, taskVars
    <3>2. job' \in {"last", "done"} => \A t \in Tasks : ~InFlight(t)
      BY <2>3 DEF Poll
    <3>3. job' \in {"last", "done"} =>
            \A g \in Groups : status[g] \in {"Ready", "Failed", "Skipped"}
      BY <3>1, <3>2, NobodyIsLeft
    <3>4. QED
      BY <3>1, <3>2, <3>3 DEF Settled, InFlight
  <2>4. QED
    BY <2>1, <2>2, <2>3
<1>4. QED
  BY <1>1, <1>2, <1>3 DEF Command

-----------------------------------------------------------------------------
(***************************************************************************)
(* The steps that run groups.                                              *)
(***************************************************************************)
LEMMA ReadyCommand ==
  ASSUME IInv, Command, NEW kind, Doing(kind), kind # "drain", todo' \in Seq(Chores),
         NEW g \in Groups, status' = [status EXCEPT ![g] = "Ready"],
         UNCHANGED <<pending_ready, run, job>>
  PROVE  Command'
<1>1. \A d \in Groups : status'[d] = "Running" => status[d] = "Running"
  BY DEF IInv, TypeOK, StatusMap
<1>2. \A d \in Groups : pending_ready'[d] = None
  BY DEF Command
<1>3. QED
  BY <1>1, <1>2, AtAChore, CommandGoesOn

LEMMA ExecCommand ==
  ASSUME TaskOnly, EngineAssumption, TasksExpand, IInv, Command, NEW g \in Groups,
         ExecTasks(g) \/ ExecNothing(g) \/ ExecServices(g)
  PROVE  Command'
<1>1. Doing("exec") /\ g \in Now.groups
  BY DEF ExecTasks, ExecNothing, ExecServices
<1>2. ~Now.onChange
  BY <1>1, ChoreFacts DEF Command, Chores
<1>3. After(g) \in Seq(Chores)
  BY <1>1, ChoreLoopGoesOn DEF Command
<1>4. CASE ExecTasks(g)
  <2>1. StartupTasks[g] # {} /\ SpawnGroupTasks(g, FALSE)
    BY <1>2, <1>4 DEF ExecTasks, SpawnGroupTasks, RunnableTasks
  <2>2. UNCHANGED <<pending_ready, job>> /\ todo' = After(g)
    BY <1>4 DEF ExecTasks
  <2>3. QED
    BY <1>1, <1>3, <2>1, <2>2, CommandSpawns
<1>5. CASE ExecNothing(g)
  <2>1. Propagate(g, Phase(g, services_started[g]), Now.cascade) \in Seq(Chores)
    BY PropagationIsAChore
  <2>2. /\ status' = [status EXCEPT ![g] = "Ready"]
        /\ UNCHANGED <<pending_ready, run, job>>
        /\ todo' = Propagate(g, Phase(g, services_started[g]), Now.cascade) \o After(g)
    BY <1>5 DEF ExecNothing, SetReady, taskVars
  <2>3. todo' \in Seq(Chores)
    BY <1>3, <2>1, <2>2, Concatenated
  <2>4. QED
    BY <1>1, <2>2, <2>3, ReadyCommand
<1>6. CASE ExecServices(g)
  BY <1>6 DEF ExecServices
<1>7. QED
  BY <1>4, <1>5, <1>6

LEMMA ServeCommand ==
  ASSUME EngineAssumption, IInv, Command, NEW s \in AllServices,
         ServeSignal(s) \/ ServeBegin(s) \/ ServeStart(s) \/ ServeSkips(s)
  PROVE  Command'
<1>1. Doing("serve") /\ UNCHANGED <<pending_ready, status, run, job>>
  BY DEF ServeSignal, ServeBegin, ServeStart, ServeSkips, groupVars, taskVars
<1>2. Now \in Chores /\ Now \in Items /\ Now.do = "serve" /\ Tail(todo) \in Seq(Chores)
  BY <1>1, ChoreFacts DEF Command
<1>3. /\ Now \in [do : {"serve"}, group : Groups, start : BOOLEAN,
                  left : SUBSET AllServices, at : SUBSET AllServices,
                  phase : Phases \cup {"Later"}, cascade : BOOLEAN]
      /\ StartupTasks[Now.group] # {} /\ Now.phase = "Later"
  BY <1>2, KindsOfItems DEF Chores
<1>4. PICK x : /\ todo' = <<x>> \o Tail(todo)
               /\ x \in {[Now EXCEPT !.left = @ \ {s}], [Now EXCEPT !.at = {s}],
                         [Now EXCEPT !.left = @ \ {s}, !.at = {}]}
  BY DEF ServeSignal, ServeBegin, ServeStart, ServeSkips
<1>5. x \in Items /\ x.do = "serve" /\ x.group = Now.group /\ x.phase = Now.phase
  <2> DEFINE Serves == [do : {"serve"}, group : Groups, start : BOOLEAN,
                        left : SUBSET AllServices, at : SUBSET AllServices,
                        phase : Phases \cup {"Later"}, cascade : BOOLEAN]
  <2>1. /\ [Now EXCEPT !.left = @ \ {s}] \in Serves
        /\ [Now EXCEPT !.left = @ \ {s}].do = "serve"
        /\ [Now EXCEPT !.left = @ \ {s}].group = Now.group
        /\ [Now EXCEPT !.left = @ \ {s}].phase = Now.phase
    BY <1>3
  <2>2. /\ [Now EXCEPT !.at = {s}] \in Serves
        /\ [Now EXCEPT !.at = {s}].do = "serve"
        /\ [Now EXCEPT !.at = {s}].group = Now.group
        /\ [Now EXCEPT !.at = {s}].phase = Now.phase
    BY <1>3
  <2>3. /\ [Now EXCEPT !.left = @ \ {s}, !.at = {}] \in Serves
        /\ [Now EXCEPT !.left = @ \ {s}, !.at = {}].do = "serve"
        /\ [Now EXCEPT !.left = @ \ {s}, !.at = {}].group = Now.group
        /\ [Now EXCEPT !.left = @ \ {s}, !.at = {}].phase = Now.phase
    BY <1>3
  <2>4. x \in Serves /\ x.do = "serve" /\ x.group = Now.group /\ x.phase = Now.phase
    BY <1>4, <2>1, <2>2, <2>3
  <2>5. QED
    BY <2>4 DEF Items
<1>6. x \in Chores
  BY <1>3, <1>5 DEF Chores
<1>7. todo' \in Seq(Chores)
  BY <1>2, <1>4, <1>6, Single, Concatenated
<1>8. QED
  BY <1>1, <1>7, CommandRestacked

LEMMA ServeDoneCommand ==
  ASSUME Apart, EngineAssumption, IInv, Command, ServeDone
  PROVE  Command'
<1>1. Doing("serve") /\ UNCHANGED <<run, job>>
  BY DEF ServeDone, taskVars
<1>2. Now \in Chores /\ Now \in Items /\ Now.do = "serve" /\ Tail(todo) \in Seq(Chores)
  BY <1>1, ChoreFacts DEF Command
<1>3. PICK g \in Groups : g = Now.group /\ StartupTasks[g] # {}
  BY <1>2, KindsOfItems DEF Chores
<1>4. ~AwaitsReadiness(g)
  BY <1>3 DEF Apart, AwaitsReadiness, IInv, TypeOK
<1>5. PICK phase, cascade :
        /\ todo' = Propagate(g, phase, cascade) \o Tail(todo)
        /\ pending_ready' = [pending_ready EXCEPT ![g] = None]
        /\ status' = [status EXCEPT ![g] = "Ready"]
  <2>1. PICK phase : phase = IF Now.phase = "Later" THEN Phase(g, TRUE) ELSE Now.phase
    OBVIOUS
  <2>2. PICK cascade : cascade = Now.cascade
    OBVIOUS
  <2>3. /\ DeferOrPropagate(g, phase, cascade)
        /\ pending_ready' = [pending_ready EXCEPT ![g] = None]
        /\ status' = [status EXCEPT ![g] = "Ready"]
    BY <1>3, <1>4, <2>1, <2>2 DEF ServeDone
  <2>4. todo' = Propagate(g, phase, cascade) \o Tail(todo)
    BY <1>4, <2>3 DEF DeferOrPropagate
  <2>5. QED
    BY <2>3, <2>4
<1>6. todo' \in Seq(Chores)
  BY <1>2, <1>5, PropagationIsAChore, Concatenated
<1>7. \A d \in Groups : pending_ready'[d] = None
  BY <1>5 DEF Command, IInv, TypeOK
<1>8. \A d \in Groups : status'[d] = "Running" => status[d] = "Running"
  BY <1>5 DEF IInv, TypeOK, StatusMap
<1>9. QED
  BY <1>1, <1>6, <1>7, <1>8, AtAChore, CommandGoesOn

-----------------------------------------------------------------------------
(***************************************************************************)
(* The steps that release, skip and cascade.                               *)
(***************************************************************************)
LEMMA TriggerCommand ==
  ASSUME EngineAssumption, IInv, Command, NEW g \in Groups, Trigger(g)
  PROVE  Command'
<1>1. /\ Doing("trigger") /\ status' = [status EXCEPT ![g] = "Ready"]
      /\ UNCHANGED <<pending_ready, run, job>>
      /\ todo' = Loop("start", ReadyToStart(waiting, statuses, g))
                   \o Loop("skip", NeedsSkip(waiting, statuses, g)) \o Tail(todo)
  BY DEF Trigger, SetReady, taskVars
<1>2. /\ ReadyToStart(waiting, statuses, g) \in SUBSET Groups
      /\ NeedsSkip(waiting, statuses, g) \in SUBSET Groups
  BY DEF ReadyToStart, NeedsSkip, Released, Dependents
<1>3. /\ Loop("start", ReadyToStart(waiting, statuses, g)) \in Seq(Chores)
      /\ Loop("skip", NeedsSkip(waiting, statuses, g)) \in Seq(Chores)
  BY <1>2, LoopsAreChores DEF LoopKinds
<1>4. Tail(todo) \in Seq(Chores)
  BY <1>1, ChoreFacts DEF Command
<1>5. todo' \in Seq(Chores)
  BY <1>1, <1>3, <1>4, Concatenated
<1>6. QED
  BY <1>1, <1>5, ReadyCommand

LEMMA StartWaitingCommand ==
  ASSUME TaskOnly, EngineAssumption, TasksExpand, IInv, Command, NEW g \in Groups,
         StartWaitingTasks(g) \/ StartWaitingNothing(g) \/ QueueServiceAction(g)
  PROVE  Command'
<1>1. Doing("start") /\ g \in Now.groups
  BY DEF StartWaitingTasks, StartWaitingNothing, QueueServiceAction
<1>2. After(g) \in Seq(Chores)
  BY <1>1, ChoreLoopGoesOn DEF Command, LoopKinds
<1>3. CASE StartWaitingTasks(g)
  <2>1. /\ StartupTasks[g] # {} /\ SpawnGroupTasks(g, FALSE)
        /\ UNCHANGED <<pending_ready, job>> /\ todo' = After(g)
    BY <1>3 DEF StartWaitingTasks
  <2>2. QED
    BY <1>1, <1>2, <2>1, CommandSpawns
<1>4. CASE StartWaitingNothing(g)
  <2>1. /\ status' = [status EXCEPT ![g] = "Ready"]
        /\ UNCHANGED <<pending_ready, run, job>>
        /\ todo' = Loop("trigger", {g}) \o After(g)
    BY <1>4 DEF StartWaitingNothing, SetReady, taskVars
  <2>2. Loop("trigger", {g}) \in Seq(Chores)
    BY LoopsAreChores DEF LoopKinds
  <2>3. todo' \in Seq(Chores)
    BY <1>2, <2>1, <2>2, Concatenated
  <2>4. QED
    BY <1>1, <2>1, <2>3, ReadyCommand
<1>5. CASE QueueServiceAction(g)
  BY <1>5 DEF QueueServiceAction
<1>6. QED
  BY <1>3, <1>4, <1>5

LEMMA SkippingCommand ==
  ASSUME IInv, Command, NEW kind, Doing(kind), kind # "drain", todo' \in Seq(Chores),
         NEW S \in SUBSET Groups, NEW own \in {"Skipped", "Failed"}, SkipBehind(S, own),
         UNCHANGED <<pending_ready, run, job>>
  PROVE  Command'
<1>1. \A d \in Groups : status'[d] = "Running" => status[d] = "Running"
  BY DEF SkipBehind, StatusAfterSkip
<1>2. \A d \in Groups : pending_ready'[d] = None
  BY DEF Command
<1>3. QED
  BY <1>1, <1>2, AtAChore, CommandGoesOn

LEMMA SkipsCommand ==
  ASSUME EngineAssumption, IInv, Command, Skip \/ \E g \in Groups : Fail(g)
  PROVE  Command'
<1>1. CASE Skip
  <2>1. /\ Doing("skip") /\ SkipBehind(Now.groups, "Skipped") /\ todo' = Tail(todo)
        /\ UNCHANGED <<pending_ready, run, job>>
    BY <1>1 DEF Skip, taskVars
  <2>2. Now \in Items /\ Now.do = "skip" /\ Tail(todo) \in Seq(Chores)
    BY <2>1, ChoreFacts DEF Command
  <2>3. PICK S \in SUBSET Groups : S = Now.groups
    BY <2>2, KindsOfItems DEF LoopKinds
  <2>4. SkipBehind(S, "Skipped")
    BY <2>1, <2>3
  <2>5. QED
    BY <2>1, <2>2, <2>4, SkippingCommand
<1>2. ASSUME NEW g \in Groups, Fail(g) PROVE Command'
  <2>1. /\ Doing("fail") /\ SkipBehind({g}, "Failed") /\ todo' = After(g)
        /\ UNCHANGED <<pending_ready, run, job>> /\ g \in Now.groups
    BY <1>2 DEF Fail, taskVars
  <2>2. After(g) \in Seq(Chores)
    BY <2>1, ChoreLoopGoesOn DEF Command, LoopKinds
  <2>3. {g} \in SUBSET Groups
    OBVIOUS
  <2>4. QED
    BY <2>1, <2>2, <2>3, SkippingCommand
<1>3. QED
  BY <1>1, <1>2

LEMMA CascadeCommand ==
  ASSUME EngineAssumption, TasksExpand, IInv, Command, NEW g \in Groups,
         CascadeTasks(g) \/ CascadeServices(g) \/ CascadeNothing(g)
  PROVE  Command'
<1>1. Doing("cascade") /\ g \in Now.groups
  BY DEF CascadeTasks, CascadeServices, CascadeNothing
<1>2. After(g) \in Seq(Chores)
  BY <1>1, ChoreLoopGoesOn DEF Command, LoopKinds
<1>3. CASE CascadeTasks(g)
  <2>1. /\ StartupTasks[g] # {} /\ SpawnGroupTasks(g, FALSE)
        /\ UNCHANGED <<pending_ready, job>> /\ todo' = After(g)
    BY <1>3 DEF CascadeTasks
  <2>2. QED
    BY <1>1, <1>2, <2>1, CommandSpawns
<1>4. CASE CascadeServices(g) \/ CascadeNothing(g)
  <2>1. UNCHANGED <<pending_ready, status, run, job>>
    BY <1>4 DEF CascadeServices, CascadeNothing, groupVars, taskVars
  <2>2. Loop("cascade", Dependents(g)) \in Seq(Chores)
    <3>1. Dependents(g) \in SUBSET Groups
      BY DEF Dependents
    <3>2. QED
      BY <3>1, LoopsAreChores DEF LoopKinds
  <2>3. Loop("cascade", Dependents(g)) \o After(g) \in Seq(Chores)
    BY <1>2, <2>2, Concatenated
  <2>4. todo' \in Seq(Chores)
    <3>1. CASE CascadeServices(g)
      BY <2>3, <3>1 DEF CascadeServices
    <3>2. CASE CascadeNothing(g)
      BY <1>2, <3>2 DEF CascadeNothing
    <3>3. QED
      BY <1>4, <3>1, <3>2
  <2>5. QED
    BY <1>1, <2>1, <2>4, CommandRestacked
<1>5. QED
  BY <1>3, <1>4

-----------------------------------------------------------------------------
(***************************************************************************)
(* The steps of the completions.                                           *)
(***************************************************************************)
LEMMA AppendedIsAChore ==
  ASSUME NEW x \in DrainItems, x \in Chores, NEW a \in Actions, StartupTasks[a.group] # {}
  PROVE  [x EXCEPT !.actions = Append(@, a)] \in Chores
<1>1. PICK y \in DrainItems :
        y = [x EXCEPT !.actions = Append(@, a)] /\ y.actions = Append(x.actions, a)
  <2>1. [x EXCEPT !.actions = Append(@, a)].actions = Append(x.actions, a)
    BY DEF DrainItems
  <2>2. QED
    BY <2>1, AppendedActions
<1>2. y \in Items /\ y.do = "drain" /\ x.do = "drain"
  BY DEF DrainItems, Items
<1>3. x.actions \in Seq(Actions)
  BY DEF DrainItems
<1>4. ASSUME NEW k \in DOMAIN y.actions PROVE StartupTasks[y.actions[k].group] # {}
  <2>1. y.actions[k] = a \/ (k \in DOMAIN x.actions /\ y.actions[k] = x.actions[k])
    BY <1>1, <1>3, EachOfAppended
  <2>2. \A i \in DOMAIN x.actions : StartupTasks[x.actions[i].group] # {}
    BY <1>2 DEF Chores
  <2>3. QED
    BY <2>1, <2>2
<1>5. y \in Chores
  BY <1>2, <1>4 DEF Chores
<1>6. QED
  BY <1>1, <1>5

LEMMA DrainTaskCommand ==
  ASSUME EngineAssumption, IInv, Command, NEW t \in Tasks, DrainTask(t)
  PROVE  Command'
<1>1. PICK g \in Groups : g = GroupOfTask(t) /\ t \in TasksOf(g)
  BY GroupsOfTasks
<1> DEFINE last  == \A u \in TasksOf(g) \ {t} : ~InFlight(u)
           broke == FailedAfter(t) \cap TasksOf(g) # {}
<1>2. PICK a \in Actions :
        a = [group |-> g, start |-> ~services_started[g], cascade |-> g \notin suppress]
  <2>1. (~services_started[g]) \in BOOLEAN /\ (g \notin suppress) \in BOOLEAN
    OBVIOUS
  <2>2. [group |-> g, start |-> ~services_started[g], cascade |-> g \notin suppress] \in Actions
    BY <2>1 DEF Actions
  <2>3. QED
    BY <2>2
<1>3. /\ Doing("drain") /\ InFlight(t)
      /\ status' = IF last THEN [status EXCEPT ![g] = IF broke THEN "Failed" ELSE "Ready"]
                   ELSE status
      /\ todo' = CASE last /\ broke  -> <<[Now EXCEPT !.failed = @ \cup {g}]>> \o Tail(todo)
                   [] last /\ ~broke -> <<[Now EXCEPT !.actions = Append(@, a)]>> \o Tail(todo)
                   [] OTHER          -> todo
      /\ run' = [run EXCEPT ![t] = IF t \in pending /\ t \notin unexpandable
                                   THEN "executing" ELSE "idle"]
      /\ UNCHANGED <<pending_ready, job>>
  BY <1>1, <1>2 DEF DrainTask, InFlight
<1>4. last \in BOOLEAN
  OBVIOUS
<1>5. last \/ \E u \in TasksOf(g) \ {t} : InFlight(u)
  OBVIOUS
<1> HIDE DEF last, broke
<1>6. status \in StatusMap /\ run \in [Tasks -> {"idle", "executing", "succeeded", "failed"}]
  BY DEF IInv, TypeOK
<1>7. job \notin {"last", "done"}
  BY <1>3 DEF Command, Settled
<1>8. \A u \in Tasks : (InFlight(u)' => InFlight(u)) /\ (u # t /\ InFlight(u) => InFlight(u)')
  BY <1>3, <1>6 DEF InFlight
<1>9. OnlyStartupTasks'
  BY <1>8 DEF Command, OnlyStartupTasks, Tasks, TasksOf
<1>10. RunningIsWorking'
  <2>1. SUFFICES ASSUME NEW h \in Groups, status'[h] = "Running" PROVE Working(h)'
    BY DEF RunningIsWorking
  <2>2. CASE h = g
    <3>1. ~last
      BY <1>3, <1>6, <2>1, <2>2 DEF StatusMap
    <3>2. PICK u \in TasksOf(g) \ {t} : InFlight(u)
      BY <1>5, <3>1
    <3>3. InFlight(u)'
      BY <1>8, <3>2 DEF Tasks, TasksOf
    <3>4. QED
      BY <2>2, <3>2, <3>3 DEF Working
  <2>3. CASE h # g
    <3>1. status[h] = "Running"
      BY <1>3, <1>6, <2>1, <2>3 DEF StatusMap
    <3>2. PICK u \in TasksOf(h) : InFlight(u)
      BY <3>1 DEF Command, RunningIsWorking, Working
    <3>3. u # t /\ u \in Tasks
      BY <1>1, <2>3 DEF EngineAssumption, Tasks, TasksOf
    <3>4. QED
      BY <1>8, <3>2, <3>3 DEF Working
  <2>4. QED
    BY <2>2, <2>3
<1>11. todo' \in Seq(Chores)
  <2>1. Now \in Chores /\ Now \in DrainItems /\ Tail(todo) \in Seq(Chores) /\ Now.do = "drain"
    BY <1>3, ChoreFacts, KindsOfItems DEF Command, DrainItems
  <2>2. CASE last /\ ~broke
    <3>1. PICK x \in DrainItems : x = Now
      BY <2>1
    <3>2. StartupTasks[a.group] # {}
      BY <1>1, <1>2, <1>3 DEF Command, OnlyStartupTasks
    <3>3. [x EXCEPT !.actions = Append(@, a)] \in Chores
      BY <2>1, <3>1, <3>2, AppendedIsAChore
    <3>4. <<[x EXCEPT !.actions = Append(@, a)]>> \o Tail(todo) \in Seq(Chores)
      BY <2>1, <3>3, Single, Concatenated
    <3>5. QED
      BY <1>3, <2>2, <3>1, <3>4
  <2>3. CASE last /\ broke
    <3> DEFINE x == [Now EXCEPT !.failed = @ \cup {g}]
    <3>1. x \in DrainItems /\ x.actions = Now.actions
      BY <2>1 DEF DrainItems
    <3>2. todo' = <<x>> \o Tail(todo)
      BY <1>3, <2>3
    <3> HIDE DEF x
    <3>3. x \in Chores
      BY <2>1, <3>1 DEF Chores, DrainItems, Items
    <3>4. QED
      BY <2>1, <3>2, <3>3, Single, Concatenated
  <2>4. CASE ~last
    BY <1>3, <2>4 DEF Command
  <2>5. QED
    BY <2>2, <2>3, <2>4
<1>12. QED
  BY <1>3, <1>7, <1>9, <1>10, <1>11 DEF Command

LEMMA DrainEndsCommand ==
  ASSUME EngineAssumption, IInv, Command, DrainEnds
  PROVE  Command'
<1>1. Doing("drain") /\ UNCHANGED <<pending_ready, status, run, job>>
  BY DEF DrainEnds, groupVars, taskVars
<1>2. PICK failing, acts : failing = Now.failed /\ acts = Now.actions
  OBVIOUS
<1>3. todo' = Loop("fail", failing)
                \o [i \in DOMAIN acts |-> [do |-> "act", action |-> acts[i]]]
                \o Tail(todo)
  BY <1>2 DEF DrainEnds
<1>4. /\ failing \in SUBSET Groups /\ acts \in Seq(Actions) /\ Tail(todo) \in Seq(Chores)
      /\ \A k \in DOMAIN acts : StartupTasks[acts[k].group] # {}
  <2>1. Now \in Chores /\ Now \in DrainItems /\ Tail(todo) \in Seq(Chores) /\ Now.do = "drain"
    BY <1>1, ChoreFacts, KindsOfItems DEF Command, DrainItems
  <2>2. QED
    BY <1>2, <2>1 DEF DrainItems, Chores
<1>5. todo' \in Seq(Chores)
  <2>1. Loop("fail", failing) \in Seq(Chores)
    BY <1>4, LoopsAreChores DEF LoopKinds
  <2>2. [i \in DOMAIN acts |-> [do |-> "act", action |-> acts[i]]] \in Seq(Chores)
    BY <1>4, ActionsAreChores
  <2>3. PICK p, q \in Seq(Chores) :
          p = Loop("fail", failing)
            /\ q = [i \in DOMAIN acts |-> [do |-> "act", action |-> acts[i]]]
    BY <2>1, <2>2
  <2>4. p \o q \in Seq(Chores)
    BY Concatenated
  <2>5. (p \o q) \o Tail(todo) \in Seq(Chores)
    BY <1>4, <2>4, Concatenated
  <2>6. todo' = (p \o q) \o Tail(todo)
    BY ONLY <1>3, <2>3
  <2>7. QED
    BY <2>5, <2>6
<1>6. CASE job \notin {"last", "done"}
  <2>1. \A g \in Groups : pending_ready'[g] = None /\ status'[g] = status[g]
    BY <1>1 DEF Command
  <2>2. QED
    BY <1>1, <1>5, <1>6, <2>1, CommandGoesOn
<1>7. CASE job \in {"last", "done"}
  <2>1. Settled
    BY <1>7 DEF Command
  <2>2. Now.failed = {} /\ Now.actions = <<>> /\ Tail(todo) = <<>>
    <3>1. todo = Drain
      BY <1>1, <2>1 DEF Settled, Doing
    <3>2. PICK x : x = [do |-> "drain", failed |-> {}, actions |-> <<>>]
      OBVIOUS
    <3>3. todo = <<x>> /\ x.failed = {} /\ x.actions = <<>>
      BY <3>1, <3>2 DEF Drain
    <3>4. Head(<<x>>) = x /\ Tail(<<x>>) = <<>>
      OBVIOUS
    <3>5. Now = x /\ Tail(todo) = <<>>
      BY <3>3, <3>4 DEF Now
    <3>6. QED
      BY <3>3, <3>5
  <2>3. todo' = <<>>
    <3>1. Loop("fail", failing) = <<>>
      BY <1>2, <2>2 DEF Loop
    <3>2. [i \in DOMAIN acts |-> [do |-> "act", action |-> acts[i]]] = <<>>
      BY <1>2, <2>2
    <3>3. QED
      BY <1>3, <2>2, <3>1, <3>2
  <2>4. Settled'
    BY <1>1, <2>1, <2>3 DEF Settled, InFlight
  <2>5. OnlyStartupTasks' /\ RunningIsWorking'
    BY <1>1 DEF Command, OnlyStartupTasks, RunningIsWorking, Working, InFlight
  <2>6. QED
    BY <1>1, <1>5, <2>4, <2>5 DEF Command
<1>8. QED
  BY <1>6, <1>7

LEMMA ActCommand ==
  ASSUME EngineAssumption, IInv, Command, ActServices \/ ActNothing
  PROVE  Command'
<1>1. Doing("act") /\ UNCHANGED <<pending_ready, status, run, job>>
  BY DEF ActServices, ActNothing, groupVars, taskVars
<1>2. /\ Now \in Chores /\ Tail(todo) \in Seq(Chores) /\ Now.do = "act"
      /\ Now \in [do : {"act"}, action : Actions]
  BY <1>1, ChoreFacts, KindsOfItems DEF Command
<1>3. PICK a \in Actions : a = Now.action
  BY <1>2
<1>4. /\ StartupTasks[a.group] # {} /\ a.group \in Groups
      /\ a.start \in BOOLEAN /\ a.cascade \in BOOLEAN
  BY <1>2, <1>3 DEF Chores, Actions
<1>5. PICK g \in Groups : g = a.group
  BY <1>4
<1>6. Serve(g, a.start, "Later", a.cascade) \in Seq(Chores)
  BY <1>4, <1>5, ServesAreChores
<1>7. Propagate(g, Phase(g, services_started[g]), a.cascade) \in Seq(Chores)
  BY PropagationIsAChore
<1>8. CASE ActServices
  <2>1. todo' = Serve(g, a.start, "Later", a.cascade) \o Tail(todo)
    BY <1>3, <1>5, <1>8 DEF ActServices
  <2>2. todo' \in Seq(Chores)
    BY <1>2, <1>6, <2>1, Concatenated
  <2>3. QED
    BY <1>1, <2>2, CommandRestacked
<1>9. CASE ActNothing
  <2>1. todo' = Propagate(g, Phase(g, services_started[g]), a.cascade) \o Tail(todo)
    BY <1>3, <1>5, <1>9 DEF ActNothing
  <2>2. todo' \in Seq(Chores)
    BY <1>2, <1>7, <2>1, Concatenated
  <2>3. QED
    BY <1>1, <2>2, CommandRestacked
<1>10. QED
  BY <1>8, <1>9

LEMMA WorldCommand ==
  ASSUME IInv, Command, World \/ UNCHANGED vars
  PROVE  Command'
<1>1. UNCHANGED <<pending_ready, status, job, todo>>
  BY DEF World, TaskEnds, ServiceExits, groupVars, vars
<1>2. \A t \in Tasks : InFlight(t)' <=> InFlight(t)
  <2>1. run \in [Tasks -> {"idle", "executing", "succeeded", "failed"}]
    BY DEF IInv, TypeOK
  <2>2. CASE UNCHANGED run
    BY <2>2 DEF InFlight
  <2>3. ASSUME NEW t \in Tasks, NEW ok \in BOOLEAN, TaskEnds(t, ok)
        PROVE  \A u \in Tasks : InFlight(u)' <=> InFlight(u)
    <3>1. /\ run' = [run EXCEPT ![t] = IF ok THEN "succeeded" ELSE "failed"]
          /\ run[t] = "executing"
      BY <2>3 DEF TaskEnds
    <3>2. QED
      BY <2>1, <3>1 DEF InFlight
  <2>4. QED
    BY <2>2, <2>3 DEF World, ServiceExits, taskVars, vars
<1>3. \A g \in Groups : TasksOf(g) \subseteq Tasks
  BY DEF Tasks, TasksOf
<1>4. OnlyStartupTasks' /\ RunningIsWorking'
  BY <1>1, <1>2, <1>3 DEF Command, OnlyStartupTasks, RunningIsWorking, Working
<1>5. Settled => Settled'
  BY <1>1, <1>2 DEF Settled
<1>6. QED
  BY <1>1, <1>4, <1>5 DEF Command

(***************************************************************************)
(* The steps the command never takes.                                      *)
(***************************************************************************)
LEMMA NoneOfTheDaemons ==
  ASSUME TaskOnly, IInv, Ledger, Command
  PROVE  /\ ~Request /\ ~NoChange /\ ~RespawnFails /\ ~GroupLooked /\ ~SettleReady
         /\ ~SettleFailed
         /\ \A affected : ~Change(affected)
         /\ \A g \in Groups : ~DrainQueued(g) /\ ~CheckGroup(g)
         /\ \A s : /\ ~RespawnDue(s) /\ ~RespawnDropped(s) /\ ~Respawn(s) /\ ~RespawnLater(s)
                   /\ ~NoticeExit(s) /\ ~NothingToDo(s)
                   /\ \A passed : ~ReadinessAnswers(s, passed)
<1>1. ~Doing("check") /\ ~Doing("watch") /\ ~Doing("supervise") /\ ~Doing("settle")
  BY ChoreFacts DEF Command
<1>2. \A kind : ~TakeRequest(kind)
  BY DEF TakeRequest
<1>3. ~Request
  BY <1>2 DEF Request, StatusRequest, RestartAll, RestartGroup, RestartTask, RestartService,
     ReloadConfig
<1>4. \A g \in Groups : ~DrainQueued(g)
  <2>1. SUFFICES ASSUME NEW g \in Groups, DrainQueued(g) PROVE FALSE
    OBVIOUS
  <2>2. PICK kind \in {"start", "restart"} : queued[g][kind] > 0
    BY <2>1 DEF DrainQueued
  <2>3. queued[g] = [start |-> 0, restart |-> 0]
    BY DEF Ledger, QueuedHaveServices, HasQueued
  <2>4. queued[g][kind] = 0
    BY <2>3
  <2>5. QED
    BY <2>2, <2>4
<1>5. /\ ~NoChange /\ ~RespawnFails /\ ~GroupLooked /\ ~SettleReady /\ ~SettleFailed
      /\ \A affected : ~Change(affected)
      /\ \A g \in Groups : ~CheckGroup(g)
  BY <1>1 DEF NoChange, RespawnFails, GroupLooked, SettleReady, SettleFailed, Change, CheckGroup
<1>6. \A s : /\ ~RespawnDue(s) /\ ~RespawnDropped(s) /\ ~Respawn(s) /\ ~RespawnLater(s)
             /\ ~NoticeExit(s) /\ ~NothingToDo(s)
             /\ \A passed : ~ReadinessAnswers(s, passed)
  BY <1>1 DEF RespawnDue, RespawnDropped, Respawn, RespawnLater, NoticeExit, NothingToDo,
     ReadinessAnswers, Looking
<1>7. QED
  BY <1>3, <1>4, <1>5, <1>6

(***************************************************************************)
(* A service of a group that has a task as well does not spawn: the        *)
(* completion is propagated all the same.                                  *)
(***************************************************************************)
LEMMA ServeFailsAllTheSame ==
  ASSUME EngineAssumption, OneShot, IInv, Ledger, Wakes, Command, ServeFails
  PROVE  Ledger' /\ Wakes' /\ Command'
<1>1. /\ Doing("serve") /\ job # "new"
      /\ UNCHANGED <<waiting, resolver, status, services_started, suppress, taskVars, queued, job>>
  BY AtWork DEF ServeFails, resolver
<1>2. Now \in Chores /\ Now \in Items /\ Now.do = "serve" /\ Tail(todo) \in Seq(Chores)
  BY <1>1, ChoreFacts DEF Command
<1>3. PICK g \in Groups : g = Now.group /\ StartupTasks[g] # {} /\ Now.phase = "Later"
  BY <1>2, KindsOfItems DEF Chores
<1>4. ~AwaitsReadiness(g)
  BY <1>3 DEF OneShot, Apart, AwaitsReadiness, IInv, TypeOK
<1>5. PICK phase, cascade : phase = Phase(g, services_started[g]) /\ cascade = Now.cascade
  OBVIOUS
<1>6. todo' = Propagate(g, phase, cascade) \o Tail(todo) /\ UNCHANGED pending_ready
  BY <1>3, <1>4, <1>5 DEF ServeFails, DeferOrPropagate
<1>7. Command'
  <2>1. todo' \in Seq(Chores)
    BY <1>2, <1>6, PropagationIsAChore, Concatenated
  <2>2. UNCHANGED <<pending_ready, status, run, job>>
    BY <1>1, <1>6 DEF taskVars
  <2>3. QED
    BY <1>1, <2>1, <2>2, CommandRestacked
<1>8. Now \in Proper /\ Tail(todo) \in Seq(Proper)
  BY <1>1, ProperFacts DEF Ledger
<1>9. Ledger'
  <2>1. Propagate(g, phase, cascade) \in Seq(Proper)
    BY PropagationIsProper DEF OneShot
  <2>2. todo' \in Seq(Proper)
    BY <1>6, <1>8, <2>1, Concatenated
  <2>3. UNCHANGED <<resolver, groupVars, queued, job>>
    BY <1>1, <1>6 DEF groupVars
  <2>4. QED
    BY <1>1, <2>2, <2>3, StackRestacked
<1>10. Wakes'
  <2>1. SUFFICES ASSUME NEW d \in Groups PROVE Awake(d)'
    BY DEF Wakes
  <2>2. Propagate(g, phase, cascade) \in Seq(Items)
    BY PropagationIsItems
  <2>3. todo \in Seq(Items)
    BY DEF IInv, TypeOK
  <2>4. /\ Names(todo, d) <=> CallsFor(Now, d) \/ Names(Tail(todo), d)
        /\ Names(todo', d) <=> Names(Propagate(g, phase, cascade), d) \/ Names(Tail(todo), d)
    BY <1>1, <1>6, <2>2, <2>3, StackNames
  <2>5. CallsFor(Now, d) => d = g
    BY <1>2, <1>3 DEF CallsFor, Calling
  <2>6. CASE d = g
    <3>1. Awaited(g) => Names(todo', g)
      <4>1. NoReload => cascade
        BY <1>2, <1>5, <1>8 DEF Proper
      <4>2. NoReload /\ Awaited(g) => Names(Propagate(g, phase, cascade), g)
        BY <1>5, <4>1, CompletionIsNamed DEF Ledger
      <4>3. QED
        BY <2>4, <2>6, <4>2 DEF OneShot, NoReload
    <3>2. status[g] \notin {"Waiting", "Pending"}
      BY <1>2, <1>3, <1>8 DEF Proper, OneShot
    <3>3. Awaited(g)' <=> Awaited(g)
      BY <1>1 DEF Awaited
    <3>4. Listed(g)'
      BY <1>1, <3>2 DEF Listed
    <3>5. Quiet(g)' \/ Voiced(g)'
      BY <1>1, <3>1, <3>2, <3>3 DEF Quiet, Voiced, OneShot
    <3>6. QED
      BY <2>6, <3>4, <3>5 DEF Awake
  <2>7. CASE d # g
    <3>1. Unmoved(d)
      BY <1>1, <1>6 DEF Unmoved
    <3>2. Voiced(d) => Voiced(d)'
      BY <1>1, <2>4, <2>5, <2>7 DEF Voiced, HasQueued
    <3>3. Working(d) => Working(d)'
      BY <1>1, WorkGoesOn DEF taskVars
    <3>4. QED
      BY <3>1, <3>2, <3>3, AwakeStays DEF Wakes
  <2>8. QED
    BY <2>6, <2>7
<1>11. QED
  BY <1>7, <1>9, <1>10

LEMMA CommandStays ==
  ASSUME EngineAssumption, OneShot, ~ServeFails, IInv, Ledger, Wakes, Command, [Next]_vars
  PROVE  Command'
<1>0. TaskOnly /\ Apart /\ TasksExpand
  BY DEF OneShot
<1>1. CASE EngineStep
  <2>1. CASE Startup \/ Finish \/ Poll
    BY <1>0, <2>1, LoopCommand
  <2>2. CASE \E g \in Groups : ExecTasks(g) \/ ExecNothing(g) \/ ExecServices(g)
    BY <1>0, <2>2, ExecCommand
  <2>3. CASE \E s \in AllServices :
              \/ ServeSignal(s) \/ ServeBegin(s) \/ ServeStart(s) \/ ServeSkips(s)
    BY <2>3, ServeCommand
  <2>4. CASE ServeDone
    BY <1>0, <2>4, ServeDoneCommand
  <2>5. CASE ServeFails
    BY <2>5
  <2>6. CASE \E g \in Groups : Trigger(g)
    BY <2>6, TriggerCommand
  <2>7. CASE \E g \in Groups :
               StartWaitingTasks(g) \/ StartWaitingNothing(g) \/ QueueServiceAction(g)
    BY <1>0, <2>7, StartWaitingCommand
  <2>8. CASE Skip \/ \E g \in Groups : Fail(g)
    BY <2>8, SkipsCommand
  <2>9. CASE \E g \in Groups : CascadeTasks(g) \/ CascadeServices(g) \/ CascadeNothing(g)
    BY <1>0, <2>9, CascadeCommand
  <2>10. CASE \E t \in Tasks : DrainTask(t)
    BY <2>10, DrainTaskCommand
  <2>11. CASE DrainEnds
    BY <2>11, DrainEndsCommand
  <2>12. CASE ActServices \/ ActNothing
    BY <2>12, ActCommand
  <2>13. CASE \/ NoChange \/ RespawnFails \/ GroupLooked \/ SettleReady \/ SettleFailed
              \/ \E affected \in SUBSET Groups : Change(affected)
              \/ \E g \in Groups : DrainQueued(g) \/ CheckGroup(g)
              \/ \E s \in AllServices :
                   \/ RespawnDue(s) \/ RespawnLater(s) \/ NothingToDo(s)
                   \/ Respawn(s) \/ RespawnDropped(s) \/ NoticeExit(s)
                   \/ \E passed \in BOOLEAN : ReadinessAnswers(s, passed)
    BY <1>0, <2>13, NoneOfTheDaemons
  <2>14. QED
    BY <1>1, <2>1, <2>2, <2>3, <2>4, <2>5, <2>6, <2>7, <2>8, <2>9, <2>10, <2>11, <2>12, <2>13
    DEF EngineStep
<1>2. CASE Request
  BY <1>0, <1>2, NoneOfTheDaemons
<1>3. CASE World \/ UNCHANGED vars
  BY <1>3, WorldCommand
<1>4. QED
  BY <1>1, <1>2, <1>3 DEF Next, Done

LEMMA CommandAtFirst == Init => Command
<1>1. SUFFICES ASSUME Init PROVE Command
  OBVIOUS
<1>2. \A g \in Groups : TasksOf(g) \subseteq Tasks
  BY DEF Tasks, TasksOf
<1>3. OnlyStartupTasks
  BY <1>1, <1>2 DEF Init, OnlyStartupTasks, InFlight
<1>4. RunningIsWorking
  BY <1>1 DEF Init, RunningIsWorking
<1>5. QED
  BY <1>1, <1>3, <1>4 DEF Init, Command

-----------------------------------------------------------------------------
LEMMA OneShotStays ==
  ASSUME EngineAssumption, OneShot, IInv, Ledger, Wakes, Command, [Next]_vars
  PROVE  Ledger' /\ Wakes' /\ Command'
<1>1. CASE ServeFails
  BY <1>1, ServeFailsAllTheSame
<1>2. CASE ~ServeFails
  <2>1. NoDrops /\ TasksExpand /\ ~RespawnFails
    BY NoneOfTheDaemons DEF NoDrops, OneShot
  <2>2. QED
    BY <1>2, <2>1, LedgerStays, WakesStay, CommandStays
<1>3. QED
  BY <1>1, <1>2

(***************************************************************************)
(* What the task command keeps, whatever fails in it: its books, that      *)
(* everybody is awake, and that it does only its chores.                   *)
(***************************************************************************)
THEOREM CommandInvariant == OneShot => (Spec => [](Ledger /\ Wakes /\ Command))
<1> SUFFICES ASSUME OneShot PROVE Spec => [](Ledger /\ Wakes /\ Command)
  OBVIOUS
<1>1. Init => Ledger /\ Wakes /\ Command
  BY LedgerAtFirst, AwakeAtFirst, CommandAtFirst
<1>2. IInv /\ (Ledger /\ Wakes /\ Command) /\ [Next]_vars => (Ledger /\ Wakes /\ Command)'
  BY OneShotStays, EngineAssumption
<1>3. QED
  BY <1>1, <1>2, EngineInvariant, PTL DEF Spec

(***************************************************************************)
(* An engine without failing spawns and dropped polls, or the one-shot     *)
(* command, which a failing spawn does not disturb; in either, the         *)
(* commands of all tasks expand.  A group none of whose tasks expands      *)
(* stays Running with nothing in flight.                                   *)
(***************************************************************************)
Undisturbed == OneShot \/ (~SpawnMayFail /\ NoDrops /\ TasksExpand)

(***************************************************************************)
(* The inductive invariant of an undisturbed engine: the books it keeps of *)
(* completions, and that every group the stack does not call for has its   *)
(* tasks in flight, waits for somebody, or has nothing left to say.        *)
(***************************************************************************)
THEOREM WakeupInvariant == Undisturbed => (Spec => [](Ledger /\ Wakes))
<1> SUFFICES ASSUME Undisturbed PROVE Spec => [](Ledger /\ Wakes)
  OBVIOUS
<1>1. CASE OneShot
  <2>1. Spec => [](Ledger /\ Wakes /\ Command)
    BY <1>1, CommandInvariant
  <2>2. QED
    BY <2>1, PTL
<1>2. CASE ~SpawnMayFail /\ NoDrops /\ TasksExpand
  <2>1. Init => Ledger /\ Wakes
    BY LedgerAtFirst, AwakeAtFirst
  <2>2. ~ServeFails /\ ~RespawnFails
    BY <1>2 DEF ServeFails, RespawnFails
  <2>3. IInv /\ (Ledger /\ Wakes) /\ [Next]_vars => (Ledger /\ Wakes)'
    BY <1>2, <2>2, LedgerStays, WakesStay, EngineAssumption
  <2>4. QED
    BY <2>1, <2>3, EngineInvariant, PTL DEF Spec
<1>3. QED
  BY <1>1, <1>2 DEF Undisturbed

(***************************************************************************)
(* Between two turns of the loop the stack calls for nobody.               *)
(***************************************************************************)
LEMMA SaidAtRest ==
  ASSUME Ledger, Wakes, job = "idle", NEW d \in Groups
  PROVE  /\ ~HasQueued(d) => Listed(d)
         /\ ~Busy(d) => Quiet(d) /\ ~Held(d)
<1>1. Voiced(d) => HasQueued(d)
  BY NobodyNamed DEF Voiced, Ledger, IdleIsIdle
<1>2. Working(d) => Busy(d)
  BY DEF Working, Busy
<1>3. Held(d) => Busy(d)
  BY DEF Held, Busy, None
<1>4. QED
  BY <1>1, <1>2, <1>3 DEF Wakes, Awake, Busy

(***************************************************************************)
(* No wakeup is lost: between two turns of the loop every group that waits *)
(* was released and its service action is in the channel, or waits for     *)
(* groups of which each has something to say or waits in its turn, however *)
(* file changes, restarts, exits and late readiness checks interleave with *)
(* the start (trigger_dependents, cascade_skip, settle_group_readiness).   *)
(***************************************************************************)
THEOREM NoWakeupIsLost == Undisturbed /\ NoReload => (Spec => []NobodyWaitsInVain)
<1> SUFFICES ASSUME Undisturbed, NoReload PROVE Spec => []NobodyWaitsInVain
  OBVIOUS
<1>1. Ledger /\ Wakes => NobodyWaitsInVain
  <2>1. SUFFICES ASSUME Ledger, Wakes, job = "idle", NEW g \in Groups
                 PROVE  /\ status[g] = "Waiting" => waiting[g] # {} \/ HasQueued(g)
                        /\ \A d \in waiting[g] : waiting[d] # {} \/ Busy(d)
    BY DEF NobodyWaitsInVain
  <2>2. status[g] = "Waiting" => waiting[g] # {} \/ HasQueued(g)
    BY <2>1, SaidAtRest DEF Listed
  <2>3. ASSUME NEW d \in waiting[g] PROVE waiting[d] # {} \/ Busy(d)
    <3>1. d \in Groups /\ Awaited(d)
      BY <2>1, DependsOnAssumption DEF Ledger, EntriesAreDependencies, Awaited
    <3>2. QED
      BY <2>1, <3>1, SaidAtRest DEF Quiet
  <2>4. QED
    BY <2>2, <2>3
<1>2. QED
  BY <1>1, WakeupInvariant, PTL

(***************************************************************************)
(* So the engine never stops with groups that wait: between two turns of   *)
(* the loop, if anybody waits then some group that does not wait has a     *)
(* task in flight, a service action in the channel or a deferred           *)
(* transition.                                                             *)
(***************************************************************************)
THEOREM SomebodyReports ==
  Undisturbed /\ NoReload =>
    (Spec => [](job = "idle" /\ (\E g \in Groups : waiting[g] # {}) =>
                  \E d \in Groups : waiting[d] = {} /\ Busy(d)))
<1> SUFFICES ASSUME Undisturbed, NoReload
             PROVE  Spec => [](job = "idle" /\ (\E g \in Groups : waiting[g] # {}) =>
                                 \E d \in Groups : waiting[d] = {} /\ Busy(d))
  OBVIOUS
<1>1. Ledger /\ NobodyWaitsInVain =>
        (job = "idle" /\ (\E g \in Groups : waiting[g] # {}) =>
           \E d \in Groups : waiting[d] = {} /\ Busy(d))
  <2> SUFFICES ASSUME Ledger, NobodyWaitsInVain, job = "idle", \E g \in Groups : waiting[g] # {}
               PROVE  \E d \in Groups : waiting[d] = {} /\ Busy(d)
    OBVIOUS
  <2> DEFINE S == {g \in Groups : waiting[g] # {}}
  <2>1. PICK g \in S : DependsOn[g] \cap S = {}
    BY DependsOnAssumption
  <2>2. PICK d \in waiting[g] : d \in DependsOn[g]
    BY <2>1 DEF Ledger, EntriesAreDependencies
  <2>3. d \in Groups /\ waiting[d] = {}
    BY <2>1, <2>2, DependsOnAssumption
  <2>4. Busy(d)
    BY <2>1, <2>2, <2>3 DEF NobodyWaitsInVain
  <2>5. QED
    BY <2>3, <2>4
<1>2. QED
  BY <1>1, WakeupInvariant, NoWakeupIsLost, PTL

(***************************************************************************)
(* A group that is called Ready between two turns of the loop, and of      *)
(* which nothing is under way, has had its services started: the           *)
(* completion of its tasks led to handle_service_action, through changes,  *)
(* restarts, reloads and reruns of its tasks.                              *)
(***************************************************************************)
THEOREM ServicesAreStarted == Undisturbed /\ ~TaskOnly => (Spec => []ServicesFollowTasks)
<1> SUFFICES ASSUME Undisturbed, ~TaskOnly PROVE Spec => []ServicesFollowTasks
  OBVIOUS
<1>1. Ledger /\ Wakes => ServicesFollowTasks
  BY SaidAtRest DEF ServicesFollowTasks, Quiet
<1>2. QED
  BY <1>1, WakeupInvariant, PTL

(***************************************************************************)
(* When the task command ends (wait_for_tasks returns) every group is      *)
(* Ready, Failed or Skipped: no group is left Pending, Waiting or Running, *)
(* whatever tasks fail and whatever services of theirs do not spawn.       *)
(***************************************************************************)
THEOREM CommandLeavesNothing == OneShot => (Spec => []NothingLeftUndone)
<1> SUFFICES ASSUME OneShot PROVE Spec => []NothingLeftUndone
  OBVIOUS
<1>1. Command => NothingLeftUndone
  BY DEF Command, Settled, NothingLeftUndone
<1>2. QED
  BY <1>1, CommandInvariant, PTL

-----------------------------------------------------------------------------
(***************************************************************************)
(* The first start of all groups, undisturbed: nobody makes requests,      *)
(* changes files or refuses to start a process.  Tasks and checks may fail *)
(* and services may exit.                                                  *)
(***************************************************************************)
FirstStart == RequestKinds = {} /\ MaxChanges = 0 /\ ~SpawnMayFail

(***************************************************************************)
(* Where an item of a set is on the stack, and that it is there once.      *)
(***************************************************************************)
Has(q, T) == \E i \in DOMAIN q : q[i] \in T

Once(q, T) == \A i, j \in DOMAIN q : q[i] \in T /\ q[j] \in T => i = j

LEMMA EmptyHas == \A T : ~Has(<<>>, T) /\ Once(<<>>, T)
BY DEF Has, Once

LEMMA SingleHas ==
  ASSUME NEW x, NEW T
  PROVE  (Has(<<x>>, T) <=> x \in T) /\ Once(<<x>>, T)
BY DEF Has, Once

LEMMA ConcatFacts ==
  ASSUME NEW S, NEW q \in Seq(S), NEW r \in Seq(S)
  PROVE  /\ q \o r \in Seq(S)
         /\ Len(q) \in Nat /\ Len(r) \in Nat /\ Len(q \o r) = Len(q) + Len(r)
         /\ DOMAIN q = 1..Len(q) /\ DOMAIN r = 1..Len(r) /\ DOMAIN (q \o r) = 1..Len(q \o r)
         /\ \A i \in DOMAIN q : i \in DOMAIN (q \o r) /\ (q \o r)[i] = q[i]
         /\ \A i \in DOMAIN r :
              Len(q) + i \in DOMAIN (q \o r) /\ (q \o r)[Len(q) + i] = r[i]
         /\ \A i \in DOMAIN (q \o r) :
              \/ i \in DOMAIN q
              \/ i - Len(q) \in DOMAIN r /\ (q \o r)[i] = r[i - Len(q)] /\ i > Len(q)
<1>1. /\ q \o r \in Seq(S) /\ Len(q \o r) = Len(q) + Len(r)
      /\ Len(q) \in Nat /\ Len(r) \in Nat
      /\ DOMAIN q = 1..Len(q) /\ DOMAIN r = 1..Len(r) /\ DOMAIN (q \o r) = 1..Len(q \o r)
  BY ConcatProperties
<1>2. /\ \A i \in 1..Len(q) : (q \o r)[i] = q[i]
      /\ \A i \in 1..Len(r) : (q \o r)[Len(q) + i] = r[i]
  BY <1>1, ConcatProperties
<1>3. ASSUME NEW i \in DOMAIN (q \o r), i \notin DOMAIN q
      PROVE  i - Len(q) \in DOMAIN r /\ (q \o r)[i] = r[i - Len(q)] /\ i > Len(q)
  <2>1. i - Len(q) \in 1..Len(r) /\ Len(q) + (i - Len(q)) = i /\ i > Len(q)
    BY <1>1, <1>3
  <2>2. QED
    BY <1>1, <1>2, <2>1
<1>4. \A i \in DOMAIN r : Len(q) + i \in DOMAIN (q \o r)
  BY <1>1
<1>5. \A i \in DOMAIN q : i \in DOMAIN (q \o r)
  BY <1>1
<1>6. QED
  BY <1>1, <1>2, <1>3, <1>4, <1>5

LEMMA ConcatHas ==
  ASSUME NEW S, NEW q \in Seq(S), NEW r \in Seq(S), NEW T
  PROVE  Has(q \o r, T) <=> Has(q, T) \/ Has(r, T)
<1>1. ASSUME Has(q \o r, T) PROVE Has(q, T) \/ Has(r, T)
  <2>1. PICK i \in DOMAIN (q \o r) : (q \o r)[i] \in T
    BY <1>1 DEF Has
  <2>2. CASE i \in DOMAIN q
    BY <2>1, <2>2, ConcatFacts DEF Has
  <2>3. CASE i - Len(q) \in DOMAIN r /\ (q \o r)[i] = r[i - Len(q)]
    BY <2>1, <2>3 DEF Has
  <2>4. QED
    BY <2>1, <2>2, <2>3, ConcatFacts
<1>2. ASSUME Has(q, T) PROVE Has(q \o r, T)
  <2>1. PICK i \in DOMAIN q : q[i] \in T
    BY <1>2 DEF Has
  <2>2. i \in DOMAIN (q \o r) /\ (q \o r)[i] = q[i]
    BY ConcatFacts
  <2>3. QED
    BY <2>1, <2>2 DEF Has
<1>3. ASSUME Has(r, T) PROVE Has(q \o r, T)
  <2>1. PICK i \in DOMAIN r : r[i] \in T
    BY <1>3 DEF Has
  <2>2. Len(q) + i \in DOMAIN (q \o r) /\ (q \o r)[Len(q) + i] = r[i]
    BY ConcatFacts
  <2>3. QED
    BY <2>1, <2>2 DEF Has
<1>4. QED
  BY <1>1, <1>2, <1>3

LEMMA ConcatOnce ==
  ASSUME NEW S, NEW q \in Seq(S), NEW r \in Seq(S), NEW T
  PROVE  Once(q \o r, T) <=> Once(q, T) /\ Once(r, T) /\ ~(Has(q, T) /\ Has(r, T))
<1> DEFINE n == Len(q)
           s == q \o r
<1>1. /\ n \in Nat /\ DOMAIN q = 1..n /\ DOMAIN r \in SUBSET Nat
      /\ \A i \in DOMAIN q : i \in DOMAIN s /\ s[i] = q[i]
      /\ \A i \in DOMAIN r : n + i \in DOMAIN s /\ s[n + i] = r[i]
      /\ \A i \in DOMAIN s :
           i \in DOMAIN q \/ (i - n \in DOMAIN r /\ s[i] = r[i - n] /\ i > n)
      /\ DOMAIN s \in SUBSET Nat /\ \A i \in DOMAIN r : i > 0
  BY ConcatFacts
<1> HIDE DEF n, s
<1>2. ASSUME Once(s, T) PROVE Once(q, T) /\ Once(r, T) /\ ~(Has(q, T) /\ Has(r, T))
  <2>1. Once(q, T)
    BY <1>1, <1>2 DEF Once
  <2>2. Once(r, T)
    <3>1. SUFFICES ASSUME NEW i \in DOMAIN r, NEW j \in DOMAIN r, r[i] \in T, r[j] \in T
                   PROVE  i = j
      BY DEF Once
    <3>2. n + i = n + j
      BY <1>1, <1>2, <3>1 DEF Once
    <3>3. i \in Nat /\ j \in Nat
      BY <1>1
    <3>4. QED
      BY <1>1, <3>2, <3>3
  <2>3. ASSUME NEW i \in DOMAIN q, NEW j \in DOMAIN r, q[i] \in T, r[j] \in T PROVE FALSE
    <3>1. i = n + j
      BY <1>1, <1>2, <2>3 DEF Once
    <3>2. i \in 1..n /\ j \in Nat /\ j > 0
      BY <1>1
    <3>3. QED
      BY <1>1, <3>1, <3>2
  <2>4. QED
    BY <2>1, <2>2, <2>3 DEF Has
<1>3. ASSUME Once(q, T), Once(r, T), ~(Has(q, T) /\ Has(r, T)) PROVE Once(s, T)
  <2>1. SUFFICES ASSUME NEW i \in DOMAIN s, NEW j \in DOMAIN s, s[i] \in T, s[j] \in T
                 PROVE  i = j
    BY DEF Once
  <2>2. CASE i \in DOMAIN q /\ j \in DOMAIN q
    BY <1>1, <1>3, <2>1, <2>2 DEF Once
  <2>3. CASE i \notin DOMAIN q /\ j \notin DOMAIN q
    <3>1. i - n = j - n
      BY <1>1, <1>3, <2>1, <2>3 DEF Once
    <3>2. i \in Nat /\ j \in Nat
      BY <1>1
    <3>3. QED
      BY <1>1, <3>1, <3>2
  <2>4. CASE (i \in DOMAIN q /\ j \notin DOMAIN q) \/ (i \notin DOMAIN q /\ j \in DOMAIN q)
    <3>1. Has(q, T) /\ Has(r, T)
      BY <1>1, <2>1, <2>4 DEF Has
    <3>2. QED
      BY <1>3, <3>1
  <2>5. QED
    BY <2>2, <2>3, <2>4
<1>4. QED
  BY <1>2, <1>3 DEF s

(***************************************************************************)
(* Who has a group in his hands: the items that are going to start it, or  *)
(* to settle it once its tasks are done.                                   *)
(***************************************************************************)
Takers(g) ==
  {x \in Items :
     \/ x.do \in {"exec", "start"} /\ g \in x.groups
     \/ x.do = "serve" /\ x.group = g
     \/ x.do = "act" /\ x.action.group = g
     \/ x.do = "drain" /\ \E k \in DOMAIN x.actions : x.actions[k].group = g}

Taken(g) == Has(todo, Takers(g))

Lone(q) == \A g \in Groups : Once(q, Takers(g))

\* what is put on the stack, or left of it, takes none but those in G, each once
Takes(q, G) == q \in Seq(Items) /\ Lone(q) /\ \A g \in Groups : Has(q, Takers(g)) => g \in G

LEMMA TakesMore ==
  ASSUME NEW q, NEW G, NEW H, Takes(q, G), G \subseteq H
  PROVE  Takes(q, H)
BY DEF Takes

LEMMA TakesOne ==
  ASSUME NEW x \in Items, NEW G, \A g \in Groups : x \in Takers(g) => g \in G
  PROVE  Takes(<<x>>, G)
<1>1. <<x>> \in Seq(Items)
  BY Single
<1>2. QED
  BY <1>1, SingleHas DEF Takes, Lone

LEMMA TakesNone == Takes(<<>>, {})
<1>1. <<>> \in Seq(Items)
  OBVIOUS
<1>2. QED
  BY <1>1, EmptyHas DEF Takes, Lone

LEMMA TakesBoth ==
  ASSUME NEW q, NEW r, NEW G, NEW H, Takes(q, G), Takes(r, H), G \cap H = {}
  PROVE  Takes(q \o r, G \cup H)
<1>1. q \in Seq(Items) /\ r \in Seq(Items)
  BY DEF Takes
<1>2. q \o r \in Seq(Items)
  BY <1>1, Concatenated
<1>3. \A g \in Groups : Has(q \o r, Takers(g)) <=> Has(q, Takers(g)) \/ Has(r, Takers(g))
  BY <1>1, ConcatHas
<1>4. \A g \in Groups : Once(q \o r, Takers(g)) <=>
        Once(q, Takers(g)) /\ Once(r, Takers(g)) /\ ~(Has(q, Takers(g)) /\ Has(r, Takers(g)))
  BY <1>1, ConcatOnce
<1>5. QED
  BY <1>2, <1>3, <1>4 DEF Takes, Lone

LEMMA LoopTakes ==
  ASSUME NEW kind \in LoopKinds, NEW S \in SUBSET Groups
  PROVE  Takes(Loop(kind, S), IF kind = "start" THEN S ELSE {})
<1>1. CASE S = {}
  BY <1>1, TakesNone, TakesMore DEF Loop
<1>2. CASE S # {}
  <2> DEFINE x == [do |-> kind, groups |-> S]
  <2>1. x \in Items /\ x.do = kind /\ x.groups = S /\ Loop(kind, S) = <<x>>
    BY <1>2 DEF Items, LoopKinds, Loop
  <2> HIDE DEF x
  <2>2. \A g \in Groups : x \in Takers(g) => g \in (IF kind = "start" THEN S ELSE {})
    BY <2>1 DEF Takers, LoopKinds
  <2>3. QED
    BY <2>1, <2>2, TakesOne
<1>3. QED
  BY <1>1, <1>2

LEMMA ExecTakes ==
  ASSUME NEW S \in SUBSET Groups, NEW onChange \in BOOLEAN, NEW cascade \in BOOLEAN
  PROVE  Takes(Exec(S, onChange, cascade), S)
<1>1. CASE S = {}
  BY <1>1, TakesNone DEF Exec
<1>2. CASE S # {}
  <2> DEFINE x == [do |-> "exec", groups |-> S, onChange |-> onChange, cascade |-> cascade]
  <2>1. x \in Items /\ x.do = "exec" /\ x.groups = S /\ Exec(S, onChange, cascade) = <<x>>
    BY <1>2 DEF Items, Exec
  <2> HIDE DEF x
  <2>2. \A g \in Groups : x \in Takers(g) => g \in S
    BY <2>1 DEF Takers
  <2>3. QED
    BY <2>1, <2>2, TakesOne
<1>3. QED
  BY <1>1, <1>2

LEMMA ServeTakes ==
  ASSUME EngineAssumption, NEW g \in Groups, NEW start \in BOOLEAN,
         NEW phase \in Phases \cup {"Later"}, NEW cascade \in BOOLEAN
  PROVE  Takes(Serve(g, start, phase, cascade), {g})
<1> DEFINE x == [do |-> "serve", group |-> g, start |-> start, left |-> Services[g],
                 at |-> {}, phase |-> phase, cascade |-> cascade]
<1>1. x.do = "serve" /\ x.group = g /\ Serve(g, start, phase, cascade) = <<x>>
  BY DEF Serve
<1>2. x \in Items
  BY DEF Items, AllServices
<1> HIDE DEF x
<1>3. \A h \in Groups : x \in Takers(h) => h \in {g}
  BY <1>1 DEF Takers
<1>4. QED
  BY <1>1, <1>2, <1>3, TakesOne

LEMMA PropagationTakes ==
  ASSUME NEW g \in Groups, NEW phase, NEW cascade
  PROVE  Takes(Propagate(g, phase, cascade), {})
<1>1. Dependents(g) \in SUBSET Groups
  BY DEF Dependents
<1>2. Takes(Loop("trigger", {g}), {}) /\ Takes(Loop("cascade", Dependents(g)), {})
  <2>1. \A S \in SUBSET Groups, kind \in {"trigger", "cascade"} : Takes(Loop(kind, S), {})
    <3>1. SUFFICES ASSUME NEW S \in SUBSET Groups, NEW kind \in {"trigger", "cascade"}
                   PROVE  Takes(Loop(kind, S), {})
      OBVIOUS
    <3>2. Takes(Loop(kind, S), IF kind = "start" THEN S ELSE {})
      BY LoopTakes DEF LoopKinds
    <3>3. QED
      BY <3>2
  <2>2. QED
    BY <1>1, <2>1
<1>3. QED
  BY <1>2, TakesNone DEF Propagate

LEMMA ActsTake ==
  ASSUME NEW acts \in Seq(Actions),
         \A k, l \in DOMAIN acts : acts[k].group = acts[l].group => k = l
  PROVE  Takes([i \in DOMAIN acts |-> [do |-> "act", action |-> acts[i]]],
               {acts[k].group : k \in DOMAIN acts})
<1> DEFINE f == [i \in DOMAIN acts |-> [do |-> "act", action |-> acts[i]]]
<1>1. f \in Seq(Items)
  <2>1. f \in Seq(Plain)
    BY ActionsArePlain
  <2>2. Plain \subseteq Items
    BY DEF Plain
  <2>3. QED
    BY <2>1, <2>2, SeqWidens
<1>2. DOMAIN f = DOMAIN acts
  OBVIOUS
<1>3. ASSUME NEW i \in DOMAIN acts, NEW g \in Groups, f[i] \in Takers(g)
      PROVE  acts[i].group = g
  <2> DEFINE x == [do |-> "act", action |-> acts[i]]
  <2>1. x.do = "act" /\ x.action = acts[i] /\ f[i] = x
    OBVIOUS
  <2> HIDE DEF x, f
  <2>2. QED
    BY <1>3, <2>1 DEF Takers
<1> HIDE DEF f
<1>4. Takes(f, {acts[k].group : k \in DOMAIN acts})
  BY <1>1, <1>2, <1>3 DEF Takes, Lone, Once, Has
<1>5. QED
  BY <1>4 DEF f

(***************************************************************************)
(* A group is over when it is Ready for good; cleared when all it depends  *)
(* on is; behind a failure when some of that is Failed or Skipped; and     *)
(* passed when nobody who depends on it is ever going to start.            *)
(***************************************************************************)
Over(g) == status[g] = "Ready" /\ ~Taken(g)

Broken(g) == status[g] \in {"Failed", "Skipped"}

Cleared(g) == \A d \in DependsOn[g] : Over(d)

Behind(g) == \E d \in DependsOn[g] : Broken(d)

Passed(g) == \A h \in Dependents(g) : status[h] = "Skipped"

Due(g) == status[g] = "Ready" \/ (status[g] = "Waiting" /\ Services[g] # {})

(***************************************************************************)
(* What may be on the stack during a first start.                          *)
(***************************************************************************)
Orderly ==
  {x \in Items :
     /\ x.do = "exec" => \A g \in x.groups : status[g] = "Pending"
     /\ x.do = "start" => \A g \in x.groups : status[g] = "Waiting"
     /\ x.do = "skip" =>
          \A g \in x.groups :
            status[g] \in {"Waiting", "Skipped"} /\ waiting[g] = {} /\ Behind(g)
     /\ x.do = "fail" => \A g \in x.groups : status[g] = "Failed"
     /\ x.do = "trigger" => \A g \in x.groups : Over(g)
     /\ x.do = "cascade" => \A g \in x.groups : status[g] = "Skipped"
     /\ x.do = "serve" => status[x.group] \in {"Pending", "Waiting", "Ready"}
     /\ x.do = "act" => Due(x.action.group)
     /\ x.do = "drain" =>
          /\ \A g \in x.failed : status[g] = "Failed"
          /\ \A k \in DOMAIN x.actions : Due(x.actions[k].group)
          /\ \A k, l \in DOMAIN x.actions : x.actions[k].group = x.actions[l].group => k = l}

(***************************************************************************)
(* A group is in one hand at a time: an item of the stack, the channel,    *)
(* its tasks or its readiness checks.  It waits for every dependency that  *)
(* is not over, but for those whose failure the resolver knows of; and it  *)
(* is in somebody's hand only when all of them are.                        *)
(***************************************************************************)
InOneHand(g) ==
  /\ HasQueued(g) => status[g] = "Waiting" /\ ~Taken(g)
  /\ queued[g].start + queued[g].restart <= 1
  /\ Working(g) => status[g] = "Running" /\ pending_ready[g] = None
  /\ pending_ready[g] # None => status[g] = "Running"
  /\ pending_ready[g].phase = "Runtime" => Passed(g)

Known(g) == Broken(g) /\ IsFailedOrSkipped(statuses, g)

Life(g) ==
  /\ InOneHand(g)
  /\ waiting[g] # {} => status[g] = "Waiting" /\ ~Taken(g) /\ ~HasQueued(g)
  /\ IsFailedOrSkipped(statuses, g) => Broken(g)
  /\ status[g] = "Skipped" => Behind(g)
  /\ status[g] # "Skipped" =>
       \A d \in DependsOn[g] : d \in waiting[g] \/ Over(d) \/ Known(d)
  /\ Taken(g) \/ HasQueued(g) \/ status[g] \in {"Running", "Ready", "Failed"} => Cleared(g)

InOrder == todo \in Seq(Orderly) /\ Lone(todo) /\ \A g \in Groups : Life(g)

\* before the start
Fresh ==
  /\ waiting = [g \in Groups |-> {}]
  /\ statuses = [g \in Groups |-> "Pending"] /\ status = [g \in Groups |-> "Pending"]
  /\ todo = <<>>
  /\ \A g \in Groups :
       /\ ~Working(g) /\ pending_ready[g] = None
       /\ queued[g] = [start |-> 0, restart |-> 0]

Undisputed == pending = {} /\ budget.changes = 0

Course == Undisputed /\ (IF job = "new" THEN Fresh ELSE InOrder)

(***************************************************************************)
(* What a step may do to the status of a group.                            *)
(***************************************************************************)
May(a, b) ==
  \/ a = b
  \/ a = "Pending" /\ b \in {"Running", "Ready"}
  \/ a = "Waiting" /\ b \in {"Running", "Ready", "Skipped"}
  \/ a = "Running" /\ b \in {"Ready", "Failed"}
  \/ a = "Ready" /\ b = "Running"

Advances ==
  \A d \in Groups :
    /\ May(status[d], status'[d])
    /\ Over(d) => Over(d)'
    /\ Broken(d) => status'[d] = status[d]
    /\ Known(d) => Known(d)'
    /\ status[d] = "Waiting" /\ Behind(d) => status'[d] \in {"Waiting", "Skipped"}
    /\ waiting'[d] \subseteq waiting[d]

LEMMA DependenciesAreGroups ==
  ASSUME NEW g \in Groups
  PROVE  DependsOn[g] \subseteq Groups /\ Dependents(g) \subseteq Groups
BY DependsOnAssumption DEF Dependents

LEMMA BehindStays ==
  ASSUME Advances, NEW g \in Groups
  PROVE  /\ Behind(g) => Behind(g)'
         /\ Cleared(g) => Cleared(g)'
         /\ Passed(g) => Passed(g)'
         /\ Broken(g) => Broken(g)'
<1>1. DependsOn[g] \subseteq Groups /\ Dependents(g) \subseteq Groups
  BY DependenciesAreGroups
<1>2. \A d \in Groups : (Broken(d) => Broken(d)') /\ (Over(d) => Over(d)')
                        /\ (status[d] = "Skipped" => status'[d] = "Skipped")
  BY DEF Advances, Broken
<1>3. Behind(g) => Behind(g)'
  BY <1>1, <1>2 DEF Behind
<1>4. Cleared(g) => Cleared(g)'
  BY <1>1, <1>2 DEF Cleared
<1>5. Passed(g) => Passed(g)'
  BY <1>1, <1>2 DEF Passed
<1>6. QED
  BY <1>2, <1>3, <1>4, <1>5

(***************************************************************************)
(* An item stays orderly unless the status of a group it has in its hands  *)
(* changes.                                                                *)
(***************************************************************************)
LEMMA OrderlyStays ==
  ASSUME Advances, NEW x \in Orderly,
         \A d \in Groups : x \in Takers(d) => status'[d] = status[d]
  PROVE  x \in Orderly'
<1>1. x \in Items
  BY DEF Orderly
<1>2. CASE x.do \in LoopKinds
  <2>1. x.groups \subseteq Groups
    BY <1>1, <1>2, KindsOfItems
  <2>2. CASE x.do = "start"
    <3>1. \A d \in x.groups : status'[d] = status[d]
      BY <1>1, <2>1, <2>2 DEF Takers
    <3>2. QED
      BY <1>1, <2>2, <3>1 DEF Orderly
  <2>3. CASE x.do = "skip"
    <3>1. ASSUME NEW d \in x.groups
          PROVE  status'[d] \in {"Waiting", "Skipped"} /\ waiting'[d] = {} /\ Behind(d)'
      <4>1. d \in Groups /\ status[d] \in {"Waiting", "Skipped"} /\ waiting[d] = {} /\ Behind(d)
        BY <2>1, <2>3, <3>1 DEF Orderly
      <4>2. Behind(d)'
        BY <4>1, BehindStays
      <4>3. QED
        BY <4>1, <4>2 DEF Advances, Broken
    <3>2. QED
      BY <1>1, <2>3, <3>1 DEF Orderly
  <2>4. CASE x.do \in {"fail", "cascade", "trigger", "check"}
    <3>1. \A d \in x.groups : Broken(d) => status'[d] = status[d]
      BY <2>1 DEF Advances
    <3>2. \A d \in x.groups : Over(d) => Over(d)'
      BY <2>1 DEF Advances
    <3>3. QED
      BY <1>1, <2>4, <3>1, <3>2 DEF Orderly, Broken
  <2>5. QED
    BY <1>2, <2>2, <2>3, <2>4 DEF LoopKinds
<1>3. CASE x.do = "exec"
  <2>1. x.groups \subseteq Groups
    BY <1>1, <1>3, KindsOfItems
  <2>2. \A d \in x.groups : status'[d] = status[d]
    BY <1>1, <1>3, <2>1 DEF Takers
  <2>3. QED
    BY <1>1, <1>3, <2>2 DEF Orderly
<1>4. CASE x.do = "serve"
  <2>1. x.group \in Groups
    BY <1>1, <1>4, KindsOfItems
  <2>2. status'[x.group] = status[x.group]
    BY <1>1, <1>4, <2>1 DEF Takers
  <2>3. QED
    BY <1>1, <1>4, <2>2 DEF Orderly
<1>5. CASE x.do = "act"
  <2>1. x.action.group \in Groups
    BY <1>1, <1>5, KindsOfItems DEF Actions
  <2>2. status'[x.action.group] = status[x.action.group]
    BY <1>1, <1>5, <2>1 DEF Takers
  <2>3. QED
    BY <1>1, <1>5, <2>2 DEF Orderly, Due
<1>6. CASE x.do = "drain"
  <2>1. x.failed \subseteq Groups /\ x.actions \in Seq(Actions)
    BY <1>1, <1>6, KindsOfItems
  <2>2. ASSUME NEW k \in DOMAIN x.actions PROVE Due(x.actions[k].group)'
    <3>1. PICK h \in Groups : h = x.actions[k].group
      <4>1. x.actions[k] \in Actions
        BY <2>1, ElementOfSeq
      <4>2. QED
        BY <4>1 DEF Actions
    <3>2. x \in Takers(h)
      BY <1>1, <1>6, <3>1 DEF Takers
    <3>3. status'[h] = status[h] /\ Due(h)
      BY <1>6, <3>1, <3>2 DEF Orderly
    <3>4. Due(h)'
      BY <3>3 DEF Due
    <3>5. QED
      BY <3>1, <3>4
  <2>3. \A d \in x.failed : status'[d] = "Failed"
    BY <1>6, <2>1 DEF Orderly, Advances, Broken
  <2>4. QED
    BY <1>1, <1>6, <2>2, <2>3 DEF Orderly
<1>7. CASE x.do \notin LoopKinds \cup {"exec", "serve", "act", "drain"}
  BY <1>1, <1>7 DEF Orderly, LoopKinds
<1>8. QED
  BY <1>2, <1>3, <1>4, <1>5, <1>6, <1>7

LEMMA OrderStays ==
  ASSUME Advances, NEW q \in Seq(Orderly),
         \A d \in Groups : Has(q, Takers(d)) => status'[d] = status[d]
  PROVE  q \in Seq(Orderly')
<1>1. q \in [1..Len(q) -> Orderly] /\ Len(q) \in Nat /\ DOMAIN q = 1..Len(q)
  OBVIOUS
<1>2. ASSUME NEW i \in 1..Len(q) PROVE q[i] \in Orderly'
  <2>1. PICK x \in Orderly : x = q[i]
    BY <1>1
  <2>2. \A d \in Groups : x \in Takers(d) => status'[d] = status[d]
    BY <1>1, <2>1 DEF Has
  <2>3. x \in Orderly'
    BY <2>2, OrderlyStays
  <2>4. QED
    BY <2>1, <2>3
<1>3. q \in [1..Len(q) -> Orderly']
  BY <1>1, <1>2
<1>4. QED
  BY <1>1, <1>3, SeqDef

(***************************************************************************)
(* A group a step leaves alone goes on as it was, though others it waited  *)
(* for may be settled.                                                     *)
(***************************************************************************)
LeftAlone(d) ==
  /\ status'[d] = status[d]
  /\ queued'[d] = queued[d] /\ pending_ready'[d] = pending_ready[d]
  /\ Taken(d)' => Taken(d)
  /\ Working(d)' => Working(d)
  /\ IsFailedOrSkipped(statuses, d)' => IsFailedOrSkipped(statuses, d)
  /\ \A e \in waiting[d] : e \in waiting'[d] \/ Over(e)' \/ Known(e)'

LEMMA LifeGoesOn ==
  ASSUME Advances, NEW d \in Groups, Life(d), LeftAlone(d)
  PROVE  Life(d)'
<1>1. DependsOn[d] \subseteq Groups /\ waiting'[d] \subseteq waiting[d]
  BY DependenciesAreGroups DEF Advances
<1>2. InOneHand(d)'
  <2>1. Passed(d) => Passed(d)'
    BY BehindStays
  <2>2. QED
    BY <2>1 DEF Life, InOneHand, LeftAlone, HasQueued
<1>3. waiting'[d] # {} => status'[d] = "Waiting" /\ ~Taken(d)' /\ ~HasQueued(d)'
  BY <1>1 DEF Life, LeftAlone, HasQueued
<1>4. (IsFailedOrSkipped(statuses, d)' => Broken(d)') /\ (status'[d] = "Skipped" => Behind(d)')
  BY BehindStays DEF Life, LeftAlone, Broken
<1>5. ASSUME status'[d] # "Skipped", NEW e \in DependsOn[d]
      PROVE  e \in waiting'[d] \/ Over(e)' \/ Known(e)'
  <2>1. e \in Groups /\ (e \in waiting[d] \/ Over(e) \/ Known(e))
    BY <1>1, <1>5 DEF Life, LeftAlone
  <2>2. QED
    BY <2>1 DEF LeftAlone, Advances
<1>6. Taken(d)' \/ HasQueued(d)' \/ status'[d] \in {"Running", "Ready", "Failed"} => Cleared(d)'
  BY BehindStays DEF Life, LeftAlone, HasQueued
<1>7. QED
  BY <1>2, <1>3, <1>4, <1>5, <1>6 DEF Life

-----------------------------------------------------------------------------
(***************************************************************************)
(* The stack before and after a step.                                      *)
(***************************************************************************)
LEMMA OrderlyAreItems == Orderly \subseteq Items /\ Seq(Orderly) \subseteq Seq(Items)
<1>1. Orderly \subseteq Items
  BY DEF Orderly
<1>2. QED
  BY <1>1, SeqWidens

LEMMA HeadTakes ==
  ASSUME InOrder, NEW kind, Doing(kind)
  PROVE  /\ Now \in Orderly /\ Now \in Items /\ Now.do = kind /\ Tail(todo) \in Seq(Orderly)
         /\ Takes(Tail(todo), {d \in Groups : Taken(d) /\ Now \notin Takers(d)})
         /\ \A d \in Groups : Now \in Takers(d) => Taken(d)
<1>1. todo \in Seq(Orderly) /\ todo # <<>> /\ Now.do = kind
  BY DEF InOrder, Doing
<1>2. /\ Now \in Orderly /\ Tail(todo) \in Seq(Orderly)
      /\ Now \in Items /\ Tail(todo) \in Seq(Items)
  BY <1>1, HeadAndTail, OrderlyAreItems DEF Now
<1>3. <<Now>> \in Seq(Items) /\ todo = <<Now>> \o Tail(todo)
  <2>1. todo = <<Head(todo)>> \o Tail(todo)
    BY <1>1, HeadTailProperties
  <2>2. QED
    BY <1>2, <2>1, Single DEF Now
<1>4. PICK x \in Items, r \in Seq(Items) :
        x = Now /\ r = Tail(todo) /\ <<x>> \in Seq(Items) /\ todo = <<x>> \o r
  BY <1>2, <1>3
<1>5. \A d \in Groups : Taken(d) <=> x \in Takers(d) \/ Has(r, Takers(d))
  <2>1. \A d \in Groups : Has(<<x>> \o r, Takers(d)) <=> Has(<<x>>, Takers(d)) \/ Has(r, Takers(d))
    BY <1>4, ConcatHas
  <2>2. \A d \in Groups : Has(<<x>>, Takers(d)) <=> x \in Takers(d)
    BY SingleHas
  <2>3. QED
    BY <1>4, <2>1, <2>2 DEF Taken
<1>6. \A d \in Groups : Once(r, Takers(d)) /\ ~(x \in Takers(d) /\ Has(r, Takers(d)))
  <2>1. \A d \in Groups : Once(<<x>> \o r, Takers(d))
    BY <1>4 DEF InOrder, Lone
  <2>2. QED
    BY <1>4, <2>1, ConcatOnce, SingleHas
<1>7. QED
  BY <1>1, <1>2, <1>4, <1>5, <1>6 DEF Takes, Lone

\* the loop at the head, after its round for g
LEMMA AfterTakes ==
  ASSUME InOrder, NEW kind \in LoopKinds \cup {"exec"}, Doing(kind), NEW g \in Now.groups
  PROVE  /\ g \in Groups /\ After(g) \in Seq(Orderly)
         /\ Takes(After(g),
                  {d \in Groups : Taken(d) /\ (kind \in {"exec", "start"} => d # g)})
         /\ kind \in {"exec", "start"} => Taken(g)
<1> DEFINE G == {d \in Groups : Taken(d) /\ (kind \in {"exec", "start"} => d # g)}
<1>1. PICK x \in Orderly, r \in Seq(Orderly) :
        /\ x = Now /\ r = Tail(todo) /\ x.do = kind /\ x \in Items
        /\ Takes(r, {d \in Groups : Taken(d) /\ x \notin Takers(d)})
        /\ \A d \in Groups : x \in Takers(d) => Taken(d)
  BY HeadTakes
<1>2. x.groups \subseteq Groups /\ g \in x.groups
  BY <1>1, KindsOfItems
<1>3. \A d \in Groups : x \in Takers(d) <=> kind \in {"exec", "start"} /\ d \in x.groups
  BY <1>1 DEF Takers, LoopKinds
<1>4. Takes(r, {d \in Groups : Taken(d) /\ ~(kind \in {"exec", "start"} /\ d \in x.groups)})
  <2>1. {d \in Groups : Taken(d) /\ x \notin Takers(d)} =
        {d \in Groups : Taken(d) /\ ~(kind \in {"exec", "start"} /\ d \in x.groups)}
    BY <1>3
  <2>2. QED
    BY <1>1, <2>1
<1>5. (kind \in {"exec", "start"} => Taken(g)) /\ g \in Groups
  BY <1>1, <1>2, <1>3
<1>6. CASE x.groups = {g}
  <2>1. After(g) = r
    BY <1>1, <1>6 DEF After
  <2>2. {d \in Groups : Taken(d) /\ ~(kind \in {"exec", "start"} /\ d \in x.groups)} \subseteq G
    BY <1>6
  <2>3. Takes(r, G)
    BY <1>4, <2>2, TakesMore
  <2>4. QED
    BY <1>1, <1>5, <2>1, <2>3
<1>7. CASE x.groups # {g}
  <2> DEFINE y == [x EXCEPT !.groups = @ \ {g}]
  <2>1. y.do = kind /\ y.groups = (x.groups \ {g}) /\ y \in Items
    <3>1. CASE kind \in LoopKinds
      <4>1. x \in [do : LoopKinds, groups : SUBSET Groups]
        BY <1>1, <3>1, KindsOfItems
      <4>2. y \in [do : LoopKinds, groups : SUBSET Groups] /\ y.do = kind
            /\ y.groups = (x.groups \ {g})
        BY <1>1, <4>1
      <4>3. QED
        BY <4>2 DEF Items, LoopKinds
    <3>2. CASE kind = "exec"
      <4>1. x \in [do : {"exec"}, groups : SUBSET Groups, onChange : BOOLEAN,
                   cascade : BOOLEAN]
        BY <1>1, <3>2, KindsOfItems
      <4>2. /\ y \in [do : {"exec"}, groups : SUBSET Groups, onChange : BOOLEAN,
                      cascade : BOOLEAN]
            /\ y.do = kind /\ y.groups = (x.groups \ {g})
        BY <1>1, <4>1
      <4>3. QED
        BY <4>2 DEF Items
    <3>3. QED
      BY <3>1, <3>2
  <2>2. After(g) = <<y>> \o r
    BY <1>1, <1>7 DEF After
  <2> HIDE DEF y
  <2>3. y \in Orderly
    BY <1>1, <2>1 DEF Orderly, LoopKinds
  <2>4. After(g) \in Seq(Orderly)
    BY <2>2, <2>3, Single, Concatenated
  <2>5. \A d \in Groups : y \in Takers(d) => kind \in {"exec", "start"} /\ d \in (x.groups \ {g})
    BY <2>1 DEF Takers, LoopKinds
  <2> DEFINE H == {d \in Groups : kind \in {"exec", "start"} /\ d \in (x.groups \ {g})}
             K == {d \in Groups : Taken(d) /\ ~(kind \in {"exec", "start"} /\ d \in x.groups)}
  <2>6. Takes(<<y>>, H)
    <3>1. \A d \in Groups : y \in Takers(d) => d \in H
      BY <2>5
    <3>2. QED
      BY <2>1, <3>1, TakesOne
  <2>7. Takes(r, K) /\ H \cap K = {} /\ H \cup K \subseteq G
    BY <1>1, <1>3, <1>4
  <2> HIDE DEF H, K, G
  <2>8. Takes(<<y>> \o r, G)
    <3>1. Takes(<<y>> \o r, H \cup K)
      BY <2>6, <2>7, TakesBoth
    <3>2. QED
      BY <2>7, <3>1, TakesMore
  <2>9. QED
    BY <1>5, <2>2, <2>4, <2>8 DEF G
<1>8. QED
  BY <1>6, <1>7

\* what is taken after a step that leaves q over r
LEMMA StackTakes ==
  ASSUME NEW K, Takes(todo', K)
  PROVE  Lone(todo') /\ \A d \in Groups : Taken(d)' => d \in K
BY DEF Takes, Taken

(***************************************************************************)
(* A step that only rearranges the stack.                                  *)
(***************************************************************************)
LEMMA Shuffles ==
  ASSUME InOrder, UNCHANGED <<resolver, status, pending_ready, queued>>,
         \A d \in Groups : Working(d)' => Working(d),
         todo' \in Seq(Orderly), NEW K, Takes(todo', K), \A d \in Groups : d \in K => Taken(d)
  PROVE  InOrder' /\ Advances
<1>1. UNCHANGED <<waiting, statuses, status, pending_ready, queued>>
  BY DEF resolver
<1>2. Lone(todo') /\ \A d \in Groups : Taken(d)' => Taken(d)
  BY StackTakes
<1>3. Advances
  BY <1>1, <1>2 DEF Advances, May, Over, Broken, Known, IsFailedOrSkipped
<1>4. todo' \in Seq(Orderly')
  BY <1>1, <1>3, OrderStays
<1>5. \A d \in Groups : Life(d)'
  <2>1. \A d \in Groups : LeftAlone(d)
    BY <1>1, <1>2 DEF LeftAlone, IsFailedOrSkipped
  <2>2. QED
    BY <1>3, <2>1, LifeGoesOn DEF InOrder
<1>6. QED
  BY <1>2, <1>3, <1>4, <1>5 DEF InOrder

(***************************************************************************)
(* A step that moves one group, cleared and neither over nor broken.       *)
(***************************************************************************)
LEMMA MoverAdvances ==
  ASSUME NEW g \in Groups, ~Over(g), ~Broken(g), Cleared(g), UNCHANGED waiting,
         May(status[g], status'[g]),
         \A d \in Groups \ {g} : status'[d] = status[d] /\ statuses'[d] = statuses[d],
         \A d \in Groups \ {g} : Taken(d)' => Taken(d)
  PROVE  Advances /\ Cleared(g)'
<1>1. ~Behind(g)
  BY DEF Behind, Cleared, Over, Broken
<1>2. Advances
  BY <1>1 DEF Advances, May, Over, Broken, Known, IsFailedOrSkipped
<1>3. QED
  BY <1>2, BehindStays

LEMMA MoverInOrder ==
  ASSUME InOrder, Advances, NEW g \in Groups, Cleared(g)', UNCHANGED waiting, waiting[g] = {},
         \A d \in Groups \ {g} :
           /\ status'[d] = status[d] /\ statuses'[d] = statuses[d]
           /\ queued'[d] = queued[d] /\ pending_ready'[d] = pending_ready[d]
           /\ Taken(d)' => Taken(d)
           /\ Working(d)' => Working(d),
         todo' \in Seq(Orderly'), Lone(todo'), InOneHand(g)', status'[g] # "Skipped",
         IsFailedOrSkipped(statuses, g)' => Broken(g)'
  PROVE  InOrder'
<1>1. \A d \in Groups \ {g} : LeftAlone(d)
  BY DEF LeftAlone, IsFailedOrSkipped
<1>2. \A d \in Groups \ {g} : Life(d)'
  BY <1>1, LifeGoesOn DEF InOrder
<1>3. Life(g)'
  BY DEF Life, Cleared
<1>4. QED
  BY <1>2, <1>3 DEF InOrder

(***************************************************************************)
(* When nobody waits for a group that is not settled, none of those who    *)
(* depend on it is ever going to start.                                    *)
(***************************************************************************)
LEMMA PassedWhenUnawaited ==
  ASSUME InOrder, NEW g \in Groups, ~Over(g), ~Broken(g), ~HasWaitingDependents(waiting, g)
  PROVE  Passed(g)
<1>1. SUFFICES ASSUME NEW h \in Dependents(g), status[h] # "Skipped" PROVE FALSE
  BY DEF Passed
<1>2. h \in Groups /\ g \in DependsOn[h]
  BY DEF Dependents
<1>3. g \in waiting[h]
  BY <1>1, <1>2 DEF InOrder, Life, Known
<1>4. QED
  BY <1>3 DEF HasWaitingDependents

LEMMA PhaseIsDue ==
  ASSUME InOrder, NEW g \in Groups, ~Over(g), ~Broken(g), NEW started,
         Phase(g, started) # "Startup"
  PROVE  Passed(g)
<1>1. ~HasWaitingDependents(waiting, g)
  BY DEF Phase
<1>2. QED
  BY <1>1, PassedWhenUnawaited

LEMMA PropagationIsOrderly ==
  ASSUME NEW g \in Groups, Over(g)', NEW phase, phase # "Startup" => Passed(g)', NEW cascade
  PROVE  Propagate(g, phase, cascade) \in Seq(Orderly')
<1>1. Dependents(g) \subseteq Groups
  BY DependenciesAreGroups
<1>2. CASE phase = "Startup"
  <2> DEFINE x == [do |-> "trigger", groups |-> {g}]
  <2>1. x \in Items /\ x.do = "trigger" /\ x.groups = {g} /\ Loop("trigger", {g}) = <<x>>
    BY DEF Items, Loop
  <2> HIDE DEF x
  <2>2. x \in Orderly'
    BY <2>1 DEF Orderly
  <2>3. <<x>> \in Seq(Orderly') /\ <<>> \in Seq(Orderly')
    BY <2>2, Single
  <2>4. QED
    BY <1>2, <2>1, <2>3 DEF Propagate
<1>3. CASE phase # "Startup"
  <2> DEFINE x == [do |-> "cascade", groups |-> Dependents(g)]
  <2>1. /\ x \in Items /\ x.do = "cascade" /\ x.groups = Dependents(g)
        /\ Loop("cascade", Dependents(g)) = (IF Dependents(g) = {} THEN <<>> ELSE <<x>>)
    BY <1>1 DEF Items, Loop
  <2> HIDE DEF x
  <2>2. x \in Orderly'
    BY <1>3, <2>1 DEF Orderly, Passed
  <2>3. <<x>> \in Seq(Orderly') /\ <<>> \in Seq(Orderly')
    BY <2>2, Single
  <2>4. QED
    BY <1>3, <2>1, <2>3 DEF Propagate
<1>4. QED
  BY <1>2, <1>3

-----------------------------------------------------------------------------
(***************************************************************************)
(* The steps of a first start, one by one.                                 *)
(***************************************************************************)
Onward == InOrder' /\ Advances /\ pending' = pending

LEMMA SetStatus ==
  ASSUME IInv, NEW g \in Groups, NEW v, status' = [status EXCEPT ![g] = v]
  PROVE  status'[g] = v /\ \A d \in Groups \ {g} : status'[d] = status[d]
<1>1. DOMAIN status = Groups
  BY DEF IInv, TypeOK, StatusMap
<1>2. QED
  BY <1>1

LEMMA SetBoth ==
  ASSUME IInv, NEW g \in Groups, SetReady(g)
  PROVE  /\ status'[g] = "Ready" /\ statuses'[g] = "Ready"
         /\ \A d \in Groups \ {g} : status'[d] = status[d] /\ statuses'[d] = statuses[d]
<1>1. DOMAIN status = Groups /\ DOMAIN statuses = Groups
  BY DEF IInv, TypeOK, StatusMap
<1>2. QED
  BY <1>1 DEF SetReady, MarkReady

\* a group that is in somebody's hand, or has tasks or checks under way
LEMMA HandFacts ==
  ASSUME InOrder, NEW g \in Groups
  PROVE  /\ InOneHand(g)
         /\ Taken(g) => Cleared(g) /\ waiting[g] = {} /\ ~HasQueued(g) /\ ~Over(g)
         /\ HasQueued(g) => Cleared(g) /\ waiting[g] = {} /\ status[g] = "Waiting" /\ ~Taken(g)
         /\ status[g] = "Running" => Cleared(g) /\ waiting[g] = {} /\ ~HasQueued(g)
         /\ status[g] # "Running" => ~Working(g) /\ pending_ready[g] = None
BY DEF InOrder, Life, InOneHand, Over

\* the tasks of the other groups are left alone
LEMMA SpawnsHere ==
  ASSUME EngineAssumption, NEW g \in Groups, NEW onChange \in BOOLEAN,
         Spawn(RunnableTasks(g, onChange) \ unexpandable), ~Working(g)
  PROVE  pending' = pending /\ \A d \in Groups \ {g} : Working(d)' => Working(d)
<1> DEFINE S == RunnableTasks(g, onChange) \ unexpandable
<1>1. S \subseteq TasksOf(g)
  BY DEF RunnableTasks, TasksOf
<1>2. /\ pending' = pending \cup {t \in S : InFlight(t)}
      /\ run' = [t \in Tasks |-> IF t \in S /\ ~InFlight(t) THEN "executing" ELSE run[t]]
  BY DEF Spawn
<1> HIDE DEF S
<1>3. {t \in S : InFlight(t)} = {}
  BY <1>1 DEF Working
<1>4. ASSUME NEW d \in Groups \ {g}, NEW t \in TasksOf(d), InFlight(t)' PROVE InFlight(t)
  <2>1. t \in Tasks /\ t \notin TasksOf(g)
    BY <1>4 DEF EngineAssumption, Tasks, TasksOf
  <2>2. run'[t] = run[t]
    BY <1>1, <1>2, <2>1
  <2>3. QED
    BY <1>4, <2>2 DEF InFlight
<1>5. QED
  BY <1>2, <1>3, <1>4 DEF Working

LEMMA SameWork ==
  ASSUME UNCHANGED run
  PROVE  \A d \in Groups : Working(d)' => Working(d)
BY DEF Working, InFlight

LEMMA ExecFacts ==
  ASSUME InOrder, NEW kind \in {"exec", "start"}, Doing(kind), NEW g \in Now.groups
  PROVE  /\ g \in Groups /\ Taken(g)
         /\ status[g] = (IF kind = "exec" THEN "Pending" ELSE "Waiting")
         /\ Cleared(g) /\ waiting[g] = {} /\ ~HasQueued(g) /\ ~Over(g) /\ ~Broken(g)
         /\ ~Working(g) /\ pending_ready[g] = None
         /\ After(g) \in Seq(Orderly)
         /\ Takes(After(g), {d \in Groups : Taken(d) /\ d # g})
<1>1. /\ g \in Groups /\ Taken(g) /\ After(g) \in Seq(Orderly)
      /\ Takes(After(g), {d \in Groups : Taken(d) /\ (kind \in {"exec", "start"} => d # g)})
  BY AfterTakes DEF LoopKinds
<1>2. {d \in Groups : Taken(d) /\ (kind \in {"exec", "start"} => d # g)} =
      {d \in Groups : Taken(d) /\ d # g}
  OBVIOUS
<1>3. status[g] = (IF kind = "exec" THEN "Pending" ELSE "Waiting")
  BY HeadTakes DEF Orderly
<1>4. QED
  BY <1>1, <1>2, <1>3, HandFacts DEF Broken

(***************************************************************************)
(* execute_groups and start_waiting_group: tasks.                          *)
(***************************************************************************)
LEMMA TasksOnward ==
  ASSUME EngineAssumption, IInv, InOrder, NEW kind \in {"exec", "start"}, Doing(kind),
         NEW g \in Now.groups, NEW onChange \in BOOLEAN, SpawnGroupTasks(g, onChange),
         todo' = After(g), UNCHANGED <<resolver, pending_ready, queued>>
  PROVE  Onward
<1>1. /\ g \in Groups /\ Taken(g) /\ status[g] \in {"Pending", "Waiting"}
      /\ Cleared(g) /\ waiting[g] = {} /\ ~HasQueued(g) /\ ~Over(g) /\ ~Broken(g)
      /\ ~Working(g) /\ pending_ready[g] = None
      /\ After(g) \in Seq(Orderly)
      /\ Takes(After(g), {d \in Groups : Taken(d) /\ d # g})
  BY ExecFacts
<1>2. status'[g] = "Running" /\ \A d \in Groups \ {g} : status'[d] = status[d]
  BY <1>1, SetStatus DEF SpawnGroupTasks
<1>3. pending' = pending /\ \A d \in Groups \ {g} : Working(d)' => Working(d)
  BY <1>1, SpawnsHere DEF SpawnGroupTasks
<1>4. UNCHANGED <<waiting, statuses, pending_ready, queued>>
  BY DEF resolver
<1>5. Lone(todo') /\ \A d \in Groups : Taken(d)' => Taken(d) /\ d # g
  BY <1>1, StackTakes
<1>6. Advances /\ Cleared(g)'
  <2>1. May(status[g], status'[g])
    BY <1>1, <1>2 DEF May
  <2>2. QED
    BY <1>1, <1>2, <1>4, <1>5, <2>1, MoverAdvances
<1>7. todo' \in Seq(Orderly')
  <2>1. \A d \in Groups : Has(After(g), Takers(d)) => status'[d] = status[d]
    BY <1>1, <1>2 DEF Takes
  <2>2. QED
    BY <1>1, <1>6, <2>1, OrderStays
<1>8. InOneHand(g)'
  <2>1. InOneHand(g)
    BY <1>1, HandFacts
  <2>2. QED
    BY <1>1, <1>2, <1>4, <1>5, <2>1 DEF InOneHand, HasQueued, None
<1>9. IsFailedOrSkipped(statuses, g)' => Broken(g)'
  <2>1. IsFailedOrSkipped(statuses, g) => Broken(g)
    BY <1>1 DEF InOrder, Life
  <2>2. QED
    BY <1>1, <1>4, <2>1 DEF IsFailedOrSkipped
<1>10. InOrder'
  BY <1>1, <1>2, <1>3, <1>4, <1>5, <1>6, <1>7, <1>8, <1>9, MoverInOrder
<1>11. QED
  BY <1>3, <1>6, <1>10 DEF Onward

(***************************************************************************)
(* The same: nothing to run.                                               *)
(***************************************************************************)
LEMMA NothingOnward ==
  ASSUME EngineAssumption, IInv, InOrder, NEW kind \in {"exec", "start"}, Doing(kind),
         NEW g \in Now.groups, SetReady(g), NEW phase, NEW cascade,
         phase # "Startup" => Passed(g),
         todo' = Propagate(g, phase, cascade) \o After(g),
         UNCHANGED <<waiting, pending_ready, queued, run, pending>>
  PROVE  Onward
<1> DEFINE G == {d \in Groups : Taken(d) /\ d # g}
<1>1. /\ g \in Groups /\ Taken(g) /\ status[g] \in {"Pending", "Waiting"}
      /\ Cleared(g) /\ waiting[g] = {} /\ ~HasQueued(g) /\ ~Over(g) /\ ~Broken(g)
      /\ ~Working(g) /\ pending_ready[g] = None
      /\ After(g) \in Seq(Orderly)
      /\ Takes(After(g), G)
  BY ExecFacts
<1>2. /\ status'[g] = "Ready" /\ statuses'[g] = "Ready"
      /\ \A d \in Groups \ {g} : status'[d] = status[d] /\ statuses'[d] = statuses[d]
  BY <1>1, SetBoth
<1>3. \A d \in Groups : Working(d)' => Working(d)
  BY SameWork
<1>4. Takes(todo', G)
  <2>1. Takes(Propagate(g, phase, cascade), {})
    BY <1>1, PropagationTakes
  <2>2. Takes(Propagate(g, phase, cascade) \o After(g), {} \cup G)
    BY <1>1, <2>1, TakesBoth
  <2>3. {} \cup G = G
    OBVIOUS
  <2>4. QED
    BY <2>2, <2>3
<1>5. Lone(todo') /\ \A d \in Groups : Taken(d)' => Taken(d) /\ d # g
  BY <1>4, StackTakes
<1>6. Advances /\ Cleared(g)'
  <2>1. May(status[g], status'[g])
    BY <1>1, <1>2 DEF May
  <2>2. QED
    BY <1>1, <1>2, <1>5, <2>1, MoverAdvances
<1>7. todo' \in Seq(Orderly')
  <2>1. \A d \in Groups : Has(After(g), Takers(d)) => status'[d] = status[d]
    BY <1>1, <1>2 DEF Takes
  <2>2. After(g) \in Seq(Orderly')
    BY <1>1, <1>6, <2>1, OrderStays
  <2>3. Over(g)' /\ (phase # "Startup" => Passed(g)')
    BY <1>1, <1>2, <1>5, <1>6, BehindStays DEF Over
  <2>4. Propagate(g, phase, cascade) \in Seq(Orderly')
    BY <1>1, <2>3, PropagationIsOrderly
  <2>5. QED
    BY <2>2, <2>4, Concatenated
<1>8. InOneHand(g)'
  <2>1. InOneHand(g)
    BY <1>1, HandFacts
  <2>2. QED
    BY <1>1, <1>2, <1>3, <1>5, <2>1 DEF InOneHand, HasQueued, None
<1>9. IsFailedOrSkipped(statuses, g)' => Broken(g)'
  BY <1>2 DEF IsFailedOrSkipped
<1>10. InOrder'
  BY <1>1, <1>2, <1>3, <1>5, <1>6, <1>7, <1>8, <1>9, MoverInOrder
<1>11. QED
  BY <1>6, <1>10 DEF Onward

LEMMA ExecOnward ==
  ASSUME EngineAssumption, IInv, InOrder, NEW g \in Groups,
         ExecTasks(g) \/ ExecNothing(g) \/ ExecServices(g)
  PROVE  Onward
<1>1. Doing("exec") /\ g \in Now.groups
  BY DEF ExecTasks, ExecNothing, ExecServices
<1>2. Now \in [do : {"exec"}, groups : SUBSET Groups, onChange : BOOLEAN, cascade : BOOLEAN]
  BY <1>1, HeadTakes, KindsOfItems
<1>3. PICK onChange \in BOOLEAN, cascade \in BOOLEAN :
        onChange = Now.onChange /\ cascade = Now.cascade
  BY <1>2
<1>4. CASE ExecTasks(g)
  <2>1. /\ SpawnGroupTasks(g, onChange) /\ todo' = After(g)
        /\ UNCHANGED <<resolver, pending_ready, queued>>
    BY <1>3, <1>4 DEF ExecTasks
  <2>2. QED
    BY <1>1, <2>1, TasksOnward
<1>5. CASE ExecNothing(g)
  <2>1. PICK phase : phase = Phase(g, services_started[g])
    OBVIOUS
  <2>2. /\ SetReady(g) /\ todo' = Propagate(g, phase, cascade) \o After(g)
        /\ UNCHANGED <<waiting, pending_ready, queued, run, pending>>
    BY <1>3, <1>5, <2>1 DEF ExecNothing, taskVars
  <2>3. phase # "Startup" => Passed(g)
    BY <1>1, <2>1, ExecFacts, PhaseIsDue
  <2>4. QED
    BY <1>1, <2>2, <2>3, NothingOnward
<1>6. CASE ExecServices(g)
  <2> DEFINE phase == Phase(g, services_started[g])
             start == ~services_started[g]
             G == {d \in Groups : Taken(d) /\ d # g}
  <2>1. /\ todo' = Serve(g, start, phase, cascade) \o After(g)
        /\ UNCHANGED <<resolver, groupVars, taskVars, queued>>
    BY <1>3, <1>6 DEF ExecServices
  <2>2. start \in BOOLEAN /\ phase \in Phases \cup {"Later"}
    BY PhasesArePhases
  <2> HIDE DEF phase, start
  <2>3. /\ Taken(g) /\ status[g] = "Pending" /\ After(g) \in Seq(Orderly)
        /\ Takes(After(g), G)
    BY <1>1, ExecFacts
  <2>4. Takes(Serve(g, start, phase, cascade), {g})
    BY <2>2, ServeTakes
  <2>5. Takes(todo', {g} \cup G)
    <3>1. {g} \cap G = {}
      OBVIOUS
    <3> HIDE DEF G
    <3>2. QED
      BY <2>1, <2>3, <2>4, <3>1, TakesBoth
  <2>6. Serve(g, start, phase, cascade) \in Seq(Orderly)
    <3> DEFINE x == [do |-> "serve", group |-> g, start |-> start, left |-> Services[g],
                     at |-> {}, phase |-> phase, cascade |-> cascade]
    <3>1. Serve(g, start, phase, cascade) = <<x>> /\ x.do = "serve" /\ x.group = g
      BY DEF Serve
    <3>2. x \in Items
      BY <2>2 DEF Items, AllServices
    <3> HIDE DEF x
    <3>3. x \in Orderly
      BY <2>3, <3>1, <3>2 DEF Orderly
    <3>4. QED
      BY <3>1, <3>3, Single
  <2>7. todo' \in Seq(Orderly)
    BY <2>1, <2>3, <2>6, Concatenated
  <2>8. UNCHANGED <<resolver, status, pending_ready, queued, run, pending>>
    BY <2>1 DEF groupVars, taskVars
  <2>9. \A d \in Groups : d \in {g} \cup G => Taken(d)
    BY <2>3
  <2>10. InOrder' /\ Advances
    BY <2>5, <2>7, <2>8, <2>9, SameWork, Shuffles
  <2>11. QED
    BY <2>8, <2>10 DEF Onward
<1>7. QED
  BY <1>4, <1>5, <1>6

LEMMA QueueOnward ==
  ASSUME IInv, InOrder, NEW g \in Groups, QueueServiceAction(g)
  PROVE  Onward
<1>1. /\ Doing("start") /\ g \in Now.groups /\ todo' = After(g)
      /\ queued' = (IF services_started[g]
                    THEN [queued EXCEPT ![g].restart = @ + 1]
                    ELSE [queued EXCEPT ![g].start = @ + 1])
      /\ UNCHANGED <<waiting, statuses, status, pending_ready, run, pending>>
  BY DEF QueueServiceAction, resolver, groupVars, taskVars
<1>2. /\ Taken(g) /\ status[g] = "Waiting"
      /\ Cleared(g) /\ waiting[g] = {} /\ ~HasQueued(g) /\ ~Over(g) /\ ~Broken(g)
      /\ ~Working(g) /\ pending_ready[g] = None
      /\ After(g) \in Seq(Orderly)
      /\ Takes(After(g), {d \in Groups : Taken(d) /\ d # g})
  BY <1>1, ExecFacts
<1>3. /\ \A d \in Groups \ {g} : queued'[d] = queued[d]
      /\ queued'[g].start + queued'[g].restart <= 1
  <2>1. queued \in [Groups -> [start : Nat, restart : Nat]]
    BY DEF IInv, TypeOK
  <2>2. queued[g] = [start |-> 0, restart |-> 0]
    BY <1>2 DEF HasQueued
  <2>3. QED
    BY <1>1, <2>1, <2>2
<1>4. Lone(todo') /\ \A d \in Groups : Taken(d)' => Taken(d) /\ d # g
  BY <1>1, <1>2, StackTakes
<1>5. Advances /\ Cleared(g)'
  <2>1. May(status[g], status'[g])
    BY <1>1 DEF May
  <2>2. QED
    BY <1>1, <1>2, <1>4, <2>1, MoverAdvances
<1>6. todo' \in Seq(Orderly')
  BY <1>1, <1>2, <1>5, OrderStays
<1>7. InOneHand(g)'
  <2>1. \A d \in Groups : Working(d)' => Working(d)
    BY <1>1, SameWork
  <2>2. InOneHand(g)
    BY HandFacts
  <2>3. QED
    BY <1>1, <1>2, <1>3, <1>4, <2>1, <2>2 DEF InOneHand, None
<1>8. IsFailedOrSkipped(statuses, g)' => Broken(g)'
  BY <1>1 DEF InOrder, Life, IsFailedOrSkipped, Broken
<1>9. InOrder'
  <2>1. \A d \in Groups : Working(d)' => Working(d)
    BY <1>1, SameWork
  <2>2. QED
    BY <1>1, <1>2, <1>3, <1>4, <1>5, <1>6, <1>7, <1>8, <2>1, MoverInOrder
<1>10. QED
  BY <1>1, <1>5, <1>9 DEF Onward

LEMMA StartWaitingOnward ==
  ASSUME EngineAssumption, IInv, InOrder, NEW g \in Groups,
         StartWaitingTasks(g) \/ StartWaitingNothing(g) \/ QueueServiceAction(g)
  PROVE  Onward
<1>1. CASE StartWaitingTasks(g)
  <2>1. /\ Doing("start") /\ g \in Now.groups /\ SpawnGroupTasks(g, FALSE)
        /\ todo' = After(g) /\ UNCHANGED <<resolver, pending_ready, queued>>
    BY <1>1 DEF StartWaitingTasks
  <2>2. QED
    BY <2>1, TasksOnward
<1>2. CASE StartWaitingNothing(g)
  <2>1. /\ Doing("start") /\ g \in Now.groups /\ SetReady(g)
        /\ todo' = Loop("trigger", {g}) \o After(g)
        /\ UNCHANGED <<waiting, pending_ready, queued, run, pending>>
    BY <1>2 DEF StartWaitingNothing, taskVars
  <2>2. Loop("trigger", {g}) = Propagate(g, "Startup", TRUE)
    BY DEF Propagate
  <2>3. QED
    BY <2>1, <2>2, NothingOnward
<1>3. CASE QueueServiceAction(g)
  BY <1>3, QueueOnward
<1>4. QED
  BY <1>1, <1>2, <1>3

(***************************************************************************)
(* An item of the stack that changes, or makes room for others that take   *)
(* no more than it did.                                                    *)
(***************************************************************************)
OfHead == {d \in Groups : Now \in Takers(d)}

LEMMA HeadMakesRoom ==
  ASSUME InOrder, NEW kind, Doing(kind), NEW q \in Seq(Orderly), Takes(q, OfHead)
  PROVE  /\ q \o Tail(todo) \in Seq(Orderly)
         /\ Takes(q \o Tail(todo), {d \in Groups : Taken(d)})
<1> DEFINE K == {d \in Groups : Taken(d) /\ Now \notin Takers(d)}
<1>1. /\ Tail(todo) \in Seq(Orderly) /\ Takes(Tail(todo), K)
      /\ \A d \in Groups : Now \in Takers(d) => Taken(d)
  BY HeadTakes
<1>2. OfHead \cap K = {} /\ OfHead \cup K \subseteq {d \in Groups : Taken(d)}
  BY <1>1 DEF OfHead
<1> HIDE DEF K
<1>3. Takes(q \o Tail(todo), OfHead \cup K)
  BY <1>1, <1>2, TakesBoth
<1>4. Takes(q \o Tail(todo), {d \in Groups : Taken(d)})
  BY <1>2, <1>3, TakesMore
<1>5. QED
  BY <1>1, <1>4, Concatenated

LEMMA HeadShuffles ==
  ASSUME InOrder, NEW kind, Doing(kind), NEW q \in Seq(Orderly), Takes(q, OfHead),
         todo' = q \o Tail(todo),
         UNCHANGED <<resolver, status, pending_ready, queued, run, pending>>
  PROVE  Onward
<1>1. /\ q \o Tail(todo) \in Seq(Orderly)
      /\ Takes(q \o Tail(todo), {d \in Groups : Taken(d)})
  BY HeadMakesRoom
<1>2. todo' \in Seq(Orderly) /\ Takes(todo', {d \in Groups : Taken(d)})
  BY <1>1
<1>3. PICK K : Takes(todo', K) /\ \A d \in Groups : d \in K => Taken(d)
  BY <1>2
<1>4. UNCHANGED <<resolver, status, pending_ready, queued>>
  OBVIOUS
<1>5. \A d \in Groups : Working(d)' => Working(d)
  BY SameWork
<1>6. InOrder' /\ Advances
  BY <1>2, <1>3, <1>4, <1>5, Shuffles
<1>7. QED
  BY <1>6 DEF Onward

LEMMA ServeOnward ==
  ASSUME EngineAssumption, InOrder, NEW s \in AllServices,
         ServeSignal(s) \/ ServeBegin(s) \/ ServeStart(s) \/ ServeSkips(s)
  PROVE  Onward
<1>1. Doing("serve") /\ UNCHANGED <<resolver, status, pending_ready, queued, run, pending>>
  BY DEF ServeSignal, ServeBegin, ServeStart, ServeSkips, groupVars, taskVars
<1>2. PICK x \in Orderly : x = Now /\ x.do = "serve" /\ x \in Items
  BY <1>1, HeadTakes
<1>3. x \in ServeItems
  BY <1>2, KindsOfItems DEF ServeItems
<1>4. PICK y \in ServeItems : y.group = x.group /\ todo' = <<y>> \o Tail(todo)
  <2> DEFINE u == [x EXCEPT !.left = @ \ {s}]
             v == [x EXCEPT !.at = {s}]
             w == [x EXCEPT !.left = @ \ {s}, !.at = {}]
  <2>1. u \in ServeItems /\ u.group = x.group /\ v \in ServeItems /\ v.group = x.group
        /\ w \in ServeItems /\ w.group = x.group
    BY <1>3 DEF ServeItems
  <2>2. \/ todo' = <<u>> \o Tail(todo)
        \/ todo' = <<v>> \o Tail(todo)
        \/ todo' = <<w>> \o Tail(todo)
    BY <1>2 DEF ServeSignal, ServeBegin, ServeStart, ServeSkips
  <2>3. QED
    BY <2>1, <2>2
<1>5. y \in Items /\ y.do = "serve"
  BY DEF ServeItems, Items
<1>6. y \in Orderly
  BY <1>2, <1>4, <1>5 DEF Orderly
<1>7. \A d \in Groups : y \in Takers(d) <=> x \in Takers(d)
  BY <1>2, <1>4, <1>5 DEF Takers
<1>8. Takes(<<y>>, OfHead) /\ <<y>> \in Seq(Orderly)
  BY <1>2, <1>5, <1>6, <1>7, TakesOne, Single DEF OfHead
<1>9. QED
  BY <1>1, <1>2, <1>4, <1>8, HeadShuffles

LEMMA TakenStatus ==
  ASSUME InOrder, NEW g \in Groups, Taken(g)
  PROVE  status[g] \in {"Pending", "Waiting", "Ready"}
<1>1. PICK x \in Orderly : x \in Takers(g)
  <2>1. PICK i \in DOMAIN todo : todo[i] \in Takers(g)
    BY DEF Taken, Has
  <2>2. todo[i] \in Orderly
    BY ElementOfSeq DEF InOrder
  <2>3. QED
    BY <2>1, <2>2
<1>2. QED
  BY <1>1 DEF Orderly, Takers, Due

(***************************************************************************)
(* The group that is done with its services, or has none, or whose checks  *)
(* have passed: it is Ready and who depends on it hears of it, or its      *)
(* transition is deferred.                                                 *)
(***************************************************************************)
LEMMA CompletesOnward ==
  ASSUME InOrder, NEW kind, Doing(kind), NEW g \in Groups,
         ~Over(g), ~Broken(g), Cleared(g), waiting[g] = {}, ~HasQueued(g), ~Working(g),
         Taken(g) => Now \in Takers(g),
         status'[g] \in {"Running", "Ready"}, May(status[g], status'[g]),
         \A d \in Groups \ {g} :
           status'[d] = status[d] /\ pending_ready'[d] = pending_ready[d],
         UNCHANGED <<waiting, statuses, queued, run, pending>>,
         NEW phase, NEW cascade, phase # "Startup" => Passed(g),
         \/ /\ status'[g] = "Running" /\ todo' = Tail(todo)
            /\ pending_ready'[g] = [phase |-> phase, cascade |-> cascade]
         \/ /\ status'[g] = "Ready" /\ pending_ready'[g] = None
            /\ todo' = Propagate(g, phase, cascade) \o Tail(todo)
  PROVE  Onward
<1> DEFINE G == {d \in Groups : Taken(d) /\ d # g}
<1>1. Tail(todo) \in Seq(Orderly) /\ Takes(Tail(todo), G)
  <2>1. /\ Tail(todo) \in Seq(Orderly)
        /\ Takes(Tail(todo), {d \in Groups : Taken(d) /\ Now \notin Takers(d)})
    BY HeadTakes
  <2>2. {d \in Groups : Taken(d) /\ Now \notin Takers(d)} \subseteq G
    OBVIOUS
  <2>3. QED
    BY <2>1, <2>2, TakesMore
<1>2. Takes(todo', G)
  <2>1. Takes(Propagate(g, phase, cascade), {})
    BY PropagationTakes
  <2>2. Takes(Propagate(g, phase, cascade) \o Tail(todo), {} \cup G)
    BY <1>1, <2>1, TakesBoth
  <2>3. {} \cup G = G
    OBVIOUS
  <2>4. QED
    BY <1>1, <2>2, <2>3
<1>3. Lone(todo') /\ \A d \in Groups : Taken(d)' => Taken(d) /\ d # g
  BY <1>2, StackTakes
<1>4. Advances /\ Cleared(g)'
  BY <1>3, MoverAdvances
<1>5. Passed(g) => Passed(g)'
  BY <1>4, BehindStays
<1>6. todo' \in Seq(Orderly')
  <2>1. \A d \in Groups : Has(Tail(todo), Takers(d)) => status'[d] = status[d]
    BY <1>1 DEF Takes
  <2>2. Tail(todo) \in Seq(Orderly')
    BY <1>1, <1>4, <2>1, OrderStays
  <2>3. CASE status'[g] = "Running" /\ todo' = Tail(todo)
    BY <2>2, <2>3
  <2>4. CASE status'[g] = "Ready" /\ todo' = Propagate(g, phase, cascade) \o Tail(todo)
    <3>1. Over(g)'
      BY <1>3, <2>4 DEF Over
    <3>2. Propagate(g, phase, cascade) \in Seq(Orderly')
      BY <1>5, <3>1, PropagationIsOrderly
    <3>3. QED
      BY <2>2, <2>4, <3>2, Concatenated
  <2>5. QED
    BY <2>3, <2>4
<1>7. \A d \in Groups : Working(d)' => Working(d)
  BY SameWork
<1>8. InOneHand(g)'
  <2>1. InOneHand(g)
    BY HandFacts
  <2>2. pending_ready'[g].phase = "Runtime" => Passed(g)'
    <3>1. [phase |-> phase, cascade |-> cascade].phase = phase /\ None.phase = "None"
      BY DEF None
    <3>2. QED
      BY <1>5, <3>1
  <2>3. pending_ready'[g] # None => status'[g] = "Running"
    OBVIOUS
  <2>4. QED
    BY <1>3, <1>7, <2>1, <2>2, <2>3 DEF InOneHand, HasQueued
<1>9. IsFailedOrSkipped(statuses, g)' => Broken(g)'
  BY DEF InOrder, Life, IsFailedOrSkipped
<1>10. InOrder'
  BY <1>3, <1>4, <1>6, <1>7, <1>8, <1>9, MoverInOrder
<1>11. QED
  BY <1>4, <1>10 DEF Onward

LEMMA ServeDoneOnward ==
  ASSUME IInv, Ledger, InOrder, ServeDone
  PROVE  Onward
<1>1. Doing("serve") /\ UNCHANGED <<waiting, statuses, queued, run, pending>>
  BY DEF ServeDone, resolver, taskVars
<1>2. PICK x \in Orderly :
        /\ x = Now /\ x.do = "serve" /\ x \in Items /\ x \in Proper
        /\ \A d \in Groups : x \in Takers(d) => Taken(d)
  BY <1>1, HeadTakes, ProperFacts DEF Ledger
<1>3. x \in ServeItems
  BY <1>2, KindsOfItems DEF ServeItems
<1>4. PICK g \in Groups, phase \in Phases, cascade \in BOOLEAN :
        /\ g = x.group /\ cascade = x.cascade
        /\ phase = IF x.phase = "Later" THEN Phase(g, TRUE) ELSE x.phase
  <2>1. /\ x.group \in Groups /\ x.cascade \in BOOLEAN
        /\ x.phase # "Later" => x.phase \in Phases
    BY <1>3 DEF ServeItems
  <2>2. \A d : Phase(d, TRUE) \in Phases
    BY DEF Phase, Phases
  <2>3. QED
    BY <2>1, <2>2
<1>5. /\ status' = [status EXCEPT ![g] = IF AwaitsReadiness(g) THEN "Running" ELSE "Ready"]
      /\ IF AwaitsReadiness(g)
         THEN /\ pending_ready' =
                   [pending_ready EXCEPT ![g] = [phase |-> phase, cascade |-> cascade]]
              /\ todo' = Tail(todo)
         ELSE /\ pending_ready' = [pending_ready EXCEPT ![g] = None]
              /\ todo' = Propagate(g, phase, cascade) \o Tail(todo)
  BY <1>2, <1>4 DEF ServeDone, DeferOrPropagate
<1>6. Taken(g) /\ x \in Takers(g) /\ status[g] \in {"Pending", "Waiting", "Ready"}
  BY <1>2, <1>4, TakenStatus DEF Takers
<1>7. /\ ~Over(g) /\ ~Broken(g) /\ Cleared(g) /\ waiting[g] = {} /\ ~HasQueued(g) /\ ~Working(g)
      /\ pending_ready[g] = None
  BY <1>6, HandFacts DEF Broken
<1>8. phase # "Startup" => Passed(g)
  <2>1. CASE x.phase = "Later"
    BY <1>4, <1>7, <2>1, PhaseIsDue
  <2>2. CASE x.phase # "Later"
    <3>1. phase # "Startup" => x.phase = "Runtime"
      BY <1>3, <1>4, <2>2 DEF ServeItems, Phases
    <3>2. phase # "Startup" => ~Awaited(g)
      BY <1>2, <1>4, <3>1 DEF Proper
    <3>3. phase # "Startup" => ~HasWaitingDependents(waiting, g)
      BY <3>2, DependenciesAreGroups DEF Awaited, HasWaitingDependents
    <3>4. QED
      BY <1>7, <3>3, PassedWhenUnawaited
  <2>3. QED
    BY <2>1, <2>2
<1>9. /\ status \in [Groups -> GroupStatus]
      /\ pending_ready \in [Groups -> [phase : Phases, cascade : BOOLEAN] \cup {None}]
  BY DEF IInv, TypeOK, StatusMap
<1>10. /\ status'[g] = (IF AwaitsReadiness(g) THEN "Running" ELSE "Ready")
       /\ \A d \in Groups \ {g} :
            status'[d] = status[d] /\ pending_ready'[d] = pending_ready[d]
       /\ pending_ready'[g] = (IF AwaitsReadiness(g)
                               THEN [phase |-> phase, cascade |-> cascade] ELSE None)
  BY <1>5, <1>9
<1>11. May(status[g], status'[g]) /\ status'[g] \in {"Running", "Ready"}
  BY <1>6, <1>10 DEF May
<1>12. \/ /\ status'[g] = "Running" /\ todo' = Tail(todo)
          /\ pending_ready'[g] = [phase |-> phase, cascade |-> cascade]
       \/ /\ status'[g] = "Ready" /\ pending_ready'[g] = None
          /\ todo' = Propagate(g, phase, cascade) \o Tail(todo)
  BY <1>5, <1>10
<1>13. Taken(g) => Now \in Takers(g)
  BY <1>2, <1>6
<1>14. QED
  BY <1>1, <1>7, <1>8, <1>10, <1>11, <1>12, <1>13, CompletesOnward

(***************************************************************************)
(* What is skipped has a reason: a group the skip reaches waited, and for  *)
(* none but the sources and others it reaches.                             *)
(***************************************************************************)
LEMMA SkippedHaveWaited ==
  ASSUME NEW S \in SUBSET Groups, NEW h \in SkippedBehind(waiting, S)
  PROVE  waiting[h] # {} /\ waiting[h] \subseteq SkippedBehind(waiting, S) \cup S
<1> DEFINE X == SkippedBehind(waiting, S)
           Y == X \ {h}
<1>1. X \in SUBSET Groups
  BY DEF SkippedBehind
<1>2. \A d \in Groups : waiting[d] # {} /\ waiting[d] \subseteq X \cup S => d \in X
  BY SkippedIsClosed
<1>3. SUFFICES ASSUME ~(waiting[h] # {} /\ waiting[h] \subseteq X \cup S) PROVE FALSE
  OBVIOUS
<1>4. ClosedUnderSkip(waiting, S, Y)
  <2>1. SUFFICES ASSUME NEW d \in Groups, waiting[d] # {}, waiting[d] \subseteq Y \cup S
                 PROVE  d \in Y
    BY DEF ClosedUnderSkip
  <2>2. waiting[d] \subseteq X \cup S
    BY <2>1
  <2>3. d \in X
    BY <1>2, <2>1, <2>2
  <2>4. d # h
    BY <1>3, <2>1, <2>2
  <2>5. QED
    BY <2>3, <2>4
<1>5. Y \in SUBSET Groups
  BY <1>1
<1>6. X \subseteq Y
  BY <1>4, <1>5 DEF SkippedBehind
<1>7. QED
  BY <1>6

(***************************************************************************)
(* A step that skips what waits behind some groups, which end up Failed or *)
(* Skipped themselves.                                                     *)
(***************************************************************************)
Doomed(h, own) ==
  /\ waiting[h] = {} /\ ~Taken(h) /\ ~HasQueued(h) /\ ~Working(h) /\ ~Over(h)
  /\ May(status[h], own) /\ (Broken(h) => status[h] = own)
  /\ own = "Skipped" => Behind(h)
  /\ own = "Failed" => Cleared(h) /\ status[h] # "Waiting"

LEMMA SkippingOnward ==
  ASSUME InOrder, EntriesAreDependencies, NEW S \in SUBSET Groups,
         NEW own \in {"Failed", "Skipped"}, SkipBehind(S, own),
         \A h \in S : Doomed(h, own) /\ pending_ready'[h] = None,
         \A h \in Groups \ S : pending_ready'[h] = pending_ready[h],
         UNCHANGED <<queued, run, pending>>,
         todo' \in Seq(Orderly), Takes(todo', {d \in Groups : Taken(d)})
  PROVE  Onward
<1> DEFINE K == SkippedBehind(waiting, S)
           B == K \cup S
<1>1. /\ waiting' = [h \in Groups |-> waiting[h] \ B]
      /\ status' = [h \in Groups |-> CASE h \in K -> "Skipped"
                                       [] h \in S \ K -> own
                                       [] OTHER -> status[h]]
      /\ statuses' = [h \in Groups |-> CASE h \in K -> "Skipped"
                                         [] h \in S \ K -> own
                                         [] OTHER -> statuses[h]]
  BY DEF SkipBehind, WaitingAfterSkip, StopWaitingFor, StatusAfterSkip
<1>2. K \subseteq Groups
  BY DEF SkippedBehind
<1>3. \A h \in K : waiting[h] # {} /\ waiting[h] \subseteq B
  BY SkippedHaveWaited
<1> HIDE DEF K
<1>4. \A h \in K : /\ h \in Groups /\ h \notin S /\ waiting[h] # {} /\ waiting[h] \subseteq B
                   /\ status[h] = "Waiting" /\ ~Taken(h) /\ ~HasQueued(h)
                   /\ ~Working(h) /\ pending_ready[h] = None
  <2>1. SUFFICES ASSUME NEW h \in K
                 PROVE  /\ h \in Groups /\ h \notin S /\ waiting[h] # {}
                        /\ waiting[h] \subseteq B
                        /\ status[h] = "Waiting" /\ ~Taken(h) /\ ~HasQueued(h)
                        /\ ~Working(h) /\ pending_ready[h] = None
    OBVIOUS
  <2>2. h \in Groups /\ h \notin S /\ waiting[h] # {} /\ waiting[h] \subseteq B
    BY <1>2, <1>3 DEF Doomed
  <2>3. status[h] = "Waiting" /\ ~Taken(h) /\ ~HasQueued(h)
    BY <2>2 DEF InOrder, Life
  <2>4. QED
    BY <2>2, <2>3, HandFacts
<1>5. /\ \A h \in K : status'[h] = "Skipped" /\ statuses'[h] = "Skipped"
      /\ \A h \in S : status'[h] = own /\ statuses'[h] = own
      /\ \A h \in Groups \ B : status'[h] = status[h] /\ statuses'[h] = statuses[h]
      /\ \A h \in Groups : waiting'[h] = waiting[h] \ B
  BY <1>1, <1>2, <1>4
<1>6. B \subseteq Groups /\ \A h \in B : Known(h)' /\ Broken(h)'
  BY <1>2, <1>5 DEF Known, Broken, IsFailedOrSkipped
<1>7. Lone(todo') /\ \A d \in Groups : Taken(d)' => Taken(d)
  BY StackTakes
<1>8. \A d \in B : ~Taken(d)
  BY <1>4 DEF Doomed
<1>9. Advances
  <2>1. SUFFICES ASSUME NEW d \in Groups
                 PROVE  /\ May(status[d], status'[d])
                        /\ Over(d) => Over(d)'
                        /\ Broken(d) => status'[d] = status[d]
                        /\ Known(d) => Known(d)'
                        /\ status[d] = "Waiting" /\ Behind(d) =>
                             status'[d] \in {"Waiting", "Skipped"}
                        /\ waiting'[d] \subseteq waiting[d]
    BY DEF Advances
  <2>2. waiting'[d] \subseteq waiting[d]
    BY <1>5
  <2>3. CASE d \in K
    BY <1>4, <1>5, <1>6, <2>2, <2>3 DEF May, Over, Broken
  <2>4. CASE d \in S
    BY <1>5, <1>6, <2>2, <2>4 DEF Doomed
  <2>5. CASE d \notin B
    BY <1>5, <1>7, <2>2, <2>5 DEF May, Over, Broken, Known, IsFailedOrSkipped
  <2>6. QED
    BY <2>3, <2>4, <2>5
<1>10. todo' \in Seq(Orderly')
  <2>1. PICK q \in Seq(Orderly) : q = todo'
    OBVIOUS
  <2>2. \A d \in Groups : Has(q, Takers(d)) => status'[d] = status[d]
    BY <1>5, <1>8, <2>1 DEF Takes
  <2>3. q \in Seq(Orderly')
    BY <1>9, <2>2, OrderStays
  <2>4. QED
    BY <2>1, <2>3
<1>11. \A d \in Groups : Working(d)' => Working(d)
  BY SameWork
<1>12. ASSUME NEW d \in K PROVE Life(d)'
  <2>1. PICK e \in waiting[d] : e \in B
    BY <1>4
  <2>2. e \in DependsOn[d] /\ e \in Groups /\ Broken(e)'
    BY <1>4, <1>6, <2>1 DEF EntriesAreDependencies
  <2>3. Behind(d)'
    BY <2>2 DEF Behind
  <2>4. d \in Groups /\ waiting'[d] = {} /\ status'[d] = "Skipped" /\ Broken(d)'
        /\ ~Taken(d)' /\ ~HasQueued(d)' /\ ~Working(d)' /\ pending_ready'[d] = None
    BY <1>4, <1>5, <1>6, <1>7, <1>11 DEF HasQueued
  <2>5. InOneHand(d)'
    <3>1. InOneHand(d)
      BY <1>4, HandFacts
    <3>2. QED
      BY <2>4, <3>1 DEF InOneHand, None
  <2>6. QED
    BY <2>3, <2>4, <2>5 DEF Life
<1>13. ASSUME NEW d \in S PROVE Life(d)'
  <2>1. d \in Groups /\ waiting'[d] = {} /\ status'[d] = own /\ Broken(d)'
        /\ ~Taken(d)' /\ ~HasQueued(d)' /\ ~Working(d)' /\ pending_ready'[d] = None
    BY <1>5, <1>6, <1>7, <1>11 DEF HasQueued, Doomed
  <2>2. (own = "Skipped" => Behind(d)') /\ (own = "Failed" => Cleared(d)')
    BY <1>9, <2>1, BehindStays DEF Doomed
  <2>3. InOneHand(d)'
    <3>1. InOneHand(d)
      BY <2>1, HandFacts
    <3>2. QED
      BY <2>1, <3>1 DEF InOneHand, None
  <2>4. QED
    BY <2>1, <2>2, <2>3 DEF Life, Cleared
<1>14. ASSUME NEW d \in Groups \ B PROVE Life(d)'
  <2>1. \A e \in waiting[d] : e \in waiting'[d] \/ Known(e)'
    BY <1>5, <1>6
  <2>2. LeftAlone(d)
    BY <1>5, <1>7, <1>11, <2>1 DEF LeftAlone, IsFailedOrSkipped
  <2>3. QED
    BY <1>9, <2>2, LifeGoesOn DEF InOrder
<1>15. InOrder'
  BY <1>7, <1>10, <1>12, <1>13, <1>14 DEF InOrder
<1>16. QED
  BY <1>9, <1>15 DEF Onward

\* nobody cleared is behind a failure
LEMMA ClearedIsNotBehind ==
  ASSUME NEW g \in Groups, Behind(g)
  PROVE  ~Cleared(g)
BY DEF Behind, Cleared, Over, Broken

\* the rest of the stack, once the head is done
LEMMA TailTakes ==
  ASSUME InOrder, NEW kind, Doing(kind)
  PROVE  /\ Tail(todo) \in Seq(Orderly) /\ Tail(todo) \in Seq(Items)
         /\ Takes(Tail(todo), {d \in Groups : Taken(d)})
<1>1. /\ Tail(todo) \in Seq(Orderly)
      /\ Takes(Tail(todo), {d \in Groups : Taken(d) /\ Now \notin Takers(d)})
  BY HeadTakes
<1>2. {d \in Groups : Taken(d) /\ Now \notin Takers(d)} \subseteq {d \in Groups : Taken(d)}
  OBVIOUS
<1>3. Takes(Tail(todo), {d \in Groups : Taken(d)})
  BY <1>1, <1>2, TakesMore
<1>4. QED
  BY <1>1, <1>3 DEF Takes

LEMMA SkipOnward ==
  ASSUME InOrder, EntriesAreDependencies, Skip
  PROVE  Onward
<1>1. /\ Doing("skip") /\ SkipBehind(Now.groups, "Skipped") /\ todo' = Tail(todo)
      /\ UNCHANGED <<pending_ready, queued, run, pending>>
  BY DEF Skip, taskVars
<1>2. PICK x \in Orderly : x = Now /\ x \in Items /\ x.do = "skip"
  <2>1. Doing("skip")
    BY <1>1
  <2>2. Now \in Orderly /\ Now \in Items /\ Now.do = "skip"
    BY <2>1, HeadTakes
  <2>3. QED
    BY <2>2
<1>3. PICK S \in SUBSET Groups : S = x.groups
  BY <1>2, KindsOfItems DEF LoopKinds
<1>4. ASSUME NEW h \in S PROVE Doomed(h, "Skipped") /\ pending_ready'[h] = None
  <2>1. /\ h \in Groups /\ status[h] \in {"Waiting", "Skipped"} /\ waiting[h] = {}
        /\ Behind(h)
    BY <1>2, <1>3 DEF Orderly
  <2>2. ~Cleared(h)
    BY <2>1, ClearedIsNotBehind
  <2>3. ~Taken(h) /\ ~HasQueued(h) /\ ~Working(h) /\ pending_ready[h] = None
    BY <2>1, <2>2, HandFacts
  <2>4. QED
    BY <1>1, <2>1, <2>3 DEF Doomed, May, Over, Broken
<1>5. /\ Tail(todo) \in Seq(Orderly) /\ Tail(todo) \in Seq(Items)
      /\ Takes(Tail(todo), {d \in Groups : Taken(d)})
  BY <1>1, TailTakes
<1>6. todo' \in Seq(Orderly) /\ Takes(todo', {d \in Groups : Taken(d)})
  BY <1>1, <1>5
<1>7. SkipBehind(S, "Skipped")
  BY <1>1, <1>2, <1>3
<1>8. QED
  BY <1>1, <1>4, <1>6, <1>7, SkippingOnward

LEMMA FailOnward ==
  ASSUME InOrder, EntriesAreDependencies, NEW g \in Groups, Fail(g)
  PROVE  Onward
<1>1. /\ Doing("fail") /\ g \in Now.groups /\ SkipBehind({g}, "Failed") /\ todo' = After(g)
      /\ UNCHANGED <<pending_ready, queued, run, pending>>
  BY DEF Fail, taskVars
<1>2. status[g] = "Failed"
  BY <1>1, HeadTakes DEF Orderly
<1>3. /\ waiting[g] = {} /\ ~Taken(g) /\ ~HasQueued(g) /\ ~Working(g) /\ Cleared(g)
      /\ pending_ready[g] = None
  <2>1. ~Taken(g)
    BY <1>2, TakenStatus
  <2>2. waiting[g] = {} /\ Cleared(g)
    BY <1>2 DEF InOrder, Life
  <2>3. QED
    BY <1>2, <2>1, <2>2, HandFacts
<1>4. Doomed(g, "Failed") /\ pending_ready'[g] = None
  BY <1>1, <1>2, <1>3 DEF Doomed, May, Over
<1>5. After(g) \in Seq(Orderly) /\ Takes(After(g), {d \in Groups : Taken(d)})
  <2>1. /\ After(g) \in Seq(Orderly)
        /\ Takes(After(g),
                 {d \in Groups : Taken(d) /\ ("fail" \in {"exec", "start"} => d # g)})
    BY <1>1, AfterTakes DEF LoopKinds
  <2>2. {d \in Groups : Taken(d) /\ ("fail" \in {"exec", "start"} => d # g)} =
        {d \in Groups : Taken(d)}
    OBVIOUS
  <2>3. QED
    BY <2>1, <2>2
<1>6. todo' \in Seq(Orderly) /\ Takes(todo', {d \in Groups : Taken(d)})
  BY <1>1, <1>5 DEF Takes
<1>7. PICK S \in SUBSET Groups : S = {g}
  OBVIOUS
<1>8. /\ \A h \in S : Doomed(h, "Failed") /\ pending_ready'[h] = None
      /\ \A h \in Groups \ S : pending_ready'[h] = pending_ready[h]
      /\ SkipBehind(S, "Failed")
  BY <1>1, <1>4, <1>7
<1>9. UNCHANGED <<queued, run, pending>>
  BY <1>1
<1>10. QED
  BY <1>6, <1>8, <1>9, SkippingOnward

LEMMA SettleFailedOnward ==
  ASSUME IInv, InOrder, EntriesAreDependencies, SettleFailed
  PROVE  Onward
<1>1. /\ Doing("settle") /\ todo' = Tail(todo) /\ UNCHANGED <<queued, run, pending>>
  BY DEF SettleFailed, taskVars
<1>2. PICK x \in Items : x = Now /\ x.do = "settle"
  <2>1. Now \in Items /\ Now.do = "settle"
    BY <1>1, HeadTakes
  <2>2. QED
    BY <2>1
<1>3. PICK g \in Groups : g = x.group
  BY <1>2, KindsOfItems
<1>4. /\ pending_ready' = [pending_ready EXCEPT ![g] = None]
      /\ IF pending_ready[g] = None \/ status[g] = "Ready"
         THEN UNCHANGED <<resolver, status>>
         ELSE SkipBehind({g}, "Failed")
  BY <1>2, <1>3 DEF SettleFailed
<1>5. /\ pending_ready'[g] = None
      /\ \A h \in Groups \ {g} : pending_ready'[h] = pending_ready[h]
      /\ pending_ready[g] = None => pending_ready' = pending_ready
  <2>1. pending_ready \in [Groups -> [phase : Phases, cascade : BOOLEAN] \cup {None}]
    BY DEF IInv, TypeOK
  <2>2. QED
    BY <1>4, <2>1
<1>6. /\ Tail(todo) \in Seq(Orderly) /\ Tail(todo) \in Seq(Items)
      /\ Takes(Tail(todo), {d \in Groups : Taken(d)})
  BY <1>1, TailTakes
<1>7. CASE pending_ready[g] = None
  <2>1. UNCHANGED <<resolver, status, pending_ready, queued>>
    BY <1>1, <1>4, <1>5, <1>7
  <2>2. PICK K : Takes(todo', K) /\ \A d \in Groups : d \in K => Taken(d)
    BY <1>1, <1>6
  <2>3. \A d \in Groups : Working(d)' => Working(d)
    BY <1>1, SameWork
  <2>4. todo' \in Seq(Orderly)
    BY <1>1, <1>6
  <2>5. InOrder' /\ Advances
    BY <2>1, <2>2, <2>3, <2>4, Shuffles
  <2>6. QED
    BY <1>1, <2>5 DEF Onward
<1>8. CASE pending_ready[g] # None
  <2>1. status[g] = "Running" /\ ~Working(g)
    BY <1>8, HandFacts DEF InOneHand
  <2>2. SkipBehind({g}, "Failed")
    BY <1>4, <1>8, <2>1
  <2>3. waiting[g] = {} /\ ~Taken(g) /\ ~HasQueued(g) /\ Cleared(g)
    BY <2>1, HandFacts, TakenStatus
  <2>4. \A h \in {g} : Doomed(h, "Failed") /\ pending_ready'[h] = None
    BY <1>5, <2>1, <2>3 DEF Doomed, May, Over, Broken
  <2>5. todo' \in Seq(Orderly) /\ Takes(todo', {d \in Groups : Taken(d)})
    BY <1>1, <1>6
  <2>6. QED
    BY <1>1, <1>5, <2>2, <2>4, <2>5, SkippingOnward
<1>9. QED
  BY <1>7, <1>8

(***************************************************************************)
(* A group is over for the resolver too: those it releases are cleared, or *)
(* behind a failure the resolver knows of.                                 *)
(***************************************************************************)
LEMMA TriggerOnward ==
  ASSUME IInv, InOrder, NEW g \in Groups, Trigger(g)
  PROVE  Onward
<1>1. /\ Doing("trigger") /\ Now.groups = {g}
      /\ waiting' = [h \in Groups |-> waiting[h] \ {g}] /\ SetReady(g)
      /\ todo' = Loop("start", ReadyToStart(waiting, statuses, g))
                   \o Loop("skip", NeedsSkip(waiting, statuses, g)) \o Tail(todo)
      /\ UNCHANGED <<pending_ready, queued, run, pending>>
  BY DEF Trigger, StopWaitingFor, taskVars
<1>2. Over(g)
  <2>1. Now \in Orderly /\ Now.do = "trigger"
    BY <1>1, HeadTakes
  <2>2. QED
    BY <1>1, <2>1 DEF Orderly
<1>3. /\ statuses'[g] = "Ready" /\ \A d \in Groups : status'[d] = status[d]
      /\ \A d \in Groups \ {g} : statuses'[d] = statuses[d]
      /\ MarkReady(statuses, g) = statuses'
  <2>1. /\ status'[g] = "Ready" /\ statuses'[g] = "Ready"
        /\ \A d \in Groups \ {g} : status'[d] = status[d] /\ statuses'[d] = statuses[d]
    BY <1>1, SetBoth
  <2>2. status[g] = "Ready"
    BY <1>2 DEF Over
  <2>3. MarkReady(statuses, g) = statuses'
    BY <1>1 DEF SetReady
  <2>4. QED
    BY <2>1, <2>2, <2>3
<1>4. PICK R \in SUBSET Groups, N \in SUBSET Groups :
        R = ReadyToStart(waiting, statuses, g) /\ N = NeedsSkip(waiting, statuses, g)
  BY DEF ReadyToStart, NeedsSkip, Released, Dependents
<1>5. \A h \in R \cup N : waiting[h] # {} /\ waiting[h] \subseteq {g}
  BY <1>4 DEF ReadyToStart, NeedsSkip, Released
<1>6. \A h \in R \cup N : /\ h \in Groups /\ waiting'[h] = {} /\ status[h] = "Waiting"
                          /\ ~Taken(h) /\ ~HasQueued(h) /\ ~Working(h)
                          /\ pending_ready[h] = None /\ h # g
  <2>1. SUFFICES ASSUME NEW h \in R \cup N
                 PROVE  /\ h \in Groups /\ waiting'[h] = {} /\ status[h] = "Waiting"
                        /\ ~Taken(h) /\ ~HasQueued(h) /\ ~Working(h)
                        /\ pending_ready[h] = None /\ h # g
    OBVIOUS
  <2>2. h \in Groups /\ waiting'[h] = {}
    BY <1>1, <1>5
  <2>3. status[h] = "Waiting" /\ ~Taken(h) /\ ~HasQueued(h)
    BY <1>5, <2>2 DEF InOrder, Life
  <2>4. QED
    BY <1>2, <2>2, <2>3, HandFacts DEF Over
<1>7. \A d \in Groups : IsFailedOrSkipped(MarkReady(statuses, g), d) <=>
                          d # g /\ IsFailedOrSkipped(statuses, d)
  <2>1. ~Broken(g)
    BY <1>2 DEF Over, Broken
  <2>2. QED
    BY <1>3, <2>1 DEF InOrder, Life, IsFailedOrSkipped
<1>8. \A h \in N : Behind(h)
  <2>1. SUFFICES ASSUME NEW h \in N PROVE Behind(h)
    OBVIOUS
  <2>2. PICK d \in DependsOn[h] : IsFailedOrSkipped(MarkReady(statuses, g), d)
    BY <1>4 DEF NeedsSkip, AnyDependencyFailed
  <2>3. d \in Groups
    BY <1>6, DependenciesAreGroups
  <2>4. Broken(d)
    BY <1>7, <2>2, <2>3 DEF InOrder, Life
  <2>5. QED
    BY <2>4 DEF Behind
<1>9. \A h \in R : Cleared(h)
  <2>1. SUFFICES ASSUME NEW h \in R, NEW d \in DependsOn[h] PROVE Over(d)
    BY DEF Cleared
  <2>2. h \in Groups /\ d \in Groups /\ status[h] = "Waiting"
    BY <1>6, <2>1, DependenciesAreGroups
  <2>3. ~IsFailedOrSkipped(MarkReady(statuses, g), d)
    BY <1>4, <2>1 DEF ReadyToStart, NeedsSkip, AnyDependencyFailed
  <2>4. d \in waiting[h] \/ Over(d) \/ Known(d)
    BY <2>2 DEF InOrder, Life
  <2>5. CASE d \in waiting[h]
    BY <1>2, <1>5, <2>5
  <2>6. CASE Known(d)
    BY <1>2, <1>7, <2>2, <2>3, <2>6 DEF Known, Over, Broken
  <2>7. QED
    BY <2>4, <2>5, <2>6
<1> DEFINE T == {d \in Groups : Taken(d)}
<1>10. /\ Tail(todo) \in Seq(Orderly) /\ Takes(Tail(todo), T)
  BY <1>1, TailTakes
<1>11. R \cap T = {} /\ \A d \in T : Taken(d)
  BY <1>6
<1> HIDE DEF T
<1>12. todo' = Loop("start", R) \o (Loop("skip", N) \o Tail(todo))
  <2>1. Loop("start", R) \in Seq(Items) /\ Loop("skip", N) \in Seq(Items)
        /\ Tail(todo) \in Seq(Items)
    BY <1>10, LoopTakes DEF LoopKinds, Takes
  <2>2. (Loop("start", R) \o Loop("skip", N)) \o Tail(todo)
          = Loop("start", R) \o (Loop("skip", N) \o Tail(todo))
    BY ONLY <2>1, ConcatAssociative
  <2>3. todo' = (Loop("start", R) \o Loop("skip", N)) \o Tail(todo)
    BY ONLY <1>1, <1>4
  <2>4. QED
    BY ONLY <2>2, <2>3
<1>13. Lone(todo') /\ \A d \in Groups : Taken(d)' => Taken(d) \/ d \in R
  <2>1. Takes(Loop("start", R), R) /\ Takes(Loop("skip", N), {})
    <3>1. Takes(Loop("start", R), IF "start" = "start" THEN R ELSE {})
      BY LoopTakes DEF LoopKinds
    <3>2. Takes(Loop("skip", N), IF "skip" = "start" THEN N ELSE {})
      BY LoopTakes DEF LoopKinds
    <3>3. QED
      BY <3>1, <3>2
  <2>2. Takes(Loop("skip", N) \o Tail(todo), {} \cup T)
    BY <1>10, <2>1, TakesBoth
  <2>3. {} \cup T = T
    OBVIOUS
  <2>4. Takes(Loop("skip", N) \o Tail(todo), T)
    BY <2>2, <2>3
  <2>5. Takes(Loop("start", R) \o (Loop("skip", N) \o Tail(todo)), R \cup T)
    BY <1>11, <2>1, <2>4, TakesBoth
  <2>6. Takes(todo', R \cup T)
    BY <1>12, <2>5
  <2>7. QED
    BY <1>11, <2>6, StackTakes
<1>14. Advances
  <2>1. SUFFICES ASSUME NEW d \in Groups
                 PROVE  /\ Over(d) => Over(d)'
                        /\ Known(d) => Known(d)'
                        /\ waiting'[d] \subseteq waiting[d]
    BY <1>3 DEF Advances, May
  <2>2. Over(d) => Over(d)'
    BY <1>3, <1>6, <1>13 DEF Over
  <2>3. Known(d) => Known(d)'
    BY <1>2, <1>3 DEF Known, Broken, IsFailedOrSkipped, Over
  <2>4. QED
    BY <1>1, <2>2, <2>3
<1>15. todo' \in Seq(Orderly')
  <2>1. Tail(todo) \in Seq(Orderly')
    BY <1>3, <1>10, <1>14, OrderStays
  <2>2. Loop("start", R) \in Seq(Orderly')
    <3> DEFINE x == [do |-> "start", groups |-> R]
    <3>1. /\ x \in Items /\ x.do = "start" /\ x.groups = R
          /\ Loop("start", R) = IF R = {} THEN <<>> ELSE <<x>>
      BY DEF Items, Loop
    <3> HIDE DEF x
    <3>2. x \in Orderly'
      BY <1>3, <1>6, <3>1 DEF Orderly
    <3>3. <<x>> \in Seq(Orderly') /\ <<>> \in Seq(Orderly')
      BY <3>2, Single
    <3>4. QED
      BY <3>1, <3>3
  <2>3. Loop("skip", N) \in Seq(Orderly')
    <3> DEFINE x == [do |-> "skip", groups |-> N]
    <3>1. /\ x \in Items /\ x.do = "skip" /\ x.groups = N
          /\ Loop("skip", N) = IF N = {} THEN <<>> ELSE <<x>>
      BY DEF Items, Loop
    <3> HIDE DEF x
    <3>2. \A h \in N : Behind(h)'
      BY <1>6, <1>8, <1>14, BehindStays
    <3>3. x \in Orderly'
      BY <1>3, <1>6, <3>1, <3>2 DEF Orderly
    <3>4. <<x>> \in Seq(Orderly') /\ <<>> \in Seq(Orderly')
      BY <3>3, Single
    <3>5. QED
      BY <3>1, <3>4
  <2>4. Loop("skip", N) \o Tail(todo) \in Seq(Orderly')
    BY <2>1, <2>3, Concatenated
  <2>5. Loop("start", R) \o (Loop("skip", N) \o Tail(todo)) \in Seq(Orderly')
    BY <2>2, <2>4, Concatenated
  <2>6. QED
    BY <1>12, <2>5
<1>16. \A d \in Groups : Working(d)' => Working(d)
  BY <1>1, SameWork
<1>17. ASSUME NEW d \in Groups \ R PROVE Life(d)'
  <2>1. \A e \in waiting[d] : e \in waiting'[d] \/ Over(e)'
    BY <1>1, <1>2, <1>14 DEF Advances
  <2>2. IsFailedOrSkipped(statuses, d)' => IsFailedOrSkipped(statuses, d)
    BY <1>3 DEF IsFailedOrSkipped
  <2>3. LeftAlone(d)
    BY <1>1, <1>3, <1>13, <1>16, <2>1, <2>2 DEF LeftAlone
  <2>4. QED
    BY <1>14, <2>3, LifeGoesOn DEF InOrder
<1>18. ASSUME NEW d \in R PROVE Life(d)'
  <2>1. /\ d \in Groups /\ waiting'[d] = {} /\ status'[d] = "Waiting" /\ ~HasQueued(d)'
        /\ ~Working(d)' /\ pending_ready'[d] = None /\ queued'[d] = queued[d]
    BY <1>1, <1>3, <1>6, <1>16 DEF HasQueued
  <2>2. Cleared(d)'
    BY <1>9, <1>14, <2>1, BehindStays
  <2>3. InOneHand(d)'
    <3>1. InOneHand(d)
      BY <2>1, HandFacts
    <3>2. QED
      BY <2>1, <3>1 DEF InOneHand, None
  <2>4. IsFailedOrSkipped(statuses, d)' => Broken(d)'
    <3>1. IsFailedOrSkipped(statuses, d) => Broken(d)
      BY <2>1 DEF InOrder, Life
    <3>2. QED
      BY <1>3, <1>6, <2>1, <3>1 DEF IsFailedOrSkipped, Broken
  <2>5. QED
    BY <2>1, <2>2, <2>3, <2>4 DEF Life, Cleared
<1>19. InOrder'
  BY <1>13, <1>15, <1>17, <1>18 DEF InOrder
<1>20. QED
  BY <1>1, <1>14, <1>19 DEF Onward

(***************************************************************************)
(* Steps that take an item off the stack, or a group off a loop, or look   *)
(* after the services.                                                     *)
(***************************************************************************)
LEMMA StackOnward ==
  ASSUME InOrder, todo' \in Seq(Orderly), Takes(todo', {d \in Groups : Taken(d)}),
         \A d \in Groups : Working(d)' => Working(d),
         UNCHANGED <<resolver, status, pending_ready, queued, pending>>
  PROVE  Onward
<1>1. PICK K : Takes(todo', K) /\ \A d \in Groups : d \in K => Taken(d)
  OBVIOUS
<1>2. UNCHANGED <<resolver, status, pending_ready, queued>>
  OBVIOUS
<1>3. InOrder' /\ Advances
  BY <1>1, <1>2, Shuffles
<1>4. QED
  BY <1>3 DEF Onward

LEMMA TailOnward ==
  ASSUME InOrder, NEW kind, Doing(kind), todo' = Tail(todo),
         UNCHANGED <<resolver, status, pending_ready, queued, run, pending>>
  PROVE  Onward
<1>1. Tail(todo) \in Seq(Orderly) /\ Takes(Tail(todo), {d \in Groups : Taken(d)})
  BY TailTakes
<1>2. todo' \in Seq(Orderly) /\ Takes(todo', {d \in Groups : Taken(d)})
  BY <1>1
<1>3. QED
  BY <1>2, SameWork, StackOnward

LEMMA RoundTakes ==
  ASSUME InOrder, NEW kind \in LoopKinds \ {"start"}, Doing(kind), NEW g \in Now.groups
  PROVE  After(g) \in Seq(Orderly) /\ Takes(After(g), {d \in Groups : Taken(d)})
<1>1. /\ After(g) \in Seq(Orderly)
      /\ Takes(After(g), {d \in Groups : Taken(d) /\ (kind \in {"exec", "start"} => d # g)})
  BY AfterTakes
<1>2. {d \in Groups : Taken(d) /\ (kind \in {"exec", "start"} => d # g)} =
      {d \in Groups : Taken(d)}
  BY DEF LoopKinds
<1>3. QED
  BY <1>1, <1>2

LEMMA CascadeOnward ==
  ASSUME InOrder, NEW g \in Groups, CascadeTasks(g) \/ CascadeServices(g) \/ CascadeNothing(g)
  PROVE  Onward
<1>1. Doing("cascade") /\ g \in Now.groups
  BY DEF CascadeTasks, CascadeServices, CascadeNothing
<1>2. status[g] = "Skipped"
  <2>1. Now \in Orderly /\ Now.do = "cascade"
    BY <1>1, HeadTakes
  <2>2. QED
    BY <1>1, <2>1 DEF Orderly
<1>3. todo' = After(g) /\ UNCHANGED <<resolver, status, pending_ready, queued, run, pending>>
  BY <1>2 DEF CascadeTasks, CascadeServices, CascadeNothing, groupVars, taskVars
<1>4. After(g) \in Seq(Orderly) /\ Takes(After(g), {d \in Groups : Taken(d)})
  BY <1>1, RoundTakes DEF LoopKinds
<1>5. todo' \in Seq(Orderly) /\ Takes(todo', {d \in Groups : Taken(d)})
  BY <1>3, <1>4
<1>6. QED
  BY <1>3, <1>5, SameWork, StackOnward

\* items that are nobody's hand and everywhere in order
Idlers == SuperviseItems \cup [do : {"settle"}, group : Groups, ok : BOOLEAN]

LEMMA IdlersTakeNone ==
  ASSUME NEW x \in Idlers
  PROVE  x \in Orderly /\ <<x>> \in Seq(Orderly) /\ Takes(<<x>>, {})
<1>1. x \in Items /\ x.do \in {"supervise", "settle"}
  BY DEF Idlers, SuperviseItems, Items
<1>2. x \in Orderly
  BY <1>1 DEF Orderly
<1>3. \A d \in Groups : x \in Takers(d) => d \in {}
  BY <1>1 DEF Takers
<1>4. Takes(<<x>>, {})
  BY <1>1, <1>3, TakesOne
<1>5. QED
  BY <1>2, <1>4, Single

LEMMA CheckOnward ==
  ASSUME EngineAssumption, InOrder, NEW g \in Groups, CheckGroup(g)
  PROVE  Onward
<1>1. /\ Doing("check") /\ g \in Now.groups /\ todo' = Supervise(g) \o After(g)
      /\ UNCHANGED <<resolver, status, pending_ready, queued, run, pending>>
  BY DEF CheckGroup, groupVars, taskVars
<1>2. PICK x \in Idlers : Supervise(g) = <<x>>
  BY DEF Supervise, Idlers, SuperviseItems, AllServices
<1>3. After(g) \in Seq(Orderly) /\ Takes(After(g), {d \in Groups : Taken(d)})
  BY <1>1, RoundTakes DEF LoopKinds
<1>4. x \in Orderly /\ <<x>> \in Seq(Orderly) /\ Takes(<<x>>, {})
  BY IdlersTakeNone
<1>5. Takes(<<x>> \o After(g), {} \cup {d \in Groups : Taken(d)})
  BY <1>3, <1>4, TakesBoth
<1>6. {} \cup {d \in Groups : Taken(d)} = {d \in Groups : Taken(d)}
  OBVIOUS
<1>7. todo' \in Seq(Orderly)
  BY <1>1, <1>2, <1>3, <1>4, Concatenated
<1>8. Takes(todo', {d \in Groups : Taken(d)})
  BY <1>1, <1>2, <1>5, <1>6
<1>9. QED
  BY <1>1, <1>7, <1>8, SameWork, StackOnward

LEMMA SuperviseOnward ==
  ASSUME EngineAssumption, InOrder, NEW s \in AllServices,
         \/ RespawnDue(s) \/ RespawnDropped(s) \/ Respawn(s) \/ RespawnLater(s)
         \/ NoticeExit(s) \/ NothingToDo(s)
         \/ \E passed \in BOOLEAN : ReadinessAnswers(s, passed)
  PROVE  Onward
<1>1. /\ Doing("supervise")
      /\ todo' = <<[Now EXCEPT !.at = {s}]>> \o Tail(todo) \/ todo' = Looked(s)
      /\ UNCHANGED <<resolver, status, pending_ready, queued, run, pending>>
  BY DEF RespawnDue, RespawnDropped, Respawn, RespawnLater, NoticeExit, NothingToDo,
     ReadinessAnswers, Looking, groupVars, taskVars
<1>2. Now \in SuperviseItems
  <2>1. Now \in Items /\ Now.do = "supervise"
    BY <1>1, HeadTakes
  <2>2. QED
    BY <2>1, KindsOfItems DEF SuperviseItems
<1>3. PICK x \in Idlers : todo' = <<x>> \o Tail(todo)
  <2>1. /\ [Now EXCEPT !.left = @ \ {s}, !.at = {}] \in Idlers
        /\ [Now EXCEPT !.at = {s}] \in Idlers
    BY <1>2 DEF SuperviseItems, Idlers
  <2>2. QED
    BY <1>1, <2>1 DEF Looked
<1>4. <<x>> \in Seq(Orderly) /\ Takes(<<x>>, {})
  BY IdlersTakeNone
<1>5. Takes(<<x>>, OfHead)
  BY <1>4, TakesMore
<1>6. QED
  BY <1>1, <1>3, <1>4, <1>5, HeadShuffles

LEMMA LookedOnward ==
  ASSUME InOrder, GroupLooked
  PROVE  Onward
<1>1. /\ Doing("supervise")
      /\ UNCHANGED <<resolver, status, pending_ready, queued, run, pending>>
  BY DEF GroupLooked, groupVars, taskVars
<1>2. Now.group \in Groups
  <2>1. Now \in Items /\ Now.do = "supervise"
    BY <1>1, HeadTakes
  <2>2. QED
    BY <2>1, KindsOfItems
<1>3. PICK x \in Idlers : todo' = Tail(todo) \o <<x>> \/ todo' = Tail(todo) \o <<>>
  <2>1. PICK ok \in BOOLEAN : ok = \A s \in Services[Now.group] : service_status[s] # "Failed"
    OBVIOUS
  <2>2. [do |-> "settle", group |-> Now.group, ok |-> ok] \in Idlers
    BY <1>2 DEF Idlers
  <2>3. \/ todo' = Tail(todo) \o Settle(Now.group, ok)
        \/ todo' = Tail(todo) \o <<>>
    BY <2>1 DEF GroupLooked
  <2>4. QED
    BY <2>2, <2>3 DEF Settle
<1>4. /\ Tail(todo) \in Seq(Orderly) /\ Takes(Tail(todo), {d \in Groups : Taken(d)})
  BY <1>1, TailTakes
<1>5. <<x>> \in Seq(Orderly) /\ Takes(<<x>>, {})
  BY IdlersTakeNone
<1>6. {d \in Groups : Taken(d)} \cup {} = {d \in Groups : Taken(d)}
  OBVIOUS
<1>7. CASE todo' = Tail(todo) \o <<x>>
  <2>1. Takes(Tail(todo) \o <<x>>, {d \in Groups : Taken(d)} \cup {})
    BY <1>4, <1>5, TakesBoth
  <2>2. Takes(todo', {d \in Groups : Taken(d)})
    BY <1>6, <1>7, <2>1
  <2>3. todo' \in Seq(Orderly)
    BY <1>4, <1>5, <1>7, Concatenated
  <2>4. QED
    BY <1>1, <2>2, <2>3, SameWork, StackOnward
<1>8. CASE todo' = Tail(todo) \o <<>>
  <2>1. todo' = Tail(todo)
    BY <1>4, <1>8, ConcatEmptySeq
  <2>2. QED
    BY <1>1, <2>1, TailOnward
<1>9. QED
  BY <1>3, <1>7, <1>8

LEMMA SettleReadyOnward ==
  ASSUME IInv, InOrder, SettleReady
  PROVE  Onward
<1>1. /\ Doing("settle") /\ UNCHANGED <<waiting, statuses, queued, run, pending>>
  BY DEF SettleReady, resolver, taskVars
<1>2. PICK x \in Items : x = Now /\ x.do = "settle"
  <2>1. Now \in Items /\ Now.do = "settle"
    BY <1>1, HeadTakes
  <2>2. QED
    BY <2>1
<1>3. PICK g \in Groups : g = x.group
  BY <1>2, KindsOfItems
<1>4. /\ pending_ready' = [pending_ready EXCEPT ![g] = None]
      /\ IF pending_ready[g] = None \/ status[g] = "Ready"
         THEN todo' = Tail(todo) /\ UNCHANGED status
         ELSE /\ status' = [status EXCEPT ![g] = "Ready"]
              /\ todo' = Propagate(g, pending_ready[g].phase, pending_ready[g].cascade)
                           \o Tail(todo)
  BY <1>2, <1>3 DEF SettleReady
<1>5. /\ pending_ready'[g] = None
      /\ \A h \in Groups \ {g} : pending_ready'[h] = pending_ready[h]
      /\ pending_ready[g] = None => pending_ready' = pending_ready
      /\ pending_ready[g] # None => pending_ready[g].phase \in Phases
  <2>1. pending_ready \in [Groups -> [phase : Phases, cascade : BOOLEAN] \cup {None}]
    BY DEF IInv, TypeOK
  <2>2. QED
    BY <1>4, <2>1
<1>6. CASE pending_ready[g] = None
  <2>1. /\ todo' = Tail(todo)
        /\ UNCHANGED <<resolver, status, pending_ready, queued, run, pending>>
    BY <1>1, <1>4, <1>5, <1>6 DEF resolver
  <2>2. QED
    BY <1>1, <2>1, TailOnward
<1>7. CASE pending_ready[g] # None
  <2>1. status[g] = "Running" /\ ~Working(g)
        /\ (pending_ready[g].phase = "Runtime" => Passed(g))
    BY <1>7, HandFacts DEF InOneHand
  <2>2. waiting[g] = {} /\ ~Taken(g) /\ ~HasQueued(g) /\ Cleared(g) /\ ~Over(g) /\ ~Broken(g)
    BY <2>1, HandFacts, TakenStatus DEF Over, Broken
  <2>3. PICK phase, cascade : phase = pending_ready[g].phase /\ cascade = pending_ready[g].cascade
    OBVIOUS
  <2>4. phase # "Startup" => Passed(g)
    BY <1>5, <1>7, <2>1, <2>3 DEF Phases
  <2>5. /\ status' = [status EXCEPT ![g] = "Ready"]
        /\ todo' = Propagate(g, phase, cascade) \o Tail(todo)
    BY <1>4, <1>7, <2>1, <2>3
  <2>6. status'[g] = "Ready" /\ \A d \in Groups \ {g} : status'[d] = status[d]
    BY <2>5, SetStatus
  <2>7. May(status[g], status'[g]) /\ status'[g] \in {"Running", "Ready"}
    BY <2>1, <2>6 DEF May
  <2>8. \A d \in Groups \ {g} : status'[d] = status[d] /\ pending_ready'[d] = pending_ready[d]
    BY <1>5, <2>6
  <2>9. /\ status'[g] = "Ready" /\ pending_ready'[g] = None
        /\ todo' = Propagate(g, phase, cascade) \o Tail(todo)
    BY <1>5, <2>5, <2>6
  <2>10. Doing("settle") /\ UNCHANGED <<waiting, statuses, queued, run, pending>>
    BY <1>1
  <2>11. Taken(g) => Now \in Takers(g)
    BY <2>2
  <2>12. QED
    BY <2>1, <2>2, <2>4, <2>7, <2>8, <2>9, <2>10, <2>11, CompletesOnward
<1>8. QED
  BY <1>6, <1>7

(***************************************************************************)
(* process_task_completions: a group that was in nobody's hand is taken up *)
(* by the drain.                                                           *)
(***************************************************************************)
LEMMA DrainedTakes ==
  ASSUME InOrder, Doing("drain"), NEW y \in DrainItems, NEW F \in SUBSET Groups,
         \A d \in F : ~Taken(d),
         \A d \in Groups : y \in Takers(d) => Now \in Takers(d) \/ d \in F
  PROVE  Lone(<<y>> \o Tail(todo)) /\ Takes(<<y>> \o Tail(todo), {d \in Groups : Taken(d)} \cup F)
<1> DEFINE K == {d \in Groups : Taken(d) /\ Now \notin Takers(d)}
<1>1. /\ Takes(Tail(todo), K) /\ \A d \in Groups : Now \in Takers(d) => Taken(d)
  BY HeadTakes
<1>2. y \in Items
  BY DEF DrainItems, Items
<1>3. \A d \in Groups : y \in Takers(d) => d \in OfHead \cup F
  BY DEF OfHead
<1>4. Takes(<<y>>, OfHead \cup F)
  BY <1>2, <1>3, TakesOne
<1>5. (OfHead \cup F) \cap K = {} /\ (OfHead \cup F) \cup K \subseteq {d \in Groups : Taken(d)} \cup F
  BY <1>1 DEF OfHead
<1> HIDE DEF K
<1>6. Takes(<<y>> \o Tail(todo), (OfHead \cup F) \cup K)
  BY <1>1, <1>4, <1>5, TakesBoth
<1>7. Takes(<<y>> \o Tail(todo), {d \in Groups : Taken(d)} \cup F)
  BY <1>5, <1>6, TakesMore
<1>8. QED
  BY <1>7 DEF Takes

LEMMA AppendedTakes ==
  ASSUME InOrder, Doing("drain"), NEW a \in Actions, ~Taken(a.group)
  PROVE  \E y \in DrainItems :
             /\ y = [Now EXCEPT !.actions = Append(@, a)] /\ y.failed = Now.failed
             /\ \A k \in DOMAIN y.actions :
                  \/ y.actions[k] = a
                  \/ k \in DOMAIN Now.actions /\ y.actions[k] = Now.actions[k]
             /\ \A k, l \in DOMAIN y.actions : y.actions[k].group = y.actions[l].group => k = l
             /\ \A d \in Groups : y \in Takers(d) => Now \in Takers(d) \/ d \in {a.group}
<1>1. /\ Now \in Orderly /\ Now \in Items /\ Now.do = "drain"
      /\ \A d \in Groups : Now \in Takers(d) => Taken(d)
  BY HeadTakes
<1>2. Now \in DrainItems
  BY <1>1, KindsOfItems DEF DrainItems
<1>3. PICK x \in DrainItems : x = Now
  BY <1>2
<1>4. PICK y \in DrainItems :
        /\ y = [x EXCEPT !.actions = Append(@, a)] /\ y.actions = Append(x.actions, a)
        /\ y.failed = x.failed
  <2>1. /\ [x EXCEPT !.actions = Append(@, a)].actions = Append(x.actions, a)
        /\ [x EXCEPT !.actions = Append(@, a)].failed = x.failed
    BY DEF DrainItems
  <2>2. QED
    BY <2>1, AppendedActions
<1>5. PICK q \in Seq(Actions) : q = x.actions
  BY DEF DrainItems
<1>6. \A k \in DOMAIN y.actions :
        \/ y.actions[k] = a /\ k = Len(q) + 1
        \/ k \in DOMAIN q /\ y.actions[k] = q[k]
  BY <1>4, <1>5
<1>7. x.do = "drain" /\ y.do = "drain" /\ x \in Items /\ y \in Items
  BY DEF DrainItems, Items
<1>8. a.group \in Groups
  BY DEF Actions
<1>9. \A k \in DOMAIN q : q[k].group # a.group
  <2>1. SUFFICES ASSUME NEW k \in DOMAIN q, q[k].group = a.group PROVE FALSE
    OBVIOUS
  <2>2. x \in Takers(a.group)
    BY <1>5, <1>7, <2>1 DEF Takers
  <2>3. QED
    BY <1>1, <1>3, <1>8, <2>2
<1>10. \A k, l \in DOMAIN q : q[k].group = q[l].group => k = l
  BY <1>1, <1>3, <1>5 DEF Orderly
<1>11. \A k, l \in DOMAIN y.actions : y.actions[k].group = y.actions[l].group => k = l
  BY <1>6, <1>9, <1>10
<1>12. \A d \in Groups : y \in Takers(d) => x \in Takers(d) \/ d \in {a.group}
  <2>1. SUFFICES ASSUME NEW d \in Groups, y \in Takers(d), d # a.group PROVE x \in Takers(d)
    OBVIOUS
  <2>2. PICK k \in DOMAIN y.actions : y.actions[k].group = d
    BY <1>7, <2>1 DEF Takers
  <2>3. k \in DOMAIN q /\ q[k].group = d
    BY <1>6, <2>1, <2>2
  <2>4. QED
    BY <1>5, <1>7, <2>3 DEF Takers
<1>13. /\ y = [Now EXCEPT !.actions = Append(@, a)] /\ y.failed = Now.failed
       /\ \A k \in DOMAIN y.actions :
            \/ y.actions[k] = a
            \/ k \in DOMAIN Now.actions /\ y.actions[k] = Now.actions[k]
       /\ \A d \in Groups : y \in Takers(d) => Now \in Takers(d) \/ d \in {a.group}
  BY <1>3, <1>4, <1>5, <1>6, <1>12
<1>14. QED
  BY <1>11, <1>13

LEMMA DrainOnward ==
  ASSUME EngineAssumption, IInv, InOrder, pending = {}, NEW t \in Tasks, DrainTask(t)
  PROVE  Onward
<1>1. PICK g \in Groups : g = GroupOfTask(t) /\ t \in TasksOf(g)
  BY GroupsOfTasks
<1> DEFINE last  == \A u \in TasksOf(g) \ {t} : ~InFlight(u)
           broke == FailedAfter(t) \cap TasksOf(g) # {}
<1>2. PICK a \in Actions :
        a = [group |-> g, start |-> ~services_started[g], cascade |-> g \notin suppress]
  <2>1. (~services_started[g]) \in BOOLEAN /\ (g \notin suppress) \in BOOLEAN
    OBVIOUS
  <2>2. [group |-> g, start |-> ~services_started[g], cascade |-> g \notin suppress] \in Actions
    BY <2>1 DEF Actions
  <2>3. QED
    BY <2>2
<1>3. /\ Doing("drain") /\ run[t] \in {"succeeded", "failed"}
      /\ status' = IF last THEN [status EXCEPT ![g] = IF broke THEN "Failed" ELSE "Ready"]
                   ELSE status
      /\ last /\ broke => todo' = <<[Now EXCEPT !.failed = @ \cup {g}]>> \o Tail(todo)
      /\ last /\ ~broke => todo' = <<[Now EXCEPT !.actions = Append(@, a)]>> \o Tail(todo)
      /\ ~last => todo' = todo
      /\ pending' = pending \ {t}
      /\ run' = [run EXCEPT ![t] = IF t \in pending /\ t \notin unexpandable
                                   THEN "executing" ELSE "idle"]
      /\ UNCHANGED <<waiting, statuses, pending_ready, queued>>
  BY <1>1, <1>2 DEF DrainTask, resolver
<1>4. /\ pending' = pending /\ run'[t] = "idle" /\ \A u \in Tasks \ {t} : run'[u] = run[u]
  <2>1. run \in [Tasks -> {"idle", "executing", "succeeded", "failed"}]
    BY DEF IInv, TypeOK
  <2>2. QED
    BY <1>3, <2>1
<1>5. \A d \in Groups : Working(d)' => Working(d)
  <2>1. \A d \in Groups : TasksOf(d) \subseteq Tasks
    BY DEF Tasks, TasksOf
  <2>2. QED
    BY <1>4, <2>1 DEF Working, InFlight
<1>6. last => ~Working(g)'
  <2>1. TasksOf(g) \subseteq Tasks
    BY DEF Tasks, TasksOf
  <2>2. QED
    BY <1>4, <2>1 DEF Working, InFlight
<1>7. /\ status[g] = "Running" /\ pending_ready[g] = None /\ waiting[g] = {} /\ Cleared(g)
      /\ ~Taken(g) /\ ~HasQueued(g) /\ ~Over(g) /\ ~Broken(g) /\ InOneHand(g)
  <2>1. Working(g)
    BY <1>1, <1>3 DEF Working, InFlight
  <2>2. status[g] = "Running" /\ pending_ready[g] = None
    BY <2>1, HandFacts DEF InOneHand
  <2>3. QED
    BY <2>2, HandFacts, TakenStatus DEF Over, Broken
<1>8. CASE ~last
  <2>1. todo \in Seq(Items) /\ Takes(todo, {d \in Groups : Taken(d)})
    BY OrderlyAreItems DEF InOrder, Takes, Taken
  <2>2. todo' \in Seq(Orderly) /\ Takes(todo', {d \in Groups : Taken(d)})
    BY <1>3, <1>8, <2>1 DEF InOrder
  <2>3. UNCHANGED <<resolver, status, pending_ready, queued, pending>>
    BY <1>3, <1>4, <1>8 DEF resolver
  <2>4. QED
    BY <1>5, <2>2, <2>3, StackOnward
<1>9. ASSUME last, NEW y \in DrainItems, NEW F \in SUBSET {g},
             todo' = <<y>> \o Tail(todo),
             Lone(todo'), Takes(todo', {d \in Groups : Taken(d)} \cup F),
             Advances => y \in Orderly'
      PROVE  Onward
  <2>1. /\ status'[g] \in {"Failed", "Ready"}
        /\ \A d \in Groups \ {g} : status'[d] = status[d]
    <3>1. status' = [status EXCEPT ![g] = IF broke THEN "Failed" ELSE "Ready"]
      BY <1>3, <1>9
    <3>2. QED
      BY <3>1, SetStatus
  <2>2. \A d \in Groups \ {g} : Taken(d)' => Taken(d)
    BY <1>9, StackTakes
  <2>3. Advances /\ Cleared(g)'
    <3>1. May(status[g], status'[g])
      BY <1>7, <2>1 DEF May
    <3>2. QED
      BY <1>3, <1>7, <2>1, <2>2, <3>1, MoverAdvances
  <2>4. todo' \in Seq(Orderly')
    <3>1. Tail(todo) \in Seq(Orderly) /\ Takes(Tail(todo), {d \in Groups : Taken(d)})
      BY <1>3, TailTakes
    <3>2. \A d \in Groups : Has(Tail(todo), Takers(d)) => status'[d] = status[d]
      BY <1>7, <2>1, <3>1 DEF Takes
    <3>3. Tail(todo) \in Seq(Orderly')
      BY <2>3, <3>1, <3>2, OrderStays
    <3>4. <<y>> \in Seq(Orderly')
      BY <1>9, <2>3, Single
    <3>5. QED
      BY <1>9, <3>3, <3>4, Concatenated
  <2>5. InOneHand(g)'
    BY <1>3, <1>6, <1>7, <1>9 DEF InOneHand, HasQueued, None
  <2>6. IsFailedOrSkipped(statuses, g)' => Broken(g)'
    BY <1>3, <1>7 DEF IsFailedOrSkipped, InOrder, Life
  <2>7. \A d \in Groups \ {g} :
           /\ status'[d] = status[d] /\ statuses'[d] = statuses[d]
           /\ queued'[d] = queued[d] /\ pending_ready'[d] = pending_ready[d]
           /\ Taken(d)' => Taken(d)
           /\ Working(d)' => Working(d)
    BY <1>3, <1>5, <2>1, <2>2
  <2>8. InOrder'
    BY <1>3, <1>7, <1>9, <2>1, <2>3, <2>4, <2>5, <2>6, <2>7, MoverInOrder
  <2>9. QED
    BY <1>4, <2>3, <2>8 DEF Onward
<1>10. Now \in Orderly /\ Now \in DrainItems
  <2>1. Now \in Orderly /\ Now \in Items /\ Now.do = "drain"
    BY <1>3, HeadTakes
  <2>2. QED
    BY <2>1, KindsOfItems DEF DrainItems
<1>11. PICK x \in Orderly : x = Now /\ x \in DrainItems /\ x.do = "drain" /\ x \in Items
  BY <1>10 DEF DrainItems, Items
<1>12. Advances => x \in Orderly'
  <2>1. SUFFICES ASSUME Advances PROVE x \in Orderly'
    OBVIOUS
  <2>2. \A d \in Groups : x \in Takers(d) => Taken(d)
    BY <1>3, <1>11, HeadTakes
  <2>3. \A d \in Groups \ {g} : status'[d] = status[d]
    <3>1. status \in [Groups -> GroupStatus]
      BY DEF IInv, TypeOK, StatusMap
    <3>2. QED
      BY <1>3, <3>1
  <2>4. \A d \in Groups : x \in Takers(d) => status'[d] = status[d]
    BY <1>7, <2>2, <2>3
  <2>5. QED
    BY <2>1, <2>4, OrderlyStays
<1>13. CASE last /\ broke
  <2>1. PICK y \in DrainItems :
          /\ y = [Now EXCEPT !.failed = @ \cup {g}] /\ y.failed = (x.failed \cup {g})
          /\ y.actions = x.actions /\ y.do = "drain" /\ y \in Items
    <3>1. /\ [x EXCEPT !.failed = @ \cup {g}] \in DrainItems
          /\ [x EXCEPT !.failed = @ \cup {g}].failed = (x.failed \cup {g})
          /\ [x EXCEPT !.failed = @ \cup {g}].actions = x.actions
      BY <1>11 DEF DrainItems
    <3>2. \A y \in DrainItems : y.do = "drain" /\ y \in Items
      BY DEF DrainItems, Items
    <3>3. QED
      BY <1>11, <3>1, <3>2
  <2>2. todo' = <<y>> \o Tail(todo)
    BY <1>3, <1>13, <2>1
  <2>3. \A d \in Groups : y \in Takers(d) => Now \in Takers(d) \/ d \in {}
    BY <1>11, <2>1 DEF Takers
  <2>4. /\ Lone(<<y>> \o Tail(todo))
        /\ Takes(<<y>> \o Tail(todo), {d \in Groups : Taken(d)} \cup {})
    BY <1>3, <2>3, DrainedTakes
  <2>5. Lone(todo') /\ Takes(todo', {d \in Groups : Taken(d)} \cup {})
    BY <2>2, <2>4
  <2>6. ASSUME Advances PROVE y \in Orderly'
    <3>1. x \in Orderly'
      BY <1>12, <2>6
    <3>2. status'[g] = "Failed"
      <4>1. status' = [status EXCEPT ![g] = "Failed"]
        BY <1>3, <1>13
      <4>2. QED
        BY <4>1, SetStatus
    <3>3. \A k \in DOMAIN y.actions : Due(y.actions[k].group)'
      <4>1. \A k \in DOMAIN x.actions : Due(x.actions[k].group)'
        BY <1>11, <3>1 DEF Orderly
      <4>2. QED
        BY <2>1, <4>1 DEF Due
    <3>4. \A d \in y.failed : status'[d] = "Failed"
      BY <1>11, <2>1, <3>1, <3>2 DEF Orderly
    <3>5. \A k, l \in DOMAIN y.actions : y.actions[k].group = y.actions[l].group => k = l
      BY <1>11, <2>1 DEF Orderly
    <3>6. QED
      BY <2>1, <3>3, <3>4, <3>5 DEF Orderly
  <2>7. {} \in SUBSET {g}
    OBVIOUS
  <2>8. QED
    BY <1>9, <1>13, <2>2, <2>5, <2>6, <2>7
<1>14. CASE last /\ ~broke
  <2>1. a.group = g
    BY <1>2
  <2>2. PICK y \in DrainItems :
          /\ y = [Now EXCEPT !.actions = Append(@, a)] /\ y.failed = Now.failed
          /\ \A k \in DOMAIN y.actions :
               \/ y.actions[k] = a
               \/ k \in DOMAIN Now.actions /\ y.actions[k] = Now.actions[k]
          /\ \A k, l \in DOMAIN y.actions : y.actions[k].group = y.actions[l].group => k = l
          /\ \A d \in Groups : y \in Takers(d) => Now \in Takers(d) \/ d \in {a.group}
    <3>1. Doing("drain") /\ ~Taken(a.group)
      BY <1>3, <1>7, <2>1
    <3>2. QED
      BY <3>1, AppendedTakes
  <2>3. todo' = <<y>> \o Tail(todo)
    BY <1>3, <1>14, <2>2
  <2>4. /\ Lone(<<y>> \o Tail(todo))
        /\ Takes(<<y>> \o Tail(todo), {d \in Groups : Taken(d)} \cup {g})
    <3>1. \A d \in Groups : y \in Takers(d) => Now \in Takers(d) \/ d \in {g}
      BY <2>1, <2>2
    <3>2. QED
      BY <1>3, <1>7, <3>1, DrainedTakes
  <2>5. Lone(todo') /\ Takes(todo', {d \in Groups : Taken(d)} \cup {g})
    BY <2>3, <2>4
  <2>6. ASSUME Advances PROVE y \in Orderly'
    <3>1. x \in Orderly'
      BY <1>12, <2>6
    <3>2. status'[g] = "Ready"
      <4>1. status' = [status EXCEPT ![g] = "Ready"]
        BY <1>3, <1>14
      <4>2. QED
        BY <4>1, SetStatus
    <3>3. y.do = "drain" /\ y \in Items
      BY DEF DrainItems, Items
    <3>4. \A k \in DOMAIN y.actions : Due(y.actions[k].group)'
      <4>1. SUFFICES ASSUME NEW k \in DOMAIN y.actions PROVE Due(y.actions[k].group)'
        OBVIOUS
      <4>2. CASE y.actions[k] = a
        BY <2>1, <3>2, <4>2 DEF Due
      <4>3. CASE k \in DOMAIN x.actions /\ y.actions[k] = x.actions[k]
        <5>1. Due(x.actions[k].group)'
          BY <1>11, <3>1, <4>3 DEF Orderly
        <5>2. QED
          BY <4>3, <5>1 DEF Due
      <4>4. QED
        BY <1>11, <2>2, <4>2, <4>3
    <3>5. \A d \in y.failed : status'[d] = "Failed"
      BY <1>11, <2>2, <3>1 DEF Orderly
    <3>6. QED
      BY <2>2, <3>3, <3>4, <3>5 DEF Orderly
  <2>7. {g} \in SUBSET {g}
    OBVIOUS
  <2>8. QED
    BY <1>9, <1>14, <2>3, <2>5, <2>6, <2>7
<1>15. QED
  BY <1>8, <1>13, <1>14

LEMMA QueuedOnward ==
  ASSUME IInv, InOrder, QueuedHaveServices, NEW g \in Groups, DrainQueued(g)
  PROVE  Onward
<1>1. /\ Doing("drain")
      /\ UNCHANGED <<waiting, statuses, status, pending_ready, run, pending>>
  BY DEF DrainQueued, resolver, groupVars, taskVars
<1>2. PICK kind \in {"start", "restart"} :
        /\ queued[g][kind] > 0 /\ queued' = [queued EXCEPT ![g][kind] = @ - 1]
        /\ LET act == [group |-> g, start |-> kind = "start", cascade |-> TRUE]
           IN  todo' = <<[Now EXCEPT !.actions = Append(@, act)]>> \o Tail(todo)
  BY DEF DrainQueued
<1>3. PICK a \in Actions :
        a.group = g /\ todo' = <<[Now EXCEPT !.actions = Append(@, a)]>> \o Tail(todo)
  <2>1. PICK b \in BOOLEAN : b = (kind = "start")
    OBVIOUS
  <2>2. [group |-> g, start |-> b, cascade |-> TRUE] \in Actions
    BY DEF Actions
  <2>3. todo' = <<[Now EXCEPT !.actions =
                     Append(@, [group |-> g, start |-> b, cascade |-> TRUE])]>> \o Tail(todo)
    BY <1>2, <2>1
  <2>4. QED
    BY <2>2, <2>3
<1>4. /\ queued \in [Groups -> [start : Nat, restart : Nat]]
      /\ queued[g].start \in Nat /\ queued[g].restart \in Nat
      /\ queued[g].start + queued[g].restart <= 1
  <2>1. queued \in [Groups -> [start : Nat, restart : Nat]]
    BY DEF IInv, TypeOK
  <2>2. queued[g].start \in Nat /\ queued[g].restart \in Nat
    BY <2>1
  <2>3. QED
    BY <2>1, <2>2, HandFacts DEF InOneHand
<1>5. HasQueued(g)
  <2>1. CASE kind = "start"
    BY <1>2, <1>4, <2>1 DEF HasQueued
  <2>2. CASE kind = "restart"
    BY <1>2, <1>4, <2>2 DEF HasQueued
  <2>3. QED
    BY <2>1, <2>2
<1>6. /\ status[g] = "Waiting" /\ pending_ready[g] = None /\ waiting[g] = {} /\ Cleared(g)
      /\ ~Taken(g) /\ ~Over(g) /\ ~Broken(g) /\ InOneHand(g) /\ Services[g] # {}
      /\ ~Working(g)
  BY <1>5, HandFacts DEF Over, Broken, QueuedHaveServices
<1>7. /\ \A d \in Groups \ {g} : queued'[d] = queued[d]
      /\ queued'[g].start = 0 /\ queued'[g].restart = 0
      /\ queued'[g] = [start |-> 0, restart |-> 0]
  <2>1. \A d \in Groups \ {g} : queued'[d] = queued[d]
    BY <1>2, <1>4
  <2>2. CASE kind = "start"
    <3>1. queued[g].start = 1 /\ queued[g].restart = 0
      BY <1>2, <1>4, <2>2
    <3>2. queued'[g] = [queued[g] EXCEPT !.start = @ - 1]
      BY <1>2, <1>4, <2>2
    <3>3. queued[g] = [start |-> 1, restart |-> 0]
      BY <1>4, <3>1
    <3>4. [[start |-> 1, restart |-> 0] EXCEPT !.start = @ - 1] = [start |-> 0, restart |-> 0]
      OBVIOUS
    <3>5. QED
      BY <2>1, <3>2, <3>3, <3>4
  <2>3. CASE kind = "restart"
    <3>1. queued[g].start = 0 /\ queued[g].restart = 1
      BY <1>2, <1>4, <2>3
    <3>2. queued'[g] = [queued[g] EXCEPT !.restart = @ - 1]
      BY <1>2, <1>4, <2>3
    <3>3. queued[g] = [start |-> 0, restart |-> 1]
      BY <1>4, <3>1
    <3>4. [[start |-> 0, restart |-> 1] EXCEPT !.restart = @ - 1] = [start |-> 0, restart |-> 0]
      OBVIOUS
    <3>5. QED
      BY <2>1, <3>2, <3>3, <3>4
  <2>4. QED
    BY <2>1, <2>2, <2>3
<1>8. PICK y \in DrainItems :
        /\ y = [Now EXCEPT !.actions = Append(@, a)] /\ y.failed = Now.failed
        /\ \A k \in DOMAIN y.actions :
             \/ y.actions[k] = a
             \/ k \in DOMAIN Now.actions /\ y.actions[k] = Now.actions[k]
        /\ \A k, l \in DOMAIN y.actions : y.actions[k].group = y.actions[l].group => k = l
        /\ \A d \in Groups : y \in Takers(d) => Now \in Takers(d) \/ d \in {a.group}
  <2>1. ~Taken(a.group)
    BY <1>3, <1>6
  <2>2. QED
    BY <1>1, <2>1, AppendedTakes
<1>9. /\ Lone(<<y>> \o Tail(todo))
      /\ Takes(<<y>> \o Tail(todo), {d \in Groups : Taken(d)} \cup {g})
  <2>1. \A d \in Groups : y \in Takers(d) => Now \in Takers(d) \/ d \in {g}
    BY <1>3, <1>8
  <2>2. QED
    BY <1>1, <1>6, <2>1, DrainedTakes
<1>10. todo' = <<y>> \o Tail(todo)
  BY <1>3, <1>8
<1>11. Lone(todo') /\ \A d \in Groups \ {g} : Taken(d)' => Taken(d)
  <2>1. Lone(todo') /\ Takes(todo', {d \in Groups : Taken(d)} \cup {g})
    BY <1>9, <1>10
  <2>2. QED
    BY <2>1, StackTakes
<1>12. Advances /\ Cleared(g)'
  <2>1. May(status[g], status'[g])
    BY <1>1 DEF May
  <2>2. QED
    BY <1>1, <1>6, <1>11, <2>1, MoverAdvances
<1>13. y \in Orderly
  <2>1. PICK x \in Orderly : x = Now /\ x.do = "drain"
    <3>1. Now \in Orderly /\ Now.do = "drain"
      BY <1>1, HeadTakes
    <3>2. QED
      BY <3>1
  <2>2. y.do = "drain" /\ y \in Items
    BY DEF DrainItems, Items
  <2>3. Due(g)
    BY <1>6 DEF Due
  <2>4. \A k \in DOMAIN y.actions : Due(y.actions[k].group)
    BY <1>3, <1>8, <2>1, <2>3 DEF Orderly
  <2>5. \A d \in y.failed : status[d] = "Failed"
    BY <1>8, <2>1 DEF Orderly
  <2>6. QED
    BY <1>8, <2>2, <2>4, <2>5 DEF Orderly
<1>14. todo' \in Seq(Orderly')
  <2>1. Tail(todo) \in Seq(Orderly)
    BY <1>1, TailTakes
  <2>2. <<y>> \in Seq(Orderly)
    BY <1>13, Single
  <2>3. <<y>> \o Tail(todo) \in Seq(Orderly)
    BY <2>1, <2>2, Concatenated
  <2>4. \A d \in Groups : status'[d] = status[d]
    BY <1>1
  <2>5. <<y>> \o Tail(todo) \in Seq(Orderly')
    BY <1>12, <2>3, <2>4, OrderStays
  <2>6. QED
    BY <1>10, <2>5
<1>15. \A d \in Groups : Working(d)' => Working(d)
  BY <1>1, SameWork
<1>16. InOneHand(g)'
  BY <1>1, <1>6, <1>7, <1>15 DEF InOneHand, HasQueued, None
<1>17. IsFailedOrSkipped(statuses, g)' => Broken(g)'
  BY <1>1 DEF IsFailedOrSkipped, InOrder, Life, Broken
<1>18. \A d \in Groups \ {g} :
          /\ status'[d] = status[d] /\ statuses'[d] = statuses[d]
          /\ queued'[d] = queued[d] /\ pending_ready'[d] = pending_ready[d]
          /\ Taken(d)' => Taken(d)
          /\ Working(d)' => Working(d)
  BY <1>1, <1>7, <1>11, <1>15
<1>19. status'[g] # "Skipped"
  BY <1>1, <1>6
<1>20. InOrder'
  BY <1>1, <1>6, <1>11, <1>12, <1>14, <1>16, <1>17, <1>18, <1>19, MoverInOrder
<1>21. QED
  BY <1>1, <1>12, <1>20 DEF Onward

LEMMA DrainEndsOnward ==
  ASSUME InOrder, DrainEnds
  PROVE  Onward
<1>1. /\ Doing("drain")
      /\ UNCHANGED <<resolver, status, pending_ready, queued, run, pending>>
  BY DEF DrainEnds, groupVars, taskVars
<1>2. PICK x \in Orderly : x = Now /\ x \in DrainItems /\ x.do = "drain" /\ x \in Items
  <2>1. Now \in Orderly /\ Now \in Items /\ Now.do = "drain"
    BY <1>1, HeadTakes
  <2>2. QED
    BY <2>1, KindsOfItems DEF DrainItems
<1>3. PICK F \in SUBSET Groups, acts \in Seq(Actions) : F = x.failed /\ acts = x.actions
  BY <1>2 DEF DrainItems
<1> DEFINE f == [i \in DOMAIN acts |-> [do |-> "act", action |-> acts[i]]]
<1>4. todo' = Loop("fail", F) \o f \o Tail(todo)
  BY <1>2, <1>3 DEF DrainEnds
<1>5. Takes(f, {acts[k].group : k \in DOMAIN acts})
  BY <1>2, <1>3, ActsTake DEF Orderly
<1>6. \A k \in DOMAIN acts : acts[k] \in Actions /\ acts[k].group \in Groups
  <2>1. \A k \in DOMAIN acts : acts[k] \in Actions
    BY ElementOfSeq
  <2>2. \A b \in Actions : b.group \in Groups
    BY DEF Actions
  <2>3. QED
    BY <2>1, <2>2
<1>7. {acts[k].group : k \in DOMAIN acts} \subseteq OfHead
  BY <1>2, <1>3, <1>6 DEF OfHead, Takers
<1>8. f \in Seq(Orderly)
  <2>1. DOMAIN acts = 1..Len(acts) /\ Len(acts) \in Nat
    OBVIOUS
  <2>2. ASSUME NEW i \in DOMAIN acts PROVE [do |-> "act", action |-> acts[i]] \in Orderly
    <3> DEFINE y == [do |-> "act", action |-> acts[i]]
    <3>1. y.do = "act" /\ y.action = acts[i] /\ y \in Items
      BY <1>6 DEF Items
    <3>2. Due(acts[i].group)
      BY <1>2, <1>3 DEF Orderly
    <3> HIDE DEF y
    <3>3. y \in Orderly
      BY <3>1, <3>2 DEF Orderly
    <3>4. QED
      BY <3>3 DEF y
  <2>3. f \in [1..Len(acts) -> Orderly]
    BY <2>1, <2>2
  <2> HIDE DEF f
  <2>4. QED
    BY <2>1, <2>3, SeqDef
<1> HIDE DEF f
<1>9. Takes(f, OfHead)
  BY <1>5, <1>7, TakesMore
<1>10. Takes(Loop("fail", F), {}) /\ Loop("fail", F) \in Seq(Orderly)
  <2>1. Takes(Loop("fail", F), IF "fail" = "start" THEN F ELSE {})
    BY LoopTakes DEF LoopKinds
  <2> DEFINE y == [do |-> "fail", groups |-> F]
  <2>2. /\ y.do = "fail" /\ y.groups = F /\ y \in Items
        /\ Loop("fail", F) = IF F = {} THEN <<>> ELSE <<y>>
    BY DEF Items, Loop
  <2> HIDE DEF y
  <2>3. y \in Orderly
    BY <1>2, <1>3, <2>2 DEF Orderly
  <2>4. <<y>> \in Seq(Orderly) /\ <<>> \in Seq(Orderly)
    BY <2>3, Single
  <2>5. QED
    BY <2>1, <2>2, <2>4
<1>11. Takes(Loop("fail", F) \o f, OfHead)
  <2>1. Takes(Loop("fail", F) \o f, {} \cup OfHead)
    BY <1>9, <1>10, TakesBoth
  <2>2. {} \cup OfHead = OfHead
    OBVIOUS
  <2>3. QED
    BY <2>1, <2>2
<1>12. PICK q \in Seq(Orderly) : q = Loop("fail", F) \o f
  BY <1>8, <1>10, Concatenated
<1>13. Takes(q, OfHead) /\ todo' = q \o Tail(todo)
  BY <1>4, <1>11, <1>12
<1>14. QED
  BY <1>1, <1>13, HeadShuffles

LEMMA ActOnward ==
  ASSUME EngineAssumption, InOrder, ActServices \/ ActNothing
  PROVE  Onward
<1>1. /\ Doing("act")
      /\ UNCHANGED <<resolver, status, pending_ready, queued, run, pending>>
  BY DEF ActServices, ActNothing, groupVars, taskVars
<1>2. PICK x \in Orderly : x = Now /\ x.do = "act" /\ x \in Items
  <2>1. Now \in Orderly /\ Now \in Items /\ Now.do = "act"
    BY <1>1, HeadTakes
  <2>2. QED
    BY <2>1
<1>3. PICK a \in Actions : a = x.action
  BY <1>2, KindsOfItems
<1>4. PICK g \in Groups, start \in BOOLEAN, cascade \in BOOLEAN :
        g = a.group /\ start = a.start /\ cascade = a.cascade
  BY DEF Actions
<1>5. x \in Takers(g) /\ Taken(g) /\ Due(g)
  <2>1. x \in Takers(g)
    BY <1>2, <1>3, <1>4 DEF Takers
  <2>2. Taken(g)
    BY <1>1, <1>2, <2>1, HeadTakes
  <2>3. Due(g)
    BY <1>2, <1>3, <1>4 DEF Orderly
  <2>4. QED
    BY <2>1, <2>2, <2>3
<1>6. CASE ActServices
  <2>1. todo' = Serve(g, start, "Later", cascade) \o Tail(todo)
    BY <1>2, <1>3, <1>4, <1>6 DEF ActServices
  <2>2. Takes(Serve(g, start, "Later", cascade), {g})
    BY ServeTakes
  <2>3. {g} \subseteq OfHead
    BY <1>2, <1>5 DEF OfHead
  <2>4. Takes(Serve(g, start, "Later", cascade), OfHead)
    BY <2>2, <2>3, TakesMore
  <2>5. Serve(g, start, "Later", cascade) \in Seq(Orderly)
    <3> DEFINE y == [do |-> "serve", group |-> g, start |-> start, left |-> Services[g],
                     at |-> {}, phase |-> "Later", cascade |-> cascade]
    <3>1. /\ y.do = "serve" /\ y.group = g /\ y \in Items
          /\ Serve(g, start, "Later", cascade) = <<y>>
      BY DEF Items, Serve, AllServices
    <3> HIDE DEF y
    <3>2. y \in Orderly
      BY <1>5, <3>1 DEF Orderly, Due
    <3>3. <<y>> \in Seq(Orderly)
      BY ONLY <3>2, Single
    <3>4. QED
      BY ONLY <3>1, <3>3
  <2>6. PICK q \in Seq(Orderly) : q = Serve(g, start, "Later", cascade)
    BY <2>5
  <2>7. Takes(q, OfHead) /\ todo' = q \o Tail(todo)
    BY <2>1, <2>4, <2>6
  <2>8. QED
    BY <1>1, <2>7, HeadShuffles
<1>7. CASE ActNothing
  <2>1. PICK phase : phase = Phase(g, services_started[g])
    OBVIOUS
  <2>2. /\ Services[g] = {} /\ todo' = Propagate(g, phase, cascade) \o Tail(todo)
    BY <1>2, <1>3, <1>4, <1>7, <2>1 DEF ActNothing
  <2>3. status[g] = "Ready"
    BY <1>5, <2>2 DEF Due
  <2>4. /\ waiting[g] = {} /\ Cleared(g) /\ ~HasQueued(g) /\ ~Over(g) /\ ~Broken(g)
        /\ ~Working(g) /\ pending_ready[g] = None
    BY <1>5, <2>3, HandFacts DEF Broken
  <2>5. phase # "Startup" => Passed(g)
    BY <2>1, <2>4, PhaseIsDue
  <2>6. status'[g] = "Ready" /\ pending_ready'[g] = None
    BY <1>1, <2>3, <2>4
  <2>7. May(status[g], status'[g]) /\ status'[g] \in {"Running", "Ready"}
    BY <2>3, <2>6 DEF May
  <2>8. \A d \in Groups \ {g} : status'[d] = status[d] /\ pending_ready'[d] = pending_ready[d]
    BY <1>1
  <2>9. Taken(g) => Now \in Takers(g)
    BY <1>2, <1>5
  <2>10. Doing("act") /\ UNCHANGED <<waiting, statuses, queued, run, pending>>
    BY <1>1 DEF resolver
  <2>11. QED
    BY <2>2, <2>4, <2>5, <2>6, <2>7, <2>8, <2>9, <2>10, CompletesOnward
<1>8. QED
  BY <1>6, <1>7

-----------------------------------------------------------------------------
(***************************************************************************)
(* The start itself puts every group that depends on another in order.     *)
(***************************************************************************)
LEMMA FirstOnward ==
  ASSUME Fresh, Startup
  PROVE  /\ InOrder' /\ pending' = pending
         /\ \A g \in Groups :
              status'[g] = IF DependsOn[g] = {} THEN "Pending" ELSE "Waiting"
<1> DEFINE late == {g \in Groups : DependsOn[g] # {}}
<1>1. /\ waiting' = [g \in Groups |-> DependsOn[g]]
      /\ statuses' = [g \in Groups |-> IF g \in late THEN "Waiting" ELSE "Pending"]
      /\ status' = [g \in Groups |-> IF g \in late THEN "Waiting" ELSE "Pending"]
      /\ todo' = Exec(Groups \ late, FALSE, TRUE)
  <2> DEFINE unready == [g \in Groups |-> UnreadyDependencies(statuses, g)]
  <2>1. \A g \in Groups : unready[g] = DependsOn[g]
    <3>1. \A g \in Groups : DependsOn[g] \subseteq Groups
      BY DependenciesAreGroups
    <3>2. \A d \in Groups : statuses[d] # "Ready"
      BY DEF Fresh
    <3>3. QED
      BY <3>1, <3>2 DEF UnreadyDependencies, IsReady
  <2>2. unready = [g \in Groups |-> DependsOn[g]]
    BY <2>1
  <2>3. {g \in Groups : unready[g] # {}} = late
    BY <2>1
  <2>4. /\ waiting' = unready
        /\ statuses' = [g \in Groups |-> IF g \in {h \in Groups : unready[h] # {}}
                                         THEN "Waiting" ELSE statuses[g]]
        /\ status' = [g \in Groups |-> IF g \in {h \in Groups : unready[h] # {}}
                                       THEN "Waiting" ELSE status[g]]
        /\ todo' = Exec(Groups \ {h \in Groups : unready[h] # {}}, FALSE, TRUE)
    BY DEF Startup, StartWave
  <2> HIDE DEF unready, late
  <2>5. /\ statuses' = [g \in Groups |-> IF g \in late THEN "Waiting" ELSE statuses[g]]
        /\ status' = [g \in Groups |-> IF g \in late THEN "Waiting" ELSE status[g]]
        /\ todo' = Exec(Groups \ late, FALSE, TRUE)
    BY <2>3, <2>4
  <2>6. \A g \in Groups : statuses[g] = "Pending" /\ status[g] = "Pending"
    BY DEF Fresh
  <2>7. QED
    BY <2>2, <2>4, <2>5, <2>6
<1>2. UNCHANGED <<pending_ready, queued, run, pending>>
  BY DEF Startup, taskVars
<1>3. PICK S \in SUBSET Groups : S = Groups \ late
  OBVIOUS
<1>4. \A g \in S : DependsOn[g] = {} /\ status'[g] = "Pending"
  BY <1>1, <1>3
<1>5. \A g \in Groups \ S : status'[g] = "Waiting"
  BY <1>1, <1>3
<1>6. \A g \in Groups : waiting'[g] = DependsOn[g] /\ ~IsFailedOrSkipped(statuses', g)
  BY <1>1 DEF IsFailedOrSkipped
<1>7. \A g \in Groups \ S : DependsOn[g] # {}
  BY <1>3
<1>8. todo' = Exec(S, FALSE, TRUE)
  BY <1>1, <1>3
<1> HIDE DEF late
<1>9. Takes(todo', S)
  <2>1. Takes(Exec(S, FALSE, TRUE), S)
    BY ExecTakes
  <2>2. QED
    BY <1>8, <2>1
<1>10. todo' \in Seq(Orderly')
  <2>1. CASE S = {}
    <3>1. todo' = <<>>
      BY <1>8, <2>1 DEF Exec
    <3>2. QED
      BY <3>1
  <2>2. CASE S # {}
    <3> DEFINE x == [do |-> "exec", groups |-> S, onChange |-> FALSE, cascade |-> TRUE]
    <3>1. x \in Items /\ x.do = "exec" /\ x.groups = S /\ todo' = <<x>>
      BY <1>8, <2>2 DEF Items, Exec
    <3> HIDE DEF x
    <3>2. x \in Orderly'
      BY <1>4, <3>1 DEF Orderly
    <3>3. QED
      BY <3>1, <3>2, Single
  <2>3. QED
    BY <2>1, <2>2
<1>11. Lone(todo') /\ \A g \in Groups : Taken(g)' => g \in S
  BY <1>9 DEF Takes, Taken
<1>12. ASSUME NEW g \in Groups PROVE Life(g)'
  <2>1. /\ ~Working(g)' /\ pending_ready'[g] = None
        /\ queued'[g] = [start |-> 0, restart |-> 0]
    BY <1>2 DEF Fresh, Working, InFlight
  <2>2. InOneHand(g)'
    <3>1. ~HasQueued(g)'
      BY <2>1 DEF HasQueued
    <3>2. queued'[g].start + queued'[g].restart <= 1
      BY <2>1
    <3>3. pending_ready'[g].phase # "Runtime"
      BY <2>1 DEF None
    <3>4. QED
      BY <2>1, <3>1, <3>2, <3>3 DEF InOneHand
  <2>3. ~HasQueued(g)'
    BY <2>1 DEF HasQueued
  <2>4. status'[g] \in {"Pending", "Waiting"} /\ (waiting'[g] # {} => g \notin S)
    BY <1>4, <1>5, <1>6
  <2>5. waiting'[g] # {} => status'[g] = "Waiting" /\ ~Taken(g)' /\ ~HasQueued(g)'
    BY <1>5, <1>11, <2>3, <2>4
  <2>6. Taken(g)' => Cleared(g)'
    BY <1>4, <1>11 DEF Cleared
  <2>7. QED
    BY <1>6, <2>2, <2>3, <2>4, <2>5, <2>6 DEF Life
<1>13. QED
  BY <1>2, <1>4, <1>5, <1>7, <1>10, <1>11, <1>12 DEF InOrder, Lone

(***************************************************************************)
(* The turns of the loop, and the processes around it.                     *)
(***************************************************************************)
LEMMA StackUntouched ==
  ASSUME InOrder
  PROVE  todo \in Seq(Orderly) /\ Takes(todo, {d \in Groups : Taken(d)})
<1>1. todo \in Seq(Items)
  BY OrderlyAreItems DEF InOrder
<1>2. QED
  BY <1>1 DEF InOrder, Takes, Taken

LEMMA LoopOnward ==
  ASSUME InOrder, IdleIsIdle, Finish \/ Poll \/ NoChange
  PROVE  Onward
<1>1. UNCHANGED <<resolver, status, pending_ready, queued, run, pending>>
  BY DEF Finish, Poll, NoChange, groupVars, taskVars
<1>2. CASE Finish
  <2>1. todo' \in Seq(Orderly) /\ Takes(todo', {d \in Groups : Taken(d)})
    BY <1>2, StackUntouched DEF Finish
  <2>2. QED
    BY <1>1, <2>1, SameWork, StackOnward
<1>3. CASE NoChange
  <2>1. Doing("watch") /\ todo' = Tail(todo)
    BY <1>3 DEF NoChange
  <2>2. QED
    BY <1>1, <2>1, TailOnward
<1>4. CASE Poll
  <2>1. Drain \in Seq(Orderly) /\ Takes(Drain, {})
    <3> DEFINE x == [do |-> "drain", failed |-> {}, actions |-> <<>>]
    <3>1. /\ x \in Items /\ x.do = "drain" /\ x.failed = {} /\ x.actions = <<>>
          /\ Drain = <<x>>
      BY DEF Items, Drain
    <3> HIDE DEF x
    <3>2. x \in Orderly /\ \A d \in Groups : x \notin Takers(d)
      BY <3>1 DEF Orderly, Takers
    <3>3. QED
      BY <3>1, <3>2, Single, TakesOne
  <2>2. Simple("watch") \in Seq(Orderly) /\ Takes(Simple("watch"), {})
    <3> DEFINE x == [do |-> "watch"]
    <3>1. x \in Items /\ x.do = "watch" /\ Simple("watch") = <<x>>
      BY DEF Items, Simple
    <3> HIDE DEF x
    <3>2. x \in Orderly /\ \A d \in Groups : x \notin Takers(d)
      BY <3>1 DEF Orderly, Takers
    <3>3. QED
      BY <3>1, <3>2, Single, TakesOne
  <2>3. Check \in Seq(Orderly) /\ Takes(Check, {})
    <3>1. PICK S \in SUBSET Groups : Check = Loop("check", S)
      BY DEF Check
    <3>2. Takes(Loop("check", S), IF "check" = "start" THEN S ELSE {})
      BY LoopTakes DEF LoopKinds
    <3>3. Loop("check", S) \in Seq(Orderly)
      <4>1. CASE S = {}
        BY <4>1 DEF Loop
      <4>2. CASE S # {}
        <5> DEFINE x == [do |-> "check", groups |-> S]
        <5>1. x \in Items /\ x.do = "check" /\ Loop("check", S) = <<x>>
          BY <4>2 DEF Items, Loop
        <5> HIDE DEF x
        <5>2. x \in Orderly
          BY <5>1 DEF Orderly
        <5>3. QED
          BY <5>1, <5>2, Single
      <4>3. QED
        BY <4>1, <4>2
    <3>4. QED
      BY <3>1, <3>2, <3>3
  <2>4. PICK q \in Seq(Orderly), r \in Seq(Orderly), s \in Seq(Orderly) :
          /\ q = Drain /\ r = Simple("watch") /\ s = Check
          /\ Takes(q, {}) /\ Takes(r, {}) /\ Takes(s, {})
    BY <2>1, <2>2, <2>3
  <2>5. todo' \in {q, q \o r \o s}
    BY <1>4, <2>4 DEF Poll
  <2>6. q \o r \in Seq(Orderly) /\ q \o r \o s \in Seq(Orderly)
    BY Concatenated
  <2>7. Takes(q \o r, {}) /\ Takes(q \o r \o s, {})
    <3>1. Takes(q \o r, {} \cup {})
      BY <2>4, TakesBoth
    <3>2. Takes(q \o r, {})
      BY <3>1
    <3>3. PICK p : p = q \o r /\ Takes(p, {})
      BY <3>2
    <3>4. Takes(p \o s, {} \cup {})
      BY <2>4, <3>3, TakesBoth
    <3>5. QED
      BY <3>2, <3>3, <3>4
  <2>8. todo' \in Seq(Orderly) /\ Takes(todo', {})
    BY <2>4, <2>5, <2>6, <2>7
  <2>9. Takes(todo', {d \in Groups : Taken(d)})
    BY <2>8, TakesMore
  <2>10. QED
    BY <1>1, <2>8, <2>9, SameWork, StackOnward
<1>5. QED
  BY <1>2, <1>3, <1>4

\* a process that ends is in flight until its completion is drained
LEMMA WorldWork ==
  ASSUME IInv, World \/ UNCHANGED vars
  PROVE  \A d \in Groups : Working(d)' => Working(d)
<1>1. \A d \in Groups : TasksOf(d) \subseteq Tasks
  BY DEF Tasks, TasksOf
<1>2. run \in [Tasks -> {"idle", "executing", "succeeded", "failed"}]
  BY DEF IInv, TypeOK
<1>3. CASE UNCHANGED run
  BY <1>3 DEF Working, InFlight
<1>4. ASSUME NEW t \in Tasks, NEW ok \in BOOLEAN, TaskEnds(t, ok)
      PROVE  \A d \in Groups : Working(d)' => Working(d)
  <2>1. /\ run' = [run EXCEPT ![t] = IF ok THEN "succeeded" ELSE "failed"]
        /\ run[t] = "executing"
    BY <1>4 DEF TaskEnds
  <2>2. \A u \in Tasks : InFlight(u)' => InFlight(u)
    BY <1>2, <2>1 DEF InFlight
  <2>3. QED
    BY <1>1, <2>2 DEF Working
<1>5. QED
  BY <1>3, <1>4 DEF World, ServiceExits, taskVars, vars

LEMMA WorldOnward ==
  ASSUME IInv, InOrder, World \/ UNCHANGED vars
  PROVE  Onward
<1>1. UNCHANGED <<resolver, status, pending_ready, queued, pending, todo>>
  BY DEF World, TaskEnds, ServiceExits, groupVars, taskVars, vars
<1>2. \A d \in Groups : Working(d)' => Working(d)
  BY WorldWork
<1>3. todo' \in Seq(Orderly) /\ Takes(todo', {d \in Groups : Taken(d)})
  BY <1>1, StackUntouched
<1>4. QED
  BY <1>1, <1>2, <1>3, StackOnward

(***************************************************************************)
(* Nobody disputes the first start, and no process refuses to start.       *)
(***************************************************************************)
LEMMA NobodyDisputes ==
  ASSUME FirstStart, Undisputed
  PROVE  /\ ~Request /\ ~ServeFails /\ ~RespawnFails
         /\ \A affected : ~Change(affected)
<1>1. \A kind : ~TakeRequest(kind)
  BY DEF TakeRequest, FirstStart
<1>2. ~Request
  BY <1>1 DEF Request, StatusRequest, RestartAll, RestartGroup, RestartTask, RestartService,
     ReloadConfig
<1>3. ~ServeFails /\ ~RespawnFails
  BY DEF ServeFails, RespawnFails, FirstStart
<1>4. \A affected : ~Change(affected)
  BY DEF Change, Undisputed
<1>5. QED
  BY <1>2, <1>3, <1>4

LEMMA StepsOnward ==
  ASSUME EngineAssumption, FirstStart, IInv, Ledger, Undisputed, InOrder, job # "new",
         [Next]_vars
  PROVE  Onward
<1>0. /\ EntriesAreDependencies /\ QueuedHaveServices /\ IdleIsIdle /\ pending = {}
      /\ ~Request /\ ~ServeFails /\ ~RespawnFails /\ \A affected : ~Change(affected)
  BY NobodyDisputes DEF Ledger, Undisputed
<1>1. CASE EngineStep
  <2>1. CASE Startup
    BY <2>1 DEF Startup
  <2>2. CASE Finish \/ Poll \/ NoChange
    BY <1>0, <2>2, LoopOnward
  <2>3. CASE \E g \in Groups : ExecTasks(g) \/ ExecNothing(g) \/ ExecServices(g)
    BY <2>3, ExecOnward
  <2>4. CASE \E s \in AllServices :
              \/ ServeSignal(s) \/ ServeBegin(s) \/ ServeStart(s) \/ ServeSkips(s)
    BY <2>4, ServeOnward
  <2>5. CASE ServeDone
    BY <2>5, ServeDoneOnward
  <2>6. CASE \E g \in Groups : Trigger(g)
    BY <2>6, TriggerOnward
  <2>7. CASE \E g \in Groups :
               StartWaitingTasks(g) \/ StartWaitingNothing(g) \/ QueueServiceAction(g)
    BY <2>7, StartWaitingOnward
  <2>8. CASE Skip \/ \E g \in Groups : Fail(g)
    BY <1>0, <2>8, SkipOnward, FailOnward
  <2>9. CASE \E g \in Groups : CascadeTasks(g) \/ CascadeServices(g) \/ CascadeNothing(g)
    BY <2>9, CascadeOnward
  <2>10. CASE \E t \in Tasks : DrainTask(t)
    BY <1>0, <2>10, DrainOnward
  <2>11. CASE \E g \in Groups : DrainQueued(g)
    BY <1>0, <2>11, QueuedOnward
  <2>12. CASE DrainEnds \/ ActServices \/ ActNothing
    BY <2>12, DrainEndsOnward, ActOnward
  <2>13. CASE \E g \in Groups : CheckGroup(g)
    BY <2>13, CheckOnward
  <2>14. CASE \E s \in AllServices :
                \/ RespawnDue(s) \/ RespawnDropped(s) \/ Respawn(s) \/ RespawnLater(s)
                \/ NoticeExit(s) \/ NothingToDo(s)
                \/ \E passed \in BOOLEAN : ReadinessAnswers(s, passed)
    BY <2>14, SuperviseOnward
  <2>15. CASE GroupLooked \/ SettleReady \/ SettleFailed
    BY <1>0, <2>15, LookedOnward, SettleReadyOnward, SettleFailedOnward
  <2>16. QED
    BY <1>0, <1>1, <2>1, <2>2, <2>3, <2>4, <2>5, <2>6, <2>7, <2>8, <2>9, <2>10, <2>11, <2>12,
       <2>13, <2>14, <2>15 DEF EngineStep
<1>2. CASE World \/ UNCHANGED vars
  BY <1>2, WorldOnward
<1>3. QED
  BY <1>0, <1>1, <1>2 DEF Next, Done

(***************************************************************************)
(* The bounds on changes stay used up, and nothing is new again.           *)
(***************************************************************************)
LEMMA BudgetStays ==
  ASSUME FirstStart, IInv, Undisputed, [Next]_vars
  PROVE  budget'.changes = 0 /\ (job # "new" => job' # "new")
<1>1. budget \in [{"failures", "changes", "requests", "exits"} -> Nat] /\ budget.changes = 0
  BY DEF IInv, TypeOK, Undisputed
<1>2. CASE World
  <2>1. \/ budget' = budget
        \/ budget' = [budget EXCEPT !.failures = @ - 1]
        \/ budget' = [budget EXCEPT !.exits = @ - 1]
    BY <1>2 DEF World, TaskEnds, ServiceExits
  <2>2. job' = job
    BY <1>2 DEF World, TaskEnds, ServiceExits
  <2>3. QED
    BY <1>1, <2>1, <2>2
<1>3. CASE EngineStep
  <2>1. /\ \A affected : ~Change(affected)
        /\ ~ServeFails /\ ~RespawnFails
    BY NobodyDisputes
  <2>2. budget' = budget
    BY <1>3, <2>1 DEF EngineStep, Startup, Finish, Poll, ServeDone, Skip, DrainEnds,
       ActServices, ActNothing, NoChange, GroupLooked, SettleReady, SettleFailed, ExecTasks,
       ExecNothing, ExecServices, Trigger, StartWaitingTasks, StartWaitingNothing,
       QueueServiceAction, Fail, CascadeTasks, CascadeServices, CascadeNothing, DrainQueued,
       CheckGroup, DrainTask, ServeSignal, ServeBegin, ServeStart, ServeSkips, RespawnDue,
       RespawnDropped, Respawn, RespawnLater, NoticeExit, NothingToDo, ReadinessAnswers
  <2>3. job' = job \/ job' # "new"
    BY <1>3, <2>1 DEF EngineStep, Startup, Finish, Poll, ServeDone, Skip, DrainEnds,
       ActServices, ActNothing, NoChange, GroupLooked, SettleReady, SettleFailed, ExecTasks,
       ExecNothing, ExecServices, Trigger, StartWaitingTasks, StartWaitingNothing,
       QueueServiceAction, Fail, CascadeTasks, CascadeServices, CascadeNothing, DrainQueued,
       CheckGroup, DrainTask, ServeSignal, ServeBegin, ServeStart, ServeSkips, RespawnDue,
       RespawnDropped, Respawn, RespawnLater, NoticeExit, NothingToDo, ReadinessAnswers
  <2>4. QED
    BY <1>1, <2>2, <2>3
<1>4. CASE UNCHANGED vars
  BY <1>1, <1>4 DEF vars
<1>5. QED
  BY <1>2, <1>3, <1>4, NobodyDisputes DEF Next, Done

LEMMA FreshStays ==
  ASSUME FirstStart, IInv, Undisputed, Fresh, job = "new", [Next]_vars
  PROVE  \/ Startup
         \/ Fresh' /\ UNCHANGED <<job, status, todo, pending>>
<1>1. todo = <<>> /\ \A kind : ~Doing(kind)
  BY DEF Fresh, Doing
<1>2. CASE EngineStep
  <2>1. Startup
    BY <1>1, <1>2 DEF EngineStep, Finish, Poll, ServeDone, ServeFails, Skip, DrainEnds,
       ActServices, ActNothing, NoChange, RespawnFails, GroupLooked, SettleReady,
       SettleFailed, ExecTasks, ExecNothing, ExecServices, Trigger, StartWaitingTasks,
       StartWaitingNothing, QueueServiceAction, Fail, CascadeTasks, CascadeServices,
       CascadeNothing, DrainQueued, CheckGroup, DrainTask, ServeSignal, ServeBegin,
       ServeStart, ServeSkips, RespawnDue, RespawnDropped, Respawn, RespawnLater, NoticeExit,
       NothingToDo, ReadinessAnswers, Change, Looking
  <2>2. QED
    BY <2>1
<1>3. CASE World \/ UNCHANGED vars
  <2>1. UNCHANGED <<waiting, statuses, status, pending_ready, queued, pending, todo, job>>
    BY <1>3 DEF World, TaskEnds, ServiceExits, groupVars, taskVars, vars, resolver
  <2>2. \A d \in Groups : Working(d)' => Working(d)
    BY <1>3, WorldWork
  <2>3. QED
    BY <2>1, <2>2 DEF Fresh
<1>4. QED
  BY <1>2, <1>3, NobodyDisputes DEF Next, Done

LEMMA CourseStays ==
  ASSUME EngineAssumption, FirstStart, IInv, Ledger, Course, [Next]_vars
  PROVE  Course'
<1>1. Undisputed
  BY DEF Course
<1>2. budget'.changes = 0 /\ (job # "new" => job' # "new")
  BY <1>1, BudgetStays
<1>3. CASE job = "new"
  <2>1. Fresh
    BY <1>3 DEF Course
  <2>2. CASE Startup
    <3>1. InOrder' /\ pending' = pending
      BY <2>1, <2>2, FirstOnward
    <3>2. job' = "startup"
      BY <2>2 DEF Startup
    <3>3. QED
      BY <1>1, <1>2, <3>1, <3>2 DEF Course, Undisputed
  <2>3. CASE Fresh' /\ UNCHANGED <<job, status, todo, pending>>
    BY <1>1, <1>2, <1>3, <2>3 DEF Course, Undisputed
  <2>4. QED
    BY <1>1, <1>3, <2>1, <2>2, <2>3, FreshStays
<1>4. CASE job # "new"
  <2>1. InOrder
    BY <1>4 DEF Course
  <2>2. Onward
    BY <1>1, <1>4, <2>1, StepsOnward
  <2>3. QED
    BY <1>1, <1>2, <1>4, <2>2 DEF Course, Undisputed, Onward
<1>5. QED
  BY <1>3, <1>4

LEMMA CourseAtFirst == FirstStart /\ Init => Course
<1>1. SUFFICES ASSUME FirstStart, Init PROVE Course
  OBVIOUS
<1>2. \A g \in Groups : TasksOf(g) \subseteq Tasks
  BY DEF Tasks, TasksOf
<1>3. \A g \in Groups : ~Working(g)
  BY <1>1, <1>2 DEF Init, Working, InFlight
<1>4. Undisputed
  BY <1>1 DEF Init, Undisputed, FirstStart
<1>5. Fresh /\ job = "new"
  BY <1>1, <1>3 DEF Init, Fresh
<1>6. QED
  BY <1>4, <1>5 DEF Course

-----------------------------------------------------------------------------
(***************************************************************************)
(* A group in somebody's hand while it is called Ready has its services    *)
(* still to come.                                                          *)
(***************************************************************************)
Displayed(g) ==
  /\ status[g] = "Pending" =>
       StartupStatus(g) = IF DependsOn[g] = {} THEN "Running" ELSE "Waiting"
  /\ status[g] = "Ready" => StartupStatus(g) = IF Over(g) THEN "Ready" ELSE "Running"
  /\ status[g] \notin {"Pending", "Ready"} => StartupStatus(g) = status[g]

LEMMA TakenIsUnderway ==
  ASSUME InOrder, NEW g \in Groups, status[g] = "Ready"
  PROVE  Underway(g) <=> Taken(g)
<1>1. todo \in Seq(Orderly)
  BY DEF InOrder
<1>2. ASSUME NEW i \in DOMAIN todo
      PROVE  todo[i] \in Takers(g) <=>
               \/ todo[i].do = "act" /\ todo[i].action.group = g
               \/ todo[i].do = "serve" /\ todo[i].group = g
               \/ todo[i].do = "drain" /\ \E k \in DOMAIN todo[i].actions :
                                            todo[i].actions[k].group = g
  <2>1. PICK x \in Orderly : x = todo[i]
    BY <1>1, ElementOfSeq
  <2>2. x \in Items /\ ~(x.do \in {"exec", "start"} /\ g \in x.groups)
    BY DEF Orderly
  <2>3. x \in Takers(g) <=>
          \/ x.do = "act" /\ x.action.group = g
          \/ x.do = "serve" /\ x.group = g
          \/ x.do = "drain" /\ \E k \in DOMAIN x.actions : x.actions[k].group = g
    BY <2>2 DEF Takers
  <2>4. QED
    BY <2>1, <2>3
<1>3. QED
  BY <1>2 DEF Underway, Taken, Has

LEMMA StatusIsDisplayed == InOrder => \A g \in Groups : Displayed(g)
<1>1. SUFFICES ASSUME InOrder, NEW g \in Groups PROVE Displayed(g)
  OBVIOUS
<1>2. status[g] = "Ready" => StartupStatus(g) = IF Over(g) THEN "Ready" ELSE "Running"
  BY <1>1, TakenIsUnderway DEF StartupStatus, Over
<1>3. QED
  BY <1>2 DEF Displayed, StartupStatus

\* the groups of the abstract start
Shown == [g \in Groups |-> StartupStatus(g)]

LEMMA GroupIsOrdered ==
  ASSUME InOrder, InOrder', Advances, NEW g \in Groups,
         \A d \in Groups : Displayed(d) /\ Displayed(d)'
  PROVE  \/ StartupStatus(g)' = StartupStatus(g)
         \/ /\ StartupStatus(g) = "Waiting" /\ StartupStatus(g)' \in {"Running", "Ready"}
            /\ \A d \in DependsOn[g] : StartupStatus(d)' = "Ready"
         \/ StartupStatus(g) = "Running" /\ StartupStatus(g)' \in {"Ready", "Failed"}
         \/ /\ StartupStatus(g) = "Waiting" /\ StartupStatus(g)' = "Skipped"
            /\ \E d \in DependsOn[g] : StartupStatus(d)' \in {"Failed", "Skipped"}
<1>1. DependsOn[g] \subseteq Groups
  BY DependenciesAreGroups
<1>2. /\ May(status[g], status'[g]) /\ (Over(g) => Over(g)')
      /\ Life(g)' /\ Displayed(g) /\ Displayed(g)'
  BY DEF Advances, InOrder
<1>3. Cleared(g)' => \A d \in DependsOn[g] : StartupStatus(d)' = "Ready"
  <2>1. \A d \in Groups : Over(d)' => StartupStatus(d)' = "Ready"
    BY DEF Displayed, Over
  <2>2. QED
    BY <1>1, <2>1 DEF Cleared
<1>4. Behind(g)' => \E d \in DependsOn[g] : StartupStatus(d)' \in {"Failed", "Skipped"}
  <2>1. \A d \in Groups : Broken(d)' => StartupStatus(d)' \in {"Failed", "Skipped"}
    BY DEF Displayed, Broken
  <2>2. QED
    BY <1>1, <2>1 DEF Behind
<1>5. /\ status'[g] = "Ready" => StartupStatus(g)' \in {"Ready", "Running"}
      /\ status'[g] = "Running" => StartupStatus(g)' = "Running"
      /\ status'[g] = "Failed" => StartupStatus(g)' = "Failed"
      /\ status'[g] = "Skipped" => StartupStatus(g)' = "Skipped"
      /\ Over(g)' => StartupStatus(g)' = "Ready"
  BY <1>2 DEF Displayed, Over
<1>6. /\ status'[g] \in {"Running", "Ready"} => Cleared(g)'
      /\ status'[g] = "Skipped" => Behind(g)'
  BY <1>2 DEF Life
<1>7. CASE status[g] = "Pending" /\ status'[g] # "Pending"
  <2>1. status'[g] \in {"Running", "Ready"} /\ StartupStatus(g) \in {"Running", "Waiting"}
    BY <1>2, <1>7 DEF May, Displayed
  <2>2. QED
    BY <1>3, <1>5, <1>6, <2>1
<1>8. CASE status[g] = "Waiting" /\ status'[g] # "Waiting"
  <2>1. status'[g] \in {"Running", "Ready", "Skipped"} /\ StartupStatus(g) = "Waiting"
    BY <1>2, <1>8 DEF May, Displayed
  <2>2. QED
    BY <1>3, <1>4, <1>5, <1>6, <2>1
<1>9. CASE status[g] = "Running" /\ status'[g] # "Running"
  <2>1. status'[g] \in {"Ready", "Failed"} /\ StartupStatus(g) = "Running"
    BY <1>2, <1>9 DEF May, Displayed
  <2>2. QED
    BY <1>5, <2>1
<1>10. CASE status[g] = "Ready"
  <2>1. status'[g] \in {"Ready", "Running"}
    BY <1>2, <1>10 DEF May
  <2>2. CASE Over(g)
    BY <1>2, <1>5, <1>10, <2>2 DEF Displayed
  <2>3. CASE ~Over(g)
    <3>1. StartupStatus(g) = "Running"
      BY <1>2, <1>10, <2>3 DEF Displayed
    <3>2. QED
      BY <1>5, <2>1, <3>1
  <2>4. QED
    BY <2>2, <2>3
<1>11. CASE status'[g] = status[g] /\ status[g] # "Ready"
  BY <1>2, <1>11 DEF Displayed
<1>12. QED
  BY <1>2, <1>7, <1>8, <1>9, <1>10, <1>11 DEF May

LEMMA StepIsOrdered ==
  ASSUME TypeOK', InOrder, InOrder', Advances,
         \A d \in Groups : Displayed(d) /\ Displayed(d)'
  PROVE  Ordered!Next
<1>1. Shown' \in Ordered!StatusMap
  <2>1. \A g \in Groups : status'[g] \in GroupStatus
    BY DEF TypeOK, StatusMap
  <2>2. \A g \in Groups : StartupStatus(g)' \in GroupStatus
    BY <2>1 DEF Displayed, GroupStatus
  <2>3. QED
    BY <2>2 DEF Shown, Ordered!StatusMap, Ordered!GroupStatus, GroupStatus
<1>2. ASSUME NEW g \in Groups
      PROVE  Ordered!Stay(g) \/ Ordered!Start(g) \/ Ordered!Settle(g) \/ Ordered!Skip(g)
  <2>1. \A d \in DependsOn[g] : Shown'[d] = StartupStatus(d)'
    BY DependenciesAreGroups DEF Shown
  <2>2. Shown[g] = StartupStatus(g) /\ Shown'[g] = StartupStatus(g)'
    BY DEF Shown
  <2>3. \/ Shown'[g] = Shown[g]
        \/ /\ Shown[g] = "Waiting" /\ Shown'[g] \in {"Running", "Ready"}
           /\ \A d \in DependsOn[g] : Shown'[d] = "Ready"
        \/ Shown[g] = "Running" /\ Shown'[g] \in {"Ready", "Failed"}
        \/ /\ Shown[g] = "Waiting" /\ Shown'[g] = "Skipped"
           /\ \E d \in DependsOn[g] : Shown'[d] \in {"Failed", "Skipped"}
    BY <2>1, <2>2, GroupIsOrdered
  <2>4. QED
    BY <2>3 DEF Shown, Ordered!Stay, Ordered!Start, Ordered!Settle, Ordered!Skip,
       Ordered!MayStart, Ordered!MustSkip
<1>3. QED
  BY <1>1, <1>2 DEF Shown, Ordered!Next

LEMMA FreshIsOrdered ==
  ASSUME FirstStart, IInv, Undisputed, Fresh, job = "new", [Next]_vars
  PROVE  UNCHANGED Shown
<1>1. CASE Startup
  <2>1. /\ \A g \in Groups : status[g] = "Pending"
        /\ \A g \in Groups : status'[g] = IF DependsOn[g] = {} THEN "Pending" ELSE "Waiting"
    BY <1>1, FirstOnward DEF Fresh
  <2>2. \A g \in Groups : StartupStatus(g)' = StartupStatus(g)
    BY <2>1 DEF StartupStatus
  <2>3. QED
    BY <2>2 DEF Shown
<1>2. CASE UNCHANGED <<status, todo>>
  BY <1>2 DEF Shown, StartupStatus, Underway
<1>3. QED
  BY <1>1, <1>2, FreshStays

(***************************************************************************)
(* The inductive invariant of the first start: the books of the engine,    *)
(* and that a group is in one hand at a time, in nobody's before           *)
(* everything it depends on is over.                                       *)
(***************************************************************************)
THEOREM CourseInvariant == FirstStart => (Spec => [](Ledger /\ Course))
<1> SUFFICES ASSUME FirstStart PROVE Spec => [](Ledger /\ Course)
  OBVIOUS
<1>1. Init => Ledger /\ Course
  BY LedgerAtFirst, CourseAtFirst
<1>2. IInv /\ (Ledger /\ Course) /\ [Next]_vars => (Ledger /\ Course)'
  <2>1. SUFFICES ASSUME IInv, Ledger, Course, [Next]_vars PROVE (Ledger /\ Course)'
    OBVIOUS
  <2>2. ~ServeFails
    BY DEF ServeFails, FirstStart
  <2>3. QED
    BY <2>1, <2>2, LedgerStays, CourseStays, EngineAssumption
<1>3. QED
  BY <1>1, <1>2, EngineInvariant, PTL DEF Spec

(***************************************************************************)
(* The first start of all groups is an ordered one, whatever fails and     *)
(* exits in its course: no group starts before everything it depends on is *)
(* Ready, tasks and services, none is skipped but behind a failure, and no *)
(* status changes in any other way.                                        *)
(***************************************************************************)
THEOREM StartIsOrdered == FirstStart => (Spec => OrderedStartSpec)
<1> SUFFICES ASSUME FirstStart PROVE Spec => OrderedStartSpec
  OBVIOUS
<1>1. Init => Ordered!Init
  <2>1. SUFFICES ASSUME Init PROVE Ordered!Init
    OBVIOUS
  <2>2. \A g \in Groups :
          StartupStatus(g) = IF DependsOn[g] = {} THEN "Running" ELSE "Waiting"
    BY <2>1 DEF Init, StartupStatus
  <2>3. QED
    BY <2>2 DEF Ordered!Init
<1>2. InOrder => \A g \in Groups : Displayed(g)
  BY StatusIsDisplayed
<1>3. (InOrder => \A g \in Groups : Displayed(g))'
  BY <1>2, PTL
<1>4. IInv /\ IInv' /\ (Ledger /\ Course) /\ [Next]_vars =>
        [Ordered!Next]_([g \in Groups |-> StartupStatus(g)])
  <2>1. SUFFICES ASSUME IInv, IInv', Ledger, Course, [Next]_vars
                 PROVE  Ordered!Next \/ UNCHANGED Shown
    BY DEF Shown
  <2>2. Undisputed
    BY <2>1 DEF Course
  <2>3. CASE job = "new"
    BY <2>1, <2>2, <2>3, FreshIsOrdered DEF Course
  <2>4. CASE job # "new"
    <3>1. InOrder
      BY <2>1, <2>4 DEF Course
    <3>2. InOrder' /\ Advances
      BY <2>1, <2>2, <2>4, <3>1, StepsOnward, EngineAssumption DEF Onward
    <3>3. \A d \in Groups : Displayed(d) /\ Displayed(d)'
      BY <1>2, <1>3, <3>1, <3>2
    <3>4. TypeOK'
      BY <2>1 DEF IInv
    <3>5. QED
      BY <3>1, <3>2, <3>3, <3>4, StepIsOrdered
  <2>5. QED
    BY <2>3, <2>4
<1>5. QED
  BY <1>1, <1>4, CourseInvariant, EngineInvariant, PTL DEF Spec, OrderedStartSpec, Ordered!Spec
=============================================================================
