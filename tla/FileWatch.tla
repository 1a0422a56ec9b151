------------------------------- MODULE FileWatch -------------------------------
(***************************************************************************)
(* File changes on their way to the groups: the watcher's queue, its batch *)
(* and debounce window (src/crates/zaz-watch), and what Engine::poll and   *)
(* handle_changes in src/crates/zaz-daemon/src/engine.rs do with a batch   *)
(* that is ready, up to the groups they run.  What running one means is in *)
(* module Engine, where a change is one action.                            *)
(*                                                                         *)
(* Queue and batch are sets: the batch keeps one event for a path, and     *)
(* nothing downstream looks at its kind.  A pattern is the set of paths it *)
(* matches.                                                                *)
(***************************************************************************)
EXTENDS Naturals, FiniteSets

CONSTANTS
  Groups, Paths,
  Configs,         \* what zaz.toml may say: include, ignore, depends, debounce in ticks
  DefaultIgnored,  \* paths that default_ignores() covers
  Unhurried,       \* groups whose start waits for a delay or a hook
  MaxWindow,       \* the longest debounce
  MaxWrites,       \* bound: file events
  MaxReloads,      \* bound: reloads
  None

\* The loader accepts no cycle: module ConfigGraph shows what that comes to.
ASSUME WatchAssumption ==
  /\ {MaxWindow, MaxWrites, MaxReloads} \subseteq Nat /\ None \notin Nat
  /\ Unhurried \subseteq Groups /\ DefaultIgnored \subseteq Paths
  /\ \A c \in Configs : /\ {c.include, c.ignore} \subseteq [Groups -> SUBSET Paths]
                        /\ c.depends \in [Groups -> SUBSET Groups]
                        /\ c.debounce \in 0..MaxWindow
                        /\ \A S \in SUBSET Groups \ {{}} :
                             \E g \in S : c.depends[g] \cap S = {}

VARIABLES
  config,   \* the configuration in force
  window,   \* the watcher's debounce
  queue,    \* paths of events that notify has sent
  batch, age,  \* EventBatch: paths, and ticks since the first of them was added, or None
  changed,  \* the paths handle_changes was given last
  plan,     \* groups it has still to run
  waited,   \* history: ticks since the first write of a path not handed over yet, or None
  writes, reloads

watching == <<config, window, queue, batch, age, changed, plan>>
watchVars == <<watching, waited, writes, reloads>>

-----------------------------------------------------------------------------
Matches(g, p) == p \in config.include[g] \ config.ignore[g]

Ignored == UNION {config.ignore[g] : g \in Groups}

\* slip: the first group's patterns stand for all
Combined_OneGroup ==
  LET g == CHOOSE h \in Groups : TRUE IN config.include[g] \ config.ignore[g]

\* combined_patterns: what any group includes and no group ignores.
Combined == (UNION {config.include[g] : g \in Groups}) \ Ignored

Affected(files) == {g \in Groups : \E p \in files : Matches(g, p)}

\* slip: a group with any dependency waits for its cascade
Roots_WithoutDependencies(affected) == {g \in affected : config.depends[g] = {}}

\* filter_affected_to_roots
Roots(affected) == {g \in affected : config.depends[g] \cap affected = {}}

-----------------------------------------------------------------------------
\* One event of the file system, a rename with both its paths.
Write ==
  /\ writes < MaxWrites /\ writes' = writes + 1
  /\ \E files \in SUBSET Paths :
       /\ Cardinality(files) \in {1, 2}
       /\ queue' = queue \cup files
       /\ waited' = [p \in Paths |-> IF p \in files /\ waited[p] = None THEN 0 ELSE waited[p]]
  /\ UNCHANGED <<config, window, batch, age, changed, plan, reloads>>

\* The events that were sent join the batch or are dropped.
Collected == batch \cup (queue \cap Combined)
CollectedAge == IF age = None /\ queue \cap Combined # {} THEN 0 ELSE age

\* What is owed to some group: it matches the path, and no other ignores it.
Wanted(p) == Affected({p}) # {} /\ \A g \in Groups : p \notin config.ignore[g]

Forget(files) == [p \in Paths |-> IF p \in files THEN None ELSE waited[p]]
Unwanted == {p \in queue \ batch : ~Wanted(p)}

Collect ==
  /\ plan = {} /\ queue' = {} /\ batch' = Collected /\ age' = CollectedAge
  /\ ~(batch' # {} /\ age' # None /\ age' >= window)
  /\ waited' = Forget(Unwanted)
  /\ UNCHANGED <<config, window, changed, plan, writes, reloads>>

\* slip: the time of the first event is kept
HandOver_KeepsFirst ==
  /\ plan = {} /\ queue' = {} /\ batch' = {} /\ age' = CollectedAge
  /\ Collected # {} /\ CollectedAge # None /\ CollectedAge >= window
  /\ changed' = Collected /\ plan' = Roots(Affected(Collected))
  /\ waited' = Forget(Collected \cup Unwanted)
  /\ UNCHANGED <<config, window, writes, reloads>>

\* A batch whose window is over is drained and handed to handle_changes in the same poll.
HandOver ==
  /\ plan = {} /\ queue' = {} /\ batch' = {} /\ age' = None
  /\ Collected # {} /\ CollectedAge # None /\ CollectedAge >= window
  /\ changed' = Collected /\ plan' = Roots(Affected(Collected))
  /\ waited' = Forget(Collected \cup Unwanted)
  /\ UNCHANGED <<config, window, writes, reloads>>

\* execute_groups, in any order.
Run ==
  /\ \E g \in plan : plan' = plan \ {g}
  /\ UNCHANGED <<config, window, queue, batch, age, changed, waited, writes, reloads>>

\* A request that arrives while one of them waits drops the poll, and with it the others.
DropPoll ==
  /\ plan \cap Unhurried # {} /\ plan' = {}
  /\ UNCHANGED <<config, window, queue, batch, age, changed, waited, writes, reloads>>

\* reload_config: patterns and dependencies are replaced, the watcher and its batch stay.
Reload ==
  /\ plan = {} /\ reloads < MaxReloads /\ reloads' = reloads + 1
  /\ config' \in Configs \ {config}
  /\ UNCHANGED <<window, queue, batch, age, changed, plan, waited, writes>>

Later(t) == IF t = None \/ t = MaxWindow THEN t ELSE t + 1

Elapse ==
  /\ age' = Later(age) /\ waited' = [p \in Paths |-> Later(waited[p])]
  /\ UNCHANGED <<config, window, queue, batch, changed, plan, writes, reloads>>

WatchInit ==
  /\ config \in Configs /\ window = config.debounce
  /\ queue = {} /\ batch = {} /\ age = None /\ changed = {} /\ plan = {}
  /\ waited = [p \in Paths |-> None] /\ writes = 0 /\ reloads = 0

Poll == Collect \/ HandOver

WatchNext == Write \/ Poll \/ Run \/ DropPoll \/ Reload \/ Elapse

\* The loop polls every 50 ms, what it runs ends, and time passes.
WatchFairness == WF_watchVars(Poll) /\ WF_watchVars(Run) /\ WF_watchVars(Elapse)

WatchSpec == WatchInit /\ [][WatchNext]_watchVars /\ WatchFairness

-----------------------------------------------------------------------------
\* Every affected group is run, or stands behind an affected one that is.
Covers(run, affected) ==
  \A S \in SUBSET affected :
    run \subseteq S /\ (\A g \in affected : config.depends[g] \cap S # {} => g \in S) => S = affected

(* A batch is not handed over before a debounce window has passed since the first change   *)
(* in it, also when a reload or an earlier batch came between; and then every group that   *)
(* one of the changes concerns is run, or stands behind a group that is.                   *)
HandsOverInTime ==
  [][queue' = {} /\ batch' = {} /\ writes' = writes /\ Collected # {} =>
       /\ \E p \in changed' : waited[p] # None /\ waited[p] >= window
       /\ Covers(plan', Affected(Collected))]_watchVars

(* A change that a group watches, and no group ignores, is handed over, whatever is        *)
(* written meanwhile, and unless the configuration comes to say otherwise.                 *)
EveryChangeIsHandedOver ==
  \A p \in Paths : waited[p] # None /\ Wanted(p) ~> waited[p] = None \/ ~Wanted(p)

(* `ignore`: "Globs that exclude files from `patterns`" (docs/configuration.md:125): those *)
(* of the group that says so, and of no other.                                             *)
IgnoresAreTheGroupsOwn ==
  [][queue' = {} /\ writes' = writes =>
       \A p \in queue : Affected({p}) # {} => p \in batch' \cup changed']_watchVars

(* The default patterns "are merged with each group's own `ignore` list when the watcher   *)
(* is set up" (docs/cli.md:544-545).                                                       *)
DefaultsAreIgnored == changed \cap DefaultIgnored = {}

(* "File-change batching window" (docs/configuration.md:61), which a reload replaces with  *)
(* the rest of the configuration ("and apply diffs", docs/cli.md:433).                     *)
WindowIsConfigured == window = config.debounce
=============================================================================
