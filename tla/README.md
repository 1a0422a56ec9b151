# A verification project for Zaz

Zaz runs a development environment: groups of one-shot *tasks* and long-running
*services*, started in dependency order by a per-directory daemon, run again when
files change, and supervised until the daemon stops. The code is Rust; almost all
of the behaviour that is hard to test is in `src/crates/zaz-daemon/src/engine.rs`
(the engine), `dependency.rs` and `log_store.rs` beside it (the resolver and the log)
and `src/crates/zaz-process/src/service.rs` (one supervised service); around them are
the processes that start, watch and stop daemons. This directory holds TLA+
models of those, TLC configurations, and proofs checked by TLAPS.

Run, in this directory: `tlc -config MCService.cfg MCService` (likewise for the
others), `tlapm ServiceProofs.tla`.

## 1. Inventory

**Dependency resolver** (`dependency.rs`). State: `waiting`, for each waiting group
the dependencies not Ready yet, and `statuses`. Operations: `mark_waiting`,
`mark_complete` (what a completion releases, splits it into ready and refused),
`mark_failed`/`mark_skipped` with the worklist `cascade_skip_from`, queries. Called by
the engine only. Correct when a skip reaches the least set of groups it must reach,
and when no group is left waiting for something that will never report.

**Engine** (`engine.rs`). State per group: status, `services_started`, pending
readiness transition, failed tasks; per task: in flight, `pending_tasks`; scheduled
restarts; `suppress_task_completion_cascade`; a completion channel, a service-action
queue, the log channel. Operations: `startup`, `poll` (file changes, task
completions, queued service actions, `check_services`), requests (`restart_group`,
`restart_process`, `restart_all`, `reload_config`, status), `shutdown`. It is one
async task but not one atomic block: `poll` is one branch of a `select!`, and an API
command drops it at whatever it awaits. Handlers call each other through callbacks
of the resolver. Statuses exist twice, in the engine and in the resolver. Correct
when starts keep the dependency order, every group comes to rest, nothing waits in
vain, and a service without a process is about to get one.

**Service supervision** (`service.rs`, and the per-service halves of
`handle_service_action`, `check_services`, `reload_config` in the engine). State: the
child process, the stop deadline, the stop or kill hook, the readiness window with its
probe, the backoff. Operations: start, stop, signal_restart, check,
enforce_stop_deadline, poll_readiness, force_kill. Everything races: exits, deadlines,
hooks, probes, requests. Correct when a deadline or window armed for one process
never touches the next one, every stop ends, and readiness settles once per spawn.

**Daemon loop and command line** (`src/src/main.rs`). `run_daemon` looks for a live
socket, removes a stale one, binds, and selects between the API and `poll` until it is told
to stop; then it removes the socket and shuts the engine down. `run_tasks` drives a
task-only engine until `wait_for_tasks` returns. `start`, `tui` and `stop` probe sockets and
launch processes. Correct when a daemon serves the socket it bound, and a start that reports
a failure leaves no process.

**Shutdown** (`Engine::shutdown`). Asks every service to stop, then walks over them until none
is inside its stop window. Correct when it ends, asks everyone, and forces exactly those
whose window passed.

**Socket server, API, targets** (`server.rs`, `api.rs`, `target.rs`). One connection
per client; a command goes through a channel to the loop and comes back by a oneshot. A
shutdown is acknowledged before it is acted on.

**Workspace supervisor** (`src/src/supervisor.rs`). Attaches member daemons, adopting those that
run and starting those that are missing; fans requests out; stops what it started.
Correct when its children end with it and what it adopted does not.

**Log store, SQLite storage** (`log_store.rs`, `log_storage*.rs`). A bounded channel that the
readers of all processes fill and the engine drains, hot buffers evicted by lines and by memory, a
broadcast, a database written in batches and trimmed by two retention passes. Correct when
the account of the memory is right, only the oldest lines go, and every line is heard once and in order.

**Terminal interface** (`zaz-tui`). A background task that keeps the connection and polls; an event
loop with the tail of the log, a page cache for what is older, and local cutoffs for what was
cleared. Two styles, a tree of groups with the combined log and a grid with a pane for each process, keep a selection,
a page and scroll positions as numbers. Correct when what is shown is what the daemon has, each line at its place, and
when a key acts on what is shown.

**Configuration** (`zaz-config`). Loading, validation with cycle detection; the
topological sort and the diff of two configurations are in `engine.rs`. Correct when what is
accepted is acyclic and the order has dependencies first.

**File watching** (`zaz-watch`, and `combined_patterns` and `handle_changes` in the engine). A queue of
events, a batch with one event for a path, a debounce window; the groups a batch affects and the
roots among them. Correct when every wanted change is handed over, not before its window.

**Process execution** (`zaz-process`: `executor.rs`, PTY, signals, launchers). A command that runs to completion has
two readers on its pipes, a loop that prefers output to the exit, and a drain of 250 ms after the exit, as a process
it left behind may hold a pipe open; the engine's `execute_task` and `drive_hook` hand its lines on to the log
channel. Correct when a run ends with its command and reports what the command printed.

**Variables** (`zaz-vars`), **MCP server** (`zaz-mcp`), **state snapshot and notifications**, **documentation tool**
(`xtask`).

The hazards of this code, each with its line and the properties that are about it, are
in `PROJECT.json` under `hazards`.

## 2. Modules

| module | models | rests on |
|---|---|---|
| `DependencyResolver` | the resolver's two maps and its methods as operators; the skip as a least set | |
| `SkipCascade` | the worklist of `cascade_skip_from`, one pop per step, and the engine's loop of calls | `DependencyResolver` |
| `OrderedStart` | **abstract**: what one start of all groups promises | `DependencyResolver` (statuses) |
| `ResolverWave` | one start of all groups over the resolver, with both copies of the statuses | `DependencyResolver`; refines `OrderedStart` |
| `Engine` | the engine: every group, task and service, requests, dropped polls | `DependencyResolver`; refines `OrderedStart` |
| `Service` | one service with its deadlines, hooks, probes and restarts in ticks | |
| `Shutdown` | the end of the daemon: several services, their stops and hooks | |
| `FileWatch` | watcher, batch, patterns, roots, and reloads in between | |
| `ConfigGraph` | the loader's search for a cycle and the engine's sort | |
| `LineFeed` | **abstract**: lines are heard once, in order | |
| `LogStore` | channel, hot buffers, broadcast, database, retention, and the loop around them | refines `LineFeed` |
| `TaskRun` | a command run to completion: readers, drain, and its output on the way to the log channel | |
| `LogView` | the terminal interface as a client of the log | |
| `Panes` | the keys of the two styles: selection, pages, panes per page, scrolling and following | |
| `Daemons` | daemon processes, socket files, and the commands that start and stop them | |
| `Workspace` | the supervisor of several daemons | `Daemons` |
| `MC*` | instances for TLC; `MCShutdown` puts `FileWatch` before `Shutdown`; `MCGraphs` takes `ResolverWave`, `SkipCascade` and `ConfigGraph` side by side, `MCLogStore` takes `TaskRun` beside `LogStore` and `MCLogView` takes `Panes` beside `LogView`, one of them in each behaviour | |
| `*Proofs` | theorems about the modules they extend: `GraphProofs` about `DependencyResolver`, `SkipCascade`, `ConfigGraph` and `ResolverWave`, `LogProofs` about `LogStore` and `TaskRun`, `LogViewProofs` about `LogView` and `Panes`, `ShutdownProofs` about `Shutdown` and `FileWatch`, `WorkspaceProofs` about `Daemons` and `Workspace`, the others about the module they are named after | |
| `SequenceLemmas` | facts about numbers and sequences that several of them use | |

`Engine` and `Service` overlap on purpose. `Engine` has many services and knows of
each only whether it has a process, an open window and a scheduled restart;
`Service` has one service in full and knows of its group only `services_started`;
`Shutdown` has several services and of each only what a stop touches. In the same way a file
change is one action of `Engine`, and what leads up to it is `FileWatch`. `LogStore` shows when the
log channel is full, which `Service` takes as the constant `LogMayBlock`. `TaskRun` and `LogStore` meet at the log
channel: to the one the engine is whoever drains it, to the other a run is one more reader that blocks. What
`DependencyResolver` assumes of the graph, `GraphProofs` shows of the loader.

### How state and actions correspond to the code

*DependencyResolver.* `waiting` is the code's map with an absent entry as `{}`.
`cascade_skip_from` is given declaratively, `SkippedBehind(w, sources)`, as the least
set closed under "waits for nothing but sources and skipped groups"; `SkipCascade` has the
loop itself, and `SkipCascadeCorrect` is the licence for the other modules
to use the set. The stack order of the loop is abstracted to any order.

*ResolverWave.* What a group runs is a span of time: `Complete(g)` is everything the code
does when the last of it succeeds (`propagate_to_dependents`: trigger or cascade by
lifecycle phase), `Fail(g)` everything it does on a failure.

*Engine.* `job` says which entry point of the engine runs (`startup`, `poll`,
`request`, the last drain of the task command), `todo` is its call stack: the remaining
rounds of the loops it is in, innermost first. An item `[do |-> "drain"]` is
`process_task_completions`, `"exec"` `execute_groups`, `"serve"`
`handle_service_action`, `"trigger"`/`"cascade"` the resolver callbacks,
`"check"`/`"supervise"` `check_services`, and so on. Between two rounds tasks and
services of the outside world may end. Iteration over hash maps is any order. A poll that awaits
a startup delay or a cleanup hook can be dropped (`TakeRequest` when `Suspended`), with
`todo`; a startup or a request cannot. Requests restart a group, a task, a service, or
all groups, reload a configuration in which some groups changed, or ask for the status.
A file change names the groups it affects (`Change`); patterns are not modelled. The
channel of service actions is a count per group of starts and of restarts (`queued`).
A configuration may leave a variable undefined that commands name: `unexpandable` are the tasks and services whose
commands do not expand under the present one (`MayNotExpand` bounds them), and a reload brings another set. Such a
task is skipped in its group's run, a service in its group's start (`ServeSkips`), and a scheduled restart is
cleared without a spawn (`RespawnDropped`). Time is abstracted: a readiness window, a backoff and a delay end when they like.

*Service.* `svc` is the `Service` struct with the process in it: a child is alive, dying
of a SIGKILL, exited and not waited for, or reaped by an `is_running` nobody acted on (a
PTY child keeps its id after that, a plain one does not, hence `UsesPty`). `pc` is the
await the engine is suspended at on behalf of this service. A request may drop the poll
at any of these but the one of another request. Deadlines are ticks left. The hooks and
probes run beside the engine and may hang. Processes, probes and hooks the code forgets
about stay in `strayProbe`, `strayHook`, `leftBehind`. `sinceAsk`, `answers` and `passed` are
history variables: ticks since the live process was last asked to stop, verdicts
since the last spawn, and whether a check passed. `expands` says whether the present configuration defines what the
command names; where it does not, a start or a due restart passes the service over (`SkipStart`, `SkipRespawn`), which the
history variable `skipped` remembers, and a reload may change it (`Reload`, and `ReloadOthers`, which leaves the service alone).

*Shutdown.* `phase` is the part of `Engine::shutdown`, `todo` the services the current pass over
the hash map has not come to, `waiting` its `any_waiting`. `Look` is a pass over a service that has nothing due,
`Escalate` one over a service whose deadline is over (`enforce_stop_deadline` to its end).
The initial states are all a loop can leave behind: stops under way, hooks that run, children that
have exited or were reaped. `since` and `forced` are history.

*FileWatch.* `queue` is what `notify` has sent, `batch` and `age` are `EventBatch`. A poll is `Collect`,
or `HandOver` when the window is over; `plan` holds the roots `execute_groups` has still to run,
which a request may drop. A pattern is a set of paths. `waited` is history: how long a path
has been waiting that some group wants.

*ConfigGraph.* The recursion of the two searches is a `path` of calls with what each has still to
look at (`rest`). `left` is the order in which calls returned, which is both the visited set of
`detect_cycle` and the result of `topological_sort`.

*LogStore.* `pc` is where the engine's task is. The readers are threads of their own that
block while `channel` is full. `batch` and `rest` are the two lists of a drain: what goes to the database,
and what `push_internal` has not seen. A line is its process, a stamp and a size. A failing
statement drops the rest of the batch or the sweep, as in the code. A request drops a poll that awaits.
`heard` is what a subscriber that never lags has heard.

*TaskRun.* `printed`, `passed` and `taken` count the lines of a stream that were written to its pipe, read from it, and
taken by `drive`; `driver` is where `drive` is. `Take`, `Wait` and `Drained` are its branches in the order `biased` gives
them; `Pending` says when it has none, which is when `execute_task` goes on to `Forward`. While a line waits for room in
the log (`sending`) nothing of this polls `drive`, but its clock runs (`GraceEnds`). Tokio ends a poll after `Budget`
receives, also in the middle of the drain, and the timeout then looks at its clock. The clock is slow against the
readers: it runs out only when they have nothing to do. A dropped run (a cancelled cleanup hook) is in `Service`.

*LogView.* `task` is where the background task is, `tick` where `poll_daemon` is. A line is its
number, and `PrintedBy` says which process prints it; the daemon, external here, keeps `first..last` and answers as
`engine.rs` does. `total`, `received`, `cutoff`, `cache`, `lru`, `pending` are the fields of the log buffer with
the same arithmetic on offsets. The tail `local` is a queue for every process, each trimmed by itself (`Newest`); as lines
come rising, a queue is a set and the tail the union of the queues. The combined view, the one modelled, numbers a line by its place
among them all (`Place`, `Before`), as if what is missing were always the oldest. `heard` and `cutoff.seen` are
history: every line the tail ever got, and how many of them when the view was cleared.

*Panes.* One turn of `event_loop` is a `Frame` (the daemon's answer, any list of `Layouts` and any counts, and what
`draw` stores on the way) and one key. Maps keyed by pane have an absent entry where the code has one, with the same
default; view -1 is the combined log. Sums on `usize` are taken modulo `Word`, as a release build does where the code
subtracts. `highlighted` is history: the process that the last frame drew as selected. Pages and half pages share an
action; how many rows a frame leaves a pane is a function of the panes on the page (`Heights`).

*Daemons, Workspace.* `file[s]` is the daemon whose listener the socket file belongs to: a file
outlives a crash, and removing it takes no notice of whose it is. `pc[d]` follows `run_daemon`
through its probe, the file, the bind, the loop, the acknowledged shutdown and the going down.
A probe is one action where its two halves see the same. A daemon that goes up, goes down or is busy
with a request or a hook in its loop may not answer in time (`Silent`). `step` is where the supervisor is. Timeouts
of a probe are the outcome "silent"; `Attempts` counts the rounds of a readiness poll.

### Faulty variants

Beside many definitions stands a variant, `Name_What`, marked `\* slip:`, which is never used
by `Next`. It is the definition with a plausible bug in it (a dropped guard, a forgotten
reset, an order swapped). `PROJECT.json` pairs each property with one of them: with
the variant in place of the definition, TLC finds that property violated. It shows that a
property is about the code and not about the shape of the model.

## 3. Runs

| configuration | instance | shows |
|---|---|---|
| `MCGraphs` | every graph over 4 names is loaded; every waiting map and every set of sources over 4 groups; a start of 7 groups over 3 roots, with shared dependencies | `AcceptsTheWellFounded`, `SortsDependenciesFirst`; `SkipsTheLeastClosure`; `NobodyWaitsInVain`, refinement of `OrderedStart`, `StartSettles` |
| `MCService` | every hook, PTY, failing spawns, a command that may not expand, polling client, a reload; 4 runs or restarts | `NoEarlyKill`, `EveryStopIsBounded`, `NothingStranded`, `ReadinessSettlesOncePerSpawn` |
| `MCServiceLiveness` | as above, undisturbed by polls and failing spawns | `CrashedServiceRespawns`, `EveryStopEnds` |
| `MCEngineStart` | 5 groups, readiness checks, a failing task, a crash | the whole engine's start refines `OrderedStart` |
| `MCEngineRequests` | 3 groups, one file change, one request of four kinds, one failing task | `NobodyWaitsInVain`, `ServicesFollowTasks`, `EveryGroupComesToRest` |
| `MCEngineFailures` | 3 groups, failing spawns, dropped polls, a reload that may leave commands unexpandable, a crash | `ServicesStaySupervised` |
| `MCEngineTask` | 5 groups that have tasks or services, not both; task-only | `NothingLeftUndone`, `CommandEnds` |
| `MCLogStore` | 2 processes, 3 lines, channel and buffers of 2, a failing statement, a crash | `MemoryAccounted`, `TailMatchesHistory`, `OnlyTheOldestGo`, refinement of `LineFeed`, `EveryLineIsHeard` |
| | a task of 3 lines or a hook of 2 on two streams, a log channel of 1, a leftover that holds pipes | `ReportsInOrder`, `RunEnds` |
| `MCLogView` | 3 lines of 2 processes, a poll of 3 and queues of 4, retention of 2, pages and channels of 1, an outage | `StreamedOnce`, `ViewSettles` |
| | 3 processes in 2 orders, 1 to 4 panes per page, logs of 0 or 4 lines | `RestartsTheHighlighted` |
| `MCLogViewClear` | 5 lines of 2 processes, queues of 2, a poll of 1, retention of 1 | `ClearedStayHidden`, `NewLinesShow` |
| `MCWorkspace` | 2 members, one named twice, 3 processes, a user's command, a crash, a request | `ServesWhatItBound`, `FailedStartLeavesNothing`, `ChildrenEndWithTheSupervisor`, `AdoptedLeftRunning` |
| `MCShutdown` | 3 groups, 3 paths, 3 writes, 2 reloads; then 3 services in any state | `HandsOverInTime`, `EveryChangeIsHandedOver`; `ForcedOnceAfterItsWindow`, `NoneLeftUnforced`, `ShutdownEnds` |

**Bounds.** The four groups of the skip depend on each other in every way that has no cycle, so the waiting maps among
them are all smaller graphs: diamonds, chains and joins. The seven groups of a start have four levels; `docs` and `auth` share
a root and run side by side, so failures, skips and completions meet behind every join. In
`Service` a timeout of two ticks separates "before", "at" and "after" a
deadline, the backoff doubles once and is capped, and four runs let a stop, a crash, a
respawn and a second stop overlap. In `Engine` the three groups are the smallest with
a service-only root, a group with both, a service-only join over both; the larger instance adds `lint`, an
independent root with a task, and `docs`, which has nothing to run and joins two independent branches: one may
fail before the other is done. `MaxFailures`, `MaxExits`, `MaxChanges`, `MaxRequests` bound
only the environment. Each of these events interacts with the start it interrupts; one of each
already gives every pair of handlers a chance to interleave, and two or more requests would
repeat that from states much like these.

In `LogStore` a channel of two fills while the engine sends; buffers of two lines and a memory of four units make both evictions
compete; three lines are one more than either; a sweep keeps one row and the size pass deletes one at a time. In `LogView` every
channel holds one message and every cache one page, so each of them is full, or evicts, as soon as two lines exist; three lines
let the daemon drop its oldest while a page of it is on its way. As shipped, a poll (500 lines) is smaller than a queue (10,000):
3 and 4 in `MCLogView`, 1 and 2 in `MCLogViewClear`. There the second of the five lines is of one process and the others of
another, whose queue is full after three: it loses a line that is older, and then one that is newer than the line the quiet one
keeps. In `TaskRun` three lines put two on one stream and one on the other, so that both order and loss show; a channel of one is
full after every line, a budget of one ends every poll after one receive. In `Panes` three processes fill one page of three or
four, or one and a half pages of two, or three of one: every wrap of the arrow keys occurs; a log of four lines is two more than a
pane of two shows, so that each end and the middle exist; `Word` is larger than any index and only tells a wrapped difference from
a small one. A user keeps to one style's keys in a behaviour, and changes styles at any time; panes of processes that print
nothing are not scrolled. In `Workspace` three processes are the two children and a stranger, or a child that died, its
replacement and another. In `MCShutdown` one path can be written again while it waits in a batch that a reload is about to judge
by other patterns; three services let a pass meet one that is done, one that waits and one that is due.

`MCService` takes the log channel to have room (`LogMayBlock = FALSE`), since
`EveryStopIsBounded` and `NothingStranded` are false otherwise (section 4). The proofs cover
both values for everything else. `MCEngineTask` keeps tasks and services
in groups of their own, with no readiness check in front of a task, since the properties are false
otherwise (section 4).

**Deadlock** is checked in the runs of `Engine`, `Service` and `Shutdown`, which have no last state. The others end: a
wave that has settled, a line that was the last to be made, a user who has run the last command.

Each module also has a type invariant, `TypeOK`; where there is a proof it is a conjunct of the inductive invariant, and
with `INVARIANT TypeOK` in the configuration TLC checks it on the instance.

**Fairness.** `Engine`: the loop of `run_daemon` goes on (`WF` on the engine's steps, `SF` on what its spawned senders have for
the service-action channel); a task ends (a hanging task is a group Running for ever by the user's own command); a readiness
window has a timeout, a backoff and a delay are finite, so a `check_services` that comes by again and again finds each over (`SF`,
as between two visits the window is merely not looked at; a restart that is due is carried out, fails or is dropped). `Service`:
the engine's task goes on, each part of `check_services` that is due comes about, awaits that nobody cancels end, and time passes.
Nothing is assumed of a service, its probes and stop hooks: they may hang, and the liveness properties hold all the same.
`Shutdown`: the loop goes on and time passes, nothing else. `FileWatch`: the loop polls every 50 ms, what it runs ends, time
passes. `TaskRun`: the run and its readers are scheduled, the clock of a drain runs out, the engine drains the log; nothing is
assumed of what holds a pipe. `LogStore`: the engine's thread runs; `SF` on the poll branch, as `select!` takes a ready branch at
random and cannot pass over one for ever; `SF` on the clock, which is only looked at between two turns. `LogView`: both loops run
and the daemon comes back; `SF` on the poll timer and on the commands, the branches of a `select!` again, and on the page
requests, which come with every tick that has drained the answers.

## 4. Where the code and its documentation part

Each is reproduced by a configuration that TLC finds violated; a configuration with several properties is run
with `tlc -continue`. `findings` in `PROJECT.json` quotes the documentation.

- `MCServiceClaims`, module `MCService`. *CleanupOnlyBeforeASpawn* (`engine.rs:1863`): a group's start of a crashed service does
  not clear the restart scheduled for it. When that is due the cleanup hook runs under the live service and a
  second window opens. *ProbesNeverOverlap* (`service.rs:437`, also 507, 631, 661, 676, 845): a window closed by a stop,
  an exit or a start forgets its probe. *StopHookIsBounded* (`service.rs:844`): the exit of the service clears the
  deadline of a stop hook still running. *ReloadedServiceIsWatched* (`engine.rs:2386`): a reload drops the struct of a
  service it asked to stop, and its deadline. *RunningOnlyAfterZeroExit* (`engine.rs:1925`): a restart inside the
  window makes the service Running without a passed check. *NothingStranded* (`engine.rs:2081`): `check()` consumes an exit, the
  log channel is awaited, and only then is the restart scheduled. Dropped in between, the service stays down.
- `MCServiceHookBlocks` (`engine.rs:2053`). Every dropped poll starts the cleanup hook again; a
  client that polls faster than the hook runs keeps the service down.
- `MCEngineTaskClaims`, module `MCEngine`. *TaskOnlyStartsNothing* (`engine.rs:1771`): the task command starts services of
  groups that have tasks, too. *NothingLeftUndone* (`engine.rs:1967`): behind a group with tasks and a readiness check it
  leaves groups waiting and succeeds. A second cause (`engine.rs:1494`), a group none of whose tasks expands stays Running and the
  command succeeds, shows with the constants its comment names.
- `MCEngineClaims`, module `MCEngine`. *NobodyWaitsInVain* (`engine.rs:2422`): a reload during a start builds a new resolver in which
  nobody waits; groups that wait do so for ever, even if the file did not change. *ServicesFollowTasks* (`engine.rs:1763`): a
  request during a startup delay drops the completion that was taken from the channel, and the services after the tasks
  never start. *ReloadRunsNoTask* (`engine.rs:2441`): a reload runs the startup tasks of changed groups.
  *WaitersFollowDependencies* (`engine.rs:2316`): a service action queued before `restart_all` is carried out in the middle of it,
  before the dependencies are Ready. *EveryServiceIsKeptAlive* (`engine.rs:2044`, also 1883): a service whose command
  did not expand when it was to start, or to restart, is left without a process and without a restart while its group counts as
  started.
- `MCLogShutdown`, module `MCLogStore` (`engine.rs:2223`). The shutdown awaits room in the channel that only the engine drains.
- `MCShutdownClaims`, module `Shutdown`. *EveryServiceIsStopped* (`engine.rs:2243`): the first stop that fails ends it.
  *StopHooksAreWaitedFor* (`engine.rs:2266`): a stop command without a process has no deadline and is not waited for.
- `MCFileWatchClaims`, module `MCShutdown`. *IgnoresAreTheGroupsOwn* (`engine.rs:2782`): what one group ignores is hidden from all.
  *DefaultsAreIgnored*: `default_ignores` is printed by a command and kept by the watcher, and nobody matches it. *WindowIsConfigured*
  (`engine.rs:2419`): a reload leaves the watcher's debounce as it was.
- `MCLogViewNewest` (`zaz-tui/src/daemon.rs:353`). The poll reads the 500 oldest lines. A second cause (line 372), a line
  in the millisecond of the newest one seen is dropped, shows with the constants its comment names.
- `MCLogViewClaims`, module `MCLogView`. *ClearedStayGone* (`logs.rs:622`): the filtered view takes a line's place among those still
  held for its place among all that came. When a process with much output loses lines newer than an old, cleared line of
  a quiet one, that line's index rises past the cutoff and it is back in the view. *TailIsInPlace* (`logs.rs:837`): for the
  same reason the unfiltered view serves such a line from the tail at a place that is another line's.
  *PendingEnds* (`app.rs:404`): a page whose fetch fails stays marked as pending. *QuitStopsTheDaemon* (`app.rs:506`): with
  `--stop-on-exit` the process may end before the shutdown is sent. The last two are temporal; look at them one at a time.
- `MCPanesClaims`, module `MCLogView`. *KeysStayInTheGrid* (`multi_pane.rs:667`): on a last page with fewer panes the key
  to the right selects a place behind the list. *RestartsNothingHidden* (`multi_pane.rs:237`): from there, or after a reload
  has shortened the list, the page shows nothing, differences below zero wrap (a debug build panics, also at
  line 76), and `r` restarts a process that is not shown. *FocusIsRemembered* (`full.rs:271`): changing styles resets the focus.
  *ScrollingStopsFollowing* (`multi_pane.rs:528`): `j` at the bottom goes on following.
- `MCTaskRunClaims`, module `MCLogStore`. *SucceedsWithZero* (`engine.rs:161`): a task that a signal ends counts as a success.
  *PrintedIsReported* (`executor.rs:298`): the drain takes standard output to its end first, so while a leftover
  holds it the last errors are lost; and a run that waits for room in the log lets the drain's clock run out.
- `MCWorkspaceClaims`, module `MCWorkspace`. *FailedBootLeavesNothing* (`supervisor.rs:678`): a supervisor that cannot bind leaves its
  children. *StoppedCleanly* (`supervisor.rs:300`): a child is killed once its socket is gone, which it removes before it
  stops its services. *StopsOnlyItsOwn*: whoever serves a member's socket is stopped in its place.
- `MCDaemonsClaims`, module `Daemons`. *OneAtATime* (`main.rs:931`): two daemons that find the same stale socket both run.
  *StoppedBeforeStarted* (`main.rs:1025`): the socket goes before the services do.

Also seen, without a configuration: the hot buffers' `get` is in order of insertion, not of time as
`log_storage.rs:205-216` has it, since `push_log` goes past the channel; `zaz start` can report the pid of a child that then
loses its socket; forwarded requests of the supervisor have no timeout; `compute_config_diff` looks at
settings and groups, so a changed `variables` table restarts nothing; a kill command at shutdown is started and not
waited for; `update_search_matches` of the interface has no caller but tests, so `n` and `N` have nothing to go to.

`Engine` also contains, without a property yet: a failed service start that propagates all
the same; a resolver copy that stays Failed after recovery; skipped dependents that
do not start when a later change repairs the failure.

## 5. Proofs

All are for every value of the constants under the named assumptions. Of each inductive invariant, TLC checked on
the instance of its run that it holds, before it was proved. Where the property is all there is to say, the name of the theorem
is in `PROJECT.json` only.

*Assumptions.* `DependsOnAssumption`: the graph is well founded (the loader refuses others, `validate.rs`; `GraphProofs` shows
it). `WatchAssumption` says so of every configuration a reload can bring. `EngineAssumption`: a task or a service belongs to one
group, as names carry their group, a task is of one kind, and what may not expand is a task or a service. `LogStoreAssumption`:
finitely many processes; channel, buffers, chunk and cadence hold at least one. `ServiceAssumption`: timeouts are naturals, the
probe interval and the minimal delay positive. `LogViewAssumption`: limits, pages, channels and queues hold at least one line, and
every line has a process. `PanesAssumption`: of the constants, what types they have, and that a list with two pages more fits into
a machine word (`Word`). `DaemonsAssumption`: a readiness poll has a round. `TaskRunAssumption`: the streams are two. The others
say that bounds are naturals.

*GraphProofs, the resolver.* Lemmas on the set by which the skip is given: it is itself closed, each member is justified, and
(from its definition as an intersection) it is the least. They say nothing of the code by themselves; the worklist below does.

*GraphProofs, the worklist.* `WorklistInvariant`: what was popped is taken out of every map entry, what
was reported is inside the least closed set, and whatever has nothing left to wait for was
reported. `SkipCascadeCorrect`: when the worklist is empty, the reported set is closed, hence the
least one. `SkippedGroupsAwaitNothing` follows from the same invariant.

*GraphProofs, the loader.* For every set of names and every graph. What the search has established about
the names whose calls returned (`LeftInOrder`: each came after all its dependencies) shows in the end that the
graph is well founded, without induction over the graph: the least position of a member of a set has no
dependency in it. `LoaderAcceptsTheWellFounded` has the other half too, that a cycle is reported only where there
is one, and that the sort never fails on what was accepted. `OrderHasDependenciesFirst` is the order of execution.

*GraphProofs, the start.* None of the safety properties is inductive alone. `NobodyWaitsInVain` needs that
an entry names only dependencies and that dependencies no longer named have settled
(`EntriesTrackDependencies`); `DependenciesFirst` needs both and `CopiesAgreeOnFailure`, as the code asks the
resolver's copy. `IInv` is their conjunction. Each step is shown to be a step of
`OrderedStart` first, and order and justification of skips then follow from the abstract step alone
(`OrderedStepKeepsOrder`). `WaveIsAnOrderedStart` is the refinement.

*EngineProofs, the services.* `NoServiceIsForgotten`, for the whole engine with all its requests. A service is `Covered` when it
has a process or a scheduled restart, or when some configuration does not expand its command: the property is about the services
outside `MayNotExpand`, as the code gives the others up (section 4). The group is called started only at the end of
`handle_service_action`, so what makes the property inductive is a statement about the call stack: a `serve` item anywhere in
`todo` has covered every service it has already been to (`Sound`). No step but a reload takes a cover away, and the reload that
does calls the group not started.

*EngineProofs, the reports.* `NoWakeupIsLost` (*NobodyWaitsInVain*) and `ServicesAreStarted` (*ServicesFollowTasks*) say that
something is still under way whenever somebody waits for it, which no step says by itself: a handler takes a completion from the
channel, and until it has passed it on only the call stack knows. Three inductive parts.
`Ledger` is about the engine alone: the items of the stack are `Proper`, who waits does so for dependencies only
(`EntriesAreDependencies`), what is deferred was started, what is queued belongs to a group with services, and an engine with an empty
stack is idle. `Wakes` says that of every group one of three things holds: its outcome is `Voiced` (on the stack, or a service action of it
is in the channel), it is `Working` (a task of it is in flight), or it is `Quiet`: whoever waits for it waits because it waits
itself or because a deferred transition is going to release them, it is not Pending, and if it is Ready its services were started.
`Command`, for
a task command, adds that a Running group has work (`RunningIsWorking`) and that what has no chore left is `Settled`;
`CommandLeavesNothing` (*NothingLeftUndone*) follows. `SomebodyReports` draws the conclusion from the first: when the engine is
idle and any group waits, there is a group that waits for none and is busy; a chain of waiting groups cannot close on
itself, by the assumption on the graph.

Their hypotheses are on constants, and TLC has a counterexample without each of them.

| hypothesis | what it excludes | otherwise |
|---|---|---|
| `~SpawnMayFail` | a task or service that fails to spawn, outside task commands | the error ends the handler, and with it what it had still to report |
| `NoDrops` | a request that drops the poll of a handler which awaits a startup delay or a cleanup hook | the completion taken from the channel is lost (`engine.rs:1763`) |
| `NoReload` | a reload; for *NobodyWaitsInVain* only | the new resolver has nobody wait (`engine.rs:2422`) |
| `Apart` | a group with tasks and a readiness check; for task commands | the group never reports, the command ends without it (`engine.rs:1967`) |
| `TasksExpand` | a task whose command some configuration does not expand | a group none of whose tasks expands stays Running (`engine.rs:1494`) |

`Undisturbed` is the first two and the last, or, for a task command, `Apart` and the last. A start by itself (`FirstStart`,
below) needs no `TasksExpand`: a group that stays Running breaks no order. *ServicesFollowTasks*
also needs `~TaskOnly`, as a task command is not meant to start them.
*NobodyWaitsInVain* does not say that whoever the resolver has wait is called Waiting. With two requests that is false: a file change runs the
tasks of a group while it waits, and the readiness check of an earlier start may call it Ready. The proof found this; what the property
says is that each of those waited for is busy or waits in its turn, whatever it is called.

*EngineProofs, the start.* `StartIsOrdered` says that the engine implements `OrderedStart` under `FirstStart` (no requests, no file
changes, every spawn succeeds), whatever tasks and readiness checks fail and services exit. The refinement shows a Pending group as Running or
Waiting, by whether it depends on another, and a Ready group whose services are still to come (`Underway`) as Running. What the abstract
specification promises at once, the code does in several places, so `Course` (`InOrder`, once the start has begun) follows each group
through them: it is in one hand at a time (`InOneHand`), be it an item of the call stack (`Taken`, by one item only: `Lone`), the
channel, its tasks or its readiness checks; it is in somebody's hand only when everything it depends on is `Over`, that is Ready with nothing left
to do; and it waits for each dependency that is neither over nor `Known` to the resolver to have failed. A dependency can fail before
the resolver hears of it, and a group stays waiting meanwhile: `Behind` is what lets the skip, and nothing else, happen to it. Each action is
shown to be `Onward`: it keeps this order, and every group `Advances` (what is over stays over, what broke stays broken, nobody waits anew). The
refinement then follows from these two alone (`GroupIsOrdered`), without looking at the actions again.
The hypotheses are needed: a request or a change makes a Ready group run or wait again, which an ordered start never does; and when one service of
a waiting group fails to spawn, the check of another, already started, can still call the group Failed, which was never Running (TLC
finds this with two services in `edge`).

*ServiceProofs.* `NoEarlyKill` needs the arithmetic relation between the deadline and the ticks
since the ask (`DeadlineMatchesAsk`), and that needs `ArmedForAProcess`.
`ReadinessSettlesOncePerSpawn` needs that an open window has not answered (`WindowMatchesAnswers`), which
the second window of `CleanupOnlyBeforeASpawn` only just satisfies: it replaces a window that has not
answered yet. `SupervisionIsBounded` and `NoServiceIsStranded` add `BoundedInv` and what the engine's place in its handler says
about a service without a process, both under `~LogMayBlock`; without that they are false (section 4). `NoServiceIsStranded` leaves
one way in which a service is without a restart to come: its command did not expand when it was to be started or restarted
(`skipped`), which is what the code does.

*ShutdownProofs, the shutdown.* For every set of services and every state the loop leaves them in. `ForcedOnceAfterItsWindow` is not
inductive: it needs that the deadline and the ticks since the shutdown asked add up to `StopTimeout` as long as the child was not
forced. `NoneLeftUnforced` needs what a pass without waiting has established of the services it has come to, and that
nothing starts meanwhile.

*ShutdownProofs, the watcher.* `BatchesAreDue` is an action property: at a hand-over some path has waited for the whole window,
and every affected group runs or stands behind one that does. The first needs that some path of a batch has waited as long as the batch
is old (`OldestWaits`), through every reload; the second is by the assumption on the graph.

*LogProofs, the store.* `MemoryIsAccounted` relates a running estimate to a sum over buffers of sequences (`Buffers`, with
`DrainUnderWay` for the estimate the code recounts after an eviction). The provers have no induction over operators, so the
induction on lengths is done once for a set of numbers (`Upward`) and a set of sequences (`ByAppending`), both in
`SequenceLemmas`, and every fact about sums and selections is an instance of it. `StoreIsALineFeed` is the refinement: channel and
batch on their way are the abstract queue; `HeardOnce` and `StampIsFree` are needed to know that a line is new.
`RetentionTakesTheOldest` adds `EachOnce`: no line is in two places on its way to the disk. Without it a sweep that drops an old
line could drop its newer copy. `TailAndHistoryMatch` rests on `SameStory`, which goes one step further than the property: while
no statement has failed, what a process told the subscribers and what was written or is about to be written for it are one
sequence, of which either may have lost its beginning.

*LogProofs, a run.* `RunReportsInOrder`. The counts of a stream only ever grow along pipe, reader and `drive` (`Counts`); what
is in the log is what was taken, save what `Forward` still has in its hands (`Passage`).

*WorkspaceProofs.* For every number of sockets, processes and users, with a supervisor and without one (`DaemonsInvariant`).
`UnracedDaemonIsFound` needs that a file belongs to a daemon of its socket (`FilesBelong`) and that with no race a
socket has one daemon past its probe (`OneWithoutRace`). `FailedStartIsOver` needs what each command knows of the daemon it
launched (`CommandInv`) and that a start that saw its child fail saw it dead (`FailureSeen`). `SupervisorLeavesNoChild` needs that whatever the
supervisor launched is in its hands, attached or dead, at every point of the boot (`LaunchedInv`, `Accounted`). What
commands, supervisors and crashes do to a daemon is one action (`Touches`), shown once to disturb none of it. `AdoptedAreLeft` is an action
property.

*LogViewProofs, the log.* `StreamIInv` is about one sequence (`Stream`): every line the tail ever got, what is in the channel and what the
task has still to send. It rises, and until the interface ends its last line is the last one the task saw (`EndsSeen`). A poll
brings a run of lines from the oldest that is kept, and what passes of it starts behind the last one seen: from that follow
`LinesStayInOrder`, for any number of lines in a millisecond, and `LinesStreamOnce`, for one. With more the second is false, as a
line that shares the last one's millisecond and comes later is dropped (section 4). What the queues hold is part of what was heard, and the
cutoff is a place in it (`CutOfHeard`). The rest is counting (`IndexIs`): the index the code gives to a line is the number of
lines heard before it, plus one for each that came after it and is no longer held. So no queue's trimming moves an index down, whence
`NewLinesAreShown`, with queues of any length and any number of processes; and an index goes up only when a queue has lost a line that is
newer, which `TailIsTheNewest` excludes: `ClearHolds`. Without that premise the code shows cleared lines again (section 4). Both
take one line in a millisecond, as they need that a line is heard once.

*LogViewProofs, the panes.* `ScrollingGoesItsWay` (no key scrolls against its direction; proved only, no run has it) needs no more than types: a key starts from where the view is drawn, or from a
position behind the last page, and both move the right way (`DownGoesDown`, `UpGoesUp`). `KeysActOnTheShown` says of
*RestartsTheHighlighted* what its comment does: while the list keeps its length (`SameLength`, of the constant `Layouts`; the run's
instance satisfies it, and a poll may still bring any order and any names). Without it the property is false: after a list that grew
again the page may show what the selection, left from the shorter list, is not part of. What makes it inductive is `Placed`: every
key of the grid goes to a place of a page (`Goes`), within the page where the page shows any of the list. From a page behind the
list the arithmetic on words may send the selection anywhere, which the property does not speak of either.

*Only model-checked.* Liveness under fairness, which is out of the prover's reach. In `LogView` *StreamedOnce* with several lines in a millisecond,
which is false, and its whole type invariant, whose page requests go through an operator the provers do not have (`SetToSortSeq`).

## 6. Not modelled, and the plan

Left out for good, as they keep no state this project has a question about: rendering, prompts and ANSI handling in
the interface; the translation of MCP calls; string expansion of variables; TOML parsing, defaults and error wording;
the schema, search and session bookkeeping of the database; `xtask`.

The modules stand for about a fifth of the lines of the implementation. Some 13,000 of its lines are tests, inside the source files
and beside them; of the rest, the larger part is what is listed above, for which a model would only repeat the code.

Of what is modelled, still missing: in `Engine` a reload that adds or removes groups, changes told apart per task, a property on
the stale `suppress` mark and on recovery after a failure; in `LogView` the views of single processes; the diff of two
configurations.

Order of what comes next:

1. An abstract supervision specification (one process at a time, asked, killed, replaced) that
   `Service` implements.
2. The rest of `Engine`, above, and the configuration diff.
