------------------------------- MODULE TaskRun -------------------------------
(***************************************************************************)
(* A command that runs to completion, and its output on the way to the log *)
(* channel: drive in crates/zaz-process/src/executor.rs inside the loop of *)
(* execute_task and drive_hook in crates/zaz-daemon/src/engine.rs.         *)
(*                                                                         *)
(* Two readers, tasks of their own, empty the pipes into unbounded         *)
(* channels.  The run takes lines from these, waits for the command, and   *)
(* hands each line on to the log, where it waits while the channel is      *)
(* full; nothing of the run goes on then but its clock.  A process the     *)
(* command leaves behind may hold a pipe open.                             *)
(*                                                                         *)
(* The commands are external, and so is the engine that drains the log.    *)
(***************************************************************************)
EXTENDS Integers, Sequences, SequencesExt

CONSTANTS
  Streams,        \* stdout and stderr
  Stdout, Stderr,
  Killed,         \* the exit code of what a signal ended: none
  NoLine,
  Room,           \* of the log channel
  Budget,         \* receives tokio grants one poll of a task (128)
  MaxPrinted      \* bound: lines printed to a stream

ASSUME TaskRunAssumption ==
  /\ Streams = {Stdout, Stderr} /\ Stdout # Stderr
  /\ {"select", "returned"} \cap Streams = {} /\ NoLine \notin Streams \X Nat
  /\ Room \in Nat \ {0} /\ Budget \in Nat \ {0} /\ MaxPrinted \in Nat

VARIABLES
  kind, silence,      \* a task or a hook; the streams not logged
  command, code,      \* the child and its exit code
  holds,              \* streams a process it left behind holds open
  printed, ours,      \* lines in each pipe so far; those printed before the exit
  passed, closed,     \* lines the readers passed on; readers at the end
  taken,              \* lines the run took from the readers
  driver,             \* "select", then the stream it drains, then "returned"
  grace,              \* the clock of the drain, and why it ran out
  cut,                \* the drain was given up
  spent,              \* receives of this poll
  output, sending,    \* lines taken; the one that waits for room in the log
  at,                 \* of execute_task: "header", "run", "rest", "footer", "done"
  backlog,           \* lines in the log channel
  reported, outcome   \* the command's lines in the log, and how the run was judged

process == <<kind, silence, command, code, holds, printed, ours>>
readers == <<passed, closed>>
drain == <<taken, driver, grace, cut, spent>>
task == <<sending, at, backlog, reported, outcome>>
runVars == <<process, readers, drain, output, task>>

-----------------------------------------------------------------------------
(* The command and what it leaves behind. *)
Prints(s) ==
  /\ (command = "running" \/ (command = "exited" /\ s \in holds))
  /\ printed[s] < MaxPrinted /\ printed' = [printed EXCEPT ![s] = @ + 1]
  /\ UNCHANGED <<kind, silence, command, code, holds, ours, readers, drain, output, task>>

Fork ==
  /\ command = "running" /\ holds = {} /\ holds' \in (SUBSET Streams) \ {{}}
  /\ UNCHANGED <<kind, silence, command, code, printed, ours, readers, drain, output, task>>

LeftoverEnds ==
  /\ holds # {} /\ holds' = {}
  /\ UNCHANGED <<kind, silence, command, code, printed, ours, readers, drain, output, task>>

Exit ==
  /\ command = "running" /\ command' = "exited" /\ code' \in {0, 1, Killed}
  /\ ours' = printed
  /\ UNCHANGED <<kind, silence, holds, printed, readers, drain, output, task>>

EngineDrains ==
  /\ backlog > 0 /\ backlog' = 0
  /\ UNCHANGED <<process, readers, drain, output, sending, at, reported, outcome>>

-----------------------------------------------------------------------------
(* The reader of a stream: a line at a time, and its sender is dropped at the end. *)
AtEnd(s) == passed[s] = printed[s] /\ command = "exited" /\ s \notin holds

ReadLine(s) ==
  /\ passed[s] < printed[s] /\ passed' = [passed EXCEPT ![s] = @ + 1]
  /\ UNCHANGED <<process, closed, drain, output, task>>

ReadEnd(s) ==
  /\ command # "none" /\ s \notin closed /\ AtEnd(s) /\ closed' = closed \cup {s}
  /\ UNCHANGED <<process, passed, drain, output, task>>

Reader == \E s \in Streams : ReadLine(s) \/ ReadEnd(s)

-----------------------------------------------------------------------------
(* The select loop, biased to output, and the drain after the exit. *)
Empty(s) == taken[s] = passed[s]

\* The run is polled while no line waits for the log; a receive or a wait costs budget.
Polled == at = "run" /\ sending = NoLine /\ driver # "returned"
Granted == Polled /\ spent < Budget

Take(s) ==
  /\ Granted /\ ~Empty(s)
  /\ (driver = s \/ (driver = "select" /\ (s = Stderr => Empty(Stdout))))
  /\ taken' = [taken EXCEPT ![s] = @ + 1] /\ output' = Append(output, <<s, taken'[s]>>)
  /\ spent' = spent + 1
  /\ UNCHANGED <<process, readers, driver, grace, cut, task>>

Wait ==
  /\ Granted /\ driver = "select" /\ command = "exited" /\ \A s \in Streams : Empty(s)
  /\ driver' = Stdout /\ grace' = "on"
  /\ UNCHANGED <<process, readers, taken, cut, spent, output, task>>

\* slip: only the first stream is drained
Drained_First ==
  /\ Granted /\ driver \in closed /\ Empty(driver) /\ driver' = "returned"
  /\ UNCHANGED <<process, readers, taken, grace, cut, spent, output, task>>

\* One stream after the other.
Drained ==
  /\ Granted /\ driver \in closed /\ Empty(driver)
  /\ driver' = IF driver = Stdout THEN Stderr ELSE "returned"
  /\ UNCHANGED <<process, readers, taken, grace, cut, spent, output, task>>

RanOut == grace \in {"held", "full"}
Draining == driver \in Streams /\ driver \notin closed /\ Empty(driver)

Pending ==
  \/ driver = "select" /\ command = "running" /\ \A s \in Streams : Empty(s)
  \/ Draining /\ ~RanOut

\* slip: the drain is not bounded
GiveUp_Never == Draining /\ RanOut /\ UNCHANGED runVars

\* The timeout polls the drain first, then its clock.
GiveUp ==
  /\ Polled /\ driver \in Streams /\ RanOut /\ (spent = Budget \/ Draining)
  /\ driver' = "returned" /\ cut' = TRUE
  /\ UNCHANGED <<process, readers, taken, grace, spent, output, task>>

\* The budget is used up: the run is polled again, once other tasks had their turn.
Yield ==
  /\ Polled /\ spent = Budget /\ ~(driver \in Streams /\ RanOut) /\ spent' = 0
  /\ UNCHANGED <<process, readers, taken, driver, grace, cut, output, task>>

\* Time passes when nothing else can: the pipes are read, and the run waits for a process
\* that holds one, or for room in the log.
GraceEnds ==
  /\ grace = "on" /\ at = "run" /\ \A s \in Streams : passed[s] = printed[s] /\ (AtEnd(s) => s \in closed)
  /\ \/ sending # NoLine /\ backlog = Room /\ grace' = "full"
     \/ sending = NoLine /\ Draining /\ output = <<>> /\ grace' = "held"
  /\ spent' = 0
  /\ UNCHANGED <<process, readers, taken, driver, cut, output, task>>

-----------------------------------------------------------------------------
(* execute_task and drive_hook: every line on to the log, then how the run ended. *)
\* Every entry of the log waits for room in its channel.
TakesRoom == backlog < Room /\ backlog' = backlog + 1

Header ==
  /\ at = "header" /\ TakesRoom
  /\ \/ command' = "running" /\ at' = "run"
     \/ command' = "failed" /\ at' = "rest"
  /\ UNCHANGED <<kind, silence, code, holds, printed, ours, readers, drain, output, sending, reported, outcome>>

\* should_suppress
PopOutput == output' = Tail(output) /\ sending' = IF Head(output)[1] \in silence THEN NoLine ELSE Head(output)

Forward ==
  /\ ((at = "run" /\ Pending) \/ at = "rest")
  /\ sending = NoLine /\ output # <<>> /\ PopOutput
  /\ UNCHANGED <<process, readers, drain, at, backlog, reported, outcome>>

Send ==
  /\ sending # NoLine /\ TakesRoom /\ sending' = NoLine
  /\ reported' = Append(reported, sending)
  /\ UNCHANGED <<process, readers, drain, output, at, outcome>>

Returned ==
  /\ at = "run" /\ driver = "returned" /\ at' = "rest"
  /\ UNCHANGED <<process, readers, drain, output, sending, backlog, reported, outcome>>

\* A task without an exit code passes, a hook without one fails.
Succeeded == command = "exited" /\ (code = 0 \/ (kind = "task" /\ code = Killed))
Judged == IF Succeeded THEN "success" ELSE "failed"

Footer ==
  /\ at = "rest" /\ sending = NoLine /\ output = <<>> /\ at' = "done"
  /\ outcome' = Judged /\ TakesRoom
  /\ UNCHANGED <<process, readers, drain, output, sending, reported>>

-----------------------------------------------------------------------------
RunInit ==
  /\ kind \in {"task", "hook"} /\ silence \in SUBSET Streams
  /\ command = "none" /\ code = 0 /\ holds = {}
  /\ printed = [s \in Streams |-> 0] /\ ours = printed
  /\ passed = printed /\ closed = {} /\ taken = printed
  /\ driver = "select" /\ grace = "off" /\ cut = FALSE /\ spent = 0
  /\ output = <<>> /\ sending = NoLine /\ at = "header"
  /\ backlog = 0 /\ reported = <<>> /\ outcome = "none"

Run ==
  \/ Wait \/ Drained \/ GiveUp \/ Yield \/ Header \/ Forward \/ Send \/ Returned \/ Footer
  \/ \E s \in Streams : Take(s)

RunNext ==
  \/ Run \/ Reader \/ GraceEnds \/ EngineDrains
  \/ Fork \/ LeftoverEnds \/ Exit \/ \E s \in Streams : Prints(s)

-----------------------------------------------------------------------------
\* The lines of a stream in the log; an order that has no line before an earlier one.
LoggedOf(s) == {e \in ToSet(reported) : e[1] = s}
InOrder(lines) ==
  \A i, j \in DOMAIN lines : i < j /\ lines[i][1] = lines[j][1] => lines[i][2] < lines[j][2]

(* Before the outcome of a run the log has each stream's lines in the order of their      *)
(* printing with none missing between them, up to the last line the command printed       *)
(* unless the drain was given up; and no line of a silenced stream.                       *)
ReportsInOrder ==
  at = "done" =>
    /\ InOrder(reported)
    /\ \A s \in Streams :
         \E n \in 0..printed[s] :
           /\ LoggedOf(s) = {s} \X (1..n)
           /\ s \in silence => n = 0
           /\ s \notin silence /\ ~cut => n >= ours[s]

(* A command that backgrounds something must not hang the run that started it: whoever    *)
(* holds its pipes, and however full the log is, the run of a command that exits ends.    *)
RunEnds == command = "exited" ~> at = "done"

(* "a command that exits the instant it prints still reports what it printed"             *)
PrintedIsReported ==
  at = "done" => \A s \in Streams \ silence : {s} \X (1..ours[s]) \subseteq LoggedOf(s)

(* "Exits 0 only if every task in every group exits cleanly; 1 if any task fails": a task succeeds that exits with zero.                           *)
SucceedsWithZero == outcome = "success" => command = "exited" /\ code = 0
=============================================================================
