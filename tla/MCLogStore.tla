----------------------------- MODULE MCLogStore -----------------------------
(* Output on its way, in two parts that the log channel joins: from the pipes of a command *)
(* into the channel (TaskRun, to which the engine is whoever drains it), and from the      *)
(* channel into the buffers and the database (LogStore, to which a run is a reader).       *)
(* Two processes and a channel that fills up; hot buffers, memory and rows of a few lines. *)
(* A task prints at most three lines, of which none is silenced, and passes or is killed;  *)
(* a hook, its errors silenced, prints at most two and fails.                              *)
EXTENDS LogStore, TaskRun

VARIABLE part

MCInit ==
  /\ Init /\ RunInit
  /\ part \in IF sqlite THEN {"store"} ELSE {"store", "run"}
  /\ silence = IF kind = "task" THEN {} ELSE {Stderr}
  /\ part = "store" => kind = "task"

InStore == part = "store"
InRun == part = "run"

MCNext ==
  /\ \/ InStore /\ Next /\ UNCHANGED runVars
     \/ InRun /\ RunNext /\ UNCHANGED vars
  /\ printed'[Stdout] + printed'[Stderr] <= IF kind = "task" THEN 3 ELSE 2
  /\ code' \in IF kind = "task" THEN {0, Killed} ELSE {0, 1}
  /\ kind = "hook" /\ command' = "exited" => code' = 1
  /\ UNCHANGED part

\* What LogStore and TaskRun assume: the threads run, and so do the clocks.
MCSpec ==
  /\ MCInit /\ [][MCNext]_<<vars, runVars, part>>
  /\ WF_vars(Engine /\ InStore) /\ SF_vars(BeginPoll /\ InStore) /\ SF_vars(Elapse /\ InStore)
  /\ WF_runVars(Run /\ InRun) /\ WF_runVars(Reader /\ InRun)
  /\ WF_runVars(GraceEnds /\ InRun) /\ WF_runVars(EngineDrains /\ InRun)
=============================================================================
