------------------------------ MODULE LogStore ------------------------------
(***************************************************************************)
(* The daemon's log store: a bounded channel the readers of the processes  *)
(* fill, the hot buffers the engine drains it into, and the database       *)
(* behind them (src/crates/zaz-daemon/src/log_store.rs and                 *)
(* log_storage_sqlite.rs), with the engine's loop as far as it drains,     *)
(* sends, sweeps and shuts down (src/src/main.rs, engine.rs).              *)
(*                                                                         *)
(* The readers run on threads of their own and block while the channel is  *)
(* full.  The engine is the only one who drains it, and sends into it too. *)
(***************************************************************************)
EXTENDS Integers, Sequences, SequencesExt, FiniteSetsExt

CONSTANTS
  Processes,          \* the names lines are stored under
  None,
  Capacity,           \* of the channel, in lines
  MaxLines,           \* of a hot buffer
  MemoryLimit,        \* of all hot buffers, in size units
  DiskLines,          \* rows the policy keeps per process
  DiskBytes,          \* size the policy keeps, in size units
  Overhead,           \* what the schema takes of it, external to the rows
  Chunk,              \* rows one statement of the size pass deletes
  Cadence,            \* ticks between two periodic sweeps
  MaxMade,            \* bound: lines ever made
  MaxFaults,          \* bound: database statements that fail
  MaxCrashes          \* bound: daemons that die

ASSUME LogStoreAssumption ==
  /\ IsFiniteSet(Processes) /\ None \notin Processes
  /\ {Capacity, MaxLines, Chunk, Cadence} \subseteq Nat \ {0}
  /\ {MemoryLimit, DiskLines, DiskBytes, Overhead, MaxMade, MaxFaults, MaxCrashes}
       \subseteq Nat

VARIABLES
  made,      \* lines made so far: the next one's time stamp
  own,       \* the line the engine waits to send
  channel,   \* LogStore's rx and tx
  batch,     \* what the drain collected, for the database
  rest,      \* of it, what push_internal has not seen
  hot,       \* buffers
  memory,    \* estimated_memory
  heard,     \* what a subscriber of the broadcast heard, by time stamp
  sqlite,    \* a database is attached
  disk,      \* log_entries, by id
  age,       \* ticks since last_retention_at, Cadence once a sweep is due
  pc, then,  \* where the engine is, and where it goes when the drain returns
  faults, crashes

lines == <<made, own>>
store == <<batch, rest, hot, memory, heard>>
files == <<sqlite, disk, age>>
bounds == <<faults, crashes>>
vars == <<lines, channel, store, files, pc, then, bounds>>

\* estimate_log_size: a line a process printed is longer than one of the daemon's.
Line(p, s, n) == [process |-> p, stamp |-> s, size |-> n]
LineSet == {Line(p, s, n) : p \in Processes, s \in 1..MaxMade, n \in 1..2}

Threshold == (MemoryLimit * 9) \div 10
Target == (MemoryLimit * 8) \div 10

SizeOf(s) ==
  LET first[n \in 0..Len(s)] == IF n = 0 THEN 0 ELSE first[n - 1] + s[n].size
  IN first[Len(s)]

\* The elements of s that are in S, in their order: SelectSeq, as a recursive function.
Keeping(s, S) ==
  LET kept[n \in 0..Len(s)] ==
        IF n = 0 THEN <<>>
        ELSE IF s[n] \in S THEN Append(kept[n - 1], s[n]) ELSE kept[n - 1]
  IN kept[Len(s)]

LinesOf(p) == [process : {p}, stamp : 1..MaxMade, size : 1..2]
RowsOf(rows, p) == Keeping(rows, LinesOf(p))
LastOf(s, n) == IF Len(s) > n THEN SubSeq(s, Len(s) - n + 1, Len(s)) ELSE s

Up == pc # "down"

Fresh == made < MaxMade /\ made' = made + 1

-----------------------------------------------------------------------------
Init ==
  /\ own = None
  /\ channel = <<>> /\ batch = <<>> /\ rest = <<>>
  /\ hot = [p \in Processes |-> <<>>] /\ memory = 0
  /\ age = Cadence /\ pc = "select" /\ then = "select"
  /\ made = 0 /\ heard = <<>> /\ disk = <<>> /\ sqlite \in BOOLEAN
  /\ faults = 0 /\ crashes = 0

-----------------------------------------------------------------------------
(* The reader of a process's output: blocking_send waits for room. *)
Read(p) ==
  /\ Up /\ Len(channel) < Capacity /\ Fresh
  /\ channel' = Append(channel, Line(p, made + 1, 2))
  /\ UNCHANGED <<own, store, files, pc, then, bounds>>

-----------------------------------------------------------------------------
\* slip: the newest line is pushed first
Collect_NewestFirst ==
  /\ pc = "collect"
  /\ \/ /\ channel # <<>>
        /\ channel' = Tail(channel)
        /\ batch' = Append(batch, Head(channel)) /\ rest' = <<Head(channel)>> \o rest
        /\ UNCHANGED pc
     \/ /\ channel = <<>> /\ pc' = IF batch = <<>> THEN then ELSE "store"
        /\ UNCHANGED <<channel, batch, rest>>
  /\ UNCHANGED <<lines, hot, memory, heard, files, then, bounds>>

(* drain: everything try_recv finds becomes one batch. *)
Collect ==
  /\ pc = "collect"
  /\ \/ /\ channel # <<>>
        /\ channel' = Tail(channel)
        /\ batch' = Append(batch, Head(channel)) /\ rest' = Append(rest, Head(channel))
        /\ UNCHANGED pc
     \/ /\ channel = <<>> /\ pc' = IF batch = <<>> THEN then ELSE "store"
        /\ UNCHANGED <<channel, batch, rest>>
  /\ UNCHANGED <<lines, hot, memory, heard, files, then, bounds>>

\* The subscribers hear a line once it is stored and the eviction it caused is over.
Broadcast == /\ heard' = Append(heard, Head(rest).stamp) /\ rest' = Tail(rest)
             /\ pc' = "store"

\* slip: the line that leaves a full buffer is not taken off the account
Store_NoCredit ==
  /\ pc = "store" /\ rest # <<>>
  /\ LET l == Head(rest)
     IN /\ hot' = [hot EXCEPT ![l.process] = LastOf(Append(@, l), MaxLines)]
        /\ memory' = memory + l.size
  /\ IF memory' > Threshold THEN pc' = "evict" /\ UNCHANGED <<rest, heard>> ELSE Broadcast
  /\ UNCHANGED <<lines, channel, batch, files, then, bounds>>

\* push_internal: the line, the bound of its own buffer, then the bound of all of them.
Store ==
  /\ pc = "store" /\ rest # <<>>
  /\ LET l == Head(rest)
         grown == Append(hot[l.process], l)
         kept == LastOf(grown, MaxLines)
     IN /\ hot' = [hot EXCEPT ![l.process] = kept]
        /\ memory' = memory + l.size - (SizeOf(grown) - SizeOf(kept))
  /\ IF memory' > Threshold THEN pc' = "evict" /\ UNCHANGED <<rest, heard>> ELSE Broadcast
  /\ UNCHANGED <<lines, channel, batch, files, then, bounds>>

Longest == {p \in Processes : hot[p] # <<>> /\ \A q \in Processes : Len(hot[q]) <= Len(hot[p])}

\* maybe_evict_for_memory: the oldest line of a longest buffer goes, until the target is met.
Evict ==
  /\ pc = "evict"
  /\ \E p \in Longest :
        /\ hot' = [hot EXCEPT ![p] = Tail(@)]
        /\ memory' = memory - Head(hot[p]).size
  /\ IF memory' > Target THEN UNCHANGED <<pc, rest, heard>> ELSE Broadcast
  /\ UNCHANGED <<lines, channel, batch, files, then, bounds>>

Stored ==
  /\ pc = "store" /\ rest = <<>>
  /\ IF sqlite THEN pc' = "write" /\ UNCHANGED batch ELSE pc' = then /\ batch' = <<>>
  /\ UNCHANGED <<lines, channel, rest, hot, memory, heard, files, then, bounds>>

-----------------------------------------------------------------------------
(* A failing statement returns through push_batch; whoever drained logs the *)
(* error and goes on.                                                       *)
Fails ==
  faults < MaxFaults /\ faults' = faults + 1 /\ UNCHANGED crashes /\ pc' = then

\* push_batch of the database: one transaction, all of it or nothing.
Write ==
  /\ pc = "write" /\ batch' = <<>>
  /\ \/ disk' = disk \o batch /\ pc' = "sweep" /\ UNCHANGED bounds
     \/ UNCHANGED disk /\ Fails
  /\ UNCHANGED <<lines, channel, rest, hot, memory, heard, sqlite, age, then>>

Crowded == {p \in Processes : Len(RowsOf(disk, p)) > DiskLines}

\* slip: ORDER BY id DESC
Surplus_Newest(p) ==
  LET mine == RowsOf(disk, p)
  IN ToSet(SubSeq(mine, DiskLines + 1, Len(mine)))

\* The first rows of p that its surplus is made of.
Surplus(p) ==
  LET mine == RowsOf(disk, p)
  IN ToSet(SubSeq(mine, 1, Len(mine) - DiskLines))

\* prune_per_process: a statement for each crowded process, and any of them may fail.
Sweep ==
  /\ pc = "sweep"
  /\ \E done \in SUBSET Crowded :
        /\ LET gone == UNION {Surplus(p) : p \in done}
           IN disk' = Keeping(disk, LineSet \ gone)
        /\ IF done = Crowded THEN pc' = "trim" /\ UNCHANGED bounds ELSE Fails
  /\ UNCHANGED <<lines, channel, store, sqlite, age, then>>

LogicalBytes(rows) == Overhead + SizeOf(rows)

\* prune_to_size: the oldest chunk, again and again, until the size fits or nothing is left.
Trim ==
  /\ pc = "trim"
  /\ \/ /\ LogicalBytes(disk) > DiskBytes /\ disk # <<>>
        /\ disk' = SubSeq(disk, Chunk + 1, Len(disk))
        /\ UNCHANGED <<pc, age, bounds>>
     \/ /\ LogicalBytes(disk) <= DiskBytes \/ disk = <<>>
        /\ age' = 0 /\ pc' = then /\ UNCHANGED <<disk, bounds>>
     \/ Fails /\ UNCHANGED <<disk, age>>
  /\ UNCHANGED <<lines, channel, store, sqlite, then>>

-----------------------------------------------------------------------------
(* The engine's loop.  A command or a shutdown drops the poll branch       *)
(* wherever it awaits, with the line it was about to send.                 *)
Awaiting == pc = "select" \/ pc = "check" \/ (pc = "sending" /\ then = "check")

Drain(after) == pc' = "collect" /\ then' = after

\* slip: only a request drains
BeginPoll_NoDrain == /\ pc = "select" /\ pc' = "tick" /\ then' = "tick"
                     /\ UNCHANGED <<lines, channel, store, files, bounds>>

BeginPoll == /\ pc = "select" /\ Drain("tick")
             /\ UNCHANGED <<lines, channel, store, files, bounds>>

BeginRequest == /\ Awaiting /\ own' = None /\ Drain("answer")
                /\ UNCHANGED <<made, channel, store, files, bounds>>

BeginShutdown == /\ Awaiting /\ own' = None /\ pc' = "stopping" /\ then' = "select"
                 /\ UNCHANGED <<made, channel, store, files, bounds>>

\* maybe_enforce_retention_tick
RetentionTick ==
  /\ pc = "tick" /\ then' = "check"
  /\ pc' = IF sqlite /\ age = Cadence THEN "sweep" ELSE "check"
  /\ UNCHANGED <<lines, channel, store, files, bounds>>

\* A service exits, a stop runs a hook or is escalated: the engine sends a line about it,
\* and awaits room for it.
Report ==
  /\ pc \in {"check", "answer", "stopping"}
  /\ \E p \in Processes : Fresh /\ own' = Line(p, made + 1, 1)
  /\ then' = pc /\ pc' = "sending"
  /\ UNCHANGED <<channel, store, files, bounds>>

SendOwn ==
  /\ pc = "sending" /\ Len(channel) < Capacity
  /\ channel' = Append(channel, own) /\ own' = None /\ pc' = then
  /\ UNCHANGED <<made, store, files, then, bounds>>

\* slip: the line is kept in memory only
PushLog_HotOnly ==
  /\ pc \in {"check", "answer"}
  /\ \E p \in Processes : Fresh /\ rest' = <<Line(p, made + 1, 1)>>
  /\ then' = pc /\ pc' = "store"
  /\ UNCHANGED <<own, channel, batch, hot, memory, heard, files, bounds>>

\* push_log: a line of the engine that goes past the channel.
PushLog ==
  /\ pc \in {"check", "answer"}
  /\ \E p \in Processes : Fresh /\ batch' = <<Line(p, made + 1, 1)>>
  /\ rest' = batch' /\ then' = pc /\ pc' = "store"
  /\ UNCHANGED <<own, channel, hot, memory, heard, files, bounds>>

EndTurn == /\ pc \in {"check", "answer"} /\ pc' = "select" /\ then' = "select"
           /\ UNCHANGED <<lines, channel, store, files, bounds>>

\* The services are stopped: drain_and_flush_now.
EndStops == /\ pc = "stopping" /\ Drain("flush")
            /\ UNCHANGED <<lines, channel, store, files, bounds>>

GoDown(where) ==
  /\ pc' = where /\ then' = "select"
  /\ own' = None
  /\ channel' = <<>> /\ batch' = <<>> /\ rest' = <<>>
  /\ hot' = [p \in Processes |-> <<>>] /\ memory' = 0

Flush == /\ pc = "flush" /\ GoDown("down")
         /\ UNCHANGED <<made, heard, files, bounds>>

\* Time is looked at by the tick alone, so it passes while the loop sleeps.
Elapse == /\ pc = "select" /\ age < Cadence /\ age' = age + 1
          /\ UNCHANGED <<lines, channel, store, sqlite, disk, pc, then, bounds>>

\* The daemon dies, and another opens what it left on disk.
Crash == /\ Up /\ crashes < MaxCrashes /\ crashes' = crashes + 1 /\ GoDown("down")
         /\ UNCHANGED <<made, heard, files, faults>>

Restart == /\ pc = "down"
           /\ GoDown("select") /\ age' = Cadence
           /\ UNCHANGED <<made, heard, sqlite, disk, bounds>>

Engine == Collect \/ Store \/ Evict \/ Stored \/ Write \/ Sweep \/ Trim \/ RetentionTick
          \/ SendOwn \/ EndTurn \/ EndStops \/ Flush

Next ==
  \/ \E p \in Processes : Read(p)
  \/ Collect \/ Store \/ Evict \/ Stored \/ Write \/ Sweep \/ Trim
  \/ BeginPoll \/ BeginRequest \/ BeginShutdown \/ RetentionTick
  \/ Report \/ SendOwn \/ PushLog \/ EndTurn \/ EndStops \/ Flush
  \/ Elapse \/ Crash \/ Restart

Spec == Init /\ [][Next]_vars

\* The engine's thread runs, the clock goes on, and tokio's select takes a ready branch at
\* random, so the poll branch is not passed over for ever.
FairSpec ==
  /\ Spec /\ WF_vars(Engine) /\ SF_vars(BeginPoll) /\ SF_vars(Elapse)

-----------------------------------------------------------------------------
(* Every line is where the code may have put it. *)
TypeOK ==
  /\ made \in 0..MaxMade
  /\ own \in LineSet \cup {None}
  /\ {channel, batch, rest, disk} \subseteq Seq(LineSet) /\ Len(channel) <= Capacity
  /\ hot \in [Processes -> Seq(LineSet)] /\ memory \in Nat /\ heard \in Seq(1..MaxMade)
  /\ sqlite \in BOOLEAN /\ age \in 0..Cadence
  /\ pc \in {"select", "collect", "store", "evict", "write", "sweep", "trim", "tick",
              "check", "answer", "sending", "stopping", "flush", "down"}
  /\ then \in {"select", "tick", "check", "answer", "stopping", "flush"}
  /\ faults \in 0..MaxFaults /\ crashes \in 0..MaxCrashes

\* What buffers hold.
Held(buffers) ==
  LET of[T \in SUBSET Processes] ==
        IF T = {} THEN 0 ELSE LET p == CHOOSE q \in T : TRUE
                              IN of[T \ {p}] + SizeOf(buffers[p])
  IN of[Processes]

(* The account estimated_memory keeps agrees with what the buffers hold, whichever of the  *)
(* two evictions took a line away, and between two lines both limits hold.                 *)
MemoryAccounted ==
  /\ memory = Held(hot)
  /\ \A p \in Processes : Len(hot[p]) <= MaxLines
  /\ pc # "evict" => memory <= Threshold

(* A line sent to the channel is heard once, in the order of sending, but for the lines    *)
(* the engine pushes past the channel; only a daemon that goes away loses any.             *)
Feed == INSTANCE LineFeed WITH
  Lines <- 1..MaxMade,
  queue <- LET waiting == rest \o channel IN [i \in DOMAIN waiting |-> waiting[i].stamp]
FeedSpec == Feed!Spec

(* While no statement failed, the tail a client reads from memory and the history it reads *)
(* from the database tell the same story: of each process one is the end of the other.     *)
TailMatchesHistory ==
  (sqlite /\ faults = 0 /\ pc \in {"select", "tick", "check", "answer", "sending", "flush"}
     /\ batch = <<>>)
  => \A p \in Processes :
       LET rows == RowsOf(disk, p)
       IN IsSuffix(hot[p], rows) \/ IsSuffix(rows, hot[p])

(* Retention takes the oldest rows of a process and no others, and no more of them than    *)
(* the policy asks: down to the rows it keeps, or one chunk while the size is over.        *)
OnlyTheOldestGo ==
  [][\A p \in Processes :
       LET old == RowsOf(disk, p)
           new == RowsOf(disk', p)
           kept == Keeping(old, ToSet(new))
           gone == Len(old) - Len(kept)
       IN /\ IsSuffix(kept, old) /\ IsPrefix(kept, new)
          /\ \/ gone = 0
             \/ Len(new) = DiskLines
             \/ gone <= Chunk /\ LogicalBytes(disk) > DiskBytes]_vars

Within(rows) ==
  /\ \A p \in Processes : Len(RowsOf(rows, p)) <= DiskLines
  /\ LogicalBytes(rows) <= DiskBytes \/ rows = <<>>

\* The engine waits for room in the channel that nobody but the engine drains.
Stuck == pc = "sending" /\ Len(channel) = Capacity

(* A line in the channel is heard, unless the daemon went away or waits for itself.        *)
EveryLineIsHeard ==
  \A s \in 1..MaxMade :
    (\E i \in DOMAIN channel : channel[i].stamp = s)
      ~> (s \in ToSet(heard) \/ pc = "down" \/ Stuck)

(* A shutdown comes to an end ("The loop terminates because every service either exits,    *)
(* escalates once and clears its deadline, or is still inside its window").                *)
ShutdownEnds == pc = "stopping" ~> pc = "down"
=============================================================================
