------------------------------- MODULE LogView -------------------------------
(***************************************************************************)
(* The terminal interface as a client of the daemon's log: the background  *)
(* task that keeps the connection and polls (crates/zaz-tui/src/daemon.rs), *)
(* the channels between it and the event loop (app.rs), and the combined   *)
(* view of the log buffer with its tail, its page cache and its clear      *)
(* cutoff (logs.rs).                                                       *)
(*                                                                         *)
(* The daemon is external here: it keeps the lines first..last and answers *)
(* Status and GetLogs as engine.rs does.  A line is its number; LinesPerMs *)
(* of them share a time stamp.  Offsets and scroll positions count from 0. *)
(*                                                                         *)
(* The tail is a queue of lines for every process that prints, each        *)
(* trimmed by itself.  Lines come once and rising (StreamedOnce), so a     *)
(* queue is the set of its lines, and the tail the union of the queues.    *)
(***************************************************************************)
EXTENDS Integers, Sequences, SequencesExt, FiniteSetsExt

CONSTANTS
  Limit,            \* lines one log poll asks for (500)
  PageSize, MaxPages,       \* PAGE_SIZE (200), MAX_CACHED_PAGES (10)
  MaxLocal,         \* max_lines, of each process (10 000)
  PrintedBy,        \* the process of a line, by its place in the map of the buffers
  Height,           \* lines of the log pane
  CommandRoom, LogRoom, PageRoom,   \* the channels (32, 256, 32)
  MinDelay, MaxDelay,       \* the reconnect backoff, in halves of a second
  LinesPerMs,       \* lines that share a time stamp
  Kept,             \* lines its retention keeps
  MaxLast,          \* bound: lines the daemon ever stores
  MaxOutages        \* bound: times the daemon goes away

ASSUME LogViewAssumption ==
  /\ {Limit, PageSize, MaxPages, MaxLocal, Height, CommandRoom, LogRoom, PageRoom,
       MinDelay, LinesPerMs} \subseteq Nat \ {0}
  /\ PrintedBy \in [1..MaxLast -> Nat]
  /\ {MaxDelay, Kept, MaxLast, MaxOutages} \subseteq Nat /\ MinDelay <= MaxDelay

VARIABLES
  first, last, serving,   \* the daemon: its lines, and whether it accepts connections
  client,      \* the background task's connection: "none", "up" or "broken"
  connected,   \* the flag it shares with the event loop
  delay,       \* reconnect_delay
  seen,        \* last_log_timestamp
  task,        \* where the background task is
  job,         \* what it still has to send of the last log poll
  commands, states, logs, pages,  \* the channels between the two, states as a flag
  status, wasConnected,   \* connection_status and was_connected
  tick,        \* where poll_daemon is
  local, received,        \* the lines in the tail, and local_received_total
  heard,                  \* every line the tail ever got, in that order
  total,       \* daemon_total_counts
  cache, lru, pending,    \* the page cache
  cutoff,      \* clear_cutoffs: what the daemon had, and the client; seen is what it had heard
  scroll, follow,
  quit,        \* the user quits: "no", "asked" with a Shutdown, "gone"
  outages

daemon == <<first, last, serving>>
link == <<client, connected, delay>>
poller == <<seen, task, job>>
channels == <<commands, states, logs, pages>>
pane == <<cache, lru, pending>>
buffer == <<local, received, heard, total, pane, cutoff>>
screen == <<status, wasConnected, tick>>
user == <<scroll, follow, quit>>
vars == <<daemon, link, poller, channels, screen, buffer, user, outages>>

LineSet == 1..MaxLast
At(n) == (n + LinesPerMs - 1) \div LinesPerMs
Least(a, b) == IF a < b THEN a ELSE b
Most(a, b) == IF a < b THEN b ELSE a
Minus(a, b) == Most(0, a - b)       \* saturating_sub

-----------------------------------------------------------------------------
(* The daemon: GetLogs with a limit starts at the oldest line it keeps.    *)
Rows == last - first + 1
RowsFrom(offset, n) == [i \in 1..Least(n, Minus(Rows, offset)) |-> first + offset + i - 1]

\* Its retention keeps the newest lines, and a sweep that fails keeps more.
Produce ==
  /\ serving /\ last < MaxLast /\ last' = last + 1
  /\ first' \in {first, Most(first, last + 2 - Kept)}
  /\ UNCHANGED <<serving, link, poller, channels, screen, buffer, user, outages>>

GoAway == /\ serving /\ outages < MaxOutages /\ outages' = outages + 1
          /\ serving' = FALSE /\ client' = IF client = "up" THEN "broken" ELSE client
          /\ UNCHANGED <<first, last, connected, delay, poller, channels, screen, buffer, user>>

\* A daemon that was asked to shut down is not started again.
ComeBack == /\ ~serving /\ quit = "no" /\ serving' = TRUE
            /\ UNCHANGED <<first, last, link, poller, channels, screen, buffer, user, outages>>

-----------------------------------------------------------------------------
(* background_task: while there is no connection it does nothing else.     *)
Running == quit # "gone"

ConnectFails ==
  /\ Running /\ client = "none" /\ ~serving
  /\ connected' = FALSE /\ delay' = Least(2 * delay, MaxDelay)
  /\ UNCHANGED <<daemon, client, poller, channels, screen, buffer, user, outages>>

\* The flag is set before the first status is asked for.
Connects ==
  /\ Running /\ client = "none" /\ serving
  /\ client' = "up" /\ connected' = TRUE /\ delay' = MinDelay /\ states' = TRUE
  /\ UNCHANGED <<daemon, poller, commands, logs, pages, screen, buffer, user, outages>>

Disconnects == client' = "none" /\ connected' = FALSE /\ UNCHANGED delay

Selecting == Running /\ client # "none" /\ task = "select"

\* handle_command; the command in hand is lost with the connection, and the page too that
\* the daemon answers with an error.
TakeCommand ==
  /\ Selecting /\ commands # <<>> /\ commands' = Tail(commands)
  /\ LET c == Head(commands)
     IN \/ /\ client = "broken" /\ Disconnects
           /\ UNCHANGED <<serving, states, pages>>
        \/ /\ client = "up" /\ c.kind = "page" /\ Len(pages) < PageRoom
           /\ pages' = Append(pages, [offset |-> c.offset, lines |-> RowsFrom(c.offset, c.limit),
                                      total |-> Rows])
           /\ UNCHANGED <<serving, link, states>>
        \/ /\ client = "up" /\ c.kind = "restart" /\ states' = TRUE
           /\ UNCHANGED <<serving, link, pages>>
        \/ /\ client = "up" /\ c.kind = "shutdown" /\ serving' = FALSE /\ client' = "broken"
           /\ UNCHANGED <<connected, delay, states, pages>>
  /\ UNCHANGED <<first, last, poller, logs, screen, buffer, user, outages>>

PollStatus ==
  /\ Selecting
  /\ \/ client = "broken" /\ Disconnects /\ UNCHANGED <<task, states>>
     \/ client = "up" /\ states' = TRUE /\ task' = "asking" /\ UNCHANGED link
  /\ UNCHANGED <<daemon, seen, job, commands, logs, pages, screen, buffer, user, outages>>

\* the lines of S among some lines, in their order
Passed(lines, S) ==
  LET upto[i \in 0..Len(lines)] ==
        IF i = 0 THEN <<>>
        ELSE IF lines[i] \in S THEN Append(upto[i - 1], lines[i]) ELSE upto[i - 1]
  IN upto[Len(lines)]

\* slip: a line with the time stamp of the last one is passed on again
Newer_OrEqual(lines) == Passed(lines, {n \in LineSet : At(n) >= seen})

\* Of what it gets the task passes on the lines that are newer than any it saw.
Newer(lines) == Passed(lines, {n \in LineSet : At(n) > seen})
NewSeen(lines) == IF lines = <<>> THEN seen ELSE Most(seen, At(Last(lines)))

PollLogs ==
  /\ Running /\ task = "asking"
  /\ \/ /\ client = "broken" /\ Disconnects /\ task' = "select" /\ UNCHANGED <<seen, job>>
     \/ /\ client = "up" /\ UNCHANGED link
        /\ LET lines == RowsFrom(0, Limit)
           IN job' = [lines |-> Newer(lines), total |-> Rows] /\ seen' = NewSeen(lines)
        /\ task' = "sending"
  /\ UNCHANGED <<daemon, channels, screen, buffer, user, outages>>

SendLine ==
  /\ Running /\ task = "sending" /\ job.lines # <<>> /\ Len(logs) < LogRoom
  /\ logs' = Append(logs, Head(job.lines)) /\ job' = [job EXCEPT !.lines = Tail(@)]
  /\ UNCHANGED <<daemon, link, seen, task, commands, states, pages, screen, buffer, user, outages>>

SendTotal ==
  /\ Running /\ task = "sending" /\ job.lines = <<>> /\ Len(pages) < PageRoom
  /\ pages' = Append(pages, [offset |-> 0, lines |-> <<>>, total |-> job.total])
  /\ task' = "select" /\ job' = [job EXCEPT !.total = 0]
  /\ UNCHANGED <<daemon, link, seen, commands, states, logs, screen, buffer, user, outages>>

-----------------------------------------------------------------------------
(* The log buffer. *)
NoCut == [daemon |-> 0, local |-> 0, seen |-> 0]

\* push: of each process the queue keeps the newest lines.
Newest(lines) ==
  {n \in lines : Cardinality({m \in lines : m > n /\ PrintedBy[m] = PrintedBy[n]}) < MaxLocal}

\* all_logs_combined_raw: the queues one after the other, then sorted by time stamp.
Before(m, n) ==
  \/ At(m) < At(n)
  \/ /\ At(m) = At(n)
     /\ PrintedBy[m] < PrintedBy[n] \/ (PrintedBy[m] = PrintedBy[n] /\ m < n)

Place(n) == Cardinality({m \in local : Before(m, n)})

RawTotal == Most(total, Cardinality(local))
TotalCount == Minus(RawTotal, cutoff.daemon)
TailStart == Minus(RawTotal, Cardinality(local))

InTail(i) == CHOOSE n \in local : Place(n) = i
Cached(i) ==
  LET page == i \div PageSize
  IN IF page \in DOMAIN cache /\ (i % PageSize) < Len(cache[page])
     THEN cache[page][(i % PageSize) + 1] ELSE 0

\* slip: the tail is placed from the end of the visible lines
Shown_FromVisible(v) ==
  CASE v >= TotalCount -> 0
    [] v < TotalCount /\ v >= TailStart -> InTail(v - TailStart)
    [] OTHER -> Cached(v)

\* get_display_lines: the line at a visible offset, 0 while it is not there.
Shown(v) ==
  LET offset == cutoff.daemon + v
  IN CASE v >= TotalCount -> 0
       [] v < TotalCount /\ offset >= TailStart -> InTail(offset - TailStart)
       [] OTHER -> Cached(offset)

\* slip: counts from the oldest line that is still here
Filtered_ByPlace == {n \in local : Place(n) >= cutoff.local}

\* all_logs_combined: with a filter only the tail is shown, and of it what has its index
\* behind the cutoff of this client.
Filtered ==
  LET start == Minus(received, Cardinality(local))
  IN {n \in local : start + Place(n) >= cutoff.local}

\* insert_page and PageCache::insert
InsertPage(p, lines) ==
  LET order == Append(SelectSeq(lru, LAMBDA q : q # p), p)
      kept == IF Len(order) > MaxPages THEN Tail(order) ELSE order
  IN /\ lru' = kept /\ pending' = pending \ {p}
     /\ cache' = [q \in ToSet(kept) |-> IF q = p THEN lines ELSE cache[q]]

\* needs_fetch: the pages of a range that are neither here nor on their way.
NeedsFetch(start, end) ==
  LET from == (cutoff.daemon + start) \div PageSize
      to == Minus(cutoff.daemon + end, 1) \div PageSize
  IN IF end = 0 THEN {}
     ELSE {p \in from..to : p * PageSize < TailStart /\ p \notin DOMAIN cache \cup pending}

Fetch(p) == [kind |-> "page", offset |-> p * PageSize,
             limit |-> Least((p + 1) * PageSize, RawTotal) - p * PageSize]

-----------------------------------------------------------------------------
(* poll_daemon, in the order it looks at the channels. *)
TakeUpdates ==
  /\ quit = "no" /\ tick = "event" /\ tick' = "pages"
  /\ wasConnected' = connected /\ states' = FALSE
  /\ LET noticed == IF connected = wasConnected THEN status
                    ELSE IF connected THEN "Reconnected" ELSE "Disconnected"
     IN status' = IF states /\ noticed \in {"Reconnected", "Initial"} THEN "Loaded" ELSE noticed
  /\ logs' = <<>> /\ local' = Newest(local \cup ToSet(logs))
  /\ received' = received + Len(logs) /\ heard' = heard \o logs
  /\ UNCHANGED <<daemon, link, poller, commands, pages, total, pane, cutoff, user, outages>>

TakePage ==
  /\ quit = "no" /\ tick = "pages" /\ pages # <<>>
  /\ LET r == Head(pages)
     IN /\ pages' = Tail(pages) /\ total' = r.total
        /\ IF r.lines # <<>> THEN InsertPage(r.offset \div PageSize, r.lines)
                             ELSE UNCHANGED pane
  /\ UNCHANGED <<daemon, link, poller, commands, states, logs, screen, local, received,
                 heard, cutoff, user, outages>>

\* request_pages_if_needed: a page is marked whether its request finds room or not.
RequestPages ==
  /\ quit = "no" /\ tick = "pages" /\ pages = <<>> /\ tick' = "event"
  /\ LET at == Least(scroll, Minus(TotalCount, Height))
         wanted == IF follow THEN {} ELSE
                   NeedsFetch(Minus(at, PageSize), Least(at + Height + PageSize, TotalCount))
         asked == SetToSortSeq(wanted, <)
         room == CommandRoom - Len(commands)
     IN /\ pending' = pending \cup wanted
        /\ commands' = commands \o [i \in 1..Least(room, Len(asked)) |-> Fetch(asked[i])]
  /\ UNCHANGED <<daemon, link, poller, states, logs, pages, status, wasConnected, local,
                 received, heard, total, cache, lru, cutoff, user, outages>>

-----------------------------------------------------------------------------
(* What the user does between two ticks. *)
AtKeys == tick = "event" /\ quit = "no"

Queue(c) == commands' = IF Len(commands) < CommandRoom THEN Append(commands, c) ELSE commands

ScrollTo(n) ==
  /\ AtKeys /\ n <= Minus(TotalCount, Height) /\ scroll' = n /\ follow' = FALSE
  /\ UNCHANGED <<daemon, link, poller, channels, screen, buffer, quit, outages>>

Follow == /\ AtKeys /\ ~follow /\ follow' = TRUE /\ scroll' = 0
          /\ UNCHANGED <<daemon, link, poller, channels, screen, buffer, quit, outages>>

\* slip: the cutoff counts the lines that are here, not those that were received
Clear_ByLength ==
  /\ AtKeys
  /\ cutoff' = [daemon |-> RawTotal, local |-> Cardinality(local), seen |-> Len(heard)]
  /\ cache' = <<>> /\ lru' = <<>> /\ pending' = {} /\ scroll' = 0
  /\ UNCHANGED <<daemon, link, poller, channels, screen, local, received, heard, total,
                 follow, quit, outages>>

\* clear_view("*")
Clear ==
  /\ AtKeys
  /\ cutoff' = [daemon |-> RawTotal, local |-> received, seen |-> Len(heard)]
  /\ cache' = <<>> /\ lru' = <<>> /\ pending' = {} /\ scroll' = 0
  /\ UNCHANGED <<daemon, link, poller, channels, screen, local, received, heard, total,
                 follow, quit, outages>>

Restart == /\ AtKeys /\ Queue([kind |-> "restart"])
           /\ UNCHANGED <<daemon, link, poller, states, logs, pages, screen, buffer, user, outages>>

\* With stop_on_exit the Shutdown is queued, and the process ends when it likes.
Quit == /\ AtKeys /\ Queue([kind |-> "shutdown"]) /\ quit' = "asked"
        /\ UNCHANGED <<daemon, link, poller, states, logs, pages, screen, buffer, scroll,
                       follow, outages>>

Exit == /\ quit = "asked" /\ quit' = "gone" /\ client' = "none" /\ connected' = FALSE
        /\ task' = "select" /\ job' = [lines |-> <<>>, total |-> 0]
        /\ commands' = <<>> /\ states' = FALSE /\ logs' = <<>> /\ pages' = <<>>
        /\ UNCHANGED <<daemon, delay, seen, screen, buffer, scroll, follow, outages>>

-----------------------------------------------------------------------------
Init ==
  /\ first = 1 /\ last = 0 /\ serving \in BOOLEAN
  /\ client = "none" /\ connected = FALSE /\ delay = MinDelay
  /\ seen = 0 /\ task = "select" /\ job = [lines |-> <<>>, total |-> 0]
  /\ commands = <<>> /\ states = FALSE /\ logs = <<>> /\ pages = <<>>
  /\ status = "Initial" /\ wasConnected = FALSE /\ tick = "event"
  /\ local = {} /\ received = 0 /\ heard = <<>> /\ total = 0
  /\ cache = <<>> /\ lru = <<>> /\ pending = {} /\ cutoff = NoCut
  /\ scroll = 0 /\ follow = TRUE /\ quit = "no" /\ outages = 0

Task == ConnectFails \/ Connects \/ PollLogs \/ SendLine \/ SendTotal

App == TakeUpdates \/ TakePage \/ RequestPages

Next ==
  \/ Produce \/ GoAway \/ ComeBack
  \/ ConnectFails \/ Connects \/ TakeCommand \/ PollStatus \/ PollLogs \/ SendLine \/ SendTotal
  \/ TakeUpdates \/ TakePage \/ RequestPages
  \/ \E n \in 0..MaxLast : ScrollTo(n)
  \/ Follow \/ Clear \/ Restart \/ Quit \/ Exit

Spec == Init /\ [][Next]_vars

\* Both loops run, the daemon comes back, keys do not keep the poll timer from firing, and
\* a tick's drain of the pages is quicker than the timer that refills them.
FairSpec ==
  /\ Spec /\ WF_vars(Task) /\ WF_vars(App) /\ SF_vars(PollStatus) /\ SF_vars(TakeCommand)
  /\ SF_vars(RequestPages) /\ WF_vars(ComeBack)

-----------------------------------------------------------------------------
(* Every variable holds what the code may put into it. *)
PageSet == [offset : Nat, lines : Seq(LineSet), total : 0..MaxLast]
TypeOK ==
  /\ first \in 1..(MaxLast + 1) /\ last \in 0..MaxLast /\ serving \in BOOLEAN
  /\ client \in {"none", "up", "broken"} /\ connected \in BOOLEAN
  /\ delay \in MinDelay..MaxDelay
  /\ seen \in 0..MaxLast /\ task \in {"select", "asking", "sending"}
  /\ job \in [lines : Seq(LineSet), total : 0..MaxLast]
  /\ Len(commands) <= CommandRoom /\ states \in BOOLEAN
  /\ logs \in Seq(LineSet) /\ Len(logs) <= LogRoom
  /\ pages \in Seq(PageSet) /\ Len(pages) <= PageRoom
  /\ status \in {"Initial", "Loaded", "Disconnected", "Reconnected"}
  /\ wasConnected \in BOOLEAN /\ tick \in {"event", "pages"}
  /\ local \subseteq LineSet /\ heard \in Seq(LineSet) /\ {received, total} \subseteq 0..MaxLast
  /\ \A p \in DOMAIN cache : cache[p] \in Seq(LineSet)
  /\ \A k \in {"daemon", "local", "seen"} : cutoff[k] \in 0..MaxLast
  /\ scroll \in 0..MaxLast /\ follow \in BOOLEAN
  /\ quit \in {"no", "asked", "gone"} /\ outages \in 0..MaxOutages

(* Over polls, lost connections and daemons that come back, the stream into the tail       *)
(* brings each line once and in order, and skips only what retention took.                 *)
StreamedOnce ==
  LET stream == heard \o logs \o job.lines
  IN \A i \in 1..(Len(stream) - 1) :
       /\ stream[i] < stream[i + 1]
       /\ stream[i] + 1 < stream[i + 1] => stream[i + 1] <= first

\* What had come when the user cleared the view.
Cleared == {heard[i] : i \in 1..cutoff.seen}

\* No process has lost a line that is newer than one another process still has.
TailIsTheNewest == \A n \in local, m \in ToSet(heard) : m \notin local => m < n

(* What the user cleared stays away from the filtered view, through all that is received   *)
(* and trimmed since, as long as the tail is the newest part of what came: the index of a  *)
(* line is then the one it had at the clear.                                               *)
ClearedStayHidden == TailIsTheNewest => Filtered \cap Cleared = {}

(* A line that comes after the clear is in the filtered view, whichever process lost lines *)
(* and however many: trimming never moves an index down.                                   *)
NewLinesShow == local \ Cleared \subseteq Filtered

(* The view shows at each place the daemon's line of that place, or nothing yet.           *)
Honest == \A v \in 0..(MaxLast - 1) : Shown(v) \in {0, first + cutoff.daemon + v}

NewestHere == last = 0 \/ last \in local

(* Once the daemon's lines stop, the tail holds the newest of them and the view, wherever  *)
(* it is scrolled and whatever it cached meanwhile, shows every line at its own place: as  *)
(* long as retention took none and one poll asks for all of them.                          *)
ViewSettles ==
  <>[](quit # "no" \/ first > 1 \/ last > Limit \/ (Honest /\ NewestHere))

(* "Absolute locally streamed index hidden by this clear" (logs.rs): a cleared line is     *)
(* gone from the view, also when another process has printed more than its queue holds.    *)
ClearedStayGone == Filtered \cap Cleared = {}

(* "In tail range - serve from local buffer" (logs.rs): with all the daemon's lines heard   *)
(* and counted, each is at its place.                                                      *)
TailIsInPlace == first = 1 /\ total = last /\ Len(heard) = last => Honest

(* The poll forwards "all logs newer than what we've previously seen".                     *)
NewestArrives == <>[](quit # "no" \/ NewestHere)

(* "With --stop-on-exit, quitting also stops the connected daemon."                        *)
QuitStopsTheDaemon == (quit = "asked" /\ client = "up") ~> ~serving

(* A page that is marked as "currently being fetched" arrives, or is no longer marked.     *)
PendingEnds ==
  \A p \in 0..MaxLast : p \in pending ~> (p \notin pending \/ quit # "no")
=============================================================================
