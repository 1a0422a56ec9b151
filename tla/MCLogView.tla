------------------------------ MODULE MCLogView ------------------------------
(* The terminal interface from one side: its log, or its panes, or its tree.              *)
(* The log: a daemon of a few lines, pages of one line and channels with room for one, so *)
(* that pages leave the cache and every channel fills up; two processes print, of which   *)
(* one soon has more lines than its queue holds where the queues are short.               *)
(* The panes and the tree: three processes in two orders, of which one prints, and at     *)
(* most four panes per page; a user of the tree leaves the keys of the grid alone, and    *)
(* the other way round, and nobody scrolls a pane that stays empty.                       *)
EXTENDS LogView, Panes

CONSTANTS api, db, web, Sides

VARIABLE side

MCLayouts == {<<[name |-> "one", members |-> <<api, db>>], [name |-> "two", members |-> <<web>>]>>,
              <<[name |-> "two", members |-> <<web>>], [name |-> "one", members |-> <<api, db>>]>>}

\* a reload that drops a group
Shrinking == MCLayouts \cup {<<[name |-> "one", members |-> <<api>>]>>}

\* the second line is of the quiet process
MCPrintedBy == [n \in LineSet |-> IF n = 2 THEN 1 ELSE 2]

\* the first line is
QuietFirst == [n \in LineSet |-> IF n = 1 THEN 1 ELSE 2]

MCHeights == [n \in 1..6 |-> 2]

MCInit ==
  /\ Init /\ PanesInit
  /\ side \in IF serving THEN {"log"} ELSE Sides
  /\ side = "log" => style = "tree"

LogSide == side = "log" /\ Next /\ UNCHANGED paneVars

StyleOf(s) == IF s = "panes" THEN "grid" ELSE "tree"

PanesSide ==
  /\ side \in {"panes", "tree"} /\ UNCHANGED vars
  /\ \/ Frame \/ NoKey
     \/ style = StyleOf(side) /\ (GridKeys \/ TreeKeys)
     \/ style = StyleOf(side) /\ (style = "grid" => Selected = api) /\ ScrollKeys
     \/ \E s \in {"tree", "grid"} : Switch(s)
  /\ perPage' <= 4
  /\ lines'[IF side = "panes" THEN Whole ELSE api] = 0

MCNext == (LogSide \/ PanesSide) /\ UNCHANGED side

OnLog == side = "log"

MCSpec ==
  /\ MCInit /\ [][MCNext]_<<vars, paneVars, side>>
  /\ WF_vars(Task /\ OnLog) /\ WF_vars(App /\ OnLog) /\ SF_vars(PollStatus /\ OnLog)
  /\ SF_vars(TakeCommand /\ OnLog) /\ SF_vars(RequestPages /\ OnLog)
  /\ WF_vars(ComeBack /\ OnLog)
=============================================================================
