-------------------------------- MODULE Panes --------------------------------
(***************************************************************************)
(* What the keys of the terminal interface do to the selection, the page   *)
(* and the scroll positions of its two styles: the grid of panes           *)
(* (crates/zaz-tui/src/styles/multi_pane.rs) and the tree with the         *)
(* combined log (styles/full.rs), in the event loop of app.rs, which polls *)
(* the daemon, draws, and then waits for one key.                          *)
(*                                                                         *)
(* The daemon is external: a poll brings any list of groups and any number *)
(* of lines.  Indices count from 0 and are words of the machine: what goes *)
(* below 0 comes round at the top, as in a release build.                  *)
(***************************************************************************)
EXTENDS Integers, Sequences, SequencesExt

CONSTANTS
  Layouts,       \* the lists of groups a poll may bring
  Processes, Noisy,   \* the processes, and those that print
  Whole,         \* the name "*" of the combined log
  Nobody,
  Counts,        \* bound: the numbers of lines a log may have
  Heights,       \* lines a frame leaves a pane, by panes per page
  Undrawn,       \* the height of a pane that was never drawn (20)
  Word           \* numbers of a machine word

VARIABLES
  groups,        \* state.groups
  lines,         \* total_count, by name
  style, focus,
  item,          \* selected_item of the tree
  selected,      \* selected_pane
  page, perPage, \* current_page; panes_per_page, 0 before the first frame of the grid
  scroll_, follow_,   \* pane_scroll and pane_follow; for -1 log_scroll and follow of the log
  height,        \* pane_visible_height and, for -1, log_visible_height
  highlighted,   \* history: what the last frame showed as selected
  treeFocus,     \* history: the focus the tree was left with
  turn           \* of the event loop: "frame" or "key"

shown == <<groups, lines>>
place == <<focus, item, selected, page>>
views == <<scroll_, follow_>>
frame == <<perPage, height, highlighted>>
paneVars == <<shown, style, place, views, frame, treeFocus, turn>>

AtMost(n, m) == IF n < m THEN n ELSE m
AtLeast(n, m) == IF n < m THEN m ELSE n
Less(n, m) == AtLeast(n - m, 0)     \* saturating_sub
Wrap(n) == n % Word

-----------------------------------------------------------------------------
(* get_processes and the flat list of the tree *)
Grid(l) == FlattenSeq([i \in DOMAIN l |-> l[i].members])
Tree(l) == FlattenSeq([i \in DOMAIN l |-> <<l[i].name>> \o l[i].members])
EntryAt(s, i) == IF i < Len(s) THEN s[i + 1] ELSE Nobody

TaskCount == Len(Grid(groups))
ProcessAt(i) == EntryAt(Grid(groups), i)

ASSUME PanesAssumption ==
  /\ Layouts \subseteq Seq([name : STRING, members : Seq(Processes)])
  /\ Noisy \subseteq Processes /\ {Whole, Nobody} \cap Processes = {}
  /\ Heights \in [1..6 -> Nat] /\ Undrawn \in Nat /\ 0 \in Counts /\ Counts \subseteq Nat
  /\ Word \in Nat /\ \A l \in Layouts : Len(Grid(l)) + 12 < Word

\* get_selected_process: what a restart is sent for
Selected == IF style = "grid" THEN ProcessAt(selected) ELSE EntryAt(Tree(groups), item)

-----------------------------------------------------------------------------
(* Scrolling.  View -1 is the combined log, the others are panes. *)
Get(f, v, default) == IF v \in DOMAIN f THEN f[v] ELSE default
ScrollOf(v) == Get(scroll_, v, 0)
Follows(v) == Get(follow_, v, TRUE)
HeightOf(v) == Get(height, v, Undrawn)

\* a map with x put at every view of S
With(f, S, x) == [v \in DOMAIN f \cup S |-> IF v \in S THEN x ELSE f[v]]

NameOf(v) == IF v = -1 THEN Whole ELSE ProcessAt(v)
TotalOf(v) == IF NameOf(v) = Nobody THEN 0 ELSE lines[NameOf(v)]
MaxScroll(v) == Less(TotalOf(v), HeightOf(v))

\* where the frame puts the view
Displayed(v) == IF Follows(v) THEN MaxScroll(v) ELSE AtMost(ScrollOf(v), MaxScroll(v))

\* where a key that scrolls starts from
Current(v) == IF Follows(v) THEN MaxScroll(v) ELSE ScrollOf(v)

View == IF style = "grid" THEN selected ELSE -1
Key == turn = "key" /\ turn' = "frame"

Put(v, n, f) ==
  /\ scroll_' = With(scroll_, {v}, n) /\ follow_' = With(follow_, {v}, f)
  /\ Key /\ UNCHANGED <<shown, style, place, frame, treeFocus>>

\* Page and half page, j and k of the grid need a process in the pane.
Scrollable == style = "tree" \/ ProcessAt(selected) # Nobody

Steps == {HeightOf(View), HeightOf(View) \div 2}

PagesDown == /\ Scrollable
             /\ \E n \in Steps : Put(View, AtMost(Current(View) + n, MaxScroll(View)), FALSE)
PagesUp == /\ Scrollable
           /\ \E n \in Steps : Put(View, Less(Current(View), n), FALSE)

\* scroll_pane keeps following at the bottom, navigate_down and navigate_up never do.
LineDown ==
  \/ /\ style = "grid" /\ Scrollable
     /\ LET n == AtMost(Current(selected) + 1, MaxScroll(selected))
        IN Put(selected, n, Follows(selected) /\ n = MaxScroll(selected))
  \/ /\ style = "tree" /\ focus = "logs"
     /\ Put(-1, IF Current(-1) < MaxScroll(-1) THEN Current(-1) + 1 ELSE Current(-1), FALSE)
LineUp ==
  \/ /\ style = "grid" /\ Scrollable
     /\ LET n == Less(Current(selected), 1)
        IN Put(selected, n, Follows(selected) /\ n >= MaxScroll(selected))
  \/ style = "tree" /\ focus = "logs" /\ Put(-1, Less(Current(-1), 1), FALSE)

Top == Put(View, 0, FALSE)
Bottom == Scrollable /\ Put(View, MaxScroll(View), TRUE)
ToggleFollow == Put(View, ScrollOf(View), ~Follows(View))

ClearView ==
  /\ scroll_' = With(scroll_, {View}, 0)
  /\ lines' = IF NameOf(View) = Nobody THEN lines ELSE [lines EXCEPT ![NameOf(View)] = 0]
  /\ Key /\ UNCHANGED <<groups, style, place, follow_, frame, treeFocus>>

-----------------------------------------------------------------------------
(* Moving in the grid. *)
PP == AtLeast(perPage, 1)
Columns == IF PP = 1 THEN 1 ELSE IF PP \in {2, 4} THEN 2 ELSE 3     \* columns_for_panes
Visible == AtMost(TaskCount, PP)
Local == Less(selected, page * PP)

Go(p, i) ==
  /\ page' = p /\ selected' = Wrap(p * PP + i) /\ focus' = "pane"
  /\ Key /\ UNCHANGED <<shown, style, item, views, frame, treeFocus>>

GridKey == style = "grid" /\ TaskCount > 0

Below ==
  /\ GridKey
  /\ LET next == Wrap(Local + Columns)
     IN \/ next < Visible /\ Go(page, next)
        \/ next >= Visible /\ page * PP + Visible < TaskCount /\ Go(page + 1, 0)
        \/ next >= Visible /\ page * PP + Visible >= TaskCount /\ Go(page, Local % Columns)

\* the place in the last row of n panes, in words: 0 panes have row -1
InLastRow(n) ==
  LET rows == (n + Columns - 1) \div Columns
  IN AtMost(Wrap((rows - 1) * Columns + Local), Wrap(n - 1))

Above ==
  /\ GridKey
  /\ \/ Local >= Columns /\ Go(page, Local - Columns)
     \/ /\ Local < Columns /\ page > 0
        /\ Go(page - 1, InLastRow(AtMost(PP, Wrap(TaskCount - (page - 1) * PP))))
     \/ Local < Columns /\ page = 0 /\ Go(page, InLastRow(Visible))

Beside(column) ==
  LET i == (Local \div Columns) * Columns + column
  IN GridKey /\ i < Visible /\ Go(page, i)

ToRight ==
  LET column == Local % Columns
  IN Beside(IF column + 1 < Columns /\ Local + 1 < Visible THEN column + 1 ELSE 0)

ToLeft ==
  LET column == Local % Columns
      rowEnd == AtMost((Local \div Columns + 1) * Columns - 1, Visible - 1)
  IN Beside(IF column > 0 THEN column - 1 ELSE rowEnd % Columns)

GoTo(i) == Go(i \div PP, i % PP)
NextPane == GridKey /\ GoTo((selected + 1) % TaskCount)
PreviousPane == GridKey /\ GoTo(IF selected = 0 THEN TaskCount - 1 ELSE selected - 1)

PreviousPage == style = "grid" /\ page > 0 /\ Go(page - 1, 0)
NextPage == style = "grid" /\ page < Less(TaskCount, 1) \div PP /\ Go(page + 1, 0)

\* slip: the page is not computed again
Resize_KeepsPage(n) ==
  /\ style = "grid" /\ n \in 1..6 /\ perPage' = n /\ UNCHANGED page
  /\ Key /\ UNCHANGED <<shown, style, focus, item, selected, views, height, highlighted, treeFocus>>

Resize(n) ==
  /\ style = "grid" /\ n \in 1..6 /\ perPage' = n /\ page' = selected \div n
  /\ Key /\ UNCHANGED <<shown, style, focus, item, selected, views, height, highlighted, treeFocus>>

MorePanes == Resize(perPage + 1)
FewerPanes == Resize(perPage - 1)

-----------------------------------------------------------------------------
(* The tree, and the keys both styles know. *)
MoveItem(i) ==
  /\ style = "tree" /\ focus = "groups" /\ groups # <<>> /\ item' = i
  /\ Key /\ UNCHANGED <<shown, style, focus, selected, page, views, frame, treeFocus>>

Items == Len(Tree(groups))
ItemBelow == MoveItem((item + 1) % Items)
ItemAbove == MoveItem(IF item = 0 THEN Items - 1 ELSE item - 1)

ToggleFocus ==
  /\ style = "tree" /\ focus' = IF focus = "groups" THEN "logs" ELSE "groups"
  /\ Key /\ UNCHANGED <<shown, style, item, selected, page, views, frame, treeFocus>>

\* F1 and F2: on_activate sets the focus whatever it was.
Switch(s) ==
  /\ style' = s /\ focus' = IF s = "tree" THEN "groups" ELSE "pane"
  /\ treeFocus' = IF style = "tree" THEN focus ELSE treeFocus
  /\ Key /\ UNCHANGED <<shown, item, selected, page, views, frame>>

NoKey == Key /\ UNCHANGED <<shown, style, place, views, frame, treeFocus>>

-----------------------------------------------------------------------------
(* poll_daemon and draw: the list and the counts change, the selection and the page stay. *)
Frame ==
  /\ turn = "frame" /\ turn' = "key"
  /\ groups' \in Layouts
  /\ lines' \in [Processes \cup {Whole} -> Counts]
  /\ \A n \in Processes \ Noisy : lines'[n] = 0
  /\ perPage' \in IF style = "grid" /\ perPage = 0 THEN {2, 3} ELSE {perPage}
  /\ LET drawn == {i \in 0..(Len(Grid(groups')) - 1) :
                     page * perPage' <= i /\ i < page * perPage' + perPage'}
         tall == IF perPage' = 0 THEN Undrawn ELSE Heights[AtLeast(1, AtMost(perPage', Len(Grid(groups'))))]
     IN IF style = "grid"
        THEN /\ height' = With(height, drawn, tall)
             /\ highlighted' = IF selected \in drawn THEN EntryAt(Grid(groups'), selected) ELSE Nobody
        ELSE /\ height' = With(height, {-1}, Heights[1])
             /\ highlighted' = EntryAt(Tree(groups'), item)
  /\ UNCHANGED <<style, place, views, treeFocus>>

PanesInit ==
  /\ groups = <<>> /\ lines = [n \in Processes \cup {Whole} |-> 0]
  /\ style \in {"tree", "grid"} /\ focus = "groups"
  /\ item = 0 /\ selected = 0 /\ page = 0 /\ perPage = 0
  /\ scroll_ = <<>> /\ follow_ = <<>> /\ height = <<>>
  /\ highlighted = Nobody /\ treeFocus = "groups" /\ turn = "frame"

ScrollKeys == PagesDown \/ PagesUp \/ LineDown \/ LineUp \/ Top \/ Bottom \/ ToggleFollow \/ ClearView
GridKeys == Below \/ Above \/ ToLeft \/ ToRight \/ NextPane \/ PreviousPane
            \/ PreviousPage \/ NextPage \/ MorePanes \/ FewerPanes
TreeKeys == ItemBelow \/ ItemAbove \/ ToggleFocus

PanesNext ==
  \/ Frame \/ NoKey \/ ScrollKeys \/ GridKeys \/ TreeKeys
  \/ \E s \in {"tree", "grid"} : Switch(s)

-----------------------------------------------------------------------------
(* Keys act on what the frame shows: a restart is sent for the process that is highlighted *)
(* and for nothing else, over pages, other numbers of panes and styles, while the list     *)
(* keeps its length and the page shows some of it.                                         *)
RestartsTheHighlighted ==
  turn = "key" /\ (style = "tree" \/ page * perPage < TaskCount) => Selected = highlighted

(* "Restart the selected group, task, or service": also when the page shows nothing.       *)
RestartsNothingHidden == turn = "key" => Selected = highlighted

(* A key that scrolls down never shows older lines than before and one that scrolls up     *)
(* never newer ones, whether the view follows, was scrolled before, or has lost lines.     *)
ScrollsItsWay ==
  /\ [][LineDown \/ PagesDown => Displayed(View)' >= Displayed(View)]_paneVars
  /\ [][LineUp \/ PagesUp => Displayed(View)' <= Displayed(View)]_paneVars

(* "Multi-Pane focuses one pane at a time": moving among the panes ends on a pane.         *)
KeysStayInTheGrid ==
  [][GridKeys /\ selected < TaskCount => selected' < TaskCount]_paneVars

(* "The TUI remembers focus state per style".                                              *)
FocusIsRemembered ==
  [][style = "grid" /\ style' = "tree" => focus' = treeFocus]_paneVars

(* "Manual scrolling disables follow mode for the affected logs / pane".                   *)
ScrollingStopsFollowing ==
  [][LineDown \/ LineUp => ~Follows(View)']_paneVars
=============================================================================
