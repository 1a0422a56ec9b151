------------------------------ MODULE LineFeed ------------------------------
(***************************************************************************)
(* What the log store promises the processes that write and the clients    *)
(* that watch: a line that was sent is heard once, in the order in which   *)
(* the lines were sent.  The daemon's own lines may jump the queue, and a  *)
(* daemon that goes away takes the lines nobody heard yet with it          *)
(* (src/crates/zaz-daemon/src/log_store.rs).                               *)
(***************************************************************************)
EXTENDS Sequences, SequencesExt

CONSTANT Lines

VARIABLES
  queue,   \* sent, not heard yet, oldest first
  heard    \* what a subscriber heard, oldest first

feed == <<queue, heard>>

Known == ToSet(queue) \cup ToSet(heard)

Init == queue = <<>> /\ heard = <<>>

Submit == \E l \in Lines \ Known : queue' = Append(queue, l) /\ UNCHANGED heard

Jump == \E l \in Lines \ Known : queue' = <<l>> \o queue /\ UNCHANGED heard

Hear == /\ queue # <<>>
        /\ queue' = Tail(queue) /\ heard' = Append(heard, Head(queue))

GoAway == queue' = <<>> /\ UNCHANGED heard

Next == Submit \/ Jump \/ Hear \/ GoAway

Spec == Init /\ [][Next]_feed
=============================================================================
