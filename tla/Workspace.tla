------------------------------ MODULE Workspace ------------------------------
(***************************************************************************)
(* The workspace supervisor (src/supervisor.rs) beside the daemons of its  *)
(* members and whatever commands their users run meanwhile: it attaches    *)
(* each configuration by adopting a live daemon or launching one, serves   *)
(* requests by forwarding them, and takes down what it launched.           *)
(***************************************************************************)
EXTENDS Daemons, Sequences, SequencesExt

CONSTANTS
  Order,       \* the configurations of the working set, in order
  Tokens,      \* project tokens
  MaxRequests  \* bound: requests the supervisor serves

ASSUME WorkspaceAssumption == Order \in Seq(Sockets) /\ MaxRequests \in Nat

VARIABLES
  step,      \* where the supervisor is
  next,      \* position in Order, or in members while it tears down or forwards
  child, tries,   \* the daemon it is waiting for
  members,   \* what is attached
  token,     \* the project token of each configuration
  failures,  \* members a forwarded request did not reach
  requests,
  launched, adopted   \* history: daemons it launched, and daemons it adopted

boot == <<child, tries>>
record == <<launched, adopted>>
supervisor == <<step, next, boot, members, failures, requests, record>>
allVars == <<vars, supervisor, token>>

Member(s, handle, isAdopted) == [socket |-> s, handle |-> handle, adopted |-> isAdopted]
Attached(s) == \E i \in DOMAIN members : members[i].socket = s

-----------------------------------------------------------------------------
(* attach: one configuration after the other; one that fails is skipped.   *)
Next_ == next' = next + 1 /\ step' = "attach"

Skip ==
  /\ step = "attach" /\ next <= Len(Order) /\ Attached(Order[next]) /\ Next_
  /\ UNCHANGED <<vars, boot, members, token, failures, requests, record>>

ProbeMember ==
  /\ step = "attach" /\ next <= Len(Order) /\ ~Attached(Order[next])
  /\ LET s == Order[next]
     IN \/ /\ Answers(s) /\ step' = "identify" /\ child' = None
           /\ UNCHANGED <<processes, launched>>
        \/ /\ Silent(s)
           /\ \E d \in Processes : Launch(d, s, s) /\ child' = d /\ launched' = launched \cup {d}
           /\ step' = "wait"
  /\ tries' = 0
  /\ UNCHANGED <<sockets, user, commands, crashes, next, members, token, failures, requests,
                 adopted>>

\* A second connection asks for the configuration, and waits for the answer.
Identify ==
  /\ step = "identify"
  /\ LET d == file[Order[next]]
     IN \/ /\ d \in In({"loop"}) /\ serves[d] = Order[next]
           /\ members' = Append(members, Member(Order[next], None, TRUE))
           /\ adopted' = adopted \cup {d}
        \/ /\ ~Alive(d) \/ (d \in In({"loop"}) /\ serves[d] # Order[next])
           /\ UNCHANGED <<members, adopted>>
  /\ Next_ /\ UNCHANGED <<vars, boot, token, failures, requests, launched>>

(* wait_for_daemon_ready for a member *)
WaitMember ==
  /\ step = "wait"
  /\ IF Exited(child) THEN Next_ ELSE step' = "ask" /\ UNCHANGED next
  /\ UNCHANGED <<vars, boot, members, token, failures, requests, record>>

AskMember ==
  /\ step = "ask"
  /\ \/ /\ Answers(Order[next])
        /\ members' = Append(members, Member(Order[next], child, FALSE))
        /\ Next_ /\ UNCHANGED tries
     \/ /\ Silent(Order[next]) /\ tries' = tries + 1
        /\ step' = IF tries + 1 < Attempts THEN "wait" ELSE "late"
        /\ UNCHANGED <<members, next>>
  /\ UNCHANGED <<vars, child, token, failures, requests, record>>

GiveUpMember ==
  /\ step = "late" /\ Kill(child) /\ Next_
  /\ UNCHANGED <<sockets, user, commands, crashes, boot, members, token, failures, requests,
                 record>>

\* check_token_uniqueness
Clash == \E i, j \in DOMAIN members :
           i # j /\ token[members[i].socket] = token[members[j].socket]

\* The working set is complete: a clash takes it down again, a socket that cannot be bound
\* ends the supervisor at once.
Boot ==
  /\ step = "attach" /\ next > Len(Order)
  /\ step' \in IF Clash THEN {"detach"} ELSE {"serve", "broken"}
  /\ next' = 1
  /\ UNCHANGED <<vars, boot, members, token, failures, requests, record>>

-----------------------------------------------------------------------------
(* handle_request: the loop forwards to one member or to all of them, each *)
(* on a connection of its own, and awaits the answer.                      *)
Request ==
  /\ step = "serve" /\ requests < MaxRequests /\ requests' = requests + 1
  /\ step' = "forward" /\ next' = 1 /\ failures' = {}
  /\ UNCHANGED <<vars, boot, members, token, record>>

Forward ==
  /\ step = "forward" /\ next <= Len(members)
  /\ LET s == members[next].socket
         d == file[s]
     IN \/ d \in In({"loop"}) /\ UNCHANGED failures
        \/ ~Alive(d) /\ failures' = failures \cup {token[s]}
  /\ next' = next + 1
  /\ UNCHANGED <<vars, boot, step, members, token, requests, record>>

Answer ==
  /\ step = "forward" /\ next > Len(members) /\ step' = "serve" /\ next' = 1
  /\ UNCHANGED <<vars, boot, members, token, failures, requests, record>>

\* reap_children
Reaped == [i \in DOMAIN members |->
             IF members[i].handle # None /\ Exited(members[i].handle)
             THEN [members[i] EXCEPT !.handle = None] ELSE members[i]]

Reap ==
  /\ step = "serve" /\ members # Reaped /\ members' = Reaped
  /\ UNCHANGED <<vars, boot, step, next, token, failures, requests, record>>

\* A signal, or a Shutdown that was acknowledged.
Leave ==
  /\ step = "serve" /\ step' = "detach" /\ next' = 1
  /\ UNCHANGED <<vars, boot, members, token, failures, requests, record>>

-----------------------------------------------------------------------------
(* detach_all and stop_child: adopted members are passed over; of the      *)
(* others the daemon at the socket is asked to shut down, the socket file  *)
(* is waited for, two seconds at most, and the child is killed.            *)
\* slip: adopted members are stopped as well
Detach_All ==
  /\ step = "detach" /\ next <= Len(members)
  /\ LET d == file[members[next].socket]
     IN IF Alive(d)
        THEN step' = "asking" /\ child' = d /\ UNCHANGED next
        ELSE step' = "vanish" /\ UNCHANGED <<child, next>>
  /\ UNCHANGED <<vars, tries, members, token, failures, requests, record>>

Detach ==
  /\ step = "detach" /\ next <= Len(members)
  /\ LET d == file[members[next].socket]
     IN CASE members[next].adopted -> next' = next + 1 /\ UNCHANGED <<step, child>>
          [] ~members[next].adopted /\ Alive(d) ->
               step' = "asking" /\ child' = d /\ UNCHANGED next
          [] OTHER -> step' = "vanish" /\ UNCHANGED <<child, next>>
  /\ UNCHANGED <<vars, tries, members, token, failures, requests, record>>

AskToStop ==
  /\ step = "asking" /\ step' = "vanish"
  /\ Acknowledge(child) \/ (Exited(child) /\ UNCHANGED processes)
  /\ UNCHANGED <<sockets, user, commands, crashes, next, boot, members, token, failures,
                 requests, record>>

\* slip: the socket file is gone, so the child is taken for gone
Hardreap_Trusts ==
  /\ step = "vanish" /\ step' = "detach" /\ next' = next + 1
  /\ LET d == members[next].handle
     IN IF d = None \/ file[members[next].socket] = None THEN UNCHANGED processes ELSE Kill(d)
  /\ UNCHANGED <<sockets, user, commands, crashes, boot, members, token, failures, requests,
                 record>>

\* The file is gone or the two seconds are over.
Hardreap ==
  /\ step = "vanish" /\ step' = "detach" /\ next' = next + 1
  /\ LET d == members[next].handle
     IN IF d = None THEN UNCHANGED processes ELSE Kill(d)
  /\ UNCHANGED <<sockets, user, commands, crashes, boot, members, token, failures, requests,
                 record>>

Detached ==
  /\ step = "detach" /\ next > Len(members) /\ step' = "ended"
  /\ UNCHANGED <<vars, next, boot, members, token, failures, requests, record>>

-----------------------------------------------------------------------------
Init ==
  /\ DaemonsInit
  /\ step = "attach" /\ next = 1 /\ child = None /\ tries = 0 /\ members = <<>>
  /\ token \in [Sockets -> Tokens]
  /\ failures = {} /\ requests = 0 /\ launched = {} /\ adopted = {}

Next ==
  \/ DaemonsNext /\ UNCHANGED <<supervisor, token>>
  \/ Skip \/ ProbeMember \/ Identify \/ WaitMember \/ AskMember \/ GiveUpMember \/ Boot
  \/ Request \/ Forward \/ Answer \/ Reap \/ Leave
  \/ Detach \/ AskToStop \/ Hardreap \/ Detached

WorkspaceSpec == Init /\ [][Next]_allVars

-----------------------------------------------------------------------------
(* A supervisor that took its working set down left none of the daemons it launched, not   *)
(* the ones that crashed, were late, or belong to a set refused for its tokens.            *)
ChildrenEndWithTheSupervisor ==
  step = "ended" => \A d \in launched : ~Alive(d)

(* What it adopted it does not end: an adopted daemon goes down by itself or by its user.  *)
AdoptedLeftRunning ==
  [][\A d \in adopted \ launched :
       pc'[d] # pc[d] => supervisor' = supervisor]_allVars

(* "A spawned child is stopped cleanly" (src/supervisor.rs:291): it is not killed while it *)
(* stops its services.                                                                     *)
StoppedCleanly ==
  [][\A d \in launched : step = "vanish" /\ pc[d] = "down" /\ pc'[d] = "dead"
       => supervisor' = supervisor]_allVars

(* "so the failed boot does not leak daemons" (src/supervisor.rs:669-670)                  *)
FailedBootLeavesNothing ==
  step = "broken" => \A d \in launched : ~Alive(d)

(* "Stop every spawned child" (src/supervisor.rs:290): no other daemon is stopped.         *)
StopsOnlyItsOwn ==
  [][\A d \in Processes \ launched' : pc'[d] # pc[d] => supervisor' = supervisor]_allVars
=============================================================================
