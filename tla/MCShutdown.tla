------------------------------ MODULE MCShutdown ------------------------------
(* The daemon's loop from one side: files are watched until the loop is left, and then    *)
(* the services are stopped.  What the watcher holds is lost with it.                      *)
EXTENDS Shutdown, FileWatch, TLC

CONSTANTS web, api, lib, src, tmp, gen

MCGroups == {web, api, lib}

\* web behind api behind lib.  At first web ignores what is generated; then nobody does.
MCConfigs ==
  LET depends == (web :> {api} @@ api :> {lib} @@ lib :> {})
      include == (web :> {src, gen} @@ api :> {src} @@ lib :> {src, tmp, gen})
  IN {[include |-> include, ignore |-> (web :> {gen} @@ api :> {} @@ lib :> {}),
       depends |-> depends, debounce |-> 2],
      [include |-> [include EXCEPT ![lib] = {gen}], ignore |-> [g \in MCGroups |-> {}],
       depends |-> depends, debounce |-> 0]}

MCInit ==
  /\ WatchInit
  /\ phase = "loop" /\ todo = {} /\ waiting = FALSE
  /\ child = [s \in Services |-> "none"] /\ left = [s \in Services |-> Unset]
  /\ hook = [s \in Services |-> "none"]
  /\ asked = {} /\ since = [s \in Services |-> 0] /\ forced = [s \in Services |-> 0]

Watch == phase = "loop" /\ WatchNext /\ UNCHANGED vars

\* The engine goes down, and the watcher with all it holds.
Leave ==
  /\ phase = "loop" /\ phase' = "left"
  /\ config' = CHOOSE c \in Configs : c.debounce = window
  /\ queue' = {} /\ batch' = {} /\ age' = None /\ changed' = {} /\ plan' = {}
  /\ waited' = [p \in Paths |-> None] /\ writes' = 0 /\ reloads' = 0
  /\ UNCHANGED <<window, todo, waiting, child, left, hook, history>>

\* What it finds: any state of the services and their stops.
Find ==
  /\ phase = "left" /\ phase' = "stop" /\ todo' = Services
  /\ child' \in [Services -> {"none", "up", "exited", "reaped"}]
  /\ left' \in [Services -> {Unset} \cup 0..StopTimeout]
  /\ hook' \in [Services -> {"none", "stop", "kill"}]
  /\ MayFind(child', left', hook')
  /\ UNCHANGED <<waiting, history, watchVars>>

Down == phase \notin {"loop", "left"} /\ Next /\ UNCHANGED watchVars

MCNext == Watch \/ Leave \/ Find \/ Down

MCSpec ==
  /\ MCInit /\ [][MCNext]_<<vars, watchVars>>
  /\ WF_vars(Proceed) /\ WF_vars(Tick)
  /\ WF_watchVars(Poll /\ Watch) /\ WF_watchVars(Run /\ Watch) /\ WF_watchVars(Elapse /\ Watch)
=============================================================================
