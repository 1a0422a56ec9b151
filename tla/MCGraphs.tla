------------------------------ MODULE MCGraphs ------------------------------
(* The dependency graph from one side: a start of all groups (ResolverWave), one skip      *)
(* (SkipCascade), or one configuration that is loaded (ConfigGraph).                       *)
(* The start: seven groups over three roots, sharing dependencies; completions, failures   *)
(* and skips meet behind docs, auth, feed and web in every order.                          *)
(* The skip: four of them, each depending on all before it, so that every graph over four  *)
(* groups is met as some map of waiting groups.                                            *)
EXTENDS ResolverWave, SkipCascade, ConfigGraph, TLC

CONSTANTS api, db, proto, docs, auth, feed, web

VARIABLE side

MCGroups == {api, db, proto, docs, auth, feed, web}

MCDependsOn ==
  (api :> {}) @@ (db :> {}) @@ (proto :> {}) @@ (docs :> {api, proto})
    @@ (auth :> {api, db}) @@ (feed :> {db, auth}) @@ (web :> {db, auth, feed, docs})

Four == {db, auth, feed, web}

NothingToSkip == sources0 = {} /\ \A g \in Groups : waiting0[g] = {}

GraphsInit ==
  /\ Init /\ CascadeInit /\ ConfigInit
  /\ sources0 \subseteq Four
  /\ \A g \in Groups : waiting0[g] \subseteq IF g \in Four THEN Four ELSE {}
  /\ side \in IF NothingToSkip THEN {"start", "load"} ELSE {"skip"}

OnStart == side = "start"

GraphsNext ==
  /\ \/ OnStart /\ Next /\ UNCHANGED <<cascadeVars, configVars>>
     \/ side = "skip" /\ CascadeNext /\ UNCHANGED <<vars, configVars>>
     \/ side = "load" /\ ConfigNext /\ UNCHANGED <<vars, cascadeVars>>
  /\ UNCHANGED side

GraphsSpec ==
  /\ GraphsInit /\ [][GraphsNext]_<<vars, cascadeVars, configVars, side>>
  /\ \A g \in Groups : WF_vars(OnStart /\ (Complete(g) \/ Fail(g)))

(* A start comes to an end: propagate_to_dependents and cascade_failure leave no group that *)
(* nothing will move any more.                                                              *)
StartSettles == OnStart => EveryGroupSettles
=============================================================================
