------------------------------ MODULE MCEngine ------------------------------
(* Three groups: db has a service and nothing to run before it, api depends  *)
(* on it and has both a task and a service, edge depends on both and has a   *)
(* service.  The larger instance adds lint, which has a task and depends on  *)
(* nothing, and docs, which has nothing to run and depends on lint and api.  *)
EXTENDS Engine, TLC

CONSTANTS db, api, edge, lint, docs, pg, http, proxy, build, fmt

Small == {db, api, edge}
Large == Small \cup {lint, docs}

SmallDependsOn == (db :> {}) @@ (api :> {db}) @@ (edge :> {db, api})
LargeDependsOn == SmallDependsOn @@ (lint :> {}) @@ (docs :> {lint, api})

MCStartupTasks  ==
  [g \in Groups |-> IF g \in {api, lint} THEN {<<g, build>>} ELSE {}]
MCOnChangeTasks == [g \in Groups |-> IF g = db THEN {<<g, fmt>>} ELSE {}]

MCServices ==
  [g \in Groups |-> CASE g = db -> {pg} [] g = api -> {http} [] g = edge -> {proxy}
                     [] OTHER -> {}]

\* a task and a service whose variables a configuration may leave undefined
MCMayNotExpand == {<<api, build>>, proxy}

\* services and tasks in groups of their own
ApartServices == [g \in Groups |-> IF g = db THEN {pg} ELSE {}]
ApartTasks    == [g \in Groups |-> IF g \in {api, edge} THEN {<<g, build>>, <<g, fmt>>} ELSE {}]
=============================================================================
