----------------------------- MODULE MCWorkspace -----------------------------
(* Two members and one of them named twice, a user who runs two commands beside the       *)
(* supervisor, and a crash.                                                               *)
EXTENDS Workspace

CONSTANTS api, web

Symmetry == Permutations(Processes) \cup Permutations(Tokens)

MCOrder == <<api, web, api>>
=============================================================================
