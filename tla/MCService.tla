------------------------------ MODULE MCService ------------------------------
(* A service with every hook, over a few runs and restarts of its group: time *)
(* enough for a stop, a crash and a respawn to meet in every order.           *)
EXTENDS Service
=============================================================================
