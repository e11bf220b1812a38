------------------------------ MODULE MCStartup ------------------------------
(* Small instances of Startup for TLC: the application and a worker start  *)
(* on an empty database with two demo users, a legacy model and two local  *)
(* ones.                                                                   *)
EXTENDS Startup

CONSTANTS app, w1, a1, a2
=============================================================================
