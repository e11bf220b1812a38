----------------------------- MODULE MCWebClient -----------------------------
(* Small instances of WebClient for TLC: the users, the tasks and the      *)
(* flows are model values of the configurations.                           *)
EXTENDS WebClient, TLC
==============================================================================
