----------------------------- MODULE MCAccounts -----------------------------
(* Two accounts, one of them typed in two ways, and two credentials that   *)
(* their owner may enter.                                                  *)
EXTENDS Accounts, TLC

CONSTANTS anna, boris, ANNA, k1, k2, n1, n2

MCNormal == [s \in Spellings |-> IF s = ANNA THEN anna ELSE s]
MCSubmissions == [e \in Emails |-> IF e = anna THEN {[key |-> k1, name |-> n1],
                                                     [key |-> k2, name |-> n2]}
                                   ELSE {}]
=============================================================================
