-------------------------- MODULE MCTopUpModeration --------------------------
(* Small instances of TopUpModeration for TLC: a user and an administrator *)
(* with an account of its own, each with a top-up to be moderated.         *)
EXTENDS TopUpModeration, TLC

CONSTANTS u1, boss, a1, a2, w1, r1, r2, g1, c1, c2

MCAccount == [a \in Admins |-> boss]
MCOwner == [e \in Entries |-> IF e = r2 THEN boss ELSE u1]
MCAmount == [e \in Entries |-> IF e \in {c1, c2} THEN 2 ELSE 1]
MCInitialBalance == [u \in Users |-> IF u = u1 THEN 1 ELSE 0]

AdminSymmetry == Permutations(Admins)
=============================================================================
