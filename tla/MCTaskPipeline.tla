--------------------------- MODULE MCTaskPipeline ---------------------------
(* Small instances of TaskPipeline for TLC: one user, a single prediction  *)
(* and an upload of two valid records and one invalid one.                 *)
EXTENDS TaskPipeline, TLC

CONSTANTS u1, w1, w2, one, upload, bad, empty, a1

MCOwner == [t \in Tasks |-> u1]
MCKind == [t \in Tasks |-> IF t \in {upload, empty} THEN "batch" ELSE "single"]
MCAccepted == [t \in Tasks |-> IF t = upload THEN 2 ELSE IF t = empty THEN 0 ELSE 1]
MCInvalid == [t \in Tasks |-> IF t \in {upload, empty} THEN 1 ELSE 0]
MCWellFormed == [t \in Tasks |-> t # bad]
MCPrice == [t \in Tasks |-> 1]
MCInitialBalance == [u \in Users |-> 2]
MCTwoUploads == [u \in Users |-> 4]
MCTopUpAmount == 1

WorkerSymmetry == Permutations(Workers)
=============================================================================
