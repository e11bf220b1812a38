---------------------------- MODULE TaskLifecycle ----------------------------
(***************************************************************************)
(* What the service promises about one prediction task, whoever works on   *)
(* it and however often its message is delivered: a task that was created  *)
(* is open until it is completed or failed; completing it charges its user *)
(* once, for the records that were processed; a failed task costs nothing  *)
(* and may be taken up again; a completed task never changes.              *)
(* TaskPipeline implements this when the broker does not hand a message to *)
(* a second worker while the first one is still at work.                   *)
(***************************************************************************)
EXTENDS Integers

CONSTANTS Tasks, Accepted, Price

VARIABLES
    state,   \* of each task, as its owner sees it
    paid     \* what each task has cost its owner, in cents

lifeVars == <<state, paid>>

LifeInit ==
    /\ state = [t \in Tasks |-> "absent"]
    /\ paid = [t \in Tasks |-> 0]

Create(t) ==
    /\ state[t] = "absent"
    /\ state' = [state EXCEPT ![t] = "open"]
    /\ UNCHANGED paid

Complete(t, n) ==
    /\ state[t] = "open"
    /\ state' = [state EXCEPT ![t] = "completed"]
    /\ paid' = [paid EXCEPT ![t] = Price[t] * n]

Fail(t) ==
    /\ state[t] = "open"
    /\ state' = [state EXCEPT ![t] = "failed"]
    /\ UNCHANGED paid

Reopen(t) ==
    /\ state[t] = "failed"
    /\ state' = [state EXCEPT ![t] = "open"]
    /\ UNCHANGED paid

LifeNext ==
    \E t \in Tasks :
        \/ Create(t)
        \/ \E n \in 1..Accepted[t] : Complete(t, n)
        \/ Fail(t)
        \/ Reopen(t)

LifeSpec == LifeInit /\ [][LifeNext]_lifeVars
=============================================================================
