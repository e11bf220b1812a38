-------------------------- MODULE TaskPipelineProofs --------------------------
(***************************************************************************)
(* Theorems about TaskPipeline, for every number of users, tasks, workers  *)
(* and administrators, every price and every bound on the faults.          *)
(***************************************************************************)
EXTENDS TaskPipeline, FiniteSetTheorems, TLAPS

-----------------------------------------------------------------------------
(* What holds of the rows of a delivered task with a sole consumer, and    *)
(* carries the invariants below.                                           *)

(* The row of a completed task and its result stand for each other: a      *)
(* failed or still open task has neither a result nor a charge.            *)
ResultIffCompleted ==
    \A t \in Tasks : result[t] # NoResult <=> task[t].status = "completed"

(* What a worker read of its task is still in the database when it commits *)
(* what it made of it: nobody else writes the rows of a delivered task.    *)
ReadsAreCurrent ==
    \A w \in Workers :
        /\ pc[w] \in {"begin", "charge", "commit", "mark"} => row[w] = task[job[w]]
        /\ pc[w] \in {"charge", "commit"} => res[w] = result[job[w]]

(* A message leaves the queue only when its task is settled: no crash      *)
(* between the commits and basic_ack leaves an open task without message.  *)
AckedIsSettled ==
    \A t \in Tasks : msg[t] = "acked" => task[t].status \in {"completed", "failed"}

-----------------------------------------------------------------------------
(* Operators.                                                              *)

(* A price times a number of records is an amount of cents.                *)
LEMMA CostIsNat ==
    ASSUME NEW t \in Tasks, NEW n \in Nat
    PROVE  Cost(t, n) \in Nat
<1>1. Price[t] \in Nat
  BY TaskAssumption
<1>2. \A x, y \in Nat : x * y \in Nat
  OBVIOUS
<1> QED
  BY <1>1, <1>2 DEF Cost

(* Writing a task's status and error keeps the table well typed, whatever  *)
(* row was read before.                                                    *)
LEMMA WriteTaskType ==
    ASSUME task \in [Tasks -> TaskRow], NEW t \in Tasks, NEW seen,
           NEW s \in Statuses, NEW e \in Errors
    PROVE  /\ WriteTask(t, seen, s, e) \in [Tasks -> TaskRow]
           /\ \A x \in Tasks : WriteTask(t, seen, s, e)[x].rejected = task[x].rejected
           /\ \A x \in Tasks \ {t} : WriteTask(t, seen, s, e)[x] = task[x]
           /\ \A x \in Tasks : WriteTask(t, seen, s, e)[x].status \in {task[x].status, s}
           /\ seen.status = task[t].status => WriteTask(t, seen, s, e)[t].status = s
           /\ seen.error = task[t].error => WriteTask(t, seen, s, e)[t].error = e
BY DEF WriteTask, TaskRow, Flushed

-----------------------------------------------------------------------------
(* Type correctness.  A worker that saw a result may write over it, so     *)
(* results must be known to stay.                                          *)

SeenResultsStay ==
    \A w \in Workers :
        res[w] # NoResult => Active(w) /\ result[job[w]] # NoResult

(* A result row, new or written over, is a well-typed row.                 *)
LEMMA WrittenResultType ==
    ASSUME TypeOK, SeenResultsStay, NEW w \in Workers, Active(w)
    PROVE  /\ WrittenResult(w) \in ResultRow
           /\ WrittenResult(w) # NoResult
           /\ RejectedArg(w) \in Int
<1>1. job[w] \in Tasks
  BY DEF TypeOK, Active
<1>2. Cost(job[w], done[w]) \in Nat
  BY <1>1, CostIsNat DEF TypeOK
<1>3. RejectedArg(w) \in Int
  BY <1>1, TaskAssumption DEF TypeOK, RejectedArg
<1>4. WrittenResult(w) \in ResultRow
  <2>1. CASE res[w] = NoResult
    BY <2>1, <1>2, <1>3 DEF TypeOK, WrittenResult, ResultRow
  <2>2. CASE res[w] # NoResult
    <3>1. result[job[w]] \in ResultRow
      BY <2>2, <1>1 DEF TypeOK, SeenResultsStay
    <3> QED
      BY <2>2, <3>1, <1>2, <1>3 DEF TypeOK, WrittenResult, ResultRow, Flushed
  <2> QED
    BY <2>1, <2>2
<1> QED
  BY <1>3, <1>4, ResultAssumption

TypeInv == TypeOK /\ SeenResultsStay

(* The initial state is well typed.                                        *)
LEMMA TypeInit == Init => TypeInv
BY TaskAssumption, AmountAssumption, ResultAssumption
   DEF Init, TypeInv, TypeOK, SeenResultsStay, AbsentRow, TaskRow, Statuses, Errors,
       PcStates

(* An exception moves a worker on, to "check" or to "fail".                *)
LEMMA RaiseType ==
    ASSUME TypeOK, NEW w \in Workers, Active(w), Raise(w)
    PROVE  /\ pc' \in [Workers -> PcStates]
           /\ handler' \in [Workers -> BOOLEAN]
           /\ \A v \in Workers : pc'[v] \in {"down", "idle"} <=> pc[v] \in {"down", "idle"}
BY DEF TypeOK, Active, Raise, Goto, PcStates

(* Leaving the callback resets the locals to values of their types.        *)
LEMMA LeaveType ==
    ASSUME TypeOK, NEW w \in Workers, NEW label \in {"down", "idle"}, Leave(w, label)
    PROVE  /\ pc' \in [Workers -> PcStates]
           /\ job' \in [Workers -> Tasks \cup {NoTask}]
           /\ \A v \in Workers : job'[v] = NoTask <=> pc'[v] \in {"down", "idle"}
           /\ row' \in [Workers -> TaskRow]
           /\ res' \in [Workers -> ResultRow \cup {NoResult}]
           /\ bal' \in [Workers -> Int]
           /\ done' \in [Workers -> Nat]
           /\ rej' \in [Workers -> Int]
           /\ handler' \in [Workers -> BOOLEAN]
           /\ res'[w] = NoResult
           /\ \A v \in Workers \ {w} : pc'[v] = pc[v] /\ res'[v] = res[v] /\ job'[v] = job[v]
<1>1. AbsentRow \in TaskRow
  BY DEF AbsentRow, TaskRow, Statuses, Errors
<1> QED
  BY <1>1 DEF TypeOK, Leave, Goto, PcStates

(* A step of a request thread touches a task's row, its api entry and its  *)
(* message, nothing else.                                                  *)
LEMMA TypeApi ==
    ASSUME TypeInv, NEW t \in Tasks, ApiSubmit(t) \/ ApiStep(t) \/ ApiCrash(t)
    PROVE  TypeInv'
<1> USE DEF TypeInv
<1>0. SeenResultsStay'
  BY DEF ApiSubmit, ApiStep, ApiFailEmpty, PublishOk, PublishError, PublishLost,
         PublishErrorDelivered, ApiFail, ApiCrash, SeenResultsStay, Active,
         dbVars, taskVars, moneyVars, workerVars
<1>1. CASE ApiSubmit(t)
  <2>1. [status |-> "created", error |-> "none", rejected |-> Invalid[t]] \in TaskRow
    BY TaskAssumption DEF TaskRow, Statuses, Errors
  <2> QED
    BY <1>0, <1>1, <2>1 DEF ApiSubmit, TypeOK, moneyVars, workerVars, adminVars, faultVars
<1>2. CASE ApiFailEmpty(t) \/ ApiFail(t)
  <2>1. task' \in [Tasks -> TaskRow]
    BY <1>2, WriteTaskType DEF ApiFailEmpty, ApiFail, TypeOK, Statuses, Errors
  <2>2. api' \in [Tasks -> {"idle", "empty", "publish", "failing",
                            "accepted", "refused", "closed", "down"}]
    BY <1>2 DEF ApiFailEmpty, ApiFail, TypeOK
  <2>3. UNCHANGED <<result, moneyVars, msg, workerVars, adminVars, faultVars>>
    BY <1>2 DEF ApiFailEmpty, ApiFail
  <2> QED
    BY <1>0, <2>1, <2>2, <2>3 DEF TypeOK, moneyVars, workerVars, adminVars, faultVars
<1>3. CASE PublishOk(t) \/ PublishError(t) \/ PublishLost(t) \/ PublishErrorDelivered(t)
  BY <1>0, <1>3 DEF PublishOk, PublishError, PublishLost, PublishErrorDelivered, TypeOK,
                    dbVars, workerVars, adminVars, faultVars
<1>4. CASE ApiCrash(t)
  BY <1>0, <1>4 DEF ApiCrash, TypeOK, dbVars, workerVars, adminVars
<1> QED
  BY <1>1, <1>2, <1>3, <1>4 DEF ApiStep

(* A worker's step, one case per action.                                   *)
LEMMA TypeWorker ==
    ASSUME TypeInv, NEW w \in Workers, WorkerStep(w)
    PROVE  TypeInv'
<1> USE DEF TypeInv
<1>1. ASSUME NEW t \in Tasks, Deliver(w, t)
      PROVE  TypeInv'
  <2>1. SeenResultsStay'
    BY <1>1 DEF Deliver, TypeOK, SeenResultsStay, Active, Goto, localVars, dbVars
  <2> QED
    BY <1>1, <2>1, NullAssumption DEF Deliver, TypeOK, Goto, PcStates,
       dbVars, localVars, adminVars, faultVars
<1>2. CASE StartRead(w)
  <2>1. job[w] \in Tasks
    BY <1>2 DEF StartRead, TypeOK
  <2>2. SeenResultsStay'
    BY <1>2 DEF StartRead, TypeOK, SeenResultsStay, Active, Goto, dbVars
  <2> QED
    BY <1>2, <2>1, <2>2 DEF StartRead, TypeOK, Goto, PcStates, dbVars, adminVars, faultVars
<1>3. CASE StartCommit(w)
  <2>1. job[w] \in Tasks
    BY <1>3 DEF StartCommit, TypeOK
  <2>2. task' \in [Tasks -> TaskRow]
    BY <1>3, <2>1, WriteTaskType DEF StartCommit, TypeOK, Statuses, Errors
  <2>3. SeenResultsStay'
    BY <1>3 DEF StartCommit, TypeOK, SeenResultsStay, Active, Goto, localVars
  <2> QED
    BY <1>3, <2>2, <2>3 DEF StartCommit, TypeOK, Goto, PcStates, moneyVars, localVars,
       adminVars, faultVars
<1>4. CASE ReadPayload(w)
  <2>1. task[job[w]].rejected \in Int
    BY <1>4 DEF ReadPayload, TypeOK, TaskRow
  <2>2. SeenResultsStay'
    BY <1>4 DEF ReadPayload, TypeOK, SeenResultsStay, Active, Goto, dbVars
  <2> QED
    BY <1>4, <2>1, <2>2 DEF ReadPayload, TypeOK, Goto, PcStates, dbVars, adminVars, faultVars
<1>5. CASE PredictOk(w)
  <2>1. SeenResultsStay'
    BY <1>5 DEF PredictOk, TypeOK, SeenResultsStay, Active, Goto, dbVars
  <2> QED
    BY <1>5, <2>1 DEF PredictOk, TypeOK, Goto, PcStates, dbVars, adminVars, faultVars
<1>6. CASE PredictError(w) \/ CompleteRollback(w)
  <2>1. Active(w) /\ Raise(w)
    BY <1>6 DEF PredictError, CompleteRollback, Active
  <2>2. UNCHANGED <<dbVars, api, msg, job, row, res, bal, done, rej, adminVars, faultVars>>
    BY <1>6 DEF PredictError, CompleteRollback
  <2>3. /\ pc' \in [Workers -> PcStates]
        /\ handler' \in [Workers -> BOOLEAN]
        /\ \A v \in Workers : pc'[v] \in {"down", "idle"} <=> pc[v] \in {"down", "idle"}
    BY <2>1, RaiseType
  <2>4. SeenResultsStay'
    BY <2>2, <2>3 DEF SeenResultsStay, Active, dbVars
  <2> QED
    BY <2>2, <2>3, <2>4 DEF TypeOK, dbVars, adminVars, faultVars
<1>7. CASE CompleteRead(w)
  <2>1. job[w] \in Tasks
    BY <1>7 DEF CompleteRead, TypeOK
  <2>2. SeenResultsStay'
    BY <1>7, <2>1 DEF CompleteRead, TypeOK, SeenResultsStay, Active, Goto, dbVars
  <2> QED
    BY <1>7, <2>1, <2>2 DEF CompleteRead, TypeOK, Goto, PcStates, dbVars, adminVars, faultVars
<1>8. CASE ChargeRead(w)
  <2>1. job[w] \in Tasks /\ Active(w)
    BY <1>8 DEF ChargeRead, TypeOK, Active
  <2>2. balance[Owner[job[w]]] \in Int
    BY <2>1, TaskAssumption DEF TypeOK
  <2>3. /\ pc' \in [Workers -> PcStates]
        /\ handler' \in [Workers -> BOOLEAN]
        /\ \A v \in Workers : pc'[v] \in {"down", "idle"} <=> pc[v] \in {"down", "idle"}
    <3>1. CASE Raise(w)
      BY <3>1, <2>1, RaiseType
    <3>2. CASE Goto(w, "commit") /\ UNCHANGED handler
      BY <3>2, <2>1 DEF TypeOK, Goto, PcStates, Active
    <3> QED
      BY <1>8, <3>1, <3>2 DEF ChargeRead
  <2>4. bal' \in [Workers -> Int]
    BY <1>8, <2>2 DEF ChargeRead, TypeOK
  <2>5. UNCHANGED <<dbVars, api, msg, job, row, res, done, rej, adminVars, faultVars>>
    BY <1>8 DEF ChargeRead
  <2>6. SeenResultsStay'
    BY <2>3, <2>5 DEF SeenResultsStay, Active, dbVars
  <2> QED
    BY <2>3, <2>4, <2>5, <2>6 DEF TypeOK, dbVars, adminVars, faultVars
<1>9. CASE CompleteCommit(w)
  <2> DEFINE t == job[w]
             cost == Cost(t, done[w])
  <2>1. t \in Tasks /\ Active(w) /\ Owner[t] \in Users
    BY <1>9, TaskAssumption DEF CompleteCommit, TypeOK, Active
  <2>2. cost \in Nat
    BY <2>1, CostIsNat DEF TypeOK
  <2>3. WrittenResult(w) \in ResultRow /\ WrittenResult(w) # NoResult /\ RejectedArg(w) \in Int
    BY <2>1, WrittenResultType
  <2>4. WriteTask(t, row[w], "completed", IF handler[w] THEN "partial" ELSE "none")
          \in [Tasks -> TaskRow]
    BY <2>1, WriteTaskType DEF TypeOK, Statuses, Errors
  <2>5. task' \in [Tasks -> TaskRow]
    BY <1>9, <2>1, <2>3, <2>4 DEF CompleteCommit, TaskRow
  <2>6. result' \in [Tasks -> ResultRow \cup {NoResult}]
    BY <1>9, <2>1, <2>3 DEF CompleteCommit, TypeOK
  <2>7. /\ charged' \in [Tasks -> Nat]
        /\ debits' \in [Users -> Nat]
        /\ balance' \in [Users -> Int]
    BY <1>9, <2>1, <2>2 DEF CompleteCommit, TypeOK
  <2>8. SeenResultsStay'
    BY <1>9, <2>1, <2>3 DEF CompleteCommit, TypeOK, SeenResultsStay, Active, Goto, localVars
  <2>9. /\ pc' \in [Workers -> PcStates]
        /\ \A v \in Workers : job'[v] = NoTask <=> pc'[v] \in {"down", "idle"}
    BY <1>9, <2>1 DEF CompleteCommit, TypeOK, Goto, PcStates, Active
  <2>10. UNCHANGED <<credits, api, msg, job, localVars, adminVars, faultVars>>
    BY <1>9 DEF CompleteCommit
  <2> QED
    BY <2>5, <2>6, <2>7, <2>8, <2>9, <2>10 DEF TypeOK, localVars, adminVars, faultVars
<1>10. CASE FailRead(w)
  <2>1. job[w] \in Tasks
    BY <1>10 DEF FailRead, TypeOK
  <2>2. SeenResultsStay'
    BY <1>10 DEF FailRead, TypeOK, SeenResultsStay, Active, Goto, dbVars
  <2> QED
    BY <1>10, <2>1, <2>2 DEF FailRead, TypeOK, Goto, PcStates, dbVars, adminVars, faultVars
<1>11. CASE FailCommit(w)
  <2>1. job[w] \in Tasks
    BY <1>11 DEF FailCommit, TypeOK
  <2>2. task' \in [Tasks -> TaskRow]
    BY <1>11, <2>1, WriteTaskType DEF FailCommit, TypeOK, Statuses, Errors
  <2>3. SeenResultsStay'
    BY <1>11 DEF FailCommit, TypeOK, SeenResultsStay, Active, Goto, localVars
  <2> QED
    BY <1>11, <2>2, <2>3 DEF FailCommit, TypeOK, Goto, PcStates, moneyVars, localVars,
       adminVars, faultVars
<1>12. CASE Ack(w)
  <2>1. PICK label \in {"down", "idle"} : Leave(w, label)
    BY <1>12 DEF Ack
  <2>2. msg' \in [Tasks -> {"none", "ready", "acked"} \cup Workers]
    BY <1>12 DEF Ack, TypeOK
  <2>3. UNCHANGED <<dbVars, api, adminVars, faultVars>>
    BY <1>12 DEF Ack
  <2>4. SeenResultsStay'
    BY <2>1, <2>3, LeaveType DEF SeenResultsStay, Active, dbVars
  <2> QED
    BY <2>1, <2>2, <2>3, <2>4, LeaveType DEF TypeOK, dbVars, adminVars, faultVars
<1> QED
  BY <1>1, <1>2, <1>3, <1>4, <1>5, <1>6, <1>7, <1>8, <1>9, <1>10, <1>11, <1>12
  DEF WorkerStep

(* The administrator's steps and the faults keep the types.                *)
LEMMA TypeOther ==
    ASSUME TypeInv,
           \/ \E a \in Admins : AdminStep(a)
           \/ \E w \in Workers : Crash(w) \/ Restart(w) \/ Requeue(w)
    PROVE  TypeInv'
<1> USE DEF TypeInv
<1>1. ASSUME NEW a \in Admins, AdminStep(a)
      PROVE  TypeInv'
  <2>1. SeenResultsStay'
    BY <1>1 DEF AdminStep, TopUpRead, TopUpCommit, SeenResultsStay, Active, dbVars,
       taskVars, workerVars
  <2>2. ASSUME NEW u \in Users, TopUpRead(a, u)
        PROVE  TypeInv'
    BY <2>1, <2>2 DEF TopUpRead, TypeOK, dbVars, workerVars, faultVars
  <2>3. CASE TopUpCommit(a)
    <3>1. adminUser[a] \in Users
      BY <2>3 DEF TopUpCommit, TypeOK
    <3> QED
      BY <2>1, <2>3, <3>1, AmountAssumption DEF TopUpCommit, TypeOK, taskVars, workerVars,
         faultVars
  <2> QED
    BY <1>1, <2>2, <2>3 DEF AdminStep
<1>2. ASSUME NEW w \in Workers, Crash(w)
      PROVE  TypeInv'
  <2>1. Leave(w, "down")
    BY <1>2 DEF Crash
  <2>2. SeenResultsStay'
    BY <1>2, <2>1, LeaveType DEF Crash, SeenResultsStay, Active, dbVars
  <2> QED
    BY <1>2, <2>1, <2>2, LeaveType DEF Crash, TypeOK, dbVars, adminVars
<1>3. ASSUME NEW w \in Workers, Restart(w)
      PROVE  TypeInv'
  <2>1. SeenResultsStay'
    BY <1>3 DEF Restart, SeenResultsStay, TypeOK, Active, Goto, dbVars, localVars
  <2> QED
    BY <1>3, <2>1 DEF Restart, TypeOK, Goto, PcStates, dbVars, localVars, adminVars,
       faultVars
<1>4. ASSUME NEW w \in Workers, Requeue(w)
      PROVE  TypeInv'
  <2>1. SeenResultsStay'
    BY <1>4 DEF Requeue, SeenResultsStay, Active, dbVars, workerVars
  <2> QED
    BY <1>4, <2>1 DEF Requeue, TypeOK, dbVars, workerVars, adminVars
<1> QED
  BY <1>1, <1>2, <1>3, <1>4

(* Every step keeps the types.                                             *)
LEMMA TypeStep == TypeInv /\ [Next]_vars => TypeInv'
<1> SUFFICES ASSUME TypeInv, [Next]_vars
             PROVE  TypeInv'
  OBVIOUS
<1>1. CASE UNCHANGED vars
  BY <1>1 DEF vars, TypeInv, TypeOK, SeenResultsStay, Active
<1>2. CASE Next
  BY <1>2, TypeApi, TypeWorker, TypeOther DEF Next, Fault
<1> QED
  BY <1>1, <1>2

(* Every reachable state is well typed; in particular a worker is at work  *)
(* exactly when it holds a delivery.                                       *)
THEOREM TypeCorrect == Spec => []TypeOK
<1>1. Spec => []TypeInv
  BY TypeInit, TypeStep, PTL DEF Spec
<1> QED
  BY <1>1, PTL DEF TypeInv

(* TypeOK with the part of it that makes it inductive.                     *)
LEMMA TypeInvariant == Spec => []TypeInv
BY TypeInit, TypeStep, PTL DEF Spec

-----------------------------------------------------------------------------
(* Balances.  What is written back is what was read plus or minus an       *)
(* amount, so the amounts read and not yet written back obey the bound too.*)

LedgerInv ==
    /\ BalanceWithinLedger
    /\ \A w \in Workers :
          pc[w] = "commit" /\ Cost(job[w], done[w]) > 0 =>
              /\ WithinLedger(Owner[job[w]], bal[w])
              /\ bal[w] >= Cost(job[w], done[w])
    /\ \A a \in Admins :
          adminUser[a] # NoUser => WithinLedger(adminUser[a], adminSaw[a])

(* Before any top-up or charge a balance is the initial amount.            *)
LEMMA LedgerInit == Init => LedgerInv
BY AmountAssumption
   DEF Init, LedgerInv, BalanceWithinLedger, WithinLedger

(* An amount within the ledger stays within it while the ledger grows.     *)
LEMMA LedgerGrows ==
    ASSUME TypeOK, TypeOK', NEW u \in Users, NEW x \in Int,
           credits'[u] >= credits[u], debits'[u] >= debits[u], WithinLedger(u, x)
    PROVE  WithinLedger(u, x)'
BY AmountAssumption DEF TypeOK, WithinLedger

(* A step that moves no money and brings no worker to a charge.            *)
LEMMA LedgerQuiet ==
    ASSUME TypeOK, LedgerInv, UNCHANGED <<balance, credits, debits, adminUser, adminSaw>>,
           \A w \in Workers :
              pc'[w] = "commit" =>
                  \/ pc[w] = "commit" /\ UNCHANGED <<job[w], bal[w], done[w]>>
                  \/ ~(Cost(job[w], done[w]) > 0)'
    PROVE  LedgerInv'
<1>1. BalanceWithinLedger'
  BY DEF LedgerInv, BalanceWithinLedger, WithinLedger
<1>2. ASSUME NEW w \in Workers, pc'[w] = "commit", (Cost(job[w], done[w]) > 0)'
      PROVE  /\ WithinLedger(Owner[job[w]], bal[w])'
             /\ bal'[w] >= Cost(job[w], done[w])'
  BY <1>2 DEF LedgerInv, WithinLedger, Cost
<1>3. ASSUME NEW a \in Admins, adminUser'[a] # NoUser
      PROVE  WithinLedger(adminUser[a], adminSaw[a])'
  BY <1>3 DEF LedgerInv, WithinLedger
<1> QED
  BY <1>1, <1>2, <1>3 DEF LedgerInv

(* The balance a worker decides to charge has just been seen to suffice.   *)
LEMMA LedgerChargeRead ==
    ASSUME TypeInv, TypeInv', LedgerInv, NEW w \in Workers, ChargeRead(w)
    PROVE  LedgerInv'
<1> USE DEF TypeInv
<1>1. job[w] \in Tasks /\ Owner[job[w]] \in Users
  BY TaskAssumption DEF ChargeRead, TypeOK
<1>2. UNCHANGED <<balance, credits, debits, job, done, adminUser, adminSaw>>
  BY DEF ChargeRead, dbVars, adminVars
<1>3. CASE Raise(w) /\ UNCHANGED bal
  BY <1>2, <1>3, LedgerQuiet DEF Raise, Goto, TypeOK
<1>4. CASE /\ balance[Owner[job[w]]] >= Cost(job[w], done[w])
           /\ bal' = [bal EXCEPT ![w] = balance[Owner[job[w]]]]
           /\ Goto(w, "commit")
  <2>1. BalanceWithinLedger'
    BY <1>2 DEF LedgerInv, BalanceWithinLedger, WithinLedger
  <2>2. bal'[w] = balance[Owner[job[w]]] /\ WithinLedger(Owner[job[w]], balance[Owner[job[w]]])
    BY <1>1, <1>4 DEF TypeOK, LedgerInv, BalanceWithinLedger
  <2>3. /\ WithinLedger(Owner[job[w]], bal[w])'
        /\ bal'[w] >= Cost(job[w], done[w])'
    BY <1>2, <1>4, <2>2 DEF WithinLedger, Cost
  <2>4. ASSUME NEW v \in Workers \ {w}, pc'[v] = "commit", (Cost(job[v], done[v]) > 0)'
        PROVE  /\ WithinLedger(Owner[job[v]], bal[v])'
               /\ bal'[v] >= Cost(job[v], done[v])'
    BY <1>2, <1>4, <2>4 DEF LedgerInv, WithinLedger, Cost, Goto, TypeOK
  <2>5. ASSUME NEW a \in Admins, adminUser'[a] # NoUser
        PROVE  WithinLedger(adminUser[a], adminSaw[a])'
    BY <1>2, <2>5 DEF LedgerInv, WithinLedger
  <2> QED
    BY <2>1, <2>3, <2>4, <2>5 DEF LedgerInv
<1> QED
  BY <1>3, <1>4 DEF ChargeRead

(* What was read before the ledger grew is still within it.                *)
LEMMA LedgerKeeps ==
    ASSUME TypeInv, TypeInv', LedgerInv,
           \A u \in Users : credits'[u] >= credits[u] /\ debits'[u] >= debits[u]
    PROVE  /\ \A u \in Users, x \in Int : WithinLedger(u, x) => WithinLedger(u, x)'
           /\ \A v \in Workers :
                 pc[v] = "commit" /\ Cost(job[v], done[v]) > 0
                     /\ UNCHANGED <<job[v], bal[v], done[v]>> =>
                 /\ WithinLedger(Owner[job[v]], bal[v])'
                 /\ bal'[v] >= Cost(job[v], done[v])'
           /\ \A b \in Admins :
                 adminUser[b] # NoUser /\ UNCHANGED <<adminUser[b], adminSaw[b]>> =>
                 WithinLedger(adminUser[b], adminSaw[b])'
<1> USE DEF TypeInv
<1>1. \A u \in Users, x \in Int : WithinLedger(u, x) => WithinLedger(u, x)'
  BY LedgerGrows
<1>2. ASSUME NEW v \in Workers, pc[v] = "commit", Cost(job[v], done[v]) > 0,
             UNCHANGED <<job[v], bal[v], done[v]>>
      PROVE  /\ WithinLedger(Owner[job[v]], bal[v])'
             /\ bal'[v] >= Cost(job[v], done[v])'
  <2>1. PICK u \in Users, x \in Int : u = Owner[job[v]] /\ x = bal[v]
    BY <1>2, TaskAssumption DEF TypeOK
  <2>2. WithinLedger(u, x) /\ x >= Cost(job[v], done[v])
    BY <1>2, <2>1 DEF LedgerInv
  <2>3. WithinLedger(u, x)'
    BY <1>1, <2>2
  <2>4. u = Owner[job'[v]] /\ x = bal'[v]
    BY <1>2, <2>1
  <2> QED
    BY <1>2, <2>2, <2>3, <2>4 DEF WithinLedger, Cost
<1>3. ASSUME NEW b \in Admins, adminUser[b] # NoUser,
             UNCHANGED <<adminUser[b], adminSaw[b]>>
      PROVE  WithinLedger(adminUser[b], adminSaw[b])'
  <2>1. PICK u \in Users, x \in Int : u = adminUser[b] /\ x = adminSaw[b]
    BY <1>3 DEF TypeOK
  <2>2. WithinLedger(u, x)
    BY <1>3, <2>1 DEF LedgerInv
  <2>3. WithinLedger(u, x)'
    BY <1>1, <2>2
  <2> QED
    BY <1>3, <2>1, <2>3 DEF WithinLedger
<1> QED
  BY <1>1, <1>2, <1>3

(* A committed charge leaves an amount the recorded charges account for.   *)
LEMMA LedgerCompleteCommit ==
    ASSUME TypeInv, TypeInv', LedgerInv, NEW w \in Workers, CompleteCommit(w)
    PROVE  LedgerInv'
<1> USE DEF TypeInv
<1>1. job[w] \in Tasks
  BY DEF CompleteCommit, TypeOK
<1>2. PICK u \in Users, cost \in Nat : u = Owner[job[w]] /\ cost = Cost(job[w], done[w])
  BY <1>1, TaskAssumption, CostIsNat DEF TypeOK
<1>3. /\ pc[w] = "commit" /\ Goto(w, "ack")
      /\ balance' = [balance EXCEPT ![u] = IF cost > 0 THEN bal[w] - cost ELSE @]
      /\ debits' = [debits EXCEPT ![u] = @ + cost]
      /\ UNCHANGED <<credits, job, bal, done, adminUser, adminSaw>>
  BY <1>2 DEF CompleteCommit, localVars, adminVars
<1>4. \A x \in Users : credits'[x] >= credits[x] /\ debits'[x] >= debits[x]
  BY <1>2, <1>3 DEF TypeOK
<1>5. ASSUME NEW x \in Users
      PROVE  WithinLedger(x, balance[x])'
  <2>0. WithinLedger(x, balance[x])
    BY DEF LedgerInv, BalanceWithinLedger
  <2>1. CASE x # u \/ cost = 0
    <3>1. balance'[x] = balance[x] /\ debits'[x] = debits[x] /\ credits'[x] = credits[x]
      BY <1>2, <1>3, <2>1 DEF TypeOK
    <3> QED
      BY <2>0, <3>1 DEF WithinLedger
  <2>2. CASE x = u /\ cost > 0
    <3>1. balance'[u] = bal[w] - cost /\ debits'[u] = debits[u] + cost /\ credits'[u] = credits[u]
      BY <1>2, <1>3, <2>2 DEF TypeOK
    <3>2. WithinLedger(u, bal[w]) /\ bal[w] >= cost
      BY <1>2, <1>3, <2>2 DEF LedgerInv
    <3> QED
      BY <1>2, <2>2, <3>1, <3>2, AmountAssumption DEF WithinLedger, TypeOK
  <2> QED
    BY <1>2, <2>1, <2>2
<1>6. ASSUME NEW v \in Workers, pc'[v] = "commit", (Cost(job[v], done[v]) > 0)'
      PROVE  /\ WithinLedger(Owner[job[v]], bal[v])'
             /\ bal'[v] >= Cost(job[v], done[v])'
  <2>1. pc[v] = "commit" /\ Cost(job[v], done[v]) > 0 /\ UNCHANGED <<job[v], bal[v], done[v]>>
    BY <1>3, <1>6 DEF Goto, TypeOK, Cost
  <2> QED
    BY <1>4, <2>1, LedgerKeeps
<1>7. ASSUME NEW a \in Admins, adminUser'[a] # NoUser
      PROVE  WithinLedger(adminUser[a], adminSaw[a])'
  BY <1>3, <1>4, <1>7, LedgerKeeps
<1> QED
  BY <1>5, <1>6, <1>7 DEF LedgerInv, BalanceWithinLedger

(* So does a committed top-up, however old the balance it adds to.         *)
LEMMA LedgerAdmin ==
    ASSUME TypeInv, TypeInv', LedgerInv, NEW a \in Admins, AdminStep(a)
    PROVE  LedgerInv'
<1> USE DEF TypeInv
<1>1. ASSUME NEW u \in Users, TopUpRead(a, u)
      PROVE  LedgerInv'
  <2>1. UNCHANGED <<balance, credits, debits, pc, job, bal, done>>
    BY <1>1 DEF TopUpRead, dbVars, workerVars
  <2>2. ASSUME NEW b \in Admins, adminUser'[b] # NoUser
        PROVE  WithinLedger(adminUser[b], adminSaw[b])'
    <3>1. CASE b = a
      BY <1>1, <2>1, <3>1 DEF TopUpRead, TypeOK, LedgerInv, BalanceWithinLedger, WithinLedger
    <3>2. CASE b # a
      BY <1>1, <2>1, <2>2, <3>2 DEF TopUpRead, TypeOK, LedgerInv, WithinLedger
    <3> QED
      BY <3>1, <3>2
  <2> QED
    BY <2>1, <2>2 DEF LedgerInv, BalanceWithinLedger, WithinLedger, Cost
<1>2. CASE TopUpCommit(a)
  <2>1. PICK u \in Users, saw \in Int : u = adminUser[a] /\ saw = adminSaw[a]
    BY <1>2 DEF TopUpCommit, TypeOK
  <2>2. /\ balance' = [balance EXCEPT ![u] = saw + TopUpAmount]
        /\ credits' = [credits EXCEPT ![u] = @ + TopUpAmount]
        /\ adminUser' = [adminUser EXCEPT ![a] = NoUser]
        /\ adminSaw' = [adminSaw EXCEPT ![a] = 0]
        /\ UNCHANGED <<debits, pc, job, bal, done>>
    BY <1>2, <2>1 DEF TopUpCommit, workerVars
  <2>3. WithinLedger(u, saw) /\ TopUpAmount \in Nat
    BY <1>2, <2>1, AmountAssumption DEF TopUpCommit, LedgerInv
  <2>4. \A x \in Users : credits'[x] >= credits[x] /\ debits'[x] >= debits[x]
    BY <2>2, <2>3 DEF TypeOK
  <2>5. ASSUME NEW x \in Users
        PROVE  WithinLedger(x, balance[x])'
    <3>1. CASE x = u
      <4>1. /\ balance'[x] = saw + TopUpAmount
            /\ credits'[x] = credits[x] + TopUpAmount
            /\ debits'[x] = debits[x]
        BY <2>2, <3>1 DEF TypeOK
      <4> QED
        BY <2>1, <2>3, <3>1, <4>1, AmountAssumption DEF WithinLedger, TypeOK
    <3>2. CASE x # u
      <4>1. balance'[x] = balance[x] /\ credits'[x] = credits[x] /\ debits'[x] = debits[x]
        BY <2>2, <3>2 DEF TypeOK
      <4> QED
        BY <4>1 DEF WithinLedger, LedgerInv, BalanceWithinLedger
    <3> QED
      BY <3>1, <3>2
  <2>6. ASSUME NEW v \in Workers, pc'[v] = "commit", (Cost(job[v], done[v]) > 0)'
        PROVE  /\ WithinLedger(Owner[job[v]], bal[v])'
               /\ bal'[v] >= Cost(job[v], done[v])'
    <3>1. pc[v] = "commit" /\ Cost(job[v], done[v]) > 0 /\ UNCHANGED <<job[v], bal[v], done[v]>>
      BY <2>2, <2>6 DEF Cost
    <3> QED
      BY <2>4, <3>1, LedgerKeeps
  <2>7. ASSUME NEW b \in Admins, adminUser'[b] # NoUser
        PROVE  WithinLedger(adminUser[b], adminSaw[b])'
    <3>1. adminUser[b] # NoUser /\ UNCHANGED <<adminUser[b], adminSaw[b]>>
      BY <2>2, <2>7 DEF TypeOK
    <3> QED
      BY <2>4, <3>1, LedgerKeeps
  <2> QED
    BY <2>5, <2>6, <2>7 DEF LedgerInv, BalanceWithinLedger
<1> QED
  BY <1>1, <1>2 DEF AdminStep

(* Every step keeps the balances, stored and read, within the ledger.      *)
LEMMA LedgerStep == TypeInv /\ TypeInv' /\ LedgerInv /\ [Next]_vars => LedgerInv'
<1> SUFFICES ASSUME TypeInv, TypeInv', LedgerInv, [Next]_vars
             PROVE  LedgerInv'
  OBVIOUS
<1> USE DEF TypeInv
<1>1. ASSUME NEW t \in Tasks, ApiSubmit(t) \/ ApiStep(t) \/ ApiCrash(t)
      PROVE  LedgerInv'
  <2>1. UNCHANGED <<balance, credits, debits, adminUser, adminSaw, pc, job, bal, done>>
    BY <1>1 DEF ApiSubmit, ApiStep, ApiFailEmpty, PublishOk, PublishError, PublishLost,
       PublishErrorDelivered, ApiFail, ApiCrash, dbVars, moneyVars, workerVars, adminVars
  <2> QED
    BY <2>1, LedgerQuiet
<1>2. ASSUME NEW w \in Workers, WorkerStep(w)
      PROVE  LedgerInv'
  <2>1. ASSUME NEW t \in Tasks, Deliver(w, t)
        PROVE  LedgerInv'
    BY <2>1, LedgerQuiet DEF Deliver, Goto, TypeOK, dbVars, localVars, adminVars
  <2>2. CASE \/ StartRead(w) \/ StartCommit(w) \/ ReadPayload(w) \/ PredictOk(w)
             \/ FailRead(w) \/ FailCommit(w)
    <3>1. UNCHANGED <<balance, credits, debits, adminUser, adminSaw>>
      BY <2>2 DEF StartRead, StartCommit, ReadPayload, PredictOk, FailRead, FailCommit,
         dbVars, moneyVars, adminVars
    <3>2. \A v \in Workers : pc'[v] = "commit" =>
             pc[v] = "commit" /\ UNCHANGED <<job[v], bal[v], done[v]>>
      BY <2>2 DEF StartRead, StartCommit, ReadPayload, PredictOk, FailRead, FailCommit,
         Goto, TypeOK, localVars
    <3> QED
      BY <3>1, <3>2, LedgerQuiet
  <2>3. CASE PredictError(w) \/ CompleteRollback(w)
    <3>1. UNCHANGED <<balance, credits, debits, adminUser, adminSaw, job, bal, done>>
      BY <2>3 DEF PredictError, CompleteRollback, dbVars, adminVars
    <3>2. \A v \in Workers : pc'[v] = "commit" => pc[v] = "commit"
      BY <2>3 DEF PredictError, CompleteRollback, Raise, Goto, TypeOK
    <3> QED
      BY <3>1, <3>2, LedgerQuiet
  <2>4. CASE CompleteRead(w)
    <3>1. UNCHANGED <<balance, credits, debits, adminUser, adminSaw, job, bal, done>>
      BY <2>4 DEF CompleteRead, dbVars, adminVars
    <3>2. \A v \in Workers : pc'[v] = "commit" =>
             pc[v] = "commit" \/ ~(Cost(job[v], done[v]) > 0)'
      BY <2>4, <3>1 DEF CompleteRead, Goto, TypeOK, Cost
    <3> QED
      BY <3>1, <3>2, LedgerQuiet
  <2>5. CASE Ack(w)
    <3>1. UNCHANGED <<balance, credits, debits, adminUser, adminSaw>>
      BY <2>5 DEF Ack, dbVars, adminVars
    <3>2. \A v \in Workers : pc'[v] = "commit" =>
             pc[v] = "commit" /\ UNCHANGED <<job[v], bal[v], done[v]>>
      BY <2>5 DEF Ack, Leave, Goto, TypeOK
    <3> QED
      BY <3>1, <3>2, LedgerQuiet
  <2> QED
    BY <1>2, <2>1, <2>2, <2>3, <2>4, <2>5, LedgerChargeRead, LedgerCompleteCommit
    DEF WorkerStep
<1>3. ASSUME NEW w \in Workers, Crash(w) \/ Restart(w) \/ Requeue(w)
      PROVE  LedgerInv'
  <2>1. UNCHANGED <<balance, credits, debits, adminUser, adminSaw>>
    BY <1>3 DEF Crash, Restart, Requeue, dbVars, adminVars
  <2>2. \A v \in Workers : pc'[v] = "commit" =>
           pc[v] = "commit" /\ UNCHANGED <<job[v], bal[v], done[v]>>
    BY <1>3 DEF Crash, Restart, Requeue, Leave, Goto, TypeOK, localVars, workerVars
  <2> QED
    BY <2>1, <2>2, LedgerQuiet
<1>4. CASE UNCHANGED vars
  BY <1>4, LedgerQuiet DEF vars
<1> QED
  BY <1>1, <1>2, <1>3, <1>4, LedgerAdmin DEF Next, Fault

(* No interleaving of workers, administrators and faults, and no broker,   *)
(* takes a balance below zero or outside what the transactions table       *)
(* allows, although updates of the balance are lost.                       *)
THEOREM BalanceStaysWithinLedger == Spec => []BalanceWithinLedger
<1>1. TypeInv /\ LedgerInv /\ [Next]_vars => (TypeInv /\ LedgerInv)'
  BY TypeStep, LedgerStep
<1>2. Init => TypeInv /\ LedgerInv
  BY TypeInit, LedgerInit
<1>3. LedgerInv => BalanceWithinLedger
  BY DEF LedgerInv
<1> QED
  BY <1>1, <1>2, <1>3, PTL DEF Spec

-----------------------------------------------------------------------------
(* Counting predictions: a worker reaches a completion with at least one   *)
(* prediction and at most as many as the message has records.              *)

CountInv ==
    /\ \A t \in Tasks :
          api[t] \notin {"idle", "empty", "closed", "down"} => Accepted[t] > 0
    /\ \A t \in Tasks : msg[t] # "none" => Accepted[t] > 0
    /\ \A w \in Workers :
          /\ Active(w) => Accepted[job[w]] > 0
          /\ pc[w] \in {"down", "idle", "start", "begin", "payload"} => done[w] = 0 /\ ~handler[w]
          /\ pc[w] = "predict" => done[w] < Accepted[job[w]] /\ ~handler[w]
          /\ pc[w] \in {"check", "charge", "commit"} =>
                /\ done[w] \in 1..Accepted[job[w]]
                /\ done[w] < Accepted[job[w]] => handler[w]
                /\ handler[w] => Kind[job[w]] = "batch"

(* No worker has predicted anything yet.                                   *)
LEMMA CountInit == Init => CountInv
BY NullAssumption DEF Init, CountInv, Active

(* A worker's step keeps its counters within the records of its message.   *)
LEMMA CountWorker ==
    ASSUME TypeInv, CountInv, NEW w \in Workers, WorkerStep(w)
    PROVE  CountInv'
<1> USE DEF TypeInv
<1>1. ASSUME NEW t \in Tasks, Deliver(w, t)
      PROVE  CountInv'
  BY <1>1, TaskAssumption
  DEF Deliver, CountInv, TypeOK, Active, Goto, localVars
<1>2. CASE \/ StartRead(w) \/ StartCommit(w) \/ ReadPayload(w)
           \/ FailRead(w) \/ FailCommit(w)
  <2>1. UNCHANGED <<api, msg, job, done, handler>>
    BY <1>2 DEF StartRead, StartCommit, ReadPayload, FailRead, FailCommit, localVars
  <2>2. \E label \in {"begin", "payload", "predict", "fail", "mark", "ack"} :
           /\ Goto(w, label)
           /\ label \in {"begin", "payload", "predict"} =>
                 pc[w] \in {"start", "begin", "payload"}
    BY <1>2 DEF StartRead, StartCommit, ReadPayload, FailRead, FailCommit
  <2>3. Active(w)
    BY <1>2 DEF StartRead, StartCommit, ReadPayload, FailRead, FailCommit, Active
  <2> QED
    BY <2>1, <2>2, <2>3 DEF CountInv, TypeOK, Active, Goto
<1>3. CASE PredictOk(w)
  <2>1. job[w] \in Tasks /\ Accepted[job[w]] \in Nat
    BY <1>3, TaskAssumption DEF PredictOk, TypeOK
  <2> QED
    BY <1>3, <2>1 DEF PredictOk, CountInv, TypeOK, Active, Goto
<1>4. CASE \/ PredictError(w) \/ CompleteRollback(w)
           \/ ChargeRead(w) /\ Raise(w)
  <2>1. UNCHANGED <<api, msg, job, done>> /\ Raise(w)
    BY <1>4 DEF PredictError, CompleteRollback, ChargeRead
  <2>2. job[w] \in Tasks /\ Accepted[job[w]] \in Nat
    BY <1>4, TaskAssumption DEF PredictError, CompleteRollback, ChargeRead, TypeOK
  <2>3. pc[w] \in {"predict", "charge", "commit"} /\ Active(w)
    BY <1>4 DEF PredictError, CompleteRollback, ChargeRead, Active
  <2>4. CASE CanSalvage(w)
    <3>1. Goto(w, "check") /\ handler' = [handler EXCEPT ![w] = TRUE]
      BY <2>1, <2>4 DEF Raise
    <3>2. done[w] \in 1..Accepted[job[w]] /\ Kind[job[w]] = "batch"
      BY <2>2, <2>3, <2>4 DEF CountInv, TypeOK, CanSalvage
    <3> QED
      BY <2>1, <2>3, <3>1, <3>2 DEF CountInv, TypeOK, Active, Goto
  <2>5. CASE ~CanSalvage(w)
    <3>1. Goto(w, "fail") /\ UNCHANGED handler
      BY <2>1, <2>5 DEF Raise
    <3> QED
      BY <2>1, <2>3, <3>1 DEF CountInv, TypeOK, Active, Goto
  <2> QED
    BY <2>4, <2>5
<1>5. CASE CompleteRead(w) \/ (ChargeRead(w) /\ ~Raise(w)) \/ CompleteCommit(w)
  <2>1. UNCHANGED <<api, msg, job, done, handler>>
    BY <1>5 DEF CompleteRead, ChargeRead, CompleteCommit, localVars
  <2>2. pc[w] \in {"check", "charge", "commit"} /\ Active(w)
    BY <1>5 DEF CompleteRead, ChargeRead, CompleteCommit, Active
  <2>3. \E label \in {"charge", "commit", "ack"} : Goto(w, label)
    BY <1>5 DEF CompleteRead, ChargeRead, CompleteCommit
  <2> QED
    BY <2>1, <2>2, <2>3 DEF CountInv, TypeOK, Active, Goto
<1>6. CASE Ack(w)
  <2>1. PICK label \in {"down", "idle"} : Leave(w, label)
    BY <1>6 DEF Ack
  <2>2. \A t \in Tasks : msg'[t] # "none" => Accepted[t] > 0
    <3>1. job[w] \in Tasks /\ Active(w)
      BY <1>6 DEF Ack, TypeOK, Active
    <3> QED
      BY <1>6, <3>1 DEF Ack, CountInv, TypeOK
  <2> QED
    BY <1>6, <2>1, <2>2 DEF Ack, Leave, CountInv, TypeOK, Active, Goto
<1> QED
  BY <1>1, <1>2, <1>3, <1>4, <1>5, <1>6 DEF WorkerStep

(* Every step keeps the workers' counters right.                           *)
LEMMA CountStep == TypeInv /\ CountInv /\ [Next]_vars => CountInv'
<1> SUFFICES ASSUME TypeInv, CountInv, [Next]_vars
             PROVE  CountInv'
  OBVIOUS
<1> USE DEF TypeInv
<1>1. ASSUME NEW t \in Tasks, ApiSubmit(t) \/ ApiStep(t) \/ ApiCrash(t)
      PROVE  CountInv'
  <2>1. UNCHANGED <<pc, job, done, handler>>
    BY <1>1 DEF ApiSubmit, ApiStep, ApiFailEmpty, PublishOk, PublishError, PublishLost,
       PublishErrorDelivered, ApiFail, ApiCrash, workerVars
  <2>2. \A x \in Tasks : api'[x] \notin {"idle", "empty", "closed", "down"} => Accepted[x] > 0
    BY <1>1, TaskAssumption
    DEF ApiSubmit, ApiStep, ApiFailEmpty, PublishOk, PublishError, PublishLost,
       PublishErrorDelivered, ApiFail, ApiCrash, CountInv, TypeOK
  <2>3. \A x \in Tasks : msg'[x] # "none" => Accepted[x] > 0
    BY <1>1 DEF ApiSubmit, ApiStep, ApiFailEmpty, PublishOk, PublishError, PublishLost,
       PublishErrorDelivered, ApiFail, ApiCrash, CountInv, TypeOK
  <2> QED
    BY <2>1, <2>2, <2>3 DEF CountInv, Active
<1>2. ASSUME NEW a \in Admins, AdminStep(a)
      PROVE  CountInv'
  BY <1>2 DEF AdminStep, TopUpRead, TopUpCommit, CountInv, Active, workerVars
<1>3. ASSUME NEW w \in Workers, Crash(w)
      PROVE  CountInv'
  <2>1. \A t \in Tasks : msg'[t] # "none" => Accepted[t] > 0
    BY <1>3, NullAssumption DEF Crash, CountInv, TypeOK
  <2> QED
    BY <1>3, <2>1 DEF Crash, Leave, CountInv, TypeOK, Active, Goto
<1>4. ASSUME NEW w \in Workers, Restart(w)
      PROVE  CountInv'
  BY <1>4 DEF Restart, CountInv, TypeOK, Active, Goto, localVars
<1>5. ASSUME NEW w \in Workers, Requeue(w)
      PROVE  CountInv'
  <2>1. \A t \in Tasks : msg'[t] # "none" => Accepted[t] > 0
    BY <1>5, NullAssumption DEF Requeue, CountInv, TypeOK
  <2> QED
    BY <1>5, <2>1 DEF Requeue, CountInv, Active, workerVars
<1>6. CASE UNCHANGED vars
  BY <1>6 DEF vars, CountInv, Active
<1> QED
  BY <1>1, <1>2, <1>3, <1>4, <1>5, <1>6, CountWorker DEF Next, Fault

-----------------------------------------------------------------------------
(* The charge and its result, whatever the broker does.  A worker comes to *)
(* the commit only with a row that was not completed when it read it, so   *)
(* the UPDATE of the commit names the status.                              *)

CompletionInv ==
    /\ \A t \in Tasks : task[t].status = "completed" => result[t] # NoResult
    /\ \A w \in Workers : pc[w] \in {"charge", "commit"} => row[w].status # "completed"

(* The row a completion leaves is completed and has a result.              *)
LEMMA CompletionWrites ==
    ASSUME TypeInv, CompletionInv, NEW w \in Workers, CompleteCommit(w)
    PROVE  /\ job[w] \in Tasks
           /\ task'[job[w]].status = "completed"
           /\ \A t \in Tasks : result'[t] = NoResult => result[t] = NoResult /\ t # job[w]
           /\ \A t \in Tasks \ {job[w]} : task'[t] = task[t] /\ charged'[t] = charged[t]
<1> USE DEF TypeInv
<1>1. job[w] \in Tasks /\ Active(w)
  BY DEF CompleteCommit, TypeOK, Active
<1>2. PICK t \in Tasks, e \in Errors :
         t = job[w] /\ e = IF handler[w] THEN "partial" ELSE "none"
  BY <1>1 DEF Errors
<1>3. row[w].status # "completed"
  BY DEF CompletionInv, CompleteCommit
<1>4. /\ WriteTask(t, row[w], "completed", e) \in [Tasks -> TaskRow]
      /\ WriteTask(t, row[w], "completed", e)[t].status = "completed"
      /\ \A x \in Tasks \ {t} : WriteTask(t, row[w], "completed", e)[x] = task[x]
  <2>1. task \in [Tasks -> TaskRow] /\ "completed" \in Statuses
    BY DEF TypeOK, Statuses
  <2>2. PICK seen \in TaskRow : seen = row[w]
    BY DEF TypeOK
  <2>3. seen.status # "completed"
    BY <1>3, <2>2
  <2>4. /\ WriteTask(t, seen, "completed", e) \in [Tasks -> TaskRow]
        /\ WriteTask(t, seen, "completed", e)[t].status = "completed"
        /\ \A x \in Tasks \ {t} : WriteTask(t, seen, "completed", e)[x] = task[x]
    BY <2>1, <2>3 DEF WriteTask, Flushed, TaskRow
  <2> QED
    BY <2>2, <2>4
<1>5. task' = IF Kind[t] = "batch"
              THEN [WriteTask(t, row[w], "completed", e) EXCEPT ![t].rejected = RejectedArg(w)]
              ELSE WriteTask(t, row[w], "completed", e)
  BY <1>2 DEF CompleteCommit
<1>6. task'[t].status = "completed" /\ \A x \in Tasks \ {t} : task'[x] = task[x]
  BY <1>4, <1>5 DEF TaskRow
<1>7. WrittenResult(w) # NoResult
  BY <1>1, WrittenResultType
<1> QED
  BY <1>1, <1>2, <1>6, <1>7 DEF CompleteCommit, TypeOK

(* A step of a request thread completes no task.                           *)
LEMMA CompletionApi ==
    ASSUME TypeInv, CompletionInv, NEW x \in Tasks,
           ApiSubmit(x) \/ ApiStep(x) \/ ApiCrash(x)
    PROVE  CompletionInv' /\ UNCHANGED charged
<1> USE DEF TypeInv
<1>1. UNCHANGED <<result, charged, pc, row>>
  BY DEF ApiSubmit, ApiStep, ApiFailEmpty, PublishOk, PublishError, PublishLost,
     PublishErrorDelivered, ApiFail, ApiCrash, dbVars, taskVars, moneyVars, workerVars
<1>2. ASSUME NEW t \in Tasks, task'[t].status = "completed"
      PROVE  task[t].status = "completed"
  <2>1. CASE ApiSubmit(x)
    BY <1>2, <2>1 DEF ApiSubmit, TypeOK
  <2>2. CASE ApiFailEmpty(x) \/ ApiFail(x)
    <3>1. PICK seen : task' = WriteTask(x, seen, "failed", "failed")
      BY <2>2 DEF ApiFailEmpty, ApiFail
    <3>2. task'[t].status \in {task[t].status, "failed"}
      BY <3>1, WriteTaskType DEF TypeOK, Statuses, Errors
    <3> QED
      BY <1>2, <3>2
  <2>3. CASE PublishOk(x) \/ PublishError(x) \/ PublishLost(x) \/ PublishErrorDelivered(x)
             \/ ApiCrash(x)
    BY <1>2, <2>3 DEF PublishOk, PublishError, PublishLost, PublishErrorDelivered, ApiCrash,
       dbVars, taskVars
  <2> QED
    BY <2>1, <2>2, <2>3 DEF ApiStep
<1> QED
  BY <1>1, <1>2 DEF CompletionInv

(* A worker's step completes a task only in CompleteCommit.                *)
LEMMA CompletionWorker ==
    ASSUME TypeInv, CompletionInv, NEW w \in Workers, WorkerStep(w)
    PROVE  CompletionInv' /\ (UNCHANGED charged \/ CompleteCommit(w))
<1> USE DEF TypeInv
<1>1. CASE CompleteCommit(w)
  <2>1. \A t \in Tasks : task'[t].status = "completed" => result'[t] # NoResult
    BY <1>1, CompletionWrites DEF CompletionInv
  <2>2. \A v \in Workers : pc'[v] \in {"charge", "commit"} => row'[v].status # "completed"
    BY <1>1 DEF CompletionInv, CompleteCommit, Goto, TypeOK, localVars
  <2> QED
    BY <1>1, <2>1, <2>2 DEF CompletionInv
<1>2. CASE StartCommit(w) \/ FailCommit(w)
  <2>1. job[w] \in Tasks
    BY <1>2 DEF StartCommit, FailCommit, TypeOK
  <2>2. PICK s \in {"processing", "failed"}, e \in Errors :
           task' = WriteTask(job[w], row[w], s, e)
    BY <1>2 DEF StartCommit, FailCommit, Errors
  <2>3. \A t \in Tasks : task'[t].status = "completed" => task[t].status = "completed"
    <3>1. task \in [Tasks -> TaskRow] /\ s \in Statuses /\ s # "completed"
      BY DEF TypeOK, Statuses
    <3>2. \A t \in Tasks : task'[t].status \in {task[t].status, s}
      BY <2>1, <2>2, <3>1, WriteTaskType
    <3> QED
      BY <3>1, <3>2
  <2> QED
    BY <1>2, <2>3 DEF CompletionInv, StartCommit, FailCommit, Goto, TypeOK, localVars,
       moneyVars
<1>3. CASE CompleteRead(w)
  BY <1>3 DEF CompleteRead, CompletionInv, AlreadyCompleted, Goto, TypeOK, dbVars, taskVars,
     moneyVars
<1>4. ASSUME NEW t \in Tasks, Deliver(w, t)
      PROVE  CompletionInv' /\ UNCHANGED charged
  BY <1>4 DEF Deliver, CompletionInv, Goto, TypeOK, dbVars, taskVars, moneyVars, localVars
<1>5. CASE StartRead(w) \/ ReadPayload(w) \/ PredictOk(w) \/ FailRead(w)
  BY <1>5 DEF StartRead, ReadPayload, PredictOk, FailRead, CompletionInv, Goto, TypeOK,
     dbVars, taskVars, moneyVars
<1>6. CASE PredictError(w) \/ CompleteRollback(w) \/ ChargeRead(w)
  BY <1>6 DEF PredictError, CompleteRollback, ChargeRead, Raise, CompletionInv, Goto, TypeOK,
     dbVars, taskVars, moneyVars
<1>7. CASE Ack(w)
  BY <1>7 DEF Ack, Leave, CompletionInv, Goto, TypeOK, dbVars, taskVars, moneyVars
<1> QED
  BY <1>1, <1>2, <1>3, <1>4, <1>5, <1>6, <1>7 DEF WorkerStep

(* Every step keeps completed tasks with their results, and only a         *)
(* completion makes a charge.                                              *)
LEMMA CompletionStep ==
    TypeInv /\ CompletionInv /\ [Next]_vars =>
        /\ CompletionInv'
        /\ UNCHANGED charged \/ \E w \in Workers : CompleteCommit(w)
<1> SUFFICES ASSUME TypeInv, CompletionInv, [Next]_vars
             PROVE  /\ CompletionInv'
                    /\ UNCHANGED charged \/ \E w \in Workers : CompleteCommit(w)
  OBVIOUS
<1>1. CASE UNCHANGED vars
  BY <1>1 DEF vars, CompletionInv
<1>2. ASSUME NEW a \in Admins, AdminStep(a)
      PROVE  CompletionInv' /\ UNCHANGED charged
  BY <1>2 DEF AdminStep, TopUpRead, TopUpCommit, CompletionInv, dbVars, taskVars, moneyVars,
     workerVars
<1>3. ASSUME NEW w \in Workers, Crash(w) \/ Restart(w) \/ Requeue(w)
      PROVE  CompletionInv' /\ UNCHANGED charged
  BY <1>3 DEF Crash, Restart, Requeue, Leave, Goto, CompletionInv, TypeInv, TypeOK, dbVars,
     taskVars, moneyVars, workerVars, localVars
<1> QED
  BY <1>1, <1>2, <1>3, CompletionApi, CompletionWorker DEF Next, Fault

(* Whatever the broker hands to whom, a charge is only ever recorded by a  *)
(* step that leaves its task completed, with a result.                     *)
THEOREM ChargeStaysWithResult == Spec => ChargeComesWithResult
<1>1. Init => CompletionInv
  BY DEF Init, CompletionInv, AbsentRow
<1>2. TypeInv /\ CompletionInv /\ [Next]_vars => CompletionInv'
  BY CompletionStep
<1>3. TypeInv /\ CompletionInv /\ [Next]_vars =>
         [\A t \in Tasks : charged'[t] # charged[t] =>
             task'[t].status = "completed" /\ result'[t] # NoResult]_vars
  BY CompletionStep, CompletionWrites
<1> QED
  BY <1>1, <1>2, <1>3, TypeInvariant, PTL DEF Spec, ChargeComesWithResult

-----------------------------------------------------------------------------
(* One consumer at a time.  While no delivery is taken back from a worker, *)
(* an active worker holds its message, nobody else writes its task, and so *)
(* the rows it read are current when it commits.                           *)

HoldsItsDelivery == \A w \in Workers : Active(w) => msg[job[w]] = w

PublishedIsAccepted == \A t \in Tasks : msg[t] # "none" => api[t] = "accepted"

UnpublishedIsFresh ==
    \A t \in Tasks :
        /\ task[t].status = "absent" => api[t] = "idle"
        /\ api[t] = "idle" => task[t].status = "absent"
        /\ api[t] \in {"empty", "publish", "failing"} => task[t].status = "created"

WorkInProgress ==
    \A w \in Workers :
        /\ pc[w] \in {"begin", "mark"} =>
              task[job[w]].status \in {"created", "processing", "failed"}
        /\ pc[w] \in {"payload", "predict", "check", "charge", "commit"} =>
              task[job[w]].status = "processing"

DeliveryInv ==
    /\ HoldsItsDelivery
    /\ PublishedIsAccepted
    /\ UnpublishedIsFresh
    /\ WorkInProgress
    /\ ReadsAreCurrent
    /\ ResultIffCompleted
    /\ ChargedExactlyForResult

(* Nothing is published and nobody is at work at first.                    *)
LEMMA DeliveryInit == Init => DeliveryInv
BY ResultAssumption
   DEF Init, DeliveryInv, HoldsItsDelivery, PublishedIsAccepted, UnpublishedIsFresh,
       WorkInProgress, ReadsAreCurrent, ResultIffCompleted, ChargedExactlyForResult,
       Active, AbsentRow, Spent

(* Two workers at work are at work on different tasks, both published.     *)
LEMMA SoleHolder ==
    ASSUME TypeOK, DeliveryInv, NEW w \in Workers, Active(w)
    PROVE  /\ job[w] \in Tasks
           /\ api[job[w]] = "accepted"
           /\ \A v \in Workers \ {w} : Active(v) => job[v] \in Tasks /\ job[v] # job[w]
BY NullAssumption
   DEF TypeOK, DeliveryInv, HoldsItsDelivery, PublishedIsAccepted, Active

(* A step that leaves the tables and every worker's reads alone, whose     *)
(* worker, if any, moves to a place that its task's status allows.         *)
LEMMA DeliveryQuiet ==
    ASSUME TypeOK, TypeOK', DeliveryInv, UNCHANGED <<task, result, charged, api>>,
           HoldsItsDelivery', PublishedIsAccepted',
           \A w \in Workers :
              \/ UNCHANGED <<pc[w], job[w], row[w], res[w]>>
              \/ pc'[w] \in {"down", "idle", "start", "fail", "ack"}
              \/ /\ UNCHANGED job[w]
                 /\ pc'[w] \in {"begin", "mark", "charge", "commit"} => row'[w] = task[job[w]]
                 /\ pc'[w] \in {"charge", "commit"} => res'[w] = result[job[w]]
                 /\ pc'[w] \in {"begin", "mark"} =>
                       task[job[w]].status \in {"created", "processing", "failed"}
                 /\ pc'[w] \in {"payload", "predict", "check", "charge", "commit"} =>
                       task[job[w]].status = "processing"
    PROVE  DeliveryInv'
<1>1. UnpublishedIsFresh' /\ ResultIffCompleted' /\ ChargedExactlyForResult'
  BY DEF DeliveryInv, UnpublishedIsFresh, ResultIffCompleted, ChargedExactlyForResult
<1>2. WorkInProgress'
  BY DEF DeliveryInv, WorkInProgress
<1>3. ReadsAreCurrent'
  BY DEF DeliveryInv, ReadsAreCurrent
<1> QED
  BY <1>1, <1>2, <1>3 DEF DeliveryInv

(* A step of worker w that writes its task's row alone: the other workers  *)
(* are at work on other rows.                                              *)
LEMMA DeliveryWrite ==
    ASSUME TypeOK, TypeOK', DeliveryInv, NEW w \in Workers, Active(w),
           NEW label \in {"payload", "predict", "ack"}, Goto(w, label),
           UNCHANGED <<api, msg, job, row, res>>,
           \A t \in Tasks \ {job[w]} :
              task'[t] = task[t] /\ result'[t] = result[t] /\ charged'[t] = charged[t],
           task'[job[w]].status # "absent",
           label # "ack" => task'[job[w]].status = "processing",
           result'[job[w]] # NoResult <=> task'[job[w]].status = "completed",
           charged'[job[w]] = Spent(result'[job[w]])
    PROVE  DeliveryInv'
<1>1. /\ job[w] \in Tasks
      /\ api[job[w]] = "accepted"
      /\ \A v \in Workers \ {w} : Active(v) => job[v] \in Tasks /\ job[v] # job[w]
  BY SoleHolder
<1>2. HoldsItsDelivery' /\ PublishedIsAccepted'
  BY DEF DeliveryInv, HoldsItsDelivery, PublishedIsAccepted, Active, Goto, TypeOK
<1>3. UnpublishedIsFresh'
  BY <1>1 DEF DeliveryInv, UnpublishedIsFresh
<1>4. ResultIffCompleted' /\ ChargedExactlyForResult'
  BY <1>1 DEF DeliveryInv, ResultIffCompleted, ChargedExactlyForResult, Spent
<1>5. \A v \in Workers \ {w} : pc'[v] = pc[v]
  BY DEF Goto, TypeOK
<1>6. pc'[w] = label
  BY DEF Goto, TypeOK
<1>7. WorkInProgress'
  BY <1>1, <1>5, <1>6 DEF DeliveryInv, WorkInProgress, Active
<1>8. ReadsAreCurrent'
  BY <1>1, <1>5, <1>6 DEF DeliveryInv, ReadsAreCurrent, Active
<1> QED
  BY <1>2, <1>3, <1>4, <1>7, <1>8 DEF DeliveryInv

(* A worker's step keeps its delivery, its reads and the rows consistent.  *)
LEMMA DeliveryWorker ==
    ASSUME TypeInv, TypeInv', DeliveryInv, NEW w \in Workers, WorkerStep(w)
    PROVE  DeliveryInv'
<1> USE DEF TypeInv
<1>1. ASSUME NEW t \in Tasks, Deliver(w, t)
      PROVE  DeliveryInv'
  <2>1. HoldsItsDelivery'
    BY <1>1, NullAssumption
    DEF Deliver, DeliveryInv, HoldsItsDelivery, Active, Goto, TypeOK
  <2>2. PublishedIsAccepted'
    BY <1>1 DEF Deliver, DeliveryInv, PublishedIsAccepted, TypeOK
  <2>3. UNCHANGED <<task, result, charged, api>>
    BY <1>1 DEF Deliver, dbVars
  <2>4. \A v \in Workers :
           UNCHANGED <<pc[v], job[v], row[v], res[v]>> \/ pc'[v] = "start"
    BY <1>1 DEF Deliver, Goto, TypeOK, localVars
  <2> QED
    BY <2>1, <2>2, <2>3, <2>4, DeliveryQuiet
<1>2. CASE StartRead(w) \/ ReadPayload(w) \/ PredictOk(w) \/ PredictError(w)
           \/ CompleteRead(w) \/ ChargeRead(w) \/ CompleteRollback(w) \/ FailRead(w)
  <2>1. UNCHANGED <<task, result, charged, api, msg, job>>
    BY <1>2 DEF StartRead, ReadPayload, PredictOk, PredictError, CompleteRead, ChargeRead,
       CompleteRollback, FailRead, dbVars
  <2>2. Active(w) /\ job[w] \in Tasks /\ task[job[w]].status # "absent"
    BY <1>2, SoleHolder DEF StartRead, ReadPayload, PredictOk, PredictError, CompleteRead,
       ChargeRead, CompleteRollback, FailRead, Active, DeliveryInv, UnpublishedIsFresh
  <2>3. task[job[w]].status \in Statuses
    BY <2>2 DEF TypeOK, TaskRow
  <2>4. HoldsItsDelivery' /\ PublishedIsAccepted'
    BY <2>1, <2>2, <1>2
    DEF StartRead, ReadPayload, PredictOk, PredictError, CompleteRead, ChargeRead,
        CompleteRollback, FailRead, Raise, Goto, TypeOK, Active,
        DeliveryInv, HoldsItsDelivery, PublishedIsAccepted
  <2>5. \A v \in Workers \ {w} : UNCHANGED <<pc[v], job[v], row[v], res[v]>>
    BY <1>2, <2>1
    DEF StartRead, ReadPayload, PredictOk, PredictError, CompleteRead, ChargeRead,
        CompleteRollback, FailRead, Raise, Goto, TypeOK
  <2>6. /\ pc'[w] \in {"begin", "mark", "charge", "commit"} => row'[w] = task[job[w]]
        /\ pc'[w] \in {"charge", "commit"} => res'[w] = result[job[w]]
    BY <1>2, <2>2
    DEF StartRead, ReadPayload, PredictOk, PredictError, CompleteRead, ChargeRead,
        CompleteRollback, FailRead, Raise, Goto, TypeOK, DeliveryInv, ReadsAreCurrent
  <2>7. /\ pc'[w] \in {"begin", "mark"} =>
             task[job[w]].status \in {"created", "processing", "failed"}
        /\ pc'[w] \in {"payload", "predict", "check", "charge", "commit"} =>
             task[job[w]].status = "processing"
    BY <1>2, <2>2, <2>3
    DEF StartRead, ReadPayload, PredictOk, PredictError, CompleteRead, ChargeRead,
        CompleteRollback, FailRead, Raise, Goto, TypeOK, DeliveryInv, WorkInProgress,
        ResultIffCompleted, AlreadyCompleted, Statuses
  <2> QED
    BY <2>1, <2>4, <2>5, <2>6, <2>7, DeliveryQuiet
<1>3. CASE StartCommit(w) \/ FailCommit(w)
  <2>1. Active(w) /\ job[w] \in Tasks
    BY <1>3 DEF StartCommit, FailCommit, Active, TypeOK
  <2>2. /\ row[w] = task[job[w]]
        /\ task[job[w]].status # "completed"
    BY <1>3 DEF StartCommit, FailCommit, DeliveryInv, ReadsAreCurrent, WorkInProgress
  <2>3. /\ UNCHANGED <<result, charged, api, msg, job, row, res>>
        /\ \A t \in Tasks \ {job[w]} : task'[t] = task[t]
    BY <1>3, <2>1, WriteTaskType
    DEF StartCommit, FailCommit, moneyVars, localVars, TypeOK, Statuses, Errors
  <2>4. \/ /\ task'[job[w]].status = "processing"
           /\ Goto(w, "payload") \/ Goto(w, "predict")
        \/ task'[job[w]].status = "failed" /\ Goto(w, "ack")
    BY <1>3, <2>1, <2>2, WriteTaskType
    DEF StartCommit, FailCommit, TypeOK, Statuses, Errors
  <2>5. result[job[w]] = NoResult /\ charged[job[w]] = Spent(result[job[w]])
    BY <2>1, <2>2 DEF DeliveryInv, ResultIffCompleted, ChargedExactlyForResult
  <2> QED
    BY <2>1, <2>3, <2>4, <2>5, DeliveryWrite
<1>4. CASE CompleteCommit(w)
  <2>1. Active(w) /\ job[w] \in Tasks
    BY <1>4 DEF CompleteCommit, Active, TypeOK
  <2>2. /\ row[w] = task[job[w]]
        /\ res[w] = result[job[w]]
        /\ result[job[w]] = NoResult
        /\ charged[job[w]] = 0
    BY <1>4, <2>1 DEF CompleteCommit, DeliveryInv, ReadsAreCurrent, WorkInProgress,
       ResultIffCompleted, ChargedExactlyForResult, Spent
  <2>3. WrittenResult(w) \in ResultRow /\ WrittenResult(w) # NoResult
    BY <2>1, WrittenResultType
  <2>4. WrittenResult(w).spent = Cost(job[w], done[w])
    BY <2>2 DEF WrittenResult
  <2>5. Cost(job[w], done[w]) \in Nat
    BY <2>1, CostIsNat DEF TypeOK
  <2> DEFINE rows == WriteTask(job[w], row[w], "completed",
                               IF handler[w] THEN "partial" ELSE "none")
  <2>6. /\ rows \in [Tasks -> TaskRow]
        /\ rows[job[w]].status = "completed"
        /\ \A t \in Tasks \ {job[w]} : rows[t] = task[t]
    BY <2>1, <2>2, WriteTaskType DEF TypeOK, Statuses, Errors
  <2>7. task' = rows \/ task' = [rows EXCEPT ![job[w]].rejected = RejectedArg(w)]
    BY <1>4 DEF CompleteCommit
  <2> HIDE DEF rows
  <2>8. /\ task'[job[w]].status = "completed"
        /\ \A t \in Tasks \ {job[w]} : task'[t] = task[t]
    BY <2>1, <2>6, <2>7 DEF TaskRow
  <2>9. /\ result' = [result EXCEPT ![job[w]] = WrittenResult(w)]
        /\ charged' = [charged EXCEPT ![job[w]] = @ + Cost(job[w], done[w])]
        /\ UNCHANGED <<api, msg, job, row, res>>
        /\ Goto(w, "ack")
    BY <1>4 DEF CompleteCommit, localVars
  <2>10. /\ result'[job[w]] = WrittenResult(w)
         /\ charged'[job[w]] = Spent(result'[job[w]])
         /\ \A t \in Tasks \ {job[w]} : result'[t] = result[t] /\ charged'[t] = charged[t]
    BY <2>1, <2>2, <2>3, <2>4, <2>5, <2>9 DEF TypeOK, Spent
  <2> QED
    BY <2>1, <2>3, <2>8, <2>9, <2>10, DeliveryWrite
<1>5. CASE Ack(w)
  <2>1. Active(w) /\ msg[job[w]] = w /\ job[w] \in Tasks
    BY <1>5 DEF Ack, Active, DeliveryInv, HoldsItsDelivery, TypeOK
  <2>2. msg' = [msg EXCEPT ![job[w]] = "acked"] /\ Leave(w, "idle")
    BY <1>5, <2>1 DEF Ack
  <2>3. UNCHANGED <<task, result, charged, api>>
    BY <1>5 DEF Ack, dbVars
  <2>4. HoldsItsDelivery'
    BY <2>1, <2>2, SoleHolder
    DEF Leave, Goto, DeliveryInv, HoldsItsDelivery, Active, TypeOK
  <2>5. PublishedIsAccepted'
    BY <2>1, <2>2, <2>3, NullAssumption DEF DeliveryInv, PublishedIsAccepted, TypeOK
  <2>6. \A v \in Workers :
           UNCHANGED <<pc[v], job[v], row[v], res[v]>> \/ pc'[v] = "idle"
    BY <2>2 DEF Leave, Goto, TypeOK
  <2> QED
    BY <2>3, <2>4, <2>5, <2>6, DeliveryQuiet
<1> QED
  BY <1>1, <1>2, <1>3, <1>4, <1>5 DEF WorkerStep

(* A request thread writes its task before it is published, and then only. *)
LEMMA DeliveryApi ==
    ASSUME ReliablePublish, TypeInv, TypeInv', DeliveryInv, NEW t \in Tasks,
           ApiSubmit(t) \/ ApiStep(t) \/ ApiCrash(t)
    PROVE  DeliveryInv'
<1> USE DEF TypeInv
<1>1. UNCHANGED <<result, charged, pc, job, row, res>>
  BY DEF ApiSubmit, ApiStep, ApiFailEmpty, PublishOk, PublishError, PublishLost,
     PublishErrorDelivered, ApiFail, ApiCrash, dbVars, moneyVars, workerVars
<1>2. api[t] \in {"idle", "empty", "publish", "failing"}
  BY DEF ApiSubmit, ApiStep, ApiFailEmpty, PublishOk, PublishError, PublishLost,
     PublishErrorDelivered, ApiFail, ApiCrash
<1>3. msg[t] = "none" /\ task[t].status \in {"absent", "created"}
  BY <1>2 DEF DeliveryInv, PublishedIsAccepted, UnpublishedIsFresh, TypeOK
<1>4. /\ \A x \in Tasks \ {t} : task'[x] = task[x] /\ api'[x] = api[x] /\ msg'[x] = msg[x]
      /\ task'[t].status \in {"created", "failed"}
      /\ api'[t] \in {"empty", "publish", "failing"} => task'[t].status = "created"
      /\ api'[t] # "idle"
      /\ msg'[t] # "none" => msg'[t] = "ready" /\ api'[t] = "accepted"
  <2>1. CASE ApiSubmit(t)
    BY <1>3, <2>1 DEF ApiSubmit, TypeOK
  <2>2. CASE ApiFailEmpty(t) \/ ApiFail(t)
    <3>1. task[t].status = "created"
      BY <2>2 DEF ApiFailEmpty, ApiFail, DeliveryInv, UnpublishedIsFresh
    <3> QED
      BY <1>3, <2>2, <3>1, WriteTaskType DEF ApiFailEmpty, ApiFail, TypeOK, Statuses, Errors
  <2>3. CASE PublishOk(t) \/ PublishError(t) \/ ApiCrash(t)
    <3>1. task[t].status = "created"
      BY <2>3 DEF PublishOk, PublishError, ApiCrash, DeliveryInv, UnpublishedIsFresh
    <3> QED
      BY <1>3, <2>3, <3>1 DEF PublishOk, PublishError, ApiCrash, TypeOK, dbVars
  <2> QED
    BY <2>1, <2>2, <2>3 DEF ApiStep, PublishLost, PublishErrorDelivered
<1>5. \A w \in Workers : Active(w) => job[w] \in Tasks \ {t}
  BY <1>3, NullAssumption DEF DeliveryInv, HoldsItsDelivery, Active, TypeOK
<1>6. HoldsItsDelivery' /\ WorkInProgress' /\ ReadsAreCurrent'
  BY <1>1, <1>4, <1>5
  DEF DeliveryInv, HoldsItsDelivery, WorkInProgress, ReadsAreCurrent, Active
<1>7. PublishedIsAccepted' /\ UnpublishedIsFresh'
  BY <1>4 DEF DeliveryInv, PublishedIsAccepted, UnpublishedIsFresh
<1>8. ResultIffCompleted' /\ ChargedExactlyForResult'
  BY <1>1, <1>3, <1>4 DEF DeliveryInv, ResultIffCompleted, ChargedExactlyForResult, Spent
<1> QED
  BY <1>6, <1>7, <1>8 DEF DeliveryInv

(* With a sole consumer of every message, so does every step.              *)
LEMMA DeliveryStep ==
    ASSUME SoleConsumer
    PROVE  TypeInv /\ TypeInv' /\ DeliveryInv /\ [Next]_vars => DeliveryInv'
<1> SUFFICES ASSUME TypeInv, TypeInv', DeliveryInv, [Next]_vars
             PROVE  DeliveryInv'
  OBVIOUS
<1> USE DEF TypeInv
<1>1. ASSUME NEW a \in Admins, AdminStep(a)
      PROVE  DeliveryInv'
  <2>1. UNCHANGED <<task, result, charged, api, msg, pc, job, row, res>>
    BY <1>1 DEF AdminStep, TopUpRead, TopUpCommit, dbVars, taskVars, workerVars
  <2> QED
    BY <2>1, DeliveryQuiet
    DEF DeliveryInv, HoldsItsDelivery, PublishedIsAccepted, Active
<1>2. ASSUME NEW w \in Workers, Crash(w)
      PROVE  DeliveryInv'
  <2>1. UNCHANGED <<task, result, charged, api>> /\ Leave(w, "down")
    BY <1>2 DEF Crash, dbVars
  <2>2. PublishedIsAccepted'
    BY <1>2, <2>1, NullAssumption DEF Crash, DeliveryInv, PublishedIsAccepted, TypeOK
  <2>3. HoldsItsDelivery'
    BY <1>2, <2>1 DEF Crash, Leave, Goto, DeliveryInv, HoldsItsDelivery, Active, TypeOK
  <2>4. \A v \in Workers :
           UNCHANGED <<pc[v], job[v], row[v], res[v]>> \/ pc'[v] = "down"
    BY <2>1 DEF Leave, Goto, TypeOK
  <2> QED
    BY <2>1, <2>2, <2>3, <2>4, DeliveryQuiet
<1>3. ASSUME NEW w \in Workers, Restart(w)
      PROVE  DeliveryInv'
  <2>1. UNCHANGED <<task, result, charged, api, msg, job, row, res>>
    BY <1>3 DEF Restart, dbVars, localVars
  <2>2. \A v \in Workers : pc'[v] = pc[v] \/ pc'[v] = "idle"
    BY <1>3 DEF Restart, Goto, TypeOK
  <2>3. HoldsItsDelivery' /\ PublishedIsAccepted'
    BY <2>1, <2>2 DEF DeliveryInv, HoldsItsDelivery, PublishedIsAccepted, Active
  <2> QED
    BY <2>1, <2>2, <2>3, DeliveryQuiet
<1>4. ASSUME NEW w \in Workers
      PROVE  ~Requeue(w)
  BY BoundAssumption DEF Requeue, SoleConsumer, TypeOK
<1>5. CASE UNCHANGED vars
  BY <1>5, DeliveryQuiet
  DEF vars, DeliveryInv, HoldsItsDelivery, PublishedIsAccepted, Active
<1> QED
  BY <1>1, <1>2, <1>3, <1>4, <1>5, DeliveryApi, DeliveryWorker DEF Next, Fault, SoleConsumer

(* With a sole consumer of every message, DeliveryInv always holds.        *)
LEMMA DeliveryInvariant ==
    ASSUME SoleConsumer
    PROVE  Spec => [](TypeInv /\ DeliveryInv)
<1>1. TypeInv /\ DeliveryInv /\ [Next]_vars => (TypeInv /\ DeliveryInv)'
  BY TypeStep, DeliveryStep
<1>2. Init => TypeInv /\ DeliveryInv
  BY TypeInit, DeliveryInit
<1> QED
  BY <1>1, <1>2, PTL DEF Spec

(* With a sole consumer at a time, a task is charged what its result says  *)
(* and no more, whatever crashes and redeliveries there are.               *)
THEOREM ChargedOnce ==
    ASSUME SoleConsumer
    PROVE  Spec => []ChargedExactlyForResult
<1>1. DeliveryInv => ChargedExactlyForResult
  BY DEF DeliveryInv
<1> QED
  BY <1>1, DeliveryInvariant, PTL

(* With a sole consumer at a time, exactly the completed tasks have a      *)
(* result: none is lost with a downgraded status, none is half written.    *)
THEOREM ResultsAreCompleted ==
    ASSUME SoleConsumer
    PROVE  Spec => []ResultIffCompleted
<1>1. DeliveryInv => ResultIffCompleted
  BY DEF DeliveryInv
<1> QED
  BY <1>1, DeliveryInvariant, PTL

(* With a sole consumer at a time, no worker commits on a stale read.      *)
THEOREM ReadsStayCurrent ==
    ASSUME SoleConsumer
    PROVE  Spec => []ReadsAreCurrent
<1>1. DeliveryInv => ReadsAreCurrent
  BY DEF DeliveryInv
<1> QED
  BY <1>1, DeliveryInvariant, PTL

-----------------------------------------------------------------------------
(* The lifecycle.                                                          *)

(* The initial state is an initial state of TaskLifecycle.                 *)
LEMMA LifecycleInit == Init => Lifecycle!LifeInit
BY DEF Init, Lifecycle!LifeInit, TaskState, AbsentRow

(* A step that keeps the status of every task within its class.            *)
LEMMA LifecycleStutter ==
    ASSUME UNCHANGED charged,
           \A t \in Tasks :
              \/ task'[t].status = task[t].status
              \/ {task[t].status, task'[t].status} \subseteq {"created", "processing"}
    PROVE  UNCHANGED <<TaskState, charged>>
BY DEF TaskState

(* A step that changes the status of one task.                             *)
LEMMA LifecycleMove ==
    ASSUME NEW t \in Tasks, \A x \in Tasks \ {t} : task'[x] = task[x]
    PROVE  TaskState' = [TaskState EXCEPT ![t] =
              IF task'[t].status \in {"created", "processing"} THEN "open" ELSE task'[t].status]
BY DEF TaskState

(* A step of a request creates its task, fails it, or is a stutter.        *)
LEMMA LifecycleApi ==
    ASSUME ReliablePublish, TypeInv, DeliveryInv, NEW t \in Tasks,
           ApiSubmit(t) \/ ApiStep(t) \/ ApiCrash(t)
    PROVE  [Lifecycle!LifeNext]_(Lifecycle!lifeVars)
<1> USE DEF TypeInv
<1>1. CASE ApiSubmit(t)
  <2>1. /\ task[t].status = "absent"
        /\ task'[t].status = "created"
        /\ \A x \in Tasks \ {t} : task'[x] = task[x]
        /\ UNCHANGED charged
    BY <1>1 DEF ApiSubmit, DeliveryInv, UnpublishedIsFresh, TypeOK, moneyVars
  <2>2. Lifecycle!Create(t)
    BY <2>1, LifecycleMove DEF Lifecycle!Create, TaskState
  <2> QED
    BY <2>2 DEF Lifecycle!LifeNext
<1>2. CASE ApiFailEmpty(t) \/ ApiFail(t)
  <2>1. /\ task[t].status = "created"
        /\ task'[t].status = "failed"
        /\ \A x \in Tasks \ {t} : task'[x] = task[x]
        /\ UNCHANGED charged
    BY <1>2, WriteTaskType DEF ApiFailEmpty, ApiFail, DeliveryInv, UnpublishedIsFresh, TypeOK,
       Statuses, Errors, moneyVars
  <2>2. Lifecycle!Fail(t)
    BY <2>1, LifecycleMove DEF Lifecycle!Fail, TaskState
  <2> QED
    BY <2>2 DEF Lifecycle!LifeNext
<1>3. CASE PublishOk(t) \/ PublishError(t) \/ ApiCrash(t)
  BY <1>3, LifecycleStutter DEF PublishOk, PublishError, ApiCrash, dbVars, Lifecycle!lifeVars
<1> QED
  BY <1>1, <1>2, <1>3 DEF ApiStep, PublishLost, PublishErrorDelivered

(* A worker's step reopens, fails or completes its task, or is a stutter.  *)
LEMMA LifecycleWorker ==
    ASSUME TypeInv, DeliveryInv, CountInv, NEW w \in Workers, WorkerStep(w)
    PROVE  [Lifecycle!LifeNext]_(Lifecycle!lifeVars)
<1> USE DEF TypeInv
<1>1. ASSUME NEW t \in Tasks, Deliver(w, t)
      PROVE  UNCHANGED Lifecycle!lifeVars
  BY <1>1, LifecycleStutter DEF Deliver, dbVars, Lifecycle!lifeVars
<1>2. CASE StartRead(w) \/ ReadPayload(w) \/ PredictOk(w) \/ PredictError(w)
           \/ CompleteRead(w) \/ ChargeRead(w) \/ CompleteRollback(w) \/ FailRead(w) \/ Ack(w)
  BY <1>2, LifecycleStutter
  DEF StartRead, ReadPayload, PredictOk, PredictError, CompleteRead, ChargeRead,
      CompleteRollback, FailRead, Ack, dbVars, Lifecycle!lifeVars
<1>3. CASE StartCommit(w) \/ FailCommit(w)
  <2>1. /\ job[w] \in Tasks
        /\ row[w] = task[job[w]]
        /\ task[job[w]].status \in {"created", "processing", "failed"}
    BY <1>3 DEF StartCommit, FailCommit, TypeOK, DeliveryInv, ReadsAreCurrent, WorkInProgress
  <2>2. /\ \A x \in Tasks \ {job[w]} : task'[x] = task[x]
        /\ UNCHANGED charged
        /\ task'[job[w]].status \in {"processing", "failed"}
    BY <1>3, <2>1, WriteTaskType
    DEF StartCommit, FailCommit, TypeOK, Statuses, Errors, moneyVars
  <2>3. CASE task[job[w]].status = "failed" /\ task'[job[w]].status = "processing"
    <3>1. Lifecycle!Reopen(job[w])
      BY <2>1, <2>2, <2>3, LifecycleMove DEF Lifecycle!Reopen, TaskState
    <3> QED
      BY <2>1, <3>1 DEF Lifecycle!LifeNext
  <2>4. CASE task[job[w]].status # "failed" /\ task'[job[w]].status = "failed"
    <3>1. Lifecycle!Fail(job[w])
      BY <2>1, <2>2, <2>4, LifecycleMove DEF Lifecycle!Fail, TaskState
    <3> QED
      BY <2>1, <3>1 DEF Lifecycle!LifeNext
  <2>5. CASE \/ task[job[w]].status = "failed" /\ task'[job[w]].status = "failed"
             \/ task[job[w]].status # "failed" /\ task'[job[w]].status = "processing"
    BY <2>1, <2>2, <2>5, LifecycleStutter DEF Lifecycle!lifeVars
  <2> QED
    BY <2>2, <2>3, <2>4, <2>5
<1>4. CASE CompleteCommit(w)
  <2>1. /\ job[w] \in Tasks
        /\ row[w] = task[job[w]]
        /\ task[job[w]].status = "processing"
        /\ charged[job[w]] = 0
        /\ done[w] \in 1..Accepted[job[w]]
    BY <1>4 DEF CompleteCommit, TypeOK, DeliveryInv, ReadsAreCurrent, WorkInProgress,
       ResultIffCompleted, ChargedExactlyForResult, Spent, CountInv
  <2> DEFINE rows == WriteTask(job[w], row[w], "completed",
                               IF handler[w] THEN "partial" ELSE "none")
  <2>2. /\ rows \in [Tasks -> TaskRow]
        /\ rows[job[w]].status = "completed"
        /\ \A t \in Tasks \ {job[w]} : rows[t] = task[t]
    BY <2>1, WriteTaskType DEF TypeOK, Statuses, Errors
  <2>3. task' = rows \/ task' = [rows EXCEPT ![job[w]].rejected = RejectedArg(w)]
    BY <1>4 DEF CompleteCommit
  <2> HIDE DEF rows
  <2>4. /\ task'[job[w]].status = "completed"
        /\ \A t \in Tasks \ {job[w]} : task'[t] = task[t]
    BY <2>1, <2>2, <2>3 DEF TaskRow
  <2>5. PICK cost \in Nat : cost = Cost(job[w], done[w])
    BY <2>1, CostIsNat DEF TypeOK
  <2>6. charged' = [charged EXCEPT ![job[w]] = cost]
    <3>1. charged' = [charged EXCEPT ![job[w]] = @ + cost]
      BY <1>4, <2>5 DEF CompleteCommit
    <3> QED
      BY <2>1, <3>1 DEF TypeOK
  <2>7. Lifecycle!Complete(job[w], done[w])
    BY <2>1, <2>4, <2>5, <2>6, LifecycleMove DEF Lifecycle!Complete, TaskState, Cost
  <2> QED
    BY <2>1, <2>7 DEF Lifecycle!LifeNext
<1> QED
  BY <1>1, <1>2, <1>3, <1>4 DEF WorkerStep

(* Every step is a step of some task's lifecycle, or a stutter.            *)
LEMMA LifecycleStep ==
    ASSUME SoleConsumer
    PROVE  TypeInv /\ DeliveryInv /\ CountInv /\ [Next]_vars =>
              [Lifecycle!LifeNext]_(Lifecycle!lifeVars)
<1> SUFFICES ASSUME TypeInv, DeliveryInv, CountInv, [Next]_vars
             PROVE  [Lifecycle!LifeNext]_(Lifecycle!lifeVars)
  OBVIOUS
<1>1. ASSUME NEW a \in Admins, AdminStep(a)
      PROVE  UNCHANGED Lifecycle!lifeVars
  BY <1>1, LifecycleStutter
  DEF AdminStep, TopUpRead, TopUpCommit, dbVars, taskVars, Lifecycle!lifeVars
<1>2. ASSUME NEW w \in Workers, Crash(w) \/ Restart(w) \/ Requeue(w)
      PROVE  UNCHANGED Lifecycle!lifeVars
  BY <1>2, LifecycleStutter DEF Crash, Restart, Requeue, dbVars, Lifecycle!lifeVars
<1>3. CASE UNCHANGED vars
  BY <1>3, LifecycleStutter DEF vars, Lifecycle!lifeVars
<1> QED
  BY <1>1, <1>2, <1>3, LifecycleApi, LifecycleWorker DEF Next, Fault, SoleConsumer

(* With a sole consumer at a time, the pipeline implements the lifecycle a *)
(* task is promised: completed for good, charged once, failed for free.    *)
THEOREM PipelineImplementsLifecycle ==
    ASSUME SoleConsumer
    PROVE  Spec => ImplementsLifecycle
<1>1. TypeInv /\ CountInv /\ [Next]_vars => CountInv'
  BY CountStep
<1>2. TypeInv /\ DeliveryInv /\ CountInv /\ [Next]_vars =>
         [Lifecycle!LifeNext]_(Lifecycle!lifeVars)
  BY LifecycleStep
<1> QED
  BY <1>1, <1>2, CountInit, LifecycleInit, DeliveryInvariant, PTL
  DEF Spec, ImplementsLifecycle, Lifecycle!LifeSpec

-----------------------------------------------------------------------------
(* What a completed task says: it is final, its counts add up, and its     *)
(* message is acknowledged only when it is settled.                        *)

(* Only a completion writes a result, and no step writes a completed task. *)
LEMMA WhoWrites ==
    ASSUME SoleConsumer, TypeInv, DeliveryInv, [Next]_vars, NEW t \in Tasks
    PROVE  \/ UNCHANGED <<task[t], result[t], charged[t]>>
           \/ /\ task[t].status # "completed"
              /\ \/ ApiSubmit(t) \/ ApiFailEmpty(t) \/ ApiFail(t)
                 \/ \E w \in Workers :
                       /\ job[w] = t
                       /\ StartCommit(w) \/ FailCommit(w) \/ CompleteCommit(w)
<1> USE DEF TypeInv
<1>1. ASSUME NEW x \in Tasks, ApiSubmit(x) \/ ApiStep(x) \/ ApiCrash(x)
      PROVE  \/ UNCHANGED <<task[t], result[t], charged[t]>>
             \/ /\ task[t].status # "completed"
                /\ ApiSubmit(t) \/ ApiFailEmpty(t) \/ ApiFail(t)
  <2>1. CASE ApiSubmit(x) \/ ApiFailEmpty(x) \/ ApiFail(x)
    <3>1. UNCHANGED <<result, charged>> /\ (x # t => task'[t] = task[t])
      BY <2>1, WriteTaskType
      DEF ApiSubmit, ApiFailEmpty, ApiFail, moneyVars, TypeOK, Statuses, Errors
    <3>2. task[x].status # "completed"
      BY <2>1 DEF ApiSubmit, ApiFailEmpty, ApiFail, DeliveryInv, UnpublishedIsFresh
    <3> QED
      BY <2>1, <3>1, <3>2
  <2>2. CASE PublishOk(x) \/ PublishError(x) \/ PublishLost(x) \/ PublishErrorDelivered(x)
             \/ ApiCrash(x)
    BY <2>2 DEF PublishOk, PublishError, PublishLost, PublishErrorDelivered, ApiCrash, dbVars
  <2> QED
    BY <1>1, <2>1, <2>2 DEF ApiStep
<1>2. ASSUME NEW w \in Workers, WorkerStep(w)
      PROVE  \/ UNCHANGED <<task[t], result[t], charged[t]>>
             \/ /\ task[t].status # "completed"
                /\ job[w] = t
                /\ StartCommit(w) \/ FailCommit(w) \/ CompleteCommit(w)
  <2>1. CASE StartCommit(w) \/ FailCommit(w) \/ CompleteCommit(w)
    <3>1. /\ job[w] \in Tasks
          /\ task[job[w]].status # "completed"
      BY <2>1 DEF StartCommit, FailCommit, CompleteCommit, TypeOK, DeliveryInv,
         WorkInProgress
    <3>2. ASSUME NEW e \in Errors, NEW s \in Statuses
          PROVE  /\ WriteTask(job[w], row[w], s, e) \in [Tasks -> TaskRow]
                 /\ job[w] # t => WriteTask(job[w], row[w], s, e)[t] = task[t]
      <4>0. task \in [Tasks -> TaskRow]
        BY DEF TypeOK
      <4>1. /\ WriteTask(job[w], row[w], s, e) \in [Tasks -> TaskRow]
            /\ \A x \in Tasks \ {job[w]} : WriteTask(job[w], row[w], s, e)[x] = task[x]
        BY <3>1, <4>0 DEF WriteTask, TaskRow, Flushed, Errors, Statuses
      <4> QED
        BY <4>1
    <3>3. job[w] # t => UNCHANGED <<task[t], result[t], charged[t]>>
      <4>1. CASE StartCommit(w) \/ FailCommit(w)
        BY <3>2, <4>1 DEF StartCommit, FailCommit, moneyVars, Statuses, Errors
      <4>2. CASE CompleteCommit(w)
        <5>1. PICK e \in Errors : e = IF handler[w] THEN "partial" ELSE "none"
          BY DEF Errors
        <5> DEFINE rows == WriteTask(job[w], row[w], "completed", e)
        <5>2. rows \in [Tasks -> TaskRow] /\ (job[w] # t => rows[t] = task[t])
          BY <3>2 DEF Statuses
        <5>3. task' = rows \/ task' = [rows EXCEPT ![job[w]].rejected = RejectedArg(w)]
          BY <4>2, <5>1 DEF CompleteCommit
        <5>4. job[w] # t => UNCHANGED <<result[t], charged[t]>>
          BY <3>1, <4>2 DEF CompleteCommit, TypeOK
        <5> HIDE DEF rows
        <5> QED
          BY <3>1, <5>2, <5>3, <5>4 DEF TaskRow
      <4> QED
        BY <2>1, <4>1, <4>2
    <3> QED
      BY <2>1, <3>1, <3>3
  <2>2. CASE \E x \in Tasks : Deliver(w, x)
    BY <2>2 DEF Deliver, dbVars
  <2>3. CASE StartRead(w) \/ ReadPayload(w) \/ PredictOk(w) \/ PredictError(w)
             \/ CompleteRead(w) \/ ChargeRead(w) \/ CompleteRollback(w) \/ FailRead(w) \/ Ack(w)
    BY <2>3 DEF StartRead, ReadPayload, PredictOk, PredictError, CompleteRead, ChargeRead,
       CompleteRollback, FailRead, Ack, dbVars
  <2> QED
    BY <1>2, <2>1, <2>2, <2>3 DEF WorkerStep
<1>3. ASSUME \/ \E a \in Admins : AdminStep(a)
             \/ \E w \in Workers : Crash(w) \/ Restart(w) \/ Requeue(w)
             \/ UNCHANGED vars
      PROVE  UNCHANGED <<task[t], result[t], charged[t]>>
  BY <1>3 DEF AdminStep, TopUpRead, TopUpCommit, Crash, Restart, Requeue, dbVars, taskVars, vars
<1> QED
  BY <1>1, <1>2, <1>3 DEF Next, Fault

(* With a sole consumer at a time, no step ever touches a completed task,  *)
(* its result or its charge.                                               *)
THEOREM CompletedStaysFinal ==
    ASSUME SoleConsumer
    PROVE  Spec => CompletedIsFinal
<1>1. TypeInv /\ DeliveryInv /\ [Next]_vars =>
         [\A t \in Tasks : task[t].status = "completed" =>
             task'[t] = task[t] /\ result'[t] = result[t] /\ charged'[t] = charged[t]]_vars
  BY WhoWrites
<1> QED
  BY <1>1, DeliveryInvariant, PTL DEF Spec, CompletedIsFinal

(* A worker's step moves no other worker, and comes to "ack" from one of    *)
(* the five places where the work on a delivery ends.                      *)
LEMMA WorkerMoves ==
    ASSUME TypeOK, NEW w \in Workers, WorkerStep(w)
    PROVE  /\ \A v \in Workers \ {w} : pc'[v] = pc[v] /\ job'[v] = job[v]
           /\ pc'[w] = "ack" =>
                 /\ job'[w] = job[w]
                 /\ \/ StartRead(w) \/ CompleteRead(w) \/ FailRead(w)
                    \/ FailCommit(w) \/ CompleteCommit(w)
           /\ \A t \in Tasks :
                 msg'[t] = "acked" /\ msg[t] # "acked" => Ack(w) /\ job[w] = t
<1>1. CASE \E t \in Tasks : Deliver(w, t)
  BY <1>1, NullAssumption DEF Deliver, Goto, TypeOK
<1>2. CASE StartRead(w) \/ CompleteRead(w) \/ FailRead(w) \/ FailCommit(w) \/ CompleteCommit(w)
  BY <1>2 DEF StartRead, CompleteRead, FailRead, FailCommit, CompleteCommit, Goto, TypeOK,
     localVars
<1>3. CASE StartCommit(w) \/ ReadPayload(w) \/ PredictOk(w)
  BY <1>3 DEF StartCommit, ReadPayload, PredictOk, Goto, TypeOK, localVars
<1>4. CASE PredictError(w) \/ CompleteRollback(w)
  BY <1>4 DEF PredictError, CompleteRollback, Raise, Goto, TypeOK
<1>5. CASE ChargeRead(w)
  BY <1>5 DEF ChargeRead, Raise, Goto, TypeOK
<1>6. CASE Ack(w)
  BY <1>6 DEF Ack, Leave, Goto, TypeOK
<1> QED
  BY <1>1, <1>2, <1>3, <1>4, <1>5, <1>6 DEF WorkerStep

(* A worker reaches the acknowledgement with its task settled.             *)
LEMMA AckArrives ==
    ASSUME TypeOK, [Next]_vars
    PROVE  /\ \A w \in Workers : pc'[w] = "ack" =>
                 /\ job'[w] = job[w]
                 /\ \/ pc[w] = "ack"
                    \/ StartRead(w) \/ CompleteRead(w) \/ FailRead(w)
                    \/ FailCommit(w) \/ CompleteCommit(w)
           /\ \A t \in Tasks : msg'[t] = "acked" /\ msg[t] # "acked" =>
                 \E w \in Workers : Ack(w) /\ job[w] = t
<1>1. CASE UNCHANGED <<pc, job, msg>>
  BY <1>1
<1>2. ASSUME NEW t \in Tasks, ApiSubmit(t) \/ ApiStep(t) \/ ApiCrash(t)
      PROVE  UNCHANGED <<pc, job>> /\ \A x \in Tasks : msg'[x] \in {msg[x], "ready"}
  BY <1>2 DEF ApiSubmit, ApiStep, ApiFailEmpty, PublishOk, PublishError, PublishLost,
     PublishErrorDelivered, ApiFail, ApiCrash, workerVars, TypeOK
<1>3. ASSUME NEW a \in Admins, AdminStep(a)
      PROVE  UNCHANGED <<pc, job, msg>>
  BY <1>3 DEF AdminStep, TopUpRead, TopUpCommit, workerVars
<1>4. ASSUME NEW w \in Workers, Crash(w) \/ Restart(w) \/ Requeue(w)
      PROVE  /\ \A x \in Tasks : msg'[x] \in {msg[x], "ready"}
             /\ \A v \in Workers : pc'[v] = "ack" => pc[v] = "ack" /\ job'[v] = job[v]
  BY <1>4 DEF Crash, Restart, Requeue, Leave, Goto, workerVars, localVars, TypeOK
<1>5. ASSUME NEW w \in Workers, WorkerStep(w)
      PROVE  /\ \A v \in Workers : pc'[v] = "ack" =>
                   /\ job'[v] = job[v]
                   /\ \/ pc[v] = "ack"
                      \/ StartRead(v) \/ CompleteRead(v) \/ FailRead(v)
                      \/ FailCommit(v) \/ CompleteCommit(v)
             /\ \A t \in Tasks : msg'[t] = "acked" /\ msg[t] # "acked" =>
                   Ack(w) /\ job[w] = t
  BY <1>5, WorkerMoves
<1> QED
  BY <1>1, <1>2, <1>3, <1>4, <1>5 DEF Next, Fault, vars

SettleInv ==
    /\ AckedIsSettled
    /\ \A w \in Workers :
          pc[w] = "ack" => task[job[w]].status \in {"completed", "failed"}

(* Every step keeps acknowledged tasks settled.                            *)
LEMMA SettleStep ==
    ASSUME SoleConsumer
    PROVE  TypeInv /\ TypeInv' /\ DeliveryInv /\ DeliveryInv' /\ SettleInv /\ [Next]_vars
              => SettleInv'
<1> SUFFICES ASSUME TypeInv, TypeInv', DeliveryInv, DeliveryInv', SettleInv, [Next]_vars
             PROVE  SettleInv'
  OBVIOUS
<1> USE DEF TypeInv
(* A task whose message is acknowledged has neither a request nor a worker. *)
<1>1. ASSUME NEW t \in Tasks, msg[t] = "acked"
      PROVE  /\ UNCHANGED task[t]
             /\ task[t].status \in {"completed", "failed"}
  <2>1. api[t] = "accepted" /\ task[t].status \in {"completed", "failed"}
    BY <1>1 DEF DeliveryInv, PublishedIsAccepted, SettleInv, AckedIsSettled
  <2>2. \A w \in Workers : Active(w) => job[w] # t
    BY <1>1, NullAssumption DEF DeliveryInv, HoldsItsDelivery, TypeOK
  <2>3. ~(ApiSubmit(t) \/ ApiFailEmpty(t) \/ ApiFail(t))
    BY <2>1 DEF ApiSubmit, ApiFailEmpty, ApiFail
  <2>4. \A w \in Workers :
           job[w] = t => ~(StartCommit(w) \/ FailCommit(w) \/ CompleteCommit(w))
    BY <2>2 DEF StartCommit, FailCommit, CompleteCommit, Active
  <2> QED
    BY <2>1, <2>3, <2>4, WhoWrites
<1>2. ASSUME NEW t \in Tasks, msg'[t] = "acked", msg[t] # "acked"
      PROVE  task'[t].status \in {"completed", "failed"}
  <2>1. PICK w \in Workers : Ack(w) /\ job[w] = t
    BY <1>2, AckArrives
  <2>2. pc[w] = "ack" /\ UNCHANGED task
    BY <1>2, <2>1 DEF Ack, TypeOK, dbVars
  <2> QED
    BY <2>1, <2>2 DEF SettleInv
<1>3. AckedIsSettled'
  BY <1>1, <1>2 DEF AckedIsSettled
<1>4. ASSUME NEW w \in Workers, pc'[w] = "ack"
      PROVE  task'[job'[w]].status \in {"completed", "failed"}
  <2>1. CASE pc[w] = "ack"
    <3>1. job'[w] = job[w] /\ job[w] \in Tasks
      BY <1>4, <2>1, AckArrives DEF TypeOK
    <3>2. Active(w) /\ api[job[w]] = "accepted"
      BY <2>1, SoleHolder DEF Active
    <3>3. \A v \in Workers : Active(v) /\ job[v] = job[w] => v = w
      BY <3>2, SoleHolder
    <3>4. UNCHANGED task[job[w]]
      <4>1. ~(ApiSubmit(job[w]) \/ ApiFailEmpty(job[w]) \/ ApiFail(job[w]))
        BY <3>2 DEF ApiSubmit, ApiFailEmpty, ApiFail
      <4>2. \A v \in Workers :
               job[v] = job[w] => ~(StartCommit(v) \/ FailCommit(v) \/ CompleteCommit(v))
        BY <2>1, <3>3 DEF StartCommit, FailCommit, CompleteCommit, Active
      <4> QED
        BY <3>1, <4>1, <4>2, WhoWrites
    <3> QED
      BY <2>1, <3>1, <3>4 DEF SettleInv
  <2>2. CASE pc[w] # "ack"
    <3>1. /\ job'[w] = job[w] /\ job[w] \in Tasks
          /\ \/ StartRead(w) \/ CompleteRead(w) \/ FailRead(w)
             \/ FailCommit(w) \/ CompleteCommit(w)
      <4>1. /\ job'[w] = job[w]
            /\ \/ StartRead(w) \/ CompleteRead(w) \/ FailRead(w)
               \/ FailCommit(w) \/ CompleteCommit(w)
        BY <1>4, <2>2, AckArrives
      <4> QED
        BY <4>1 DEF StartRead, CompleteRead, FailRead, FailCommit, CompleteCommit, TypeOK
    <3>2. CASE StartRead(w) \/ CompleteRead(w) \/ FailRead(w)
      BY <1>4, <3>1, <3>2
      DEF StartRead, CompleteRead, FailRead, AlreadyCompleted, Goto, TypeOK, dbVars
    <3>3. CASE FailCommit(w)
      BY <3>1, <3>3, WriteTaskType
      DEF FailCommit, DeliveryInv, ReadsAreCurrent, TypeOK, Statuses, Errors
    <3>4. CASE CompleteCommit(w)
      <4>1. /\ WriteTask(job[w], row[w], "completed",
                         IF handler[w] THEN "partial" ELSE "none") \in [Tasks -> TaskRow]
            /\ WriteTask(job[w], row[w], "completed",
                         IF handler[w] THEN "partial" ELSE "none")[job[w]].status = "completed"
        BY <3>1, <3>4, WriteTaskType
        DEF CompleteCommit, DeliveryInv, ReadsAreCurrent, TypeOK, Statuses, Errors
      <4> QED
        BY <3>1, <3>4, <4>1 DEF CompleteCommit, TaskRow
    <3> QED
      BY <3>1, <3>2, <3>3, <3>4
  <2> QED
    BY <2>1, <2>2
<1> QED
  BY <1>3, <1>4 DEF SettleInv

(* With a sole consumer at a time, an acknowledged message leaves a settled *)
(* task behind, whatever crashed on the way.                               *)
THEOREM AckedStaysSettled ==
    ASSUME SoleConsumer
    PROVE  Spec => []AckedIsSettled
<1>1. Init => SettleInv
  BY DEF Init, SettleInv, AckedIsSettled
<1>2. TypeInv /\ TypeInv' /\ DeliveryInv /\ DeliveryInv' /\ SettleInv /\ [Next]_vars
         => SettleInv'
  BY SettleStep
<1>3. SettleInv => AckedIsSettled
  BY DEF SettleInv
<1> QED
  BY <1>1, <1>2, <1>3, DeliveryInvariant, PTL DEF Spec

-----------------------------------------------------------------------------
(* A task without a message is the request thread's alone: it is free, and *)
(* the thread that gave it up has marked it failed.                        *)

UnsentInv ==
    \A t \in Tasks :
        msg[t] = "none" =>
            /\ charged[t] = 0
            /\ api[t] # "accepted"
            /\ api[t] \in {"refused", "closed"} => task[t].status = "failed"

(* A message that is in the queue leaves it only by being acknowledged, and *)
(* only the request thread moves the request of a task without one.        *)
LEMMA RequestMoves ==
    ASSUME SoleConsumer, TypeOK, [Next]_vars, NEW t \in Tasks, msg'[t] = "none"
    PROVE  /\ msg[t] = "none"
           /\ \/ api'[t] = api[t]
              \/ api'[t] \in {"empty", "publish", "failing", "down"}
              \/ ApiFailEmpty(t) \/ ApiFail(t)
<1>1. CASE UNCHANGED <<msg, api>>
  BY <1>1
<1>2. ASSUME NEW x \in Tasks, ApiSubmit(x) \/ ApiStep(x) \/ ApiCrash(x)
      PROVE  /\ msg[t] = "none"
             /\ \/ api'[t] = api[t]
                \/ api'[t] \in {"empty", "publish", "failing", "down"}
                \/ ApiFailEmpty(t) \/ ApiFail(t)
  <2>1. CASE ApiSubmit(x) \/ PublishError(x) \/ ApiCrash(x)
    BY <2>1 DEF ApiSubmit, PublishError, ApiCrash, TypeOK
  <2>2. CASE PublishOk(x)
    BY <2>2 DEF PublishOk, TypeOK
  <2>3. CASE ApiFailEmpty(x) \/ ApiFail(x)
    <3>1. UNCHANGED msg /\ (x # t => api'[t] = api[t])
      BY <2>3 DEF ApiFailEmpty, ApiFail, TypeOK
    <3> QED
      BY <2>3, <3>1
  <2>4. ~(PublishLost(x) \/ PublishErrorDelivered(x))
    BY DEF PublishLost, PublishErrorDelivered, SoleConsumer
  <2> QED
    BY <1>2, <2>1, <2>2, <2>3, <2>4 DEF ApiStep
<1>3. ASSUME NEW a \in Admins, AdminStep(a)
      PROVE  UNCHANGED <<msg, api>>
  BY <1>3 DEF AdminStep, TopUpRead, TopUpCommit
<1>4. ASSUME NEW w \in Workers, Crash(w) \/ Restart(w) \/ Requeue(w)
      PROVE  UNCHANGED api /\ msg[t] = "none"
  BY <1>4, NullAssumption DEF Crash, Restart, Requeue, TypeOK
<1>5. ASSUME NEW w \in Workers, WorkerStep(w)
      PROVE  UNCHANGED api /\ msg[t] = "none"
  <2>1. CASE \E x \in Tasks : Deliver(w, x)
    BY <2>1, NullAssumption DEF Deliver, TypeOK
  <2>2. CASE Ack(w)
    BY <2>2 DEF Ack, TypeOK
  <2>3. CASE ~(\E x \in Tasks : Deliver(w, x)) /\ ~Ack(w)
    BY <1>5, <2>3 DEF WorkerStep, StartRead, StartCommit, ReadPayload, PredictOk,
       PredictError, CompleteRead, ChargeRead, CompleteCommit, CompleteRollback, FailRead,
       FailCommit
  <2> QED
    BY <2>1, <2>2, <2>3
<1> QED
  BY <1>1, <1>2, <1>3, <1>4, <1>5 DEF Next, Fault, vars

(* Every step keeps the tasks without a message free and accounted for.    *)
LEMMA UnsentStep ==
    ASSUME SoleConsumer
    PROVE  TypeInv /\ DeliveryInv /\ UnsentInv /\ [Next]_vars => UnsentInv'
<1> SUFFICES ASSUME TypeInv, DeliveryInv, UnsentInv, [Next]_vars,
                    NEW t \in Tasks, msg'[t] = "none"
             PROVE  /\ charged'[t] = 0
                    /\ api'[t] # "accepted"
                    /\ api'[t] \in {"refused", "closed"} => task'[t].status = "failed"
  BY DEF UnsentInv
<1> USE DEF TypeInv
<1>1. /\ msg[t] = "none"
      /\ \/ api'[t] = api[t]
         \/ api'[t] \in {"empty", "publish", "failing", "down"}
         \/ ApiFailEmpty(t) \/ ApiFail(t)
  BY RequestMoves
<1>2. charged[t] = 0 /\ api[t] # "accepted"
  BY <1>1 DEF UnsentInv
<1>3. \A w \in Workers :
         job[w] = t => ~(StartCommit(w) \/ FailCommit(w) \/ CompleteCommit(w))
  BY <1>1, NullAssumption
  DEF DeliveryInv, HoldsItsDelivery, Active, StartCommit, FailCommit, CompleteCommit
<1>4. CASE ApiFailEmpty(t) \/ ApiFail(t)
  <2>1. task[t].status = "created"
    BY <1>4 DEF ApiFailEmpty, ApiFail, DeliveryInv, UnpublishedIsFresh
  <2>2. task'[t].status = "failed"
    BY <1>4, <2>1, WriteTaskType DEF ApiFailEmpty, ApiFail, TypeOK, Statuses, Errors
  <2>3. UNCHANGED charged /\ api'[t] \in {"closed", "refused"}
    BY <1>4 DEF ApiFailEmpty, ApiFail, moneyVars, TypeOK
  <2> QED
    BY <1>2, <2>2, <2>3
<1>5. CASE ApiSubmit(t)
  BY <1>2, <1>5 DEF ApiSubmit, moneyVars, TypeOK
<1>6. CASE /\ UNCHANGED <<task[t], charged[t]>>
           /\ api'[t] = api[t] \/ api'[t] \in {"empty", "publish", "failing", "down"}
  BY <1>1, <1>2, <1>6 DEF UnsentInv
<1> QED
  BY <1>1, <1>3, <1>4, <1>5, <1>6, WhoWrites

(* With a sole consumer of every message, UnsentInv always holds.          *)
LEMMA UnsentInvariant ==
    ASSUME SoleConsumer
    PROVE  Spec => []UnsentInv
<1>1. Init => UnsentInv
  BY DEF Init, UnsentInv
<1>2. TypeInv /\ DeliveryInv /\ UnsentInv /\ [Next]_vars => UnsentInv'
  BY UnsentStep
<1> QED
  BY <1>1, <1>2, DeliveryInvariant, PTL DEF Spec

(* Whoever is at work on a task has its message from the queue, so a task  *)
(* whose publish raised is free.                                           *)
FreeInv ==
    /\ PublishedIsAccepted
    /\ \A w \in Workers : Active(w) => msg[job[w]] # "none"
    /\ \A t \in Tasks : msg[t] = "none" => charged[t] = 0

(* A worker's step charges no task without a message.                      *)
LEMMA FreeWorker ==
    ASSUME TypeOK, FreeInv, NEW w \in Workers, WorkerStep(w)
    PROVE  FreeInv'
<1>1. UNCHANGED api /\ \A t \in Tasks : msg'[t] = "none" <=> msg[t] = "none"
  <2>1. CASE \E x \in Tasks : Deliver(w, x)
    BY <2>1, NullAssumption DEF Deliver, TypeOK
  <2>2. CASE Ack(w)
    BY <2>2 DEF Ack, TypeOK, FreeInv, Active
  <2>3. CASE ~(\E x \in Tasks : Deliver(w, x)) /\ ~Ack(w)
    BY <2>3 DEF WorkerStep, StartRead, StartCommit, ReadPayload, PredictOk,
       PredictError, CompleteRead, ChargeRead, CompleteCommit, CompleteRollback, FailRead,
       FailCommit
  <2> QED
    BY <2>1, <2>2, <2>3
<1>2. ASSUME NEW v \in Workers, Active(v)'
      PROVE  msg'[job'[v]] # "none"
  <2>1. CASE \E x \in Tasks : Deliver(w, x)
    BY <1>2, <2>1, NullAssumption DEF Deliver, Goto, TypeOK, FreeInv, Active
  <2>2. CASE Ack(w)
    BY <1>1, <1>2, <2>2 DEF Ack, Leave, Goto, TypeOK, FreeInv, Active
  <2>3. CASE ~(\E x \in Tasks : Deliver(w, x)) /\ ~Ack(w)
    <3>1. UNCHANGED job /\ Active(w) /\ \A x \in Workers \ {w} : pc'[x] = pc[x]
      BY <2>3 DEF WorkerStep, StartRead, StartCommit, ReadPayload, PredictOk,
         PredictError, CompleteRead, ChargeRead, CompleteCommit, CompleteRollback, FailRead,
         FailCommit, Active, Raise, Goto, TypeOK
    <3>2. Active(v) /\ job[v] \in Tasks
      BY <1>2, <3>1 DEF Active, TypeOK
    <3> QED
      BY <1>1, <3>1, <3>2 DEF FreeInv
  <2> QED
    BY <2>1, <2>2, <2>3
<1>3. \A t \in Tasks : msg[t] = "none" => charged'[t] = charged[t]
  <2>1. CASE CompleteCommit(w)
    <3>1. msg[job[w]] # "none"
      BY <2>1 DEF CompleteCommit, FreeInv, Active
    <3> QED
      BY <2>1, <3>1 DEF CompleteCommit, TypeOK
  <2>2. CASE ~CompleteCommit(w)
    BY <2>2 DEF WorkerStep, Deliver, StartRead, StartCommit, ReadPayload, PredictOk,
       PredictError, CompleteRead, ChargeRead, CompleteRollback, FailRead, FailCommit, Ack,
       dbVars, moneyVars
  <2> QED
    BY <2>1, <2>2
<1> QED
  BY <1>1, <1>2, <1>3 DEF FreeInv, PublishedIsAccepted

(* Every step keeps the tasks without a message free, whichever delivery   *)
(* the broker takes back.                                                  *)
LEMMA FreeStep ==
    ASSUME ReliablePublish, TypeOK, FreeInv, [Next]_vars
    PROVE  FreeInv'
<1>1. ASSUME NEW x \in Tasks, ApiSubmit(x) \/ ApiStep(x) \/ ApiCrash(x)
      PROVE  FreeInv'
  <2>1. UNCHANGED <<charged, pc, job>>
    BY <1>1 DEF ApiSubmit, ApiStep, ApiFailEmpty, PublishOk, PublishError, PublishLost,
       PublishErrorDelivered, ApiFail, ApiCrash, dbVars, moneyVars, workerVars
  <2>2. ~(PublishLost(x) \/ PublishErrorDelivered(x))
    BY DEF PublishLost, PublishErrorDelivered
  <2>3. CASE PublishOk(x)
    <3>1. /\ msg' = [msg EXCEPT ![x] = "ready"]
          /\ api' = [api EXCEPT ![x] = "accepted"]
      BY <2>3 DEF PublishOk
    <3>2. \A w \in Workers : Active(w)' => Active(w) /\ job'[w] = job[w] /\ job[w] \in Tasks
      BY <2>1 DEF Active, TypeOK
    <3> QED
      BY <2>1, <3>1, <3>2 DEF FreeInv, PublishedIsAccepted, TypeOK
  <2>4. CASE ~PublishOk(x)
    <3>1. UNCHANGED msg /\ (api[x] = "accepted" => UNCHANGED api)
          /\ \A t \in Tasks \ {x} : api'[t] = api[t]
      BY <1>1, <2>2, <2>4 DEF ApiSubmit, ApiStep, ApiFailEmpty, PublishError, ApiFail,
         ApiCrash, TypeOK
    <3> QED
      BY <2>1, <3>1 DEF FreeInv, PublishedIsAccepted, Active
  <2> QED
    BY <2>3, <2>4
<1>2. ASSUME NEW a \in Admins, AdminStep(a)
      PROVE  FreeInv'
  BY <1>2 DEF AdminStep, TopUpRead, TopUpCommit, FreeInv, PublishedIsAccepted, Active,
     dbVars, workerVars
<1>3. ASSUME NEW w \in Workers, Crash(w) \/ Restart(w) \/ Requeue(w)
      PROVE  FreeInv'
  <2>1. UNCHANGED <<charged, api>>
    BY <1>3 DEF Crash, Restart, Requeue, dbVars
  <2>2. \A t \in Tasks : msg'[t] = "none" <=> msg[t] = "none"
    BY <1>3, NullAssumption DEF Crash, Restart, Requeue, TypeOK
  <2>3. \A v \in Workers : Active(v)' => Active(v) /\ job'[v] = job[v] /\ job[v] \in Tasks
    BY <1>3 DEF Crash, Restart, Requeue, Leave, Goto, Active, TypeOK, workerVars, localVars
  <2> QED
    BY <2>1, <2>2, <2>3 DEF FreeInv, PublishedIsAccepted
<1>4. CASE UNCHANGED vars
  BY <1>4 DEF vars, FreeInv, PublishedIsAccepted, Active
<1> QED
  BY <1>1, <1>2, <1>3, <1>4, FreeWorker DEF Next, Fault

(* When publish raises exactly if the queue has no message, a request that *)
(* is answered 503 costs the user nothing, whatever the broker does with   *)
(* its deliveries (predict, predict_upload).                               *)
THEOREM RefusedStaysFree ==
    ASSUME ReliablePublish
    PROVE  Spec => []RefusedIsNotCharged
<1>1. TypeInv => TypeOK
  BY DEF TypeInv
<1>2. Init => FreeInv
  BY NullAssumption DEF Init, FreeInv, PublishedIsAccepted, Active
<1>3. TypeOK /\ FreeInv /\ [Next]_vars => FreeInv'
  BY FreeStep
<1>4. FreeInv => RefusedIsNotCharged
  BY DEF FreeInv, PublishedIsAccepted, RefusedIsNotCharged
<1> QED
  BY <1>1, <1>2, <1>3, <1>4, TypeInvariant, PTL DEF Spec

(* With a sole consumer at a time, no crash leaves an open task without    *)
(* somebody who will come to it, but that of its own request thread before *)
(* it has published it.                                                    *)
THEOREM OpenStaysInHand ==
    ASSUME SoleConsumer
    PROVE  Spec => []OpenIsInHand
<1>1. TypeInv /\ DeliveryInv /\ UnsentInv /\ AckedIsSettled => OpenIsInHand
  <2> SUFFICES ASSUME TypeInv, DeliveryInv, UnsentInv, AckedIsSettled, NEW t \in Tasks,
                      task[t].status \in {"created", "processing"},
                      msg[t] \notin {"ready"} \cup Workers
               PROVE  api[t] \in {"empty", "publish", "failing", "down"} /\ msg[t] = "none"
    BY DEF OpenIsInHand, InHand
  <2>1. msg[t] = "none"
    BY DEF TypeInv, TypeOK, AckedIsSettled
  <2>2. api[t] \notin {"accepted", "refused", "closed"}
    BY <2>1 DEF UnsentInv
  <2>3. api[t] # "idle"
    BY DEF DeliveryInv, UnpublishedIsFresh
  <2> QED
    BY <2>1, <2>2, <2>3 DEF TypeInv, TypeOK
<1> QED
  BY <1>1, DeliveryInvariant, UnsentInvariant, AckedStaysSettled, PTL

-----------------------------------------------------------------------------
(* Records.  The payload's rejected_count is the parser's until the task   *)
(* completes, so that every completion adds to the same count.             *)

RecordsInv ==
    /\ RecordsAccountedFor
    /\ \A t \in Tasks :
          task[t].status \in {"created", "processing", "failed"} =>
              task[t].rejected = Invalid[t]
    /\ \A w \in Workers :
          /\ pc[w] \in {"down", "idle", "start", "begin", "payload"} => rej[w] = 0
          /\ pc[w] \in {"predict", "check", "charge", "commit"} =>
                rej[w] = Invalid[job[w]]

(* A worker's count of rejected records follows its task's payload.        *)
LEMMA RejectedStep ==
    ASSUME TypeInv, DeliveryInv, RecordsInv, NEW w \in Workers, WorkerStep(w)
    PROVE  \A v \in Workers :
              /\ pc'[v] \in {"down", "idle", "start", "begin", "payload"} => rej'[v] = 0
              /\ pc'[v] \in {"predict", "check", "charge", "commit"} =>
                    rej'[v] = Invalid[job'[v]]
<1> USE DEF TypeInv
<1>1. ASSUME NEW t \in Tasks, Deliver(w, t)
      PROVE  \A v \in Workers :
                /\ pc'[v] \in {"down", "idle", "start", "begin", "payload"} => rej'[v] = 0
                /\ pc'[v] \in {"predict", "check", "charge", "commit"} =>
                      rej'[v] = Invalid[job'[v]]
  BY <1>1 DEF Deliver, RecordsInv, Goto, TypeOK, localVars
<1>2. CASE StartRead(w) \/ PredictOk(w) \/ CompleteRead(w) \/ FailRead(w)
           \/ FailCommit(w) \/ CompleteCommit(w)
  BY <1>2 DEF StartRead, PredictOk, CompleteRead, FailRead, FailCommit, CompleteCommit,
     RecordsInv, Goto, TypeOK, localVars
<1>3. CASE StartCommit(w)
  <2>1. job[w] \in Tasks /\ Kind[job[w]] # "batch" => Invalid[job[w]] = 0
    BY <1>3, TaskAssumption DEF StartCommit, TypeOK
  <2> QED
    BY <1>3, <2>1 DEF StartCommit, RecordsInv, Goto, TypeOK, localVars
<1>4. CASE ReadPayload(w)
  <2>1. job[w] \in Tasks /\ task[job[w]].rejected = Invalid[job[w]]
    BY <1>4 DEF ReadPayload, TypeOK, DeliveryInv, WorkInProgress, RecordsInv
  <2> QED
    BY <1>4, <2>1 DEF ReadPayload, RecordsInv, Goto, TypeOK
<1>5. CASE PredictError(w) \/ CompleteRollback(w)
  BY <1>5 DEF PredictError, CompleteRollback, Raise, RecordsInv, Goto, TypeOK
<1>6. CASE ChargeRead(w)
  BY <1>6 DEF ChargeRead, Raise, RecordsInv, Goto, TypeOK
<1>7. CASE Ack(w)
  BY <1>7 DEF Ack, Leave, RecordsInv, Goto, TypeOK
<1> QED
  BY <1>1, <1>2, <1>3, <1>4, <1>5, <1>6, <1>7 DEF WorkerStep

(* What a completion writes accounts for every record of the task.         *)
LEMMA CompletionAccounts ==
    ASSUME TypeInv, TypeInv', DeliveryInv, CountInv, RecordsInv,
           NEW w \in Workers, CompleteCommit(w)
    PROVE  /\ job[w] \in Tasks
           /\ result'[job[w]].processed \in 1..Accepted[job[w]]
           /\ result'[job[w]].processed + result'[job[w]].rejected
                = Accepted[job[w]] + Invalid[job[w]]
           /\ task'[job[w]].rejected = result'[job[w]].rejected
           /\ result'[job[w]].spent = Cost(job[w], result'[job[w]].processed)
           /\ task'[job[w]].status = "completed"
           /\ result'[job[w]].processed < Accepted[job[w]] =>
                 task'[job[w]].error = "partial"
<1> USE DEF TypeInv
<1>1. PICK t \in Tasks, n \in Nat, e \in Errors :
         t = job[w] /\ n = done[w] /\ e = IF handler[w] THEN "partial" ELSE "none"
  BY DEF CompleteCommit, TypeOK, Errors
<1>2. /\ row[w] = task[t]
      /\ result[t] = NoResult /\ res[w] = NoResult
      /\ task[t].rejected = Invalid[t]
      /\ rej[w] = Invalid[t]
      /\ n \in 1..Accepted[t]
      /\ n < Accepted[t] => handler[w]
      /\ handler[w] => Kind[t] = "batch"
  BY <1>1 DEF CompleteCommit, TypeOK, DeliveryInv, ReadsAreCurrent, WorkInProgress,
     ResultIffCompleted, RecordsInv, CountInv
<1>3. /\ Accepted[t] \in Nat /\ Invalid[t] \in Nat
      /\ Kind[t] # "batch" => Invalid[t] = 0 /\ ~handler[w]
  BY <1>2, TaskAssumption
<1>4. /\ RejectedArg(w) = Invalid[t] + (Accepted[t] - n)
      /\ Kind[t] # "batch" => RejectedArg(w) = task[t].rejected
  BY <1>1, <1>2, <1>3 DEF RejectedArg
<1>5. result'[t] = [processed |-> n, rejected |-> RejectedArg(w), spent |-> Cost(t, n)]
  BY <1>1, <1>2 DEF CompleteCommit, WrittenResult, TypeOK
<1>6. /\ WriteTask(t, row[w], "completed", e) \in [Tasks -> TaskRow]
      /\ WriteTask(t, row[w], "completed", e)[t].rejected = task[t].rejected
      /\ WriteTask(t, row[w], "completed", e)[t].status = "completed"
      /\ WriteTask(t, row[w], "completed", e)[t].error = e
  <2>1. task \in [Tasks -> TaskRow]
    BY DEF TypeOK
  <2> QED
    BY <1>2, <2>1 DEF WriteTask, TaskRow, Flushed, Statuses
<1>7. task' = IF Kind[t] = "batch"
              THEN [WriteTask(t, row[w], "completed", e) EXCEPT ![t].rejected = RejectedArg(w)]
              ELSE WriteTask(t, row[w], "completed", e)
  BY <1>1 DEF CompleteCommit
<1>8. /\ task'[t].rejected = RejectedArg(w)
      /\ task'[t].status = "completed"
      /\ task'[t].error = e
  BY <1>4, <1>6, <1>7 DEF TaskRow
<1> QED
  BY <1>1, <1>2, <1>3, <1>4, <1>5, <1>8

(* Every step keeps the records of completed tasks accounted for.          *)
LEMMA RecordsStep ==
    ASSUME SoleConsumer
    PROVE  TypeInv /\ TypeInv' /\ DeliveryInv /\ CountInv /\ RecordsInv /\ [Next]_vars
              => RecordsInv'
<1> SUFFICES ASSUME TypeInv, TypeInv', DeliveryInv, CountInv, RecordsInv, [Next]_vars
             PROVE  RecordsInv'
  OBVIOUS
<1> USE DEF TypeInv
<1>1. ASSUME NEW t \in Tasks
      PROVE  /\ task'[t].status = "completed" =>
                   /\ result'[t].processed \in 1..Accepted[t]
                   /\ result'[t].processed + result'[t].rejected = Accepted[t] + Invalid[t]
                   /\ task'[t].rejected = result'[t].rejected
                   /\ result'[t].spent = Cost(t, result'[t].processed)
                   /\ result'[t].processed < Accepted[t] => task'[t].error = "partial"
             /\ task'[t].status \in {"created", "processing", "failed"} =>
                   task'[t].rejected = Invalid[t]
  <2>1. CASE UNCHANGED <<task[t], result[t], charged[t]>>
    BY <2>1 DEF RecordsInv, RecordsAccountedFor
  <2>2. CASE ApiSubmit(t)
    BY <2>2 DEF ApiSubmit, TypeOK
  <2>3. CASE ApiFailEmpty(t) \/ ApiFail(t)
    <3>1. task[t].status = "created"
      BY <2>3 DEF ApiFailEmpty, ApiFail, DeliveryInv, UnpublishedIsFresh
    <3>2. task'[t].rejected = task[t].rejected /\ task'[t].status = "failed"
      BY <2>3, <3>1, WriteTaskType DEF ApiFailEmpty, ApiFail, TypeOK, Statuses, Errors
    <3> QED
      BY <3>1, <3>2 DEF RecordsInv
  <2>4. ASSUME NEW w \in Workers, job[w] = t, StartCommit(w) \/ FailCommit(w)
        PROVE  /\ task'[t].status \in {"processing", "failed"}
               /\ task'[t].rejected = Invalid[t]
    <3>1. /\ row[w] = task[t]
          /\ task[t].status \in {"created", "processing", "failed"}
      BY <2>4 DEF StartCommit, FailCommit, DeliveryInv, ReadsAreCurrent, WorkInProgress
    <3>2. /\ task'[t].rejected = task[t].rejected
          /\ task'[t].status \in {"processing", "failed"}
      BY <2>4, <3>1, WriteTaskType DEF StartCommit, FailCommit, TypeOK, Statuses, Errors
    <3> QED
      BY <3>1, <3>2 DEF RecordsInv
  <2>5. ASSUME NEW w \in Workers, job[w] = t, CompleteCommit(w)
        PROVE  /\ result'[t].processed \in 1..Accepted[t]
               /\ result'[t].processed + result'[t].rejected = Accepted[t] + Invalid[t]
               /\ task'[t].rejected = result'[t].rejected
               /\ result'[t].spent = Cost(t, result'[t].processed)
               /\ task'[t].status = "completed"
               /\ result'[t].processed < Accepted[t] => task'[t].error = "partial"
    BY <2>5, CompletionAccounts
  <2> QED
    BY <2>1, <2>2, <2>3, <2>4, <2>5, WhoWrites
<1>2. RecordsAccountedFor'
  BY <1>1 DEF RecordsAccountedFor, Cost
<1>3. ASSUME NEW v \in Workers
      PROVE  /\ pc'[v] \in {"down", "idle", "start", "begin", "payload"} => rej'[v] = 0
             /\ pc'[v] \in {"predict", "check", "charge", "commit"} =>
                   rej'[v] = Invalid[job'[v]]
  <2>1. CASE UNCHANGED <<pc, job, rej>>
    BY <2>1 DEF RecordsInv
  <2>2. ASSUME NEW t \in Tasks, ApiSubmit(t) \/ ApiStep(t) \/ ApiCrash(t)
        PROVE  UNCHANGED <<pc, job, rej>>
    BY <2>2 DEF ApiSubmit, ApiStep, ApiFailEmpty, PublishOk, PublishError, PublishLost,
       PublishErrorDelivered, ApiFail, ApiCrash, workerVars
  <2>3. ASSUME NEW a \in Admins, AdminStep(a)
        PROVE  UNCHANGED <<pc, job, rej>>
    BY <2>3 DEF AdminStep, TopUpRead, TopUpCommit, workerVars
  <2>4. ASSUME NEW w \in Workers, Crash(w) \/ Restart(w) \/ Requeue(w)
        PROVE  /\ pc'[v] \in {"down", "idle", "start", "begin", "payload"} => rej'[v] = 0
               /\ pc'[v] \in {"predict", "check", "charge", "commit"} =>
                     rej'[v] = Invalid[job'[v]]
    BY <2>4 DEF Crash, Restart, Requeue, Leave, Goto, RecordsInv, TypeOK, workerVars,
       localVars
  <2> QED
    BY <2>1, <2>2, <2>3, <2>4, RejectedStep DEF Next, Fault, vars
<1> QED
  BY <1>1, <1>2, <1>3 DEF RecordsInv

(* With a sole consumer of every message, RecordsInv always holds.         *)
LEMMA RecordsInvariant ==
    ASSUME SoleConsumer
    PROVE  Spec => []RecordsInv
<1>1. Init => RecordsInv
  BY DEF Init, RecordsInv, RecordsAccountedFor, AbsentRow
<1>2. TypeInv /\ CountInv /\ [Next]_vars => CountInv'
  BY CountStep
<1>3. TypeInv /\ TypeInv' /\ DeliveryInv /\ CountInv /\ RecordsInv /\ [Next]_vars
         => RecordsInv'
  BY RecordsStep
<1> QED
  BY <1>1, <1>2, <1>3, CountInit, DeliveryInvariant, PTL DEF Spec

(* With a sole consumer at a time, the processed and the rejected records  *)
(* of a completed task add up to what was uploaded, and its price follows. *)
THEOREM RecordsAddUp ==
    ASSUME SoleConsumer
    PROVE  Spec => []RecordsAccountedFor
<1>1. RecordsInv => RecordsAccountedFor
  BY DEF RecordsInv
<1> QED
  BY <1>1, RecordsInvariant, PTL
-----------------------------------------------------------------------------
(* The charges of a task, whatever the broker does.  A charge is made by a *)
(* worker at work on a delivery, a worker is put to work by a message that *)
(* is ready, and beyond the first publication a message gets ready again   *)
(* only by a requeue or a crash.                                           *)

(* The workers that may still charge t ...                                 *)
Working(t) == {w \in Workers : job[w] = t /\ pc[w] # "ack"}

(* ... and the one more that the broker, or the request, can put to work.  *)
Token(t) == IF msg[t] \in {"none", "ready"} THEN 1 ELSE 0

(* The full charges t can still come to: those made, those that the        *)
(* workers at work may make, and the one that its waiting message brings.  *)
WithinBudget(t) ==
    /\ IsFiniteSet(Working(t))
    /\ \E n \in Nat :
          /\ charged[t] <= Cost(t, Accepted[t]) * n
          /\ n + Cardinality(Working(t)) + Token(t) <= 1 + requeues + crashes

(* A message is published once.                                            *)
PublishedOnce ==
    \A t \in Tasks : api[t] \in {"idle", "empty", "publish"} => msg[t] = "none"

BudgetInv == PublishedOnce /\ \A t \in Tasks : WithinBudget(t)

(* Multiplication by an amount keeps the order.                            *)
LEMMA TimesKeepsOrder ==
    ASSUME NEW p \in Nat, NEW a \in Nat, NEW b \in Nat, a <= b
    PROVE  p * a <= p * b
<1>1. PICK d \in Nat : b = a + d
  <2>1. b - a \in Nat /\ b = a + (b - a)
    OBVIOUS
  <2> QED
    BY <2>1
<1>2. p * (a + d) = p * a + p * d
  OBVIOUS
<1>3. p * d \in Nat /\ p * a \in Nat
  OBVIOUS
<1> QED
  BY <1>1, <1>2, <1>3

(* Nobody works on a task at first, and its message is still to come.      *)
LEMMA BudgetInit == Init => BudgetInv
<1> SUFFICES ASSUME Init
             PROVE  BudgetInv
  OBVIOUS
<1>1. PublishedOnce
  BY DEF Init, PublishedOnce
<1>2. ASSUME NEW t \in Tasks
      PROVE  WithinBudget(t)
  <2>1. Working(t) = {}
    BY NullAssumption DEF Init, Working
  <2>2. IsFiniteSet(Working(t)) /\ Cardinality(Working(t)) = 0
    BY <2>1, FS_EmptySet
  <2>3. Token(t) = 1 /\ charged[t] = 0 /\ requeues = 0 /\ crashes = 0
    BY DEF Init, Token
  <2>4. Accepted[t] \in Nat
    BY TaskAssumption
  <2>5. Cost(t, Accepted[t]) * 0 = 0
    BY <2>4, CostIsNat
  <2> QED
    BY <2>2, <2>3, <2>5 DEF WithinBudget
<1> QED
  BY <1>1, <1>2 DEF BudgetInv

(* The budget bounds the charges.                                          *)
LEMMA BudgetBounds ==
    ASSUME TypeOK, BudgetInv
    PROVE  ChargesPerDelivery
<1> SUFFICES ASSUME NEW t \in Tasks
             PROVE  charged[t] <= Cost(t, Accepted[t]) * (1 + requeues + crashes)
  BY DEF ChargesPerDelivery
<1>1. IsFiniteSet(Working(t))
  BY DEF BudgetInv, WithinBudget
<1>2. PICK n \in Nat :
         /\ charged[t] <= Cost(t, Accepted[t]) * n
         /\ n + Cardinality(Working(t)) + Token(t) <= 1 + requeues + crashes
  BY DEF BudgetInv, WithinBudget
<1>3. Cardinality(Working(t)) \in Nat /\ Token(t) \in {0, 1}
  BY <1>1, FS_CardinalityType DEF Token
<1>4. requeues \in Nat /\ crashes \in Nat /\ charged[t] \in Nat
  BY DEF TypeOK
<1>5. n <= 1 + requeues + crashes /\ 1 + requeues + crashes \in Nat
  BY <1>2, <1>3, <1>4
<1>6. Cost(t, Accepted[t]) \in Nat
  BY CostIsNat, TaskAssumption
<1>7. Cost(t, Accepted[t]) * n <= Cost(t, Accepted[t]) * (1 + requeues + crashes)
  BY <1>5, <1>6, TimesKeepsOrder
<1>8. \A x, y \in Nat : x * y \in Nat
  OBVIOUS
<1> QED
  BY <1>2, <1>4, <1>5, <1>6, <1>7, <1>8

(* A step that charges nobody and puts nobody to work, except one that a   *)
(* fault pays for.                                                         *)
LEMMA BudgetKeeps ==
    ASSUME TypeOK, TypeOK', NEW t \in Tasks, WithinBudget(t),
           Working(t)' \subseteq Working(t), charged'[t] = charged[t],
           Token(t)' + requeues + crashes <= Token(t) + requeues' + crashes'
    PROVE  WithinBudget(t)'
<1>1. IsFiniteSet(Working(t))
  BY DEF WithinBudget
<1>2. /\ IsFiniteSet(Working(t)')
      /\ Cardinality(Working(t)') <= Cardinality(Working(t))
  BY <1>1, FS_Subset
<1>3. PICK n \in Nat :
         /\ charged[t] <= Cost(t, Accepted[t]) * n
         /\ n + Cardinality(Working(t)) + Token(t) <= 1 + requeues + crashes
  BY DEF WithinBudget
<1>4. /\ Cardinality(Working(t)) \in Nat /\ Cardinality(Working(t)') \in Nat
      /\ Token(t) \in Nat /\ Token(t)' \in Nat
  BY <1>1, <1>2, FS_CardinalityType DEF Token
<1>5. requeues \in Nat /\ crashes \in Nat /\ requeues' \in Nat /\ crashes' \in Nat
  BY DEF TypeOK
<1>6. n + Cardinality(Working(t)') + Token(t)' <= 1 + requeues' + crashes'
  BY <1>2, <1>3, <1>4, <1>5
<1>7. charged'[t] <= Cost(t, Accepted[t]) * n
  BY <1>3
<1> QED
  BY <1>2, <1>3, <1>6, <1>7 DEF WithinBudget, Cost

(* A step of a worker that neither takes, charges nor leaves a delivery.   *)
LEMMA BudgetQuiet ==
    ASSUME TypeOK, TypeOK', BudgetInv,
           UNCHANGED <<charged, api, msg, job, requeues, crashes>>,
           \A w \in Workers : pc[w] = "ack" => pc'[w] = "ack"
    PROVE  BudgetInv'
<1>1. PublishedOnce'
  BY DEF BudgetInv, PublishedOnce
<1>2. ASSUME NEW t \in Tasks
      PROVE  WithinBudget(t)'
  <2>1. Working(t)' \subseteq Working(t)
    BY DEF Working
  <2>2. Token(t)' + requeues + crashes <= Token(t) + requeues' + crashes'
    BY DEF Token, TypeOK
  <2> QED
    BY <2>1, <2>2, BudgetKeeps DEF BudgetInv
<1> QED
  BY <1>1, <1>2 DEF BudgetInv

(* A delivery turns the waiting message into a worker at work.             *)
LEMMA BudgetDeliver ==
    ASSUME TypeOK, TypeOK', BudgetInv, NEW w \in Workers, NEW t \in Tasks, Deliver(w, t)
    PROVE  BudgetInv'
<1>1. /\ job' = [job EXCEPT ![w] = t] /\ pc' = [pc EXCEPT ![w] = "start"]
      /\ msg' = [msg EXCEPT ![t] = w] /\ msg[t] = "ready" /\ job[w] = NoTask
      /\ UNCHANGED <<charged, api, requeues, crashes>>
  BY DEF Deliver, Goto, TypeOK, dbVars, faultVars
<1>2. PublishedOnce'
  BY <1>1 DEF BudgetInv, PublishedOnce, TypeOK
<1>3. ASSUME NEW x \in Tasks, x # t
      PROVE  WithinBudget(x)'
  <2>1. Working(x)' \subseteq Working(x)
    BY <1>1, <1>3 DEF Working, TypeOK
  <2>2. Token(x)' = Token(x) /\ Token(x) \in Nat
    BY <1>1, <1>3 DEF Token, TypeOK
  <2>3. Token(x)' + requeues + crashes <= Token(x) + requeues' + crashes'
    BY <1>1, <2>2 DEF TypeOK
  <2>4. charged'[x] = charged[x]
    BY <1>1
  <2> QED
    BY <2>1, <2>3, <2>4, BudgetKeeps DEF BudgetInv
<1>4. WithinBudget(t)'
  <2>1. IsFiniteSet(Working(t))
    BY DEF BudgetInv, WithinBudget
  <2>2. w \notin Working(t)
    BY <1>1, NullAssumption DEF Working
  <2>3. Working(t)' = Working(t) \cup {w}
    BY <1>1 DEF Working, TypeOK
  <2>4. /\ IsFiniteSet(Working(t)')
        /\ Cardinality(Working(t)') = Cardinality(Working(t)) + 1
    BY <2>1, <2>2, <2>3, FS_AddElement
  <2>5. Token(t) = 1 /\ Token(t)' = 0
    BY <1>1, NullAssumption DEF Token, TypeOK
  <2>6. PICK n \in Nat :
           /\ charged[t] <= Cost(t, Accepted[t]) * n
           /\ n + Cardinality(Working(t)) + Token(t) <= 1 + requeues + crashes
    BY DEF BudgetInv, WithinBudget
  <2>7. Cardinality(Working(t)) \in Nat
    BY <2>1, FS_CardinalityType
  <2>8. n + Cardinality(Working(t)') + Token(t)' <= 1 + requeues' + crashes'
    BY <1>1, <2>4, <2>5, <2>6, <2>7
  <2>9. charged'[t] <= Cost(t, Accepted[t]) * n
    BY <1>1, <2>6
  <2> QED
    BY <2>4, <2>8, <2>9 DEF WithinBudget, Cost
<1> QED
  BY <1>2, <1>3, <1>4 DEF BudgetInv

(* A charge is paid for by the worker that made it: it charges no more     *)
(* than all the records, and will not charge again on this delivery.       *)
LEMMA BudgetCharge ==
    ASSUME TypeOK, TypeOK', CountInv, BudgetInv, NEW w \in Workers, CompleteCommit(w)
    PROVE  BudgetInv'
<1>0. PICK t \in Tasks : t = job[w]
  BY DEF CompleteCommit, TypeOK
<1>1. /\ pc[w] = "commit" /\ pc' = [pc EXCEPT ![w] = "ack"]
      /\ charged' = [charged EXCEPT ![t] = @ + Cost(t, done[w])]
      /\ UNCHANGED <<api, msg, job, requeues, crashes>>
  BY <1>0 DEF CompleteCommit, Goto, TypeOK, faultVars
<1>2. done[w] \in Nat /\ done[w] <= Accepted[t] /\ Accepted[t] \in Nat
  <2>1. done[w] \in 1..Accepted[t]
    BY <1>0, <1>1 DEF CountInv
  <2>2. Accepted[t] \in Nat
    BY TaskAssumption
  <2> QED
    BY <2>1, <2>2
<1>3. PublishedOnce'
  BY <1>1 DEF BudgetInv, PublishedOnce
<1>4. ASSUME NEW x \in Tasks, x # t
      PROVE  WithinBudget(x)'
  <2>1. Working(x)' \subseteq Working(x)
    BY <1>1, <1>4 DEF Working, TypeOK
  <2>2. Token(x)' = Token(x) /\ Token(x) \in Nat
    BY <1>1 DEF Token
  <2>3. Token(x)' + requeues + crashes <= Token(x) + requeues' + crashes'
    BY <1>1, <2>2 DEF TypeOK
  <2>4. charged'[x] = charged[x]
    BY <1>1, <1>4 DEF TypeOK
  <2> QED
    BY <2>1, <2>3, <2>4, BudgetKeeps DEF BudgetInv
<1>5. WithinBudget(t)'
  <2> DEFINE full == Cost(t, Accepted[t])
  <2>1. IsFiniteSet(Working(t))
    BY <1>1 DEF BudgetInv, WithinBudget
  <2>2. w \in Working(t)
    BY <1>0, <1>1 DEF Working
  <2>3. Working(t)' = Working(t) \ {w}
    BY <1>1 DEF Working, TypeOK
  <2>4. /\ IsFiniteSet(Working(t)')
        /\ Cardinality(Working(t)') = Cardinality(Working(t)) - 1
    BY <2>1, <2>2, <2>3, FS_RemoveElement
  <2>5. PICK n \in Nat :
           /\ charged[t] <= full * n
           /\ n + Cardinality(Working(t)) + Token(t) <= 1 + requeues + crashes
    BY <1>1 DEF BudgetInv, WithinBudget
  <2>6. Cardinality(Working(t)) \in Nat /\ Token(t)' = Token(t) /\ Token(t) \in Nat
    BY <1>1, <2>1, FS_CardinalityType DEF Token
  <2>7. (n + 1) + Cardinality(Working(t)') + Token(t)' <= 1 + requeues' + crashes'
    BY <1>1, <2>4, <2>5, <2>6 DEF TypeOK
  <2>8. full \in Nat /\ Cost(t, done[w]) \in Nat /\ Cost(t, done[w]) <= full
    <3>1. Price[t] \in Nat
      BY <1>1, TaskAssumption
    <3> QED
      BY <1>1, <1>2, <3>1, TimesKeepsOrder, CostIsNat DEF Cost
  <2>9. charged'[t] = charged[t] + Cost(t, done[w]) /\ charged[t] \in Nat
    BY <1>1 DEF TypeOK
  <2> HIDE DEF full
  <2>10. full * (n + 1) = full * n + full /\ full * n \in Nat
    BY <2>8
  <2>11. charged'[t] <= full * (n + 1)
    BY <2>5, <2>8, <2>9, <2>10
  <2>12. charged'[t] <= Cost(t, Accepted[t]) * (n + 1)
    BY <2>11 DEF full
  <2> QED
    BY <2>4, <2>7, <2>12 DEF WithinBudget, Cost
<1> QED
  BY <1>3, <1>4, <1>5 DEF BudgetInv

(* Leaving a delivery puts nobody to work, and the message of a delivery   *)
(* that is acknowledged does not wait any more.                            *)
LEMMA BudgetAck ==
    ASSUME TypeOK, TypeOK', BudgetInv, NEW w \in Workers, Ack(w)
    PROVE  BudgetInv'
<1>1. /\ \A v \in Workers \ {w} : pc'[v] = pc[v] /\ job'[v] = job[v]
      /\ job'[w] = NoTask /\ job[w] \in Tasks
      /\ UNCHANGED <<charged, api, requeues, crashes>>
  BY DEF Ack, Leave, Goto, TypeOK, dbVars, faultVars
<1>2. \A t \in Tasks : msg'[t] = msg[t] \/ (msg'[t] = "acked" /\ msg[t] = w)
  <2>1. CASE msg[job[w]] = w /\ msg' = [msg EXCEPT ![job[w]] = "acked"]
    BY <1>1, <2>1 DEF TypeOK
  <2>2. CASE UNCHANGED msg
    BY <2>2
  <2> QED
    BY <2>1, <2>2 DEF Ack
<1>3. PublishedOnce'
  BY <1>1, <1>2, NullAssumption DEF BudgetInv, PublishedOnce
<1>4. ASSUME NEW t \in Tasks
      PROVE  WithinBudget(t)'
  <2>1. Working(t)' \subseteq Working(t)
    BY <1>1, NullAssumption DEF Working
  <2>2. Token(t)' <= Token(t) /\ Token(t) \in Nat /\ Token(t)' \in Nat
    BY <1>2 DEF Token
  <2>3. Token(t)' + requeues + crashes <= Token(t) + requeues' + crashes'
    BY <1>1, <2>2 DEF TypeOK
  <2> QED
    BY <1>1, <2>1, <2>3, BudgetKeeps DEF BudgetInv
<1> QED
  BY <1>3, <1>4 DEF BudgetInv

(* The steps of a worker.                                                  *)
LEMMA BudgetWorker ==
    ASSUME TypeOK, TypeOK', CountInv, BudgetInv, NEW w \in Workers, WorkerStep(w)
    PROVE  BudgetInv'
<1>1. CASE \E t \in Tasks : Deliver(w, t)
  BY <1>1, BudgetDeliver
<1>2. CASE StartRead(w) \/ StartCommit(w) \/ ReadPayload(w) \/ PredictOk(w) \/ CompleteRead(w)
  <2>1. UNCHANGED <<charged, api, msg, job, requeues, crashes>>
    BY <1>2 DEF StartRead, StartCommit, ReadPayload, PredictOk, CompleteRead,
       dbVars, moneyVars, faultVars
  <2>2. \A v \in Workers : pc[v] = "ack" => pc'[v] = "ack"
    BY <1>2 DEF StartRead, StartCommit, ReadPayload, PredictOk, CompleteRead, Goto, TypeOK
  <2> QED
    BY <2>1, <2>2, BudgetQuiet
<1>3. CASE \/ PredictError(w) \/ ChargeRead(w) \/ CompleteRollback(w)
           \/ FailRead(w) \/ FailCommit(w)
  <2>1. UNCHANGED <<charged, api, msg, job, requeues, crashes>>
    BY <1>3 DEF PredictError, ChargeRead, CompleteRollback, FailRead, FailCommit,
       dbVars, moneyVars, faultVars
  <2>2. \A v \in Workers : pc[v] = "ack" => pc'[v] = "ack"
    BY <1>3 DEF PredictError, ChargeRead, CompleteRollback, FailRead, FailCommit,
       Raise, Goto, TypeOK
  <2> QED
    BY <2>1, <2>2, BudgetQuiet
<1>4. CASE CompleteCommit(w)
  BY <1>4, BudgetCharge
<1>5. CASE Ack(w)
  BY <1>5, BudgetAck
<1> QED
  BY <1>1, <1>2, <1>3, <1>4, <1>5 DEF WorkerStep

(* A request publishes its message at most once.                           *)
LEMMA BudgetApi ==
    ASSUME TypeOK, TypeOK', BudgetInv, NEW t \in Tasks,
           ApiSubmit(t) \/ ApiStep(t) \/ ApiCrash(t)
    PROVE  BudgetInv'
<1>1. /\ UNCHANGED <<charged, pc, job, requeues>>
      /\ crashes' \in {crashes, crashes + 1}
      /\ \A x \in Tasks \ {t} : msg'[x] = msg[x] /\ api'[x] = api[x]
      /\ msg'[t] = msg[t] \/ (msg[t] = "none" /\ msg'[t] = "ready")
      /\ api'[t] \in {"idle", "empty", "publish"} =>
            api[t] \in {"idle", "empty", "publish"} /\ msg'[t] = msg[t]
  <2>0. /\ api \in [Tasks -> {"idle", "empty", "publish", "failing",
                             "accepted", "refused", "closed", "down"}]
        /\ msg \in [Tasks -> {"none", "ready", "acked"} \cup Workers]
        /\ api[t] = "publish" => msg[t] = "none"
    BY DEF BudgetInv, PublishedOnce, TypeOK
  <2> USE DEF dbVars, moneyVars, workerVars, faultVars
  <2>1. CASE ApiSubmit(t) \/ ApiFailEmpty(t) \/ ApiFail(t)
    <3>1. UNCHANGED <<charged, pc, job, requeues, crashes, msg>>
      BY <2>1 DEF ApiSubmit, ApiFailEmpty, ApiFail
    <3>2. PICK label : /\ api' = [api EXCEPT ![t] = label]
                       /\ label \in {"empty", "publish"} => api[t] = "idle"
                       /\ label # "idle"
      BY <2>1 DEF ApiSubmit, ApiFailEmpty, ApiFail
    <3> QED
      BY <2>0, <3>1, <3>2
  <2>2. CASE PublishOk(t) \/ PublishErrorDelivered(t)
    <3>1. UNCHANGED <<charged, pc, job, requeues, crashes>>
      BY <2>2 DEF PublishOk, PublishErrorDelivered
    <3>2. PICK label \in {"accepted", "failing"} : api' = [api EXCEPT ![t] = label]
      BY <2>2 DEF PublishOk, PublishErrorDelivered
    <3>3. msg[t] = "none" /\ msg' = [msg EXCEPT ![t] = "ready"]
      BY <2>0, <2>2 DEF PublishOk, PublishErrorDelivered
    <3> QED
      BY <2>0, <3>1, <3>2, <3>3
  <2>3. CASE PublishError(t) \/ PublishLost(t) \/ ApiCrash(t)
    BY <2>0, <2>3 DEF PublishError, PublishLost, ApiCrash
  <2> QED
    BY <2>1, <2>2, <2>3 DEF ApiStep
<1>2. PublishedOnce'
  BY <1>1 DEF BudgetInv, PublishedOnce
<1>3. ASSUME NEW x \in Tasks
      PROVE  WithinBudget(x)'
  <2>1. Working(x)' \subseteq Working(x)
    BY <1>1 DEF Working
  <2>2. Token(x)' = Token(x) /\ Token(x) \in Nat
    BY <1>1 DEF Token
  <2>3. Token(x)' + requeues + crashes <= Token(x) + requeues' + crashes'
    BY <1>1, <2>2 DEF TypeOK
  <2> QED
    BY <1>1, <2>1, <2>3, BudgetKeeps DEF BudgetInv
<1> QED
  BY <1>2, <1>3 DEF BudgetInv

(* A message that gets ready again is paid for by the fault it comes from. *)
LEMMA BudgetFault ==
    ASSUME TypeOK, TypeOK', BudgetInv, NEW w \in Workers,
           Crash(w) \/ Requeue(w)
    PROVE  BudgetInv'
<1>1. /\ UNCHANGED <<charged, api>>
      /\ \A v \in Workers : job'[v] \in Tasks => job'[v] = job[v] /\ pc'[v] = pc[v]
      /\ requeues' + crashes' = requeues + crashes + 1
      /\ \A t \in Tasks : msg[t] = "none" => msg'[t] = "none"
  <2>1. CASE Crash(w)
    BY <2>1, NullAssumption DEF Crash, Leave, Goto, TypeOK, dbVars
  <2>2. CASE Requeue(w)
    BY <2>2, NullAssumption DEF Requeue, TypeOK, dbVars, workerVars
  <2> QED
    BY <2>1, <2>2
<1>2. PublishedOnce'
  BY <1>1 DEF BudgetInv, PublishedOnce
<1>3. ASSUME NEW t \in Tasks
      PROVE  WithinBudget(t)'
  <2>1. Working(t)' \subseteq Working(t)
    BY <1>1 DEF Working
  <2>2. Token(t)' \in {0, 1} /\ Token(t) \in {0, 1}
    BY DEF Token
  <2>3. requeues \in Nat /\ crashes \in Nat /\ requeues' \in Nat /\ crashes' \in Nat
    BY DEF TypeOK
  <2>4. Token(t)' + requeues + crashes <= Token(t) + requeues' + crashes'
    BY <1>1, <2>2, <2>3
  <2> QED
    BY <1>1, <2>1, <2>4, BudgetKeeps DEF BudgetInv
<1> QED
  BY <1>2, <1>3 DEF BudgetInv

(* Every step keeps every task within its budget.                          *)
LEMMA BudgetStep ==
    ASSUME TypeOK, TypeOK', CountInv, BudgetInv, [Next]_vars
    PROVE  BudgetInv'
<1>1. ASSUME NEW a \in Admins, AdminStep(a)
      PROVE  BudgetInv'
  <2>1. UNCHANGED <<charged, api, msg, pc, job, requeues, crashes>>
    BY <1>1 DEF AdminStep, TopUpRead, TopUpCommit, dbVars, workerVars, faultVars
  <2> QED
    BY <2>1, BudgetQuiet
<1>2. ASSUME NEW w \in Workers, Restart(w)
      PROVE  BudgetInv'
  <2>1. UNCHANGED <<charged, api, msg, job, requeues, crashes>>
    BY <1>2 DEF Restart, dbVars, faultVars
  <2>2. \A v \in Workers : pc[v] = "ack" => pc'[v] = "ack"
    BY <1>2 DEF Restart, Goto, TypeOK
  <2> QED
    BY <2>1, <2>2, BudgetQuiet
<1>3. CASE UNCHANGED vars
  <2>1. UNCHANGED <<charged, api, msg, pc, job, requeues, crashes>>
    BY <1>3 DEF vars
  <2> QED
    BY <2>1, BudgetQuiet
<1> QED
  BY <1>1, <1>2, <1>3, BudgetApi, BudgetWorker, BudgetFault DEF Next, Fault

(* A task is charged at most once for every time its message can have been *)
(* delivered, for any number of workers and any bounds on the faults: the  *)
(* early returns of the services and the unique result are not needed, and *)
(* no lost update of process_delivery makes it worse.                      *)
THEOREM ChargesStayWithinDeliveries == Spec => []ChargesPerDelivery
<1>1. TypeInv => TypeOK
  BY DEF TypeInv
<1>2. TypeInv /\ CountInv /\ [Next]_vars => CountInv'
  BY CountStep
<1>3. TypeOK /\ TypeOK' /\ CountInv /\ BudgetInv /\ [Next]_vars => BudgetInv'
  BY BudgetStep
<1>4. TypeOK /\ BudgetInv => ChargesPerDelivery
  BY BudgetBounds
<1> QED
  BY <1>1, <1>2, <1>3, <1>4, BudgetInit, CountInit, TypeInvariant, PTL DEF Spec

(* With a sole consumer at a time, no task is charged for more than all    *)
(* its records: the double charge needs a delivery that is taken back from *)
(* a worker at work (complete_task, complete_batch_task).                  *)
THEOREM ChargedAtMostOnceEach ==
    ASSUME SoleConsumer
    PROVE  Spec => []ChargedAtMostOnce
<1>1. ASSUME TypeOK, DeliveryInv, RecordsAccountedFor
      PROVE  ChargedAtMostOnce
  <2> SUFFICES ASSUME NEW t \in Tasks
               PROVE  charged[t] <= Cost(t, Accepted[t])
    BY DEF ChargedAtMostOnce
  <2>1. charged[t] = Spent(result[t])
    BY <1>1 DEF DeliveryInv, ChargedExactlyForResult
  <2>2. Accepted[t] \in Nat /\ Price[t] \in Nat /\ Cost(t, Accepted[t]) \in Nat
    BY TaskAssumption, CostIsNat
  <2>3. CASE result[t] = NoResult
    BY <2>1, <2>2, <2>3 DEF Spent
  <2>4. CASE result[t] # NoResult
    <3>1. task[t].status = "completed"
      BY <1>1, <2>4 DEF DeliveryInv, ResultIffCompleted
    <3>2. /\ result[t].processed \in 1..Accepted[t]
          /\ result[t].spent = Cost(t, result[t].processed)
      BY <1>1, <3>1 DEF RecordsAccountedFor
    <3>3. result[t].processed \in Nat /\ result[t].processed <= Accepted[t]
      BY <2>2, <3>2
    <3>4. Cost(t, result[t].processed) <= Cost(t, Accepted[t])
      BY <2>2, <3>3, TimesKeepsOrder DEF Cost
    <3> QED
      BY <2>1, <2>4, <3>2, <3>4 DEF Spent
  <2> QED
    BY <2>3, <2>4
<1>2. TypeInv => TypeOK
  BY DEF TypeInv
<1> QED
  BY <1>1, <1>2, DeliveryInvariant, RecordsAddUp, PTL

-----------------------------------------------------------------------------
(* When the balance is exact.  An update is lost only to another writer of *)
(* the same balance: a top-up, or a second worker on a task of the user.   *)

(* The workers at work are at work for different users.                    *)
OneChargeAtATime ==
    \A v, w \in Workers :
        v # w /\ Active(v) /\ Active(w) => Owner[job[v]] # Owner[job[w]]

(* The balance a worker has read and is about to charge is still there.    *)
ExactInv ==
    /\ LedgerMatchesBalance
    /\ \A w \in Workers :
          pc[w] = "commit" /\ Cost(job[w], done[w]) > 0 =>
              bal[w] = balance[Owner[job[w]]]
    /\ \A a \in Admins : adminUser[a] = NoUser

(* A step that moves no money and brings no worker to a charge.            *)
LEMMA ExactQuiet ==
    ASSUME ExactInv, UNCHANGED <<balance, credits, debits, adminUser>>,
           \A w \in Workers :
              pc'[w] = "commit" =>
                  \/ pc[w] = "commit" /\ UNCHANGED <<job[w], bal[w], done[w]>>
                  \/ ~(Cost(job[w], done[w]) > 0)'
    PROVE  ExactInv'
<1>1. LedgerMatchesBalance' /\ \A a \in Admins : adminUser'[a] = NoUser
  BY DEF ExactInv, LedgerMatchesBalance
<1>2. ASSUME NEW w \in Workers, pc'[w] = "commit", (Cost(job[w], done[w]) > 0)'
      PROVE  bal'[w] = balance'[Owner[job'[w]]]
  BY <1>2 DEF ExactInv, Cost
<1> QED
  BY <1>1, <1>2 DEF ExactInv

(* The charge: what is read is current, and what is written is its result. *)
LEMMA ExactCharge ==
    ASSUME TypeOK, OneChargeAtATime, ExactInv, NEW w \in Workers,
           ChargeRead(w) \/ CompleteCommit(w)
    PROVE  ExactInv'
<1>1. PICK t \in Tasks, u \in Users : t = job[w] /\ u = Owner[t]
  BY TaskAssumption DEF ChargeRead, CompleteCommit, TypeOK
<1>2. UNCHANGED <<job, done, credits, adminUser>>
  BY DEF ChargeRead, CompleteCommit, dbVars, moneyVars, localVars, adminVars
<1>3. CASE ChargeRead(w) /\ Raise(w) /\ UNCHANGED bal
  <2>1. UNCHANGED <<balance, credits, debits, adminUser, job, bal, done>>
    BY <1>2, <1>3 DEF ChargeRead, dbVars
  <2>2. \A v \in Workers : pc'[v] = "commit" => pc[v] = "commit"
    BY <1>3 DEF Raise, Goto, TypeOK
  <2> QED
    BY <2>1, <2>2, ExactQuiet
<1>4. CASE /\ ChargeRead(w)
           /\ bal' = [bal EXCEPT ![w] = balance[Owner[job[w]]]]
           /\ Goto(w, "commit")
  <2>1. UNCHANGED <<balance, credits, debits, adminUser, job, done>>
    BY <1>2, <1>4 DEF ChargeRead, dbVars
  <2>2. ASSUME NEW v \in Workers, pc'[v] = "commit", (Cost(job[v], done[v]) > 0)'
        PROVE  bal'[v] = balance'[Owner[job'[v]]]
    <3>1. CASE v = w
      BY <1>4, <2>1, <3>1 DEF TypeOK
    <3>2. CASE v # w
      <4>1. pc[v] = "commit" /\ bal'[v] = bal[v] /\ Cost(job[v], done[v]) > 0
        BY <1>4, <2>1, <2>2, <3>2 DEF TypeOK, Goto, Cost
      <4> QED
        BY <2>1, <4>1 DEF ExactInv
    <3> QED
      BY <3>1, <3>2
  <2>3. LedgerMatchesBalance'
    BY <2>1 DEF ExactInv, LedgerMatchesBalance
  <2> QED
    BY <2>1, <2>2, <2>3 DEF ExactInv
<1>5. CASE CompleteCommit(w)
  <2>1. PICK cost \in Nat : cost = Cost(t, done[w])
    BY <1>1, CostIsNat DEF TypeOK
  <2>2. /\ pc[w] = "commit" /\ Goto(w, "ack") /\ UNCHANGED bal
        /\ debits' = [debits EXCEPT ![u] = @ + cost]
        /\ balance' = [balance EXCEPT ![u] = IF cost > 0 THEN bal[w] - cost ELSE @]
    BY <1>1, <1>5, <2>1 DEF CompleteCommit, localVars
  <2>3. cost > 0 => bal[w] = balance[u]
    BY <1>1, <2>1, <2>2 DEF ExactInv
  <2>4. \A x \in Users : balance[x] = InitialBalance[x] + credits[x] - debits[x]
    BY DEF ExactInv, LedgerMatchesBalance
  <2>5. \A x \in Users : InitialBalance[x] \in Nat /\ credits[x] \in Nat /\ debits[x] \in Nat
    BY AmountAssumption DEF TypeOK
  <2>6. balance'[u] = balance[u] - cost /\ debits'[u] = debits[u] + cost
    BY <2>1, <2>2, <2>3, <2>4, <2>5 DEF TypeOK
  <2>7. \A x \in Users \ {u} : balance'[x] = balance[x] /\ debits'[x] = debits[x]
    BY <2>2 DEF TypeOK
  <2>8. LedgerMatchesBalance'
    BY <1>2, <2>4, <2>5, <2>6, <2>7 DEF LedgerMatchesBalance
  <2>9. ASSUME NEW v \in Workers, pc'[v] = "commit", (Cost(job[v], done[v]) > 0)'
        PROVE  bal'[v] = balance'[Owner[job'[v]]]
    <3>1. v # w /\ pc[v] = "commit" /\ Cost(job[v], done[v]) > 0
      BY <1>2, <2>2, <2>9 DEF TypeOK, Goto, Cost
    <3>2. Active(v) /\ Active(w)
      BY <2>2, <3>1 DEF Active
    <3>3. Owner[job[v]] \in Users \ {u}
      BY <1>1, <3>1, <3>2, TaskAssumption DEF OneChargeAtATime, TypeOK, Active
    <3> QED
      BY <1>2, <2>2, <2>7, <3>1, <3>3 DEF ExactInv
  <2> QED
    BY <1>2, <2>8, <2>9 DEF ExactInv
<1> QED
  BY <1>3, <1>4, <1>5 DEF ChargeRead

(* Every step keeps the balances exact while nobody else writes them.      *)
LEMMA ExactStep ==
    ASSUME MaxTopUps = 0, TypeOK, OneChargeAtATime, ExactInv, [Next]_vars
    PROVE  ExactInv'
<1>1. ASSUME NEW a \in Admins, AdminStep(a)
      PROVE  FALSE
  BY <1>1 DEF AdminStep, TopUpRead, TopUpCommit, ExactInv, TypeOK
<1>2. ASSUME NEW t \in Tasks, ApiSubmit(t) \/ ApiStep(t) \/ ApiCrash(t)
      PROVE  ExactInv'
  <2>1. UNCHANGED <<balance, credits, debits, adminUser, pc, job, bal, done>>
    BY <1>2 DEF ApiSubmit, ApiStep, ApiFailEmpty, PublishOk, PublishError, PublishLost,
       PublishErrorDelivered, ApiFail, ApiCrash, dbVars, moneyVars, workerVars, adminVars
  <2> QED
    BY <2>1, ExactQuiet
<1>3. ASSUME NEW w \in Workers, WorkerStep(w)
      PROVE  ExactInv'
  <2>1. CASE \/ \E t \in Tasks : Deliver(w, t)
             \/ StartRead(w) \/ StartCommit(w) \/ ReadPayload(w) \/ PredictOk(w)
             \/ FailRead(w) \/ FailCommit(w) \/ Ack(w)
    <3>1. UNCHANGED <<balance, credits, debits, adminUser>>
      BY <2>1 DEF Deliver, StartRead, StartCommit, ReadPayload, PredictOk, FailRead, FailCommit,
         Ack, dbVars, moneyVars, adminVars
    <3>2. \A v \in Workers : pc'[v] = "commit" =>
             pc[v] = "commit" /\ UNCHANGED <<job[v], bal[v], done[v]>>
      BY <2>1 DEF Deliver, StartRead, StartCommit, ReadPayload, PredictOk, FailRead, FailCommit,
         Ack, Leave, Goto, TypeOK, localVars
    <3> QED
      BY <3>1, <3>2, ExactQuiet
  <2>2. CASE PredictError(w) \/ CompleteRollback(w)
    <3>1. UNCHANGED <<balance, credits, debits, adminUser, job, bal, done>>
      BY <2>2 DEF PredictError, CompleteRollback, dbVars, adminVars
    <3>2. \A v \in Workers : pc'[v] = "commit" => pc[v] = "commit"
      BY <2>2 DEF PredictError, CompleteRollback, Raise, Goto, TypeOK
    <3> QED
      BY <3>1, <3>2, ExactQuiet
  <2>3. CASE CompleteRead(w)
    <3>1. UNCHANGED <<balance, credits, debits, adminUser, job, bal, done>>
      BY <2>3 DEF CompleteRead, dbVars, adminVars
    <3>2. \A v \in Workers : pc'[v] = "commit" =>
             pc[v] = "commit" \/ ~(Cost(job[v], done[v]) > 0)'
      BY <2>3, <3>1 DEF CompleteRead, Goto, TypeOK, Cost
    <3> QED
      BY <3>1, <3>2, ExactQuiet
  <2>4. CASE ChargeRead(w) \/ CompleteCommit(w)
    BY <2>4, ExactCharge
  <2> QED
    BY <1>3, <2>1, <2>2, <2>3, <2>4 DEF WorkerStep
<1>4. ASSUME NEW w \in Workers, Crash(w) \/ Restart(w) \/ Requeue(w)
      PROVE  ExactInv'
  <2>1. UNCHANGED <<balance, credits, debits, adminUser>>
    BY <1>4 DEF Crash, Restart, Requeue, dbVars, adminVars
  <2>2. \A v \in Workers : pc'[v] = "commit" =>
           pc[v] = "commit" /\ UNCHANGED <<job[v], bal[v], done[v]>>
    BY <1>4 DEF Crash, Restart, Requeue, Leave, Goto, TypeOK, localVars, workerVars
  <2> QED
    BY <2>1, <2>2, ExactQuiet
<1>5. CASE UNCHANGED vars
  BY <1>5, ExactQuiet DEF vars
<1> QED
  BY <1>1, <1>2, <1>3, <1>4, <1>5 DEF Next, Fault

(* The initial balances are exact.                                         *)
LEMMA ExactInit == Init => ExactInv
<1> SUFFICES ASSUME Init
             PROVE  ExactInv
  OBVIOUS
<1>1. \A u \in Users : credits[u] = 0 /\ debits[u] = 0 /\ balance[u] = InitialBalance[u]
  BY DEF Init
<1>2. \A u \in Users : InitialBalance[u] \in Nat
  BY AmountAssumption
<1>3. \A x \in Nat : x = x + 0 - 0
  OBVIOUS
<1>4. LedgerMatchesBalance
  BY <1>1, <1>2, <1>3, Zenon DEF LedgerMatchesBalance
<1> QED
  BY <1>4 DEF Init, ExactInv

(* A worker alone, without top-ups, never loses an update of a balance,    *)
(* whatever crashes and redeliveries there are: every balance is what the  *)
(* transactions table makes of the initial one (BalanceService.charge).    *)
THEOREM OneWorkerKeepsLedger ==
    ASSUME MaxTopUps = 0, \A v, w \in Workers : v = w
    PROVE  Spec => []LedgerMatchesBalance
<1>1. TypeInv => TypeOK /\ OneChargeAtATime
  BY DEF TypeInv, OneChargeAtATime
<1>2. TypeOK /\ OneChargeAtATime /\ ExactInv /\ [Next]_vars => ExactInv'
  BY ExactStep
<1>3. ExactInv => LedgerMatchesBalance
  BY DEF ExactInv
<1> QED
  BY <1>1, <1>2, <1>3, ExactInit, TypeInvariant, PTL DEF Spec

(* Nor do any number of workers with a sole consumer of each message, when *)
(* no user has two tasks: what one worker reads, no other one writes.      *)
THEOREM OneTaskEachKeepsLedger ==
    ASSUME SoleConsumer, MaxTopUps = 0,
           \A s, t \in Tasks : Owner[s] = Owner[t] => s = t
    PROVE  Spec => []LedgerMatchesBalance
<1>1. TypeInv /\ DeliveryInv => TypeOK /\ OneChargeAtATime
  <2> SUFFICES ASSUME TypeInv, DeliveryInv
               PROVE  TypeOK /\ OneChargeAtATime
    OBVIOUS
  <2>1. TypeOK
    BY DEF TypeInv
  <2>2. \A v, w \in Workers : v # w /\ Active(v) /\ Active(w) =>
           job[v] \in Tasks /\ job[w] \in Tasks /\ job[v] # job[w]
    BY <2>1, SoleHolder
  <2> QED
    BY <2>1, <2>2 DEF OneChargeAtATime
<1>2. TypeOK /\ OneChargeAtATime /\ ExactInv /\ [Next]_vars => ExactInv'
  BY ExactStep
<1>3. ExactInv => LedgerMatchesBalance
  BY DEF ExactInv
<1> QED
  BY <1>1, <1>2, <1>3, ExactInit, DeliveryInvariant, PTL DEF Spec

=============================================================================
