---------------------------- MODULE TaskPipeline ----------------------------
(***************************************************************************)
(* The life of a prediction task: POST /predict and POST /predict/upload   *)
(* (routers/predictions.py), the RabbitMQ queue ml_tasks (broker.py), the  *)
(* workers that consume it (worker.py), the rows they share in PostgreSQL  *)
(* (services.py, models.py) and the administrator's direct top-up, the     *)
(* other writer of a balance (routers/balance.py).                         *)
(*                                                                         *)
(* The database is READ COMMITTED and no statement of the program takes a  *)
(* lock or compares a version, so a service method is two steps: it reads  *)
(* rows, and later commits values computed from what it read.  What a step *)
(* read is kept in the worker's row, res and bal until its commit.         *)
(***************************************************************************)
EXTENDS Integers

CONSTANTS
    Users, Tasks, Workers, Admins,
    Owner,           \* the user who submits each task
    Kind,            \* "single" (POST /predict) or "batch" (POST /predict/upload)
    Accepted,        \* records of the task's message (one for a single task)
    Invalid,         \* records the scan parser rejected
    WellFormed,      \* do the message's features pass validate_prediction_features?
    Price,           \* cost_per_prediction of the task's model, in cents
    InitialBalance,  \* of each user, in cents
    TopUpAmount,     \* of one administrator top-up, in cents
    NoTask, NoUser, NoResult,
    MaxTopUps,       \* bound: administrator top-ups
    MaxCrashes,      \* bound: crashes of a worker or of a request thread
    MaxRequeues,     \* bound: deliveries the broker takes back from a live worker
    ReliablePublish  \* does publish raise exactly when the queue has no message?

ASSUME TaskAssumption ==
    /\ Owner \in [Tasks -> Users]
    /\ Kind \in [Tasks -> {"single", "batch"}]
    /\ Accepted \in [Tasks -> Nat]
    /\ Invalid \in [Tasks -> Nat]
    /\ WellFormed \in [Tasks -> BOOLEAN]
    /\ Price \in [Tasks -> Nat]
    /\ \A t \in Tasks : Kind[t] = "single" => Accepted[t] = 1 /\ Invalid[t] = 0
    /\ \A t \in Tasks : Kind[t] = "batch" => WellFormed[t]

ASSUME AmountAssumption ==
    /\ InitialBalance \in [Users -> Nat]
    /\ TopUpAmount \in Nat \ {0}

ASSUME BoundAssumption ==
    /\ MaxTopUps \in Nat
    /\ MaxCrashes \in Nat
    /\ MaxRequeues \in Nat
    /\ ReliablePublish \in BOOLEAN

ASSUME NullAssumption ==
    /\ NoTask \notin Tasks
    /\ NoUser \notin Users
    /\ Workers \cap {"none", "ready", "acked"} = {}

-----------------------------------------------------------------------------
(* Rows.  An error message is only told apart from "no error", and the     *)
(* message of a batch that stopped early from the others.                  *)

Statuses == {"absent", "created", "processing", "completed", "failed"}
Errors   == {"none", "partial", "failed"}

TaskRow   == [status : Statuses, error : Errors, rejected : Int]
ResultRow == [processed : Nat, rejected : Int, spent : Nat]

ASSUME ResultAssumption == NoResult \notin ResultRow

AbsentRow == [status |-> "absent", error |-> "none", rejected |-> 0]

PcStates == {"down", "idle", "start", "begin", "payload", "predict", "check",
             "charge", "commit", "fail", "mark", "ack"}

VARIABLES
    task, result,              \* tables ml_tasks and prediction_results
    balance,                   \* table balances
    credits, debits, charged,  \* table transactions: top-ups and charges per user, charges per task
    api,                       \* the request thread that submits each task
    msg,                       \* the broker's view of each task's message
    pc, job,                   \* where each worker is and the task it was delivered
    row, res, bal,             \* rows the worker read and has not yet acted upon
    done, rej, handler,        \* locals of process_delivery
    adminUser, adminSaw,       \* an administrator's top-up in flight and the balance it read
    topUps, crashes, requeues  \* how much of each bound is used

dbVars     == <<task, result, balance, credits, debits, charged>>
taskVars   == <<task, result>>
moneyVars  == <<balance, credits, debits, charged>>
localVars  == <<row, res, bal, done, rej, handler>>
workerVars == <<pc, job, row, res, bal, done, rej, handler>>
adminVars  == <<adminUser, adminSaw, topUps>>
faultVars  == <<crashes, requeues>>
vars       == <<task, result, balance, credits, debits, charged, api, msg, pc, job,
                row, res, bal, done, rej, handler, adminUser, adminSaw, topUps,
                crashes, requeues>>

TypeOK ==
    /\ task \in [Tasks -> TaskRow]
    /\ result \in [Tasks -> ResultRow \cup {NoResult}]
    /\ balance \in [Users -> Int]
    /\ credits \in [Users -> Nat]
    /\ debits \in [Users -> Nat]
    /\ charged \in [Tasks -> Nat]
    /\ api \in [Tasks -> {"idle", "empty", "publish", "failing",
                          "accepted", "refused", "closed", "down"}]
    /\ msg \in [Tasks -> {"none", "ready", "acked"} \cup Workers]
    /\ pc \in [Workers -> PcStates]
    /\ job \in [Workers -> Tasks \cup {NoTask}]
    /\ \A w \in Workers : job[w] = NoTask <=> pc[w] \in {"down", "idle"}
    /\ row \in [Workers -> TaskRow]
    /\ res \in [Workers -> ResultRow \cup {NoResult}]
    /\ bal \in [Workers -> Int]
    /\ done \in [Workers -> Nat]
    /\ rej \in [Workers -> Int]
    /\ handler \in [Workers -> BOOLEAN]
    /\ adminUser \in [Admins -> Users \cup {NoUser}]
    /\ adminSaw \in [Admins -> Int]
    /\ topUps \in Nat /\ crashes \in Nat /\ requeues \in Nat

Init ==
    /\ task = [t \in Tasks |-> AbsentRow]
    /\ result = [t \in Tasks |-> NoResult]
    /\ balance = InitialBalance
    /\ credits = [u \in Users |-> 0]
    /\ debits = [u \in Users |-> 0]
    /\ charged = [t \in Tasks |-> 0]
    /\ api = [t \in Tasks |-> "idle"]
    /\ msg = [t \in Tasks |-> "none"]
    /\ pc = [w \in Workers |-> "idle"]
    /\ job = [w \in Workers |-> NoTask]
    /\ row = [w \in Workers |-> AbsentRow]
    /\ res = [w \in Workers |-> NoResult]
    /\ bal = [w \in Workers |-> 0]
    /\ done = [w \in Workers |-> 0]
    /\ rej = [w \in Workers |-> 0]
    /\ handler = [w \in Workers |-> FALSE]
    /\ adminUser = [a \in Admins |-> NoUser]
    /\ adminSaw = [a \in Admins |-> 0]
    /\ topUps = 0 /\ crashes = 0 /\ requeues = 0

-----------------------------------------------------------------------------
(* Helpers.                                                                *)

(* What a column holds after a unit of work that loaded it as seen and set *)
(* it to new is flushed: the UPDATE names only the columns that changed.   *)
Flushed(current, seen, new) == IF new = seen THEN current ELSE new

(* Mutant: rejected records are charged too.                               *)
Cost_PlusInvalid(t, n) == Price[t] * (n + Invalid[t])

(* calculate_prediction_cost, in cents: no rounding is left to do.         *)
Cost(t, n) == Price[t] * n

(* The early return of every service method on a task.                     *)
AlreadyCompleted(t) == task[t].status = "completed" /\ result[t] # NoResult

(* Mutant: completing a task always clears its error.                      *)
WriteTask_ClearsError(t, seen, status, error) ==
    [task EXCEPT ![t].status = Flushed(@, seen.status, status),
                 ![t].error  = Flushed(@, seen.error,
                                       IF status = "failed" THEN error ELSE "none")]

(* The status and the error of task t, written over what was read as seen. *)
WriteTask(t, seen, status, error) ==
    [task EXCEPT ![t].status = Flushed(@, seen.status, status),
                 ![t].error  = Flushed(@, seen.error, error)]

Goto(w, label) == pc' = [pc EXCEPT ![w] = label]

(* The delivery callback is left: its locals are gone.                     *)
Leave(w, label) ==
    /\ Goto(w, label)
    /\ job' = [job EXCEPT ![w] = NoTask]
    /\ row' = [row EXCEPT ![w] = AbsentRow]
    /\ res' = [res EXCEPT ![w] = NoResult]
    /\ bal' = [bal EXCEPT ![w] = 0]
    /\ done' = [done EXCEPT ![w] = 0]
    /\ rej' = [rej EXCEPT ![w] = 0]
    /\ handler' = [handler EXCEPT ![w] = FALSE]

(* An exception in the callback.  A batch with at least one prediction is  *)
(* completed with what it has, once; everything else is marked failed.     *)
CanSalvage(w) == Kind[job[w]] = "batch" /\ done[w] > 0 /\ ~handler[w]

(* Mutant: the exception is logged and the task is left as it is.          *)
Raise_Swallow(w) == Goto(w, "ack") /\ UNCHANGED handler

Raise(w) ==
    \/ /\ CanSalvage(w)
       /\ Goto(w, "check")
       /\ handler' = [handler EXCEPT ![w] = TRUE]
    \/ /\ ~CanSalvage(w)
       /\ Goto(w, "fail")
       /\ UNCHANGED handler

(* Mutant: the records a stopped batch did not reach are not counted.      *)
RejectedArg_NoUnprocessed(w) == rej[w]

(* The rejected_count argument of complete_batch_task.                     *)
RejectedArg(w) ==
    rej[w] + (IF handler[w] THEN Accepted[job[w]] - done[w] ELSE 0)

-----------------------------------------------------------------------------
(* The request thread.                                                     *)

(* predict and predict_upload up to create_queued_task.  The balance is    *)
(* only looked at here, nothing is reserved; nobody knows the task before  *)
(* it is published, so the look and the insert are one step.               *)
ApiSubmit(t) ==
    /\ api[t] = "idle"
    /\ Cost(t, Accepted[t]) > 0 => balance[Owner[t]] >= Cost(t, Accepted[t])
    /\ task' = [task EXCEPT ![t] = [status |-> "created", error |-> "none",
                                    rejected |-> Invalid[t]]]
    /\ api' = [api EXCEPT ![t] = IF Accepted[t] = 0 THEN "empty" ELSE "publish"]
    /\ UNCHANGED <<result, moneyVars, msg, workerVars, adminVars, faultVars>>

(* An upload without a valid record is failed by the request itself.       *)
ApiFailEmpty(t) ==
    /\ api[t] = "empty"
    /\ task' = WriteTask(t, task[t], "failed", "failed")
    /\ api' = [api EXCEPT ![t] = "closed"]
    /\ UNCHANGED <<result, moneyVars, msg, workerVars, adminVars, faultVars>>

(* publish returns and the message is in the durable queue.                *)
PublishOk(t) ==
    /\ api[t] = "publish"
    /\ msg' = [msg EXCEPT ![t] = "ready"]
    /\ api' = [api EXCEPT ![t] = "accepted"]
    /\ UNCHANGED <<dbVars, workerVars, adminVars, faultVars>>

(* Mutant: the request is answered 503 without fail_task.                  *)
PublishError_ForgetsTask(t) ==
    /\ api[t] = "publish"
    /\ api' = [api EXCEPT ![t] = "refused"]
    /\ UNCHANGED <<dbVars, msg, workerVars, adminVars, faultVars>>

(* publish raises before the broker has the message.                       *)
PublishError(t) ==
    /\ api[t] = "publish"
    /\ api' = [api EXCEPT ![t] = "failing"]
    /\ UNCHANGED <<dbVars, msg, workerVars, adminVars, faultVars>>

(* basic_publish is sent without publisher confirms: the broker may go     *)
(* away with it after publish has returned ...                             *)
PublishLost(t) ==
    /\ ~ReliablePublish
    /\ api[t] = "publish"
    /\ api' = [api EXCEPT ![t] = "accepted"]
    /\ UNCHANGED <<dbVars, msg, workerVars, adminVars, faultVars>>

(* ... or have it although connection.close() then raises.                 *)
PublishErrorDelivered(t) ==
    /\ ~ReliablePublish
    /\ api[t] = "publish"
    /\ msg' = [msg EXCEPT ![t] = "ready"]
    /\ api' = [api EXCEPT ![t] = "failing"]
    /\ UNCHANGED <<dbVars, workerVars, adminVars, faultVars>>

(* fail_task after a publish error.  The request's session still holds the *)
(* row it created, so the row fail_task tests and compares is that one,    *)
(* whatever a worker has committed since.                                  *)
ApiFail(t) ==
    /\ api[t] = "failing"
    /\ LET created == [status |-> "created", error |-> "none"]
       IN  task' = WriteTask(t, created, "failed", "failed")
    /\ api' = [api EXCEPT ![t] = "refused"]
    /\ UNCHANGED <<result, moneyVars, msg, workerVars, adminVars, faultVars>>

(* The app container stops in the middle of the request.                   *)
ApiCrash(t) ==
    /\ crashes < MaxCrashes
    /\ api[t] \in {"empty", "publish", "failing"}
    /\ api' = [api EXCEPT ![t] = "down"]
    /\ crashes' = crashes + 1
    /\ UNCHANGED <<dbVars, msg, workerVars, adminVars, requeues>>

-----------------------------------------------------------------------------
(* The worker: process_delivery under basic_qos(prefetch_count=1).         *)

(* The broker hands a ready message to an idle consumer.  Redeliveries and *)
(* the second consumer break the queue's order, so any message may be next.*)
Deliver(w, t) ==
    /\ pc[w] = "idle"
    /\ msg[t] = "ready"
    /\ msg' = [msg EXCEPT ![t] = w]
    /\ job' = [job EXCEPT ![w] = t]
    /\ Goto(w, "start")
    /\ UNCHANGED <<dbVars, api, localVars, adminVars, faultVars>>

(* Mutant: a task that is already completed is started again.              *)
StartRead_NoEarlyReturn(w) ==
    /\ pc[w] = "start"
    /\ Goto(w, "begin")
    /\ row' = [row EXCEPT ![w] = task[job[w]]]
    /\ UNCHANGED <<dbVars, api, msg, job, res, bal, done, rej, handler,
                   adminVars, faultVars>>

(* start_task_processing and start_batch_task_processing: get_task, the    *)
(* early return, validation; the commit of PROCESSING is a later step.     *)
StartRead(w) ==
    /\ pc[w] = "start"
    /\ \/ /\ AlreadyCompleted(job[w])
          /\ Goto(w, "ack")
          /\ UNCHANGED row
       \/ /\ ~AlreadyCompleted(job[w])
          /\ ~WellFormed[job[w]]
          /\ Goto(w, "fail")
          /\ UNCHANGED row
       \/ /\ ~AlreadyCompleted(job[w])
          /\ WellFormed[job[w]]
          /\ Goto(w, "begin")
          /\ row' = [row EXCEPT ![w] = task[job[w]]]
    /\ UNCHANGED <<dbVars, api, msg, job, res, bal, done, rej, handler,
                   adminVars, faultVars>>

StartCommit(w) ==
    /\ pc[w] = "begin"
    /\ task' = WriteTask(job[w], row[w], "processing", "none")
    /\ Goto(w, IF Kind[job[w]] = "batch" THEN "payload" ELSE "predict")
    /\ UNCHANGED <<result, moneyVars, api, msg, job, localVars, adminVars, faultVars>>

(* The refresh after that commit loads the payload's rejected_count.       *)
ReadPayload(w) ==
    /\ pc[w] = "payload"
    /\ rej' = [rej EXCEPT ![w] = task[job[w]].rejected]
    /\ Goto(w, "predict")
    /\ UNCHANGED <<dbVars, api, msg, job, row, res, bal, done, handler,
                   adminVars, faultVars>>

(* One call of _predict_with_runtime, or of the local demo model.          *)
PredictOk(w) ==
    /\ pc[w] = "predict"
    /\ done' = [done EXCEPT ![w] = @ + 1]
    /\ Goto(w, IF done[w] + 1 = Accepted[job[w]] THEN "check" ELSE "predict")
    /\ UNCHANGED <<dbVars, api, msg, job, row, res, bal, rej, handler,
                   adminVars, faultVars>>

(* The model runtime times out or answers badly, or the user's OpenAI      *)
(* credential is gone.                                                     *)
PredictError(w) ==
    /\ pc[w] = "predict"
    /\ Raise(w)
    /\ UNCHANGED <<dbVars, api, msg, job, row, res, bal, done, rej,
                   adminVars, faultVars>>

(* complete_task and complete_batch_task, first statement: one SELECT of   *)
(* the task joined with its result.                                        *)
CompleteRead(w) ==
    /\ pc[w] = "check"
    /\ \/ /\ AlreadyCompleted(job[w])
          /\ Goto(w, "ack")
          /\ UNCHANGED <<row, res>>
       \/ /\ ~AlreadyCompleted(job[w])
          /\ row' = [row EXCEPT ![w] = task[job[w]]]
          /\ res' = [res EXCEPT ![w] = result[job[w]]]
          /\ Goto(w, IF Cost(job[w], done[w]) > 0 THEN "charge" ELSE "commit")
    /\ UNCHANGED <<dbVars, api, msg, job, bal, done, rej, handler,
                   adminVars, faultVars>>

(* Mutant: the charge is made without ensure_sufficient_balance.           *)
ChargeRead_NoCheck(w) ==
    /\ pc[w] = "charge"
    /\ bal' = [bal EXCEPT ![w] = balance[Owner[job[w]]]]
    /\ Goto(w, "commit")
    /\ UNCHANGED <<dbVars, api, msg, job, row, res, done, rej, handler,
                   adminVars, faultVars>>

(* Mutant: the charge is committed on its own, before the result.          *)
ChargeRead_CommitsAtOnce(w) ==
    /\ pc[w] = "charge"
    /\ balance[Owner[job[w]]] >= Cost(job[w], done[w])
    /\ balance' = [balance EXCEPT ![Owner[job[w]]] = @ - Cost(job[w], done[w])]
    /\ debits' = [debits EXCEPT ![Owner[job[w]]] = @ + Cost(job[w], done[w])]
    /\ charged' = [charged EXCEPT ![job[w]] = @ + Cost(job[w], done[w])]
    /\ Goto(w, "commit")
    /\ UNCHANGED <<taskVars, credits, api, msg, job, localVars, adminVars, faultVars>>

(* BalanceService.charge: the balance is read and tested in a statement of *)
(* its own.                                                                *)
ChargeRead(w) ==
    /\ pc[w] = "charge"
    /\ \/ /\ balance[Owner[job[w]]] < Cost(job[w], done[w])
          /\ Raise(w)
          /\ UNCHANGED bal
       \/ /\ balance[Owner[job[w]]] >= Cost(job[w], done[w])
          /\ bal' = [bal EXCEPT ![w] = balance[Owner[job[w]]]]
          /\ Goto(w, "commit")
          /\ UNCHANGED handler
    /\ UNCHANGED <<dbVars, api, msg, job, row, res, done, rej, adminVars, faultVars>>

(* Mutant: a batch's result names the price of the whole upload.           *)
WrittenResult_FullPrice(w) ==
    [processed |-> done[w],
     rejected  |-> RejectedArg(w),
     spent     |-> Cost(job[w], Accepted[job[w]])]

(* The row complete_task and complete_batch_task leave in prediction_results: *)
(* inserted, or written over the one that was read.                        *)
WrittenResult(w) ==
    LET new == [processed |-> done[w],
                rejected  |-> RejectedArg(w),
                spent     |-> Cost(job[w], done[w])]
        old == result[job[w]]
    IN  IF res[w] = NoResult THEN new
        ELSE [processed |-> Flushed(old.processed, res[w].processed, new.processed),
              rejected  |-> Flushed(old.rejected, res[w].rejected, new.rejected),
              spent     |-> Flushed(old.spent, res[w].spent, new.spent)]

(* prediction_results.task_id is unique.                                   *)
DuplicateResult(w) == res[w] = NoResult /\ result[job[w]] # NoResult

(* The commit of the charge, the task and its result: one transaction.  A  *)
(* batch also rewrites its payload, a new JSON value whatever was read.    *)
CompleteCommit(w) ==
    LET t    == job[w]
        u    == Owner[t]
        cost == Cost(t, done[w])
        rows == WriteTask(t, row[w], "completed", IF handler[w] THEN "partial" ELSE "none")
    IN  /\ pc[w] = "commit"
        /\ ~DuplicateResult(w)
        /\ task' = IF Kind[t] = "batch"
                   THEN [rows EXCEPT ![t].rejected = RejectedArg(w)]
                   ELSE rows
        /\ result' = [result EXCEPT ![t] = WrittenResult(w)]
        /\ charged' = [charged EXCEPT ![t] = @ + cost]
        /\ debits' = [debits EXCEPT ![u] = @ + cost]
        /\ balance' = [balance EXCEPT ![u] = IF cost > 0 THEN bal[w] - cost ELSE @]
        /\ Goto(w, "ack")
        /\ UNCHANGED <<credits, api, msg, job, localVars, adminVars, faultVars>>

(* The INSERT violates the unique constraint: all of it is rolled back.    *)
CompleteRollback(w) ==
    /\ pc[w] = "commit"
    /\ DuplicateResult(w)
    /\ Raise(w)
    /\ UNCHANGED <<dbVars, api, msg, job, row, res, bal, done, rej,
                   adminVars, faultVars>>

(* fail_task in a session of the exception handler.                        *)
FailRead(w) ==
    /\ pc[w] = "fail"
    /\ \/ /\ AlreadyCompleted(job[w])
          /\ Goto(w, "ack")
          /\ UNCHANGED row
       \/ /\ ~AlreadyCompleted(job[w])
          /\ row' = [row EXCEPT ![w] = task[job[w]]]
          /\ Goto(w, "mark")
    /\ UNCHANGED <<dbVars, api, msg, job, res, bal, done, rej, handler,
                   adminVars, faultVars>>

(* Mutant: the status written is the enumeration's unused VALIDATING.      *)
FailCommit_Validating(w) ==
    /\ pc[w] = "mark"
    /\ task' = WriteTask(job[w], row[w], "validating", "failed")
    /\ Goto(w, "ack")
    /\ UNCHANGED <<result, moneyVars, api, msg, job, localVars, adminVars, faultVars>>

FailCommit(w) ==
    /\ pc[w] = "mark"
    /\ task' = WriteTask(job[w], row[w], "failed", "failed")
    /\ Goto(w, "ack")
    /\ UNCHANGED <<result, moneyVars, api, msg, job, localVars, adminVars, faultVars>>

(* Mutant: the delivery is put back (basic_nack) instead of acknowledged.  *)
Ack_Nack(w) ==
    /\ pc[w] = "ack"
    /\ msg' = [msg EXCEPT ![job[w]] = "ready"]
    /\ Leave(w, "idle")
    /\ UNCHANGED <<dbVars, api, adminVars, faultVars>>

(* basic_ack after process_delivery.  On a delivery the broker has taken   *)
(* back the channel is closed, start_consuming raises and the worker ends. *)
Ack(w) ==
    /\ pc[w] = "ack"
    /\ \/ /\ msg[job[w]] = w
          /\ msg' = [msg EXCEPT ![job[w]] = "acked"]
          /\ Leave(w, "idle")
       \/ /\ msg[job[w]] # w
          /\ Leave(w, "down")
          /\ UNCHANGED msg
    /\ UNCHANGED <<dbVars, api, adminVars, faultVars>>

(* The process or its database connection dies: the transaction in flight  *)
(* is rolled back and the broker requeues the delivery.                    *)
Crash(w) ==
    /\ crashes < MaxCrashes
    /\ pc[w] # "down"
    /\ crashes' = crashes + 1
    /\ msg' = [t \in Tasks |-> IF msg[t] = w THEN "ready" ELSE msg[t]]
    /\ Leave(w, "down")
    /\ UNCHANGED <<dbVars, api, adminVars, requeues>>

(* Nothing restarts a worker by itself: an operator may.                   *)
Restart(w) ==
    /\ pc[w] = "down"
    /\ Goto(w, "idle")
    /\ UNCHANGED <<dbVars, api, msg, job, localVars, adminVars, faultVars>>

(* The broker drops the connection of a worker that is still at work, or   *)
(* its delivery outlives consumer_timeout, and the message is ready again. *)
Requeue(w) ==
    /\ requeues < MaxRequeues
    /\ \E t \in Tasks :
          /\ msg[t] = w
          /\ msg' = [msg EXCEPT ![t] = "ready"]
    /\ requeues' = requeues + 1
    /\ UNCHANGED <<dbVars, api, workerVars, adminVars, crashes>>

-----------------------------------------------------------------------------
(* BalanceService.top_up for an administrator's request.                   *)

TopUpRead(a, u) ==
    /\ topUps < MaxTopUps
    /\ adminUser[a] = NoUser
    /\ adminUser' = [adminUser EXCEPT ![a] = u]
    /\ adminSaw' = [adminSaw EXCEPT ![a] = balance[u]]
    /\ topUps' = topUps + 1
    /\ UNCHANGED <<dbVars, api, msg, workerVars, faultVars>>

TopUpCommit(a) ==
    /\ adminUser[a] # NoUser
    /\ balance' = [balance EXCEPT ![adminUser[a]] = adminSaw[a] + TopUpAmount]
    /\ credits' = [credits EXCEPT ![adminUser[a]] = @ + TopUpAmount]
    /\ adminUser' = [adminUser EXCEPT ![a] = NoUser]
    /\ adminSaw' = [adminSaw EXCEPT ![a] = 0]
    /\ UNCHANGED <<taskVars, debits, charged, api, msg, workerVars, topUps, faultVars>>

-----------------------------------------------------------------------------
ApiStep(t) ==
    \/ ApiFailEmpty(t)
    \/ PublishOk(t)
    \/ PublishError(t)
    \/ PublishLost(t)
    \/ PublishErrorDelivered(t)
    \/ ApiFail(t)

WorkerStep(w) ==
    \/ \E t \in Tasks : Deliver(w, t)
    \/ StartRead(w)
    \/ StartCommit(w)
    \/ ReadPayload(w)
    \/ PredictOk(w)
    \/ PredictError(w)
    \/ CompleteRead(w)
    \/ ChargeRead(w)
    \/ CompleteCommit(w)
    \/ CompleteRollback(w)
    \/ FailRead(w)
    \/ FailCommit(w)
    \/ Ack(w)

AdminStep(a) ==
    \/ \E u \in Users : TopUpRead(a, u)
    \/ TopUpCommit(a)

Fault ==
    \/ \E t \in Tasks : ApiCrash(t)
    \/ \E w \in Workers : Crash(w) \/ Restart(w) \/ Requeue(w)

Next ==
    \/ \E t \in Tasks : ApiSubmit(t) \/ ApiStep(t)
    \/ \E w \in Workers : WorkerStep(w)
    \/ \E a \in Admins : AdminStep(a)
    \/ Fault

Spec == Init /\ [][Next]_vars

(* A request thread and a running worker keep taking their next step: all  *)
(* their calls are bounded by timeouts.  Submissions, top-ups, faults and  *)
(* restarts are nobody's duty.                                             *)
Fairness ==
    /\ \A t \in Tasks : WF_vars(ApiStep(t))
    /\ \A w \in Workers : WF_vars(WorkerStep(w))

FairSpec == Spec /\ Fairness

-----------------------------------------------------------------------------
(* Safety.  A message has a sole consumer when the broker never takes a    *)
(* delivery back from a worker that is still at work, and publish raises   *)
(* exactly when the queue does not have the message.                       *)

SoleConsumer == MaxRequeues = 0 /\ ReliablePublish

Active(w) == pc[w] \notin {"down", "idle"}

WithinLedger(u, amount) ==
    /\ amount >= 0
    /\ amount <= InitialBalance[u] + credits[u]
    /\ amount >= InitialBalance[u] - debits[u]

(* Whatever the broker and the request threads do, lost updates included,  *)
(* no balance ever exceeds the initial amount plus the credited top-ups,   *)
(* none falls below the initial amount less the recorded charges, and none *)
(* is negative (BalanceService.charge and top_up write what they read plus *)
(* or minus an amount).                                                    *)
BalanceWithinLedger == \A u \in Users : WithinLedger(u, balance[u])

(* A task is charged exactly what its stored result says was spent: never  *)
(* twice, never without a result, never a result for free, whichever       *)
(* worker crashed or was handed the message again (complete_task,          *)
(* complete_batch_task).                                                   *)
Spent(r) == IF r = NoResult THEN 0 ELSE r.spent

ChargedExactlyForResult == \A t \in Tasks : charged[t] = Spent(result[t])

(* Every record of a completed task is counted once, as processed or as    *)
(* rejected, and the payload the reports are built from counts the same,   *)
(* after any number of redeliveries and partial completions; and a batch   *)
(* completed with fewer predictions than records says so.                  *)
RecordsAccountedFor ==
    \A t \in Tasks :
        task[t].status = "completed" =>
            /\ result[t].processed \in 1..Accepted[t]
            /\ result[t].processed + result[t].rejected = Accepted[t] + Invalid[t]
            /\ task[t].rejected = result[t].rejected
            /\ result[t].spent = Cost(t, result[t].processed)
            /\ result[t].processed < Accepted[t] => task[t].error = "partial"

(* A task that is neither completed nor failed is in somebody's hands: a   *)
(* request thread will still publish or fail it, a message waits for a     *)
(* worker, or a worker has it, whichever process crashed.  Two losses the  *)
(* code does not look for are the exceptions: the request thread died      *)
(* between the commit of the task and its publication, or the broker lost  *)
(* a message that basic_publish sent without confirms.                     *)
InHand(t) ==
    \/ api[t] \in {"empty", "publish", "failing"}
    \/ msg[t] \in {"ready"} \cup Workers
    \/ api[t] = "down" /\ msg[t] = "none"
    \/ api[t] = "accepted" /\ msg[t] = "none" /\ ~ReliablePublish

OpenIsInHand ==
    \A t \in Tasks : task[t].status \in {"created", "processing"} => InHand(t)

(* Charges beyond the first need a message delivered again: by a broker    *)
(* that takes a delivery back, or after a crash.                           *)
ChargesPerDelivery ==
    \A t \in Tasks :
        charged[t] <= Cost(t, Accepted[t]) * (1 + requeues + crashes)

(* A task is charged at most once for all its records.                     *)
ChargedAtMostOnce == \A t \in Tasks : charged[t] <= Cost(t, Accepted[t])

(* A request answered with 503 queue_unavailable costs the user nothing.   *)
RefusedIsNotCharged == \A t \in Tasks : api[t] = "refused" => charged[t] = 0

(* A settled balance agrees with the transactions table.                   *)
LedgerMatchesBalance ==
    \A u \in Users : balance[u] = InitialBalance[u] + credits[u] - debits[u]

-----------------------------------------------------------------------------
(* What a step may never do.                                               *)

(* A completed task keeps its row, its result and its charge for good: a   *)
(* late failure or a duplicate delivery changes none of them (the early    *)
(* returns of fail_task, start_task_processing and complete_task).         *)
CompletedIsFinal ==
    [][\A t \in Tasks : task[t].status = "completed" =>
            task'[t] = task[t] /\ result'[t] = result[t] /\ charged'[t] = charged[t]]_vars

(* Even when two workers hold the same message, a charge is only ever      *)
(* recorded by a step that leaves the task completed and its result stored:*)
(* the three are one transaction (charge is called with commit=False).     *)
ChargeComesWithResult ==
    [][\A t \in Tasks : charged'[t] # charged[t] =>
            task'[t].status = "completed" /\ result'[t] # NoResult]_vars

-----------------------------------------------------------------------------
(* Liveness, under FairSpec.                                               *)

Settled(t) == msg[t] = "acked" /\ task[t].status \in {"completed", "failed"}

(* A task whose message the broker has is settled in the end, and then for *)
(* good, whichever single fault there is: a process that dies, or a        *)
(* delivery that the broker takes back from a worker at work.  (After two  *)
(* faults it need not be: a worker that lost its delivery may write        *)
(* PROCESSING over the other's result, and die before it completes.)       *)
QueuedIsSettled ==
    \A t \in Tasks :
        [](msg[t] # "none" => <>[](Settled(t) \/ crashes + requeues > 1))

-----------------------------------------------------------------------------
(* The refinement of TaskLifecycle.                                        *)

TaskState ==
    [t \in Tasks |-> IF task[t].status \in {"created", "processing"} THEN "open"
                     ELSE task[t].status]

Lifecycle == INSTANCE TaskLifecycle WITH state <- TaskState, paid <- charged

(* Seen from outside, every step of the pipeline is a step of a task's     *)
(* lifecycle or none: completed tasks stay as they are, failed ones are    *)
(* free, and the charge is made once, when the task completes.             *)
ImplementsLifecycle == Lifecycle!LifeSpec

=============================================================================
