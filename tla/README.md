# vulnrank in TLA+

A model of the vulnrank service (`app/src/ml_service`): a web application that accepts prediction
requests for vulnerability findings, a RabbitMQ queue, workers that ask a local or an external
model for a priority, and a PostgreSQL database with the tasks, results, balances and transactions.
The modules state what the service promises about money, tasks and models when several requests,
workers and administrators are at work at once and processes or the broker fail, TLC checks them on
small instances, and TLAPS proves the most important ones for every size.

* [The system](#the-system)
* [The modules](#the-modules)
* [What the runs show](#what-the-runs-show)
* [Bounds and fairness](#bounds-and-fairness)
* [What is proved](#what-is-proved)
* [Where the code and its tests disagree](#where-the-code-and-its-tests-disagree)
* [What is not modelled](#what-is-not-modelled)
* [Plan](#plan)

## The system

| Component | State | Operations | Talks to |
|---|---|---|---|
| Prediction requests (`routers/predictions.py`) | none of its own | `POST /predict`, `POST /predict/upload` | creates a task row, publishes a message, marks the task failed when publishing fails |
| Broker (`broker.py`, RabbitMQ) | the durable queue `ml_tasks`, one unacknowledged delivery per worker (`prefetch_count=1`) | publish, deliver, take back, acknowledge | requests, workers |
| Workers (`worker.py`) | the delivery at hand and its locals | `process_delivery`: start, predict, complete, fail; then `basic_ack` | queue, database, model runtimes |
| Task and result rows (`services.PredictionService`, `models.py`) | `ml_tasks`, `prediction_results` | create, start, complete, fail (single and batch) | requests, workers |
| Balances (`services.BalanceService`) | `balances`, `transactions` | top-up request, approval, rejection, direct top-up, charge | users, administrators, workers |
| Model catalog (`services.MLModelService`, `model_catalog.py`, `routers/admin.py`) | `ml_models.is_active` | create, activate one local model, ensure that one is active | administrators, every starting process |
| Initialization (`init_db.py`, `lifespan.py`, `worker.main`) | tables, demo users, seed markers, models | `initialize_database` | run by every process that starts |
| Accounts and sessions (`services.AuthService`, `security.py`) | `users`, `auth_sessions` | register, log in, verify a token | every request |
| OpenAI credentials (`services.ExternalModelCredentialService`) | one row per user | store, delete, look up | requests, workers |
| Scan parser (`scan_parser.py`) | none | turns an upload into accepted and rejected records | upload request |
| Model runtimes (`model_runtime.py`, `inference.py`) | HTTP clients | predict, list, pull | workers, administrators |
| Web cabinet (`web_static/app.js`) | token, user, tasks, polling timers in the browser | login, logout, refresh, submit, poll | the API |
| Histories, reports (`routers/history.py`, `reporting.py`, `serializers.py`) | none | read and format | the API |

What makes this code hard to get right, and to test:

* **No row is locked and no version compared.** The database runs at READ COMMITTED; a service
  method reads rows in one statement and commits values computed from them in a later one. Every
  pair of writers of one row can cross.
* **Sessions remember.** With `expire_on_commit=False` and SQLAlchemy's identity map, a row that a
  session has read once is not read again, and a flush writes only the columns that the session
  itself changed, relative to what it had read.
* **Messages are delivered at least once.** The acknowledgement comes after the commits; a worker
  that dies in between, a connection that is dropped while a long batch blocks its callback, or
  `consumer_timeout` give the message to the other worker, the last two while the first one is
  still at work.
* **Publishing is not confirmed.** Without publisher confirms a message may be lost after `publish`
  returned, and an exception from `connection.close()` turns a sent message into an error.
* **Nothing is restarted.** The compose file has no restart policy: a worker whose `basic_ack` finds
  its channel closed, or a process that loses a race in `initialize_database`, ends.

What makes each component correct:

* pipeline: a task is charged once, for the records in its result; task, result and charge agree;
  a completed task never changes; a message leaves the queue only when its task is settled, and
  every queued task is settled in the end;
* balances: no interleaving overdraws one; a top-up is credited at most once and only after an
  approval;
* initialization: a process that serves has complete tables behind it; a demo user is credited if
  and only if its seed marker is there; somebody comes up;
* catalog: exactly one local model is active, and it is the one chosen last;
* upload and report: every record is accepted or rejected as its own values say, under a number of
  its own; the report joins predictions to records by that number, accounts for each record, and never changes
  once it could be read;
* accounts: a token opens the account that was asked for; a credential is used and kept as its owner
  asked, and a late PUT that meant to change an enabled one does not undo a DELETE;
* cabinet: the page shows the session whose token it sends, and the data of that session; a task
  that is polled is reported; nothing of a session goes on after its end.

## The modules

```
 TaskLifecycle   <--- implements ---    TaskPipeline    <--- MCTaskPipeline (5 instances)
                                             ^---------------- TaskPipelineProofs
                                        TopUpModeration <--- MCTopUpModeration
                                             ^---------------- TopUpModerationProofs
 ModelCatalog    <--- EXTENDS --------- Startup         <--- MCStartup (2 instances)
                                             ^---------------- StartupProofs
 TaskLifecycle   <--- INSTANCE -------- WebClient       <--- MCWebClient (2 instances)
                                             ^---------------- WebClientProofs
 ScanParser      <--- EXTENDS ---\
                                  ScanReport            <--- MCScanReport
 ModelRuntime    <--- EXTENDS ---/           ^---------------- ScanReportProofs
                                        Accounts        <--- MCAccounts
                                             ^---------------- AccountsProofs
 SetInduction    <--- EXTENDS --------- TopUpModerationProofs, ScanReportProofs
```

### TaskPipeline: from the request to the acknowledgement

A task goes through the request thread (`ApiSubmit`, `ApiFailEmpty`, the four outcomes of publish,
`ApiFail`), the queue (`Deliver`, `Requeue`) and a worker. A worker's `pc` names the statement of
`process_delivery` it is at:

| `pc` | code | next |
|---|---|---|
| `start` | `start_*_processing`: read the task, return early if completed, validate | `begin`, `ack`, `fail` |
| `begin` | the commit of PROCESSING | `payload` or `predict` |
| `payload` | rejected records of the payload | `predict` |
| `predict` | one call of the model runtime, per record | `predict`, `check`, the handler |
| `check` | `complete_*`: read task and result, return early if completed | `charge`, `commit`, `ack` |
| `charge` | `BalanceService.charge`: read and test the balance | `commit`, the handler |
| `commit` | the transaction of charge, task and result | `ack`, the handler |
| `fail`, `mark` | `fail_task`: read, then commit | `ack` |
| `ack` | `basic_ack` | `idle`, or `down` when the channel is closed |

The exception handler (`Raise`) completes a batch with the predictions it has, once, and marks
everything else failed. `row`, `res` and `bal` hold what a worker read; `Flushed` writes a column
only if it differs from that. The administrator's direct top-up is the other writer of a balance.
`Crash` ends a worker between any two steps (the transaction in flight is lost, the delivery is
ready again); `Requeue` takes a delivery back from a worker that goes on regardless. Amounts are in
cents. A record of a batch is not told apart from another; the payload is reduced to its
`rejected_count`, an error message to none, partial or other.

`SoleConsumer` names the assumption under which most invariants hold: no delivery is taken back
from a live worker, and publish raises exactly when the broker does not have the message. The runs
and theorems say where it is assumed.

`TaskLifecycle` is the abstract specification: a task is absent, open, completed or failed, is
charged once when it completes, and a failed task may be opened again, which is what a redelivery
after a crash does. The refinement maps `created` and `processing` to open.

### TopUpModeration: the writers of a balance

Users request top-ups, administrators approve, reject or grant them directly, workers charge. A
balance is kept as how often each transaction is in it, so that reading a balance is reading all
its entries and a lost update loses entries; `Value` is the amount. An administrator's session
keeps what `get_current_admin` loaded: first the user with the balance (`Authenticate`), then all
transactions of that user (`LoadOwn`), so an administrator who moderates a top-up of the own
account works with old rows (`SeenStatus`, `SeenBalances`). `booked` counts the units of work that
credited an entry and committed; it is a history variable.

### Startup and ModelCatalog: initialization and the active model

Each process runs `initialize_database`: look for the tables and create them, then for each demo
user look, create (`create_user` looks again), look for the seed marker, read the balance, commit
the credit with the marker, then for each seed model look, create or update, and finally ensure
that one local model is active. A unique constraint ends the process that inserts second
(`failed`). The demo users and the models are their positions in `DEMO_USERS` and `MODEL_SEEDS`.

An activation request reads the chosen row (`PickRead`), pulls the model into the runtime, which
takes minutes, reads the other rows (`CatalogRead`) and commits. The chosen row is in the session's
identity map since `PickRead` and is not read again: `seen` keeps it. In `initialize_database`, on
the other hand, the rows that the loop looked at are no longer referenced when the last step reads
the catalog, so `EnsureRead` sees the table. Requests run in the application: they need it up and
die with it. `crossed` is a history variable: it is true once an activation began while another
one was in progress.

### WebClient: the browser tab

JavaScript runs to completion, so an action is what a function of `app.js` does from one `await` to
the next. The functions keep nothing of `state` while they wait and go on with what they then find;
that is where sessions and pollings cross. `flow` holds the calls that wait (`at`: for which
answer; `as`: the token the request went out with; `then`: what follows `refreshWorkspace`) and the
polling timers; `tab` is `state` with what the page shows: the visible sections, whose tables they
hold, and what the prediction status is about. A token is the user it was issued to, because
sessions never expire. The page is reloaded at any time, keeping only the token.

| Flow at | function and request | next |
|---|---|---|
| `auth` | login and registration forms | session set, refresh |
| `hydrate` | `hydrateSession`, `/users/me` | refresh, or logout |
| `me` | `refreshWorkspace`, `/users/me` | `userData` or `adminData` by role, or logout |
| `userData`, `adminData` | the five requests of a workspace, as one | tables shown, or logout; then `then` |
| `act` | top-up, credentials, the studio's buttons | refresh |
| `upload` | `/predict/upload` | refresh, then polling |
| `poll` | `/predict/{id}` | status shown, refresh, then a timer if the task is open |
| `timer` | `setTimeout(poll, 2000)` | `poll` |

The service behind it is `TaskLifecycle`, which `TaskPipeline` implements: its `Create`,
`Complete`, `Fail` and `Reopen` are the server's part of `ServeUpload`, `Settle` and `Reopen` (an
upload without a valid record is created and failed in one request). An upload and a poll are
answered in a step of their own, so that an answer may be old, or lost, when it arrives; what other
routes answer depends on the token alone. `overtaken` is a history variable: it says whether a
change of session or a new polling has overtaken a call that was waiting, `hydration` if that was
`hydrateSession`. The path in the address bar follows the panels and is left out.

### ScanParser, ModelRuntime and ScanReport: from the upload to the report

`ScanParser` is `parse_scan_upload` with its two loops as steps: `Open` a single file or an archive,
then for each entry of an archive `SkipUnsafe`, `TooLarge`, `SkipUnreadable`, `EntryDies` or
`BeginFile`, for each record `AcceptRecord` or `RejectRecord`, and `EndFile`, `Finish`. The counters
(`index`, `okHere`, `badHere`, `size`) and the four lists are the function's. A record is told apart
by what normalization and validation do with it: each field has one of six classes of value (text
such as `semgrep` is right for a name or an asset type, and wrong for a severity or a number), and a
flag says whether it holds a NaN, which Python reads and PostgreSQL does not store. A file is told
apart by its format (name or content type) and by what the bytes are (`Shapes`); `Load` says which
class of exception each of them raises, because the loop over an archive expects some and not
others. JSON must have one of three forms, while a CSV reader makes a table of any text with a first
line, JSON included; `records` is what the reader of the file's own format finds in it.

`ModelRuntime` is what an answer of Ollama or OpenAI becomes: where each client looks for the text,
and what `parse_prediction_content` lets pass. There is no state.

`ScanReport` composes the two: the parsed upload becomes a task (`CreateTask`), the worker predicts
the accepted records one after the other with an answer of the runtime for each (`PredictRecord`,
`PredictRaises`), completes the batch, or salvages what it has, and the client reads `Detail`, from
which the report is made. The queue, the money and the workers that cross are those of
`TaskPipeline`; here the message is delivered to one worker at a time until it is acknowledged, a
charge succeeds or raises (`CompleteRaises`), and what `TaskPipeline` only counts is kept apart:
which record has which prediction.

### Accounts: registrations, tokens and credentials

Registrations and logins are requests (`auth`) that look the e-mail up (`Register`, `Login`), insert
the user (`InsertUser`; the unique constraint decides a race) and create a session in a transaction
of their own (`CreateSession`). A password stands for its hash, a token for the request that issued
it. `PUT` and `DELETE` of the OpenAI credential are threads that read the row and commit later
(`PutRead`, `PutInsert`, `PutUpdate`, `DeleteRead`, `DeleteCommit`); `Updated` writes only the columns
that differ from what the thread has read. The worker looks the credential up for each record
(`LookUp`), so it may change under a queued task. `last`, `crossed` and `missed` are history
variables: what the last write was meant to leave, whether writes of one owner have crossed, and
whether the credential has been switched on, or off, since each thread read it.

## What the runs show

Passing runs:

| Run | Instance | Shows |
|---|---|---|
| `redelivery` | a single task, an upload of two valid records and an invalid one, an ill-formed task, an upload without a valid record; two workers; two crashes; a top-up; reliable publish | With one consumer of a message at a time: charge and result agree, records add up and a batch with fewer predictions than records says so, an open task is in somebody's hands whatever crashes, a completed one is final, and the pipeline implements `TaskLifecycle`. |
| `overlap` | the upload, two workers, a crash, a delivery taken back, unreliable publish; fairness | With two consumers of one message: the balance stays within the ledger, each charge comes with its result in one step, there are no more charges than deliveries, and a queued task is settled for good under any one fault. |
| `moderation` | two administrators on one account of their own, a user, a worker; two requests, a grant, two charges | No amount is credited twice, none without an approval, no balance is overdrawn, whatever crosses. |
| `startup` | the application and a worker on an empty database, two demo users, a legacy and two local models, two administrators, a crash; fairness | Who serves has a complete database; marker and credit go together; one local model is active until activations cross; starts keep the administrator's choice; one of the racing processes comes up, and a later start always does. |
| `scan_upload` | 29 uploads: single files and archives of up to four files, each with one thing in it that the parser treats differently; ten answers of the runtime; a crash | Every record is accepted or rejected as the uploaded values say, under one number; the breakdown by file adds up; the report has each prediction next to its record and accounts for all records; a batch is given its worst priority and a mean of probabilities; a report never changes. |
| `accounts` | two accounts, one typed in two ways, two registrations or logins, two requests about credentials, a worker | A token opens its own account; the credential is what was asked last, and OpenAI is called with a key and a name that were submitted together, until writes of one owner cross; a PUT that found the credential enabled never undoes a DELETE: who undoes one found it disabled, after the last DELETE or before another PUT and its DELETE. |
| `client_session` | two users and an administrator in turns in one tab, two calls at a time, one lost request; fairness | Until a call is overtaken, the page shows the session it sends and its own data; a session shown after its end vanishes. |
| `client_polling` | one user, two uploads, two calls at a time, a task that is reopened; fairness | Until a call is overtaken, tasks are polled in their owner's session only; the polling started last is reported; all polling ends after a logout. |

Runs that end in a counterexample are under [Where the code and its tests
disagree](#where-the-code-and-its-tests-disagree).

Some facts learnt on the way, which the properties reflect:

* `QueuedIsSettled` allows for one fault only. With two, a worker that lost its delivery may write
  PROCESSING over the other's completed row and die before it completes: the message is gone and
  the task stays in processing.
* `CompletedIsFinal` and `OpenIsInHand` need `SoleConsumer` for the same reason.
* Two losses leave an open task in nobody's hands, and nothing looks for either: the request thread
  dies between the commit of the task and its publication, or the broker loses a message that was
  sent without confirms. `OpenIsInHand` names them; there is no third.
* A batch whose records were all processed is marked as partial if the completion was refused for
  lack of credits and a top-up arrives before the handler completes it again (`worker.py:233`).
* Two approvals of one top-up that cross are both answered 200; the amount is credited once,
  because the second writes the same sum over the first.
* In the cabinet nothing cancels a call. After a logout that overtakes a refresh, `state.user` is
  set and the cabinet rendered again without a token until the next answers (`GhostVanishes`), or,
  if somebody else has logged in meanwhile, next to the token of the other; `renderAdmin` shows the
  studio on the guest page; and `hydrateSession`, overtaken in the same way, renders a session that
  stays until the next click. The safety properties of `WebClient` therefore hold as long as no call
  has been overtaken (`Undisturbed`).
* A polling that starts while another one waits for its answer does not stop it; both go on, and
  `state.pollTimer` names the timer of one. Two uploads that cross may start polling in the opposite
  order: `PolledIsReported` speaks of the polling started last, not of the last upload.
* The prediction status is not cleared by a logout; the next user of the tab sees it.
* The check of the balance at submission reserves nothing: several tasks may be accepted for the
  same credits, and those that complete last fail.
* An approval and a rejection of one top-up that cross are both answered 200; the later commit wins
  the status, and the credit stays. `RejectedIsNotCredited` is therefore proved for one
  administrator's request at a time only. Two processes that start together may both credit a demo
  user, the second over the first: the seed marker is there twice, the amount once or twice.
* An archive with one damaged member is refused as a whole, with 500, if the damage is a wrong
  checksum or a table that `csv.reader` stops at; any other damage skips the member. A record with a
  NaN in a key of its own passes validation and is refused by PostgreSQL when the task is stored; in
  a rejected record the NaN has become null by then.
* A runtime may answer a confidence of NaN, which is neither below 0 nor above 1 and passes. The
  predictions of the batch can then not be stored, and the task fails.
* A PUT and a DELETE of one credential that cross may leave it disabled although the PUT was
  answered 200, because a session does not write a column that it need not change; two PUTs that
  cross may leave the key of one next to the model name of the other. `CredentialAsAsked` and
  `CallsAsSubmitted` hold until then. `test_task10_runtime.py:160` has the sequential case.
* A DELETE can be undone by a PUT that was under way before it, if three requests cross: the first
  PUT finds the credential disabled, a second one enables it, the DELETE disables it again, and the
  first PUT, which must change what it has read, commits last (`services.py:625`). With one PUT and
  one DELETE it cannot: that PUT found the credential enabled and writes nothing over `is_enabled`.
  `RevocationHolds` says both: `"off" \in missed[h]` without `"on"` is the case that must not be.
* Two registrations of one e-mail that cross: one is answered 500, by the constraint.

## Bounds and fairness

`MaxTopUps`, `MaxCrashes` and `MaxRequeues` bound how often the environment acts. One top-up is
enough to cross a charge once; a crash reaches every line of `process_delivery` at which a worker
can die, with the redelivery after it, and `redelivery` allows two; one delivery taken back puts two workers on one task. Two
workers are what the compose file starts, and one message can be held by at most one worker more
than there were deliveries taken back. In `redelivery` the balance of two and the price of one make an
upload of two records and a single task compete for the same credits, so insufficient balance
happens at the charge; `overlap` has credits for two uploads, so that a second charge for one task
is possible and a third, from crossing reads, is not refused by the balance alone. In `startup` one process fewer than the compose file starts is enough for every race over a
row, because a race has one winner, and one crash reaches every place between two commits.

`redelivery` and `moderation` use the symmetry of the workers or the administrators, which no
constant tells apart; runs with liveness properties use none.

`TaskPipeline!Fairness` is weak fairness of each request thread and each worker: all calls they
wait for have timeouts (database, RabbitMQ, HTTP clients), so a running thread always takes its
next step. Submitting, top-ups, crashes and restarts are not fair: nobody has to do them, and
nothing restarts a process. `Startup!Fairness` is weak fairness of the steps of
`initialize_database`, which never wait for another process. `WebClient!Fairness` says that requests
are answered or fail, that functions go on and timers fire, and that an open task is settled, which
is what `QueuedIsSettled` shows of the pipeline; clicks, reloads and lost requests are not fair.

Two flows in `WebClient` are enough to cross any two calls, because a call overtakes or is
overtaken one at a time; one lost request puts an error at every `await`.

`scan_upload` has each way in which a file, an entry or a record can be wrong at least once, most of
them between sound ones, so that whatever is counted or numbered wrongly shows in the next; three
accepted records are enough for a prediction that fails first, in the middle or last. In `accounts`
two requests of a kind are enough for any race of a read with a commit.

The task queue, an upload, the requests about accounts and the moderation may come to rest when
every task is settled and every top-up is decided; those runs do not check for deadlock. `startup`
and the runs of the cabinet do.

## What is proved

All theorems are for any sets of users, tasks, workers and administrators, any prices and amounts
and any bounds; the assumptions on constants are named in the modules.

Every safety invariant and every action property that a passing run checks is a theorem; what is
left to the model checker is liveness.

**TaskPipelineProofs.** For every broker behaviour:

* `TypeInv` is inductive. `LedgerInv` (every balance *and every balance that some worker or
  administrator has read* is within the ledger) gives `BalanceStaysWithinLedger`.
* `CountInv` (a completion has at least one prediction and at most as many as records) and
  `CompletionInv` (a completed task has a result, and whoever is about to complete read a task that
  was not) give `ChargeStaysWithResult`.
* `BudgetInv` gives `ChargesStayWithinDeliveries`. It counts, for each task, the full charges it can
  still come to: those made, the workers at work on it (`Working`, a set whose cardinality the proof
  follows) and the one that a waiting message can put to work (`Token`); a requeue or a crash adds
  one, a delivery turns the token into a worker, a commit turns a worker into a charge. None of the
  early returns is needed for this bound.
* `FreeInv` (whoever works on a task has its message from the queue) gives `RefusedStaysFree` from
  `ReliablePublish` alone: the run `refused` shows that without it the property fails.

Under `SoleConsumer`: `DeliveryInv` (a message is held by the one worker whose job it is, what that
worker read of task and result is what the tables hold, charge and result agree, and exactly the
completed tasks have results) gives `ChargedOnce`, `ResultsAreCompleted`, `ReadsStayCurrent`; none of
these is inductive alone, because the commit writes what was read and tests nothing. With
`DeliveryInv` each step maps to a step or a stutter of `TaskLifecycle`
(`PipelineImplementsLifecycle`), completed tasks never change (`CompletedStaysFinal`), acknowledged
ones are settled (`AckedStaysSettled`, with `SettleInv`: a worker that is about to acknowledge has
settled its task), and `RecordsInv` (the rejected count in the payload and in the worker) gives
`RecordsAddUp` and with it `ChargedAtMostOnceEach`. `UnsentInv` (a request that ended without a
message has failed its task) gives, with `AckedIsSettled`, `OpenStaysInHand`.

Two theorems say when no update of a balance is lost, the property that the run `lost_update`
breaks. `ExactInv` (what a worker is about to charge is the balance that is there) is inductive if no
two workers are at work for one user and there are no top-ups: with one worker, whatever is
delivered again (`OneWorkerKeepsLedger`), or with a sole consumer of each message and no two tasks
of one user (`OneTaskEachKeepsLedger`). The compose file starts two workers and users submit what
they like, so these are conditions on a deployment, not facts about this one.

**TopUpModerationProofs.** `CreditInv` says why no amount is credited twice although approvals
cross: a session that read a request as pending has read a balance without its amount. It gives
`NeverCreditedTwice` and `CreditNeedsApproval` for any number of administrators. With one
administrator's request at a time (`SoleInv`), `RejectionCostsNothing`, `ApprovalIsSingle` and
`DecisionsStand` follow; the second and the third are not run separately. `BalancesStaySolvent` holds
however sessions cross, by `SolventInv`: not only are the balances not negative but also those that
sessions have read, and a session that will charge has read enough. A balance is a sum over the rows
of a table, so the proof first shows that the recursive sum has a value for every finite table and
what adding one entry, once or once more, changes of it (`SumExists`, `SumChanges`); that
`Entries` is finite is `FiniteAssumption`, because a table is.

**StartupProofs.** `SeedInv` (what a process has passed on its way through the loops stays in the
database; a marker implies the user and the credit) gives `ServesSeeded`; with `WorthInv` (balances,
and balances that were read, are worth at most their markers) it gives `MarkersMeanCredit`.
`ActiveInv` (until requests cross: the local rows are as seeded or have exactly one active model,
sessions have read what the table holds, and nothing is reset) gives `OneIsActive` and
`StartsKeepChoice`.

**ScanReportProofs.** For any set of uploads and answers. `ParserTypeInv` types the parser.
`RecordsAreNumberedOnce` is inductive with it. `FilesInv` (the rows so far are of files up to the
one at hand, whose two counters are the numbers of its rows) gives `FilesAlwaysAddUp`; it rests on a
lemma about the cardinality of a filtered sequence. `ReportInv` (what the worker has predicted, and
what is stored, is a prefix of the accepted rows, and the counts of a result are those of the
stored predictions) gives `ReportsMatchUploads` and `ReportsAreFinal`. `AcceptsTheAcceptable` is about
no state: the normalization and the validators of a record, in their order and after Semgrep's rules
or without them, accept a record exactly if none of its uploaded values is in a table of refused ones
(`Refused`), which is written field by field and uses neither `Normalize` nor `Valid`;
`ReadableIsLoaded` does the same for `Load`. `BehindInv` (the rows of both lists are exactly the records behind
the loops, each in the list it belongs in, and the counter is how many they are) gives
`ParsedAsItIsDefined`, by counting the records before a given one. `WorstInv` (a stored result
bounds its predictions) gives `BatchesAreTheirWorst` and the last conjuncts of `ScanTypeCorrect`; it
rests on what the highest priority and the sum of probabilities are for every number of predictions.

**SetInduction.** The library's induction theorems take the predicate as an operator, which the
installed provers cannot instantiate. Here a predicate is the set of what it holds of:
`NumbersByInduction` (a set with 0 and every successor has all numbers) and `PartsByInduction` (a
family that has a part of a finite set whenever it has that part less any one element has them all),
both from the library's minimal element of a well-founded relation (`WFMin`). A recursive function
is first shown to exist, by induction, before its equations are used.

**AccountsProofs.** For any accounts, requests and threads. `TypeInv` adds to the types that a thread
which has read a row finds one when it commits, since rows are never removed. The unique constraint
gives `TokensOpenOwnAccount` and `RegistrationsAreSingle`. `CredentialsAsAsked` needs that a thread
whose read has not been overtaken holds the row of the table, `CallsStayAsSubmitted` that such a row
is one submission. `MissedInv` (a thread that has missed no switch to on, of a credential that has
been on since, found it enabled) gives `RevocationStands`, however writes cross.

**WebClientProofs.** For any users, tasks and concurrent calls. The types (`TypeInv`) need that no two
calls are about one task and that what is polled, or will be when a refresh is over, is a task at
the server; they hold whatever is overtaken, and give `ClientTypeCorrect`. Until a call is overtaken
(`Undisturbed`), `Own` says that whatever waits belongs to the session that is shown: each request
went out with its token, the answers that fill a panel are for its role, what is polled is its
owner's, `state.pollTimer` names the only timer, and at most one polling goes on. `Own` is inductive
because a step after which nothing is overtaken has not changed the session under a waiting call,
nor started a second polling beside one. It gives `ShownSessionIsTheTokens`,
`ShownTablesAreTheTokens` and `PollingIsTheOwners`.

Only model-checked: liveness (`QueuedIsSettled`, `SomeoneComesUp`, `RestartComesUp`,
`PolledIsReported`, `LoggedOutStopsPolling`, `GhostVanishes`), because fairness is about what is
enabled and ENABLED is out of the prover's reach.

## Where the code and its tests disagree

Each of these runs checks one property, stated from a test or a message of the repository, which
the code violates when two actors cross.

| Run | Property | What happens |
|---|---|---|
| `double_charge` | `ChargedAtMostOnce` | A delivery is taken back from a live worker. The second worker's start has read the task before the first one committed anything, and writes PROCESSING over the row that the first one has completed meanwhile (`services.py:777`). So `complete_task` finds a task that is not completed, with a result: it updates that row, which meets no constraint, and charges again. (Two workers that are both between the test of `complete_task` and its commit do no such harm: the second inserts a second result, and the unique constraint rolls its charge back, `CompleteRollback`.) |
| `refused` | `RefusedIsNotCharged` | `connection.close()` raises after the message was sent: the user reads 503, the task is processed and charged. |
| `lost_update` | `LedgerMatchesBalance` | A top-up and a charge cross; one of them is missing from the balance although both are in `transactions`. |
| `startup_single_active` | `SingleActive` | Two activations cross. The second compares the chosen row with what it read before the pull, does not write it, and switches the other model off: no local model is active. |

## What is not modelled

* Inference with scikit-learn (`inference.py`): the model is trained when the module is imported and
  only warmed up by the worker. Of listing and pulling models from Ollama `ModelCatalog` has the
  outcome.
* Histories and transaction listings, the catalog's read-only routes, and the layout of the HTML
  report: reads without a rule of their own. `Detail` in `ScanReport` has what a task's detail and
  report say of an upload.
* `process_task` and `record_prediction` in `services.py`, which only tests call.
* Of records: the texts of validation errors, and the characters of a file.
* Of the web cabinet: what the tables say of each task (only whose they are), form fields, report
  buttons (they change no state), and a second tab on the same `localStorage`.
* Malformed message bodies (`worker.py:38-70`): the application publishes none.
* The price of a model is a constant of its task: nothing but a redeployment with other seeds
  changes `cost_per_prediction`.
* Retries of `wait_for_database` and of the RabbitMQ connection: they end in a start or in the end
  of the process, which `Start` and `Crash` cover.
* Configuration, error classes and wiring: no state.

## Plan

1. A second tab of the cabinet on the same `localStorage`, and the tables it shows as versions of
   the server's state, so that the order in which answers arrive can be told.
2. The composition of `TaskPipeline` with `Accounts`: a task for the OpenAI model that is priced and
   charged while its credential is revoked between two records.
3. Proofs: sharper conditions for what the runs refute, such as which crossings of top-ups and charges
   keep `LedgerMatchesBalance`, and which activations keep `SingleActive`.
