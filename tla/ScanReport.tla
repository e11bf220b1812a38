----------------------------- MODULE ScanReport -----------------------------
(***************************************************************************)
(* What becomes of the records of one upload: the parser numbers them, the *)
(* task keeps them, a worker predicts the accepted ones one after the      *)
(* other, and the client reads the predictions next to the records that    *)
(* were rejected (routers/predictions.py, worker.py, serializers.py,       *)
(* reporting.py).                                                          *)
(*                                                                         *)
(* TaskPipeline has the queue, the money and the workers that cross; here  *)
(* the message is delivered until it is acknowledged, to one worker at a   *)
(* time, and a charge succeeds or not.                                     *)
(***************************************************************************)
EXTENDS ScanParser, ModelRuntime, FiniteSets

CONSTANTS
    Client,      \* the runtime of the task's model, one of Clients
    Replies,     \* the answers of the runtime considered
    NoResult,
    MaxCrashes   \* bound: crashes of the worker

(* One of processed_predictions, and the row of prediction_results.  The   *)
(* confidence of a batch is the mean: its sum is kept instead.             *)
Item   == [index : Nat, priority : Priorities, confidence : Confidences]
Result == [priority : Priorities, confidence : Int \cup {NaN},
           processed : Nat, rejected : Nat]

ASSUME ReplyAssumption ==
    /\ Client \in Clients /\ Replies \subseteq Reply
    /\ NoResult \notin Result
    /\ MaxCrashes \in Nat

VARIABLES
    status,     \* of the task in ml_tasks
    partial,    \* error_message is that of a batch that stopped early
    items,      \* processed_predictions in the task's payload
    result,     \* the row of prediction_results
    pc,         \* where the worker is with the message
    predicted,  \* the worker's processed_predictions
    crashes

taskVars == <<status, partial, items, result>>
vars     == <<parserVars, status, partial, items, result, pc, predicted, crashes>>

TypeOK ==
    /\ ParserTypeOK
    /\ status \in {"absent", "created", "processing", "completed", "failed"}
    /\ partial \in BOOLEAN
    /\ items \in Seq(Item) /\ predicted \in Seq(Item)
    /\ result \in Result \cup {NoResult}
    /\ pc \in {"none", "queued", "predict", "complete", "salvage", "fail", "ack", "acked"}
    /\ crashes \in 0..MaxCrashes

Init ==
    /\ ParserInit
    /\ status = "absent" /\ partial = FALSE
    /\ items = <<>> /\ result = NoResult
    /\ pc = "none" /\ predicted = <<>>
    /\ crashes = 0

-----------------------------------------------------------------------------
(* The request.                                                            *)

Parse == ParserStep /\ UNCHANGED <<taskVars, pc, predicted, crashes>>

RecordAt(row) == RecordsOf(upload.files[row.file])[row.pos]

(* PostgreSQL's JSON has no NaN: the payload must do without.  A rejected  *)
(* record goes through model_dump(mode="json"), which makes null of it.    *)
Storable == \A i \in DOMAIN accepted : RecordAt(accepted[i]).finite

(* create_queued_task; a message if there is a record to predict.  A task  *)
(* without one is failed next.                                             *)
CreateTask ==
    /\ phase = "parsed" /\ status = "absent"
    /\ Storable
    /\ status' = "created"
    /\ pc' = IF accepted # <<>> THEN "queued" ELSE "none"
    /\ UNCHANGED <<parserVars, partial, items, result, predicted, crashes>>

CreateDies ==
    /\ phase = "parsed" /\ status = "absent"
    /\ ~Storable
    /\ Stop("died")
    /\ UNCHANGED <<taskVars, pc, predicted, crashes>>

FailEmpty ==
    /\ status = "created" /\ accepted = <<>>
    /\ status' = "failed"
    /\ UNCHANGED <<parserVars, partial, items, result, pc, predicted, crashes>>

-----------------------------------------------------------------------------
(* The worker.                                                             *)

AlreadyCompleted == status = "completed" /\ result # NoResult

(* Mutant: no early return for a completed task.                           *)
StartBatch_Restarts ==
    /\ pc = "queued"
    /\ status' = "processing" /\ partial' = FALSE
    /\ pc' = "predict"
    /\ predicted' = <<>>
    /\ UNCHANGED <<parserVars, items, result, crashes>>

(* start_batch_task_processing.                                            *)
StartBatch ==
    /\ pc = "queued"
    /\ ~AlreadyCompleted
    /\ status' = "processing" /\ partial' = FALSE
    /\ pc' = "predict"
    /\ predicted' = <<>>
    /\ UNCHANGED <<parserVars, items, result, crashes>>

SkipCompleted ==
    /\ pc = "queued"
    /\ AlreadyCompleted
    /\ pc' = "ack"
    /\ UNCHANGED <<parserVars, taskVars, predicted, crashes>>

(* The next record of the message, and what the runtime answers.  Without  *)
(* the user's credential there is no call, which is one more failure.      *)
PredictRecord ==
    /\ pc = "predict"
    /\ \E r \in Replies :
          /\ Predicts(Client, r)
          /\ predicted' = Append(predicted,
                 [index |-> accepted[Len(predicted) + 1].index,
                  priority |-> r.priority, confidence |-> r.confidence])
    /\ pc' = IF Len(predicted) + 1 = Len(accepted) THEN "complete" ELSE "predict"
    /\ UNCHANGED <<parserVars, taskVars, crashes>>

(* The exception handler: a batch with a prediction is completed with what *)
(* it has, any other is failed.                                            *)
Handler == IF predicted # <<>> THEN "salvage" ELSE "fail"

PredictRaises ==
    /\ pc = "predict"
    /\ \E r \in Replies : ~Predicts(Client, r)
    /\ pc' = Handler
    /\ UNCHANGED <<parserVars, taskVars, predicted, crashes>>

Score(p) == CASE p = "low" -> 25 [] p = "medium" -> 55 [] p = "high" -> 85

(* Mutant: the priority of the first record.                               *)
PriorityForBatch_First(list) == list[1].priority

PriorityForBatch(list) ==
    CHOOSE p \in {list[i].priority : i \in DOMAIN list} :
        \A i \in DOMAIN list : Score(list[i].priority) <= Score(p)

Plus(x, y) == IF x = NaN \/ y = NaN THEN NaN ELSE x + y

SumOfConfidences(list) ==
    LET sum[n \in 0..Len(list)] ==
            IF n = 0 THEN 0 ELSE Plus(sum[n - 1], list[n].confidence)
    IN  sum[Len(list)]

Unprocessed == Len(accepted) - Len(predicted)

(* Can processed_predictions be stored?                                    *)
Completable == \A i \in DOMAIN predicted : predicted[i].confidence # NaN

Complete(rejected, early) ==
    /\ Completable
    /\ status' = "completed"
    /\ partial' = early
    /\ items' = predicted
    /\ result' = [priority |-> PriorityForBatch(predicted),
                  confidence |-> SumOfConfidences(predicted),
                  processed |-> Len(predicted), rejected |-> rejected]
    /\ pc' = "ack"
    /\ UNCHANGED <<parserVars, predicted, crashes>>

CompleteBatch == pc = "complete" /\ Complete(Len(invalid), FALSE)

(* The charge is refused, or the predictions cannot be stored.             *)
CompleteRaises ==
    /\ pc = "complete"
    /\ pc' = Handler
    /\ UNCHANGED <<parserVars, taskVars, predicted, crashes>>

(* Mutant: the records that were not reached are not counted.              *)
Salvage_NoUnprocessed == pc = "salvage" /\ Complete(Len(invalid), TRUE)

Salvage == pc = "salvage" /\ Complete(Len(invalid) + Unprocessed, TRUE)

SalvageRaises ==
    /\ pc = "salvage"
    /\ pc' = "fail"
    /\ UNCHANGED <<parserVars, taskVars, predicted, crashes>>

FailTask ==
    /\ pc = "fail"
    /\ status' = "failed" /\ partial' = FALSE
    /\ pc' = "ack"
    /\ UNCHANGED <<parserVars, items, result, predicted, crashes>>

Ack ==
    /\ pc = "ack"
    /\ pc' = "acked"
    /\ UNCHANGED <<parserVars, taskVars, predicted, crashes>>

(* The worker dies; the message is delivered again.                        *)
Crash ==
    /\ crashes < MaxCrashes
    /\ pc \in {"predict", "complete", "salvage", "fail", "ack"}
    /\ pc' = "queued"
    /\ crashes' = crashes + 1
    /\ UNCHANGED <<parserVars, taskVars, predicted>>

WorkerStep ==
    \/ StartBatch \/ SkipCompleted
    \/ PredictRecord \/ PredictRaises
    \/ CompleteBatch \/ CompleteRaises \/ Salvage \/ SalvageRaises
    \/ FailTask \/ Ack

Next == Parse \/ CreateTask \/ CreateDies \/ FailEmpty \/ WorkerStep \/ Crash

Spec == Init /\ [][Next]_vars

-----------------------------------------------------------------------------
(* What the client reads (serialize_prediction_task_detail), and from it   *)
(* the report, which is there for completed tasks only.  An optional       *)
(* number is a set of at most one.                                         *)
Detail == [accepted  |-> Len(accepted),
           processed |-> IF result = NoResult THEN {} ELSE {result.processed},
           rejected  |-> IF result = NoResult THEN Len(invalid) ELSE result.rejected,
           rows      |-> items,
           invalid   |-> invalid]

ReportAvailable == status = "completed" /\ result # NoResult

-----------------------------------------------------------------------------
(* What an upload says of its own records, without the parser: the values, *)
(* as they are uploaded, that make a field of a finding wrong.  Text with  *)
(* nothing in it is as good as no value where there need not be one.       *)
Refused(k) ==
    CASE k \in {"scanner_name", "finding_type"} -> {"absent", "null", "blank", "bad"}
      [] k = "severity_reported" -> {"absent", "null", "blank", "semgrep", "bad"}
      [] k \in {"cvss_score", "port", "description_length"} -> {"semgrep", "bad"}
      [] k = "asset_type" -> {"bad"}
      [] k = "has_cve" -> {"null", "semgrep", "bad"}
      [] k = "semgrep_path" -> {}

Acceptable(r, read) == r.object /\ \A k \in read : r.field[k] \notin Refused(k)

(* The fields that decide about a record of f.  In a result of Semgrep the *)
(* others are written by the parser.                                       *)
Decisive(f) == IF Format(f) = "json" /\ f.shape = "results"
               THEN {"cvss_score", "port"} ELSE Fields

(* JSON must be one of three things; any text with a first line is a table.*)
Readable(f) ==
    /\ InArchive => f.safe
    /\ \/ Format(f) = "json" /\ f.shape \in {"list", "findings", "results"}
       \/ /\ Format(f) = "csv"
          /\ f.shape \in {"table", "text", "list", "findings", "results", "object", "deep"}

RecordsIn(f) == IF Readable(upload.files[f])
                THEN {f} \X (1..Len(upload.files[f].records)) ELSE {}

AllRecords == UNION {RecordsIn(f) : f \in DOMAIN upload.files}

Precedes(q, p) == q[1] < p[1] \/ (q[1] = p[1] /\ q[2] < p[2])

Numbered(p) == [index |-> Cardinality({q \in AllRecords : Precedes(q, p)}),
                file |-> p[1], pos |-> p[2]]

IsAcceptable(p) ==
    LET f == upload.files[p[1]] IN Acceptable(f.records[p[2]], Decisive(f))

RowSet(rows) == {rows[i] : i \in DOMAIN rows}

(* What is uploaded decides alone where a record ends up: each record of   *)
(* each readable file is in one of the two lists, the one it belongs in,   *)
(* under its number in the whole upload.  The parser gets there through    *)
(* readers, Semgrep's rules, _normalize_empty_values, the validators and   *)
(* two loops with continue statements and counters; nothing of theirs is   *)
(* in the definitions above but the detection of a file's format.          *)
ParsedAsDefined ==
    phase = "parsed" =>
        /\ RowSet(accepted) = {Numbered(p) : p \in {q \in AllRecords : IsAcceptable(q)}}
        /\ RowSet(invalid) = {Numbered(p) : p \in {q \in AllRecords : ~IsAcceptable(q)}}

CountIn(rows, f) == Cardinality({i \in DOMAIN rows : rows[i].file = f})

SourceFiles == {sources[i].file : i \in DOMAIN sources}

(* The file breakdown of the report: a file is in the breakdown or among   *)
(* the skipped ones, once, and its two numbers are those of its records in *)
(* the two lists.                                                          *)
FilesAddUp ==
    /\ \A i \in DOMAIN sources :
          /\ sources[i].ok = CountIn(accepted, sources[i].file)
          /\ sources[i].bad = CountIn(invalid, sources[i].file)
    /\ Len(sources) + Len(skipped) = at
    /\ SourceFiles \cup {skipped[i] : i \in DOMAIN skipped} = 1..at

(* The report and the detail of a completed upload: the predictions are    *)
(* those of the first accepted records, each under the number of its       *)
(* record, which no rejected record has; the two counts add up to the      *)
(* records of the upload, and predictions are missing only if the task     *)
(* says that it stopped early.                                             *)
ReportMatchesUpload ==
    ReportAvailable =>
        /\ Len(Detail.rows) <= Len(accepted)
        /\ \A i \in DOMAIN Detail.rows : Detail.rows[i].index = accepted[i].index
        /\ \A i \in DOMAIN Detail.rows, j \in DOMAIN invalid :
              Detail.rows[i].index # invalid[j].index
        /\ Detail.processed = {Len(Detail.rows)}
        /\ Len(Detail.rows) + Detail.rejected = Len(accepted) + Len(invalid)
        /\ Len(Detail.rows) < Len(accepted) => partial

(* What a batch as a whole is given is no better than its worst finding    *)
(* and a mean of probabilities, although the runtime may answer anything.  *)
BatchIsItsWorst ==
    ReportAvailable =>
        /\ \E i \in DOMAIN items : items[i].priority = result.priority
        /\ \A i \in DOMAIN items :
              /\ result.priority = "low" => items[i].priority = "low"
              /\ result.priority = "medium" => items[i].priority # "high"
        /\ result.confidence \in 0..(100 * Len(items))

(* A report that could be read once is the same ever after, whatever is    *)
(* delivered again.                                                        *)
ReportIsFinal == [][ReportAvailable => ReportAvailable' /\ UNCHANGED <<Detail, result>>]_vars
=============================================================================
