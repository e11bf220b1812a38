-------------------------- MODULE ScanReportProofs --------------------------
(***************************************************************************)
(* Proofs about ScanParser and ScanReport, for uploads of any size and any *)
(* number of crashes.                                                      *)
(***************************************************************************)
EXTENDS ScanReport, SetInduction, SequenceTheorems, FiniteSetTheorems, TLAPS

-----------------------------------------------------------------------------
(* Types of the parser.                                                    *)

(* Every record of a file is looked at: a result of Semgrep is normalized  *)
(* to one record.                                                          *)
LEMMA RecordsOfType ==
    ASSUME NEW f \in File
    PROVE  /\ Len(RecordsOf(f)) \in Nat
           /\ Len(RecordsOf(f)) = Len(f.records)
<1>1. f.records \in Seq(Record) /\ Len(f.records) \in Nat
  BY DEF File
<1>2. CASE RecordsOf(f) = f.records
  BY <1>1, <1>2
<1>3. CASE RecordsOf(f) = [i \in 1..Len(f.records) |-> SemgrepRecord(f.records[i])]
  <2> DEFINE S == {SemgrepRecord(f.records[i]) : i \in 1..Len(f.records)}
  <2>1. RecordsOf(f) \in [1..Len(f.records) -> S]
    BY <1>3
  <2>2. RecordsOf(f) \in Seq(S)
    BY <1>1, <2>1, SeqDef
  <2>3. DOMAIN RecordsOf(f) = 1..Len(RecordsOf(f)) /\ Len(RecordsOf(f)) \in Nat
    BY <2>2, LenProperties
  <2>4. 1..Len(RecordsOf(f)) = 1..Len(f.records)
    BY <2>1, <2>3
  <2> HIDE DEF S
  <2> QED
    BY <1>1, <2>3, <2>4
<1> QED
  BY <1>2, <1>3 DEF RecordsOf

LEMMA UploadType ==
    ASSUME ParserTypeOK
    PROVE  /\ upload \in Upload /\ upload.files \in Seq(File) /\ Len(upload.files) \in Nat
           /\ at < Len(upload.files) => Current \in File /\ Current.size \in Nat
<1>1. upload \in Upload
  BY UploadAssumption DEF ParserTypeOK
<1>2. upload.files \in Seq(File) /\ Len(upload.files) \in Nat
  BY <1>1 DEF Upload
<1>3. ASSUME at < Len(upload.files) PROVE Current \in File
  BY <1>2, <1>3 DEF ParserTypeOK, Current
<1> QED
  BY <1>1, <1>2, <1>3 DEF File

(* Before the upload is opened nothing has been counted.                   *)
Fresh == phase = "received" => at = 0 /\ next = 0 /\ size = 0

ParserTypeInv == ParserTypeOK /\ Fresh

(* A single file is an upload of one.                                      *)
LEMMA SingleFile ==
    ASSUME ParserTypeOK, ~Unusable, ~InArchive
    PROVE  Len(upload.files) = 1
<1>1. Format(upload) \in {"json", "csv"}
  BY DEF Unusable, InArchive, Format
<1> QED
  BY <1>1, UploadAssumption DEF ParserTypeOK

LEMMA ParserInitType == ParserInit => ParserTypeInv
BY UploadAssumption DEF ParserInit, ParserTypeInv, ParserTypeOK, Fresh, Upload

LEMMA StopType ==
    ASSUME ParserTypeInv, NEW how \in {"parsed", "refused", "died"}, Stop(how)
    PROVE  ParserTypeInv'
BY DEF Stop, results, ParserTypeInv, ParserTypeOK, Fresh

LEMMA SkipType ==
    ASSUME ParserTypeInv, AtEntry, Skip, size' \in Nat
    PROVE  ParserTypeInv'
<1>1. Len(upload.files) \in Nat
  BY UploadType DEF ParserTypeInv
<1>2. skipped' \in Seq(Nat)
  BY DEF Skip, ParserTypeInv, ParserTypeOK
<1> QED
  BY <1>1, <1>2 DEF AtEntry, Skip, results, ParserTypeInv, ParserTypeOK, Fresh

(* A record more in one of the two lists.                                  *)
LEMMA RecordType ==
    ASSUME ParserTypeInv, AtRecord,
           accepted' \in Seq(Row), invalid' \in Seq(Row), okHere' \in Nat, badHere' \in Nat,
           index' = index + 1, next' = next + 1,
           UNCHANGED <<upload, phase, at, size, sources, skipped>>
    PROVE  ParserTypeInv'
<1>1. Len(RecordsOf(Current)) \in Nat /\ RecordsOf(Current)' = RecordsOf(Current)
  BY UploadType, RecordsOfType DEF ParserTypeInv, ParserTypeOK, AtRecord, Current
<1>2. ParserTypeOK'
  BY <1>1 DEF ParserTypeInv, ParserTypeOK, AtRecord
<1> QED
  BY <1>2 DEF AtRecord, ParserTypeInv, Fresh

LEMMA NewRowType == ASSUME ParserTypeInv, AtRecord PROVE NewRow \in Row
BY DEF ParserTypeInv, ParserTypeOK, NewRow, Row, AtRecord

LEMMA ParserTypeStep ==
    ASSUME ParserTypeInv, ParserStep
    PROVE  ParserTypeInv'
<1>1. CASE RefuseUpload \/ LoadDies \/ TooLarge \/ EntryDies \/ Finish
  BY <1>1, StopType DEF RefuseUpload, LoadDies, TooLarge, EntryDies, Finish
<1>2. CASE Open
  <2>1. at = 0 /\ next = 0 /\ Len(upload.files) \in Nat
    BY <1>2, UploadType DEF Open, ParserTypeInv, Fresh
  <2>2. UNCHANGED <<upload, at, next, size, results, sources, skipped>> /\ phase' \in {"files", "records"}
    BY <1>2 DEF Open
  <2>3. phase' = "records" => Len(upload.files) = 1
    BY <1>2, SingleFile DEF Open, ParserTypeInv
  <2>4. phase' = "records" => 0 <= Len(RecordsOf(Current)) /\ RecordsOf(Current)' = RecordsOf(Current)
    BY <2>1, <2>2, <2>3, UploadType, RecordsOfType DEF ParserTypeInv, Current
  <2>5. phase' = "records" => at' < Len(upload'.files) /\ next' <= Len(RecordsOf(Current)')
    BY <2>1, <2>2, <2>3, <2>4
  <2>6. UNCHANGED <<upload, at, next, size, index, accepted, invalid, okHere, badHere,
                    sources, skipped>>
    BY <2>2 DEF results
  <2>7. ParserTypeOK'
    BY <2>2, <2>5, <2>6 DEF ParserTypeInv, ParserTypeOK
  <2> QED
    BY <2>2, <2>7 DEF ParserTypeInv, Fresh
<1>3. CASE SkipUnsafe
  BY <1>3, SkipType DEF SkipUnsafe, ParserTypeInv, ParserTypeOK
<1>4. CASE SkipUnreadable
  <2>1. AtEntry /\ Skip /\ size' = size + Current.size /\ at < Len(upload.files)
    BY <1>4 DEF SkipUnreadable, Fits, AtEntry
  <2> QED
    BY <2>1, UploadType, SkipType DEF ParserTypeInv, ParserTypeOK
<1>5. CASE BeginFile
  <2>1. at < Len(upload.files)
    BY <1>5 DEF BeginFile, Fits, AtEntry
  <2>2. /\ Current.size \in Nat /\ 0 <= Len(RecordsOf(Current))
        /\ RecordsOf(Current)' = RecordsOf(Current)
    BY <1>5, <2>1, UploadType, RecordsOfType DEF BeginFile, ParserTypeInv, Current
  <2> QED
    BY <1>5, <2>1, <2>2 DEF BeginFile, ParserTypeInv, ParserTypeOK, Fresh
<1>6. CASE AcceptRecord
  <2>1. AtRecord /\ accepted' = Append(accepted, NewRow) /\ okHere' = okHere + 1
    BY <1>6 DEF AcceptRecord
  <2> QED
    BY <1>6, <2>1, NewRowType, RecordType DEF AcceptRecord, ParserTypeInv, ParserTypeOK
<1>7. CASE RejectRecord
  <2>1. AtRecord /\ invalid' = Append(invalid, NewRow) /\ badHere' = badHere + 1
    BY <1>7 DEF RejectRecord
  <2> QED
    BY <1>7, <2>1, NewRowType, RecordType DEF RejectRecord, ParserTypeInv, ParserTypeOK
<1>8. CASE EndFile
  <2> DEFINE s == [file |-> at + 1, tool |-> Tool(Current), ok |-> okHere, bad |-> badHere,
                   status |-> FileStatus(okHere, badHere)]
  <2>1. s \in Source
    BY DEF ParserTypeInv, ParserTypeOK, Source, Tool, FileStatus
  <2>2. sources' = Append(sources, s)
    BY <1>8 DEF EndFile
  <2> HIDE DEF s
  <2>3. sources' \in Seq(Source)
    BY <2>1, <2>2 DEF ParserTypeInv, ParserTypeOK
  <2>4. at < Len(upload.files) /\ Len(upload.files) \in Nat
    BY <1>8, UploadType DEF EndFile, ParserTypeInv, ParserTypeOK
  <2> QED
    BY <1>8, <2>3, <2>4 DEF EndFile, results, ParserTypeInv, ParserTypeOK, Fresh
<1> QED
  BY <1>1, <1>2, <1>3, <1>4, <1>5, <1>6, <1>7, <1>8 DEF ParserStep

-----------------------------------------------------------------------------
(* Numbers.                                                                *)

LEMMA ParserInitNumbered == ParserInit => NumberedOnce
BY DEF ParserInit, NumberedOnce, Increasing

(* Every step but those of a record leaves the two lists as they are.      *)
LEMMA ListsStay ==
    ASSUME ParserStep
    PROVE  AcceptRecord \/ RejectRecord \/ UNCHANGED <<accepted, invalid, index>>
BY DEF ParserStep, RefuseUpload, LoadDies, Open, SkipUnsafe, TooLarge, SkipUnreadable,
       EntryDies, BeginFile, EndFile, Finish, Stop, Skip, results

LEMMA ParserNumberedStep ==
    ASSUME ParserTypeInv, NumberedOnce, ParserStep
    PROVE  NumberedOnce'
<1>1. /\ index \in Nat /\ accepted \in Seq(Row) /\ invalid \in Seq(Row)
      /\ DOMAIN accepted = 1..Len(accepted) /\ Len(accepted) \in Nat
      /\ DOMAIN invalid = 1..Len(invalid) /\ Len(invalid) \in Nat
      /\ \A i \in DOMAIN accepted : accepted[i].index \in Nat
      /\ \A i \in DOMAIN invalid : invalid[i].index \in Nat
  <2>1. accepted \in Seq(Row) /\ invalid \in Seq(Row) /\ index \in Nat
    BY DEF ParserTypeInv, ParserTypeOK
  <2>2. /\ DOMAIN accepted = 1..Len(accepted) /\ Len(accepted) \in Nat
        /\ DOMAIN invalid = 1..Len(invalid) /\ Len(invalid) \in Nat
    BY <2>1, LenProperties
  <2>3. \A i \in DOMAIN accepted : accepted[i] \in Row
    BY <2>1, <2>2, ElementOfSeq
  <2>4. \A i \in DOMAIN invalid : invalid[i] \in Row
    BY <2>1, <2>2, ElementOfSeq
  <2> QED
    BY <2>1, <2>2, <2>3, <2>4 DEF Row
<1>2. CASE AcceptRecord
  <2>1. NewRow \in Row /\ NewRow.index = index
    BY <1>2, NewRowType DEF AcceptRecord, NewRow
  <2>2. accepted' = Append(accepted, NewRow) /\ index' = index + 1 /\ invalid' = invalid
    BY <1>2 DEF AcceptRecord
  <2>3. /\ Len(accepted') = Len(accepted) + 1 /\ DOMAIN accepted' = 1..(Len(accepted) + 1)
        /\ \A i \in 1..Len(accepted) : accepted'[i] = accepted[i]
        /\ accepted'[Len(accepted) + 1] = NewRow
    BY <1>1, <2>1, <2>2
  <2> QED
    BY <1>1, <2>1, <2>2, <2>3 DEF NumberedOnce, Increasing
<1>3. CASE RejectRecord
  <2>1. NewRow \in Row /\ NewRow.index = index
    BY <1>3, NewRowType DEF RejectRecord, NewRow
  <2>2. invalid' = Append(invalid, NewRow) /\ index' = index + 1 /\ accepted' = accepted
    BY <1>3 DEF RejectRecord
  <2>3. /\ Len(invalid') = Len(invalid) + 1 /\ DOMAIN invalid' = 1..(Len(invalid) + 1)
        /\ \A i \in 1..Len(invalid) : invalid'[i] = invalid[i]
        /\ invalid'[Len(invalid) + 1] = NewRow
    BY <1>1, <2>1, <2>2
  <2> QED
    BY <1>1, <2>1, <2>2, <2>3 DEF NumberedOnce, Increasing
<1>4. CASE UNCHANGED <<accepted, invalid, index>>
  BY <1>4 DEF NumberedOnce, Increasing
<1> QED
  BY <1>2, <1>3, <1>4, ListsStay

-----------------------------------------------------------------------------
(* The report.                                                             *)

(* The steps after the parser.                                             *)
TaskStep == CreateTask \/ FailEmpty \/ WorkerStep \/ Crash

LEMMA TaskStepsKeepParser == TaskStep => UNCHANGED parserVars
BY DEF TaskStep, WorkerStep, CreateTask, FailEmpty, StartBatch, SkipCompleted, PredictRecord,
       PredictRaises, CompleteBatch, CompleteRaises, Salvage, SalvageRaises, Complete, FailTask,
       Ack, Crash

LEMMA ScanTypeStep == ParserTypeInv /\ [Next]_vars => ParserTypeInv'
<1>1. UNCHANGED parserVars /\ ParserTypeInv => ParserTypeInv'
  BY DEF parserVars, ParserTypeInv, ParserTypeOK, Fresh, Current
<1>2. CreateDies /\ ParserTypeInv => ParserTypeInv'
  BY StopType DEF CreateDies
<1> QED
  BY <1>1, <1>2, ParserTypeStep, TaskStepsKeepParser DEF Next, vars, Parse, TaskStep

LEMMA ScanNumberedStep == ParserTypeInv /\ NumberedOnce /\ [Next]_vars => NumberedOnce'
<1>1. UNCHANGED <<accepted, invalid, index>> /\ NumberedOnce => NumberedOnce'
  BY DEF NumberedOnce, Increasing
<1>2. UNCHANGED parserVars => UNCHANGED <<accepted, invalid, index>>
  BY DEF parserVars
<1>3. CreateDies => UNCHANGED <<accepted, invalid, index>>
  BY DEF CreateDies, Stop, results
<1> QED
  BY <1>1, <1>2, <1>3, ParserNumberedStep, TaskStepsKeepParser DEF Next, vars, Parse, TaskStep

LEMMA InitNumbered == Init => ParserTypeInv /\ NumberedOnce
BY ParserInitType, ParserInitNumbered DEF Init

(* Every record of an upload has a number of its own (scan_parser.py,      *)
(* global_record_index), whatever is in it and however it ends.            *)
THEOREM RecordsAreNumberedOnce == Spec => []NumberedOnce
<1>1. ParserTypeInv /\ NumberedOnce /\ [Next]_vars => (ParserTypeInv /\ NumberedOnce)'
  BY ScanTypeStep, ScanNumberedStep
<1> QED
  BY InitNumbered, <1>1, PTL DEF Spec

(* Where the worker is, and what it has predicted.  A task exists once the *)
(* upload is parsed, and the two lists do not change any more.             *)
Predicted(list) ==
    /\ list \in Seq(Item)
    /\ Len(list) <= Len(accepted)
    /\ \A i \in 1..Len(list) : list[i].index = accepted[i].index

WorkInv ==
    /\ status \in {"absent", "created", "processing", "completed", "failed"}
    /\ status # "absent" => phase = "parsed"
    /\ status = "absent" => pc = "none" /\ predicted = <<>> /\ items = <<>> /\ result = NoResult
    /\ pc # "none" => accepted # <<>>
    /\ Predicted(predicted) /\ Predicted(items)
    /\ pc = "predict" => Len(predicted) < Len(accepted)
    /\ pc = "complete" => Len(predicted) = Len(accepted)

(* A completed task and its result account for every record, and its       *)
(* worker has nothing left to do but to acknowledge the message.           *)
DoneInv ==
    /\ result # NoResult =>
          /\ result.processed = Len(items)
          /\ Len(items) + result.rejected = Len(accepted) + Len(invalid)
    /\ status = "completed" =>
          /\ pc \in {"queued", "ack", "acked"}
          /\ Len(items) < Len(accepted) => partial

ReportInv == WorkInv /\ DoneInv

LEMMA InitReport == Init => ReportInv
<1> SUFFICES ASSUME Init PROVE ReportInv
  OBVIOUS
<1>1. accepted = <<>> /\ predicted = <<>> /\ items = <<>> /\ result = NoResult
      /\ status = "absent" /\ pc = "none"
  BY DEF Init, ParserInit
<1>2. Predicted(<<>>)
  BY <1>1 DEF Predicted
<1> QED
  BY <1>1, <1>2 DEF ReportInv, WorkInv, DoneInv

(* The parser runs before there is a task.                                 *)
LEMMA ParseReport ==
    ASSUME ReportInv, Parse, ParserTypeInv'
    PROVE  ReportInv' /\ status = "absent"
<1>1. phase # "parsed"
  BY DEF Parse, ParserStep, RefuseUpload, LoadDies, Open, SkipUnsafe, TooLarge, SkipUnreadable,
         EntryDies, BeginFile, AcceptRecord, RejectRecord, EndFile, Finish, AtEntry, Fits, AtRecord
<1>2. status = "absent"
  BY <1>1 DEF ReportInv, WorkInv
<1>3. /\ predicted = <<>> /\ items = <<>> /\ result = NoResult /\ pc = "none"
      /\ UNCHANGED <<status, partial, items, result, pc, predicted, crashes>>
  BY <1>2 DEF ReportInv, WorkInv, Parse, taskVars
<1>4. predicted' = <<>> /\ items' = <<>> /\ Len(<<>>) = 0
  BY <1>3
<1>5. Predicted(predicted)' /\ Predicted(items)'
  BY <1>4 DEF Predicted, ParserTypeInv, ParserTypeOK
<1> QED
  BY <1>2, <1>3, <1>5 DEF ReportInv, WorkInv, DoneInv

(* A worker's steps before the completion.                                 *)
LEMMA WorkReport ==
    ASSUME ReportInv, ParserTypeInv,
           StartBatch \/ SkipCompleted \/ PredictRecord \/ PredictRaises
             \/ CompleteRaises \/ SalvageRaises \/ FailTask \/ Ack \/ Crash
    PROVE  ReportInv'
<1>1. /\ accepted \in Seq(Row) /\ Len(accepted) \in Nat
      /\ predicted \in Seq(Item) /\ Len(predicted) \in Nat
  BY DEF ReportInv, WorkInv, Predicted, ParserTypeInv, ParserTypeOK
<1>2. pc # "none" /\ status # "absent" /\ UNCHANGED parserVars
  BY TaskStepsKeepParser DEF ReportInv, WorkInv, TaskStep, WorkerStep, StartBatch, SkipCompleted,
         PredictRecord, PredictRaises, CompleteRaises, SalvageRaises, FailTask, Ack, Crash
<1>3. Len(accepted) > 0
  BY <1>1, <1>2, EmptySeq DEF ReportInv, WorkInv
<1> USE DEF parserVars, taskVars
<1>4. CASE StartBatch
  <2>1. predicted' = <<>> /\ Predicted(<<>>)
    BY <1>1, <1>4 DEF StartBatch, Predicted
  <2>2. UNCHANGED <<accepted, invalid, phase, items, result>>
        /\ status' = "processing" /\ pc' = "predict"
    BY <1>2, <1>4 DEF StartBatch
  <2>3. Predicted(predicted)' /\ Predicted(items)'
    BY <2>1, <2>2 DEF Predicted, ReportInv, WorkInv
  <2> QED
    BY <1>2, <1>3, <2>1, <2>2, <2>3 DEF ReportInv, WorkInv, DoneInv
<1>5. CASE PredictRecord
  <2>1. PICK r \in Replies :
            /\ Predicts(Client, r)
            /\ predicted' = Append(predicted, [index |-> accepted[Len(predicted) + 1].index,
                   priority |-> r.priority, confidence |-> r.confidence])
    BY <1>5 DEF PredictRecord
  <2> DEFINE item == [index |-> accepted[Len(predicted) + 1].index,
                      priority |-> r.priority, confidence |-> r.confidence]
  <2>2. pc = "predict" /\ Len(predicted) < Len(accepted)
    BY <1>5 DEF PredictRecord, ReportInv, WorkInv
  <2>3. accepted[Len(predicted) + 1] \in Row
    BY <1>1, <2>2, ElementOfSeq
  <2>4. r.priority \in Priorities /\ r.confidence \in Confidences
    <3>1. r.confidence \in Int \cup {NaN, NotNumber}
      BY ReplyAssumption DEF Reply
    <3>2. /\ r.priority \in Priorities /\ r.confidence # NotNumber
          /\ ~Below(r.confidence, 0) /\ ~Exceeds(r.confidence, 100)
      BY <2>1 DEF Predicts, Parsed
    <3>3. CASE r.confidence \in Int
      <4>1. ~(r.confidence < 0) /\ ~(r.confidence > 100)
        BY <3>2, <3>3, NumberAssumption DEF Below, Exceeds
      <4> QED
        BY <3>2, <3>3, <4>1 DEF Confidences
    <3> QED
      BY <3>1, <3>2, <3>3 DEF Confidences
  <2>5. item \in Item
    BY <2>3, <2>4 DEF Item, Row
  <2>6. item.index = accepted[Len(predicted) + 1].index /\ predicted' = Append(predicted, item)
    BY <2>1
  <2> HIDE DEF item
  <2>7. UNCHANGED <<accepted, invalid, phase, items, result, status, partial>>
        /\ pc' = IF Len(predicted) + 1 = Len(accepted) THEN "complete" ELSE "predict"
    BY <1>2, <1>5 DEF PredictRecord
  <2>8. /\ predicted' \in Seq(Item) /\ Len(predicted') = Len(predicted) + 1
        /\ \A i \in 1..Len(predicted) : predicted'[i] = predicted[i]
        /\ predicted'[Len(predicted) + 1] = item
    BY <1>1, <2>5, <2>6, AppendProperties
  <2>9. \A i \in 1..Len(predicted') : predicted'[i].index = accepted'[i].index
    BY <1>1, <2>2, <2>6, <2>7, <2>8 DEF ReportInv, WorkInv, Predicted
  <2>10. Predicted(predicted)' /\ Predicted(items)'
    BY <1>1, <2>2, <2>7, <2>8, <2>9 DEF ReportInv, WorkInv, Predicted
  <2>11. status # "completed"
    BY <2>2 DEF ReportInv, DoneInv
  <2> QED
    BY <1>1, <1>2, <2>2, <2>7, <2>8, <2>10, <2>11 DEF ReportInv, WorkInv, DoneInv
<1>6. CASE SkipCompleted \/ PredictRaises \/ CompleteRaises \/ SalvageRaises
             \/ FailTask \/ Ack \/ Crash
  <2>1. UNCHANGED <<accepted, invalid, phase, items, result, predicted>>
        /\ pc' \in {"queued", "salvage", "fail", "ack", "acked"}
    BY <1>2, <1>6 DEF SkipCompleted, PredictRaises, CompleteRaises, SalvageRaises, FailTask,
           Ack, Crash, Handler
  <2>2. Predicted(predicted)' /\ Predicted(items)'
    BY <2>1 DEF Predicted, ReportInv, WorkInv
  <2>3. \/ status' = "failed"
        \/ /\ UNCHANGED <<status, partial>>
           /\ status = "completed" => pc' \in {"queued", "ack", "acked"}
    BY <1>6 DEF SkipCompleted, PredictRaises, CompleteRaises, SalvageRaises, FailTask,
           Ack, Crash, ReportInv, DoneInv
  <2> QED
    BY <1>2, <2>1, <2>2, <2>3 DEF ReportInv, WorkInv, DoneInv
<1> QED
  BY <1>4, <1>5, <1>6

(* The completion, whole or partial: the records that were not reached are *)
(* counted with the rejected ones.                                         *)
LEMMA CompletionReport ==
    ASSUME ReportInv, ParserTypeInv, CompleteBatch \/ Salvage
    PROVE  ReportInv'
<1>1. /\ Len(accepted) \in Nat /\ Len(invalid) \in Nat /\ Len(predicted) \in Nat
      /\ Len(predicted) <= Len(accepted)
  BY DEF ReportInv, WorkInv, Predicted, ParserTypeInv, ParserTypeOK
<1>2. PICK rejected, early :
          /\ Complete(rejected, early)
          /\ Len(predicted) + rejected = Len(accepted) + Len(invalid)
          /\ Len(predicted) < Len(accepted) => early
  <2>1. CASE CompleteBatch
    <3> DEFINE n == Len(invalid)
    <3>1. Complete(n, FALSE)
      BY <2>1 DEF CompleteBatch
    <3>2. Len(predicted) = Len(accepted)
      BY <2>1 DEF CompleteBatch, ReportInv, WorkInv
    <3>3. Len(predicted) + n = Len(accepted) + n /\ (Len(predicted) < Len(accepted) => FALSE)
      BY <1>1, <3>2
    <3>4. n = Len(invalid)
      OBVIOUS
    <3> HIDE DEF n
    <3> QED
      BY <3>1, <3>3, <3>4
  <2>2. CASE Salvage
    <3>1. Complete(Len(invalid) + Unprocessed, TRUE)
      BY <2>2 DEF Salvage
    <3> DEFINE n == Len(invalid) + Unprocessed
    <3>2. Len(predicted) + n = Len(accepted) + Len(invalid)
      BY <1>1 DEF Unprocessed
    <3>3. Complete(n, TRUE)
      BY <3>1
    <3> HIDE DEF n
    <3> QED
      BY <3>2, <3>3
  <2> QED
    BY <2>1, <2>2
<1>3. pc # "none" /\ status # "absent"
  BY DEF CompleteBatch, Salvage, ReportInv, WorkInv
<1>4. UNCHANGED <<phase, accepted, invalid, predicted>>
  BY <1>2 DEF Complete, parserVars
<1>5. /\ status' = "completed" /\ partial' = early /\ items' = predicted /\ pc' = "ack"
      /\ result'.processed = Len(predicted) /\ result'.rejected = rejected
  BY <1>2 DEF Complete
<1>6. Predicted(predicted)' /\ Predicted(items)'
  BY <1>4, <1>5 DEF Predicted, ReportInv, WorkInv
<1>7. WorkInv'
  BY <1>3, <1>4, <1>5, <1>6 DEF ReportInv, WorkInv
<1>8. DoneInv'
  BY <1>2, <1>4, <1>5 DEF DoneInv
<1> QED
  BY <1>7, <1>8 DEF ReportInv

LEMMA ReportStep ==
    ASSUME ReportInv, ParserTypeInv, ParserTypeInv', [Next]_vars
    PROVE  ReportInv'
<1>1. CASE UNCHANGED vars
  BY <1>1 DEF vars, parserVars, ReportInv, WorkInv, DoneInv, Predicted
<1>2. CASE CreateTask
  <2>1. UNCHANGED <<phase, accepted, invalid, partial, items, result, predicted>>
    BY <1>2 DEF CreateTask, parserVars
  <2>2. Predicted(predicted)' /\ Predicted(items)'
    BY <2>1 DEF Predicted, ReportInv, WorkInv
  <2> QED
    BY <1>2, <2>1, <2>2 DEF CreateTask, ReportInv, WorkInv, DoneInv
<1>3. CASE CreateDies
  <2>1. UNCHANGED <<accepted, invalid, status, partial, items, result, pc, predicted>>
    BY <1>3 DEF CreateDies, Stop, results, taskVars
  <2>2. Predicted(predicted)' /\ Predicted(items)'
    BY <2>1 DEF Predicted, ReportInv, WorkInv
  <2> QED
    BY <1>3, <2>1, <2>2 DEF CreateDies, ReportInv, WorkInv, DoneInv
<1>4. CASE FailEmpty
  <2>1. UNCHANGED <<phase, accepted, invalid, partial, items, result, pc, predicted>>
    BY <1>4 DEF FailEmpty, parserVars
  <2>2. Predicted(predicted)' /\ Predicted(items)'
    BY <2>1 DEF Predicted, ReportInv, WorkInv
  <2> QED
    BY <1>4, <2>1, <2>2 DEF FailEmpty, ReportInv, WorkInv, DoneInv
<1> QED
  BY <1>1, <1>2, <1>3, <1>4, ParseReport, WorkReport, CompletionReport DEF Next, WorkerStep

LEMMA ScanInvHolds == Spec => [](ParserTypeInv /\ NumberedOnce /\ ReportInv)
<1>1. Init => ParserTypeInv /\ NumberedOnce /\ ReportInv
  BY InitNumbered, InitReport
<1>2. ParserTypeInv /\ NumberedOnce /\ ReportInv /\ [Next]_vars
        => (ParserTypeInv /\ NumberedOnce /\ ReportInv)'
  BY ScanTypeStep, ScanNumberedStep, ReportStep
<1> QED
  BY <1>1, <1>2, PTL DEF Spec

(* The report of a completed upload accounts for every record of it, each  *)
(* prediction under the number of its own record (worker.py,               *)
(* _process_scan_upload_message; services.py, complete_batch_task),        *)
(* whatever the runtime answers and wherever the worker dies.              *)
THEOREM ReportsMatchUploads == Spec => []ReportMatchesUpload
<1>1. ParserTypeInv /\ NumberedOnce /\ ReportInv => ReportMatchesUpload
  <2> SUFFICES ASSUME ParserTypeInv, NumberedOnce, ReportInv, ReportAvailable
               PROVE  /\ Len(Detail.rows) <= Len(accepted)
                      /\ \A i \in DOMAIN Detail.rows : Detail.rows[i].index = accepted[i].index
                      /\ \A i \in DOMAIN Detail.rows, j \in DOMAIN invalid :
                            Detail.rows[i].index # invalid[j].index
                      /\ Detail.processed = {Len(Detail.rows)}
                      /\ Len(Detail.rows) + Detail.rejected = Len(accepted) + Len(invalid)
                      /\ Len(Detail.rows) < Len(accepted) => partial
    BY DEF ReportMatchesUpload
  <2>1. /\ Detail.rows = items /\ Detail.processed = {result.processed}
        /\ Detail.rejected = result.rejected
    BY DEF Detail, ReportAvailable
  <2>2. /\ items \in Seq(Item) /\ accepted \in Seq(Row)
        /\ Len(items) <= Len(accepted)
        /\ \A i \in 1..Len(items) : items[i].index = accepted[i].index
    BY DEF ParserTypeInv, ParserTypeOK, ReportInv, WorkInv, Predicted
  <2>3. DOMAIN items = 1..Len(items) /\ DOMAIN accepted = 1..Len(accepted)
        /\ Len(items) \in Nat /\ Len(accepted) \in Nat
    BY <2>2, LenProperties
  <2>4. \A i \in DOMAIN items : i \in DOMAIN accepted /\ items[i].index = accepted[i].index
    BY <2>2, <2>3
  <2>5. \A i \in DOMAIN items, j \in DOMAIN invalid : items[i].index # invalid[j].index
    BY <2>4 DEF NumberedOnce
  <2>6. /\ result.processed = Len(items)
        /\ Len(items) + result.rejected = Len(accepted) + Len(invalid)
        /\ Len(items) < Len(accepted) => partial
    BY DEF ReportInv, DoneInv, ReportAvailable
  <2> QED
    BY <2>1, <2>2, <2>4, <2>5, <2>6
<1> QED
  BY ScanInvHolds, <1>1, PTL

(* A report that could be read once is the same ever after: a delivery     *)
(* again finds the task completed (services.py, line 799).                 *)
THEOREM ReportsAreFinal == Spec => ReportIsFinal
<1>1. ASSUME ReportInv, ReportAvailable, [Next]_vars
      PROVE  UNCHANGED <<accepted, invalid, items, status, result>>
  <2>1. status = "completed" /\ result # NoResult /\ phase = "parsed"
        /\ pc \in {"queued", "ack", "acked"}
    BY <1>1 DEF ReportAvailable, ReportInv, WorkInv, DoneInv
  <2>2. ~Parse
    BY <2>1 DEF Parse, ParserStep, RefuseUpload, LoadDies, Open, SkipUnsafe, TooLarge,
           SkipUnreadable, EntryDies, BeginFile, AcceptRecord, RejectRecord, EndFile, Finish,
           AtEntry, Fits, AtRecord
  <2>3. CASE UNCHANGED vars
    BY <2>3 DEF vars, parserVars
  <2>4. CASE SkipCompleted \/ Ack \/ Crash
    BY <2>4 DEF SkipCompleted, Ack, Crash, parserVars, taskVars
  <2>5. ~(CreateTask \/ CreateDies \/ FailEmpty \/ StartBatch \/ PredictRecord \/ PredictRaises
            \/ CompleteBatch \/ CompleteRaises \/ Salvage \/ SalvageRaises \/ FailTask)
    BY <2>1 DEF CreateTask, CreateDies, FailEmpty, StartBatch, AlreadyCompleted, PredictRecord,
           PredictRaises, CompleteBatch, CompleteRaises, Salvage, SalvageRaises, FailTask
  <2> QED
    BY <1>1, <2>2, <2>3, <2>4, <2>5 DEF Next, WorkerStep
<1>2. ASSUME ReportAvailable, UNCHANGED <<accepted, invalid, items, status, result>>
      PROVE  ReportAvailable' /\ UNCHANGED <<Detail, result>>
  BY <1>2 DEF ReportAvailable, Detail
<1>3. ReportInv /\ [Next]_vars =>
        (ReportAvailable => ReportAvailable' /\ UNCHANGED <<Detail, result>>)
  BY <1>1, <1>2
<1> QED
  BY ScanInvHolds, <1>3, PTL DEF Spec, ReportIsFinal

-----------------------------------------------------------------------------
(* The breakdown by file.                                                  *)

(* One row more counts for its own file.                                   *)
LEMMA CountAppend ==
    ASSUME NEW rows \in Seq(Row), NEW row \in Row, NEW f
    PROVE  CountIn(Append(rows, row), f) =
               IF row.file = f THEN CountIn(rows, f) + 1 ELSE CountIn(rows, f)
<1> DEFINE n == Len(rows)
           more == Append(rows, row)
           S == {i \in DOMAIN rows : rows[i].file = f}
           T == {i \in DOMAIN more : more[i].file = f}
<1>1. /\ n \in Nat /\ DOMAIN rows = 1..n /\ DOMAIN more = 1..(n + 1)
      /\ \A i \in 1..n : more[i] = rows[i]
      /\ more[n + 1] = row
  <2>1. more \in Seq(Row) /\ Len(more) = n + 1
    BY AppendProperties
  <2> QED
    BY <2>1, LenProperties, AppendProperties
<1>2. IsFiniteSet(S)
  <2>1. IsFiniteSet(1..n)
    BY <1>1, FS_Interval
  <2>2. S \in SUBSET (1..n)
    BY <1>1
  <2> QED
    BY <2>1, <2>2, FS_Subset
<1> HIDE DEF n, more
<1>3. T = IF row.file = f THEN S \cup {n + 1} ELSE S
  BY <1>1
<1>4. n + 1 \notin S
  BY <1>1
<1>5. Cardinality(S) = CountIn(rows, f) /\ Cardinality(T) = CountIn(Append(rows, row), f)
  BY DEF CountIn, more
<1> HIDE DEF S, T
<1> QED
  BY <1>2, <1>3, <1>4, <1>5, FS_AddElement

(* A file without rows counts none.                                        *)
LEMMA CountNone ==
    ASSUME NEW rows, NEW f, \A i \in DOMAIN rows : rows[i].file # f
    PROVE  CountIn(rows, f) = 0
<1>1. {i \in DOMAIN rows : rows[i].file = f} = {}
  OBVIOUS
<1> QED
  BY <1>1, FS_EmptySet DEF CountIn

(* The rows of the files that are done, or begun.                          *)
RowsUpTo(rows, n) == \A i \in DOMAIN rows : rows[i].file \in 1..n

SkippedFiles == {skipped[i] : i \in DOMAIN skipped}

FilesInv ==
    /\ RowsUpTo(accepted, IF phase = "records" THEN at + 1 ELSE at)
    /\ RowsUpTo(invalid, IF phase = "records" THEN at + 1 ELSE at)
    /\ phase = "received" => okHere = 0 /\ badHere = 0
    /\ phase = "records" =>
          okHere = CountIn(accepted, at + 1) /\ badHere = CountIn(invalid, at + 1)
    /\ FilesAddUp

LEMMA InitFiles == ParserInit => FilesInv
<1> SUFFICES ASSUME ParserInit PROVE FilesInv
  OBVIOUS
<1>1. /\ accepted = <<>> /\ invalid = <<>> /\ sources = <<>> /\ skipped = <<>>
      /\ at = 0 /\ okHere = 0 /\ badHere = 0 /\ phase = "received"
  BY DEF ParserInit
<1>2. SourceFiles = {} /\ SkippedFiles = {}
  BY <1>1 DEF SourceFiles, SkippedFiles
<1> QED
  BY <1>1, <1>2 DEF FilesInv, FilesAddUp, RowsUpTo, SkippedFiles

(* Steps that go on to no other file and no other record.                  *)
LEMMA FilesStay ==
    ASSUME FilesInv, ParserTypeInv,
           UNCHANGED <<at, accepted, invalid, sources, skipped>>,
           \/ phase' \in {"files", "parsed", "refused", "died"} /\ phase # "records"
           \/ /\ phase' = "records" /\ phase # "records"
              /\ okHere' = 0 /\ badHere' = 0
           \/ UNCHANGED <<phase, okHere, badHere>>
    PROVE  FilesInv'
<1>1. at \in Nat
  BY UploadType DEF ParserTypeInv, ParserTypeOK
<1>2. FilesAddUp'
  BY DEF FilesInv, FilesAddUp, CountIn, SourceFiles
<1>3. CASE phase' \in {"files", "parsed", "refused", "died"} /\ phase # "records"
  BY <1>2, <1>3 DEF FilesInv, RowsUpTo
<1>4. CASE phase' = "records" /\ phase # "records" /\ okHere' = 0 /\ badHere' = 0
  <2>1. RowsUpTo(accepted, at) /\ RowsUpTo(invalid, at)
    BY <1>4 DEF FilesInv
  <2>2. CountIn(accepted, at + 1) = 0 /\ CountIn(invalid, at + 1) = 0
    <3>1. /\ \A i \in DOMAIN accepted : accepted[i].file # at + 1
          /\ \A i \in DOMAIN invalid : invalid[i].file # at + 1
      BY <1>1, <2>1 DEF RowsUpTo
    <3> QED
      BY <3>1, CountNone
  <2>3. RowsUpTo(accepted, at + 1) /\ RowsUpTo(invalid, at + 1)
    BY <1>1, <2>1 DEF RowsUpTo
  <2>4. CountIn(accepted, at + 1)' = 0 /\ CountIn(invalid, at + 1)' = 0
    BY <2>2 DEF CountIn
  <2> QED
    BY <1>2, <1>4, <2>3, <2>4 DEF FilesInv, RowsUpTo
<1>5. CASE UNCHANGED <<phase, okHere, badHere>>
  BY <1>2, <1>5 DEF FilesInv, RowsUpTo, CountIn
<1> QED
  BY <1>3, <1>4, <1>5

(* The next entry was skipped.                                             *)
LEMMA FilesSkip ==
    ASSUME FilesInv, ParserTypeInv, AtEntry, Skip
    PROVE  FilesInv'
<1>1. at \in Nat /\ skipped \in Seq(Nat) /\ sources \in Seq(Source)
  BY UploadType DEF ParserTypeInv, ParserTypeOK
<1>2. /\ skipped' = Append(skipped, at + 1) /\ at' = at + 1
      /\ UNCHANGED <<upload, phase, okHere, badHere, accepted, invalid, sources>>
      /\ phase = "files"
  BY DEF AtEntry, Skip, results
<1>3. /\ Len(skipped') = Len(skipped) + 1 /\ DOMAIN skipped = 1..Len(skipped)
      /\ DOMAIN skipped' = 1..(Len(skipped) + 1) /\ Len(skipped) \in Nat
      /\ \A i \in 1..Len(skipped) : skipped'[i] = skipped[i]
      /\ skipped'[Len(skipped) + 1] = at + 1
  <2>1. at + 1 \in Nat
    BY <1>1
  <2> QED
    BY <1>1, <1>2, <2>1, AppendProperties, LenProperties
<1>4. SkippedFiles' = SkippedFiles \cup {at + 1}
  BY <1>3 DEF SkippedFiles
<1>5. SourceFiles \cup SkippedFiles = 1..at /\ Len(sources) + Len(skipped) = at
  BY DEF FilesInv, FilesAddUp, SkippedFiles
<1>6. (SourceFiles \cup SkippedFiles)' = 1..(at + 1)
  <2>1. SourceFiles' = SourceFiles
    BY <1>2 DEF SourceFiles
  <2>2. (1..at) \cup {at + 1} = 1..(at + 1)
    BY <1>1
  <2> QED
    BY <1>2, <1>4, <1>5, <2>1, <2>2
<1>7. (Len(sources) + Len(skipped) = at)'
  BY <1>1, <1>2, <1>3, <1>5, LenProperties
<1>8. FilesAddUp'
  <2>1. (\A i \in DOMAIN sources : /\ sources[i].ok = CountIn(accepted, sources[i].file)
                                   /\ sources[i].bad = CountIn(invalid, sources[i].file))'
    BY <1>2 DEF FilesInv, FilesAddUp, CountIn
  <2> QED
    BY <1>2, <1>6, <1>7, <2>1 DEF FilesAddUp, SkippedFiles
<1>9. RowsUpTo(accepted, at)' /\ RowsUpTo(invalid, at)'
  BY <1>1, <1>2 DEF FilesInv, RowsUpTo
<1> QED
  BY <1>2, <1>8, <1>9 DEF FilesInv

(* One record more of the file at hand.                                    *)
LEMMA FilesRecord ==
    ASSUME FilesInv, ParserTypeInv, AcceptRecord \/ RejectRecord
    PROVE  FilesInv'
<1>1. /\ at \in Nat /\ accepted \in Seq(Row) /\ invalid \in Seq(Row) /\ sources \in Seq(Source)
      /\ okHere \in Nat /\ badHere \in Nat /\ NewRow \in Row /\ NewRow.file = at + 1
      /\ phase = "records"
  BY UploadType, NewRowType
     DEF ParserTypeInv, ParserTypeOK, NewRow, AcceptRecord, RejectRecord, AtRecord
<1>2. /\ \A i \in DOMAIN sources : sources[i].file \in 1..at
      /\ RowsUpTo(accepted, at + 1) /\ RowsUpTo(invalid, at + 1)
      /\ okHere = CountIn(accepted, at + 1) /\ badHere = CountIn(invalid, at + 1)
      /\ \A i \in DOMAIN sources : /\ sources[i].ok = CountIn(accepted, sources[i].file)
                                   /\ sources[i].bad = CountIn(invalid, sources[i].file)
  BY <1>1 DEF FilesInv, FilesAddUp, SourceFiles
<1>3. UNCHANGED <<phase, at, sources, skipped>>
  BY DEF AcceptRecord, RejectRecord
<1>4. \/ accepted' = accepted /\ okHere' = okHere
      \/ accepted' = Append(accepted, NewRow) /\ okHere' = okHere + 1
  BY DEF AcceptRecord, RejectRecord
<1>5. \/ invalid' = invalid /\ badHere' = badHere
      \/ invalid' = Append(invalid, NewRow) /\ badHere' = badHere + 1
  BY DEF AcceptRecord, RejectRecord
<1>6. ASSUME NEW rows \in Seq(Row), RowsUpTo(rows, at + 1)
      PROVE  /\ RowsUpTo(Append(rows, NewRow), at + 1)
             /\ CountIn(Append(rows, NewRow), at + 1) = CountIn(rows, at + 1) + 1
             /\ \A f \in 1..at : CountIn(Append(rows, NewRow), f) = CountIn(rows, f)
  <2>1. /\ DOMAIN Append(rows, NewRow) = 1..(Len(rows) + 1) /\ Len(rows) \in Nat
        /\ \A i \in 1..Len(rows) : Append(rows, NewRow)[i] = rows[i]
        /\ Append(rows, NewRow)[Len(rows) + 1] = NewRow
        /\ DOMAIN rows = 1..Len(rows)
    <3>1. Append(rows, NewRow) \in Seq(Row) /\ Len(Append(rows, NewRow)) = Len(rows) + 1
      BY <1>1, <1>6, AppendProperties
    <3> QED
      BY <1>1, <1>6, <3>1, AppendProperties, LenProperties
  <2>2. RowsUpTo(Append(rows, NewRow), at + 1)
    BY <1>1, <1>6, <2>1 DEF RowsUpTo
  <2>3. CountIn(Append(rows, NewRow), at + 1) = CountIn(rows, at + 1) + 1
    BY <1>1, <1>6, CountAppend
  <2>4. \A f \in 1..at : CountIn(Append(rows, NewRow), f) = CountIn(rows, f)
    BY <1>1, <1>6, CountAppend
  <2> QED
    BY <2>2, <2>3, <2>4
<1>7. /\ RowsUpTo(accepted', at + 1) /\ okHere' = CountIn(accepted', at + 1)
      /\ \A f \in 1..at : CountIn(accepted', f) = CountIn(accepted, f)
  BY <1>1, <1>2, <1>4, <1>6
<1>8. /\ RowsUpTo(invalid', at + 1) /\ badHere' = CountIn(invalid', at + 1)
      /\ \A f \in 1..at : CountIn(invalid', f) = CountIn(invalid, f)
  BY <1>1, <1>2, <1>5, <1>6
<1>9. \A i \in DOMAIN sources : /\ sources[i].ok = CountIn(accepted', sources[i].file)
                                /\ sources[i].bad = CountIn(invalid', sources[i].file)
  BY <1>2, <1>7, <1>8
<1>10. (SourceFiles \cup SkippedFiles = 1..at /\ Len(sources) + Len(skipped) = at)'
  BY <1>3 DEF FilesInv, FilesAddUp, SourceFiles, SkippedFiles
<1>11. FilesAddUp'
  <2>1. (\A i \in DOMAIN sources : /\ sources[i].ok = CountIn(accepted, sources[i].file)
                                   /\ sources[i].bad = CountIn(invalid, sources[i].file))'
    BY <1>3, <1>9 DEF CountIn
  <2> QED
    BY <1>10, <2>1 DEF FilesAddUp, SkippedFiles
<1> QED
  BY <1>1, <1>3, <1>7, <1>8, <1>11 DEF FilesInv, RowsUpTo, CountIn

(* A file is done, with the counts of its records.                         *)
LEMMA FilesEnd ==
    ASSUME FilesInv, ParserTypeInv, EndFile
    PROVE  FilesInv'
<1>1. at \in Nat /\ skipped \in Seq(Nat) /\ sources \in Seq(Source)
  BY UploadType DEF ParserTypeInv, ParserTypeOK
<1> DEFINE s == [file |-> at + 1, tool |-> Tool(Current), ok |-> okHere, bad |-> badHere,
                 status |-> FileStatus(okHere, badHere)]
<1>2. /\ sources' = Append(sources, s) /\ at' = at + 1 /\ phase' \in {"files", "parsed"}
      /\ UNCHANGED <<accepted, invalid, okHere, badHere, skipped>>
      /\ phase = "records"
  BY DEF EndFile, results
<1>3. s \in Source
  BY <1>1 DEF ParserTypeInv, ParserTypeOK, Source, Tool, FileStatus
<1>4. s.file = at + 1 /\ s.ok = okHere /\ s.bad = badHere
  OBVIOUS
<1> HIDE DEF s
<1>5. /\ Len(sources') = Len(sources) + 1 /\ DOMAIN sources = 1..Len(sources)
      /\ DOMAIN sources' = 1..(Len(sources) + 1) /\ Len(sources) \in Nat
      /\ \A i \in 1..Len(sources) : sources'[i] = sources[i]
      /\ sources'[Len(sources) + 1] = s
  BY <1>1, <1>2, <1>3, AppendProperties, LenProperties
<1>6. SourceFiles' = SourceFiles \cup {at + 1}
  BY <1>4, <1>5 DEF SourceFiles
<1>7. SourceFiles \cup SkippedFiles = 1..at /\ Len(sources) + Len(skipped) = at
  BY DEF FilesInv, FilesAddUp, SkippedFiles
<1>8. (SourceFiles \cup SkippedFiles)' = 1..(at + 1)
  <2>1. SkippedFiles' = SkippedFiles
    BY <1>2 DEF SkippedFiles
  <2>2. (1..at) \cup {at + 1} = 1..(at + 1)
    BY <1>1
  <2> QED
    BY <1>6, <1>7, <2>1, <2>2
<1>9. (Len(sources) + Len(skipped) = at)'
  <2>1. Len(skipped)' = Len(skipped) /\ Len(sources)' = Len(sources) + 1 /\ at' = at + 1
    BY <1>2, <1>5
  <2>2. Len(sources) \in Nat /\ Len(skipped) \in Nat
    BY <1>1, LenProperties
  <2> QED
    BY <1>1, <1>7, <2>1, <2>2
<1>10. \A i \in DOMAIN sources' : /\ sources'[i].ok = CountIn(accepted, sources'[i].file)
                                  /\ sources'[i].bad = CountIn(invalid, sources'[i].file)
  <2>1. okHere = CountIn(accepted, at + 1) /\ badHere = CountIn(invalid, at + 1)
    BY <1>2 DEF FilesInv
  <2>2. \A i \in 1..Len(sources) : /\ sources[i].ok = CountIn(accepted, sources[i].file)
                                   /\ sources[i].bad = CountIn(invalid, sources[i].file)
    BY <1>5 DEF FilesInv, FilesAddUp
  <2> QED
    BY <1>4, <1>5, <2>1, <2>2
<1>11. FilesAddUp'
  <2>1. (\A i \in DOMAIN sources : /\ sources[i].ok = CountIn(accepted, sources[i].file)
                                   /\ sources[i].bad = CountIn(invalid, sources[i].file))'
    BY <1>2, <1>10 DEF CountIn
  <2> QED
    BY <1>2, <1>8, <1>9, <2>1 DEF FilesAddUp, SkippedFiles
<1> QED
  BY <1>2, <1>11 DEF FilesInv, RowsUpTo

LEMMA ParserFilesStep ==
    ASSUME FilesInv, ParserTypeInv, ParserStep
    PROVE  FilesInv'
<1>1. CASE RefuseUpload \/ LoadDies \/ TooLarge \/ EntryDies \/ Finish
  <2>1. /\ UNCHANGED <<at, accepted, invalid, sources, skipped>>
        /\ phase' \in {"parsed", "refused", "died"} /\ phase # "records"
    BY <1>1 DEF RefuseUpload, LoadDies, TooLarge, EntryDies, Finish, Fits, AtEntry, Stop, results
  <2> QED
    BY <2>1, FilesStay
<1>2. CASE Open
  <2>1. /\ UNCHANGED <<at, accepted, invalid, okHere, badHere, sources, skipped>>
        /\ phase' \in {"files", "records"} /\ phase = "received"
    BY <1>2 DEF Open, results
  <2> QED
    BY <2>1, FilesStay DEF FilesInv
<1>3. CASE BeginFile
  <2>1. /\ UNCHANGED <<at, accepted, invalid, sources, skipped>>
        /\ phase' = "records" /\ phase # "records" /\ okHere' = 0 /\ badHere' = 0
    BY <1>3 DEF BeginFile, Fits, AtEntry
  <2> QED
    BY <2>1, FilesStay
<1> QED
  BY <1>1, <1>2, <1>3, FilesSkip, FilesRecord, FilesEnd
     DEF ParserStep, SkipUnsafe, SkipUnreadable, Fits

LEMMA ScanFilesStep == ParserTypeInv /\ FilesInv /\ [Next]_vars => FilesInv'
<1>1. ASSUME ParserTypeInv, FilesInv, UNCHANGED parserVars PROVE FilesInv'
  BY <1>1, FilesStay DEF parserVars
<1>2. ASSUME ParserTypeInv, FilesInv, CreateDies PROVE FilesInv'
  <2>1. /\ UNCHANGED <<at, accepted, invalid, sources, skipped>>
        /\ phase' = "died" /\ phase # "records"
    BY <1>2 DEF CreateDies, Stop, results
  <2> QED
    BY <1>2, <2>1, FilesStay
<1> QED
  BY <1>1, <1>2, ParserFilesStep, TaskStepsKeepParser DEF Next, vars, Parse, TaskStep

(* Each file is in the breakdown or among the skipped ones, and its two    *)
(* counts are those of its records (scan_parser.py, _parse_zip_upload).    *)
THEOREM FilesAlwaysAddUp == Spec => []FilesAddUp
<1>1. Init => ParserTypeInv /\ FilesInv
  BY ParserInitType, InitFiles DEF Init
<1>2. ParserTypeInv /\ FilesInv /\ [Next]_vars => (ParserTypeInv /\ FilesInv)'
  BY ScanTypeStep, ScanFilesStep
<1>3. FilesInv => FilesAddUp
  BY DEF FilesInv
<1> QED
  BY <1>1, <1>2, <1>3, PTL DEF Spec
-----------------------------------------------------------------------------
(* The two lists are the records of the upload.                            *)

(* A record passes _normalize_empty_values and the validators of           *)
(* FindingRecordInput exactly if none of its values, as they were uploaded,*)
(* is among those refused in its field; and of a result of Semgrep, once   *)
(* _normalize_semgrep_results has been over it, two fields decide: for     *)
(* every record there can be.                                              *)
THEOREM AcceptsTheAcceptable ==
    ASSUME NEW r \in Record
    PROVE  /\ Accepts(r) <=> Acceptable(r, Fields)
           /\ Accepts(SemgrepRecord(r)) <=> Acceptable(r, {"cvss_score", "port"})
<1>1. ASSUME NEW u \in [Fields -> Values]
      PROVE  /\ Normalize(u) \in [Fields -> Values]
             /\ \A k \in Fields : Normalize(u)[k] =
                  IF u[k] # "blank" THEN u[k]
                  ELSE IF k = "has_cve" THEN "absent"
                  ELSE IF k \in OptionalFields THEN "null" ELSE "blank"
  BY DEF Normalize, Values
<1>2. ASSUME NEW u \in [Fields -> Values]
      PROVE  Valid(Normalize(u)) <=> \A k \in Fields : u[k] \notin Refused(k)
  <2> DEFINE v == Normalize(u)
  <2>1. \A k \in RequiredText :
           v[k] \in {"good", "semgrep"} <=> u[k] \notin Refused(k)
    BY <1>1 DEF Fields, RequiredText, OptionalFields, Numbers, Values, Refused
  <2>2. \A k \in Numbers :
           v[k] \in {"absent", "null", "good"} <=> u[k] \notin Refused(k)
    BY <1>1 DEF Fields, RequiredText, OptionalFields, Numbers, Values, Refused
  <2>3. v["severity_reported"] = "good" <=> u["severity_reported"] \notin Refused("severity_reported")
    BY <1>1 DEF Fields, OptionalFields, Numbers, Values, Refused
  <2>4. v["asset_type"] \in {"absent", "null", "good", "semgrep"}
           <=> u["asset_type"] \notin Refused("asset_type")
    BY <1>1 DEF Fields, OptionalFields, Numbers, Values, Refused
  <2>5. v["has_cve"] \in {"absent", "good"} <=> u["has_cve"] \notin Refused("has_cve")
    BY <1>1 DEF Fields, OptionalFields, Numbers, Values, Refused
  <2>6. u["semgrep_path"] \notin Refused("semgrep_path")
    BY DEF Refused
  <2> HIDE DEF v
  <2>7. Valid(v) <=> /\ \A k \in RequiredText : u[k] \notin Refused(k)
                     /\ u["severity_reported"] \notin Refused("severity_reported")
                     /\ u["asset_type"] \notin Refused("asset_type")
                     /\ \A k \in Numbers : u[k] \notin Refused(k)
                     /\ u["has_cve"] \notin Refused("has_cve")
    BY <2>1, <2>2, <2>3, <2>4, <2>5 DEF Valid
  <2>8. Fields = RequiredText \cup Numbers \cup
                    {"asset_type", "severity_reported", "has_cve", "semgrep_path"}
    BY DEF Fields, OptionalFields
  <2>9. Valid(v) <=> \A k \in Fields : u[k] \notin Refused(k)
    BY <2>6, <2>7, <2>8
  <2> QED
    BY <2>9 DEF v
<1>3. r.field \in [Fields -> Values] /\ r.object \in BOOLEAN
  BY DEF Record
<1>4. Accepts(r) <=> Acceptable(r, Fields)
  BY <1>2, <1>3 DEF Accepts, Acceptable
<1> DEFINE g == [k \in Fields |-> CASE k = "scanner_name" -> "semgrep"
                                   [] k \in {"cvss_score", "port"} -> r.field[k]
                                   [] OTHER -> "good"]
<1>5. SemgrepRecord(r) = IF ~r.object THEN r ELSE [r EXCEPT !.field = g]
  BY DEF SemgrepRecord
<1>6. \A k \in Fields : g[k] = CASE k = "scanner_name" -> "semgrep"
                                  [] k \in {"cvss_score", "port"} -> r.field[k]
                                  [] OTHER -> "good"
  OBVIOUS
<1>7. g \in [Fields -> Values]
  <2>1. \A k \in Fields : g[k] \in {"semgrep", "good", r.field[k]}
    BY <1>6
  <2>2. \A k \in Fields : g[k] \in Values
    BY <1>3, <2>1 DEF Values
  <2> QED
    BY <2>2
<1>8. \A k \in Fields \ {"cvss_score", "port"} : g[k] \notin Refused(k)
  <2>1. g["scanner_name"] = "semgrep"
    BY <1>6 DEF Fields, RequiredText
  <2>2. \A k \in Fields \ {"cvss_score", "port", "scanner_name"} : g[k] = "good"
    BY <1>6
  <2>3. "semgrep" \notin Refused("scanner_name")
    BY DEF Refused
  <2>4. \A k \in Fields : "good" \notin Refused(k)
    BY DEF Refused, Fields, RequiredText, OptionalFields, Numbers
  <2> QED
    BY <2>1, <2>2, <2>3, <2>4
<1>9. /\ "cvss_score" \in Fields /\ g["cvss_score"] = r.field["cvss_score"]
      /\ "port" \in Fields /\ g["port"] = r.field["port"]
  BY <1>6 DEF Fields, OptionalFields, Numbers
<1> HIDE DEF g
<1>10. (\A k \in Fields : g[k] \notin Refused(k)) <=>
          \A k \in {"cvss_score", "port"} : r.field[k] \notin Refused(k)
  BY <1>8, <1>9
<1>11. CASE r.object
  <2>1. SemgrepRecord(r).object /\ SemgrepRecord(r).field = g
    BY <1>5, <1>11 DEF Record
  <2> QED
    BY <1>2, <1>4, <1>7, <1>10, <1>11, <2>1 DEF Accepts, Acceptable
<1>12. CASE ~r.object
  BY <1>4, <1>5, <1>12 DEF Accepts, Acceptable
<1> QED
  BY <1>4, <1>11, <1>12

(* A file is readable exactly if the reader of its format gets records     *)
(* from it, and its name is safe.                                          *)
LEMMA ReadableIsLoaded ==
    ASSUME NEW f \in File
    PROVE  Readable(f) <=> Load(f) = "records" /\ (InArchive => f.safe)
<1>1. f.shape \in Shapes
  BY DEF File
<1> QED
  BY <1>1 DEF Readable, Load, Shapes

(* The records of the readable files, one by one.                          *)
LEMMA InAllRecords ==
    ASSUME ParserTypeOK
    PROVE  \A q : q \in AllRecords <=>
              /\ q = <<q[1], q[2]>>
              /\ q[1] \in 1..Len(upload.files)
              /\ Readable(upload.files[q[1]])
              /\ q[2] \in 1..Len(RecordsOf(upload.files[q[1]]))
<1>1. DOMAIN upload.files = 1..Len(upload.files)
  BY UploadType, LenProperties
<1>2. \A q, f : q \in RecordsIn(f) <=>
         /\ Readable(upload.files[f])
         /\ q = <<q[1], q[2]>> /\ q[1] = f
         /\ q[2] \in 1..Len(upload.files[f].records)
  BY DEF RecordsIn
<1>3. \A f \in 1..Len(upload.files) :
         Len(RecordsOf(upload.files[f])) = Len(upload.files[f].records)
  BY UploadType, ElementOfSeq, RecordsOfType
<1> QED
  BY <1>1, <1>2, <1>3 DEF AllRecords

LEMMA AcceptedIsAcceptable ==
    ASSUME ParserTypeOK, NEW p \in AllRecords
    PROVE  IsAcceptable(p) <=> Accepts(RecordsOf(upload.files[p[1]])[p[2]])
<1>1. /\ p[1] \in 1..Len(upload.files)
      /\ p[2] \in 1..Len(RecordsOf(upload.files[p[1]]))
  BY InAllRecords
<1> DEFINE f == upload.files[p[1]]
           i == p[2]
<1>2. f \in File
  BY <1>1, UploadType, ElementOfSeq
<1> HIDE DEF f, i
<1>3. i \in 1..Len(RecordsOf(f)) /\ Len(RecordsOf(f)) = Len(f.records)
  BY <1>1, <1>2, RecordsOfType DEF f, i
<1>4. f.records \in Seq(Record) /\ i \in 1..Len(f.records)
  BY <1>2, <1>3 DEF File
<1>5. f.records[i] \in Record
  BY <1>4, ElementOfSeq
<1>6. IsAcceptable(p) <=> Acceptable(f.records[i], Decisive(f))
  BY DEF IsAcceptable, f, i
<1>7. IsAcceptable(p) <=> Accepts(RecordsOf(f)[i])
  <2>1. CASE Format(f) = "json" /\ f.shape = "results"
    <3>1. RecordsOf(f)[i] = SemgrepRecord(f.records[i])
      BY <1>4, <2>1 DEF RecordsOf
    <3>2. Decisive(f) = {"cvss_score", "port"}
      BY <2>1 DEF Decisive
    <3> QED
      BY <1>5, <1>6, <3>1, <3>2, AcceptsTheAcceptable
  <2>2. CASE ~(Format(f) = "json" /\ f.shape = "results")
    <3>1. RecordsOf(f)[i] = f.records[i] /\ Decisive(f) = Fields
      BY <2>2 DEF RecordsOf, Decisive
    <3> QED
      BY <1>5, <1>6, <3>1, AcceptsTheAcceptable
  <2> QED
    BY <2>1, <2>2
<1> QED
  BY <1>7 DEF f, i

(* The records the parser is through with.                                 *)
Behind ==
    {q \in AllRecords :
        \/ q[1] <= at
        \/ phase = "records" /\ q[1] = at + 1 /\ q[2] <= next}

(* At every step of the two loops: a record that is behind is in one of    *)
(* the lists, the one it belongs in, and no other is; the counter is their *)
(* number.  What is passed over without a record is unreadable.            *)
BehindInv ==
    /\ IsFiniteSet(Behind) /\ index = Cardinality(Behind)
    /\ RowSet(accepted) = {Numbered(p) : p \in {q \in Behind : IsAcceptable(q)}}
    /\ RowSet(invalid) = {Numbered(p) : p \in {q \in Behind : ~IsAcceptable(q)}}
    /\ phase \in {"files", "records"} => ~Unusable
    /\ phase = "files" => InArchive
    /\ phase = "records" => Readable(Current)
    /\ phase = "parsed" => at = Len(upload.files)

LEMMA InitBehind == ParserInit => BehindInv
<1> SUFFICES ASSUME ParserInit PROVE BehindInv
  OBVIOUS
<1>1. accepted = <<>> /\ invalid = <<>> /\ at = 0 /\ index = 0 /\ phase = "received"
  BY DEF ParserInit
<1>2. ParserTypeOK
  BY ParserInitType DEF ParserTypeInv
<1>3. Behind = {}
  BY <1>1, <1>2, InAllRecords DEF Behind
<1>4. RowSet(accepted) = {} /\ RowSet(invalid) = {}
  BY <1>1 DEF RowSet
<1>5. IsFiniteSet({}) /\ Cardinality({}) = 0
  BY FS_EmptySet
<1> QED
  BY <1>1, <1>3, <1>4, <1>5 DEF BehindInv

(* What is said of the records of an upload does not change with the       *)
(* parser's state.                                                         *)
LEMMA RecordsStay ==
    ASSUME upload' = upload
    PROVE  /\ AllRecords' = AllRecords
           /\ \A p : Numbered(p)' = Numbered(p) /\ IsAcceptable(p)' = IsAcceptable(p)
           /\ Unusable' = Unusable /\ InArchive' = InArchive
           /\ \A f : Readable(f)' = Readable(f)
<1>1. \A f : Readable(f)' = Readable(f)
  BY DEF Readable, InArchive
<1>2. \A f : RecordsIn(f)' = RecordsIn(f)
  BY <1>1 DEF RecordsIn
<1>3. AllRecords' = AllRecords
  BY <1>2 DEF AllRecords
<1>4. \A p : Numbered(p)' = Numbered(p)
  BY <1>3 DEF Numbered
<1>5. \A p : IsAcceptable(p)' = IsAcceptable(p)
  BY DEF IsAcceptable
<1>6. Unusable' = Unusable /\ InArchive' = InArchive
  BY DEF Unusable, InArchive, BadArchive
<1> QED
  BY <1>1, <1>3, <1>4, <1>5, <1>6

(* A step that leaves the same records behind.                             *)
LEMMA BehindStays ==
    ASSUME BehindInv, UNCHANGED <<upload, index, accepted, invalid>>, Behind' = Behind,
           phase' \in {"files", "records"} => ~Unusable,
           phase' = "files" => InArchive,
           phase' = "records" => Readable(Current'),
           phase' = "parsed" => at' = Len(upload.files)
    PROVE  BehindInv'
<1>1. /\ \A p : Numbered(p)' = Numbered(p) /\ IsAcceptable(p)' = IsAcceptable(p)
      /\ Unusable' = Unusable /\ InArchive' = InArchive
      /\ \A f : Readable(f)' = Readable(f)
  BY RecordsStay
<1>2. {Numbered(p) : p \in {q \in Behind : IsAcceptable(q)}}' =
         {Numbered(p) : p \in {q \in Behind : IsAcceptable(q)}}
  BY <1>1
<1>3. {Numbered(p) : p \in {q \in Behind : ~IsAcceptable(q)}}' =
         {Numbered(p) : p \in {q \in Behind : ~IsAcceptable(q)}}
  BY <1>1
<1>4. RowSet(accepted)' = RowSet(accepted) /\ RowSet(invalid)' = RowSet(invalid)
  BY DEF RowSet
<1>5. Readable(Current)' <=> Readable(Current')
  BY <1>1 DEF Readable, InArchive
<1> QED
  BY <1>1, <1>2, <1>3, <1>4, <1>5 DEF BehindInv

(* The record the parser is at comes after those behind it, and its row    *)
(* has their number.                                                       *)
LEMMA RecordIsNext ==
    ASSUME BehindInv, ParserTypeInv, AtRecord, upload' = upload,
           phase' = phase, at' = at, next' = next + 1, index' = index + 1
    PROVE  LET p == <<at + 1, next + 1>>
           IN  /\ p \in AllRecords /\ p \notin Behind
               /\ IsAcceptable(p) <=> Accepts(RecordsOf(Current)[next + 1])
               /\ Numbered(p) = NewRow
               /\ Behind' = Behind \cup {p}
               /\ IsFiniteSet(Behind') /\ index' = Cardinality(Behind')
<1> DEFINE p == <<at + 1, next + 1>>
<1>1. /\ at \in Nat /\ next \in Nat /\ index \in Nat /\ Len(upload.files) \in Nat
      /\ at < Len(upload.files) /\ phase = "records"
      /\ Len(RecordsOf(Current)) \in Nat /\ next < Len(RecordsOf(Current))
  BY UploadType, RecordsOfType DEF ParserTypeInv, ParserTypeOK, AtRecord
<1>2. Readable(Current)
  BY <1>1 DEF BehindInv
<1>3. p \in AllRecords
  BY <1>1, <1>2, InAllRecords DEF ParserTypeInv, Current
<1>4. \A q \in AllRecords : q[1] \in Nat /\ q[2] \in Nat /\ q = <<q[1], q[2]>>
  <2>1. \A q \in AllRecords :
           /\ q = <<q[1], q[2]>>
           /\ q[1] \in 1..Len(upload.files)
           /\ q[2] \in 1..Len(RecordsOf(upload.files[q[1]]))
    BY InAllRecords DEF ParserTypeInv
  <2>2. \A f \in 1..Len(upload.files) : Len(RecordsOf(upload.files[f])) \in Nat
    BY UploadType, ElementOfSeq, RecordsOfType DEF ParserTypeInv
  <2> QED
    BY <1>1, <2>1, <2>2
<1>5. \A q \in AllRecords : Precedes(q, p) <=> q[1] <= at \/ (q[1] = at + 1 /\ q[2] <= next)
  BY <1>1, <1>4 DEF Precedes
<1>6. {q \in AllRecords : Precedes(q, p)} = Behind
  BY <1>1, <1>5 DEF Behind
<1>7. Numbered(p) = NewRow
  BY <1>6 DEF Numbered, NewRow, BehindInv
<1>8. IsAcceptable(p) <=> Accepts(RecordsOf(Current)[next + 1])
  BY <1>3, AcceptedIsAcceptable DEF ParserTypeInv, Current
<1>9. p \notin Behind
  BY <1>1 DEF Behind
<1>10. \A q \in AllRecords :
          (q[1] = at + 1 /\ q[2] <= next + 1) <=>
             ((q[1] = at + 1 /\ q[2] <= next) \/ q = p)
  BY <1>1, <1>4
<1>11. Behind' = {q \in AllRecords : q[1] <= at \/ (q[1] = at + 1 /\ q[2] <= next + 1)}
  BY <1>1, RecordsStay DEF Behind
<1>12. Behind' = Behind \cup {p}
  <2>1. \A q \in AllRecords : q \in Behind' <=> q \in Behind \/ q = p
    BY <1>1, <1>4, <1>10, <1>11 DEF Behind
  <2>2. Behind' \subseteq AllRecords /\ Behind \subseteq AllRecords
    BY <1>11 DEF Behind
  <2> HIDE DEF p
  <2> QED
    BY <1>3, <2>1, <2>2
<1>13. IsFiniteSet(Behind') /\ Cardinality(Behind') = Cardinality(Behind) + 1
  BY <1>9, <1>12, FS_AddElement DEF BehindInv
<1> QED
  BY <1>1, <1>3, <1>7, <1>8, <1>9, <1>12, <1>13 DEF BehindInv

LEMMA RowSetAppend ==
    ASSUME NEW rows \in Seq(Row), NEW row \in Row
    PROVE  RowSet(Append(rows, row)) = RowSet(rows) \cup {row}
<1> DEFINE n == Len(rows)
           more == Append(rows, row)
<1>1. /\ n \in Nat /\ DOMAIN rows = 1..n /\ DOMAIN more = 1..(n + 1)
      /\ \A i \in 1..n : more[i] = rows[i]
      /\ more[n + 1] = row
  <2>1. more \in Seq(Row) /\ Len(more) = n + 1
    BY AppendProperties
  <2> QED
    BY <2>1, LenProperties, AppendProperties
<1>2. RowSet(more) = {more[i] : i \in 1..(n + 1)} /\ RowSet(rows) = {rows[i] : i \in 1..n}
  BY <1>1 DEF RowSet
<1>3. 1..(n + 1) = 1..n \cup {n + 1}
  BY <1>1
<1> HIDE DEF n, more
<1>4. RowSet(more) = RowSet(rows) \cup {row}
  BY <1>1, <1>2, <1>3
<1> QED
  BY <1>4 DEF more

(* One record more is behind, and in the list it belongs in.               *)
LEMMA BehindRecord ==
    ASSUME BehindInv, ParserTypeInv, AcceptRecord \/ RejectRecord
    PROVE  BehindInv'
<1> DEFINE p == <<at + 1, next + 1>>
<1>1. /\ AtRecord /\ upload' = upload /\ phase' = phase /\ at' = at
      /\ next' = next + 1 /\ index' = index + 1
  BY DEF AcceptRecord, RejectRecord
<1>2. /\ p \notin Behind
      /\ IsAcceptable(p) <=> Accepts(RecordsOf(Current)[next + 1])
      /\ Numbered(p) = NewRow
      /\ Behind' = Behind \cup {p}
      /\ IsFiniteSet(Behind') /\ index' = Cardinality(Behind')
  BY <1>1, RecordIsNext
<1>3. /\ \A q : Numbered(q)' = Numbered(q) /\ IsAcceptable(q)' = IsAcceptable(q)
      /\ Unusable' = Unusable /\ InArchive' = InArchive
      /\ \A f : Readable(f)' = Readable(f)
  BY <1>1, RecordsStay
<1> HIDE DEF p
<1>4. /\ {Numbered(q) : q \in {x \in Behind : IsAcceptable(x)}}' =
            {Numbered(q) : q \in {x \in Behind \cup {p} : IsAcceptable(x)}}
      /\ {Numbered(q) : q \in {x \in Behind : ~IsAcceptable(x)}}' =
            {Numbered(q) : q \in {x \in Behind \cup {p} : ~IsAcceptable(x)}}
  BY <1>2, <1>3
<1>5. NewRow \in Row /\ accepted \in Seq(Row) /\ invalid \in Seq(Row)
  BY <1>1, NewRowType DEF ParserTypeInv, ParserTypeOK
<1>6. CASE AcceptRecord
  <2>1. RowSet(accepted)' = RowSet(accepted) \cup {NewRow} /\ RowSet(invalid)' = RowSet(invalid)
    <3>1. accepted' = Append(accepted, NewRow) /\ invalid' = invalid
      BY <1>6 DEF AcceptRecord
    <3>2. RowSet(accepted') = RowSet(accepted) \cup {NewRow}
      BY <1>5, <3>1, RowSetAppend
    <3> QED
      BY <3>1, <3>2 DEF RowSet
  <2>2. IsAcceptable(p)
    BY <1>2, <1>6 DEF AcceptRecord
  <2>3. {x \in Behind \cup {p} : IsAcceptable(x)} = {x \in Behind : IsAcceptable(x)} \cup {p}
        /\ {x \in Behind \cup {p} : ~IsAcceptable(x)} = {x \in Behind : ~IsAcceptable(x)}
    BY <2>2
  <2>4. /\ RowSet(accepted)' = {Numbered(q) : q \in {x \in Behind \cup {p} : IsAcceptable(x)}}
        /\ RowSet(invalid)' = {Numbered(q) : q \in {x \in Behind \cup {p} : ~IsAcceptable(x)}}
    BY <1>2, <2>1, <2>3 DEF BehindInv
  <2> QED
    BY <1>1, <1>2, <1>3, <1>4, <2>4 DEF BehindInv, Current, Readable, InArchive, AtRecord
<1>7. CASE RejectRecord
  <2>1. RowSet(invalid)' = RowSet(invalid) \cup {NewRow} /\ RowSet(accepted)' = RowSet(accepted)
    <3>1. invalid' = Append(invalid, NewRow) /\ accepted' = accepted
      BY <1>7 DEF RejectRecord
    <3>2. RowSet(invalid') = RowSet(invalid) \cup {NewRow}
      BY <1>5, <3>1, RowSetAppend
    <3> QED
      BY <3>1, <3>2 DEF RowSet
  <2>2. ~IsAcceptable(p)
    BY <1>2, <1>7 DEF RejectRecord
  <2>3. {x \in Behind \cup {p} : ~IsAcceptable(x)} = {x \in Behind : ~IsAcceptable(x)} \cup {p}
        /\ {x \in Behind \cup {p} : IsAcceptable(x)} = {x \in Behind : IsAcceptable(x)}
    BY <2>2
  <2>4. /\ RowSet(accepted)' = {Numbered(q) : q \in {x \in Behind \cup {p} : IsAcceptable(x)}}
        /\ RowSet(invalid)' = {Numbered(q) : q \in {x \in Behind \cup {p} : ~IsAcceptable(x)}}
    BY <1>2, <2>1, <2>3 DEF BehindInv
  <2> QED
    BY <1>1, <1>2, <1>3, <1>4, <2>4 DEF BehindInv, Current, Readable, InArchive, AtRecord
<1> QED
  BY <1>6, <1>7

(* An entry that is passed over has no records.                            *)
LEMMA BehindSkip ==
    ASSUME BehindInv, ParserTypeInv, SkipUnsafe \/ SkipUnreadable
    PROVE  BehindInv'
<1>1. /\ phase = "files" /\ phase' = "files" /\ at' = at + 1
      /\ UNCHANGED <<upload, index, accepted, invalid>>
  BY DEF SkipUnsafe, SkipUnreadable, Fits, AtEntry, Skip, results
<1>2. ~Readable(Current)
  <2>1. CASE SkipUnsafe
    BY <1>1, <2>1 DEF SkipUnsafe, BehindInv, Readable
  <2>2. CASE SkipUnreadable
    <3>1. ~(Format(Current) \in {"json", "csv"} /\ Load(Current) = "records")
      BY <2>2 DEF SkipUnreadable
    <3>2. Current \in File
      BY <2>2, UploadType DEF SkipUnreadable, Fits, AtEntry, ParserTypeInv
    <3> QED
      BY <3>1, <3>2, ReadableIsLoaded DEF Readable
  <2> QED
    BY <2>1, <2>2
<1>3. at \in Nat
  BY DEF ParserTypeInv, ParserTypeOK
<1>4. \A q \in AllRecords : q[1] \in Nat /\ q[1] # at + 1
  BY <1>2, InAllRecords DEF ParserTypeInv, Current
<1>5. Behind = {q \in AllRecords : q[1] <= at} /\ Behind' = {q \in AllRecords : q[1] <= at + 1}
  BY <1>1, RecordsStay DEF Behind
<1>6. Behind' = Behind
  BY <1>3, <1>4, <1>5
<1> QED
  BY <1>1, <1>6, BehindStays DEF BehindInv

LEMMA BehindEnd ==
    ASSUME BehindInv, ParserTypeInv, EndFile
    PROVE  BehindInv'
<1>1. /\ phase = "records" /\ phase' \in {"files", "parsed"} /\ at' = at + 1
      /\ UNCHANGED <<upload, index, accepted, invalid>>
      /\ next = Len(RecordsOf(Current)) /\ at \in Nat
  BY DEF EndFile, results, ParserTypeInv, ParserTypeOK
<1>2. \A q \in AllRecords : q[1] \in Nat /\ (q[1] = at + 1 => q[2] <= next)
  BY <1>1, InAllRecords DEF ParserTypeInv, Current
<1>3. Behind' = {q \in AllRecords : q[1] <= at + 1}
  BY <1>1, RecordsStay DEF Behind
<1>4. Behind' = Behind
  BY <1>1, <1>2, <1>3 DEF Behind
<1>5. phase' = "parsed" => at' = Len(upload.files)
  <2> SUFFICES ASSUME phase' = "parsed" PROVE at + 1 = Len(upload.files)
    BY <1>1
  <2>1. Len(upload.files) = 1
    BY <1>1, SingleFile DEF EndFile, BehindInv, ParserTypeInv
  <2>2. at < Len(upload.files) /\ at \in Nat
    BY <1>1 DEF ParserTypeInv, ParserTypeOK
  <2> QED
    BY <2>1, <2>2
<1>6. phase' = "files" => InArchive
  BY DEF EndFile
<1> QED
  BY <1>1, <1>4, <1>5, <1>6, BehindStays DEF BehindInv

LEMMA ParserBehindStep ==
    ASSUME BehindInv, ParserTypeInv, ParserStep
    PROVE  BehindInv'
<1>1. CASE RefuseUpload \/ LoadDies \/ TooLarge \/ EntryDies \/ Finish
  <2>1. /\ UNCHANGED <<upload, at, index, accepted, invalid>>
        /\ phase' \in {"parsed", "refused", "died"} /\ phase # "records"
        /\ phase' = "parsed" => at = Len(upload.files)
    BY <1>1 DEF RefuseUpload, LoadDies, TooLarge, EntryDies, Finish, Fits, AtEntry, Stop, results
  <2>2. Behind' = Behind
    BY <2>1, RecordsStay DEF Behind
  <2> QED
    BY <2>1, <2>2, BehindStays
<1>2. CASE Open
  <2>1. /\ UNCHANGED <<upload, at, next, index, accepted, invalid>> /\ ~Unusable
        /\ phase = "received" /\ phase' \in {"files", "records"}
        /\ phase' = "files" => InArchive
        /\ phase' = "records" => ~InArchive /\ Load(upload.files[1]) = "records"
    BY <1>2 DEF Open, results
  <2>2. at = 0 /\ next = 0
    BY <2>1 DEF ParserTypeInv, Fresh
  <2>3. phase' = "records" => Readable(Current')
    <3> SUFFICES ASSUME phase' = "records" PROVE Readable(upload.files[1])
      BY <2>1, <2>2 DEF Current
    <3>1. Len(upload.files) = 1 /\ upload.files[1] \in File
      BY <2>1, SingleFile, UploadType, ElementOfSeq DEF ParserTypeInv
    <3> QED
      BY <2>1, <3>1, ReadableIsLoaded
  <2>4. \A q \in AllRecords : q[2] \in Nat \ {0}
    <3>1. \A f \in 1..Len(upload.files) : Len(RecordsOf(upload.files[f])) \in Nat
      BY UploadType, ElementOfSeq, RecordsOfType DEF ParserTypeInv
    <3> QED
      BY <3>1, InAllRecords DEF ParserTypeInv
  <2>5. Behind' = Behind
    BY <2>1, <2>2, <2>4, RecordsStay DEF Behind
  <2> QED
    BY <2>1, <2>3, <2>5, BehindStays
<1>3. CASE BeginFile
  <2>1. /\ UNCHANGED <<upload, at, index, accepted, invalid>> /\ next' = 0
        /\ phase = "files" /\ phase' = "records" /\ Readable(Current)
    BY <1>3, UploadType, ReadableIsLoaded DEF BeginFile, Fits, AtEntry, ParserTypeInv
  <2>2. Current' = Current /\ ~Unusable
    BY <2>1 DEF Current, BehindInv
  <2>3. \A q \in AllRecords : q[2] \in Nat \ {0}
    <3>1. \A f \in 1..Len(upload.files) : Len(RecordsOf(upload.files[f])) \in Nat
      BY UploadType, ElementOfSeq, RecordsOfType DEF ParserTypeInv
    <3> QED
      BY <3>1, InAllRecords DEF ParserTypeInv
  <2>4. Behind' = Behind
    BY <2>1, <2>3, RecordsStay DEF Behind
  <2> QED
    BY <2>1, <2>2, <2>4, BehindStays
<1> QED
  BY <1>1, <1>2, <1>3, BehindSkip, BehindRecord, BehindEnd DEF ParserStep

LEMMA ScanBehindStep == ParserTypeInv /\ BehindInv /\ [Next]_vars => BehindInv'
<1>1. ASSUME BehindInv, UNCHANGED parserVars PROVE BehindInv'
  <2>1. UNCHANGED <<upload, phase, at, next, index, accepted, invalid>>
    BY <1>1 DEF parserVars
  <2>2. Behind' = Behind /\ Current' = Current
    BY <2>1, RecordsStay DEF Behind, Current
  <2> QED
    BY <1>1, <2>1, <2>2, BehindStays DEF BehindInv
<1>2. ASSUME BehindInv, CreateDies PROVE BehindInv'
  <2>1. /\ UNCHANGED <<upload, at, index, accepted, invalid>>
        /\ phase' = "died" /\ phase = "parsed"
    BY <1>2 DEF CreateDies, Stop, results
  <2>2. Behind' = Behind
    BY <2>1, RecordsStay DEF Behind
  <2> QED
    BY <1>2, <2>1, <2>2, BehindStays
<1> QED
  BY <1>1, <1>2, ParserBehindStep, TaskStepsKeepParser DEF Next, vars, Parse, TaskStep

(* The parser's two loops divide the records of every upload as defined,   *)
(* under the numbers they have in the whole upload (parse_scan_upload).    *)
THEOREM ParsedAsItIsDefined == Spec => []ParsedAsDefined
<1>1. Init => ParserTypeInv /\ BehindInv
  BY ParserInitType, InitBehind DEF Init
<1>2. ParserTypeInv /\ BehindInv /\ [Next]_vars => (ParserTypeInv /\ BehindInv)'
  BY ScanTypeStep, ScanBehindStep
<1>3. ParserTypeInv /\ BehindInv => ParsedAsDefined
  <2> SUFFICES ASSUME ParserTypeInv, BehindInv, phase = "parsed"
               PROVE  /\ RowSet(accepted) = {Numbered(p) : p \in {q \in AllRecords : IsAcceptable(q)}}
                      /\ RowSet(invalid) = {Numbered(p) : p \in {q \in AllRecords : ~IsAcceptable(q)}}
    BY DEF ParsedAsDefined
  <2>1. \A q \in AllRecords : q[1] <= at
    BY InAllRecords, UploadType DEF ParserTypeInv, BehindInv
  <2>2. Behind = AllRecords
    BY <2>1 DEF Behind
  <2> QED
    BY <2>2 DEF BehindInv
<1> QED
  BY <1>1, <1>2, <1>3, PTL DEF Spec

-----------------------------------------------------------------------------
(* What a batch as a whole is given.                                       *)

LEMMA Scores == Score("low") = 25 /\ Score("medium") = 55 /\ Score("high") = 85
BY DEF Score

(* priority_for_batch: the maximum is there, and is one of the list's.     *)
LEMMA PriorityIsWorst ==
    ASSUME NEW list \in Seq(Item), list # <<>>
    PROVE  /\ \E i \in DOMAIN list : list[i].priority = PriorityForBatch(list)
           /\ \A i \in DOMAIN list :
                 Score(list[i].priority) <= Score(PriorityForBatch(list))
<1> DEFINE P == {list[i].priority : i \in DOMAIN list}
           Worst(p) == \A i \in DOMAIN list : Score(list[i].priority) <= Score(p)
<1>1. \A i \in DOMAIN list : list[i].priority \in Priorities
  <2>1. DOMAIN list = 1..Len(list)
    BY LenProperties
  <2>2. \A i \in DOMAIN list : list[i] \in Item
    BY <2>1, ElementOfSeq
  <2> QED
    BY <2>2 DEF Item
<1>2. P # {}
  <2>1. Len(list) \in Nat /\ Len(list) # 0 /\ DOMAIN list = 1..Len(list)
    BY LenProperties, EmptySeq
  <2>2. 1 \in DOMAIN list
    BY <2>1
  <2> QED
    BY <2>2
<1>3. \E p \in P : Worst(p)
  <2>1. CASE "high" \in P
    <3>1. Worst("high")
      BY <1>1, Scores DEF Priorities
    <3> QED
      BY <2>1, <3>1
  <2>2. CASE "high" \notin P /\ "medium" \in P
    <3>1. \A i \in DOMAIN list : list[i].priority \in {"low", "medium"}
      BY <1>1, <2>2 DEF Priorities
    <3>2. Worst("medium")
      BY <3>1, Scores
    <3> QED
      BY <2>2, <3>2
  <2>3. CASE "high" \notin P /\ "medium" \notin P
    <3>1. \A i \in DOMAIN list : list[i].priority = "low"
      BY <1>1, <2>3 DEF Priorities
    <3>2. Worst("low") /\ "low" \in P
      BY <1>2, <3>1, Scores
    <3> QED
      BY <3>2
  <2> QED
    BY <2>1, <2>2, <2>3
<1>4. PriorityForBatch(list) = CHOOSE p \in P : Worst(p)
  BY DEF PriorityForBatch
<1>5. PriorityForBatch(list) \in P /\ Worst(PriorityForBatch(list))
  <2> HIDE DEF P, Worst
  <2> QED
    BY <1>3, <1>4
<1> QED
  BY <1>5

(* A running sum over a list exists: each value is made of the one before. *)
LEMMA SumIsDefined ==
    ASSUME NEW list, NEW m \in Nat
    PROVE  \E g : g = [n \in 0..m |-> IF n = 0 THEN 0 ELSE Plus(g[n - 1], list[n].confidence)]
<1> DEFINE Eq(g, k) ==
             g = [n \in 0..k |-> IF n = 0 THEN 0 ELSE Plus(g[n - 1], list[n].confidence)]
           T == {k \in Nat : \E g : Eq(g, k)}
<1>1. 0 \in T
  <2> DEFINE g == [n \in 0..0 |-> 0]
  <2>1. \A n \in 0..0 : n = 0
    OBVIOUS
  <2>2. Eq(g, 0)
    BY <2>1
  <2> QED
    BY <2>2
<1>2. ASSUME NEW k \in Nat, k \in T PROVE k + 1 \in T
  <2>1. PICK g : Eq(g, k)
    BY <1>2
  <2> DEFINE h == [n \in 0..(k + 1) |->
                     IF n = k + 1 THEN Plus(g[k], list[k + 1].confidence) ELSE g[n]]
  <2>2. \A n \in 0..(k + 1) :
           h[n] = IF n = 0 THEN 0 ELSE Plus(h[n - 1], list[n].confidence)
    <3> TAKE n \in 0..(k + 1)
    <3>1. CASE n = k + 1
      BY <3>1
    <3>2. CASE n # k + 1
      <4>1. n \in 0..k /\ h[n] = g[n]
        BY <3>2
      <4>2. g[n] = IF n = 0 THEN 0 ELSE Plus(g[n - 1], list[n].confidence)
        BY <2>1, <4>1
      <4>3. n # 0 => n - 1 \in 0..(k + 1) /\ n - 1 # k + 1 /\ h[n - 1] = g[n - 1]
        BY <4>1
      <4> HIDE DEF h
      <4> QED
        BY <4>1, <4>2, <4>3
    <3> QED
      BY <3>1, <3>2
  <2>3. Eq(h, k + 1)
    <3>1. h = [n \in 0..(k + 1) |-> h[n]]
      OBVIOUS
    <3> HIDE DEF h
    <3> QED
      BY <2>2, <3>1
  <2> HIDE DEF Eq
  <2> QED
    BY <2>3
<1>3. Nat \subseteq T
  <2> HIDE DEF T
  <2> QED
    BY <1>1, <1>2, NumbersByInduction
<1> QED
  BY <1>3

(* The sum of probabilities is no more than all of them at their highest:  *)
(* with it the mean that is stored is a probability.                       *)
LEMMA SumOfProbabilities ==
    ASSUME NEW list \in Seq(Item), \A i \in DOMAIN list : list[i].confidence # NaN
    PROVE  SumOfConfidences(list) \in 0..(100 * Len(list))
<1> DEFINE L == Len(list)
           Eq(g) == g = [n \in 0..L |-> IF n = 0 THEN 0 ELSE Plus(g[n - 1], list[n].confidence)]
           sum == CHOOSE g : Eq(g)
           T == {n \in Nat : n \in 0..L => sum[n] \in 0..(100 * n)}
<1>1. L \in Nat /\ \A i \in 1..L : list[i].confidence \in 0..100
  <2>1. DOMAIN list = 1..L /\ L \in Nat
    BY LenProperties
  <2>2. \A i \in DOMAIN list : list[i] \in Item
    BY <2>1, ElementOfSeq
  <2> QED
    BY <2>1, <2>2 DEF Item, Confidences
<1>2. SumOfConfidences(list) = sum[L]
  BY DEF SumOfConfidences
<1>3. Eq(sum)
  <2>1. \E g : Eq(g)
    BY <1>1, SumIsDefined
  <2> HIDE DEF Eq
  <2> QED
    BY <2>1
<1> HIDE DEF sum
<1>4. /\ sum[0] = 0
      /\ \A n \in 1..L : sum[n] = Plus(sum[n - 1], list[n].confidence)
  <2>1. \A n \in 0..L : sum[n] = IF n = 0 THEN 0 ELSE Plus(sum[n - 1], list[n].confidence)
    BY <1>3
  <2> HIDE DEF Eq
  <2> QED
    BY <1>1, <2>1
<1> HIDE DEF L
<1>5. 0 \in T
  BY <1>4
<1>6. ASSUME NEW n \in Nat, n \in T PROVE n + 1 \in T
  <2> SUFFICES ASSUME n + 1 \in 0..L PROVE sum[n + 1] \in 0..(100 * (n + 1))
    OBVIOUS
  <2>1. n \in 0..L /\ n + 1 \in 1..L
    BY <1>1
  <2>2. sum[n] \in 0..(100 * n) /\ list[n + 1].confidence \in 0..100
    BY <1>1, <1>6, <2>1
  <2>3. sum[n + 1] = Plus(sum[n], list[n + 1].confidence)
    BY <1>4, <2>1
  <2>4. sum[n + 1] = sum[n] + list[n + 1].confidence
    BY <2>2, <2>3, NumberAssumption DEF Plus
  <2>5. \A x \in 0..(100 * n), y \in 0..100 : x + y \in 0..(100 * (n + 1))
    OBVIOUS
  <2> QED
    BY <2>2, <2>4, <2>5
<1>7. L \in T
  <2> HIDE DEF T
  <2>1. Nat \subseteq T
    BY <1>5, <1>6, NumbersByInduction
  <2> QED
    BY <1>1, <2>1
<1> QED
  BY <1>1, <1>2, <1>7 DEF L

(* A result that is stored is the worst of its predictions, and bounded.   *)
WorstInv ==
    /\ partial \in BOOLEAN
    /\ pc \in {"none", "queued", "predict", "complete", "salvage", "fail", "ack", "acked"}
    /\ crashes \in 0..MaxCrashes
    /\ pc = "salvage" => predicted # <<>>
    /\ result # NoResult =>
          /\ result \in Result
          /\ \E i \in DOMAIN items : items[i].priority = result.priority
          /\ \A i \in DOMAIN items : Score(items[i].priority) <= Score(result.priority)
          /\ result.confidence \in 0..(100 * Len(items))

LEMMA CompletionIsWorst ==
    ASSUME ReportInv, ParserTypeInv, WorstInv, CompleteBatch \/ Salvage
    PROVE  WorstInv'
<1>1. predicted \in Seq(Item) /\ Len(predicted) \in Nat /\ Completable
  BY DEF ReportInv, WorkInv, Predicted, CompleteBatch, Salvage, Complete
<1>2. predicted # <<>>
  <2>1. CASE CompleteBatch
    <3>1. Len(predicted) = Len(accepted) /\ accepted # <<>> /\ accepted \in Seq(Row)
      BY <2>1 DEF CompleteBatch, ReportInv, WorkInv, ParserTypeInv, ParserTypeOK
    <3> QED
      BY <3>1, EmptySeq
  <2> QED
    BY <2>1 DEF Salvage, WorstInv
<1>3. PICK rejected \in Nat, early \in BOOLEAN : Complete(rejected, early)
  <2>1. Len(invalid) \in Nat /\ Unprocessed \in Nat
    BY <1>1 DEF Unprocessed, ReportInv, WorkInv, Predicted, ParserTypeInv, ParserTypeOK
  <2>2. Len(invalid) + Unprocessed \in Nat
    BY <2>1
  <2> QED
    BY <2>1, <2>2 DEF CompleteBatch, Salvage
<1>4. /\ \E i \in DOMAIN predicted : predicted[i].priority = PriorityForBatch(predicted)
      /\ \A i \in DOMAIN predicted :
            Score(predicted[i].priority) <= Score(PriorityForBatch(predicted))
  BY <1>1, <1>2, PriorityIsWorst
<1>5. SumOfConfidences(predicted) \in 0..(100 * Len(predicted))
  BY <1>1, SumOfProbabilities DEF Completable
<1>6. PriorityForBatch(predicted) \in Priorities
  <2>1. DOMAIN predicted = 1..Len(predicted)
    BY <1>1, LenProperties
  <2>2. \A i \in DOMAIN predicted : predicted[i] \in Item
    BY <1>1, <2>1, ElementOfSeq
  <2> QED
    BY <1>4, <2>2 DEF Item
<1> DEFINE new == [priority |-> PriorityForBatch(predicted),
                   confidence |-> SumOfConfidences(predicted),
                   processed |-> Len(predicted), rejected |-> rejected]
<1>7. /\ new \in Result /\ new.priority = PriorityForBatch(predicted)
      /\ new.confidence = SumOfConfidences(predicted)
  BY <1>1, <1>5, <1>6 DEF Result
<1>8. /\ partial' = early /\ items' = predicted /\ result' = new /\ pc' = "ack"
      /\ crashes' = crashes
  BY <1>3 DEF Complete
<1> HIDE DEF new
<1> QED
  BY <1>1, <1>4, <1>5, <1>7, <1>8 DEF WorstInv

LEMMA WorstStep ==
    ASSUME ReportInv, ParserTypeInv, WorstInv, [Next]_vars
    PROVE  WorstInv'
<1>1. CASE CompleteBatch \/ Salvage
  BY <1>1, CompletionIsWorst
<1>2. CASE ~(CompleteBatch \/ Salvage)
  <2>1. UNCHANGED <<items, result>>
    BY <1>2 DEF Next, WorkerStep, vars, Parse, CreateTask, CreateDies, FailEmpty, StartBatch,
           SkipCompleted, PredictRecord, PredictRaises, CompleteRaises, SalvageRaises, FailTask,
           Ack, Crash, taskVars
  <2>2. partial' \in {partial, FALSE}
    BY <1>2 DEF Next, WorkerStep, vars, Parse, CreateTask, CreateDies, FailEmpty, StartBatch,
           SkipCompleted, PredictRecord, PredictRaises, CompleteRaises, SalvageRaises, FailTask,
           Ack, Crash, taskVars
  <2>3. crashes' \in 0..MaxCrashes
    BY <1>2, ReplyAssumption DEF WorstInv, Next, WorkerStep, vars, Parse, CreateTask, CreateDies, FailEmpty,
           StartBatch, SkipCompleted, PredictRecord, PredictRaises, CompleteRaises, SalvageRaises,
           FailTask, Ack, Crash, taskVars
  <2>4. /\ pc' \in {"none", "queued", "predict", "complete", "salvage", "fail", "ack", "acked"}
        /\ pc' = "salvage" => predicted' = predicted /\ predicted # <<>>
    BY <1>2 DEF WorstInv, Next, WorkerStep, vars, Parse, CreateTask, CreateDies, FailEmpty,
           StartBatch, SkipCompleted, PredictRecord, PredictRaises, CompleteRaises, SalvageRaises,
           FailTask, Ack, Crash, taskVars, Handler
  <2> QED
    BY <2>1, <2>2, <2>3, <2>4 DEF WorstInv
<1> QED
  BY <1>1, <1>2

LEMMA WorstInvariant == Spec => [](ParserTypeInv /\ ReportInv /\ WorstInv)
<1>1. Init => WorstInv
  <2>1. 0 \in 0..MaxCrashes
    BY ReplyAssumption
  <2> QED
    BY <2>1 DEF Init, WorstInv
<1>2. WorstInv /\ ParserTypeInv /\ ReportInv /\ [Next]_vars => WorstInv'
  BY WorstStep
<1> QED
  BY ScanInvHolds, <1>1, <1>2, PTL DEF Spec

(* The parser, the task and the worker keep to their types: the result row *)
(* too, whatever the runtime answered.                                     *)
THEOREM ScanTypeCorrect == Spec => []TypeOK
<1>1. ParserTypeInv /\ ReportInv /\ WorstInv => TypeOK
  BY DEF ParserTypeInv, ReportInv, WorkInv, Predicted, WorstInv, TypeOK
<1> QED
  BY WorstInvariant, <1>1, PTL

(* A batch is given the worst priority of its predictions and a mean of    *)
(* probabilities (services.py, complete_batch_task), for lists of any      *)
(* length.                                                                 *)
THEOREM BatchesAreTheirWorst == Spec => []BatchIsItsWorst
<1>1. ReportInv /\ WorstInv => BatchIsItsWorst
  <2> SUFFICES ASSUME ReportInv, WorstInv, ReportAvailable
               PROVE  /\ \E i \in DOMAIN items : items[i].priority = result.priority
                      /\ \A i \in DOMAIN items :
                            /\ result.priority = "low" => items[i].priority = "low"
                            /\ result.priority = "medium" => items[i].priority # "high"
                      /\ result.confidence \in 0..(100 * Len(items))
    BY DEF BatchIsItsWorst
  <2>1. /\ \E i \in DOMAIN items : items[i].priority = result.priority
        /\ \A i \in DOMAIN items : Score(items[i].priority) <= Score(result.priority)
        /\ result.confidence \in 0..(100 * Len(items))
    BY DEF WorstInv, ReportAvailable
  <2>2. \A i \in DOMAIN items : items[i].priority \in {"low", "medium", "high"}
    <3>1. items \in Seq(Item) /\ DOMAIN items = 1..Len(items)
      BY LenProperties DEF ReportInv, WorkInv, Predicted
    <3>2. \A i \in DOMAIN items : items[i] \in Item
      BY <3>1, ElementOfSeq
    <3> QED
      BY <3>2 DEF Item, Priorities
  <2> QED
    BY <2>1, <2>2, Scores
<1> QED
  BY WorstInvariant, <1>1, PTL
=============================================================================
