----------------------------- MODULE ScanParser -----------------------------
(***************************************************************************)
(* parse_scan_upload (scan_parser.py): one uploaded file, or the files of  *)
(* a ZIP archive one after the other, become accepted and rejected         *)
(* records that are numbered through the whole upload.                     *)
(*                                                                         *)
(* The loops are steps: `at` files are behind it, and `next` records of    *)
(* the file it is in.  A record is told apart by what validation does with *)
(* it: each field has a value class instead of a value.                    *)
(***************************************************************************)
EXTENDS Integers, Sequences

CONSTANTS
    Uploads,       \* the uploads considered
    MaxFiles,      \* max_files
    MaxTotalSize   \* max_total_size

RequiredText   == {"scanner_name", "finding_type"}
Numbers        == {"cvss_score", "port", "description_length"}
OptionalFields == Numbers \cup {"asset_type"}
Fields         == RequiredText \cup OptionalFields
                    \cup {"severity_reported", "has_cve", "semgrep_path"}

(* "blank" is text of spaces or none, "semgrep" is that text, "good" any   *)
(* other value that the field's type and validator let pass, "bad" one     *)
(* that they do not.                                                       *)
Values == {"absent", "null", "blank", "good", "semgrep", "bad"}

(* finite: no number in the record is NaN or infinite; JSON as Python      *)
(* reads it has both.                                                      *)
Record == [object : BOOLEAN, finite : BOOLEAN, field : [Fields -> Values]]

(* What the bytes are: JSON of some shape, a CSV table, text that is       *)
(* neither, nothing or nothing in the first line, not UTF-8, JSON nested   *)
(* too deep for the decoder or with a number too long for it, text that    *)
(* csv.reader stops at, or a ZIP member whose checksum is wrong or that is *)
(* encrypted.                                                              *)
Shapes == {"list", "findings", "results", "object", "table", "headless",
           "text", "binary", "deep", "brokenTable", "corrupt", "locked"}

Formats == {"json", "csv", "zip", ""}

(* records is what the reader of the file's format makes of it: elements of*)
(* a JSON array, or the rows of a DictReader, to which any text is a table.*)
File == [safe : BOOLEAN, size : Nat, suffix : Formats, type : Formats,
         shape : Shapes, records : Seq(Record)]

(* One file is an upload with that one file in files; the files of an      *)
(* archive are its entries without the directories.                        *)
Upload == [suffix : Formats, type : Formats, empty : BOOLEAN, zip : BOOLEAN,
           files : Seq(File)]

-----------------------------------------------------------------------------
(* _detect_format: either the name or the content type, JSON first.        *)
Format(f) ==
    IF "json" \in {f.suffix, f.type} THEN "json"
    ELSE IF "csv" \in {f.suffix, f.type} THEN "csv"
    ELSE IF "zip" \in {f.suffix, f.type} THEN "zip"
    ELSE ""

ASSUME UploadAssumption ==
    /\ MaxFiles \in Nat /\ MaxTotalSize \in Nat
    /\ Uploads \subseteq Upload
    /\ \A u \in Uploads : Format(u) \in {"json", "csv"} =>
          /\ Len(u.files) = 1 /\ Format(u.files[1]) = Format(u)
          /\ u.files[1].shape \notin {"corrupt", "locked"}

(* Mutant: blank text is not looked for.                                   *)
Normalize_KeepsBlank(v) == v

(* _normalize_empty_values.                                                *)
Normalize(v) ==
    [k \in Fields |->
        IF v[k] # "blank" THEN v[k]
        ELSE IF k = "has_cve" THEN "absent"
        ELSE IF k \in OptionalFields THEN "null"
        ELSE "blank"]

(* Mutant: the severity is any text.                                       *)
Valid_AnySeverity(v) ==
    /\ \A k \in RequiredText \cup {"severity_reported"} : v[k] \in {"good", "semgrep"}
    /\ v["asset_type"] \in {"absent", "null", "good", "semgrep"}
    /\ \A k \in Numbers : v[k] \in {"absent", "null", "good"}
    /\ v["has_cve"] \in {"absent", "good"}

(* FindingRecordInput.model_validate.  semgrep_path is none of its fields. *)
Valid(v) ==
    /\ \A k \in RequiredText : v[k] \in {"good", "semgrep"}
    /\ v["severity_reported"] = "good"
    /\ v["asset_type"] \in {"absent", "null", "good", "semgrep"}
    /\ \A k \in Numbers : v[k] \in {"absent", "null", "good"}
    /\ v["has_cve"] \in {"absent", "good"}

Accepts(r) == r.object /\ Valid(Normalize(r.field))

(* One result of _normalize_semgrep_results: the fields it does not write  *)
(* are those of the result.                                                *)
SemgrepRecord(r) ==
    IF ~r.object THEN r
    ELSE [r EXCEPT !.field =
             [k \in Fields |-> CASE k = "scanner_name" -> "semgrep"
                                 [] k \in {"cvss_score", "port"} -> r.field[k]
                                 [] OTHER -> "good"]]

RecordsOf(f) ==
    IF Format(f) = "json" /\ f.shape = "results"
    THEN [i \in 1..Len(f.records) |-> SemgrepRecord(f.records[i])]
    ELSE f.records

(* How archive.read and _load_records end: with records, a ScanUploadParse-*)
(* Error, a Runtime- or ValueError, or an exception that nobody expects.   *)
Load(f) ==
    CASE f.shape = "corrupt" -> "other"
      [] f.shape = "locked" -> "runtime"
      [] Format(f) = "json" /\ f.shape = "deep" -> "runtime"
      [] Format(f) = "json" /\ f.shape \in {"list", "findings", "results"} -> "records"
      [] Format(f) = "csv" /\ f.shape = "brokenTable" -> "other"
      [] Format(f) = "csv" /\ f.shape \notin {"brokenTable", "headless", "binary",
                                            "corrupt", "locked"} -> "records"
      [] OTHER -> "refused"

(* _infer_source_tool looks at the first record only; semgrep_path is a    *)
(* key of every normalized result.                                         *)
LooksLikeSemgrep(r) ==
    r.object /\ (r.field["scanner_name"] = "semgrep" \/ r.field["semgrep_path"] # "absent")

Tool(f) ==
    IF Format(f) = "csv" THEN "generic_csv"
    ELSE IF RecordsOf(f) # <<>> /\ LooksLikeSemgrep(RecordsOf(f)[1]) THEN "semgrep"
    ELSE "generic_json"

FileStatus(ok, bad) ==
    IF ok > 0 /\ bad > 0 THEN "partial_invalid"
    ELSE IF ok > 0 THEN "accepted" ELSE "all_invalid"

-----------------------------------------------------------------------------
VARIABLES
    upload,
    phase,             \* where parse_scan_upload is, or how it ended
    at, next,          \* files and records of the current file behind it
    size,              \* total_uncompressed_size
    index,             \* global_record_index
    accepted, invalid, \* accepted_records, invalid_records
    okHere, badHere,   \* file_accepted_count, file_rejected_count
    sources, skipped   \* source_files, invalid_files

parserVars == <<upload, phase, at, next, size, index, accepted, invalid,
                okHere, badHere, sources, skipped>>
results    == <<accepted, invalid, index, okHere, badHere>>

Ended == phase \in {"parsed", "refused", "died"}

Current == upload.files[at + 1]

(* A row of accepted_records or invalid_records: its number and where the  *)
(* record came from.                                                       *)
Row    == [index : Nat, file : Nat, pos : Nat]
Source == [file : Nat, tool : {"semgrep", "generic_csv", "generic_json"},
           ok : Nat, bad : Nat, status : {"partial_invalid", "accepted", "all_invalid"}]

ParserTypeOK ==
    /\ upload \in Uploads
    /\ phase \in {"received", "files", "records", "parsed", "refused", "died"}
    /\ at \in 0..Len(upload.files)
    /\ next \in Nat
    /\ phase = "records" => at < Len(upload.files) /\ next <= Len(RecordsOf(Current))
    /\ size \in Nat
    /\ index \in Nat
    /\ accepted \in Seq(Row) /\ invalid \in Seq(Row)
    /\ okHere \in Nat /\ badHere \in Nat
    /\ sources \in Seq(Source)
    /\ skipped \in Seq(Nat)

ParserInit ==
    /\ upload \in Uploads
    /\ phase = "received"
    /\ at = 0 /\ next = 0 /\ size = 0 /\ index = 0
    /\ accepted = <<>> /\ invalid = <<>>
    /\ okHere = 0 /\ badHere = 0
    /\ sources = <<>> /\ skipped = <<>>

-----------------------------------------------------------------------------
Stop(how) ==
    /\ phase' = how
    /\ UNCHANGED <<upload, at, next, size, results, sources, skipped>>

InArchive == Format(upload) = "zip"

(* The ScanUploadParseErrors before any record is looked at.               *)
BadArchive == ~upload.zip \/ upload.files = <<>> \/ Len(upload.files) > MaxFiles

Unusable ==
    \/ upload.empty
    \/ Format(upload) = ""
    \/ InArchive /\ BadArchive
    \/ ~InArchive /\ Load(upload.files[1]) = "refused"

RefuseUpload ==
    /\ phase = "received"
    /\ Unusable
    /\ Stop("refused")

(* An exception of another kind is nobody's: the request is answered 500.  *)
LoadDies ==
    /\ phase = "received"
    /\ ~Unusable /\ ~InArchive
    /\ Load(upload.files[1]) \in {"runtime", "other"}
    /\ Stop("died")

(* The records of a single file, or the entries of an archive.             *)
Open ==
    /\ phase = "received"
    /\ ~Unusable
    /\ \/ InArchive /\ phase' = "files"
       \/ ~InArchive /\ Load(upload.files[1]) = "records" /\ phase' = "records"
    /\ UNCHANGED <<upload, at, next, size, results, sources, skipped>>

-----------------------------------------------------------------------------
(* One entry of an archive.                                                *)

AtEntry == phase = "files" /\ at < Len(upload.files)

Skip ==
    /\ skipped' = Append(skipped, at + 1)
    /\ at' = at + 1
    /\ UNCHANGED <<upload, phase, next, results, sources>>

(* An unsafe name: the entry's size does not count.                        *)
SkipUnsafe ==
    /\ AtEntry
    /\ ~Current.safe
    /\ Skip
    /\ UNCHANGED size

Fits == AtEntry /\ Current.safe /\ size + Current.size <= MaxTotalSize

TooLarge ==
    /\ AtEntry
    /\ Current.safe
    /\ size + Current.size > MaxTotalSize
    /\ Stop("refused")

(* Neither JSON nor CSV, or an exception that the loop expects.            *)
SkipUnreadable ==
    /\ Fits
    /\ Format(Current) \in {"json", "csv"} => Load(Current) \in {"refused", "runtime"}
    /\ Skip
    /\ size' = size + Current.size

(* A wrong checksum (BadZipFile) and csv.Error are not among those.        *)
EntryDies ==
    /\ Fits
    /\ Format(Current) \in {"json", "csv"}
    /\ Load(Current) = "other"
    /\ Stop("died")

(* Mutant: the counts of the file before are kept.                         *)
BeginFile_KeepsCounts ==
    /\ Fits
    /\ Format(Current) \in {"json", "csv"}
    /\ Load(Current) = "records"
    /\ phase' = "records"
    /\ next' = 0
    /\ size' = size + Current.size
    /\ UNCHANGED <<upload, at, results, sources, skipped>>

BeginFile ==
    /\ Fits
    /\ Format(Current) \in {"json", "csv"}
    /\ Load(Current) = "records"
    /\ phase' = "records"
    /\ next' = 0
    /\ okHere' = 0 /\ badHere' = 0
    /\ size' = size + Current.size
    /\ UNCHANGED <<upload, at, index, accepted, invalid, sources, skipped>>

-----------------------------------------------------------------------------
(* One record.                                                             *)

AtRecord == phase = "records" /\ next < Len(RecordsOf(Current))

NewRow == [index |-> index, file |-> at + 1, pos |-> next + 1]

(* Mutant: the record is numbered within its file.                         *)
AcceptRecord_NumberInFile ==
    /\ AtRecord
    /\ Accepts(RecordsOf(Current)[next + 1])
    /\ accepted' = Append(accepted, [NewRow EXCEPT !.index = next])
    /\ okHere' = okHere + 1
    /\ index' = index + 1
    /\ next' = next + 1
    /\ UNCHANGED <<upload, phase, at, size, invalid, badHere, sources, skipped>>

AcceptRecord ==
    /\ AtRecord
    /\ Accepts(RecordsOf(Current)[next + 1])
    /\ accepted' = Append(accepted, NewRow)
    /\ okHere' = okHere + 1
    /\ index' = index + 1
    /\ next' = next + 1
    /\ UNCHANGED <<upload, phase, at, size, invalid, badHere, sources, skipped>>

(* Not an object, or a ValidationError.                                    *)
RejectRecord ==
    /\ AtRecord
    /\ ~Accepts(RecordsOf(Current)[next + 1])
    /\ invalid' = Append(invalid, NewRow)
    /\ badHere' = badHere + 1
    /\ index' = index + 1
    /\ next' = next + 1
    /\ UNCHANGED <<upload, phase, at, size, accepted, okHere, sources, skipped>>

EndFile ==
    /\ phase = "records"
    /\ next = Len(RecordsOf(Current))
    /\ sources' = Append(sources,
           [file |-> at + 1, tool |-> Tool(Current), ok |-> okHere, bad |-> badHere,
            status |-> FileStatus(okHere, badHere)])
    /\ at' = at + 1
    /\ phase' = IF InArchive THEN "files" ELSE "parsed"
    /\ UNCHANGED <<upload, next, size, results, skipped>>

Finish ==
    /\ phase = "files"
    /\ at = Len(upload.files)
    /\ Stop(IF sources = <<>> THEN "refused" ELSE "parsed")

ParserStep ==
    \/ RefuseUpload \/ LoadDies \/ Open
    \/ SkipUnsafe \/ TooLarge \/ SkipUnreadable \/ EntryDies \/ BeginFile
    \/ AcceptRecord \/ RejectRecord \/ EndFile
    \/ Finish

-----------------------------------------------------------------------------
(* Every record gets a number of its own, accepted or not, and the numbers *)
(* follow the order of the files and of the records in them: the report    *)
(* and the predictions are joined to the upload by nothing else            *)
(* (global_record_index, record_index).                                    *)
Increasing(rows) == \A i, j \in DOMAIN rows : i < j => rows[i].index < rows[j].index

NumberedOnce ==
    /\ index = Len(accepted) + Len(invalid)
    /\ \A i \in DOMAIN accepted : accepted[i].index < index
    /\ \A i \in DOMAIN invalid : invalid[i].index < index
    /\ Increasing(accepted) /\ Increasing(invalid)
    /\ \A i \in DOMAIN accepted, j \in DOMAIN invalid :
          accepted[i].index # invalid[j].index
=============================================================================
