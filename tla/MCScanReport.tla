---------------------------- MODULE MCScanReport ----------------------------
(* Small uploads for ScanReport: single files and archives, each with one  *)
(* thing in them that the parser treats differently.                       *)
EXTENDS ScanReport, TLC

Fine == [k \in Fields |-> IF k = "semgrep_path" THEN "absent" ELSE "good"]
Rec(field) == [object |-> TRUE, finite |-> TRUE, field |-> field]

good    == Rec(Fine)
spaces  == Rec([Fine EXCEPT !["port"] = "blank", !["has_cve"] = "blank"])
noName  == Rec([Fine EXCEPT !["scanner_name"] = "blank"])
badCvss == Rec([Fine EXCEPT !["cvss_score"] = "bad"])
semgrep == Rec([Fine EXCEPT !["scanner_name"] = "semgrep"])
noRank  == Rec([Fine EXCEPT !["severity_reported"] = "semgrep"])
asset   == Rec([Fine EXCEPT !["asset_type"] = "semgrep"])
nulls   == Rec([Fine EXCEPT !["cvss_score"] = "null", !["has_cve"] = "null"])
line    == Rec([k \in Fields |-> "absent"])
nan     == [Rec(Fine) EXCEPT !.finite = FALSE]
text    == [Rec(Fine) EXCEPT !.object = FALSE]

JsonFile(shape, recs) == [safe |-> TRUE, size |-> 1, suffix |-> "json", type |-> "",
                          shape |-> shape, records |-> recs]
CsvFile(shape, recs)  == [JsonFile(shape, recs) EXCEPT !.suffix = "csv"]

One(f) == [suffix |-> f.suffix, type |-> f.type, empty |-> FALSE, zip |-> FALSE,
           files |-> <<f>>]
Archive(fs) == [suffix |-> "zip", type |-> "", empty |-> FALSE, zip |-> TRUE, files |-> fs]

listed == JsonFile("list", <<good, text, good>>)
table  == CsvFile("table", <<noName, spaces>>)

SingleFiles ==
    {One(f) : f \in {
        listed, table, JsonFile("findings", <<semgrep, badCvss, nan>>),
        JsonFile("results", <<noName, badCvss, text>>),
        JsonFile("list", <<[badCvss EXCEPT !.finite = FALSE], good>>),
        JsonFile("list", <<noName>>), JsonFile("list", <<>>),
        JsonFile("list", <<noRank, asset, nulls>>), CsvFile("table", <<asset, noRank>>),
        CsvFile("list", <<line>>), CsvFile("deep", <<>>),
        JsonFile("object", <<>>), JsonFile("text", <<>>), JsonFile("deep", <<>>),
        CsvFile("headless", <<>>), CsvFile("brokenTable", <<>>)}}
      \cup {[One(listed) EXCEPT !.suffix = "", !.files[1].suffix = ""],
            [One(listed) EXCEPT !.empty = TRUE, !.files = <<JsonFile("text", <<>>)>>]}

Archives ==
    {Archive(fs) : fs \in {
        <<listed, table, listed>>,
        <<table, [listed EXCEPT !.safe = FALSE], JsonFile("results", <<badCvss, good>>)>>,
        <<JsonFile("deep", <<>>), JsonFile("binary", <<>>),
          [listed EXCEPT !.suffix = ""], CsvFile("table", <<good, good>>)>>,
        <<[listed EXCEPT !.size = 3], [table EXCEPT !.size = 3]>>,
        <<CsvFile("text", <<line, line>>), [table EXCEPT !.shape = "locked"], listed>>,
        <<listed, CsvFile("brokenTable", <<>>)>>,
        <<listed, JsonFile("corrupt", <<>>)>>,
        <<[listed EXCEPT !.safe = FALSE]>>,
        <<listed, listed, listed, listed, listed>>,
        <<>>}}
      \cup {[Archive(<<>>) EXCEPT !.zip = FALSE]}

MCUploads == SingleFiles \cup Archives

Answer == [http |-> "json", hollow |-> {}, content |-> "object", priority |-> "low",
           confidence |-> 40, reason |-> "text"]

MCReplies ==
    {Answer, [Answer EXCEPT !.priority = "high", !.confidence = 100],
     [Answer EXCEPT !.confidence = NaN], [Answer EXCEPT !.confidence = 700],
     [Answer EXCEPT !.confidence = -1], [Answer EXCEPT !.confidence = NotNumber],
     [Answer EXCEPT !.priority = "other"],
     [Answer EXCEPT !.priority = "medium", !.hollow = {"choices"}],
     [Answer EXCEPT !.content = "notJson"], [Answer EXCEPT !.http = "network"]}
=============================================================================
