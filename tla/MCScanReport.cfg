\* Uploads of up to four files, a runtime that answers anything, a crash.
CONSTANTS
    NaN = NaN
    NotNumber = NotNumber
    NoResult = NoResult
    Uploads <- MCUploads
    MaxFiles = 4
    MaxTotalSize = 5
    Client = "openai"
    Replies <- MCReplies
    MaxCrashes = 1

SPECIFICATION Spec
INVARIANTS
    TypeOK
    NumberedOnce
    ParsedAsDefined
    FilesAddUp
    ReportMatchesUpload
    BatchIsItsWorst
PROPERTIES
    ReportIsFinal
\* An upload that was answered or whose message is acknowledged is done.
CHECK_DEADLOCK FALSE
