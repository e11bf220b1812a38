\* One user in one tab uploads two files.
CONSTANTS
    NoUser = NoUser
    NoTask = NoTask
    NoFlow = NoFlow
    Users = {anna}
    AdminUsers = {}
    Tasks = {t1, t2}
    Flows = {f1, f2}
    MaxErrors = 0
    MaxReopens = 1

SPECIFICATION FairSpec
INVARIANTS
    TypeOK
    PollsOwnTasks
PROPERTIES
    PolledIsReported
    LoggedOutStopsPolling
