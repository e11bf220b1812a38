\* Two users and an administrator take turns in one tab; no upload.
CONSTANTS
    NoUser = NoUser
    NoTask = NoTask
    NoFlow = NoFlow
    Users = {anna, boris, root}
    AdminUsers = {root}
    Tasks = {}
    Flows = {f1, f2}
    MaxErrors = 1
    MaxReopens = 0

SPECIFICATION FairSpec
INVARIANTS
    SessionIsShown
    OwnDataIsShown
PROPERTIES
    GhostVanishes
