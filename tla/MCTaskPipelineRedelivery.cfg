\* Crashes and redeliveries, one consumer of a message at a time.
CONSTANTS
    u1 = u1
    w1 = w1
    w2 = w2
    a1 = a1
    one = one
    upload = upload
    bad = bad
    empty = empty
    NoTask = NoTask
    NoUser = NoUser
    NoResult = NoResult
    Users = {u1}
    Tasks = {one, upload, bad, empty}
    Workers = {w1, w2}
    Admins = {a1}
    Owner <- MCOwner
    Kind <- MCKind
    Accepted <- MCAccepted
    Invalid <- MCInvalid
    WellFormed <- MCWellFormed
    Price <- MCPrice
    InitialBalance <- MCInitialBalance
    TopUpAmount <- MCTopUpAmount
    MaxTopUps = 1
    MaxCrashes = 2
    MaxRequeues = 0
    ReliablePublish = TRUE

SPECIFICATION Spec
SYMMETRY WorkerSymmetry
INVARIANTS
    TypeOK
    ChargedExactlyForResult
    RecordsAccountedFor
    OpenIsInHand
PROPERTIES
    CompletedIsFinal
    ImplementsLifecycle
\* Once every task is settled the system waits for the next request.
CHECK_DEADLOCK FALSE
