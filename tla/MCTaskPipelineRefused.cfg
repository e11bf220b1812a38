\* A task refused with 503 is processed and charged.
CONSTANTS
    u1 = u1
    w1 = w1
    w2 = w2
    a1 = a1
    one = one
    upload = upload
    bad = bad
    empty = empty
    NoTask = NoTask
    NoUser = NoUser
    NoResult = NoResult
    Users = {u1}
    Tasks = {one}
    Workers = {w1, w2}
    Admins = {a1}
    Owner <- MCOwner
    Kind <- MCKind
    Accepted <- MCAccepted
    Invalid <- MCInvalid
    WellFormed <- MCWellFormed
    Price <- MCPrice
    InitialBalance <- MCInitialBalance
    TopUpAmount <- MCTopUpAmount
    MaxTopUps = 0
    MaxCrashes = 0
    MaxRequeues = 0
    ReliablePublish = FALSE

SPECIFICATION Spec
INVARIANTS
    RefusedIsNotCharged
\* Once every task is settled the system waits for the next request.
CHECK_DEADLOCK FALSE
