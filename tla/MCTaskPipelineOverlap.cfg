\* A crash, a delivery that is taken back and an unreliable publish, one user and no top-up.
CONSTANTS
    u1 = u1
    w1 = w1
    w2 = w2
    a1 = a1
    one = one
    upload = upload
    bad = bad
    empty = empty
    NoTask = NoTask
    NoUser = NoUser
    NoResult = NoResult
    Users = {u1}
    Tasks = {upload}
    Workers = {w1, w2}
    Admins = {a1}
    Owner <- MCOwner
    Kind <- MCKind
    Accepted <- MCAccepted
    Invalid <- MCInvalid
    WellFormed <- MCWellFormed
    Price <- MCPrice
    InitialBalance <- MCTwoUploads
    TopUpAmount <- MCTopUpAmount
    MaxTopUps = 0
    MaxCrashes = 1
    MaxRequeues = 1
    ReliablePublish = FALSE

SPECIFICATION FairSpec
INVARIANTS
    BalanceWithinLedger
    ChargesPerDelivery
PROPERTIES
    QueuedIsSettled
    ChargeComesWithResult
\* Once every task is settled the system waits for the next request.
CHECK_DEADLOCK FALSE
