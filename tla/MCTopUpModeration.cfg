\* Two administrators at work at once, one of them on the own account.
CONSTANTS
    u1 = u1
    boss = boss
    a1 = a1
    a2 = a2
    w1 = w1
    r1 = r1
    r2 = r2
    g1 = g1
    c1 = c1
    c2 = c2
    NoEntry = NoEntry
    Users = {u1, boss}
    Admins = {a1, a2}
    Workers = {w1}
    Account <- MCAccount
    Requests = {r1, r2}
    Grants = {g1}
    Charges = {c1, c2}
    Owner <- MCOwner
    Amount <- MCAmount
    InitialBalance <- MCInitialBalance

SPECIFICATION Spec
SYMMETRY AdminSymmetry
INVARIANTS
    TypeOK
    NoDoubleCredit
    OnlyApprovedIsCredited
    NeverOverdrawn
\* Once every transaction is decided nothing needs to happen any more.
CHECK_DEADLOCK FALSE
