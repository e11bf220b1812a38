\* Registrations, logins and credential changes that cross, and a worker.
CONSTANTS
    anna = anna
    boris = boris
    ANNA = ANNA
    k1 = k1
    k2 = k2
    n1 = n1
    n2 = n2
    NoUser = NoUser
    NoRow = NoRow
    NoCall = NoCall
    Emails = {anna, boris}
    Spellings = {anna, ANNA, boris}
    Normal <- MCNormal
    Passwords = {p1, p2}
    AuthRequests = {a1, a2}
    Threads = {h1, h2}
    Keys = {k1, k2}
    Names = {n1, n2}
    Submissions <- MCSubmissions

SPECIFICATION Spec
INVARIANTS
    TypeOK
    TokenOpensOwnAccount
    CredentialAsAsked
    CallsAsSubmitted
PROPERTIES
    RevocationHolds
\* When the requests are used up and no account was made, nothing is left to do.
CHECK_DEADLOCK FALSE
