--------------------------- MODULE TopUpModeration ---------------------------
(***************************************************************************)
(* The writers of a balance (BalanceService, services.py): a user requests *)
(* a top-up and an administrator approves or rejects it, an administrator  *)
(* grants a top-up directly, a worker charges a prediction.  Each of them  *)
(* reads rows in one statement and commits in another.                     *)
(*                                                                         *)
(* An amount is kept as what it is made of: how often each entry of the    *)
(* transactions table is in its owner's balance.  To read a balance is to  *)
(* read all its entries, to write it is to write them all.                 *)
(***************************************************************************)
EXTENDS Integers, FiniteSets, FiniteSetsExt

CONSTANTS
    Users, Admins, Workers,
    Account,                     \* the user an administrator's request is made by
    Requests, Grants, Charges,   \* entries: moderated, direct, and charged
    Owner, Amount,               \* of an entry
    InitialBalance,              \* of a user
    NoEntry

Entries  == Requests \cup Grants \cup Charges
Sessions == Admins \cup Workers

ASSUME EntryAssumption ==
    /\ Owner \in [Entries -> Users]
    /\ Amount \in [Entries -> Nat \ {0}]
    /\ NoEntry \notin Entries
    /\ Requests \cap (Grants \cup Charges) = {}
    /\ Grants \cap Charges = {}

(* A balance is the sum of the rows of a table.                            *)
ASSUME FiniteAssumption == IsFiniteSet(Entries)

ASSUME PartyAssumption ==
    /\ Account \in [Admins -> Users]
    /\ InitialBalance \in [Users -> Nat]
    /\ Admins \cap Workers = {}

TransactionStatus == {"absent", "pending", "approved", "rejected", "completed"}
Steps == {"idle", "authenticated", "loaded", "approve", "reject", "grant", "charge"}

VARIABLES
    status,      \* of each transaction
    inBalance,   \* table balances: how often an entry is in its owner's balance
    booked,      \* how many units of work put the entry there and committed
    step,        \* where each session is
    target,      \* the transaction it works on
    saw,         \* the balances it has read
    sawStatus    \* the transactions in its identity map

vars == <<status, inBalance, booked, step, target, saw, sawStatus>>

TypeOK ==
    /\ status \in [Entries -> TransactionStatus]
    /\ inBalance \in [Entries -> Nat]
    /\ booked \in [Entries -> Nat]
    /\ step \in [Sessions -> Steps]
    /\ target \in [Sessions -> Entries \cup {NoEntry}]
    /\ \A s \in Sessions :
          target[s] = NoEntry <=> step[s] \in {"idle", "authenticated", "loaded"}
    /\ saw \in [Sessions -> [Entries -> Nat]]
    /\ sawStatus \in [Sessions -> [Entries -> TransactionStatus]]

Nothing == [e \in Entries |-> 0]
Unseen  == [e \in Entries |-> "absent"]

Init ==
    /\ status = [e \in Entries |-> "absent"]
    /\ inBalance = Nothing
    /\ booked = Nothing
    /\ step = [s \in Sessions |-> "idle"]
    /\ target = [s \in Sessions |-> NoEntry]
    /\ saw = [s \in Sessions |-> Nothing]
    /\ sawStatus = [s \in Sessions |-> Unseen]

-----------------------------------------------------------------------------
(* The amount of u's balance when it is made of the entries in b.          *)
Value(u, b) ==
    LET signed(e) == IF e \in Charges THEN - Amount[e] * b[e] ELSE Amount[e] * b[e]
    IN  InitialBalance[u] + MapThenSumSet(signed, {e \in Entries : Owner[e] = u})

(* A direct top-up or a charge belongs to one request or one task.         *)
Fresh(e) == status[e] = "absent" /\ \A s \in Sessions : target[s] # e

(* Mutant: the balance is read again when the credit is committed.         *)
WriteBalance_RereadsBalance(s) ==
    inBalance' = [inBalance EXCEPT ![target[s]] = @ + 1]

(* The amount that was read plus or minus the target's, over whatever the  *)
(* row holds by now.                                                       *)
WriteBalance(s) ==
    inBalance' = [e \in Entries |->
        IF Owner[e] # Owner[target[s]] THEN inBalance[e]
        ELSE IF e = target[s] THEN saw[s][e] + 1
        ELSE saw[s][e]]

(* Mutant: the session of one request is used for the next one.            *)
Close_KeepsSession(s) ==
    /\ step' = [step EXCEPT ![s] = "idle"]
    /\ UNCHANGED <<target, saw, sawStatus>>

(* The end of a request or a unit of work: its session is closed.          *)
Close(s) ==
    /\ step' = [step EXCEPT ![s] = "idle"]
    /\ target' = [target EXCEPT ![s] = NoEntry]
    /\ saw' = [saw EXCEPT ![s] = Nothing]
    /\ sawStatus' = [sawStatus EXCEPT ![s] = Unseen]

-----------------------------------------------------------------------------
(* request_top_up: a pending transaction, the balance stays as it is.      *)
RequestTopUp(r) ==
    /\ status[r] = "absent"
    /\ status' = [status EXCEPT ![r] = "pending"]
    /\ UNCHANGED <<inBalance, booked, step, target, saw, sawStatus>>

(* get_current_admin, first statement: the token's user with the balance.  *)
Authenticate(a) ==
    /\ step[a] = "idle"
    /\ step' = [step EXCEPT ![a] = "authenticated"]
    /\ saw' = [saw EXCEPT ![a] = inBalance]
    /\ UNCHANGED <<status, inBalance, booked, target, sawStatus>>

(* Its second statement (get_user) loads all transactions of that user     *)
(* into the session, which keeps them as they were read.                   *)
LoadOwn(a) ==
    /\ step[a] = "authenticated"
    /\ step' = [step EXCEPT ![a] = "loaded"]
    /\ sawStatus' = [sawStatus EXCEPT ![a] =
           [e \in Entries |-> IF Owner[e] = Account[a] THEN status[e] ELSE "absent"]]
    /\ UNCHANGED <<status, inBalance, booked, target, saw>>

(* A row that is in the session's identity map keeps its old values.       *)
SeenStatus(a, r) == IF sawStatus[a][r] = "absent" THEN status[r] ELSE sawStatus[a][r]
SeenBalances(a, u) == IF u = Account[a] THEN saw[a] ELSE inBalance

(* Mutant: the status of the transaction is not looked at.                 *)
Pending_Any(a, r) == SeenStatus(a, r) # "absent"

(* The guard of _get_pending_top_up; everything else is answered 404 or 409. *)
Pending(a, r) == SeenStatus(a, r) = "pending"

(* _get_pending_top_up: one SELECT of the transaction, its user and the    *)
(* balance, by approve_top_up or reject_top_up.                            *)
ModerateRead(a, r, decision) ==
    /\ step[a] = "loaded"
    /\ Pending(a, r)
    /\ step' = [step EXCEPT ![a] = decision]
    /\ target' = [target EXCEPT ![a] = r]
    /\ saw' = [saw EXCEPT ![a] = SeenBalances(a, Owner[r])]
    /\ UNCHANGED <<status, inBalance, booked, sawStatus>>

(* The commit of approve_top_up: status and balance together.              *)
ApproveCommit(a) ==
    /\ step[a] = "approve"
    /\ status' = [status EXCEPT ![target[a]] = "approved"]
    /\ WriteBalance(a)
    /\ booked' = [booked EXCEPT ![target[a]] = @ + 1]
    /\ Close(a)

(* Mutant: a rejection also credits the amount.                            *)
RejectCommit_Credits(a) ==
    /\ step[a] = "reject"
    /\ status' = [status EXCEPT ![target[a]] = "rejected"]
    /\ WriteBalance(a)
    /\ UNCHANGED booked
    /\ Close(a)

(* The commit of reject_top_up.                                            *)
RejectCommit(a) ==
    /\ step[a] = "reject"
    /\ status' = [status EXCEPT ![target[a]] = "rejected"]
    /\ Close(a)
    /\ UNCHANGED <<inBalance, booked>>

(* top_up for an administrator's request: get_balance, then the commit.    *)
GrantRead(a, g) ==
    /\ step[a] = "loaded"
    /\ Fresh(g)
    /\ step' = [step EXCEPT ![a] = "grant"]
    /\ target' = [target EXCEPT ![a] = g]
    /\ saw' = [saw EXCEPT ![a] = SeenBalances(a, Owner[g])]
    /\ UNCHANGED <<status, inBalance, booked, sawStatus>>

(* Mutant: ensure_sufficient_balance is skipped.                           *)
ChargeRead_NoCheck(w, c) ==
    /\ step[w] = "idle"
    /\ Fresh(c)
    /\ step' = [step EXCEPT ![w] = "charge"]
    /\ target' = [target EXCEPT ![w] = c]
    /\ saw' = [saw EXCEPT ![w] = inBalance]
    /\ UNCHANGED <<status, inBalance, booked, sawStatus>>

(* charge, in the unit of work that completes a task.                      *)
ChargeRead(w, c) ==
    /\ step[w] = "idle"
    /\ Fresh(c)
    /\ Value(Owner[c], inBalance) >= Amount[c]
    /\ step' = [step EXCEPT ![w] = "charge"]
    /\ target' = [target EXCEPT ![w] = c]
    /\ saw' = [saw EXCEPT ![w] = inBalance]
    /\ UNCHANGED <<status, inBalance, booked, sawStatus>>

(* The commit of top_up or charge: a completed transaction, the balance.   *)
BookCommit(s) ==
    /\ step[s] \in {"grant", "charge"}
    /\ status' = [status EXCEPT ![target[s]] = "completed"]
    /\ WriteBalance(s)
    /\ booked' = [booked EXCEPT ![target[s]] = @ + 1]
    /\ Close(s)

(* A request that is refused, or a session that dies before its commit.    *)
Abandon(s) ==
    /\ step[s] # "idle"
    /\ Close(s)
    /\ UNCHANGED <<status, inBalance, booked>>

AdminStep(a) ==
    \/ Authenticate(a)
    \/ LoadOwn(a)
    \/ \E r \in Requests : ModerateRead(a, r, "approve") \/ ModerateRead(a, r, "reject")
    \/ ApproveCommit(a)
    \/ RejectCommit(a)
    \/ \E g \in Grants : GrantRead(a, g)

Next ==
    \/ \E r \in Requests : RequestTopUp(r)
    \/ \E a \in Admins : AdminStep(a)
    \/ \E w \in Workers, c \in Charges : ChargeRead(w, c)
    \/ \E s \in Sessions : BookCommit(s) \/ Abandon(s)

Spec == Init /\ [][Next]_vars

-----------------------------------------------------------------------------
(* However many administrators approve one request at once, and however    *)
(* many updates of the balance overwrite each other, its amount is in the  *)
(* balance at most once: a session that reads "pending" has not read a     *)
(* balance with the amount in it (_get_pending_top_up reads both at once,  *)
(* an administrator's own balance is read before its transactions).        *)
NoDoubleCredit == \A e \in Entries : inBalance[e] <= 1

(* A user is never credited for a request that no administrator approved.  *)
OnlyApprovedIsCredited ==
    \A r \in Requests : inBalance[r] > 0 => booked[r] > 0

(* No interleaving of the writers takes a balance below zero.              *)
NeverOverdrawn == \A u \in Users : Value(u, inBalance) >= 0

(* A rejected top-up leaves the balance unchanged.                         *)
RejectedIsNotCredited ==
    \A r \in Requests : status[r] = "rejected" => inBalance[r] = 0

(* A top-up is approved once: the second approval is answered 409.         *)
ApprovedOnce == \A r \in Requests : booked[r] <= 1

(* A decision on a top-up is never changed into the other one.             *)
DecisionIsFinal ==
    [][\A r \in Requests :
          status[r] \in {"approved", "rejected"} => status'[r] = status[r]]_vars
=============================================================================
