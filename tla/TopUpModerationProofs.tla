------------------------ MODULE TopUpModerationProofs ------------------------
(***************************************************************************)
(* Proofs about TopUpModeration, for any number of users, administrators,  *)
(* workers and transactions.                                               *)
(***************************************************************************)
EXTENDS TopUpModeration, SetInduction, TLAPS

-----------------------------------------------------------------------------
(* Types.                                                                  *)

(* Closing a session leaves it with nothing read and no target.            *)
LEMMA CloseType ==
    ASSUME TypeOK, NEW s \in Sessions, Close(s)
    PROVE  /\ step' \in [Sessions -> Steps]
           /\ target' \in [Sessions -> Entries \cup {NoEntry}]
           /\ \A v \in Sessions :
                 target'[v] = NoEntry <=> step'[v] \in {"idle", "authenticated", "loaded"}
           /\ saw' \in [Sessions -> [Entries -> Nat]]
           /\ sawStatus' \in [Sessions -> [Entries -> TransactionStatus]]
BY DEF TypeOK, Close, Steps, Nothing, Unseen, TransactionStatus

(* A written balance is again a count of every entry.                      *)
LEMMA WriteType ==
    ASSUME TypeOK, NEW s \in Sessions, target[s] \in Entries, WriteBalance(s)
    PROVE  inBalance' \in [Entries -> Nat]
BY DEF TypeOK, WriteBalance

(* A session past its first reads has a transaction to work on.            *)
LEMMA TargetIsEntry ==
    ASSUME TypeOK, NEW s \in Sessions,
           step[s] \in {"approve", "reject", "grant", "charge"}
    PROVE  target[s] \in Entries
BY DEF TypeOK

(* Reading rows keeps the types.                                           *)
LEMMA ReadType ==
    ASSUME TypeOK, NEW s \in Sessions, NEW e \in Entries,
           NEW label \in {"approve", "reject", "grant", "charge"},
           step' = [step EXCEPT ![s] = label],
           target' = [target EXCEPT ![s] = e],
           NEW b \in [Entries -> Nat],
           saw' = [saw EXCEPT ![s] = b],
           UNCHANGED <<status, inBalance, booked, sawStatus>>
    PROVE  TypeOK'
<1>1. e # NoEntry
  BY EntryAssumption
<1> QED
  BY <1>1 DEF TypeOK, Steps

(* Every step keeps the types.                                             *)
LEMMA TypeStep == TypeOK /\ [Next]_vars => TypeOK'
<1> SUFFICES ASSUME TypeOK, [Next]_vars PROVE TypeOK'
  OBVIOUS
<1> USE DEF Sessions
<1>1. ASSUME NEW r \in Requests, RequestTopUp(r) PROVE TypeOK'
  BY <1>1 DEF RequestTopUp, TypeOK, TransactionStatus
<1>2. ASSUME NEW a \in Admins, Authenticate(a) PROVE TypeOK'
  BY <1>2 DEF Authenticate, TypeOK, Steps
<1>3. ASSUME NEW a \in Admins, LoadOwn(a) PROVE TypeOK'
  BY <1>3 DEF LoadOwn, TypeOK, Steps, TransactionStatus
<1>4. ASSUME NEW a \in Admins, NEW r \in Requests, NEW d \in {"approve", "reject"},
             ModerateRead(a, r, d)
      PROVE  TypeOK'
  <2>1. r \in Entries /\ SeenBalances(a, Owner[r]) \in [Entries -> Nat]
    BY DEF Entries, SeenBalances, TypeOK
  <2> QED
    BY <1>4, <2>1, ReadType DEF ModerateRead
<1>5. ASSUME NEW a \in Admins, ApproveCommit(a) PROVE TypeOK'
  <2>1. target[a] \in Entries
    BY <1>5, TargetIsEntry DEF ApproveCommit
  <2> QED
    BY <1>5, <2>1, CloseType, WriteType DEF ApproveCommit, TypeOK, TransactionStatus
<1>6. ASSUME NEW a \in Admins, RejectCommit(a) PROVE TypeOK'
  <2>1. target[a] \in Entries
    BY <1>6, TargetIsEntry DEF RejectCommit
  <2> QED
    BY <1>6, <2>1, CloseType DEF RejectCommit, TypeOK, TransactionStatus
<1>7. ASSUME NEW a \in Admins, NEW g \in Grants, GrantRead(a, g) PROVE TypeOK'
  <2>1. g \in Entries /\ SeenBalances(a, Owner[g]) \in [Entries -> Nat]
    BY DEF Entries, SeenBalances, TypeOK
  <2> QED
    BY <1>7, <2>1, ReadType DEF GrantRead
<1>8. ASSUME NEW w \in Workers, NEW c \in Charges, ChargeRead(w, c) PROVE TypeOK'
  <2>1. c \in Entries /\ inBalance \in [Entries -> Nat]
    BY DEF Entries, TypeOK
  <2> QED
    BY <1>8, <2>1, ReadType DEF ChargeRead
<1>9. ASSUME NEW s \in Sessions, BookCommit(s) PROVE TypeOK'
  <2>1. target[s] \in Entries
    BY <1>9, TargetIsEntry DEF BookCommit
  <2> QED
    BY <1>9, <2>1, CloseType, WriteType DEF BookCommit, TypeOK, TransactionStatus
<1>10. ASSUME NEW s \in Sessions, Abandon(s) PROVE TypeOK'
  BY <1>10, CloseType DEF Abandon, TypeOK
<1>11. CASE UNCHANGED vars
  BY <1>11 DEF vars, TypeOK
<1> QED
  BY <1>1, <1>2, <1>3, <1>4, <1>5, <1>6, <1>7, <1>8, <1>9, <1>10, <1>11
  DEF Next, AdminStep

(* No session ends with a target, or works without one: every reachable    *)
(* state is well typed.                                                    *)
THEOREM ModerationTypeCorrect == Spec => []TypeOK
<1>1. Init => TypeOK
  BY DEF Init, TypeOK, Nothing, Unseen, Steps, TransactionStatus
<1> QED
  BY <1>1, TypeStep, PTL DEF Spec

-----------------------------------------------------------------------------
(* No amount is credited twice.  Whatever a session has read, an entry in  *)
(* it was committed by a unit of work that took the transaction out of     *)
(* "pending" for good; so what is read together with "pending", or before  *)
(* it, cannot have the amount in it.                                       *)

CreditInv ==
    /\ \A e \in Entries :
          /\ inBalance[e] \in {0, 1}
          /\ inBalance[e] = 1 => booked[e] > 0
          /\ booked[e] > 0 => status[e] \notin {"absent", "pending"}
    /\ \A s \in Sessions, e \in Entries :
          /\ saw[s][e] \in {0, 1}
          /\ saw[s][e] = 1 => booked[e] > 0
          /\ step[s] = "loaded" /\ sawStatus[s][e] = "pending" => saw[s][e] = 0
    /\ \A s \in Sessions :
          step[s] \in {"approve", "grant", "charge"} => saw[s][target[s]] = 0
    /\ \A a \in Admins, e \in Entries :
          sawStatus[a][e] # "absent" => Owner[e] = Account[a]

(* A session that reads its target's balance for a commit to come.         *)
LEMMA CreditRead ==
    ASSUME TypeOK, CreditInv, NEW s \in Sessions, NEW e \in Entries,
           NEW label \in {"approve", "reject", "grant", "charge"},
           step' = [step EXCEPT ![s] = label],
           target' = [target EXCEPT ![s] = e],
           NEW b \in {saw[s], inBalance}, b[e] = 0,
           saw' = [saw EXCEPT ![s] = b],
           UNCHANGED <<status, inBalance, booked, sawStatus>>
    PROVE  CreditInv'
<1>1. \A x \in Entries : b[x] \in {0, 1} /\ (b[x] = 1 => booked[x] > 0)
  BY DEF CreditInv
<1>2. \A v \in Sessions, x \in Entries :
          /\ saw'[v][x] \in {0, 1}
          /\ saw'[v][x] = 1 => booked[x] > 0
          /\ step'[v] = "loaded" /\ sawStatus[v][x] = "pending" => saw'[v][x] = 0
  BY <1>1 DEF CreditInv, TypeOK
<1>3. \A v \in Sessions :
          step'[v] \in {"approve", "grant", "charge"} => saw'[v][target'[v]] = 0
  BY DEF CreditInv, TypeOK
<1> QED
  BY <1>2, <1>3 DEF CreditInv

(* Closing a session changes nothing that is stored.                       *)
LEMMA CreditClose ==
    ASSUME TypeOK, CreditInv, NEW s \in Sessions, Close(s)
    PROVE  /\ \A v \in Sessions, e \in Entries :
                 /\ saw'[v][e] \in {0, 1}
                 /\ saw'[v][e] = 1 => booked[e] > 0
                 /\ step'[v] = "loaded" /\ sawStatus'[v][e] = "pending" => saw'[v][e] = 0
           /\ \A v \in Sessions :
                 step'[v] \in {"approve", "grant", "charge"} => saw'[v][target'[v]] = 0
           /\ \A a \in Admins, e \in Entries :
                 sawStatus'[a][e] # "absent" => Owner[e] = Account[a]
BY DEF Close, CreditInv, TypeOK, Nothing, Unseen, Sessions

(* The commit of a credit or a charge: one more entry, booked.             *)
LEMMA CreditWrite ==
    ASSUME TypeOK, CreditInv, NEW s \in Sessions,
           step[s] \in {"approve", "grant", "charge"},
           NEW new \in {"approved", "completed"},
           status' = [status EXCEPT ![target[s]] = new],
           WriteBalance(s),
           booked' = [booked EXCEPT ![target[s]] = @ + 1],
           Close(s)
    PROVE  CreditInv'
<1>1. target[s] \in Entries
  BY TargetIsEntry
<1>2. \A e \in Entries : booked'[e] >= booked[e] /\ booked[e] \in Nat
  BY <1>1 DEF TypeOK
<1>3. booked'[target[s]] > 0
  BY <1>1 DEF TypeOK
<1>4. saw[s][target[s]] = 0
  BY DEF CreditInv
<1>5. ASSUME NEW e \in Entries
      PROVE  /\ inBalance'[e] \in {0, 1}
             /\ inBalance'[e] = 1 => booked'[e] > 0
             /\ booked'[e] > 0 => status'[e] \notin {"absent", "pending"}
  <2>1. CASE e = target[s]
    BY <1>1, <1>3, <1>4, <2>1 DEF WriteBalance, TypeOK
  <2>2. CASE e # target[s]
    <3>1. booked'[e] = booked[e] /\ status'[e] = status[e]
      BY <1>1, <2>2 DEF TypeOK
    <3>2. inBalance'[e] \in {inBalance[e], saw[s][e]}
      BY <2>2 DEF WriteBalance
    <3> QED
      BY <3>1, <3>2 DEF CreditInv
  <2> QED
    BY <2>1, <2>2
<1>6. \A v \in Sessions, e \in Entries :
          /\ saw'[v][e] \in {0, 1}
          /\ saw'[v][e] = 1 => booked'[e] > 0
          /\ step'[v] = "loaded" /\ sawStatus'[v][e] = "pending" => saw'[v][e] = 0
  <2>1. \A e \in Entries : booked[e] > 0 => booked'[e] > 0
    BY <1>1 DEF TypeOK
  <2> QED
    BY <2>1, CreditClose
<1> QED
  BY <1>5, <1>6, CreditClose DEF CreditInv

(* Every step keeps the credits single and accounted for.                  *)
LEMMA CreditStep == TypeOK /\ CreditInv /\ [Next]_vars => CreditInv'
<1> SUFFICES ASSUME TypeOK, CreditInv, [Next]_vars PROVE CreditInv'
  OBVIOUS
<1> USE DEF Sessions
<1>1. ASSUME NEW r \in Requests, RequestTopUp(r) PROVE CreditInv'
  <2>1. r \in Entries
    BY DEF Entries
  <2>2. \A e \in Entries : booked[e] > 0 => status'[e] \notin {"absent", "pending"}
    BY <1>1, <2>1 DEF RequestTopUp, CreditInv, TypeOK
  <2> QED
    BY <1>1, <2>2 DEF RequestTopUp, CreditInv
<1>2. ASSUME NEW a \in Admins, Authenticate(a) PROVE CreditInv'
  <2>1. \A v \in Sessions, e \in Entries :
            /\ saw'[v][e] \in {0, 1}
            /\ saw'[v][e] = 1 => booked[e] > 0
            /\ step'[v] = "loaded" /\ sawStatus[v][e] = "pending" => saw'[v][e] = 0
    BY <1>2 DEF Authenticate, CreditInv, TypeOK
  <2>2. \A v \in Sessions :
            step'[v] \in {"approve", "grant", "charge"} => saw'[v][target[v]] = 0
    BY <1>2 DEF Authenticate, CreditInv, TypeOK
  <2> QED
    BY <1>2, <2>1, <2>2 DEF Authenticate, CreditInv
<1>3. ASSUME NEW a \in Admins, LoadOwn(a) PROVE CreditInv'
  <2>1. \A e \in Entries : status[e] = "pending" => saw[a][e] = 0
    BY DEF CreditInv
  <2>2. \A e \in Entries : sawStatus'[a][e] = "pending" => status[e] = "pending"
    BY <1>3 DEF LoadOwn, TypeOK
  <2>3. \A v \in Sessions, e \in Entries :
            step'[v] = "loaded" /\ sawStatus'[v][e] = "pending" => saw[v][e] = 0
    BY <1>3, <2>1, <2>2 DEF LoadOwn, CreditInv, TypeOK
  <2>4. \A v \in Sessions :
            step'[v] \in {"approve", "grant", "charge"} =>
                step[v] \in {"approve", "grant", "charge"}
    BY <1>3 DEF LoadOwn, TypeOK
  <2>5. \A x \in Admins, e \in Entries :
            sawStatus'[x][e] # "absent" => Owner[e] = Account[x]
    BY <1>3 DEF LoadOwn, CreditInv, TypeOK
  <2> QED
    BY <1>3, <2>3, <2>4, <2>5 DEF LoadOwn, CreditInv
<1>4. ASSUME NEW a \in Admins, NEW r \in Requests, NEW d \in {"approve", "reject"},
             ModerateRead(a, r, d)
      PROVE  CreditInv'
  <2>1. r \in Entries /\ a \in Sessions
    BY DEF Entries
  <2>2. PICK b \in {saw[a], inBalance} :
            b = SeenBalances(a, Owner[r]) /\ b[r] = 0
    <3>1. CASE Owner[r] = Account[a]
      <4>1. saw[a][r] = 0
        BY <1>4, <2>1 DEF ModerateRead, Pending, SeenStatus, CreditInv
      <4> QED
        BY <3>1, <4>1 DEF SeenBalances
    <3>2. CASE Owner[r] # Account[a] /\ sawStatus[a][r] = "absent"
      <4>1. inBalance[r] = 0
        BY <1>4, <2>1, <3>2 DEF ModerateRead, Pending, SeenStatus, CreditInv
      <4> QED
        BY <3>2, <4>1 DEF SeenBalances
    <3> QED
      BY <2>1, <3>1, <3>2 DEF CreditInv
  <2> QED
    BY <1>4, <2>1, <2>2, CreditRead DEF ModerateRead
<1>5. ASSUME NEW a \in Admins, ApproveCommit(a) PROVE CreditInv'
  BY <1>5, CreditWrite DEF ApproveCommit
<1>6. ASSUME NEW a \in Admins, RejectCommit(a) PROVE CreditInv'
  <2>1. target[a] \in Entries
    BY <1>6, TargetIsEntry DEF RejectCommit
  <2>2. \A e \in Entries : booked[e] > 0 => status'[e] \notin {"absent", "pending"}
    BY <1>6, <2>1 DEF RejectCommit, CreditInv, TypeOK
  <2> QED
    BY <1>6, <2>2, CreditClose DEF RejectCommit, CreditInv
<1>7. ASSUME NEW a \in Admins, NEW g \in Grants, GrantRead(a, g) PROVE CreditInv'
  <2>1. g \in Entries
    BY DEF Entries
  <2>2. inBalance[g] = 0 /\ saw[a][g] = 0
    BY <1>7, <2>1 DEF GrantRead, Fresh, CreditInv
  <2>3. PICK b \in {saw[a], inBalance} : b = SeenBalances(a, Owner[g]) /\ b[g] = 0
    BY <2>2 DEF SeenBalances
  <2> QED
    BY <1>7, <2>1, <2>3, CreditRead DEF GrantRead
<1>8. ASSUME NEW w \in Workers, NEW c \in Charges, ChargeRead(w, c) PROVE CreditInv'
  <2>1. c \in Entries
    BY DEF Entries
  <2>2. inBalance[c] = 0
    BY <1>8, <2>1 DEF ChargeRead, Fresh, CreditInv
  <2> QED
    BY <1>8, <2>1, <2>2, CreditRead DEF ChargeRead
<1>9. ASSUME NEW s \in Sessions, BookCommit(s) PROVE CreditInv'
  BY <1>9, CreditWrite DEF BookCommit
<1>10. ASSUME NEW s \in Sessions, Abandon(s) PROVE CreditInv'
  BY <1>10, CreditClose DEF Abandon, CreditInv
<1>11. CASE UNCHANGED vars
  BY <1>11 DEF vars, CreditInv
<1> QED
  BY <1>1, <1>2, <1>3, <1>4, <1>5, <1>6, <1>7, <1>8, <1>9, <1>10, <1>11
  DEF Next, AdminStep

(* Whatever is interleaved, CreditInv always holds.                        *)
LEMMA CreditInvariant == Spec => [](TypeOK /\ CreditInv)
<1>1. Init => TypeOK /\ CreditInv
  BY DEF Init, TypeOK, CreditInv, Nothing, Unseen, Steps, TransactionStatus, Sessions
<1> QED
  BY <1>1, TypeStep, CreditStep, PTL DEF Spec

(* No approval, direct top-up or charge is in a balance twice, however     *)
(* many sessions work on it and whatever updates are lost.                 *)
THEOREM NeverCreditedTwice == Spec => []NoDoubleCredit
<1>1. CreditInv => NoDoubleCredit
  BY DEF CreditInv, NoDoubleCredit
<1> QED
  BY <1>1, CreditInvariant, PTL

(* Nobody is credited for a request that was only rejected or is pending.  *)
THEOREM CreditNeedsApproval == Spec => []OnlyApprovedIsCredited
<1>1. TypeOK /\ CreditInv => OnlyApprovedIsCredited
  BY DEF TypeOK, CreditInv, OnlyApprovedIsCredited, Entries
<1> QED
  BY <1>1, CreditInvariant, PTL

-----------------------------------------------------------------------------
(* One administrator's request at a time: what it has read of a            *)
(* transaction is still true when it commits.                              *)

SoleModerator == \A a, b \in Admins : a = b

SoleInv ==
    /\ \A r \in Requests :
          /\ status[r] = "approved" => booked[r] = 1
          /\ status[r] # "approved" => booked[r] = 0
    /\ \A a \in Admins :
          step[a] \in {"approve", "reject"} =>
              target[a] \in Requests /\ status[target[a]] = "pending"
    /\ \A a \in Admins, r \in Requests :
          /\ step[a] = "loaded"
          /\ sawStatus[a][r] # "absent"
          => sawStatus[a][r] = status[r]
    /\ \A s \in Sessions :
          step[s] \in {"grant", "charge"} => target[s] \in Grants \cup Charges

(* A step that leaves the transactions alone and whose session, if it      *)
(* moves on to a decision, found the request pending.                      *)
LEMMA SoleRead ==
    ASSUME TypeOK, SoleInv, NEW s \in Sessions, NEW e \in Entries,
           NEW label \in {"approve", "reject", "grant", "charge"},
           label \in {"approve", "reject"} => e \in Requests /\ status[e] = "pending",
           label \in {"grant", "charge"} => e \in Grants \cup Charges,
           step' = [step EXCEPT ![s] = label],
           target' = [target EXCEPT ![s] = e],
           UNCHANGED <<status, booked, sawStatus>>
    PROVE  SoleInv'
<1> USE DEF Sessions
<1>1. \A a \in Admins :
          step'[a] \in {"approve", "reject"} =>
              target'[a] \in Requests /\ status[target'[a]] = "pending"
  BY DEF SoleInv, TypeOK
<1>2. \A v \in Sessions :
          step'[v] \in {"grant", "charge"} => target'[v] \in Grants \cup Charges
  BY DEF SoleInv, TypeOK
<1>3. \A a \in Admins : step'[a] = "loaded" => step[a] = "loaded"
  BY DEF TypeOK
<1> QED
  BY <1>1, <1>2, <1>3 DEF SoleInv

(* Closing a session leaves nothing behind that could be stale.            *)
LEMMA SoleClose ==
    ASSUME TypeOK, SoleInv, NEW s \in Sessions, Close(s)
    PROVE  /\ \A v \in Sessions :
                 /\ step'[v] = step[v] \/ step'[v] = "idle"
                 /\ step'[v] # "idle" => v # s
                 /\ step'[v] # "idle" =>
                       target'[v] = target[v] /\ sawStatus'[v] = sawStatus[v]
BY DEF Close, TypeOK

(* The commit of an administrator's decision: no other session of an       *)
(* administrator has read anything.                                        *)
LEMMA SoleDecide ==
    ASSUME SoleModerator, TypeOK, SoleInv, NEW a \in Admins, NEW r \in Requests,
           NEW new \in {"approved", "rejected"},
           r = target[a], step[a] \in {"approve", "reject"},
           status' = [status EXCEPT ![r] = new],
           booked' = IF new = "approved" THEN [booked EXCEPT ![r] = @ + 1] ELSE booked,
           Close(a)
    PROVE  SoleInv'
<1> USE DEF Sessions
<1>1. r \in Entries /\ status[r] = "pending" /\ booked[r] = 0
  BY DEF Entries, SoleInv
<1>2. \A x \in Requests :
          /\ status'[x] = "approved" => booked'[x] = 1
          /\ status'[x] # "approved" => booked'[x] = 0
  <2>1. status'[r] = new /\ booked'[r] = IF new = "approved" THEN 1 ELSE 0
    BY <1>1 DEF TypeOK
  <2>2. \A x \in Requests \ {r} : status'[x] = status[x] /\ booked'[x] = booked[x]
    BY <1>1 DEF TypeOK, Entries
  <2> QED
    BY <2>1, <2>2 DEF SoleInv
<1>3. \A x \in Admins : step'[x] = "idle"
  BY DEF SoleModerator, Close, TypeOK
<1>4. \A v \in Sessions :
          step'[v] \in {"grant", "charge"} => target'[v] \in Grants \cup Charges
  BY SoleClose DEF SoleInv
<1> QED
  BY <1>2, <1>3, <1>4 DEF SoleInv

(* Every step keeps what a sole administrator has read true.               *)
LEMMA SoleStep ==
    SoleModerator /\ TypeOK /\ SoleInv /\ [Next]_vars => SoleInv'
<1> SUFFICES ASSUME SoleModerator, TypeOK, SoleInv, [Next]_vars PROVE SoleInv'
  OBVIOUS
<1> USE DEF Sessions
<1>1. ASSUME NEW r \in Requests, RequestTopUp(r) PROVE SoleInv'
  <2>1. r \in Entries /\ status[r] = "absent" /\ booked[r] = 0
    BY <1>1 DEF RequestTopUp, Entries, SoleInv
  <2>2. status'[r] = "pending" /\ \A e \in Requests \ {r} : status'[e] = status[e]
    BY <1>1, <2>1 DEF RequestTopUp, TypeOK, Entries
  <2> QED
    BY <1>1, <2>1, <2>2 DEF RequestTopUp, SoleInv
<1>2. ASSUME NEW a \in Admins, Authenticate(a) PROVE SoleInv'
  <2>1. \A v \in Sessions : step'[v] = step[v] \/ step'[v] = "authenticated"
    BY <1>2 DEF Authenticate, TypeOK
  <2> QED
    BY <1>2, <2>1 DEF Authenticate, SoleInv
<1>3. ASSUME NEW a \in Admins, LoadOwn(a) PROVE SoleInv'
  <2>1. \A v \in Sessions : v # a => step'[v] = step[v] /\ sawStatus'[v] = sawStatus[v]
    BY <1>3 DEF LoadOwn, TypeOK
  <2>2. step'[a] = "loaded"
    BY <1>3 DEF LoadOwn, TypeOK
  <2>3. \A r \in Requests : sawStatus'[a][r] \in {"absent", status[r]}
    BY <1>3 DEF LoadOwn, TypeOK, Entries
  <2> QED
    BY <1>3, <2>1, <2>2, <2>3 DEF LoadOwn, SoleInv
<1>4. ASSUME NEW a \in Admins, NEW r \in Requests, NEW d \in {"approve", "reject"},
             ModerateRead(a, r, d)
      PROVE  SoleInv'
  <2>1. r \in Entries /\ status[r] = "pending"
    BY <1>4 DEF ModerateRead, Pending, SeenStatus, SoleInv, Entries
  <2> QED
    BY <1>4, <2>1, SoleRead DEF ModerateRead
<1>5. ASSUME NEW a \in Admins, ApproveCommit(a) PROVE SoleInv'
  <2>1. PICK r \in Requests : r = target[a]
    BY <1>5 DEF ApproveCommit, SoleInv
  <2> QED
    BY <1>5, <2>1, SoleDecide DEF ApproveCommit
<1>6. ASSUME NEW a \in Admins, RejectCommit(a) PROVE SoleInv'
  <2>1. PICK r \in Requests : r = target[a]
    BY <1>6 DEF RejectCommit, SoleInv
  <2> QED
    BY <1>6, <2>1, SoleDecide DEF RejectCommit
<1>7. ASSUME NEW a \in Admins, NEW g \in Grants, GrantRead(a, g) PROVE SoleInv'
  BY <1>7, SoleRead DEF GrantRead, Entries
<1>8. ASSUME NEW w \in Workers, NEW c \in Charges, ChargeRead(w, c) PROVE SoleInv'
  BY <1>8, SoleRead DEF ChargeRead, Entries
<1>9. ASSUME NEW s \in Sessions, BookCommit(s) PROVE SoleInv'
  <2>1. target[s] \in Grants \cup Charges
    BY <1>9 DEF BookCommit, SoleInv
  <2>2. \A r \in Requests : status'[r] = status[r] /\ booked'[r] = booked[r]
    BY <1>9, <2>1, EntryAssumption DEF BookCommit, TypeOK, Entries
  <2> QED
    BY <1>9, <2>2, SoleClose DEF BookCommit, SoleInv
<1>10. ASSUME NEW s \in Sessions, Abandon(s) PROVE SoleInv'
  BY <1>10, SoleClose DEF Abandon, SoleInv
<1>11. CASE UNCHANGED vars
  BY <1>11 DEF vars, SoleInv
<1> QED
  BY <1>1, <1>2, <1>3, <1>4, <1>5, <1>6, <1>7, <1>8, <1>9, <1>10, <1>11
  DEF Next, AdminStep

(* With one administrator's request at a time, SoleInv always holds.       *)
LEMMA SoleInvariant ==
    ASSUME SoleModerator
    PROVE  Spec => [](TypeOK /\ CreditInv /\ SoleInv)
<1>1. Init => SoleInv
  BY DEF Init, SoleInv, Nothing, Sessions, Entries
<1>2. TypeOK /\ SoleInv /\ [Next]_vars => SoleInv'
  BY SoleStep
<1> QED
  BY <1>1, <1>2, CreditInvariant, PTL DEF Spec

(* With one administrator's request at a time, a rejected top-up leaves    *)
(* the balance unchanged.                                                  *)
THEOREM RejectionCostsNothing ==
    ASSUME SoleModerator
    PROVE  Spec => []RejectedIsNotCredited
<1>1. CreditInv /\ SoleInv => RejectedIsNotCredited
  BY DEF CreditInv, SoleInv, RejectedIsNotCredited, Entries
<1> QED
  BY <1>1, SoleInvariant, PTL

(* With one administrator's request at a time, a top-up is approved once.  *)
THEOREM ApprovalIsSingle ==
    ASSUME SoleModerator
    PROVE  Spec => []ApprovedOnce
<1>1. SoleInv => ApprovedOnce
  BY DEF SoleInv, ApprovedOnce
<1> QED
  BY <1>1, SoleInvariant, PTL

(* With one administrator's request at a time, no decision is reversed.    *)
THEOREM DecisionsStand ==
    ASSUME SoleModerator
    PROVE  Spec => DecisionIsFinal
<1> DEFINE Decided(r) == status[r] \in {"approved", "rejected"}
<1>1. TypeOK /\ SoleInv /\ [Next]_vars =>
          \A r \in Requests : Decided(r) => status'[r] = status[r]
  <2> SUFFICES ASSUME TypeOK, SoleInv, [Next]_vars, NEW r \in Requests, Decided(r)
               PROVE  status'[r] = status[r]
    OBVIOUS
  <2> USE DEF Sessions
  <2>1. r \in Entries
    BY DEF Entries
  <2>2. CASE \E x \in Requests : RequestTopUp(x)
    BY <2>1, <2>2 DEF RequestTopUp, TypeOK
  <2>3. CASE \E a \in Admins : ApproveCommit(a) \/ RejectCommit(a)
    <3>1. PICK a \in Admins : ApproveCommit(a) \/ RejectCommit(a)
      BY <2>3
    <3>2. target[a] # r
      BY <3>1 DEF ApproveCommit, RejectCommit, SoleInv
    <3> QED
      BY <2>1, <3>1, <3>2 DEF ApproveCommit, RejectCommit, TypeOK
  <2>4. CASE \E s \in Sessions : BookCommit(s)
    <3>1. PICK s \in Sessions : BookCommit(s)
      BY <2>4
    <3>2. target[s] # r
      BY <3>1, EntryAssumption DEF BookCommit, SoleInv
    <3> QED
      BY <2>1, <3>1, <3>2 DEF BookCommit, TypeOK
  <2> QED
    BY <2>2, <2>3, <2>4
    DEF Next, AdminStep, vars, Authenticate, LoadOwn, ModerateRead, GrantRead,
        ChargeRead, Abandon
<1> QED
  BY <1>1, SoleInvariant, PTL DEF Spec, DecisionIsFinal

-----------------------------------------------------------------------------
(* Sums over finite sets.  Value adds up with MapThenSumSet of the         *)
(* community modules, a function defined by recursion over the parts of    *)
(* the set: IsSum is its equation.                                         *)

Pick(s) == CHOOSE x \in s : TRUE

IsSum(g, f, S) ==
    g = [s \in SUBSET S |-> IF s = {} THEN 0 ELSE f[Pick(s)] + g[s \ {Pick(s)}]]

(* The equation has a solution: by induction on the size of the parts.     *)
LEMMA SumExists ==
    ASSUME NEW f, NEW S, IsFiniteSet(S)
    PROVE  \E g : IsSum(g, f, S)
<1> DEFINE Small(n) == {s \in SUBSET S : Cardinality(s) <= n}
           Solves(g, n) ==
               g = [s \in Small(n) |-> IF s = {} THEN 0 ELSE f[Pick(s)] + g[s \ {Pick(s)}]]
           T == {n \in Nat : \E g : Solves(g, n)}
<1>1. ASSUME NEW s \in SUBSET S
      PROVE  /\ Cardinality(s) \in Nat
             /\ Cardinality(s) = 0 <=> s = {}
             /\ s # {} => Pick(s) \in s /\ s \ {Pick(s)} \in SUBSET S
             /\ s # {} => Cardinality(s \ {Pick(s)}) = Cardinality(s) - 1
  <2>1. IsFiniteSet(s)
    BY FS_Subset
  <2>2. Cardinality(s) \in Nat /\ (Cardinality(s) = 0 <=> s = {})
    BY <2>1, FS_CardinalityType, FS_EmptySet
  <2>3. s # {} => Pick(s) \in s
    BY DEF Pick
  <2>4. s # {} => Cardinality(s \ {Pick(s)}) = Cardinality(s) - 1
    BY <2>1, <2>3, FS_RemoveElement
  <2> QED
    BY <2>2, <2>3, <2>4
<1>2. 0 \in T
  <2> DEFINE g == [s \in Small(0) |-> 0]
  <2>1. ASSUME NEW s \in Small(0) PROVE s = {}
    <3>1. s \in SUBSET S /\ Cardinality(s) <= 0
      OBVIOUS
    <3>2. Cardinality(s) \in Nat /\ (Cardinality(s) = 0 <=> s = {})
      BY <1>1, <3>1
    <3> QED
      BY <3>1, <3>2
  <2>2. Solves(g, 0)
    BY <2>1
  <2> QED
    BY <2>2
<1>3. ASSUME NEW n \in Nat, n \in T PROVE n + 1 \in T
  <2>1. PICK g : Solves(g, n)
    BY <1>3
  <2> DEFINE h == [s \in Small(n + 1) |->
                     IF s \in Small(n) THEN g[s] ELSE f[Pick(s)] + g[s \ {Pick(s)}]]
  <2>2. \A s \in Small(n + 1) :
           h[s] = IF s = {} THEN 0 ELSE f[Pick(s)] + h[s \ {Pick(s)}]
    <3> TAKE s \in Small(n + 1)
    <3> DEFINE rest == s \ {Pick(s)}
    <3>1. s \in SUBSET S /\ Cardinality(s) \in Nat /\ Cardinality(s) <= n + 1
      BY <1>1
    <3>2. s # {} => rest \in Small(n) /\ rest \in Small(n + 1)
      <4>1. s # {} => Cardinality(rest) = Cardinality(s) - 1 /\ rest \in SUBSET S
        BY <1>1, <3>1
      <4>2. s # {} => Cardinality(rest) <= n /\ Cardinality(rest) <= n + 1
        BY <3>1, <4>1
      <4> HIDE DEF rest
      <4> QED
        BY <4>1, <4>2
    <3>3. s # {} => h[rest] = g[rest]
      <4> HIDE DEF rest, Small
      <4> QED
        BY <3>2
    <3>4. s = {} => s \in Small(n)
      <4>1. Cardinality(s) = 0 <=> s = {}
        BY <1>1, <3>1
      <4>2. Cardinality(s) = 0 => Cardinality(s) <= n
        OBVIOUS
      <4> QED
        BY <3>1, <4>1, <4>2
    <3>5. s \in Small(n) => g[s] = IF s = {} THEN 0 ELSE f[Pick(s)] + g[rest]
      <4> HIDE DEF Small
      <4> QED
        BY <2>1
    <3>6. h[s] = IF s \in Small(n) THEN g[s] ELSE f[Pick(s)] + g[rest]
      <4> HIDE DEF Small
      <4> QED
        OBVIOUS
    <3> HIDE DEF h, rest, Small
    <3>7. h[s] = IF s = {} THEN 0 ELSE f[Pick(s)] + h[rest]
      BY <3>3, <3>4, <3>5, <3>6
    <3> QED
      BY <3>7 DEF rest
  <2>3. Solves(h, n + 1)
    <3>1. h = [s \in Small(n + 1) |-> h[s]]
      <4> HIDE DEF Small
      <4> QED
        OBVIOUS
    <3> HIDE DEF h, Small
    <3> QED
      BY <2>2, <3>1
  <2> HIDE DEF Solves
  <2> QED
    BY <2>3
<1>4. Cardinality(S) \in T
  <2> HIDE DEF T
  <2>1. Nat \subseteq T
    BY <1>2, <1>3, NumbersByInduction
  <2> QED
    BY <2>1, FS_CardinalityType
<1>5. Small(Cardinality(S)) = SUBSET S
  BY FS_Subset
<1> HIDE DEF Small
<1>6. PICK g : Solves(g, Cardinality(S))
  BY <1>4
<1>7. IsSum(g, f, S)
  BY <1>5, <1>6 DEF IsSum
<1> QED
  BY <1>7

(* Two sums of integers that differ in one summand differ by as much.      *)
LEMMA SumChanges ==
    ASSUME NEW S, IsFiniteSet(S), NEW f, NEW g, NEW e,
           \A x \in S : f[x] \in Int /\ g[x] \in Int,
           \A x \in S : x # e => g[x] = f[x],
           NEW p, IsSum(p, f, S), NEW q, IsSum(q, g, S)
    PROVE  /\ p[S] \in Int
           /\ q[S] = IF e \in S THEN p[S] + g[e] - f[e] ELSE p[S]
<1> DEFINE Right(s) == /\ p[s] \in Int
                       /\ q[s] = IF e \in s THEN p[s] + g[e] - f[e] ELSE p[s]
           T == {s \in SUBSET S : Right(s)}
<1>1. ASSUME NEW s \in SUBSET S, \A x \in s : s \ {x} \in T
      PROVE  s \in T
  <2> DEFINE x == Pick(s)
             rest == s \ {x}
  <2>1. /\ p[s] = IF s = {} THEN 0 ELSE f[x] + p[rest]
        /\ q[s] = IF s = {} THEN 0 ELSE g[x] + q[rest]
    BY DEF IsSum
  <2>2. CASE s = {}
    BY <2>1, <2>2
  <2>3. CASE s # {}
    <3>1. x \in s /\ x \in S /\ (e \in rest <=> e \in s /\ e # x)
      BY <2>3 DEF Pick
    <3>2. Right(rest)
      BY <1>1, <3>1
    <3>3. f[x] \in Int /\ g[x] \in Int /\ (x # e => g[x] = f[x])
      BY <3>1
    <3>4. e \in s => f[e] \in Int /\ g[e] \in Int
      OBVIOUS
    <3> HIDE DEF x, rest
    <3> QED
      BY <2>1, <2>3, <3>1, <3>2, <3>3, <3>4
  <2> QED
    BY <2>2, <2>3
<1>2. SUBSET S \subseteq T
  <2> HIDE DEF T
  <2> QED
    BY <1>1, PartsByInduction
<1>3. S \in T
  BY <1>2
<1> QED
  BY <1>3

-----------------------------------------------------------------------------
(* No interleaving overdraws.  Whoever writes a balance writes one that    *)
(* was read, and read as not negative, with one entry more in it; and who  *)
(* takes from it has seen that it is enough.                               *)

Owned(u) == {e \in Entries : Owner[e] = u}

Signed(b) ==
    [e \in Entries |-> IF e \in Charges THEN - Amount[e] * b[e] ELSE Amount[e] * b[e]]

LEMMA ValueIsSum ==
    ASSUME NEW u, NEW b
    PROVE  \E p : IsSum(p, Signed(b), Owned(u)) /\ Value(u, b) = InitialBalance[u] + p[Owned(u)]
<1> DEFINE p == CHOOSE g : IsSum(g, Signed(b), Owned(u))
           raw(e) == IF e \in Charges THEN - Amount[e] * b[e] ELSE Amount[e] * b[e]
           R(g) == g = [s \in SUBSET Owned(u) |->
                          IF s = {} THEN 0
                          ELSE raw(CHOOSE x \in s : TRUE) + g[s \ {CHOOSE x \in s : TRUE}]]
<1>1. Value(u, b) = InitialBalance[u] + (CHOOSE g : R(g))[Owned(u)]
  BY DEF Value, Owned, MapThenSumSet, MapThenFoldSet
<1>2. \A s \in SUBSET Owned(u) : s # {} => Signed(b)[Pick(s)] = raw(Pick(s))
  BY DEF Owned, Pick, Signed
<1>3. \A g : R(g) <=> IsSum(g, Signed(b), Owned(u))
  <2> TAKE g
  <2>1. [s \in SUBSET Owned(u) |->
            IF s = {} THEN 0
            ELSE raw(CHOOSE x \in s : TRUE) + g[s \ {CHOOSE x \in s : TRUE}]]
        = [s \in SUBSET Owned(u) |->
            IF s = {} THEN 0 ELSE Signed(b)[Pick(s)] + g[s \ {Pick(s)}]]
    <3>1. \A s \in SUBSET Owned(u) :
             (IF s = {} THEN 0
              ELSE raw(CHOOSE x \in s : TRUE) + g[s \ {CHOOSE x \in s : TRUE}])
             = (IF s = {} THEN 0 ELSE Signed(b)[Pick(s)] + g[s \ {Pick(s)}])
      <4> HIDE DEF raw
      <4> QED
        BY <1>2 DEF Pick
    <3> HIDE DEF raw
    <3> QED
      BY <3>1
  <2> HIDE DEF raw
  <2> QED
    BY <2>1 DEF IsSum
<1>4. (CHOOSE g : R(g)) = p
  <2> HIDE DEF R
  <2> QED
    BY <1>3
<1>5. IsSum(p, Signed(b), Owned(u))
  <2>1. IsFiniteSet(Owned(u))
    BY FiniteAssumption, FS_Subset DEF Owned
  <2> QED
    BY <2>1, SumExists
<1> HIDE DEF p, R
<1> QED
  BY <1>1, <1>4, <1>5

LEMMA OwnedIsFinite == ASSUME NEW u PROVE IsFiniteSet(Owned(u))
BY FiniteAssumption, FS_Subset DEF Owned

LEMMA SignedType ==
    ASSUME NEW b \in [Entries -> Nat], NEW e \in Entries
    PROVE  /\ Signed(b)[e] \in Int
           /\ Signed(b)[e] = IF e \in Charges THEN - (Amount[e] * b[e]) ELSE Amount[e] * b[e]
<1>1. Amount[e] \in Nat /\ b[e] \in Nat
  BY EntryAssumption
<1>2. \A x, y \in Nat : x * y \in Nat /\ (- x) * y = - (x * y)
  OBVIOUS
<1> QED
  BY <1>1, <1>2 DEF Signed

(* One entry more is worth its amount to its owner, and nothing to others. *)
LEMMA ValueChanges ==
    ASSUME NEW u \in Users, NEW b \in [Entries -> Nat], NEW c \in [Entries -> Nat], NEW e,
           \A x \in Owned(u) : x # e => c[x] = b[x]
    PROVE  /\ Value(u, b) \in Int
           /\ e \notin Owned(u) => Value(u, c) = Value(u, b)
           /\ e \in Owned(u) /\ c[e] = b[e] + 1 =>
                Value(u, c) = IF e \in Charges THEN Value(u, b) - Amount[e]
                              ELSE Value(u, b) + Amount[e]
<1> DEFINE S == Owned(u)
<1>1. PICK p : IsSum(p, Signed(b), S) /\ Value(u, b) = InitialBalance[u] + p[S]
  BY ValueIsSum
<1>2. PICK q : IsSum(q, Signed(c), S) /\ Value(u, c) = InitialBalance[u] + q[S]
  BY ValueIsSum
<1>3. InitialBalance[u] \in Int
  BY PartyAssumption
<1>4. \A x \in S : Signed(b)[x] \in Int /\ Signed(c)[x] \in Int
  BY SignedType DEF Owned
<1>5. \A x \in S : x # e => Signed(c)[x] = Signed(b)[x]
  BY DEF Owned, Signed
<1>6. IsFiniteSet(S)
  BY OwnedIsFinite
<1>7. /\ p[S] \in Int
      /\ q[S] = IF e \in S THEN p[S] + Signed(c)[e] - Signed(b)[e] ELSE p[S]
  <2> HIDE DEF S
  <2> QED
    BY <1>1, <1>2, <1>4, <1>5, <1>6, SumChanges
<1>8. ASSUME e \in S, c[e] = b[e] + 1
      PROVE  Signed(c)[e] = IF e \in Charges THEN Signed(b)[e] - Amount[e]
                            ELSE Signed(b)[e] + Amount[e]
  <2>1. e \in Entries /\ Amount[e] \in Nat /\ b[e] \in Nat
    BY <1>8, EntryAssumption DEF Owned
  <2>2. \A x, y \in Nat : x * (y + 1) = x * y + x /\ x * y \in Nat
    OBVIOUS
  <2>3. Amount[e] * c[e] = Amount[e] * b[e] + Amount[e] /\ Amount[e] * b[e] \in Nat
    BY <1>8, <2>1, <2>2
  <2>4. /\ Signed(b)[e] = IF e \in Charges THEN - (Amount[e] * b[e]) ELSE Amount[e] * b[e]
        /\ Signed(c)[e] = IF e \in Charges THEN - (Amount[e] * c[e]) ELSE Amount[e] * c[e]
    BY <2>1, SignedType
  <2> DEFINE m == Amount[e] * b[e]
             k == Amount[e] * c[e]
  <2>5. k = m + Amount[e] /\ m \in Nat
    BY <2>3
  <2> HIDE DEF m, k
  <2> QED
    BY <2>1, <2>4, <2>5 DEF m, k
<1>9. e \in S => Signed(b)[e] \in Int /\ Amount[e] \in Nat
  BY <1>4, EntryAssumption DEF Owned
<1> HIDE DEF S
<1>10. Value(u, b) \in Int /\ (e \notin S => Value(u, c) = Value(u, b))
  BY <1>1, <1>2, <1>3, <1>7
<1>11. ASSUME e \in S, c[e] = b[e] + 1
       PROVE  Value(u, c) = IF e \in Charges THEN Value(u, b) - Amount[e]
                            ELSE Value(u, b) + Amount[e]
  BY <1>1, <1>2, <1>3, <1>7, <1>8, <1>9, <1>11
<1> QED
  BY <1>10, <1>11 DEF S

(* Without an entry a balance is what it was initially.                    *)
LEMMA ValueOfNothing ==
    ASSUME NEW u \in Users
    PROVE  Value(u, Nothing) = InitialBalance[u] /\ InitialBalance[u] \in Nat
<1> DEFINE S == Owned(u)
<1>1. PICK p : IsSum(p, Signed(Nothing), S) /\ Value(u, Nothing) = InitialBalance[u] + p[S]
  BY ValueIsSum
<1>2. \A x \in S : Signed(Nothing)[x] = 0
  <2>1. \A n \in Nat : n * 0 = 0 /\ (- n) * 0 = 0
    OBVIOUS
  <2> QED
    BY <2>1, EntryAssumption DEF Owned, Signed, Nothing
<1> DEFINE T == {s \in SUBSET S : p[s] = 0}
<1>3. ASSUME NEW s \in SUBSET S, \A x \in s : s \ {x} \in T
      PROVE  s \in T
  <2>1. p[s] = IF s = {} THEN 0 ELSE Signed(Nothing)[Pick(s)] + p[s \ {Pick(s)}]
    BY <1>1 DEF IsSum
  <2>2. s # {} => Pick(s) \in s
    BY DEF Pick
  <2>3. s # {} => Signed(Nothing)[Pick(s)] = 0 /\ p[s \ {Pick(s)}] = 0
    BY <1>2, <1>3, <2>2
  <2> QED
    BY <2>1, <2>3
<1>4. SUBSET S \subseteq T
  <2> HIDE DEF T, S
  <2> QED
    BY <1>3, OwnedIsFinite, PartsByInduction DEF S
<1>5. p[S] = 0
  BY <1>4
<1> QED
  BY <1>1, <1>5, PartyAssumption

(* What a session works on is of the kind its step says, and the balance   *)
(* it has read is not negative, and enough for a charge it is about to     *)
(* make.                                                                   *)
SolventInv ==
    /\ \A u \in Users : Value(u, inBalance) >= 0
    /\ \A s \in Sessions, u \in Users : Value(u, saw[s]) >= 0
    /\ \A s \in Sessions :
          /\ step[s] \in {"approve", "grant"} => target[s] \notin Charges
          /\ step[s] = "charge" => /\ target[s] \in Charges
                                   /\ Value(Owner[target[s]], saw[s]) >= Amount[target[s]]

LEMMA SolventInit == Init => SolventInv
<1> SUFFICES ASSUME Init PROVE SolventInv
  OBVIOUS
<1>1. /\ inBalance = Nothing /\ \A s \in Sessions : saw[s] = Nothing
      /\ \A s \in Sessions : step[s] = "idle"
  BY DEF Init
<1>2. \A u \in Users : Value(u, Nothing) >= 0
  BY ValueOfNothing
<1> QED
  BY <1>1, <1>2 DEF SolventInv

(* A session reads balances that are not negative.                         *)
LEMMA SolventRead ==
    ASSUME TypeOK, SolventInv, NEW s \in Sessions, NEW e \in Entries,
           NEW label \in {"approve", "reject", "grant", "charge"},
           step' = [step EXCEPT ![s] = label],
           target' = [target EXCEPT ![s] = e],
           NEW b \in {saw[s], inBalance},
           saw' = [saw EXCEPT ![s] = b],
           inBalance' = inBalance,
           label \in {"approve", "grant"} => e \notin Charges,
           label = "charge" => e \in Charges /\ Value(Owner[e], b) >= Amount[e]
    PROVE  SolventInv'
<1>1. \A u \in Users : Value(u, b) >= 0
  BY DEF SolventInv
<1>2. \A v \in Sessions : /\ step'[v] = IF v = s THEN label ELSE step[v]
                          /\ target'[v] = IF v = s THEN e ELSE target[v]
                          /\ saw'[v] = IF v = s THEN b ELSE saw[v]
  BY DEF TypeOK
<1>3. \A u \in Users : Value(u, inBalance') >= 0
  BY DEF SolventInv
<1>4. \A v \in Sessions, u \in Users : Value(u, saw'[v]) >= 0
  BY <1>1, <1>2 DEF SolventInv
<1>5. \A v \in Sessions :
          /\ step'[v] \in {"approve", "grant"} => target'[v] \notin Charges
          /\ step'[v] = "charge" => /\ target'[v] \in Charges
                                    /\ Value(Owner[target'[v]], saw'[v]) >= Amount[target'[v]]
  BY <1>2 DEF SolventInv
<1> QED
  BY <1>3, <1>4, <1>5 DEF SolventInv

(* A session ends with nothing read, and the others are as they were.      *)
LEMMA SolventClose ==
    ASSUME TypeOK, SolventInv, NEW s \in Sessions, Close(s),
           \A u \in Users : Value(u, inBalance') >= 0
    PROVE  SolventInv'
<1>1. \A v \in Sessions : /\ step'[v] = IF v = s THEN "idle" ELSE step[v]
                          /\ target'[v] = IF v = s THEN NoEntry ELSE target[v]
                          /\ saw'[v] = IF v = s THEN Nothing ELSE saw[v]
  BY DEF TypeOK, Close
<1>2. \A u \in Users : Value(u, Nothing) >= 0
  BY ValueOfNothing
<1>3. \A v \in Sessions, u \in Users : Value(u, saw'[v]) >= 0
  BY <1>1, <1>2 DEF SolventInv
<1>4. \A v \in Sessions :
          /\ step'[v] \in {"approve", "grant"} => target'[v] \notin Charges
          /\ step'[v] = "charge" => /\ target'[v] \in Charges
                                    /\ Value(Owner[target'[v]], saw'[v]) >= Amount[target'[v]]
  BY <1>1 DEF SolventInv
<1> QED
  BY <1>3, <1>4 DEF SolventInv

(* The balance that is written is the one that was read, with the target.  *)
LEMMA SolventWrite ==
    ASSUME TypeOK, SolventInv, NEW s \in Sessions, step[s] \in {"approve", "grant", "charge"},
           WriteBalance(s)
    PROVE  \A u \in Users : Value(u, inBalance') >= 0
<1> DEFINE e == target[s]
           c == inBalance'
<1>1. e \in Entries /\ Owner[e] \in Users /\ Amount[e] \in Nat
  BY TargetIsEntry, EntryAssumption
<1>2. inBalance \in [Entries -> Nat] /\ c \in [Entries -> Nat] /\ saw[s] \in [Entries -> Nat]
  BY <1>1, WriteType DEF TypeOK
<1>3. \A x \in Entries : c[x] = IF Owner[x] # Owner[e] THEN inBalance[x]
                                ELSE IF x = e THEN saw[s][x] + 1 ELSE saw[s][x]
  BY DEF WriteBalance
<1>4. /\ step[s] \in {"approve", "grant"} => e \notin Charges
      /\ step[s] = "charge" => e \in Charges /\ Value(Owner[e], saw[s]) >= Amount[e]
  BY DEF SolventInv
<1>5. \A u \in Users : Value(u, inBalance) >= 0 /\ Value(u, saw[s]) >= 0
  BY DEF SolventInv
<1> HIDE DEF e, c
<1> TAKE u \in Users
<1>6. CASE u = Owner[e]
  <2>1. e \in Owned(u) /\ \A x \in Owned(u) : x # e => c[x] = saw[s][x]
    BY <1>1, <1>3, <1>6 DEF Owned
  <2>2. c[e] = saw[s][e] + 1
    BY <1>1, <1>3
  <2>3. /\ Value(u, saw[s]) \in Int
        /\ Value(u, c) = IF e \in Charges THEN Value(u, saw[s]) - Amount[e]
                         ELSE Value(u, saw[s]) + Amount[e]
    BY <1>2, <2>1, <2>2, ValueChanges
  <2>4. Value(u, c) >= 0
    BY <1>1, <1>4, <1>5, <1>6, <2>3
  <2> QED
    BY <2>4 DEF c
<1>7. CASE u # Owner[e]
  <2>1. e \notin Owned(u) /\ \A x \in Owned(u) : x # e => c[x] = inBalance[x]
    BY <1>3, <1>7 DEF Owned
  <2>2. Value(u, c) = Value(u, inBalance)
    BY <1>2, <2>1, ValueChanges
  <2> QED
    BY <1>5, <2>2 DEF c
<1> QED
  BY <1>6, <1>7

LEMMA SolventStep == TypeOK /\ SolventInv /\ [Next]_vars => SolventInv'
<1> SUFFICES ASSUME TypeOK, SolventInv, [Next]_vars PROVE SolventInv'
  OBVIOUS
<1>10. Sessions = Admins \cup Workers
  BY DEF Sessions
<1>0. ASSUME inBalance' = inBalance PROVE \A u \in Users : Value(u, inBalance') >= 0
  BY <1>0 DEF SolventInv
<1>1. ASSUME UNCHANGED <<inBalance, step, target, saw>> PROVE SolventInv'
  BY <1>0, <1>1 DEF SolventInv
<1>2. ASSUME NEW a \in Admins, Authenticate(a) PROVE SolventInv'
  <2>1. /\ inBalance' = inBalance /\ target' = target
        /\ \A v \in Sessions : /\ step'[v] = IF v = a THEN "authenticated" ELSE step[v]
                               /\ saw'[v] = IF v = a THEN inBalance ELSE saw[v]
    BY <1>10, <1>2 DEF Authenticate, TypeOK
  <2>2. \A v \in Sessions, u \in Users : Value(u, saw'[v]) >= 0
    BY <2>1 DEF SolventInv
  <2>3. \A v \in Sessions :
            /\ step'[v] \in {"approve", "grant"} => target'[v] \notin Charges
            /\ step'[v] = "charge" => /\ target'[v] \in Charges
                                      /\ Value(Owner[target'[v]], saw'[v]) >= Amount[target'[v]]
    BY <2>1 DEF SolventInv
  <2> QED
    BY <1>0, <2>1, <2>2, <2>3 DEF SolventInv
<1>3. ASSUME NEW a \in Admins, LoadOwn(a) PROVE SolventInv'
  <2>1. /\ UNCHANGED <<inBalance, target, saw>>
        /\ \A v \in Sessions : step'[v] = IF v = a THEN "loaded" ELSE step[v]
    BY <1>10, <1>3 DEF LoadOwn, TypeOK
  <2>2. \A v \in Sessions, u \in Users : Value(u, saw'[v]) >= 0
    BY <2>1 DEF SolventInv
  <2>3. \A v \in Sessions :
            /\ step'[v] \in {"approve", "grant"} => target'[v] \notin Charges
            /\ step'[v] = "charge" => /\ target'[v] \in Charges
                                      /\ Value(Owner[target'[v]], saw'[v]) >= Amount[target'[v]]
    BY <2>1 DEF SolventInv
  <2> QED
    BY <1>0, <2>1, <2>2, <2>3 DEF SolventInv
<1>4. ASSUME NEW a \in Admins, NEW r \in Requests, NEW d \in {"approve", "reject"},
             ModerateRead(a, r, d)
      PROVE  SolventInv'
  <2>1. r \in Entries /\ r \notin Charges /\ SeenBalances(a, Owner[r]) \in {saw[a], inBalance}
    BY EntryAssumption DEF Entries, SeenBalances
  <2> QED
    BY <1>10, <1>4, <2>1, SolventRead DEF ModerateRead
<1>5. ASSUME NEW a \in Admins, NEW g \in Grants, GrantRead(a, g) PROVE SolventInv'
  <2>1. g \in Entries /\ g \notin Charges /\ SeenBalances(a, Owner[g]) \in {saw[a], inBalance}
    BY EntryAssumption DEF Entries, SeenBalances
  <2> QED
    BY <1>10, <1>5, <2>1, SolventRead DEF GrantRead
<1>6. ASSUME NEW w \in Workers, NEW c \in Charges, ChargeRead(w, c) PROVE SolventInv'
  <2>1. c \in Entries
    BY DEF Entries
  <2> QED
    BY <1>10, <1>6, <2>1, SolventRead DEF ChargeRead
<1>7. ASSUME NEW s \in Sessions, BookCommit(s) PROVE SolventInv'
  BY <1>7, SolventWrite, SolventClose DEF BookCommit
<1>8. ASSUME NEW a \in Admins, ApproveCommit(a) PROVE SolventInv'
  BY <1>10, <1>8, SolventWrite, SolventClose DEF ApproveCommit
<1>9. ASSUME NEW s \in Sessions, Close(s), inBalance' = inBalance PROVE SolventInv'
  BY <1>0, <1>9, SolventClose
<1> QED
  BY <1>1, <1>2, <1>3, <1>4, <1>5, <1>6, <1>7, <1>8, <1>9, <1>10
  DEF Next, AdminStep, RequestTopUp, RejectCommit, Abandon, vars

(* No interleaving of approvals, direct top-ups and charges takes a balance *)
(* below zero, although each of them commits a value computed from a       *)
(* balance it read earlier (BalanceService.charge, top_up, approve_top_up),*)
(* for any number of transactions.                                         *)
THEOREM BalancesStaySolvent == Spec => []NeverOverdrawn
<1>1. SolventInv => NeverOverdrawn
  BY DEF SolventInv, NeverOverdrawn
<1>2. Spec => []TypeOK
  BY ModerationTypeCorrect
<1> QED
  BY SolventInit, SolventStep, <1>1, <1>2, PTL DEF Spec
=============================================================================
