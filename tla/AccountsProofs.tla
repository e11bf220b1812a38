--------------------------- MODULE AccountsProofs ---------------------------
(***************************************************************************)
(* Proofs about Accounts, for any number of users, requests, threads and   *)
(* credentials.                                                            *)
(***************************************************************************)
EXTENDS Accounts, TLAPS

-----------------------------------------------------------------------------
(* Types.  A request that has been made has an e-mail and a password, and  *)
(* a thread at work has what its kind of request has read: of a row, if    *)
(* there was one, which stays.                                             *)

Pairs == [key : Keys, name : Names]

ShapeInv ==
    /\ \A a \in AuthRequests : auth[a].at # "new" =>
          auth[a].email \in Emails /\ auth[a].password \in Passwords
    /\ \A h \in Threads :
          /\ thread[h].at # "idle" => thread[h].email \in Emails
          /\ thread[h].at = "put" => thread[h].pair \in Submissions[thread[h].email]
          /\ thread[h].at = "delete" => thread[h].seen \in Row
          /\ thread[h].at # "idle" /\ thread[h].seen # NoRow =>
                credential[thread[h].email] # NoRow

TypeInv == TypeOK /\ ShapeInv

(* An UPDATE leaves a row a row.                                           *)
LEMMA UpdatedType ==
    ASSUME NEW row \in Row, NEW seen \in Row, NEW new \in Row
    PROVE  Updated(row, seen, new) \in Row
BY DEF Updated, Flushed, Row

LEMMA InitType == Init => TypeInv
<1> SUFFICES ASSUME Init PROVE TypeInv
  OBVIOUS
<1>1. IdleThread \in Thread
  BY DEF IdleThread, Thread
<1>2. NewRequest \in Request
  BY DEF NewRequest, Request
<1>3. TypeOK
  BY <1>1, <1>2 DEF Init, TypeOK
<1>4. ShapeInv
  BY DEF Init, ShapeInv, IdleThread, NewRequest
<1> QED
  BY <1>3, <1>4 DEF TypeInv

(* A registration or a login moves on.                                     *)
LEMMA MovesType ==
    ASSUME TypeInv, NEW a \in AuthRequests, auth[a].at # "new",
           NEW label \in {"session", "answered", "refused", "failed", "down"},
           Moves(a, label)
    PROVE  /\ auth' \in [AuthRequests -> Request]
           /\ \A b \in AuthRequests : auth'[b].at # "new" =>
                 auth'[b].email \in Emails /\ auth'[b].password \in Passwords
<1>1. auth[a] \in Request
  BY DEF TypeInv, TypeOK
<1>2. [auth[a] EXCEPT !.at = label] \in Request
  BY <1>1 DEF Request
<1> QED
  BY <1>1, <1>2 DEF TypeInv, TypeOK, ShapeInv, Moves, Request

LEMMA AuthType ==
    ASSUME TypeInv, NEW a \in AuthRequests, AuthStep(a)
    PROVE  TypeInv'
<1>1. ASSUME NEW s \in Spellings, NEW p \in Passwords, Register(a, s, p) \/ Login(a, s, p)
      PROVE  TypeInv'
  <2>1. Normal[s] \in Emails
    BY AccountAssumption
  <2>2. PICK label \in {"insert", "session", "refused"}, kind \in {"register", "login"} :
            auth' = [auth EXCEPT ![a] =
               [at |-> label, kind |-> kind, email |-> Normal[s], password |-> p]]
    BY <1>1 DEF Register, Login
  <2>3. auth' \in [AuthRequests -> Request]
    BY <2>1, <2>2 DEF TypeInv, TypeOK, Request
  <2>4. UNCHANGED <<users, tokens, credentialVars, workerVars>>
    BY <1>1 DEF Register, Login
  <2>5. TypeOK'
    BY <2>3, <2>4 DEF TypeInv, TypeOK, credentialVars, workerVars
  <2>6. ShapeInv'
    BY <2>1, <2>2, <2>4 DEF TypeInv, TypeOK, ShapeInv, credentialVars, workerVars
  <2> QED
    BY <2>5, <2>6 DEF TypeInv
<1>2. ASSUME InsertUser(a) PROVE TypeInv'
  <2>1. auth[a].email \in Emails /\ auth[a].password \in Passwords
    BY <1>2 DEF InsertUser, TypeInv, ShapeInv
  <2>2. /\ auth' \in [AuthRequests -> Request]
        /\ \A b \in AuthRequests : auth'[b].at # "new" =>
              auth'[b].email \in Emails /\ auth'[b].password \in Passwords
    BY <1>2, MovesType DEF InsertUser
  <2>3. users' \in [Emails -> Passwords \cup {NoUser}]
    BY <1>2, <2>1 DEF InsertUser, TypeInv, TypeOK
  <2>4. UNCHANGED <<tokens, credentialVars, workerVars>>
    BY <1>2 DEF InsertUser
  <2> QED
    BY <2>2, <2>3, <2>4 DEF TypeInv, TypeOK, ShapeInv, credentialVars, workerVars
<1>3. ASSUME CreateSession(a) PROVE TypeInv'
  <2>1. auth[a].email \in Emails
    BY <1>3 DEF CreateSession, TypeInv, ShapeInv
  <2>2. /\ auth' \in [AuthRequests -> Request]
        /\ \A b \in AuthRequests : auth'[b].at # "new" =>
              auth'[b].email \in Emails /\ auth'[b].password \in Passwords
    BY <1>3, MovesType DEF CreateSession
  <2> QED
    BY <1>3, <2>1, <2>2 DEF CreateSession, TypeInv, TypeOK, ShapeInv, credentialVars, workerVars
<1>4. ASSUME AuthDies(a) PROVE TypeInv'
  <2>1. /\ auth' \in [AuthRequests -> Request]
        /\ \A b \in AuthRequests : auth'[b].at # "new" =>
              auth'[b].email \in Emails /\ auth'[b].password \in Passwords
    BY <1>4, MovesType DEF AuthDies
  <2> QED
    BY <1>4, <2>1 DEF AuthDies, TypeInv, TypeOK, ShapeInv, credentialVars, workerVars
<1> QED
  BY <1>1, <1>2, <1>3, <1>4 DEF AuthStep

(* A thread that takes up a request, or is done with it.                   *)
LEMMA ThreadType ==
    ASSUME TypeInv, NEW h \in Threads, NEW t \in Thread,
           t.at # "idle" => t.email \in Emails,
           t.at = "put" => t.pair \in Submissions[t.email],
           t.at = "delete" => t.seen \in Row,
           t.at # "idle" /\ t.seen # NoRow => credential'[t.email] # NoRow,
           \A e \in Emails : credential[e] # NoRow => credential'[e] # NoRow,
           thread' = [thread EXCEPT ![h] = t],
           credential' \in [Emails -> Row \cup {NoRow}],
           last' \in [Emails -> Pairs \cup {NoCall}],
           crossed' \in [Emails -> BOOLEAN],
           missed' \in [Threads -> SUBSET {"on", "off"}],
           UNCHANGED <<authVars, workerVars>>
    PROVE  TypeInv'
<1>1. TypeOK'
  BY DEF TypeInv, TypeOK, authVars, workerVars, Pairs
<1>2. ShapeInv'
  BY DEF TypeInv, TypeOK, ShapeInv, authVars, workerVars
<1> QED
  BY <1>1, <1>2 DEF TypeInv

(* The answer to a PUT or DELETE.                                          *)
LEMMA AnswersType ==
    ASSUME TypeInv, NEW h \in Threads, NEW e \in Emails, NEW meant \in Pairs \cup {NoCall},
           Answers(h, e, meant),
           NEW row \in Row, credential' = [credential EXCEPT ![e] = row]
    PROVE  TypeInv'
<1>1. IdleThread \in Thread /\ IdleThread.at = "idle"
  BY DEF IdleThread, Thread
<1>2. credential' \in [Emails -> Row \cup {NoRow}]
  BY DEF TypeInv, TypeOK
<1>3. last' \in [Emails -> Pairs \cup {NoCall}]
  BY DEF TypeInv, TypeOK, Answers, Pairs
<1>4. crossed' \in [Emails -> BOOLEAN]
  <2>1. (crossed[e] \/ Overtaken(h, e) # {}) \in BOOLEAN
    OBVIOUS
  <2> QED
    BY <2>1 DEF TypeInv, TypeOK, Answers
<1>5. \A f \in Emails : credential[f] # NoRow => credential'[f] # NoRow
  BY AccountAssumption DEF TypeInv, TypeOK
<1>6. missed' \in [Threads -> SUBSET {"on", "off"}]
  BY DEF TypeInv, TypeOK, Answers, Switch
<1> QED
  BY <1>1, <1>2, <1>3, <1>4, <1>5, <1>6, ThreadType DEF Answers

(* What the writes of a credential leave.                                  *)
PutRow(h) == [key |-> thread[h].pair.key, name |-> thread[h].pair.name, enabled |-> TRUE]

LEMMA PutFacts ==
    ASSUME TypeInv, NEW h \in Threads, thread[h].at = "put"
    PROVE  /\ thread[h].email \in Emails
           /\ thread[h].pair \in Submissions[thread[h].email]
           /\ thread[h].pair \in Pairs
           /\ PutRow(h) \in Row
           /\ thread[h].seen \in Row \cup {NoRow}
<1>1. thread[h].email \in Emails /\ thread[h].pair \in Submissions[thread[h].email]
  BY DEF TypeInv, ShapeInv
<1>2. thread[h].pair \in Pairs
  BY <1>1, AccountAssumption DEF Pairs
<1>3. thread[h].seen \in Row \cup {NoRow}
  BY DEF TypeInv, TypeOK, Thread
<1> QED
  BY <1>1, <1>2, <1>3 DEF Pairs, PutRow, Row

LEMMA CredentialType ==
    ASSUME TypeInv, NEW h \in Threads, CredentialStep(h)
    PROVE  TypeInv'
<1>1. ASSUME NEW e \in Emails, DeleteRead(h, e) PROVE TypeInv'
  <2> DEFINE t == [at |-> "delete", email |-> e, pair |-> NoCall, seen |-> credential[e]]
  <2>1. credential[e] \in Row
    BY <1>1 DEF DeleteRead, TypeInv, TypeOK
  <2>2. t \in Thread
    BY <2>1 DEF Thread
  <2>3. thread' = [thread EXCEPT ![h] = t]
    BY <1>1 DEF DeleteRead
  <2>4. UNCHANGED <<authVars, credential, last, crossed, workerVars>> /\ credential[e] # NoRow
    BY <1>1 DEF DeleteRead
  <2>5. missed' \in [Threads -> SUBSET {"on", "off"}]
    BY <1>1 DEF DeleteRead, TypeInv, TypeOK
  <2> QED
    BY <2>1, <2>2, <2>3, <2>4, <2>5, ThreadType DEF TypeInv, TypeOK, Pairs
<1>2. ASSUME NEW e \in Emails, NEW c \in Submissions[e], PutRead(h, e, c) PROVE TypeInv'
  <2> DEFINE t == [at |-> "put", email |-> e, pair |-> c, seen |-> credential[e]]
  <2>1. c \in Pairs
    BY AccountAssumption DEF Pairs
  <2>2. t \in Thread
    BY <2>1 DEF Thread, Pairs, TypeInv, TypeOK
  <2>3. thread' = [thread EXCEPT ![h] = t]
    BY <1>2 DEF PutRead
  <2>4. UNCHANGED <<authVars, credential, last, crossed, workerVars>>
    BY <1>2 DEF PutRead
  <2>5. missed' \in [Threads -> SUBSET {"on", "off"}]
    BY <1>2 DEF PutRead, TypeInv, TypeOK
  <2> QED
    BY <2>2, <2>3, <2>4, <2>5, ThreadType DEF TypeInv, TypeOK, Pairs
<1>3. ASSUME NEW row \in Row, NEW e \in Emails, NEW meant \in Pairs \cup {NoCall},
             credential' = [credential EXCEPT ![e] = row], Answers(h, e, meant)
      PROVE  TypeInv'
  BY <1>3, AnswersType
<1>4. ASSUME UNCHANGED <<authVars, credential, last, crossed, missed, workerVars>>,
             thread' = [thread EXCEPT ![h] = IdleThread]
      PROVE  TypeInv'
  <2>1. IdleThread \in Thread /\ IdleThread.at = "idle"
    BY DEF IdleThread, Thread
  <2> QED
    BY <1>4, <2>1, ThreadType DEF TypeInv, TypeOK, Pairs
<1>5. CASE PutInsert(h)
  BY <1>3, <1>4, <1>5, PutFacts DEF PutInsert, PutRow
<1>6. CASE PutUpdate(h)
  <2> DEFINE e == thread[h].email
  <2>1. /\ e \in Emails /\ PutRow(h) \in Row /\ thread[h].seen \in Row
        /\ thread[h].pair \in Pairs
    BY <1>6, PutFacts DEF PutUpdate
  <2>2. credential[e] \in Row
    BY <1>6, <2>1 DEF PutUpdate, TypeInv, TypeOK, ShapeInv
  <2>3. Updated(credential[e], thread[h].seen, PutRow(h)) \in Row
    BY <2>1, <2>2, UpdatedType
  <2>4. credential' = [credential EXCEPT ![e] =
            Updated(credential[e], thread[h].seen, PutRow(h))]
    BY <1>6 DEF PutUpdate, PutRow
  <2> QED
    BY <1>3, <1>6, <2>1, <2>3, <2>4 DEF PutUpdate
<1>7. CASE DeleteCommit(h)
  <2> DEFINE e   == thread[h].email
             new == [thread[h].seen EXCEPT !.enabled = FALSE]
  <2>1. e \in Emails /\ thread[h].seen \in Row /\ thread[h].seen # NoRow
    BY <1>7, AccountAssumption DEF DeleteCommit, TypeInv, ShapeInv
  <2>2. new \in Row
    BY <2>1 DEF Row
  <2>3. credential[e] \in Row
    BY <1>7, <2>1 DEF DeleteCommit, TypeInv, TypeOK, ShapeInv
  <2>4. Updated(credential[e], thread[h].seen, new) \in Row
    BY <2>1, <2>2, <2>3, UpdatedType
  <2>5. credential' = [credential EXCEPT ![e] = Updated(credential[e], thread[h].seen, new)]
    BY <1>7 DEF DeleteCommit
  <2> QED
    BY <1>3, <1>7, <2>1, <2>4, <2>5 DEF DeleteCommit
<1>8. CASE ThreadDies(h)
  BY <1>4, <1>8 DEF ThreadDies
<1> QED
  BY <1>1, <1>2, <1>5, <1>6, <1>7, <1>8 DEF CredentialStep

LEMMA TaskType ==
    ASSUME TypeInv, NEW e \in Emails, TaskStep(e)
    PROVE  TypeInv'
<1>1. CASE Submit(e)
  BY <1>1 DEF Submit, TypeInv, TypeOK, ShapeInv, authVars, credentialVars
<1>2. CASE LookUp(e)
  <2>1. Pair(credential[e]) \in Pairs
    BY <1>2 DEF LookUp, IsOn, Enabled, TypeInv, TypeOK, Row, Pair, Pairs
  <2> QED
    BY <1>2, <2>1 DEF LookUp, TypeInv, TypeOK, ShapeInv, authVars, credentialVars, Pairs
<1>3. CASE LookUpRaises(e)
  BY <1>3 DEF LookUpRaises, TypeInv, TypeOK, ShapeInv, authVars, credentialVars
<1>4. CASE CallReturns(e)
  BY <1>4 DEF CallReturns, TypeInv, TypeOK, ShapeInv, authVars, credentialVars
<1> QED
  BY <1>1, <1>2, <1>3, <1>4 DEF TaskStep

LEMMA TypeStep == TypeInv /\ [Next]_vars => TypeInv'
<1> SUFFICES ASSUME TypeInv, [Next]_vars PROVE TypeInv'
  OBVIOUS
<1>1. CASE UNCHANGED vars
  BY <1>1 DEF vars, TypeInv, TypeOK, ShapeInv
<1>2. CASE Next
  BY <1>2, AuthType, CredentialType, TaskType DEF Next
<1> QED
  BY <1>1, <1>2

(* Every reachable state is well typed, whoever crosses whom.              *)
THEOREM AccountTypeCorrect == Spec => []TypeOK
<1>1. TypeInv => TypeOK
  BY DEF TypeInv
<1> QED
  BY InitType, TypeStep, <1>1, PTL DEF Spec

THEOREM TypeInvHolds == Spec => []TypeInv
BY InitType, TypeStep, PTL DEF Spec

-----------------------------------------------------------------------------
(* Accounts.  A request that has got past the password, or past the commit *)
(* of the user, has the password that is stored, and nothing replaces it.  *)

AccountInv ==
    \A a \in AuthRequests :
        /\ auth[a].at \in {"session", "answered"} => users[auth[a].email] = auth[a].password
        /\ tokens[a] # NoUser => auth[a].at = "answered" /\ tokens[a] = auth[a].email

LEMMA InitAccount == Init => AccountInv
<1>1. ASSUME Init, NEW a \in AuthRequests
      PROVE  auth[a].at = "new" /\ tokens[a] = NoUser
  BY <1>1 DEF Init, NewRequest
<1> QED
  BY <1>1 DEF AccountInv

(* A step that is not one of a registration or a login changes nothing of  *)
(* the accounts.                                                           *)
LEMMA OtherSteps ==
    ASSUME [Next]_vars
    PROVE  (\E a \in AuthRequests : AuthStep(a)) \/ UNCHANGED authVars
<1>1. ASSUME NEW h \in Threads, CredentialStep(h) PROVE UNCHANGED authVars
  BY <1>1 DEF CredentialStep, DeleteRead, PutRead, PutInsert, PutUpdate, DeleteCommit,
              ThreadDies, Answers, authVars
<1>2. ASSUME NEW e \in Emails, TaskStep(e) PROVE UNCHANGED authVars
  BY <1>2 DEF TaskStep, Submit, LookUp, LookUpRaises, CallReturns
<1>3. CASE UNCHANGED vars
  BY <1>3 DEF vars, authVars
<1> QED
  BY <1>1, <1>2, <1>3 DEF Next

LEMMA AccountStep ==
    ASSUME TypeInv, AccountInv, [Next]_vars
    PROVE  AccountInv'
<1>1. ASSUME NEW a \in AuthRequests, AuthStep(a) PROVE AccountInv'
  <2>1. ASSUME NEW s \in Spellings, NEW p \in Passwords, Register(a, s, p)
        PROVE  AccountInv'
    BY <2>1 DEF Register, AccountInv, TypeInv, TypeOK
  <2>2. ASSUME NEW s \in Spellings, NEW p \in Passwords, Login(a, s, p)
        PROVE  AccountInv'
    BY <2>2 DEF Login, AccountInv, TypeInv, TypeOK
  <2>3. CASE InsertUser(a)
    <3>1. \A b \in AuthRequests : auth[b].at \in {"session", "answered"} =>
              users[auth[b].email] # NoUser /\ auth[b].email \in Emails
      BY AccountAssumption DEF AccountInv, TypeInv, ShapeInv
    <3>2. auth[a].email \in Emails
      BY <2>3 DEF InsertUser, TypeInv, ShapeInv
    <3>3. auth[a] \in Request
      BY DEF TypeInv, TypeOK
    <3> QED
      BY <2>3, <3>1, <3>2, <3>3 DEF InsertUser, Moves, AccountInv, TypeInv, TypeOK, Request
  <2>4. CASE CreateSession(a)
    <3>1. auth[a] \in Request
      BY DEF TypeInv, TypeOK
    <3> QED
      BY <2>4, <3>1 DEF CreateSession, Moves, AccountInv, TypeInv, TypeOK, Request
  <2>5. CASE AuthDies(a)
    <3>1. auth[a] \in Request
      BY DEF TypeInv, TypeOK
    <3> QED
      BY <2>5, <3>1 DEF AuthDies, Moves, AccountInv, TypeInv, TypeOK, Request
  <2> QED
    BY <1>1, <2>1, <2>2, <2>3, <2>4, <2>5 DEF AuthStep
<1>2. CASE UNCHANGED authVars
  BY <1>2 DEF authVars, AccountInv
<1> QED
  BY <1>1, <1>2, OtherSteps

(* Whoever was given a token has the account of the e-mail and password    *)
(* that were sent (services.py, create_user and login), however many       *)
(* registrations of that e-mail cross.                                     *)
THEOREM TokensOpenOwnAccount == Spec => []TokenOpensOwnAccount
<1>1. AccountInv => TokenOpensOwnAccount
  BY DEF AccountInv, TokenOpensOwnAccount
<1> QED
  BY InitType, TypeStep, InitAccount, AccountStep, <1>1, PTL DEF Spec

(* Two registrations of one e-mail, however it is spelt, do not both       *)
(* succeed.                                                                *)
RegisteredOnce ==
    \A a, b \in AuthRequests :
        /\ auth[a].kind = "register" /\ auth[a].at \in {"session", "answered"}
        /\ auth[b].kind = "register" /\ auth[b].at \in {"session", "answered"}
        /\ auth[a].email = auth[b].email
        => a = b

LEMMA RegisteredStep ==
    ASSUME TypeInv, AccountInv, RegisteredOnce, [Next]_vars
    PROVE  RegisteredOnce'
<1>1. ASSUME NEW a \in AuthRequests, AuthStep(a) PROVE RegisteredOnce'
  <2>1. auth[a] \in Request
    BY DEF TypeInv, TypeOK
  <2>2. ASSUME NEW s \in Spellings, NEW p \in Passwords, Register(a, s, p)
        PROVE  RegisteredOnce'
    BY <2>2 DEF Register, RegisteredOnce, TypeInv, TypeOK
  <2>3. ASSUME NEW s \in Spellings, NEW p \in Passwords, Login(a, s, p)
        PROVE  RegisteredOnce'
    BY <2>3 DEF Login, RegisteredOnce, TypeInv, TypeOK
  <2>4. CASE InsertUser(a)
    <3>1. \A b \in AuthRequests : auth[b].at \in {"session", "answered"} =>
              users[auth[b].email] # NoUser
      BY AccountAssumption DEF AccountInv, TypeInv, ShapeInv
    <3>2. PICK label \in {"session", "failed"} :
              /\ auth' = [auth EXCEPT ![a].at = label]
              /\ label = "session" => users[auth[a].email] = NoUser
      BY <2>4 DEF InsertUser, Moves
    <3>3. \A b \in AuthRequests :
             /\ auth'[b].kind = auth[b].kind /\ auth'[b].email = auth[b].email
             /\ b # a => auth'[b].at = auth[b].at
      BY <2>1, <3>2 DEF TypeInv, TypeOK, Request
    <3>4. auth'[a].at = label
      BY <2>1, <3>2 DEF TypeInv, TypeOK, Request
    <3> QED
      BY <3>1, <3>2, <3>3, <3>4 DEF RegisteredOnce
  <2>5. CASE CreateSession(a)
    <3>1. auth' = [auth EXCEPT ![a] = [auth[a] EXCEPT !.at = "answered"]]
      BY <2>5 DEF CreateSession, Moves
    <3>2. auth[a].at = "session"
      BY <2>5 DEF CreateSession
    <3> QED
      BY <2>1, <3>1, <3>2 DEF RegisteredOnce, TypeInv, TypeOK, Request
  <2>6. CASE AuthDies(a)
    BY <2>1, <2>6 DEF AuthDies, Moves, RegisteredOnce, TypeInv, TypeOK, Request
  <2> QED
    BY <1>1, <2>2, <2>3, <2>4, <2>5, <2>6 DEF AuthStep
<1>2. CASE UNCHANGED authVars
  BY <1>2 DEF authVars, RegisteredOnce
<1> QED
  BY <1>1, <1>2, OtherSteps

(* One e-mail is registered once: the constraint decides between two       *)
(* registrations that both found nobody (services.py, create_user).        *)
THEOREM RegistrationsAreSingle == Spec => []RegisteredOnce
<1>1. Init => RegisteredOnce
  <2>1. ASSUME Init, NEW a \in AuthRequests PROVE auth[a].at = "new"
    BY <2>1 DEF Init, NewRequest
  <2> QED
    BY <2>1 DEF RegisteredOnce
<1> QED
  BY InitType, TypeStep, InitAccount, AccountStep, <1>1, RegisteredStep, PTL DEF Spec

-----------------------------------------------------------------------------
(* Credentials.  Until two writes of one credential cross, whoever has     *)
(* read it and not yet written it has read what is stored.                 *)

SeenIsCurrent ==
    \A h \in Threads : thread[h].at # "idle" /\ ~crossed[thread[h].email]
        => thread[h].seen = credential[thread[h].email]

AskedInv ==
    /\ SeenIsCurrent
    /\ CredentialAsAsked
    /\ \A e \in Emails : last[e] # NoCall => last[e] \in Submissions[e]

(* An UPDATE of a row that is as it was read leaves what was meant.        *)
LEMMA UpdatedCurrent ==
    ASSUME NEW row \in Row, NEW new \in Row
    PROVE  Updated(row, row, new) = new
BY DEF Updated, Flushed, Row

(* A write of the credential of e that nobody's crosses: it leaves what    *)
(* was meant, and nobody else has read the row.                            *)
LEMMA AnswersAsked ==
    ASSUME TypeInv, AskedInv,
           NEW h \in Threads, NEW e \in Emails, NEW meant \in Submissions[e] \cup {NoCall},
           NEW row \in Row,
           Answers(h, e, meant),
           credential' = [credential EXCEPT ![e] = row],
           ~crossed[e] /\ meant # NoCall => row.enabled /\ Pair(row) = meant,
           ~crossed[e] /\ meant = NoCall => ~row.enabled
    PROVE  AskedInv'
<1>1. /\ last' = [last EXCEPT ![e] = meant]
      /\ thread' = [thread EXCEPT ![h] = IdleThread]
      /\ crossed' = [crossed EXCEPT ![e] = crossed[e] \/ Overtaken(h, e) # {}]
  BY DEF Answers
<1>2. /\ credential \in [Emails -> Row \cup {NoRow}] /\ crossed \in [Emails -> BOOLEAN]
      /\ last \in [Emails -> Pairs \cup {NoCall}] /\ thread \in [Threads -> Thread]
  BY DEF TypeInv, TypeOK, Pairs
<1>3. SeenIsCurrent'
  <2> SUFFICES ASSUME NEW k \in Threads, thread'[k].at # "idle", ~crossed'[thread'[k].email]
               PROVE  thread'[k].seen = credential'[thread'[k].email]
    BY DEF SeenIsCurrent
  <2>1. k # h /\ thread'[k] = thread[k]
    BY <1>1, <1>2 DEF IdleThread
  <2>2. thread[k].email \in Emails
    BY <2>1 DEF TypeInv, ShapeInv
  <2>3. thread[k].email # e
    BY <1>1, <1>2, <2>1 DEF Overtaken
  <2>4. ~crossed[thread[k].email] /\ credential'[thread[k].email] = credential[thread[k].email]
    BY <1>1, <1>2, <2>1, <2>2, <2>3
  <2> QED
    BY <2>1, <2>4 DEF AskedInv, SeenIsCurrent
<1>4. CredentialAsAsked'
  <2> SUFFICES ASSUME NEW f \in Emails, ~crossed'[f]
               PROVE  /\ last'[f] # NoCall => IsOn(f)' /\ Pair(credential'[f]) = last'[f]
                      /\ last'[f] = NoCall => ~IsOn(f)'
    BY DEF CredentialAsAsked
  <2>1. ~crossed[f]
    BY <1>1, <1>2
  <2>2. CASE f = e
    BY <1>1, <1>2, <2>1, <2>2, AccountAssumption DEF IsOn, Enabled
  <2>3. CASE f # e
    BY <1>1, <1>2, <2>1, <2>3 DEF IsOn, Enabled, AskedInv, CredentialAsAsked
  <2> QED
    BY <2>2, <2>3
<1>5. \A f \in Emails : last'[f] # NoCall => last'[f] \in Submissions[f]
  BY <1>1, <1>2 DEF AskedInv
<1> QED
  BY <1>3, <1>4, <1>5 DEF AskedInv

LEMMA InitAsked == Init => AskedInv
<1> SUFFICES ASSUME Init PROVE AskedInv
  OBVIOUS
<1>1. \A h \in Threads : thread[h].at = "idle"
  BY DEF Init, IdleThread
<1>2. \A e \in Emails : last[e] = NoCall /\ credential[e] = NoRow
  BY DEF Init
<1> QED
  BY <1>1, <1>2 DEF AskedInv, SeenIsCurrent, CredentialAsAsked, IsOn, Enabled

LEMMA AskedStep ==
    ASSUME TypeInv, AskedInv, [Next]_vars
    PROVE  AskedInv'
<1>1. ASSUME NEW h \in Threads, CredentialStep(h) PROVE AskedInv'
  <2>1. ASSUME NEW e \in Emails, DeleteRead(h, e) PROVE AskedInv'
    BY <2>1 DEF DeleteRead, AskedInv, SeenIsCurrent, CredentialAsAsked, IsOn, Enabled, TypeInv, TypeOK
  <2>2. ASSUME NEW e \in Emails, NEW c \in Submissions[e], PutRead(h, e, c) PROVE AskedInv'
    BY <2>2 DEF PutRead, AskedInv, SeenIsCurrent, CredentialAsAsked, IsOn, Enabled, TypeInv, TypeOK
  <2>3. ASSUME UNCHANGED <<credential, last, crossed>>,
               thread' = [thread EXCEPT ![h] = IdleThread]
        PROVE  AskedInv'
    BY <2>3 DEF IdleThread, AskedInv, SeenIsCurrent, CredentialAsAsked, IsOn, Enabled, TypeInv, TypeOK
  <2> DEFINE e == thread[h].email
  <2>4. ASSUME thread[h].at = "put", PutRow(h) \in Row
        PROVE  PutRow(h).enabled /\ Pair(PutRow(h)) = thread[h].pair
    <3>1. thread[h].pair \in Pairs
      BY <2>4, PutFacts
    <3> QED
      BY <3>1 DEF PutRow, Pair, Pairs
  <2>5. CASE PutInsert(h)
    <3>1. /\ e \in Emails /\ PutRow(h) \in Row
          /\ thread[h].pair \in Submissions[e] /\ thread[h].pair \in Pairs
      BY <2>5, PutFacts DEF PutInsert
    <3>2. thread[h].pair # NoCall
      BY <3>1, AccountAssumption DEF Pairs
    <3>3. CASE /\ credential' = [credential EXCEPT ![e] = PutRow(h)]
               /\ Answers(h, e, thread[h].pair)
      <4>1. PutRow(h).enabled /\ Pair(PutRow(h)) = thread[h].pair
        BY <2>4, <2>5, <3>1 DEF PutInsert
      <4> QED
        BY <3>1, <3>2, <3>3, <4>1, AnswersAsked
    <3> QED
      BY <2>3, <2>5, <3>3 DEF PutInsert, PutRow
  <2>6. CASE PutUpdate(h)
    <3>1. /\ e \in Emails /\ PutRow(h) \in Row /\ thread[h].seen \in Row
          /\ thread[h].pair \in Submissions[e] /\ thread[h].pair \in Pairs
      BY <2>6, PutFacts DEF PutUpdate
    <3>2. credential[e] \in Row
      BY <2>6, <3>1 DEF PutUpdate, TypeInv, TypeOK, ShapeInv
    <3> DEFINE row == Updated(credential[e], thread[h].seen, PutRow(h))
    <3>3. row \in Row
      BY <3>1, <3>2, UpdatedType
    <3>4. credential' = [credential EXCEPT ![e] = row] /\ Answers(h, e, thread[h].pair)
      BY <2>6 DEF PutUpdate, PutRow
    <3>5. ~crossed[e] => row = PutRow(h)
      BY <2>6, <3>1, <3>2, UpdatedCurrent DEF PutUpdate, AskedInv, SeenIsCurrent
    <3>6. thread[h].pair # NoCall
      BY <3>1, AccountAssumption DEF Pairs
    <3> HIDE DEF row
    <3>7. thread[h].at = "put"
      BY <2>6 DEF PutUpdate
    <3> QED
      BY <2>4, <3>1, <3>3, <3>4, <3>5, <3>6, <3>7, AnswersAsked
  <2>7. CASE DeleteCommit(h)
    <3> DEFINE new == [thread[h].seen EXCEPT !.enabled = FALSE]
    <3>1. e \in Emails /\ thread[h].seen \in Row /\ thread[h].seen # NoRow
      BY <2>7, AccountAssumption DEF DeleteCommit, TypeInv, ShapeInv
    <3>2. credential[e] \in Row
      BY <2>7, <3>1 DEF DeleteCommit, TypeInv, TypeOK, ShapeInv
    <3>3. new \in Row /\ ~new.enabled
      BY <3>1 DEF Row
    <3> DEFINE row == Updated(credential[e], thread[h].seen, new)
    <3>4. row \in Row
      BY <3>1, <3>2, <3>3, UpdatedType
    <3>5. credential' = [credential EXCEPT ![e] = row] /\ Answers(h, e, NoCall)
      BY <2>7 DEF DeleteCommit
    <3>6. ~crossed[e] => row = new
      BY <2>7, <3>1, <3>2, <3>3, UpdatedCurrent DEF DeleteCommit, AskedInv, SeenIsCurrent
    <3> HIDE DEF row, new
    <3> QED
      BY <3>1, <3>3, <3>4, <3>5, <3>6, AnswersAsked
  <2>8. CASE ThreadDies(h)
    BY <2>3, <2>8 DEF ThreadDies
  <2> QED
    BY <1>1, <2>1, <2>2, <2>5, <2>6, <2>7, <2>8 DEF CredentialStep
<1>2. CASE UNCHANGED credentialVars
  BY <1>2 DEF credentialVars, AskedInv, SeenIsCurrent, CredentialAsAsked, IsOn, Enabled
<1>3. ASSUME NEW a \in AuthRequests, AuthStep(a) PROVE UNCHANGED credentialVars
  BY <1>3 DEF AuthStep, Register, Login, InsertUser, CreateSession, AuthDies
<1>4. ASSUME NEW e \in Emails, TaskStep(e) PROVE UNCHANGED credentialVars
  BY <1>4 DEF TaskStep, Submit, LookUp, LookUpRaises, CallReturns
<1>5. ASSUME UNCHANGED vars PROVE UNCHANGED credentialVars
  BY <1>5 DEF vars, credentialVars
<1> QED
  BY <1>1, <1>2, <1>3, <1>4, <1>5 DEF Next

(* As long as the owner's own writes have not crossed, the stored          *)
(* credential is what the last PUT or DELETE was asked to leave            *)
(* (services.py, upsert_openai_credential and disable_openai_credential).  *)
THEOREM CredentialsAsAsked == Spec => []CredentialAsAsked
<1>1. AskedInv => CredentialAsAsked
  BY DEF AskedInv
<1> QED
  BY InitType, TypeStep, InitAsked, AskedStep, <1>1, PTL DEF Spec

(* A look-up finds what was asked for; what it found stays with the call.  *)
LEMMA CallStep ==
    ASSUME TypeInv, AskedInv, CallsAsSubmitted, [Next]_vars
    PROVE  CallsAsSubmitted'
<1>1. /\ crossed \in [Emails -> BOOLEAN]
      /\ call \in [Emails -> Pairs \cup {NoCall}]
  BY DEF TypeInv, TypeOK, Pairs
<1>2. ASSUME NEW e \in Emails, TaskStep(e) PROVE CallsAsSubmitted'
  <2>1. CASE LookUp(e)
    <3>1. ~crossed[e] => Pair(credential[e]) \in Submissions[e]
      BY <2>1 DEF LookUp, AskedInv, CredentialAsAsked
    <3> QED
      BY <1>1, <2>1, <3>1 DEF LookUp, CallsAsSubmitted, credentialVars
  <2>2. CASE CallReturns(e)
    BY <1>1, <2>2 DEF CallReturns, CallsAsSubmitted, credentialVars
  <2>3. CASE Submit(e) \/ LookUpRaises(e)
    BY <2>3 DEF Submit, LookUpRaises, CallsAsSubmitted, credentialVars
  <2> QED
    BY <1>2, <2>1, <2>2, <2>3 DEF TaskStep
<1>3. ASSUME UNCHANGED call, \A e \in Emails : crossed[e] => crossed'[e]
      PROVE  CallsAsSubmitted'
  BY <1>3 DEF CallsAsSubmitted
<1>4. ASSUME NEW h \in Threads, CredentialStep(h) PROVE CallsAsSubmitted'
  <2>1. UNCHANGED call
    BY <1>4 DEF CredentialStep, DeleteRead, PutRead, PutInsert, PutUpdate, DeleteCommit,
                ThreadDies, Answers, workerVars
  <2>2. ASSUME NEW f \in Emails, NEW meant, Answers(h, f, meant)
        PROVE  \A e \in Emails : crossed[e] => crossed'[e]
    BY <1>1, <2>2 DEF Answers
  <2>3. thread[h].at \in {"put", "delete"} => thread[h].email \in Emails
    BY DEF TypeInv, ShapeInv
  <2>4. \A e \in Emails : crossed[e] => crossed'[e]
    BY <1>4, <2>2, <2>3 DEF CredentialStep, DeleteRead, PutRead, PutInsert, PutUpdate,
                            DeleteCommit, ThreadDies
  <2> QED
    BY <1>3, <2>1, <2>4
<1>5. ASSUME NEW a \in AuthRequests, AuthStep(a) PROVE UNCHANGED <<credentialVars, workerVars>>
  BY <1>5 DEF AuthStep, Register, Login, InsertUser, CreateSession, AuthDies
<1>6. CASE UNCHANGED vars
  BY <1>3, <1>6 DEF vars
<1> QED
  BY <1>2, <1>3, <1>4, <1>5, <1>6 DEF Next, credentialVars, workerVars

(* The worker calls OpenAI with a key and a model name that the owner of   *)
(* the task entered together (worker.py, _predict_with_runtime), as long   *)
(* as the owner's writes have not crossed.                                 *)
THEOREM CallsStayAsSubmitted == Spec => []CallsAsSubmitted
<1>1. Init => CallsAsSubmitted
  BY DEF Init, CallsAsSubmitted
<1> QED
  BY InitType, TypeStep, InitAsked, AskedStep, <1>1, CallStep, PTL DEF Spec

-----------------------------------------------------------------------------
(* Revocation, whatever crosses.                                           *)

(* An UPDATE that switches a row on that is off has read it off.           *)
LEMMA SwitchedOn ==
    ASSUME NEW row \in Row, NEW seen \in Row, NEW new \in Row,
           ~row.enabled, Updated(row, seen, new).enabled
    PROVE  new.enabled /\ ~seen.enabled
BY DEF Updated, Flushed, Row

(* Whoever has not missed a switch to on, and of whose row it is known     *)
(* that it has been on since, has read it on.                              *)
MissedInv ==
    \A h \in Threads :
        /\ thread[h].at # "idle"
        /\ "on" \notin missed[h]
        /\ "off" \in missed[h] \/ IsOn(thread[h].email)
        => Enabled(thread[h].seen)

LEMMA InitMissed == Init => MissedInv
<1> SUFFICES ASSUME Init, NEW h \in Threads PROVE thread[h].at = "idle"
  BY DEF MissedInv
<1> QED
  BY DEF Init, IdleThread

(* A write that is answered is missed by those who have read the row.      *)
LEMMA AnswersMissed ==
    ASSUME TypeInv, MissedInv, NEW h \in Threads, NEW e \in Emails, NEW meant, NEW row,
           Answers(h, e, meant), credential' = [credential EXCEPT ![e] = row]
    PROVE  MissedInv'
<1> SUFFICES ASSUME NEW k \in Threads, thread'[k].at # "idle", "on" \notin missed'[k],
                    "off" \in missed'[k] \/ Enabled(credential'[thread'[k].email])
             PROVE  Enabled(thread'[k].seen)
  BY DEF MissedInv, IsOn
<1>1. k # h /\ thread'[k] = thread[k]
  BY DEF Answers, IdleThread, TypeInv, TypeOK
<1> DEFINE f == thread[k].email
<1>2. f \in Emails
  BY <1>1 DEF TypeInv, ShapeInv
<1>3. CASE f = e
  <2>1. missed'[k] = missed[k] \cup Switch(credential[e], credential'[e])
    BY <1>1, <1>3 DEF Answers, Overtaken
  <2>2. "on" \notin missed[k] /\ "on" \notin Switch(credential[e], credential'[e])
    BY <2>1
  <2>3. Enabled(credential'[e]) => Enabled(credential[e])
    BY <2>2 DEF Switch, Enabled
  <2>4. "off" \in Switch(credential[e], credential'[e]) => Enabled(credential[e])
    BY <2>3 DEF Switch, Enabled
  <2>5. "off" \in missed[k] \/ IsOn(f)
    BY <1>1, <1>3, <2>1, <2>3, <2>4 DEF IsOn
  <2> QED
    BY <1>1, <2>2, <2>5 DEF MissedInv
<1>4. CASE f # e
  <2>1. missed'[k] = missed[k]
    BY <1>1, <1>4 DEF Answers, Overtaken
  <2>2. credential'[f] = credential[f]
    BY <1>2, <1>4 DEF TypeInv, TypeOK
  <2> QED
    BY <1>1, <2>1, <2>2 DEF MissedInv, IsOn
<1> QED
  BY <1>3, <1>4

LEMMA MissedStep ==
    ASSUME TypeInv, MissedInv, [Next]_vars
    PROVE  MissedInv'
<1>1. ASSUME NEW h \in Threads, NEW t, NEW m, UNCHANGED credential,
             thread' = [thread EXCEPT ![h] = t], missed' = [missed EXCEPT ![h] = m],
             t.at # "idle" /\ Enabled(credential[t.email]) => Enabled(t.seen),
             t.at # "idle" => m = {}
      PROVE  MissedInv'
  BY <1>1 DEF MissedInv, IsOn, TypeInv, TypeOK
<1>2. ASSUME NEW h \in Threads, CredentialStep(h) PROVE MissedInv'
  <2>1. ASSUME NEW e \in Emails, DeleteRead(h, e) PROVE MissedInv'
    BY <1>1, <2>1 DEF DeleteRead
  <2>2. ASSUME NEW e \in Emails, NEW c \in Submissions[e], PutRead(h, e, c) PROVE MissedInv'
    BY <1>1, <2>2 DEF PutRead
  <2>3. ASSUME UNCHANGED <<credential, missed>>, thread' = [thread EXCEPT ![h] = IdleThread]
        PROVE  MissedInv'
    BY <2>3 DEF MissedInv, IsOn, IdleThread, TypeInv, TypeOK
  <2>4. thread[h].at # "idle" => thread[h].email \in Emails
    BY DEF TypeInv, ShapeInv
  <2>5. CASE PutInsert(h)
    BY <2>3, <2>4, <2>5, AnswersMissed DEF PutInsert
  <2>6. CASE PutUpdate(h)
    BY <2>4, <2>6, AnswersMissed DEF PutUpdate
  <2>7. CASE DeleteCommit(h)
    BY <2>4, <2>7, AnswersMissed DEF DeleteCommit
  <2>8. CASE ThreadDies(h)
    BY <2>3, <2>8 DEF ThreadDies
  <2> QED
    BY <1>2, <2>1, <2>2, <2>5, <2>6, <2>7, <2>8 DEF CredentialStep
<1>3. CASE UNCHANGED credentialVars
  BY <1>3 DEF credentialVars, MissedInv, IsOn
<1>4. ASSUME NEW a \in AuthRequests, AuthStep(a) PROVE UNCHANGED credentialVars
  BY <1>4 DEF AuthStep, Register, Login, InsertUser, CreateSession, AuthDies
<1>5. ASSUME NEW e \in Emails, TaskStep(e) PROVE UNCHANGED credentialVars
  BY <1>5 DEF TaskStep, Submit, LookUp, LookUpRaises, CallReturns
<1>6. ASSUME UNCHANGED vars PROVE UNCHANGED credentialVars
  BY <1>6 DEF vars, credentialVars
<1> QED
  BY <1>2, <1>3, <1>4, <1>5, <1>6 DEF Next

LEMMA RevocationStep ==
    ASSUME TypeInv, MissedInv, [Next]_vars, NEW e \in Emails,
           credential[e] # NoRow, ~IsOn(e), IsOn(e)'
    PROVE  \E h \in Threads :
              /\ thread[h].at = "put" /\ thread'[h].at = "idle"
              /\ thread[h].email = e
              /\ thread[h].seen # NoRow /\ ~thread[h].seen.enabled
              /\ "off" \in missed[h] => "on" \in missed[h]
<1>1. credential[e] \in Row /\ ~credential[e].enabled
  BY DEF TypeInv, TypeOK, IsOn, Enabled
<1>2. credential'[e] # credential[e] /\ credential'[e].enabled
  BY <1>1 DEF IsOn, Enabled
<1>3. ASSUME NEW a \in AuthRequests, AuthStep(a) PROVE FALSE
  BY <1>2, <1>3 DEF AuthStep, Register, Login, InsertUser, CreateSession, AuthDies, credentialVars
<1>4. ASSUME NEW f \in Emails, TaskStep(f) PROVE FALSE
  BY <1>2, <1>4 DEF TaskStep, Submit, LookUp, LookUpRaises, CallReturns, credentialVars
<1>5. PICK h \in Threads : CredentialStep(h)
  BY <1>2, <1>3, <1>4 DEF Next, vars
<1>6. CASE PutUpdate(h)
  <2>1. thread[h].email \in Emails /\ PutRow(h) \in Row /\ thread[h].seen \in Row
    BY <1>6, PutFacts DEF PutUpdate
  <2>2. credential' = [credential EXCEPT ![thread[h].email] =
            Updated(credential[thread[h].email], thread[h].seen, PutRow(h))]
    BY <1>6 DEF PutUpdate, PutRow
  <2>3. thread[h].email = e
    BY <1>2, <2>1, <2>2 DEF TypeInv, TypeOK
  <2>4. credential'[e] = Updated(credential[e], thread[h].seen, PutRow(h))
    BY <2>1, <2>2, <2>3 DEF TypeInv, TypeOK
  <2>5. ~thread[h].seen.enabled
    BY <1>1, <1>2, <2>1, <2>4, SwitchedOn
  <2>6. thread'[h].at = "idle"
    BY <1>6 DEF PutUpdate, Answers, IdleThread, TypeInv, TypeOK
  <2>7. "off" \in missed[h] => "on" \in missed[h]
    BY <1>6, <2>5 DEF PutUpdate, MissedInv, Enabled
  <2> QED
    BY <1>6, <2>3, <2>5, <2>6, <2>7 DEF PutUpdate
<1>7. CASE DeleteCommit(h)
  <2> DEFINE new == [thread[h].seen EXCEPT !.enabled = FALSE]
  <2>1. thread[h].email \in Emails /\ thread[h].seen \in Row
    BY <1>7 DEF DeleteCommit, TypeInv, ShapeInv
  <2>2. new \in Row /\ ~new.enabled
    BY <2>1 DEF Row
  <2>3. credential' = [credential EXCEPT ![thread[h].email] =
            Updated(credential[thread[h].email], thread[h].seen, new)]
    BY <1>7 DEF DeleteCommit
  <2> HIDE DEF new
  <2>4. thread[h].email = e
    BY <1>2, <2>1, <2>3 DEF TypeInv, TypeOK
  <2>5. credential'[e] = Updated(credential[e], thread[h].seen, new)
    BY <2>1, <2>3, <2>4 DEF TypeInv, TypeOK
  <2> QED
    BY <1>1, <1>2, <2>1, <2>2, <2>5, SwitchedOn
<1>8. CASE PutInsert(h)
  <2>1. thread[h].email \in Emails
    BY <1>8, PutFacts DEF PutInsert
  <2> QED
    BY <1>1, <1>2, <1>8, <2>1 DEF PutInsert, TypeInv, TypeOK
<1> QED
  BY <1>2, <1>5, <1>6, <1>7, <1>8 DEF CredentialStep, DeleteRead, PutRead, ThreadDies

(* A PUT that found the credential enabled never undoes a DELETE, however  *)
(* late it is (services.py, upsert_openai_credential: only what differs    *)
(* from the row as it was read is written).  One that found it disabled    *)
(* has read it after the last DELETE, or has missed a PUT as well as the   *)
(* DELETE of what that PUT had switched on.                                *)
THEOREM RevocationStands == Spec => RevocationHolds
<1>1. TypeInv /\ MissedInv /\ [Next]_vars =>
        \A e \in Emails : credential[e] # NoRow /\ ~IsOn(e) /\ IsOn(e)' =>
          \E h \in Threads :
              /\ thread[h].at = "put" /\ thread'[h].at = "idle"
              /\ thread[h].email = e
              /\ thread[h].seen # NoRow /\ ~thread[h].seen.enabled
              /\ "off" \in missed[h] => "on" \in missed[h]
  BY RevocationStep
<1> QED
  BY InitType, TypeStep, InitMissed, MissedStep, <1>1, PTL DEF Spec, RevocationHolds
=============================================================================
