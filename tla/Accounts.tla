------------------------------ MODULE Accounts ------------------------------
(***************************************************************************)
(* Accounts, bearer tokens and the users' own OpenAI credentials           *)
(* (services.py, routers/auth.py, routers/external.py, security.py), and   *)
(* the worker that calls OpenAI with them (worker.py).                     *)
(*                                                                         *)
(* Every operation is at least two steps, for nothing is locked: it reads, *)
(* and commits later.  A unique constraint is what decides a race of two   *)
(* inserts; a race of two updates is decided column by column, because a   *)
(* session writes only what it changed against what it had read.           *)
(***************************************************************************)
EXTENDS Integers

CONSTANTS
    Emails,       \* addresses, as they are stored
    Spellings,    \* addresses, as they are typed
    Normal,       \* strip().lower() of a spelling
    Passwords,
    AuthRequests, \* registrations and logins; each of them issues one token at most
    Threads,      \* requests about credentials that may be in progress at once
    Keys, Names,  \* API keys and names of OpenAI's models
    Submissions,  \* what each user enters: key and name that belong together
    NoUser, NoRow, NoCall

Row == [key : Keys, name : Names, enabled : BOOLEAN]

Pair(c) == [key |-> c.key, name |-> c.name]

ASSUME AccountAssumption ==
    /\ Normal \in [Spellings -> Emails]
    /\ Submissions \in [Emails -> SUBSET [key : Keys, name : Names]]
    /\ NoUser \notin Passwords /\ NoUser \notin Emails
    /\ NoRow \notin Row
    /\ NoCall \notin [key : Keys, name : Names]

VARIABLES
    users,       \* table users: the password behind each e-mail's hash
    tokens,      \* table auth_sessions: whose token each request has issued
    auth,        \* where each registration or login is, and what it was given
    credential,  \* table user_external_model_credentials
    thread,      \* where each request about a credential is, and what it read
    call,        \* what the worker has got for the record at hand, per user
    task,        \* a queued task of each user for the OpenAI model
    last,        \* history: what the last write of a credential was meant to leave
    crossed,     \* history: has a write overtaken another one's read?
    missed       \* history: what has become of the row since each thread read it

authVars       == <<users, tokens, auth>>
credentialVars == <<credential, thread, last, crossed, missed>>
workerVars     == <<call, task>>
vars == <<users, tokens, auth, credential, thread, call, task, last, crossed, missed>>

Request == [at : {"new", "insert", "session", "answered", "refused", "failed", "down"},
            kind : {"register", "login"},
            email : Emails \cup {NoUser}, password : Passwords \cup {NoUser}]

NewRequest == [at |-> "new", kind |-> "login", email |-> NoUser, password |-> NoUser]

(* seen is the row that a PUT or DELETE has read.                          *)
Thread == [at : {"idle", "put", "delete"}, email : Emails \cup {NoUser},
           pair : [key : Keys, name : Names] \cup {NoCall}, seen : Row \cup {NoRow}]

IdleThread == [at |-> "idle", email |-> NoUser, pair |-> NoCall, seen |-> NoRow]

TypeOK ==
    /\ users \in [Emails -> Passwords \cup {NoUser}]
    /\ tokens \in [AuthRequests -> Emails \cup {NoUser}]
    /\ auth \in [AuthRequests -> Request]
    /\ credential \in [Emails -> Row \cup {NoRow}]
    /\ thread \in [Threads -> Thread]
    /\ call \in [Emails -> [key : Keys, name : Names] \cup {NoCall}]
    /\ task \in [Emails -> {"none", "queued", "calling"}]
    /\ last \in [Emails -> [key : Keys, name : Names] \cup {NoCall}]
    /\ crossed \in [Emails -> BOOLEAN]
    /\ missed \in [Threads -> SUBSET {"on", "off"}]

Init ==
    /\ users = [e \in Emails |-> NoUser]
    /\ tokens = [a \in AuthRequests |-> NoUser]
    /\ auth = [a \in AuthRequests |-> NewRequest]
    /\ credential = [e \in Emails |-> NoRow]
    /\ thread = [h \in Threads |-> IdleThread]
    /\ call = [e \in Emails |-> NoCall]
    /\ task = [e \in Emails |-> "none"]
    /\ last = [e \in Emails |-> NoCall]
    /\ crossed = [e \in Emails |-> FALSE]
    /\ missed = [h \in Threads |-> {}]

-----------------------------------------------------------------------------
(* Registrations and logins.                                               *)

Moves(a, label) == auth' = [auth EXCEPT ![a].at = label]

(* register: create_user looks for the e-mail; 409 user_exists.            *)
Register(a, s, p) ==
    /\ auth[a].at = "new"
    /\ auth' = [auth EXCEPT ![a] =
           [at |-> IF users[Normal[s]] = NoUser THEN "insert" ELSE "refused",
            kind |-> "register", email |-> Normal[s], password |-> p]]
    /\ UNCHANGED <<users, tokens, credentialVars, workerVars>>

(* Mutant: the e-mail is not unique, and the row last written is found.    *)
InsertUser_Overwrites(a) ==
    /\ auth[a].at = "insert"
    /\ users' = [users EXCEPT ![auth[a].email] = auth[a].password]
    /\ Moves(a, "session")
    /\ UNCHANGED <<tokens, credentialVars, workerVars>>

(* The commit of user and balance.  If another registration was first, the *)
(* constraint raises, and nobody handles that: 500.                        *)
InsertUser(a) ==
    /\ auth[a].at = "insert"
    /\ \/ /\ users[auth[a].email] = NoUser
          /\ users' = [users EXCEPT ![auth[a].email] = auth[a].password]
          /\ Moves(a, "session")
       \/ /\ users[auth[a].email] # NoUser
          /\ UNCHANGED users
          /\ Moves(a, "failed")
    /\ UNCHANGED <<tokens, credentialVars, workerVars>>

(* Mutant: the password is not verified.                                   *)
Login_AnyPassword(a, s, p) ==
    /\ auth[a].at = "new"
    /\ auth' = [auth EXCEPT ![a] =
           [at |-> IF users[Normal[s]] # NoUser THEN "session" ELSE "refused",
            kind |-> "login", email |-> Normal[s], password |-> p]]
    /\ UNCHANGED <<users, tokens, credentialVars, workerVars>>

(* login: 401 unless the hash of the password is the stored one.           *)
Login(a, s, p) ==
    /\ auth[a].at = "new"
    /\ auth' = [auth EXCEPT ![a] =
           [at |-> IF users[Normal[s]] = p THEN "session" ELSE "refused",
            kind |-> "login", email |-> Normal[s], password |-> p]]
    /\ UNCHANGED <<users, tokens, credentialVars, workerVars>>

(* create_session, a transaction of its own, and the answer.               *)
CreateSession(a) ==
    /\ auth[a].at = "session"
    /\ tokens' = [tokens EXCEPT ![a] = auth[a].email]
    /\ Moves(a, "answered")
    /\ UNCHANGED <<users, credentialVars, workerVars>>

(* The thread ends without an answer, with the account perhaps and without *)
(* a session.                                                              *)
AuthDies(a) ==
    /\ auth[a].at \in {"insert", "session"}
    /\ Moves(a, "down")
    /\ UNCHANGED <<users, tokens, credentialVars, workerVars>>

AuthStep(a) ==
    \/ \E s \in Spellings, p \in Passwords : Register(a, s, p) \/ Login(a, s, p)
    \/ InsertUser(a) \/ CreateSession(a) \/ AuthDies(a)

-----------------------------------------------------------------------------
(* Credentials.  A request is made with a token, and get_user_by_token     *)
(* says whose it is.                                                       *)

Authenticated(e) == \E a \in AuthRequests : tokens[a] = e

Enabled(row) == row # NoRow /\ row.enabled

IsOn(e) == Enabled(credential[e])

(* upsert_openai_credential and disable_openai_credential read the row;    *)
(* a DELETE that finds none is done.                                       *)
PutRead(h, e, c) ==
    /\ thread[h].at = "idle"
    /\ Authenticated(e)
    /\ thread' = [thread EXCEPT ![h] =
           [at |-> "put", email |-> e, pair |-> c, seen |-> credential[e]]]
    /\ missed' = [missed EXCEPT ![h] = {}]
    /\ UNCHANGED <<authVars, credential, last, crossed, workerVars>>

DeleteRead(h, e) ==
    /\ thread[h].at = "idle"
    /\ Authenticated(e)
    /\ credential[e] # NoRow
    /\ thread' = [thread EXCEPT ![h] =
           [at |-> "delete", email |-> e, pair |-> NoCall, seen |-> credential[e]]]
    /\ missed' = [missed EXCEPT ![h] = {}]
    /\ UNCHANGED <<authVars, credential, last, crossed, workerVars>>

(* What an UPDATE leaves in a column: nothing is written over a value that *)
(* the session need not change.                                            *)
Flushed(current, seen, new) == IF new = seen THEN current ELSE new

(* Mutant: every column is written.                                        *)
Updated_AllColumns(row, seen, new) == new

(* Mutant: the name of the model stays that of the credential before.      *)
Updated_KeepsName(row, seen, new) ==
    [key     |-> Flushed(row.key, seen.key, new.key),
     name    |-> row.name,
     enabled |-> Flushed(row.enabled, seen.enabled, new.enabled)]

Updated(row, seen, new) ==
    [key     |-> Flushed(row.key, seen.key, new.key),
     name    |-> Flushed(row.name, seen.name, new.name),
     enabled |-> Flushed(row.enabled, seen.enabled, new.enabled)]

(* Those who have read the row of e and not yet written it, beside h.      *)
Overtaken(h, e) == {k \in Threads \ {h} : thread[k].at # "idle" /\ thread[k].email = e}

(* What has become of a credential that was old and is new.                *)
Switch(old, new) ==
    {s \in {"on", "off"} : Enabled(old) # Enabled(new) /\ (s = "on" <=> Enabled(new))}

Answers(h, e, meant) ==
    /\ thread' = [thread EXCEPT ![h] = IdleThread]
    /\ last' = [last EXCEPT ![e] = meant]
    /\ crossed' = [crossed EXCEPT ![e] = @ \/ Overtaken(h, e) # {}]
    /\ missed' = [k \in Threads |->
           missed[k] \cup IF k \in Overtaken(h, e) THEN Switch(credential[e], credential'[e])
                          ELSE {}]
    /\ UNCHANGED <<authVars, workerVars>>

(* The first credential of a user; the constraint uq_user_external_provider *)
(* refuses a second row: 500.                                              *)
PutInsert(h) ==
    /\ thread[h].at = "put" /\ thread[h].seen = NoRow
    /\ LET e == thread[h].email IN
       \/ /\ credential[e] = NoRow
          /\ credential' = [credential EXCEPT ![e] =
                 [key |-> thread[h].pair.key, name |-> thread[h].pair.name, enabled |-> TRUE]]
          /\ Answers(h, e, thread[h].pair)
       \/ /\ credential[e] # NoRow
          /\ thread' = [thread EXCEPT ![h] = IdleThread]
          /\ UNCHANGED <<authVars, credential, last, crossed, missed, workerVars>>

(* Mutant: a credential that was disabled stays so.                        *)
PutUpdate_KeepsDisabled(h) ==
    /\ thread[h].at = "put" /\ thread[h].seen # NoRow
    /\ LET e == thread[h].email IN
       /\ credential' = [credential EXCEPT ![e] = Updated(@, thread[h].seen,
              [key |-> thread[h].pair.key, name |-> thread[h].pair.name,
               enabled |-> thread[h].seen.enabled])]
       /\ Answers(h, e, thread[h].pair)

PutUpdate(h) ==
    /\ thread[h].at = "put" /\ thread[h].seen # NoRow
    /\ LET e == thread[h].email IN
       /\ credential' = [credential EXCEPT ![e] = Updated(@, thread[h].seen,
              [key |-> thread[h].pair.key, name |-> thread[h].pair.name, enabled |-> TRUE])]
       /\ Answers(h, e, thread[h].pair)

DeleteCommit(h) ==
    /\ thread[h].at = "delete"
    /\ LET e == thread[h].email IN
       /\ credential' = [credential EXCEPT ![e] =
              Updated(@, thread[h].seen, [thread[h].seen EXCEPT !.enabled = FALSE])]
       /\ Answers(h, e, NoCall)

ThreadDies(h) ==
    /\ thread[h].at # "idle"
    /\ thread' = [thread EXCEPT ![h] = IdleThread]
    /\ UNCHANGED <<authVars, credential, last, crossed, missed, workerVars>>

CredentialStep(h) ==
    \/ \E e \in Emails : DeleteRead(h, e) \/ \E c \in Submissions[e] : PutRead(h, e, c)
    \/ PutInsert(h) \/ PutUpdate(h) \/ DeleteCommit(h) \/ ThreadDies(h)

-----------------------------------------------------------------------------
(* Tasks for the OpenAI model: get_available_model_for_user wants a        *)
(* credential when the task is submitted, and _predict_with_runtime again  *)
(* for each record.                                                        *)

Submit(e) ==
    /\ Authenticated(e) /\ IsOn(e)
    /\ task[e] = "none"
    /\ task' = [task EXCEPT ![e] = "queued"]
    /\ UNCHANGED <<authVars, credentialVars, call>>

(* Mutant: the catalog's name of the model is sent, not the credential's.  *)
LookUp_CatalogName(e) ==
    /\ task[e] = "queued"
    /\ IsOn(e)
    /\ task' = [task EXCEPT ![e] = "calling"]
    /\ call' = [call EXCEPT ![e] = [key |-> credential[e].key, name |-> "chatgpt"]]
    /\ UNCHANGED <<authVars, credentialVars>>

LookUp(e) ==
    /\ task[e] = "queued"
    /\ IsOn(e)
    /\ task' = [task EXCEPT ![e] = "calling"]
    /\ call' = [call EXCEPT ![e] = Pair(credential[e])]
    /\ UNCHANGED <<authVars, credentialVars>>

(* The task fails, or is completed with the records before this one.       *)
LookUpRaises(e) ==
    /\ task[e] = "queued"
    /\ ~IsOn(e)
    /\ task' = [task EXCEPT ![e] = "none"]
    /\ UNCHANGED <<authVars, credentialVars, call>>

(* The call returns: the next record, or the end of the task.              *)
CallReturns(e) ==
    /\ task[e] = "calling"
    /\ \E next \in {"queued", "none"} : task' = [task EXCEPT ![e] = next]
    /\ call' = [call EXCEPT ![e] = NoCall]
    /\ UNCHANGED <<authVars, credentialVars>>

TaskStep(e) == Submit(e) \/ LookUp(e) \/ LookUpRaises(e) \/ CallReturns(e)

Next ==
    \/ \E a \in AuthRequests : AuthStep(a)
    \/ \E h \in Threads : CredentialStep(h)
    \/ \E e \in Emails : TaskStep(e)

Spec == Init /\ [][Next]_vars

-----------------------------------------------------------------------------
(* Whoever was given a token has the account of the e-mail and password    *)
(* that were sent, and keeps it: a registration that crosses another one   *)
(* for the same e-mail neither takes over its account nor gets into it.    *)
TokenOpensOwnAccount ==
    \A a \in AuthRequests : tokens[a] # NoUser =>
        /\ tokens[a] = auth[a].email
        /\ users[tokens[a]] = auth[a].password

(* The stored credential is what the last PUT or DELETE was asked to       *)
(* leave, as long as no two of them have crossed.  When they do, a PUT may *)
(* leave the credential disabled, or one user's key next to the model name *)
(* of another submission.                                                  *)
CredentialAsAsked ==
    \A e \in Emails : ~crossed[e] =>
        /\ last[e] # NoCall => IsOn(e) /\ Pair(credential[e]) = last[e]
        /\ last[e] = NoCall => ~IsOn(e)

(* The worker calls OpenAI with a key and a model name that the owner of   *)
(* the task entered together, unless that owner's writes have crossed.     *)
CallsAsSubmitted ==
    \A e \in Emails : call[e] # NoCall /\ ~crossed[e] => call[e] \in Submissions[e]

(* A DELETE is not undone by a PUT that was under way before it and that   *)
(* had found the credential enabled: such a PUT writes a new key and name, *)
(* but nothing over is_enabled.  Who switches a credential on again has    *)
(* found it disabled, and that after the last DELETE, or else has missed   *)
(* both: another PUT that switched it on, and the DELETE of that.  When    *)
(* three requests cross in this way the late PUT does undo the DELETE.     *)
RevocationHolds ==
    [][\A e \in Emails : credential[e] # NoRow /\ ~IsOn(e) /\ IsOn(e)' =>
          \E h \in Threads :
              /\ thread[h].at = "put" /\ thread'[h].at = "idle"
              /\ thread[h].email = e
              /\ thread[h].seen # NoRow /\ ~thread[h].seen.enabled
              /\ "off" \in missed[h] => "on" \in missed[h]]_vars
=============================================================================
