------------------------------- MODULE Startup -------------------------------
(***************************************************************************)
(* The start of a process: the application (lifespan.py) and every worker  *)
(* (worker.py, main) run initialize_database (init_db.py) against the same *)
(* database before they serve, at the same time on a first start, and      *)
(* again whenever one of them is started anew.  Every look at a row and    *)
(* every commit is a step of its own; unique constraints stop the second   *)
(* insert of a row, and with it the process.                               *)
(*                                                                         *)
(* Composed with ModelCatalog: the activation requests are threads of the  *)
(* application, so they run while it is up and die with it.                *)
(***************************************************************************)
EXTENDS ModelCatalog

CONSTANTS
    Starters,    \* the processes that initialize the database
    App,         \* the one of them that serves requests
    NumUsers,    \* length of DEMO_USERS; a demo user is its position there
    SeedAmount,  \* initial_balance of a demo user, in cents
    MaxCrashes   \* bound: processes that die for no fault of their own

Users == 1..NumUsers

ASSUME StartAssumption ==
    /\ App \in Starters
    /\ NumUsers \in Nat
    /\ SeedAmount \in Nat \ {0}
    /\ MaxCrashes \in Nat

UserStages  == {"user", "newUser", "insertUser", "marker", "credit", "book"}
ModelStages == {"model", "update", "newModel", "insertModel"}
StartStages == {"down", "failed", "schema", "create", "ensure", "reset", "up"}
                   \cup UserStages \cup ModelStages

VARIABLES
    schema,    \* do the tables exist?
    hasUser,   \* tables users and balances: is the demo user there?
    balance,   \* of each demo user, in cents
    markers,   \* transactions of each demo user with its seed marker
    pc,        \* where each process is
    at,        \* the demo user or model it is at
    sawAmount, \* the balance it has read
    sawRows,   \* the models it has read
    crashes    \* how much of the bound is used

seedVars  == <<hasUser, balance, markers>>
localVars == <<at, sawAmount, sawRows>>
vars      == <<schema, hasUser, balance, markers, pc, at, sawAmount, sawRows, crashes,
               catalog, stage, choice, seen, crossed>>

TypeOK ==
    /\ CatalogTypeOK
    /\ schema \in BOOLEAN
    /\ hasUser \in [Users -> BOOLEAN]
    /\ balance \in [Users -> Nat]
    /\ markers \in [Users -> Nat]
    /\ pc \in [Starters -> StartStages]
    /\ at \in [Starters -> Nat]
    /\ \A p \in Starters : pc[p] \in UserStages => at[p] \in Users
    /\ \A p \in Starters : pc[p] \in ModelStages => at[p] \in Models
    /\ sawAmount \in [Starters -> Nat]
    /\ sawRows \in [Starters -> [Models -> RowStates]]
    /\ crashes \in Nat

Init ==
    /\ CatalogInit
    /\ schema = FALSE
    /\ hasUser = [u \in Users |-> FALSE]
    /\ balance = [u \in Users |-> 0]
    /\ markers = [u \in Users |-> 0]
    /\ pc = [p \in Starters |-> "down"]
    /\ at = [p \in Starters |-> 0]
    /\ sawAmount = [p \in Starters |-> 0]
    /\ sawRows = [p \in Starters |-> NoRows]
    /\ crashes = 0

-----------------------------------------------------------------------------
Goto(p, label) == pc' = [pc EXCEPT ![p] = label]

(* The process is gone, and what it had read with it.                      *)
Stop(p, label) ==
    /\ Goto(p, label)
    /\ at' = [at EXCEPT ![p] = 0]
    /\ sawAmount' = [sawAmount EXCEPT ![p] = 0]
    /\ sawRows' = [sawRows EXCEPT ![p] = NoRows]

(* Mutant: one model too many.                                             *)
ToModel_OneMore(p, m) ==
    /\ Goto(p, IF m <= NumModels + 1 THEN "model" ELSE "ensure")
    /\ at' = [at EXCEPT ![p] = IF m <= NumModels + 1 THEN m ELSE 0]

(* The loops over DEMO_USERS and then over MODEL_SEEDS.                    *)
ToModel(p, m) ==
    /\ Goto(p, IF m \in Models THEN "model" ELSE "ensure")
    /\ at' = [at EXCEPT ![p] = IF m \in Models THEN m ELSE 0]

ToUser(p, u) ==
    \/ /\ u \in Users
       /\ Goto(p, "user")
       /\ at' = [at EXCEPT ![p] = u]
    \/ /\ u \notin Users
       /\ ToModel(p, 1)

(* Someone starts the process, once wait_for_database has returned.        *)
Start(p) ==
    /\ pc[p] \in {"down", "failed"}
    /\ Goto(p, "schema")
    /\ UNCHANGED <<schema, seedVars, localVars, crashes, catalogVars>>

(* metadata.create_all looks which tables exist ...                        *)
SchemaLook(p) ==
    /\ pc[p] = "schema"
    /\ \/ /\ schema
          /\ ToUser(p, 1)
       \/ /\ ~schema
          /\ Goto(p, "create")
          /\ UNCHANGED at
    /\ UNCHANGED <<schema, seedVars, sawAmount, sawRows, crashes, catalogVars>>

(* ... and creates the missing ones in one transaction, which fails when   *)
(* another process has created them since.                                 *)
SchemaCreate(p) ==
    /\ pc[p] = "create"
    /\ schema' = TRUE
    /\ \/ /\ schema
          /\ Stop(p, "failed")
       \/ /\ ~schema
          /\ ToUser(p, 1)
          /\ UNCHANGED <<sawAmount, sawRows>>
    /\ UNCHANGED <<seedVars, crashes, catalogVars>>

(* Mutant: only the process that creates the user credits it.              *)
UserLook_SkipsSeed(p) ==
    /\ pc[p] = "user"
    /\ \/ hasUser[at[p]] /\ ToUser(p, at[p] + 1)
       \/ ~hasUser[at[p]] /\ Goto(p, "newUser") /\ UNCHANGED at
    /\ UNCHANGED <<schema, seedVars, sawAmount, sawRows, crashes, catalogVars>>

(* Mutant: create_user is called for every demo user.                      *)
UserLook_AlwaysCreates(p) ==
    /\ pc[p] = "user"
    /\ Goto(p, "newUser")
    /\ UNCHANGED <<schema, seedVars, localVars, crashes, catalogVars>>

(* An existing demo user only gets its role and password back.             *)
UserLook(p) ==
    /\ pc[p] = "user"
    /\ Goto(p, IF hasUser[at[p]] THEN "marker" ELSE "newUser")
    /\ UNCHANGED <<schema, seedVars, localVars, crashes, catalogVars>>

(* create_user looks once more, and raises UserAlreadyExistsError.         *)
CreateUserLook(p) ==
    /\ pc[p] = "newUser"
    /\ \/ /\ hasUser[at[p]]
          /\ Stop(p, "failed")
       \/ /\ ~hasUser[at[p]]
          /\ Goto(p, "insertUser")
          /\ UNCHANGED localVars
    /\ UNCHANGED <<schema, seedVars, crashes, catalogVars>>

(* Mutant: users.email is not unique, a second insert starts from zero.    *)
UserInsert_NotUnique(p) ==
    /\ pc[p] = "insertUser"
    /\ hasUser' = [hasUser EXCEPT ![at[p]] = TRUE]
    /\ balance' = [balance EXCEPT ![at[p]] = 0]
    /\ Goto(p, "marker")
    /\ UNCHANGED <<schema, markers, localVars, crashes, catalogVars>>

(* The user and a balance of zero in one transaction; users.email is unique. *)
UserInsert(p) ==
    /\ pc[p] = "insertUser"
    /\ \/ /\ hasUser[at[p]]
          /\ Stop(p, "failed")
          /\ UNCHANGED <<hasUser, balance>>
       \/ /\ ~hasUser[at[p]]
          /\ hasUser' = [hasUser EXCEPT ![at[p]] = TRUE]
          /\ balance' = [balance EXCEPT ![at[p]] = 0]
          /\ Goto(p, "marker")
          /\ UNCHANGED localVars
    /\ UNCHANGED <<schema, markers, crashes, catalogVars>>

(* Is there a top-up with the seed marker?                                 *)
MarkerLook(p) ==
    /\ pc[p] = "marker"
    /\ \/ /\ markers[at[p]] = 0
          /\ Goto(p, "credit")
          /\ UNCHANGED at
       \/ /\ markers[at[p]] > 0
          /\ ToUser(p, at[p] + 1)
    /\ UNCHANGED <<schema, seedVars, sawAmount, sawRows, crashes, catalogVars>>

(* Mutant: a balance of zero is taken for a missing one.                   *)
CreditRead_ZeroIsMissing(p) ==
    /\ pc[p] = "credit"
    /\ \/ balance[at[p]] = 0 /\ Stop(p, "failed")
       \/ /\ balance[at[p]] > 0
          /\ sawAmount' = [sawAmount EXCEPT ![p] = balance[at[p]]]
          /\ Goto(p, "book")
          /\ UNCHANGED <<at, sawRows>>
    /\ UNCHANGED <<schema, seedVars, crashes, catalogVars>>

(* top_up reads the balance ...                                            *)
CreditRead(p) ==
    /\ pc[p] = "credit"
    /\ sawAmount' = [sawAmount EXCEPT ![p] = balance[at[p]]]
    /\ Goto(p, "book")
    /\ UNCHANGED <<schema, seedVars, at, sawRows, crashes, catalogVars>>

(* ... and commits the sum with the transaction that carries the marker.   *)
CreditCommit(p) ==
    /\ pc[p] = "book"
    /\ balance' = [balance EXCEPT ![at[p]] = sawAmount[p] + SeedAmount]
    /\ markers' = [markers EXCEPT ![at[p]] = @ + 1]
    /\ sawAmount' = [sawAmount EXCEPT ![p] = 0]
    /\ ToUser(p, at[p] + 1)
    /\ UNCHANGED <<schema, hasUser, sawRows, crashes, catalogVars>>

ModelLook(p) ==
    /\ pc[p] = "model"
    /\ \/ /\ catalog[at[p]] = "absent"
          /\ Goto(p, "newModel")
          /\ UNCHANGED sawRows
       \/ /\ catalog[at[p]] # "absent"
          /\ Goto(p, "update")
          /\ sawRows' = [sawRows EXCEPT ![p] = [NoRows EXCEPT ![at[p]] = catalog[at[p]]]]
    /\ UNCHANGED <<schema, seedVars, at, sawAmount, crashes, catalogVars>>

(* Mutant: is_active of local models is taken from the seed, too.          *)
ModelUpdate_LocalToo(p) ==
    /\ pc[p] = "update"
    /\ catalog' = [catalog EXCEPT ![at[p]] = SeedState(at[p])]
    /\ sawRows' = [sawRows EXCEPT ![p] = NoRows]
    /\ ToModel(p, at[p] + 1)
    /\ UNCHANGED <<schema, seedVars, sawAmount, crashes, requestVars>>

(* The update of an existing row: is_active of local models is left alone. *)
ModelUpdate(p) ==
    /\ pc[p] = "update"
    /\ catalog' = [catalog EXCEPT ![at[p]] =
           IF at[p] \in Local \/ sawRows[p][at[p]] = SeedState(at[p]) THEN @
           ELSE SeedState(at[p])]
    /\ sawRows' = [sawRows EXCEPT ![p] = NoRows]
    /\ ToModel(p, at[p] + 1)
    /\ UNCHANGED <<schema, seedVars, sawAmount, crashes, requestVars>>

(* create_model looks once more, and returns a row it finds.               *)
CreateModelLook(p) ==
    /\ pc[p] = "newModel"
    /\ \/ /\ catalog[at[p]] # "absent"
          /\ ToModel(p, at[p] + 1)
       \/ /\ catalog[at[p]] = "absent"
          /\ Goto(p, "insertModel")
          /\ UNCHANGED at
    /\ UNCHANGED <<schema, seedVars, sawAmount, sawRows, crashes, catalogVars>>

(* uq_ml_models_name_version stops the second insert.                      *)
ModelInsert(p) ==
    /\ pc[p] = "insertModel"
    /\ \/ /\ catalog[at[p]] # "absent"
          /\ Stop(p, "failed")
          /\ UNCHANGED catalog
       \/ /\ catalog[at[p]] = "absent"
          /\ catalog' = [catalog EXCEPT ![at[p]] = SeedState(at[p])]
          /\ ToModel(p, at[p] + 1)
          /\ UNCHANGED <<sawAmount, sawRows>>
    /\ UNCHANGED <<schema, seedVars, crashes, requestVars>>

(* ensure_single_active_ollama_model: the session holds no model by now    *)
(* but the last seed's, which is not a local one, so all rows are read anew. *)
EnsureRead(p) ==
    /\ pc[p] = "ensure"
    /\ \/ /\ ExactlyOne(catalog)
          /\ Goto(p, "up")
          /\ UNCHANGED sawRows
       \/ /\ ~ExactlyOne(catalog)
          /\ Goto(p, "reset")
          /\ sawRows' = [sawRows EXCEPT ![p] = catalog]
    /\ UNCHANGED <<schema, seedVars, at, sawAmount, crashes, catalogVars>>

ResetCommit(p) ==
    /\ pc[p] = "reset"
    /\ catalog' = FlushSelected(Default, sawRows[p])
    /\ sawRows' = [sawRows EXCEPT ![p] = NoRows]
    /\ Goto(p, "up")
    /\ UNCHANGED <<schema, seedVars, at, sawAmount, crashes, requestVars>>

(* A process dies.  With the application die the requests it was serving.  *)
Crash(p) ==
    /\ crashes < MaxCrashes
    /\ pc[p] \notin {"down", "failed"}
    /\ crashes' = crashes + 1
    /\ Stop(p, "down")
    /\ \/ p = App /\ CloseRequests
       \/ p # App /\ UNCHANGED requestVars
    /\ UNCHANGED <<schema, seedVars, catalog, crossed>>

(* An activation request, or one that is answered 503.                     *)
Activate(a) ==
    /\ pc[App] = "up"
    /\ ActivationStep(a)
    /\ UNCHANGED <<schema, seedVars, pc, localVars, crashes>>

InitializeStep(p) ==
    \/ SchemaLook(p)
    \/ SchemaCreate(p)
    \/ UserLook(p)
    \/ CreateUserLook(p)
    \/ UserInsert(p)
    \/ MarkerLook(p)
    \/ CreditRead(p)
    \/ CreditCommit(p)
    \/ ModelLook(p)
    \/ ModelUpdate(p)
    \/ CreateModelLook(p)
    \/ ModelInsert(p)
    \/ EnsureRead(p)
    \/ ResetCommit(p)

Next ==
    \/ \E p \in Starters : Start(p) \/ InitializeStep(p) \/ Crash(p)
    \/ \E a \in Admins : Activate(a)

Spec == Init /\ [][Next]_vars

(* A process that was started goes on: nothing in initialize_database waits *)
(* for another process.                                                    *)
Fairness == \A p \in Starters : WF_vars(InitializeStep(p))

FairSpec == Spec /\ Fairness

-----------------------------------------------------------------------------
SomeoneUp == \E p \in Starters : pc[p] = "up"

(* Whoever raced and died on the way, once a process serves, the database  *)
(* is complete: every demo user has its initial balance and the seed       *)
(* marker, and every model of MODEL_SEEDS has a row.                       *)
UpIsSeeded ==
    SomeoneUp =>
        /\ \A u \in Users : hasUser[u] /\ markers[u] > 0 /\ balance[u] >= SeedAmount
        /\ \A m \in Models : catalog[m] # "absent"

(* The seed marker and the credit stand for each other, so that a process  *)
(* that dies in between leaves the user to be credited by the next one.    *)
MarkerMeansCredit ==
    \A u \in Users :
        /\ markers[u] > 0 <=> balance[u] >= SeedAmount
        /\ balance[u] <= markers[u] * SeedAmount

(* Once a process serves, exactly one local model is active.               *)
SingleActive == SomeoneUp => ExactlyOne(catalog)

(* So it is as long as no two activation requests were ever in progress at *)
(* once: a process that starts in the middle of an activation, or a crash, *)
(* does not leave two active models, or none.                              *)
SingleUnlessCrossed == ~crossed => SingleActive

(* A process that starts, or starts again, leaves the model the            *)
(* administrator activated as it is (init_db.py spares is_active of local  *)
(* models), unless requests have crossed and there is something to repair. *)
ChoiceSurvivesStart ==
    [][\A p \in Starters : ~crossed /\ pc'[p] # pc[p] =>
          \A m \in Local : catalog[m] = "active" => catalog'[m] = "active"]_vars

(* On a first start of all processes, however they race, one comes up      *)
(* unless one is killed.                                                   *)
SomeoneComesUp ==
    (\E p \in Starters : pc[p] = "schema") ~> (SomeoneUp \/ crashes > 0)

(* A process started on an initialized database comes up, or is killed.    *)
RestartComesUp ==
    \A p \in Starters :
        SomeoneUp /\ pc[p] = "schema" ~> pc[p] \in {"up", "down"}
=============================================================================
