---------------------------- MODULE StartupProofs ----------------------------
(***************************************************************************)
(* Proofs about Startup, for every number of processes, demo users, models *)
(* and administrators: that a process which serves has a complete database *)
(* behind it, that a demo user is credited exactly when its marker is      *)
(* there, and that one local model is active until two activation requests *)
(* cross.                                                                  *)
(***************************************************************************)
EXTENDS Startup, TLAPS

-----------------------------------------------------------------------------
(* Type correctness.                                                       *)

(* Where ToModel takes a process.                                          *)
LEMMA ToModelMoves ==
    ASSUME TypeOK, NEW p \in Starters, NEW m \in Nat \ {0}, ToModel(p, m)
    PROVE  /\ pc' \in [Starters -> StartStages] /\ at' \in [Starters -> Nat]
           /\ \A q \in Starters \ {p} : pc'[q] = pc[q] /\ at'[q] = at[q]
           /\ \/ pc'[p] = "model" /\ at'[p] = m /\ m \in Models
              \/ pc'[p] = "ensure" /\ \A n \in Models : n < m
<1> USE DEF ToModel, Goto, TypeOK
<1>1. pc' \in [Starters -> StartStages] /\ at' \in [Starters -> Nat]
  BY DEF StartStages, ModelStages, Models
<1>2. \A q \in Starters \ {p} : pc'[q] = pc[q] /\ at'[q] = at[q]
  OBVIOUS
<1>3. CASE m \in Models
  BY <1>1, <1>2, <1>3
<1>4. CASE m \notin Models
  BY <1>1, <1>2, <1>4, ModelAssumption DEF Models
<1> QED
  BY <1>3, <1>4

(* Where ToUser takes a process.                                           *)
LEMMA ToUserMoves ==
    ASSUME TypeOK, NEW p \in Starters, NEW u \in Nat \ {0}, ToUser(p, u)
    PROVE  /\ pc' \in [Starters -> StartStages] /\ at' \in [Starters -> Nat]
           /\ \A q \in Starters \ {p} : pc'[q] = pc[q] /\ at'[q] = at[q]
           /\ \/ pc'[p] = "user" /\ at'[p] = u /\ u \in Users
              \/ /\ \/ pc'[p] = "model" /\ at'[p] = 1 /\ 1 \in Models
                    \/ pc'[p] = "ensure" /\ Models = {}
                 /\ \A v \in Users : v < u
<1>1. CASE u \in Users /\ Goto(p, "user") /\ at' = [at EXCEPT ![p] = u]
  BY <1>1 DEF TypeOK, Goto, StartStages, UserStages
<1>2. CASE u \notin Users /\ ToModel(p, 1)
  <2>1. \A v \in Users : v < u
    BY <1>2, StartAssumption DEF Users
  <2>2. (\A n \in Models : n < 1) => Models = {}
    BY ModelAssumption DEF Models
  <2> QED
    BY <1>2, <2>1, <2>2, ToModelMoves
<1> QED
  BY <1>1, <1>2 DEF ToUser

(* What another process is at is well typed still, where a step only moves *)
(* one process, and that one to a place that fits.                         *)
StagesFit(p) ==
    /\ pc[p] \in UserStages => at[p] \in Users
    /\ pc[p] \in ModelStages => at[p] \in Models

(* The place of a process that moved on to a user or a model fits.         *)
LEMMA StagesKeep ==
    ASSUME TypeOK, NEW p \in Starters,
           pc' \in [Starters -> StartStages], at' \in [Starters -> Nat],
           \A q \in Starters \ {p} : pc'[q] = pc[q] /\ at'[q] = at[q],
           StagesFit(p)'
    PROVE  /\ \A q \in Starters : pc'[q] \in UserStages => at'[q] \in Users
           /\ \A q \in Starters : pc'[q] \in ModelStages => at'[q] \in Models
<1> SUFFICES ASSUME NEW q \in Starters PROVE StagesFit(q)'
  BY DEF StagesFit
<1>1. CASE q = p
  BY <1>1
<1>2. CASE q # p
  BY <1>2 DEF StagesFit, TypeOK, Users, Models
<1> QED
  BY <1>1, <1>2

(* The same for the two loops.                                             *)
LEMMA LoopsFit ==
    ASSUME TypeOK, NEW p \in Starters, NEW n \in Nat \ {0}, ToUser(p, n) \/ ToModel(p, n)
    PROVE  /\ pc' \in [Starters -> StartStages] /\ at' \in [Starters -> Nat]
           /\ \A q \in Starters : pc'[q] \in UserStages => at'[q] \in Users
           /\ \A q \in Starters : pc'[q] \in ModelStages => at'[q] \in Models
<1>1. /\ pc' \in [Starters -> StartStages] /\ at' \in [Starters -> Nat]
      /\ \A q \in Starters \ {p} : pc'[q] = pc[q] /\ at'[q] = at[q]
      /\ \/ pc'[p] = "user" /\ at'[p] \in Users
         \/ pc'[p] = "model" /\ at'[p] \in Models
         \/ pc'[p] = "ensure"
  <2>1. CASE ToUser(p, n)
    BY <2>1, ToUserMoves
  <2>2. CASE ToModel(p, n)
    BY <2>2, ToModelMoves
  <2> QED
    BY <2>1, <2>2
<1>2. StagesFit(p)'
  BY <1>1 DEF StagesFit, UserStages, ModelStages, Users, Models
<1> QED
  BY <1>1, <1>2, StagesKeep

(* The loop variable of the next round.                                    *)
LEMMA NextRound ==
    ASSUME TypeOK, NEW p \in Starters, pc[p] \in UserStages \cup ModelStages
    PROVE  at[p] \in Nat \ {0} /\ at[p] + 1 \in Nat \ {0}
BY DEF TypeOK, Users, Models

(* Rows stay rows.                                                         *)
LEMMA FlushType ==
    ASSUME CatalogTypeOK, NEW m \in Local, NEW rows \in [Models -> RowStates]
    PROVE  FlushSelected(m, rows) \in [Models -> RowStates]
BY ModelAssumption DEF FlushSelected, Selected, CatalogTypeOK, RowStates

(* The steps of initialize_database.                                       *)
LEMMA TypeInitialize ==
    ASSUME TypeOK, NEW p \in Starters, InitializeStep(p)
    PROVE  TypeOK'
<1> USE DEF localVars, seedVars, catalogVars, requestVars
<1>0. NoRows \in [Models -> RowStates] /\ SeedAmount \in Nat
  BY StartAssumption DEF NoRows, RowStates
<1>1. CASE SchemaLook(p)
  <2>1. CASE ToUser(p, 1)
    BY <1>1, <2>1, LoopsFit DEF SchemaLook, TypeOK, CatalogTypeOK
  <2>2. CASE Goto(p, "create") /\ UNCHANGED at
    BY <1>1, <2>2 DEF SchemaLook, Goto, TypeOK, CatalogTypeOK, StartStages, UserStages, ModelStages
  <2> QED
    BY <1>1, <2>1, <2>2 DEF SchemaLook
<1>2. CASE SchemaCreate(p)
  <2>1. CASE ToUser(p, 1) /\ UNCHANGED <<sawAmount, sawRows>>
    BY <1>2, <2>1, LoopsFit DEF SchemaCreate, TypeOK, CatalogTypeOK
  <2>2. CASE Stop(p, "failed")
    BY <1>0, <1>2, <2>2 DEF SchemaCreate, Stop, Goto, TypeOK, CatalogTypeOK, StartStages, UserStages, ModelStages
  <2> QED
    BY <1>2, <2>1, <2>2 DEF SchemaCreate
<1>3. CASE UserLook(p)
  BY <1>3 DEF UserLook, Goto, TypeOK, CatalogTypeOK, StartStages, UserStages, ModelStages
<1>4. CASE CreateUserLook(p)
  <2>1. CASE Stop(p, "failed")
    BY <1>0, <1>4, <2>1 DEF CreateUserLook, Stop, Goto, TypeOK, CatalogTypeOK, StartStages, UserStages, ModelStages
  <2>2. CASE Goto(p, "insertUser") /\ UNCHANGED localVars
    BY <1>4, <2>2 DEF CreateUserLook, Goto, TypeOK, CatalogTypeOK, StartStages, UserStages, ModelStages
  <2> QED
    BY <1>4, <2>1, <2>2 DEF CreateUserLook
<1>5. CASE UserInsert(p)
  <2>1. CASE Stop(p, "failed") /\ UNCHANGED <<hasUser, balance>>
    BY <1>0, <1>5, <2>1 DEF UserInsert, Stop, Goto, TypeOK, CatalogTypeOK, StartStages, UserStages, ModelStages
  <2>2. CASE /\ hasUser' = [hasUser EXCEPT ![at[p]] = TRUE]
             /\ balance' = [balance EXCEPT ![at[p]] = 0]
             /\ Goto(p, "marker")
             /\ UNCHANGED localVars
    BY <1>5, <2>2 DEF UserInsert, Goto, TypeOK, CatalogTypeOK, StartStages, UserStages, ModelStages
  <2> QED
    BY <1>5, <2>1, <2>2 DEF UserInsert
<1>6. CASE MarkerLook(p)
  <2>1. CASE ToUser(p, at[p] + 1)
    BY <1>6, <2>1, LoopsFit, NextRound DEF MarkerLook, TypeOK, CatalogTypeOK, UserStages
  <2>2. CASE Goto(p, "credit") /\ UNCHANGED at
    BY <1>6, <2>2 DEF MarkerLook, Goto, TypeOK, CatalogTypeOK, StartStages, UserStages, ModelStages
  <2> QED
    BY <1>6, <2>1, <2>2 DEF MarkerLook
<1>7. CASE CreditRead(p)
  <2>1. balance[at[p]] \in Nat
    BY <1>7 DEF CreditRead, TypeOK, UserStages
  <2> QED
    BY <1>7, <2>1 DEF CreditRead, Goto, TypeOK, CatalogTypeOK, StartStages, UserStages, ModelStages
<1>8. CASE CreditCommit(p)
  <2>1. /\ pc' \in [Starters -> StartStages] /\ at' \in [Starters -> Nat]
        /\ \A q \in Starters : pc'[q] \in UserStages => at'[q] \in Users
        /\ \A q \in Starters : pc'[q] \in ModelStages => at'[q] \in Models
    BY <1>8, LoopsFit, NextRound DEF CreditCommit, UserStages
  <2>2. /\ balance' \in [Users -> Nat] /\ markers' \in [Users -> Nat]
        /\ sawAmount' \in [Starters -> Nat]
    <3>1. /\ balance \in [Users -> Nat] /\ markers \in [Users -> Nat]
          /\ sawAmount \in [Starters -> Nat] /\ sawAmount[p] + SeedAmount \in Nat
      BY <1>0 DEF TypeOK
    <3>2. at[p] \in Users
      BY <1>8 DEF CreditCommit, TypeOK, UserStages
    <3> QED
      BY <1>8, <3>1, <3>2 DEF CreditCommit
  <2> QED
    BY <1>8, <2>1, <2>2 DEF CreditCommit, TypeOK, CatalogTypeOK
<1>9. CASE ModelLook(p)
  <2>1. [NoRows EXCEPT ![at[p]] = catalog[at[p]]] \in [Models -> RowStates]
    BY <1>0, <1>9 DEF ModelLook, TypeOK, CatalogTypeOK, ModelStages
  <2> QED
    BY <1>9, <2>1 DEF ModelLook, Goto, TypeOK, CatalogTypeOK, StartStages, UserStages, ModelStages
<1>10. CASE ModelUpdate(p)
  <2>1. /\ pc' \in [Starters -> StartStages] /\ at' \in [Starters -> Nat]
        /\ \A q \in Starters : pc'[q] \in UserStages => at'[q] \in Users
        /\ \A q \in Starters : pc'[q] \in ModelStages => at'[q] \in Models
    BY <1>10, LoopsFit, NextRound DEF ModelUpdate, ModelStages
  <2>2. catalog' \in [Models -> RowStates]
    BY <1>10 DEF ModelUpdate, TypeOK, CatalogTypeOK, SeedState, RowStates
  <2> QED
    BY <1>0, <1>10, <2>1, <2>2 DEF ModelUpdate, TypeOK, CatalogTypeOK
<1>11. CASE CreateModelLook(p)
  <2>1. CASE ToModel(p, at[p] + 1)
    BY <1>11, <2>1, LoopsFit, NextRound DEF CreateModelLook, TypeOK, CatalogTypeOK, ModelStages
  <2>2. CASE Goto(p, "insertModel") /\ UNCHANGED at
    BY <1>11, <2>2 DEF CreateModelLook, Goto, TypeOK, CatalogTypeOK, StartStages, UserStages, ModelStages
  <2> QED
    BY <1>11, <2>1, <2>2 DEF CreateModelLook
<1>12. CASE ModelInsert(p)
  <2>1. CASE /\ catalog' = [catalog EXCEPT ![at[p]] = SeedState(at[p])]
             /\ ToModel(p, at[p] + 1)
             /\ UNCHANGED <<sawAmount, sawRows>>
    <3>1. /\ pc' \in [Starters -> StartStages] /\ at' \in [Starters -> Nat]
          /\ \A q \in Starters : pc'[q] \in UserStages => at'[q] \in Users
          /\ \A q \in Starters : pc'[q] \in ModelStages => at'[q] \in Models
      BY <1>12, <2>1, LoopsFit, NextRound DEF ModelInsert, ModelStages
    <3>2. catalog' \in [Models -> RowStates]
      BY <2>1 DEF TypeOK, CatalogTypeOK, SeedState, RowStates
    <3> QED
      BY <1>12, <2>1, <3>1, <3>2 DEF ModelInsert, TypeOK, CatalogTypeOK
  <2>2. CASE Stop(p, "failed") /\ UNCHANGED catalog
    BY <1>0, <1>12, <2>2 DEF ModelInsert, Stop, Goto, TypeOK, CatalogTypeOK, StartStages, UserStages, ModelStages
  <2> QED
    BY <1>12, <2>1, <2>2 DEF ModelInsert
<1>13. CASE EnsureRead(p)
  BY <1>13 DEF EnsureRead, Goto, TypeOK, CatalogTypeOK, StartStages, UserStages, ModelStages
<1>14. CASE ResetCommit(p)
  <2>1. catalog' \in [Models -> RowStates]
    BY <1>14, FlushType, ModelAssumption DEF ResetCommit, TypeOK
  <2> QED
    BY <1>0, <1>14, <2>1 DEF ResetCommit, Goto, TypeOK, CatalogTypeOK, StartStages, UserStages, ModelStages
<1> QED
  BY <1>1, <1>2, <1>3, <1>4, <1>5, <1>6, <1>7, <1>8, <1>9, <1>10, <1>11, <1>12, <1>13, <1>14
  DEF InitializeStep

(* Everything else: starts, crashes and requests.                          *)
LEMMA TypeOther ==
    ASSUME TypeOK,
           \/ \E p \in Starters : Start(p) \/ Crash(p)
           \/ \E a \in Admins : Activate(a)
    PROVE  TypeOK'
<1> USE DEF localVars, seedVars, catalogVars, requestVars
<1>0. NoRows \in [Models -> RowStates] /\ Default \in Local
  BY ModelAssumption DEF NoRows, RowStates
<1>1. ASSUME NEW p \in Starters, Start(p) PROVE TypeOK'
  BY <1>1 DEF Start, Goto, TypeOK, CatalogTypeOK, StartStages, UserStages, ModelStages
<1>2. ASSUME NEW p \in Starters, Crash(p) PROVE TypeOK'
  <2>1. CatalogTypeOK'
    BY <1>0, <1>2 DEF Crash, CloseRequests, TypeOK, CatalogTypeOK
  <2> QED
    BY <1>0, <1>2, <2>1 DEF Crash, Stop, Goto, TypeOK, StartStages, UserStages, ModelStages
<1>3. ASSUME NEW a \in Admins, Activate(a) PROVE TypeOK'
  <2>1. ASSUME NEW m \in Local, PickRead(a, m) PROVE CatalogTypeOK'
    <3>1. [NoRows EXCEPT ![m] = catalog[m]] \in [Models -> RowStates]
      BY <1>0, ModelAssumption DEF TypeOK, CatalogTypeOK
    <3> QED
      BY <2>1, <3>1 DEF PickRead, TypeOK, CatalogTypeOK
  <2>2. ASSUME PullFails(a) PROVE CatalogTypeOK'
    BY <1>0, <2>2 DEF PullFails, CloseRequest, TypeOK, CatalogTypeOK
  <2>3. ASSUME CatalogRead(a) PROVE CatalogTypeOK'
    <3>1. [m \in Models |-> IF m = choice[a] THEN seen[a][m] ELSE catalog[m]]
              \in [Models -> RowStates]
      BY DEF TypeOK, CatalogTypeOK
    <3> QED
      BY <2>3, <3>1 DEF CatalogRead, TypeOK, CatalogTypeOK
  <2>4. ASSUME ActivateCommit(a) PROVE CatalogTypeOK'
    <3>1. FlushSelected(choice[a], seen[a]) \in [Models -> RowStates]
      BY FlushType DEF TypeOK, CatalogTypeOK
    <3> QED
      BY <1>0, <2>4, <3>1 DEF ActivateCommit, CloseRequest, TypeOK, CatalogTypeOK
  <2>5. CatalogTypeOK'
    BY <1>3, <2>1, <2>2, <2>3, <2>4 DEF Activate, ActivationStep
  <2> QED
    BY <1>3, <2>5 DEF Activate, TypeOK
<1> QED
  BY <1>1, <1>2, <1>3

(* Every step keeps the types.                                             *)
LEMMA TypeStep == TypeOK /\ [Next]_vars => TypeOK'
<1>0. TypeOK /\ UNCHANGED vars => TypeOK'
  BY DEF vars, TypeOK, CatalogTypeOK
<1> QED
  BY <1>0, TypeInitialize, TypeOther DEF Next

(* The first state is well typed.                                          *)
LEMMA TypeInit == Init => TypeOK
<1> SUFFICES ASSUME Init PROVE TypeOK
  OBVIOUS
<1>1. NoRows \in [Models -> RowStates] /\ Default \in Local
  BY ModelAssumption DEF NoRows, RowStates
<1>2. CatalogTypeOK
  BY <1>1 DEF Init, CatalogInit, CatalogTypeOK
<1> QED
  BY <1>1, <1>2 DEF Init, TypeOK, StartStages, UserStages, ModelStages

(* Every reachable state is well typed; no process is ever at a demo user  *)
(* or a model that does not exist.                                         *)
THEOREM StartupTypeCorrect == Spec => []TypeOK
BY TypeInit, TypeStep, PTL DEF Spec

-----------------------------------------------------------------------------
(* A process that serves has a complete database behind it.  What a        *)
(* process has found or written on its way through the two loops stays in  *)
(* the database: rows, markers and credits only grow.                      *)

PassedUser(p, u) ==
    \/ pc[p] \in UserStages /\ u < at[p]
    \/ pc[p] \in ModelStages \cup {"ensure", "reset", "up"}

PassedModel(p, m) ==
    \/ pc[p] \in ModelStages /\ m < at[p]
    \/ pc[p] \in {"ensure", "reset", "up"}

Behind(p) ==
    /\ \A u \in Users : PassedUser(p, u) => markers[u] > 0
    /\ \A m \in Models : PassedModel(p, m) => catalog[m] # "absent"
    /\ pc[p] \in {"marker", "credit", "book"} => hasUser[at[p]]
    /\ pc[p] = "update" => catalog[at[p]] # "absent"

Credited ==
    \A u \in Users : markers[u] > 0 => hasUser[u] /\ balance[u] >= SeedAmount

SeedInv == Credited /\ \A p \in Starters : Behind(p)

Grows ==
    /\ \A u \in Users : markers[u] > 0 => markers'[u] > 0
    /\ \A u \in Users : hasUser[u] => hasUser'[u]
    /\ \A m \in Models : catalog[m] # "absent" => catalog'[m] # "absent"

(* A row that was there is there after a flush.                            *)
LEMMA FlushGrows ==
    ASSUME NEW m \in Local, NEW rows \in [Models -> RowStates], NEW n \in Models,
           catalog[n] # "absent"
    PROVE  FlushSelected(m, rows)[n] # "absent"
BY ModelAssumption DEF FlushSelected, Selected, RowStates

(* No step takes a row or a marker away.                                   *)
LEMMA StepGrows ==
    ASSUME TypeOK, [Next]_vars
    PROVE  Grows
<1> USE DEF localVars, seedVars, catalogVars, requestVars
<1>1. CASE UNCHANGED <<hasUser, markers, catalog>>
  BY <1>1 DEF Grows
<1>2. ASSUME NEW p \in Starters, UserInsert(p) PROVE Grows
  BY <1>2 DEF Grows, UserInsert, TypeOK
<1>3. ASSUME NEW p \in Starters, CreditCommit(p) PROVE Grows
  BY <1>3 DEF Grows, CreditCommit, TypeOK, UserStages
<1>4. ASSUME NEW p \in Starters, ModelUpdate(p) PROVE Grows
  BY <1>4 DEF Grows, ModelUpdate, TypeOK, CatalogTypeOK, SeedState
<1>5. ASSUME NEW p \in Starters, ModelInsert(p) PROVE Grows
  BY <1>5 DEF Grows, ModelInsert, TypeOK, CatalogTypeOK, SeedState
<1>6. ASSUME NEW p \in Starters, ResetCommit(p) PROVE Grows
  <2>1. sawRows[p] \in [Models -> RowStates] /\ Default \in Local
    BY ModelAssumption DEF TypeOK
  <2> QED
    BY <1>6, <2>1, FlushGrows DEF Grows, ResetCommit
<1>7. ASSUME NEW a \in Admins, Activate(a) PROVE Grows
  <2>1. CASE UNCHANGED catalog
    BY <1>1, <1>7, <2>1 DEF Activate
  <2>2. CASE ActivateCommit(a)
    <3>1. seen[a] \in [Models -> RowStates] /\ choice[a] \in Local
      BY DEF TypeOK, CatalogTypeOK
    <3> QED
      BY <1>7, <2>2, <3>1, FlushGrows DEF Grows, Activate, ActivateCommit
  <2> QED
    BY <1>7, <2>1, <2>2 DEF Activate, ActivationStep, PickRead, PullFails, CatalogRead
<1>8. ASSUME NEW p \in Starters,
             \/ Start(p) \/ Crash(p) \/ SchemaLook(p) \/ SchemaCreate(p) \/ UserLook(p)
             \/ CreateUserLook(p) \/ MarkerLook(p) \/ CreditRead(p) \/ ModelLook(p)
             \/ CreateModelLook(p) \/ EnsureRead(p)
      PROVE  UNCHANGED <<hasUser, markers, catalog>>
  BY <1>8 DEF Start, Crash, SchemaLook, SchemaCreate, UserLook, CreateUserLook, MarkerLook,
              CreditRead, ModelLook, CreateModelLook, EnsureRead
<1> QED
  BY <1>1, <1>2, <1>3, <1>4, <1>5, <1>6, <1>7, <1>8 DEF Next, InitializeStep, vars

(* A process that did not move keeps what is behind it.                    *)
LEMMA BehindStays ==
    ASSUME TypeOK, Grows, NEW p \in Starters, Behind(p), pc'[p] = pc[p], at'[p] = at[p]
    PROVE  Behind(p)'
<1>1. \A u \in Users : PassedUser(p, u)' => markers'[u] > 0
  BY DEF Behind, Grows, PassedUser
<1>2. \A m \in Models : PassedModel(p, m)' => catalog'[m] # "absent"
  BY DEF Behind, Grows, PassedModel
<1>3. pc'[p] \in {"marker", "credit", "book"} => hasUser'[at'[p]]
  BY DEF Behind, Grows, TypeOK, UserStages
<1>4. pc'[p] = "update" => catalog'[at'[p]] # "absent"
  BY DEF Behind, Grows, TypeOK, ModelStages
<1> QED
  BY <1>1, <1>2, <1>3, <1>4 DEF Behind

(* A process that is outside the loops has nothing behind it to lose.      *)
LEMMA BehindNothing ==
    ASSUME NEW p \in Starters, pc'[p] \in {"down", "failed", "schema", "create"}
    PROVE  Behind(p)'
BY DEF Behind, PassedUser, PassedModel, UserStages, ModelStages

(* A process that moves to another step with the same user or model.       *)
LEMMA BehindSame ==
    ASSUME TypeOK, Grows, NEW p \in Starters, Behind(p), at'[p] = at[p],
           \/ pc[p] \in UserStages /\ pc'[p] \in UserStages
           \/ pc[p] \in ModelStages /\ pc'[p] \in ModelStages
           \/ pc[p] \in {"ensure", "reset"} /\ pc'[p] \in {"reset", "up"},
           pc'[p] \in {"marker", "credit", "book"} => hasUser'[at[p]],
           pc'[p] = "update" => catalog'[at[p]] # "absent"
    PROVE  Behind(p)'
<1>1. \A u \in Users : PassedUser(p, u)' => markers'[u] > 0
  BY DEF Behind, Grows, PassedUser, UserStages, ModelStages
<1>2. \A m \in Models : PassedModel(p, m)' => catalog'[m] # "absent"
  BY DEF Behind, Grows, PassedModel, UserStages, ModelStages
<1> QED
  BY <1>1, <1>2 DEF Behind

(* A process that goes on to the next model.                               *)
LEMMA BehindNextModel ==
    ASSUME TypeOK, Grows, NEW p \in Starters, Behind(p), pc[p] \in ModelStages,
           ToModel(p, at[p] + 1), catalog'[at[p]] # "absent"
    PROVE  Behind(p)'
<1>1. /\ at[p] \in Models /\ at[p] + 1 \in Nat \ {0}
      /\ \A m \in Models : m < at[p] + 1 => m < at[p] \/ m = at[p]
  BY DEF TypeOK, Models
<1>2. \/ pc'[p] = "model" /\ at'[p] = at[p] + 1
      \/ pc'[p] = "ensure" /\ \A m \in Models : m < at[p] + 1
  BY <1>1, ToModelMoves
<1>3. \A u \in Users : markers'[u] > 0
  BY DEF Behind, Grows, PassedUser
<1>4. \A m \in Models : PassedModel(p, m)' => catalog'[m] # "absent"
  BY <1>1, <1>2 DEF Behind, Grows, PassedModel, ModelStages
<1> QED
  BY <1>2, <1>3, <1>4 DEF Behind

(* A process that goes on to a user, when all users before it are done.    *)
LEMMA BehindNextUser ==
    ASSUME TypeOK, NEW p \in Starters, NEW n \in Nat \ {0}, ToUser(p, n),
           \A u \in Users : u < n => markers'[u] > 0
    PROVE  Behind(p)'
<1>1. \/ pc'[p] = "user" /\ at'[p] = n
      \/ /\ \/ pc'[p] = "model" /\ at'[p] = 1
            \/ pc'[p] = "ensure" /\ Models = {}
         /\ \A u \in Users : u < n
  BY ToUserMoves
<1>2. \A u \in Users : PassedUser(p, u)' => markers'[u] > 0
  BY <1>1 DEF PassedUser, UserStages, ModelStages
<1>3. \A m \in Models : ~(m < 1)
  BY DEF Models
<1>4. \A m \in Models : ~PassedModel(p, m)'
  BY <1>1, <1>3 DEF PassedModel, ModelStages
<1> QED
  BY <1>1, <1>2, <1>4 DEF Behind

(* A step of initialize_database moves one process.                        *)
LEMMA OneMoves ==
    ASSUME TypeOK, NEW p \in Starters, InitializeStep(p)
    PROVE  \A q \in Starters \ {p} : pc'[q] = pc[q] /\ at'[q] = at[q]
<1> USE DEF localVars
<1>1. CASE \E n \in Nat \ {0} : ToUser(p, n) \/ ToModel(p, n)
  BY <1>1, ToUserMoves, ToModelMoves
<1>2. CASE Stop(p, "failed")
  BY <1>2 DEF Stop, Goto, TypeOK
<1>3. CASE UNCHANGED at /\ \E label \in StartStages : Goto(p, label)
  BY <1>3 DEF Goto, TypeOK
<1>4. 1 \in Nat \ {0} /\ (pc[p] \in UserStages \cup ModelStages => at[p] + 1 \in Nat \ {0})
  BY NextRound
<1>5. ASSUME SchemaLook(p) \/ SchemaCreate(p) \/ UserLook(p) \/ CreateUserLook(p)
      PROVE  \A q \in Starters \ {p} : pc'[q] = pc[q] /\ at'[q] = at[q]
  BY <1>1, <1>2, <1>3, <1>4, <1>5
  DEF SchemaLook, SchemaCreate, UserLook, CreateUserLook, StartStages, UserStages
<1>6. ASSUME UserInsert(p) \/ MarkerLook(p) \/ CreditRead(p) \/ CreditCommit(p)
      PROVE  \A q \in Starters \ {p} : pc'[q] = pc[q] /\ at'[q] = at[q]
  BY <1>1, <1>2, <1>3, <1>4, <1>6
  DEF UserInsert, MarkerLook, CreditRead, CreditCommit, StartStages, UserStages
<1>7. ASSUME ModelLook(p) \/ ModelUpdate(p) \/ CreateModelLook(p) \/ ModelInsert(p)
      PROVE  \A q \in Starters \ {p} : pc'[q] = pc[q] /\ at'[q] = at[q]
  BY <1>1, <1>2, <1>3, <1>4, <1>7
  DEF ModelLook, ModelUpdate, CreateModelLook, ModelInsert, StartStages, ModelStages
<1>8. ASSUME EnsureRead(p) \/ ResetCommit(p)
      PROVE  \A q \in Starters \ {p} : pc'[q] = pc[q] /\ at'[q] = at[q]
  BY <1>3, <1>8 DEF EnsureRead, ResetCommit, StartStages
<1> QED
  BY <1>5, <1>6, <1>7, <1>8 DEF InitializeStep

(* What is behind the process that takes a step.                           *)
LEMMA BehindMoves ==
    ASSUME TypeOK, Grows, Credited, NEW p \in Starters, Behind(p), InitializeStep(p)
    PROVE  Behind(p)'
<1> USE DEF localVars, seedVars, catalogVars, requestVars
<1>0. 1 \in Nat \ {0} /\ \A u \in Users : ~(u < 1)
  BY DEF Users
<1>1. CASE pc[p] \in UserStages
  <2>1. /\ at[p] \in Users /\ at[p] + 1 \in Nat \ {0}
        /\ \A u \in Users : u < at[p] + 1 => u < at[p] \/ u = at[p]
    BY <1>1 DEF TypeOK, Users
  <2>2. \A u \in Users : u < at[p] => markers'[u] > 0
    BY <1>1 DEF Behind, Grows, PassedUser
  <2>3. CASE UserLook(p)
    BY <2>1, <2>3, BehindSame DEF UserLook, Goto, TypeOK, UserStages
  <2>4. CASE CreateUserLook(p)
    <3>1. CASE Stop(p, "failed")
      BY <3>1, BehindNothing DEF Stop, Goto, TypeOK
    <3>2. CASE Goto(p, "insertUser") /\ UNCHANGED localVars
      BY <1>1, <3>2, BehindSame DEF Goto, TypeOK, UserStages
    <3> QED
      BY <2>4, <3>1, <3>2 DEF CreateUserLook
  <2>5. CASE UserInsert(p)
    <3>1. CASE Stop(p, "failed")
      BY <3>1, BehindNothing DEF Stop, Goto, TypeOK
    <3>2. CASE /\ hasUser' = [hasUser EXCEPT ![at[p]] = TRUE]
               /\ Goto(p, "marker") /\ UNCHANGED localVars
      BY <1>1, <2>1, <3>2, BehindSame DEF Goto, TypeOK, UserStages
    <3> QED
      BY <2>5, <3>1, <3>2 DEF UserInsert
  <2>6. CASE MarkerLook(p)
    <3>1. CASE markers[at[p]] > 0 /\ ToUser(p, at[p] + 1)
      BY <2>1, <2>2, <3>1, BehindNextUser DEF Grows
    <3>2. CASE Goto(p, "credit") /\ UNCHANGED at
      BY <1>1, <2>1, <2>6, <3>2, BehindSame DEF MarkerLook, Goto, TypeOK, UserStages, Behind
    <3> QED
      BY <2>6, <3>1, <3>2 DEF MarkerLook
  <2>7. CASE CreditRead(p)
    BY <1>1, <2>1, <2>7, BehindSame DEF CreditRead, Goto, TypeOK, UserStages, Behind
  <2>8. CASE CreditCommit(p)
    <3>1. markers'[at[p]] > 0
      BY <2>1, <2>8 DEF CreditCommit, TypeOK
    <3> QED
      BY <2>1, <2>2, <2>8, <3>1, BehindNextUser DEF CreditCommit
  <2> QED
    BY <1>1, <2>3, <2>4, <2>5, <2>6, <2>7, <2>8
    DEF InitializeStep, UserStages, SchemaLook, SchemaCreate, ModelLook, ModelUpdate,
        CreateModelLook, ModelInsert, EnsureRead, ResetCommit
<1>2. CASE pc[p] \in ModelStages
  <2>1. at[p] \in Models
    BY <1>2 DEF TypeOK
  <2>2. CASE ModelLook(p)
    <3>1. CASE catalog[at[p]] = "absent" /\ Goto(p, "newModel")
      BY <1>2, <2>2, <3>1, BehindSame DEF ModelLook, Goto, TypeOK, ModelStages
    <3>2. CASE catalog[at[p]] # "absent" /\ Goto(p, "update")
      BY <1>2, <2>1, <2>2, <3>2, BehindSame DEF ModelLook, Goto, TypeOK, ModelStages, Grows
    <3> QED
      BY <2>2, <3>1, <3>2 DEF ModelLook
  <2>3. CASE ModelUpdate(p)
    <3>1. catalog'[at[p]] # "absent"
      BY <2>1, <2>3 DEF ModelUpdate, Behind, Grows
    <3> QED
      BY <1>2, <2>3, <3>1, BehindNextModel DEF ModelUpdate
  <2>4. CASE CreateModelLook(p)
    <3>1. CASE catalog[at[p]] # "absent" /\ ToModel(p, at[p] + 1)
      BY <1>2, <2>1, <3>1, BehindNextModel DEF Grows
    <3>2. CASE Goto(p, "insertModel") /\ UNCHANGED at
      BY <1>2, <3>2, BehindSame DEF Goto, TypeOK, ModelStages
    <3> QED
      BY <2>4, <3>1, <3>2 DEF CreateModelLook
  <2>5. CASE ModelInsert(p)
    <3>1. CASE Stop(p, "failed")
      BY <3>1, BehindNothing DEF Stop, Goto, TypeOK
    <3>2. CASE /\ catalog' = [catalog EXCEPT ![at[p]] = SeedState(at[p])]
               /\ ToModel(p, at[p] + 1)
      <4>1. catalog'[at[p]] # "absent"
        BY <2>1, <3>2 DEF TypeOK, CatalogTypeOK, SeedState
      <4> QED
        BY <1>2, <3>2, <4>1, BehindNextModel
    <3> QED
      BY <2>5, <3>1, <3>2 DEF ModelInsert
  <2> QED
    BY <1>2, <2>2, <2>3, <2>4, <2>5
    DEF InitializeStep, ModelStages, SchemaLook, SchemaCreate, UserLook, CreateUserLook,
        UserInsert, MarkerLook, CreditRead, CreditCommit, EnsureRead, ResetCommit
<1>3. CASE SchemaLook(p)
  <2>1. CASE ToUser(p, 1)
    BY <1>0, <2>1, BehindNextUser
  <2>2. CASE Goto(p, "create")
    BY <2>2, BehindNothing DEF Goto, TypeOK
  <2> QED
    BY <1>3, <2>1, <2>2 DEF SchemaLook
<1>4. CASE SchemaCreate(p)
  <2>1. CASE ToUser(p, 1)
    BY <1>0, <2>1, BehindNextUser
  <2>2. CASE Stop(p, "failed")
    BY <2>2, BehindNothing DEF Stop, Goto, TypeOK
  <2> QED
    BY <1>4, <2>1, <2>2 DEF SchemaCreate
<1>5. CASE EnsureRead(p)
  BY <1>5, BehindSame DEF EnsureRead, Goto, TypeOK
<1>6. CASE ResetCommit(p)
  BY <1>6, BehindSame DEF ResetCommit, Goto, TypeOK
<1> QED
  BY <1>1, <1>2, <1>3, <1>4, <1>5, <1>6
  DEF InitializeStep, UserStages, ModelStages, UserLook, CreateUserLook, UserInsert, MarkerLook,
      CreditRead, CreditCommit, ModelLook, ModelUpdate, CreateModelLook, ModelInsert

(* A marker and its credit stay together: the insert of a user finds no    *)
(* marker of it, and a credit is never less than the amount of the seed.   *)
LEMMA CreditedStep ==
    ASSUME TypeOK, SeedInv, [Next]_vars
    PROVE  Credited'
<1> USE DEF localVars, seedVars, catalogVars, requestVars
<1>1. CASE UNCHANGED <<hasUser, markers, balance>>
  BY <1>1 DEF SeedInv, Credited
<1>2. ASSUME NEW p \in Starters, UserInsert(p) PROVE Credited'
  BY <1>1, <1>2 DEF SeedInv, Credited, UserInsert, TypeOK, UserStages
<1>3. ASSUME NEW p \in Starters, CreditCommit(p) PROVE Credited'
  <2>1. at[p] \in Users /\ hasUser[at[p]] /\ sawAmount[p] + SeedAmount >= SeedAmount
    BY <1>3, StartAssumption DEF CreditCommit, SeedInv, Behind, TypeOK, UserStages
  <2> QED
    BY <1>3, <2>1 DEF CreditCommit, SeedInv, Credited, TypeOK
<1>4. ASSUME NEW p \in Starters,
             \/ Start(p) \/ Crash(p) \/ SchemaLook(p) \/ SchemaCreate(p) \/ UserLook(p)
             \/ CreateUserLook(p) \/ MarkerLook(p) \/ CreditRead(p) \/ ModelLook(p)
             \/ ModelUpdate(p) \/ CreateModelLook(p) \/ ModelInsert(p) \/ EnsureRead(p)
             \/ ResetCommit(p)
      PROVE  UNCHANGED <<hasUser, markers, balance>>
  BY <1>4 DEF Start, Crash, SchemaLook, SchemaCreate, UserLook, CreateUserLook, MarkerLook,
              CreditRead, ModelLook, ModelUpdate, CreateModelLook, ModelInsert, EnsureRead,
              ResetCommit
<1> QED
  BY <1>1, <1>2, <1>3, <1>4 DEF Next, InitializeStep, vars, Activate

(* Every step keeps the invariant.                                         *)
LEMMA SeedStep == TypeOK /\ SeedInv /\ [Next]_vars => SeedInv'
<1> SUFFICES ASSUME TypeOK, SeedInv, [Next]_vars PROVE SeedInv'
  OBVIOUS
<1>1. Grows /\ Credited /\ Credited'
  BY StepGrows, CreditedStep DEF SeedInv
<1>2. CASE UNCHANGED <<pc, at>>
  BY <1>1, <1>2, BehindStays DEF SeedInv
<1>3. ASSUME NEW p \in Starters, InitializeStep(p) PROVE SeedInv'
  <2>1. Behind(p)'
    BY <1>1, <1>3, BehindMoves DEF SeedInv
  <2>2. ASSUME NEW q \in Starters \ {p} PROVE Behind(q)'
    BY <1>1, <1>3, OneMoves, BehindStays DEF SeedInv
  <2> QED
    BY <1>1, <2>1, <2>2 DEF SeedInv
<1>4. ASSUME NEW p \in Starters, Start(p) \/ Crash(p) PROVE SeedInv'
  <2>1. /\ pc'[p] \in {"schema", "down"}
        /\ \A q \in Starters \ {p} : pc'[q] = pc[q] /\ at'[q] = at[q]
    BY <1>4 DEF Start, Crash, Stop, Goto, TypeOK, localVars
  <2>2. Behind(p)'
    BY <2>1, BehindNothing
  <2>3. ASSUME NEW q \in Starters \ {p} PROVE Behind(q)'
    BY <1>1, <2>1, BehindStays DEF SeedInv
  <2> QED
    BY <1>1, <2>2, <2>3 DEF SeedInv
<1> QED
  BY <1>2, <1>3, <1>4 DEF Next, Activate, localVars, vars

(* A first start has nothing behind it.                                    *)
LEMMA SeedInit == Init => SeedInv
BY DEF Init, SeedInv, Credited, Behind, PassedUser, PassedModel, UserStages, ModelStages

(* The two invariants hold together.                                       *)
LEMMA SeedInvariant == Spec => [](TypeOK /\ SeedInv)
<1>1. TypeOK /\ SeedInv /\ [Next]_vars => (TypeOK /\ SeedInv)'
  BY TypeStep, SeedStep
<1> QED
  BY <1>1, TypeInit, SeedInit, PTL DEF Spec

(* However many processes start, race, fail and start again, one that      *)
(* serves has every demo user with its credit and every model's row.       *)
THEOREM ServesSeeded == Spec => []UpIsSeeded
<1>1. TypeOK /\ SeedInv => UpIsSeeded
  BY DEF SeedInv, Credited, Behind, PassedUser, PassedModel, UpIsSeeded, SomeoneUp
<1> QED
  BY <1>1, SeedInvariant, PTL

-----------------------------------------------------------------------------
(* A balance is never more than its markers account for, a marker never    *)
(* without its credit.                                                     *)

Worth(u) == markers[u] * SeedAmount

WorthInv ==
    /\ \A u \in Users : balance[u] <= Worth(u)
    /\ \A p \in Starters : pc[p] = "book" => sawAmount[p] <= Worth(at[p])

(* What one more marker is worth.                                          *)
LEMMA OneMore ==
    ASSUME NEW n \in Nat
    PROVE  /\ (n + 1) * SeedAmount = n * SeedAmount + SeedAmount
           /\ n * SeedAmount \in Nat /\ 0 * SeedAmount = 0
<1>1. SeedAmount \in Nat
  BY StartAssumption
<1> QED
  BY <1>1

(* Every step keeps the invariant: what was read at a credit was worth the *)
(* markers of its time, and markers only grow.                             *)
LEMMA WorthStep == TypeOK /\ WorthInv /\ [Next]_vars => WorthInv'
<1> SUFFICES ASSUME TypeOK, WorthInv, [Next]_vars PROVE WorthInv'
  OBVIOUS
<1> USE DEF localVars, seedVars, catalogVars, requestVars
<1>1. ASSUME UNCHANGED <<balance, markers>>,
             \A p \in Starters : pc'[p] = "book" =>
                 pc[p] = "book" /\ at'[p] = at[p] /\ sawAmount'[p] = sawAmount[p]
      PROVE  WorthInv'
  BY <1>1 DEF WorthInv, Worth
<1>2. ASSUME NEW p \in Starters, InitializeStep(p) PROVE WorthInv'
  <2>1. \A q \in Starters \ {p} : pc'[q] = pc[q] /\ at'[q] = at[q]
    BY <1>2, OneMoves
  <2>2. CASE UserInsert(p)
    <3>1. UNCHANGED markers /\ pc'[p] \in {"failed", "marker"}
      BY <2>2 DEF UserInsert, Stop, Goto, TypeOK
    <3>2. \A q \in Starters \ {p} : sawAmount'[q] = sawAmount[q]
      BY <2>2 DEF UserInsert, Stop, TypeOK
    <3>3. ASSUME NEW u \in Users PROVE balance'[u] <= Worth(u)'
      <4>1. Worth(u)' = Worth(u) /\ Worth(u) \in Nat
        BY <3>1, OneMore DEF Worth, TypeOK
      <4> QED
        BY <2>2, <4>1 DEF UserInsert, WorthInv, TypeOK
    <3>4. ASSUME NEW q \in Starters, pc'[q] = "book" PROVE sawAmount'[q] <= Worth(at[q])'
      BY <2>1, <3>1, <3>2, <3>4 DEF WorthInv, Worth
    <3> QED
      BY <2>1, <3>1, <3>3, <3>4 DEF WorthInv, Worth
  <2>3. CASE CreditRead(p)
    <3>1. /\ UNCHANGED <<balance, markers, at>> /\ at[p] \in Users
          /\ sawAmount' = [sawAmount EXCEPT ![p] = balance[at[p]]]
      BY <2>3 DEF CreditRead, TypeOK, UserStages
    <3> QED
      BY <2>1, <3>1 DEF WorthInv, Worth, TypeOK
  <2>4. CASE CreditCommit(p)
    <3>1. /\ at[p] \in Users /\ pc[p] = "book"
          /\ balance' = [balance EXCEPT ![at[p]] = sawAmount[p] + SeedAmount]
          /\ markers' = [markers EXCEPT ![at[p]] = @ + 1]
          /\ sawAmount' = [sawAmount EXCEPT ![p] = 0]
      BY <2>4 DEF CreditCommit, TypeOK, UserStages
    <3>2. /\ Worth(at[p]) \in Nat /\ sawAmount[p] <= Worth(at[p])
          /\ markers'[at[p]] * SeedAmount = Worth(at[p]) + SeedAmount
      BY <3>1, OneMore DEF WorthInv, Worth, TypeOK
    <3>3. ASSUME NEW u \in Users PROVE Worth(u)' >= Worth(u) /\ balance'[u] <= Worth(u)'
      <4>1. CASE u = at[p]
        BY <3>1, <3>2, <4>1, StartAssumption DEF Worth, TypeOK
      <4>2. CASE u # at[p]
        <5>1. markers'[u] = markers[u] /\ balance'[u] = balance[u] /\ Worth(u) \in Nat
          BY <3>1, <4>2, OneMore DEF Worth, TypeOK
        <5> QED
          BY <5>1 DEF WorthInv, Worth
      <4> QED
        BY <4>1, <4>2
    <3>4. pc'[p] # "book"
      BY <2>4, NextRound, ToUserMoves DEF CreditCommit, UserStages
    <3>5. ASSUME NEW q \in Starters, q # p, pc[q] = "book"
          PROVE  sawAmount'[q] <= Worth(at[q])'
      <4>1. /\ at[q] \in Users /\ sawAmount'[q] = sawAmount[q] /\ sawAmount[q] \in Nat
            /\ sawAmount[q] <= Worth(at[q])
        BY <3>1, <3>5 DEF TypeOK, UserStages, WorthInv
      <4>2. Worth(at[q]) \in Nat /\ markers'[at[q]] * SeedAmount \in Nat
        BY <3>1, <4>1, OneMore DEF Worth, TypeOK
      <4>3. markers'[at[q]] * SeedAmount >= Worth(at[q])
        <5>1. CASE at[q] = at[p]
          BY <3>2, <4>2, <5>1, StartAssumption
        <5>2. CASE at[q] # at[p]
          BY <3>1, <4>1, <4>2, <5>2 DEF Worth, TypeOK
        <5> QED
          BY <5>1, <5>2
      <4>4. sawAmount'[q] <= markers'[at[q]] * SeedAmount
        BY <4>1, <4>2, <4>3
      <4>5. at'[q] = at[q]
        BY <2>1, <3>5
      <4> QED
        BY <4>4, <4>5 DEF Worth
    <3> QED
      BY <2>1, <3>3, <3>4, <3>5 DEF WorthInv, Worth
  <2>5. ASSUME ~UserInsert(p), ~CreditRead(p), ~CreditCommit(p) PROVE WorthInv'
    <3>3. 1 \in Nat \ {0} /\ (pc[p] \in UserStages \cup ModelStages => at[p] + 1 \in Nat \ {0})
      BY NextRound
    <3>4. UNCHANGED <<balance, markers>> /\ \A q \in Starters \ {p} : sawAmount'[q] = sawAmount[q]
      BY <1>2, <2>5
      DEF InitializeStep, SchemaLook, SchemaCreate, UserLook, CreateUserLook, MarkerLook,
          ModelLook, ModelUpdate, CreateModelLook, ModelInsert, EnsureRead, ResetCommit,
          Stop, TypeOK
    <3>5. ASSUME \E n \in Nat \ {0} : ToUser(p, n) \/ ToModel(p, n) PROVE pc'[p] # "book"
      BY <3>5, ToUserMoves, ToModelMoves
    <3>6. ASSUME Stop(p, "failed") PROVE pc'[p] # "book"
      BY <3>6 DEF Stop, Goto, TypeOK
    <3>7. ASSUME NEW label \in StartStages \ {"book"}, Goto(p, label) PROVE pc'[p] # "book"
      BY <3>7 DEF Goto, TypeOK
    <3>8. ASSUME \/ SchemaLook(p) \/ SchemaCreate(p) \/ UserLook(p) \/ CreateUserLook(p)
                 \/ MarkerLook(p)
          PROVE  pc'[p] # "book"
      BY <3>3, <3>5, <3>6, <3>7, <3>8
      DEF SchemaLook, SchemaCreate, UserLook, CreateUserLook, MarkerLook, StartStages, UserStages
    <3>9. ASSUME \/ ModelLook(p) \/ ModelUpdate(p) \/ CreateModelLook(p) \/ ModelInsert(p)
                 \/ EnsureRead(p) \/ ResetCommit(p)
          PROVE  pc'[p] # "book"
      BY <3>3, <3>5, <3>6, <3>7, <3>9
      DEF ModelLook, ModelUpdate, CreateModelLook, ModelInsert, EnsureRead, ResetCommit,
          StartStages, ModelStages
    <3> QED
      BY <1>1, <1>2, <2>1, <2>5, <3>4, <3>8, <3>9 DEF InitializeStep
  <2> QED
    BY <2>2, <2>3, <2>4, <2>5
<1>3. ASSUME NEW p \in Starters, Start(p) \/ Crash(p) PROVE WorthInv'
  BY <1>1, <1>3 DEF Start, Crash, Stop, Goto, TypeOK
<1>4. CASE UNCHANGED <<balance, markers, pc, at, sawAmount>>
  BY <1>1, <1>4
<1> QED
  BY <1>2, <1>3, <1>4 DEF Next, Activate, vars

(* Whoever dies between the user and its credit, and whoever overwrites    *)
(* whose credit: the marker is there exactly when the amount is.           *)
THEOREM MarkersMeanCredit == Spec => []MarkerMeansCredit
<1>1. Init => WorthInv
  BY OneMore DEF Init, WorthInv, Worth
<1>2. TypeOK /\ SeedInv /\ WorthInv => MarkerMeansCredit
  <2> SUFFICES ASSUME TypeOK, SeedInv, WorthInv, NEW u \in Users
               PROVE  /\ markers[u] > 0 <=> balance[u] >= SeedAmount
                      /\ balance[u] <= markers[u] * SeedAmount
    BY DEF MarkerMeansCredit
  <2>1. markers[u] > 0 => balance[u] >= SeedAmount
    BY DEF SeedInv, Credited
  <2>2. balance[u] <= markers[u] * SeedAmount
    BY DEF WorthInv, Worth
  <2>3. ~(markers[u] > 0) => markers[u] * SeedAmount = 0
    BY OneMore DEF TypeOK
  <2>4. SeedAmount > 0 /\ balance[u] \in Nat /\ SeedAmount \in Nat
    BY StartAssumption DEF TypeOK
  <2>5. ASSUME ~(markers[u] > 0) PROVE ~(balance[u] >= SeedAmount)
    BY <2>2, <2>3, <2>4, <2>5
  <2> QED
    BY <2>1, <2>2, <2>5
<1>3. TypeOK /\ SeedInv /\ WorthInv /\ [Next]_vars => WorthInv'
  BY WorthStep
<1> QED
  BY <1>1, <1>2, <1>3, SeedInvariant, PTL DEF Spec

-----------------------------------------------------------------------------
(* One local model is active.  Until requests cross, the local rows are as *)
(* the seeds have them, or all there with one of them active; the session  *)
(* of a request has read what the table still holds; and no process finds  *)
(* anything to reset.                                                      *)

AllRows == \A m \in Models : catalog[m] # "absent"

AsSeeded == \A m \in Local : catalog[m] \in {"absent", SeedState(m)}

SessionsCurrent ==
    \A a \in Admins :
        /\ stage[a] = "pull" => seen[a][choice[a]] = catalog[choice[a]]
        /\ stage[a] = "commit" => \A m \in Local : seen[a][m] = catalog[m]

RequestsNeedRows == \A a \in Admins : stage[a] # "idle" => AllRows

ActiveInv ==
    /\ RequestsNeedRows
    /\ ~crossed =>
          /\ AsSeeded \/ (AllRows /\ ExactlyOne(catalog))
          /\ \A a, b \in Admins : stage[a] # "idle" /\ stage[b] # "idle" => a = b
          /\ SessionsCurrent
          /\ \A p \in Starters : pc[p] # "reset"

(* Seeded rows have one active local model, the default.                   *)
LEMMA SeedsHaveOne == AsSeeded /\ AllRows => ExactlyOne(catalog)
<1> SUFFICES ASSUME AsSeeded, AllRows PROVE ExactlyOne(catalog)
  OBVIOUS
<1>1. \A m \in Local : SeedState(m) = "active" <=> m = Default
  BY ModelAssumption DEF SeedState
<1>2. \A m \in Local : catalog[m] = SeedState(m)
  BY ModelAssumption DEF AsSeeded, AllRows
<1>3. \A m \in Local : catalog[m] = "active" <=> m = Default
  BY <1>1, <1>2
<1> QED
  BY <1>3, ModelAssumption DEF ExactlyOne

(* A flush by a session that had read what is there selects one model.     *)
LEMMA FlushSelectsOne ==
    ASSUME NEW m \in Local, NEW rows, AllRows, \A n \in Local : rows[n] = catalog[n],
           catalog' = FlushSelected(m, rows)
    PROVE  ExactlyOne(catalog')
<1>1. ASSUME NEW n \in Local PROVE catalog'[n] = IF n = m THEN "active" ELSE "inactive"
  <2>1. n \in Models /\ rows[n] = catalog[n] /\ catalog[n] # "absent"
    BY ModelAssumption DEF AllRows
  <2>2. Selected(m, rows)[n] = IF n = m THEN "active" ELSE "inactive"
    BY <2>1 DEF Selected
  <2> QED
    BY <2>1, <2>2 DEF FlushSelected
<1>2. \A n \in Local : catalog'[n] = "active" <=> n = m
  BY <1>1
<1> QED
  BY <1>2 DEF ExactlyOne

(* Once all rows are there they stay.                                      *)
LEMMA RowsStay == AllRows /\ Grows => AllRows'
BY DEF AllRows, Grows

(* The steps of a request.                                                 *)
LEMMA ActiveRequest ==
    ASSUME TypeOK, SeedInv, ActiveInv, Grows, NEW a \in Admins, Activate(a)
    PROVE  ActiveInv'
<1>1. AllRows /\ AllRows'
  <2>1. pc[App] = "up" /\ App \in Starters
    BY StartAssumption DEF Activate
  <2>2. AllRows
    BY <2>1 DEF SeedInv, Behind, PassedModel, AllRows
  <2> QED
    BY <2>2, RowsStay
<1>2. RequestsNeedRows'
  BY <1>1 DEF RequestsNeedRows
<1>3. CASE crossed'
  BY <1>2, <1>3 DEF ActiveInv
<1>4. CASE ~crossed'
  <2>1. ~crossed
    BY <1>4 DEF Activate, ActivationStep, PickRead, PullFails, CatalogRead, ActivateCommit,
                TypeOK, CatalogTypeOK
  <2>2. /\ \A c, b \in Admins : stage[c] # "idle" /\ stage[b] # "idle" => c = b
        /\ SessionsCurrent
        /\ \A p \in Starters : pc'[p] # "reset"
    BY <2>1 DEF ActiveInv, Activate
  <2>3. ExactlyOne(catalog)
    BY <1>1, <2>1, SeedsHaveOne DEF ActiveInv
  <2>4. ASSUME NEW m \in Local, PickRead(a, m) PROVE ActiveInv'
    <3>1. UNCHANGED catalog /\ \A b \in Admins : stage[b] = "idle"
      BY <1>4, <2>4 DEF PickRead, TypeOK, CatalogTypeOK
    <3>2. /\ stage' = [stage EXCEPT ![a] = "pull"]
          /\ \A b \in Admins : stage'[b] # "idle" => b = a
      BY <2>4, <3>1 DEF PickRead, TypeOK, CatalogTypeOK
    <3>3. stage'[a] = "pull" /\ seen'[a][choice'[a]] = catalog'[choice'[a]]
      BY <2>4, <3>1, ModelAssumption DEF PickRead, TypeOK, CatalogTypeOK, NoRows
    <3>4. SessionsCurrent'
      BY <3>2, <3>3 DEF SessionsCurrent
    <3> QED
      BY <1>1, <1>2, <2>2, <2>3, <3>1, <3>2, <3>4 DEF ActiveInv
  <2>5. ASSUME CatalogRead(a) PROVE ActiveInv'
    <3>1. /\ UNCHANGED <<catalog, choice>> /\ stage[a] = "pull"
          /\ stage' = [stage EXCEPT ![a] = "commit"]
          /\ \A b \in Admins : stage'[b] # "idle" => b = a
      BY <2>2, <2>5 DEF CatalogRead, TypeOK, CatalogTypeOK
    <3>2. stage'[a] = "commit" /\ \A m \in Local : seen'[a][m] = catalog[m]
      BY <2>2, <2>5, <3>1, ModelAssumption DEF CatalogRead, SessionsCurrent, TypeOK, CatalogTypeOK
    <3>3. SessionsCurrent'
      BY <3>1, <3>2 DEF SessionsCurrent
    <3> QED
      BY <1>1, <1>2, <2>2, <2>3, <3>1, <3>3 DEF ActiveInv
  <2>6. ASSUME stage' = [stage EXCEPT ![a] = "idle"], stage[a] # "idle", ExactlyOne(catalog')
        PROVE  ActiveInv'
    <3>1. \A b \in Admins : stage'[b] = "idle"
      BY <2>2, <2>6 DEF TypeOK, CatalogTypeOK
    <3> QED
      BY <1>1, <1>2, <2>2, <2>6, <3>1 DEF ActiveInv, SessionsCurrent
  <2>7. ASSUME PullFails(a) PROVE ActiveInv'
    BY <2>3, <2>6, <2>7 DEF PullFails, CloseRequest, TypeOK, CatalogTypeOK
  <2>8. ASSUME ActivateCommit(a) PROVE ActiveInv'
    <3>1. /\ choice[a] \in Local
          /\ \A m \in Local : seen[a][m] = catalog[m]
          /\ catalog' = FlushSelected(choice[a], seen[a])
      BY <2>2, <2>8 DEF ActivateCommit, SessionsCurrent, TypeOK, CatalogTypeOK
    <3>2. ExactlyOne(catalog')
      BY <1>1, <3>1, FlushSelectsOne
    <3> QED
      BY <2>6, <2>8, <3>2 DEF ActivateCommit, CloseRequest, TypeOK, CatalogTypeOK
  <2> QED
    BY <2>4, <2>5, <2>7, <2>8 DEF Activate, ActivationStep
<1> QED
  BY <1>3, <1>4

(* The local rows are touched only by an insert, while one is missing, and *)
(* by a reset, which needs crossed requests.                               *)
LEMMA ActiveInitialize ==
    ASSUME TypeOK, SeedInv, ActiveInv, Grows, NEW p \in Starters, InitializeStep(p)
    PROVE  ActiveInv'
<1> USE DEF localVars, seedVars, requestVars, catalogVars
<1>1. UNCHANGED requestVars
  BY DEF InitializeStep, SchemaLook, SchemaCreate, UserLook, CreateUserLook, UserInsert,
         MarkerLook, CreditRead, CreditCommit, ModelLook, ModelUpdate, CreateModelLook,
         ModelInsert, EnsureRead, ResetCommit
<1>2. RequestsNeedRows'
  BY <1>1, RowsStay DEF ActiveInv, RequestsNeedRows
<1>3. CASE crossed
  BY <1>1, <1>2, <1>3 DEF ActiveInv
<1>4. CASE ~crossed
  <2>1. /\ AsSeeded \/ (AllRows /\ ExactlyOne(catalog))
        /\ \A a, b \in Admins : stage[a] # "idle" /\ stage[b] # "idle" => a = b
        /\ SessionsCurrent
        /\ \A q \in Starters : pc[q] # "reset"
    BY <1>4 DEF ActiveInv
  <2>2. \A q \in Starters \ {p} : pc'[q] # "reset"
    BY <2>1, OneMoves
  <2>3. pc'[p] # "reset"
    <3>1. CASE EnsureRead(p)
      <4>1. AllRows
        BY <3>1 DEF EnsureRead, SeedInv, Behind, PassedModel, AllRows
      <4>2. ExactlyOne(catalog)
        BY <2>1, <4>1, SeedsHaveOne
      <4> QED
        BY <3>1, <4>2 DEF EnsureRead, Goto, TypeOK
    <3>2. CASE \E n \in Nat \ {0} : ToUser(p, n) \/ ToModel(p, n)
      BY <3>2, ToUserMoves, ToModelMoves
    <3>3. CASE Stop(p, "failed")
      BY <3>3 DEF Stop, Goto, TypeOK
    <3>4. CASE \E label \in UserStages \cup ModelStages \cup {"create"} : Goto(p, label)
      BY <3>4 DEF Goto, TypeOK, UserStages, ModelStages
    <3>5. 1 \in Nat \ {0} /\ (pc[p] \in UserStages \cup ModelStages => at[p] + 1 \in Nat \ {0})
      BY NextRound
    <3>6. ASSUME SchemaLook(p) \/ SchemaCreate(p) \/ UserLook(p) \/ CreateUserLook(p)
          PROVE  pc'[p] # "reset"
      BY <3>2, <3>3, <3>4, <3>5, <3>6
      DEF SchemaLook, SchemaCreate, UserLook, CreateUserLook, UserStages
    <3>7. ASSUME UserInsert(p) \/ MarkerLook(p) \/ CreditRead(p) \/ CreditCommit(p)
          PROVE  pc'[p] # "reset"
      BY <3>2, <3>3, <3>4, <3>5, <3>7
      DEF UserInsert, MarkerLook, CreditRead, CreditCommit, UserStages
    <3>8. ASSUME ModelLook(p) \/ ModelUpdate(p) \/ CreateModelLook(p) \/ ModelInsert(p)
          PROVE  pc'[p] # "reset"
      BY <3>2, <3>3, <3>4, <3>5, <3>8
      DEF ModelLook, ModelUpdate, CreateModelLook, ModelInsert, ModelStages
    <3> QED
      BY <2>1, <3>1, <3>6, <3>7, <3>8 DEF InitializeStep, ResetCommit
  <2>4. ASSUME UNCHANGED catalog \/ \A m \in Local : catalog'[m] = catalog[m] PROVE ActiveInv'
    <3>1. \A m \in Local : catalog'[m] = catalog[m]
      BY <2>4
    <3>2. AsSeeded => AsSeeded'
      BY <3>1 DEF AsSeeded
    <3>3. AllRows => AllRows'
      BY RowsStay
    <3>4. ExactlyOne(catalog) => ExactlyOne(catalog')
      BY <3>1 DEF ExactlyOne
    <3>5. SessionsCurrent'
      BY <1>1, <2>1, <3>1 DEF SessionsCurrent, TypeOK, CatalogTypeOK
    <3> QED
      BY <1>1, <1>2, <1>4, <2>1, <2>2, <2>3, <3>2, <3>3, <3>4, <3>5 DEF ActiveInv
  <2>5. CASE ModelUpdate(p)
    BY <2>4, <2>5 DEF ModelUpdate, TypeOK, CatalogTypeOK
  <2>6. CASE ModelInsert(p)
    <3>1. CASE UNCHANGED catalog
      BY <2>4, <3>1
    <3>2. CASE /\ catalog[at[p]] = "absent"
               /\ catalog' = [catalog EXCEPT ![at[p]] = SeedState(at[p])]
      <4>1. at[p] \in Models
        BY <2>6 DEF ModelInsert, TypeOK, ModelStages
      <4>2. ~AllRows
        BY <3>2, <4>1 DEF AllRows
      <4>3. AsSeeded'
        BY <2>1, <3>2, <4>2 DEF AsSeeded, TypeOK, CatalogTypeOK
      <4>4. \A a \in Admins : stage[a] = "idle"
        BY <4>2 DEF ActiveInv, RequestsNeedRows
      <4>5. SessionsCurrent'
        BY <1>1, <4>4 DEF SessionsCurrent
      <4> QED
        BY <1>1, <1>2, <1>4, <2>1, <2>2, <2>3, <4>3, <4>5 DEF ActiveInv
    <3> QED
      BY <2>6, <3>1, <3>2 DEF ModelInsert
  <2>7. ASSUME \/ SchemaLook(p) \/ SchemaCreate(p) \/ UserLook(p) \/ CreateUserLook(p)
               \/ UserInsert(p) \/ MarkerLook(p) \/ CreditRead(p) \/ CreditCommit(p)
               \/ ModelLook(p) \/ CreateModelLook(p) \/ EnsureRead(p)
        PROVE  UNCHANGED catalog
    BY <2>7 DEF SchemaLook, SchemaCreate, UserLook, CreateUserLook, UserInsert, MarkerLook,
                CreditRead, CreditCommit, ModelLook, CreateModelLook, EnsureRead
  <2> QED
    BY <2>1, <2>4, <2>5, <2>6, <2>7 DEF InitializeStep, ResetCommit
<1> QED
  BY <1>3, <1>4

(* Every step keeps the invariant.                                         *)
LEMMA ActiveStep == TypeOK /\ SeedInv /\ ActiveInv /\ [Next]_vars => ActiveInv'
<1> SUFFICES ASSUME TypeOK, SeedInv, ActiveInv, [Next]_vars PROVE ActiveInv'
  OBVIOUS
<1>0. Grows
  BY StepGrows
<1>1. CASE UNCHANGED <<catalogVars, pc>>
  BY <1>1 DEF ActiveInv, RequestsNeedRows, AsSeeded, AllRows, ExactlyOne, SessionsCurrent, catalogVars
<1>2. ASSUME NEW p \in Starters, Start(p) PROVE ActiveInv'
  <2>1. UNCHANGED catalogVars /\ (\A q \in Starters : pc'[q] = "reset" => pc[q] = "reset")
    BY <1>2 DEF Start, Goto, TypeOK
  <2> QED
    BY <2>1 DEF ActiveInv, RequestsNeedRows, AsSeeded, AllRows, ExactlyOne, SessionsCurrent, catalogVars
<1>3. ASSUME NEW p \in Starters, Crash(p) PROVE ActiveInv'
  <2>1. /\ UNCHANGED <<catalog, crossed>>
        /\ \A q \in Starters : pc'[q] = "reset" => pc[q] = "reset"
    BY <1>3 DEF Crash, Stop, Goto, TypeOK
  <2>2. CASE UNCHANGED requestVars
    BY <2>1, <2>2 DEF ActiveInv, RequestsNeedRows, AsSeeded, AllRows, ExactlyOne, SessionsCurrent, requestVars
  <2>3. CASE CloseRequests
    <3>1. \A a \in Admins : stage'[a] = "idle"
      BY <2>3 DEF CloseRequests
    <3> QED
      BY <2>1, <3>1 DEF ActiveInv, RequestsNeedRows, AsSeeded, AllRows, ExactlyOne, SessionsCurrent
  <2> QED
    BY <1>3, <2>2, <2>3 DEF Crash
<1> QED
  BY <1>0, <1>1, <1>2, <1>3, ActiveRequest, ActiveInitialize DEF Next, vars, catalogVars

(* Before the first start there are no rows and no requests.               *)
LEMMA ActiveInit == Init => ActiveInv
BY ModelAssumption
DEF Init, CatalogInit, ActiveInv, RequestsNeedRows, AsSeeded, SessionsCurrent, NoRows

(* The three invariants hold together.                                     *)
LEMMA ActiveInvariant == Spec => [](TypeOK /\ SeedInv /\ ActiveInv)
<1>1. TypeOK /\ SeedInv /\ ActiveInv /\ [Next]_vars => (TypeOK /\ SeedInv /\ ActiveInv)'
  BY TypeStep, SeedStep, ActiveStep
<1> QED
  BY <1>1, TypeInit, SeedInit, ActiveInit, PTL DEF Spec

(* As long as no two activation requests are in progress at once, exactly  *)
(* one local model is active whenever a process serves.                    *)
THEOREM OneIsActive == Spec => []SingleUnlessCrossed
<1>1. SeedInv /\ ActiveInv => SingleUnlessCrossed
  <2> SUFFICES ASSUME SeedInv, ActiveInv, ~crossed, SomeoneUp PROVE ExactlyOne(catalog)
    BY DEF SingleUnlessCrossed, SingleActive
  <2>1. AllRows
    BY DEF SeedInv, Behind, PassedModel, SomeoneUp, AllRows
  <2> QED
    BY <2>1, SeedsHaveOne DEF ActiveInv
<1> QED
  BY <1>1, ActiveInvariant, PTL

(* As long as no two activation requests are in progress at once, a        *)
(* process that starts leaves the administrator's choice as it is.         *)
THEOREM StartsKeepChoice == Spec => ChoiceSurvivesStart
<1>1. TypeOK /\ ActiveInv /\ [Next]_vars =>
          [\A p \in Starters : ~crossed /\ pc'[p] # pc[p] =>
              \A m \in Local : catalog[m] = "active" => catalog'[m] = "active"]_vars
  <2> SUFFICES ASSUME TypeOK, ActiveInv, [Next]_vars, ~crossed,
                      NEW p \in Starters, pc'[p] # pc[p],
                      NEW m \in Local, catalog[m] = "active"
               PROVE  catalog'[m] = "active"
    OBVIOUS
  <2>1. ASSUME NEW q \in Starters, ModelInsert(q) PROVE catalog'[m] = "active"
    <3>1. CASE UNCHANGED catalog
      BY <3>1
    <3>2. CASE /\ catalog[at[q]] = "absent"
               /\ catalog' = [catalog EXCEPT ![at[q]] = SeedState(at[q])]
      BY <3>2, ModelAssumption DEF TypeOK, CatalogTypeOK
    <3> QED
      BY <2>1, <3>1, <3>2 DEF ModelInsert
  <2>2. ASSUME NEW q \in Starters, ModelUpdate(q) PROVE catalog'[m] = "active"
    BY <2>2 DEF ModelUpdate, TypeOK, CatalogTypeOK
  <2>3. ASSUME NEW q \in Starters,
               \/ Start(q) \/ Crash(q) \/ SchemaLook(q) \/ SchemaCreate(q) \/ UserLook(q)
               \/ CreateUserLook(q) \/ UserInsert(q) \/ MarkerLook(q) \/ CreditRead(q)
               \/ CreditCommit(q) \/ ModelLook(q) \/ CreateModelLook(q) \/ EnsureRead(q)
        PROVE  UNCHANGED catalog
    BY <2>3 DEF Start, Crash, SchemaLook, SchemaCreate, UserLook, CreateUserLook, UserInsert,
                MarkerLook, CreditRead, CreditCommit, ModelLook, CreateModelLook, EnsureRead,
                catalogVars
  <2>4. ASSUME NEW q \in Starters PROVE ~ResetCommit(q)
    BY DEF ActiveInv, ResetCommit
  <2> QED
    BY <2>1, <2>2, <2>3, <2>4 DEF Next, InitializeStep, Activate, vars
<1> QED
  BY <1>1, ActiveInvariant, PTL DEF Spec, ChoiceSurvivesStart
=============================================================================
