---------------------------- MODULE ModelCatalog ----------------------------
(***************************************************************************)
(* The rows of ml_models and the administrator's request that pulls one    *)
(* local model into the runtime and makes it the active one                *)
(* (routers/admin.py, MLModelService of services.py).  The request uses    *)
(* one session: a row stays in it as it was first read, and a commit       *)
(* writes only the columns that the session changed.                       *)
(*                                                                         *)
(* A model is its position in MODEL_SEEDS (model_catalog.py).              *)
(***************************************************************************)
EXTENDS Integers

CONSTANTS
    NumModels,   \* length of MODEL_SEEDS
    Local,       \* the seeds with version OLLAMA_MODEL_VERSION
    Default,     \* DEFAULT_MODEL_NAME
    SeedActive,  \* the seeds with is_active=True
    Admins       \* administrators' requests that may be in progress at once

Models == 1..NumModels

ASSUME ModelAssumption ==
    /\ NumModels \in Nat
    /\ Local \subseteq Models
    /\ SeedActive \subseteq Models
    /\ Default \in Local
    /\ SeedActive \cap Local = {Default}

RowStates == {"absent", "inactive", "active"}

VARIABLES
    catalog,   \* table ml_models: is_active of each row, or no row
    stage,     \* where each activation request is
    choice,    \* the model it activates
    seen,      \* the rows in its session, as they were first read
    crossed    \* history: has a request ever begun while another was in progress?

catalogVars == <<catalog, stage, choice, seen, crossed>>
requestVars == <<stage, choice, seen, crossed>>

NoRows == [m \in Models |-> "absent"]

CatalogTypeOK ==
    /\ catalog \in [Models -> RowStates]
    /\ stage \in [Admins -> {"idle", "pull", "commit"}]
    /\ choice \in [Admins -> Local]
    /\ seen \in [Admins -> [Models -> RowStates]]
    /\ crossed \in BOOLEAN

CatalogInit ==
    /\ catalog = NoRows
    /\ stage = [a \in Admins |-> "idle"]
    /\ choice = [a \in Admins |-> Default]
    /\ seen = [a \in Admins |-> NoRows]
    /\ crossed = FALSE

-----------------------------------------------------------------------------
SeedState(m) == IF m \in SeedActive THEN "active" ELSE "inactive"

(* is_active of the local models after `model.is_active = model.name == m`. *)
Selected(m, rows) ==
    [n \in Local |-> IF rows[n] = "absent" THEN "absent"
                     ELSE IF n = m THEN "active" ELSE "inactive"]

(* What the rows hold after that is flushed by a session that had read     *)
(* them as rows: only is_active of a row that changed is in the UPDATE.    *)
FlushSelected(m, rows) ==
    [n \in Models |-> IF n \in Local /\ Selected(m, rows)[n] # rows[n]
                      THEN Selected(m, rows)[n]
                      ELSE catalog[n]]

ExactlyOne(rows) == \E m \in Local : \A n \in Local : rows[n] = "active" <=> n = m

(* The request is answered and its session closed.                         *)
CloseRequest(a) ==
    /\ stage' = [stage EXCEPT ![a] = "idle"]
    /\ choice' = [choice EXCEPT ![a] = Default]
    /\ seen' = [seen EXCEPT ![a] = NoRows]

(* The application dies with all of them.                                  *)
CloseRequests ==
    /\ stage' = [a \in Admins |-> "idle"]
    /\ choice' = [a \in Admins |-> Default]
    /\ seen' = [a \in Admins |-> NoRows]

-----------------------------------------------------------------------------
(* get_ollama_model_by_name: the chosen row is read and stays in the session. *)
PickRead(a, m) ==
    /\ stage[a] = "idle"
    /\ catalog[m] # "absent"
    /\ stage' = [stage EXCEPT ![a] = "pull"]
    /\ choice' = [choice EXCEPT ![a] = m]
    /\ seen' = [seen EXCEPT ![a] = [NoRows EXCEPT ![m] = catalog[m]]]
    /\ crossed' = (crossed \/ \E b \in Admins : stage[b] # "idle")
    /\ UNCHANGED catalog

(* The runtime is not reachable: 503 model_runtime_unavailable.            *)
PullFails(a) ==
    /\ stage[a] = "pull"
    /\ CloseRequest(a)
    /\ UNCHANGED <<catalog, crossed>>

(* pull_model has returned, minutes later perhaps.  activate_ollama_model  *)
(* reads the chosen row again, which is in the session already, and then   *)
(* all local rows.                                                         *)
CatalogRead(a) ==
    /\ stage[a] = "pull"
    /\ stage' = [stage EXCEPT ![a] = "commit"]
    /\ seen' = [seen EXCEPT ![a] =
           [m \in Models |-> IF m = choice[a] THEN seen[a][m] ELSE catalog[m]]]
    /\ UNCHANGED <<catalog, choice, crossed>>

(* Mutant: the other models stay active.                                   *)
ActivateCommit_KeepsOthers(a) ==
    /\ stage[a] = "commit"
    /\ catalog' = [catalog EXCEPT ![choice[a]] = "active"]
    /\ CloseRequest(a)
    /\ UNCHANGED crossed

ActivateCommit(a) ==
    /\ stage[a] = "commit"
    /\ catalog' = FlushSelected(choice[a], seen[a])
    /\ CloseRequest(a)
    /\ UNCHANGED crossed

ActivationStep(a) ==
    \/ \E m \in Local : PickRead(a, m)
    \/ PullFails(a)
    \/ CatalogRead(a)
    \/ ActivateCommit(a)
=============================================================================
