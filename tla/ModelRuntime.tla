---------------------------- MODULE ModelRuntime ----------------------------
(***************************************************************************)
(* What a model runtime's answer becomes (model_runtime.py): a prediction, *)
(* or an exception.  The two clients differ in where they look for the     *)
(* text; every failure on the way, of whatever class, is an exception that *)
(* ends the loop over the records of the task (worker.py).                 *)
(*                                                                         *)
(* Confidences are in per cent.  json.loads reads the literal NaN, so that *)
(* a number may be one; it compares with nothing.                          *)
(***************************************************************************)
EXTENDS Integers

CONSTANTS
    NaN,        \* the float that json.loads makes of the literal NaN
    NotNumber   \* a confidence that is a boolean, no number, or not there

ASSUME NumberAssumption == NaN \notin Int /\ NotNumber \notin Int /\ NaN # NotNumber

Clients    == {"ollama", "openai"}
Priorities == {"low", "medium", "high"}

(* How the exchange over HTTP ends: no answer in time, an error status, a  *)
(* body that is not JSON, or a JSON value.  hollow names the parts of the  *)
(* body that are missing or of another type; content is what the text in   *)
(* it is.  A priority is a word, stripped and in lower case, or "other".   *)
Reply == [http : {"network", "status", "notJson", "json"},
          hollow : SUBSET {"body", "choices", "choice", "message", "content"},
          content : {"notJson", "deep", "notObject", "object"},
          priority : Priorities \cup {"other", "missing"},
          confidence : Int \cup {NaN, NotNumber},
          reason : {"text", "none", "other"}]

(* A confidence that parse_prediction_content lets pass.                   *)
Confidences == (0..100) \cup {NaN}

-----------------------------------------------------------------------------
(* The parts of the body between it and the text, for each client.         *)
Path(client) ==
    {"body", "message", "content"}
        \cup (IF client = "openai" THEN {"choices", "choice"} ELSE {})

(* predict_priority and _chat: does the client get at a text?              *)
HasContent(client, r) == r.http = "json" /\ r.hollow \cap Path(client) = {}

Exceeds(x, y) == x # NaN /\ x > y
Below(x, y)   == x # NaN /\ x < y

(* Mutant: the range of the confidence is not tested.                      *)
Parsed_AnyConfidence(r) ==
    /\ r.content = "object"
    /\ r.priority \in Priorities
    /\ r.confidence # NotNumber
    /\ r.reason # "other"

(* Mutant: any word is a priority.                                         *)
Parsed_AnyPriority(r) ==
    /\ r.content = "object"
    /\ r.priority # "missing"
    /\ r.confidence # NotNumber
    /\ ~Below(r.confidence, 0) /\ ~Exceeds(r.confidence, 100)
    /\ r.reason # "other"

(* parse_prediction_content does not raise.                                *)
Parsed(r) ==
    /\ r.content = "object"
    /\ r.priority \in Priorities
    /\ r.confidence # NotNumber
    /\ ~Below(r.confidence, 0) /\ ~Exceeds(r.confidence, 100)
    /\ r.reason # "other"

Predicts(client, r) == HasContent(client, r) /\ Parsed(r)
=============================================================================
