----------------------------- MODULE Evaluator -----------------------------
(***************************************************************************)
(* JsonActionEvaluator (evaluator/json_action.py) and extract_action       *)
(* (pipeline.py), over what they can tell apart in the text of a model's   *)
(* answer once an optional code fence is stripped: nothing at all, text    *)
(* that is not JSON, JSON without a value under the compared key (null and *)
(* values that are no object included), or JSON with an action.            *)
(* extract_action always looks under "action"; so does the evaluator here, *)
(* as in the shipped configuration (compare_key: "action").                *)
(***************************************************************************)
EXTENDS Integers

CONSTANTS Actions,       \* the action strings, as models write them
          None,          \* Python's None
          NormalForm,    \* NormalForm[a]: str(a).strip().lower()
          RequireJson    \* evaluator.require_json

Unparsable == {"blank", "garbage"}

Text == Actions \cup Unparsable \cup {"nokey"}

ASSUME EvaluatorAssumption ==
    /\ None \notin Actions
    /\ Actions \cap {"blank", "garbage", "nokey"} = {}
    /\ NormalForm \in [Actions -> Actions]
    /\ RequireJson \in BOOLEAN

Judgements == {"match", "mismatch", "invalid_json"}

Result == [verdict : Judgements, action : Actions \cup {None}]

(* extract_action(), and _get_key() after _parse() for the evaluator.      *)
ActionOf(text) == IF text \in Actions THEN text ELSE None

(* A slip: the actions are compared before they are normalised.            *)
SameRawAction(a, b) == a # None /\ a = b

SameAction(a, b) == /\ a # None
                    /\ b # None
                    /\ NormalForm[a] = NormalForm[b]

(* evaluate(): verdict and candidate_action of the EvaluationResult.       *)
Evaluate(primary, candidate) ==
    IF RequireJson /\ {primary, candidate} \cap Unparsable # {}
    THEN [verdict |-> "invalid_json", action |-> None]
    ELSE [verdict |-> IF SameAction(ActionOf(primary), ActionOf(candidate))
                      THEN "match" ELSE "mismatch",
          action  |-> ActionOf(candidate)]
=============================================================================
