----------------------------- MODULE ModelCall -----------------------------
(***************************************************************************)
(* What LLMClient.chat_completions() (llm/base.py) promises its callers,   *)
(* run_primary() and CandidateHandler: a call ends once, in an answer, a   *)
(* timeout or an error, and it costs at most Budget[c] requests to the     *)
(* model service, none of them after its end.                              *)
(***************************************************************************)
EXTENDS Integers

CONSTANTS Calls,
          Budget          \* Budget[c]: requests that call c may send

VARIABLES stage,          \* stage[c]: "idle", "open" or "over"
          sent,           \* sent[c]: requests sent so far
          result          \* result[c]: how call c ended

callVars == <<stage, sent, result>>

Results == {"none", "answered", "timeout", "error", "raised"}

Init ==
    /\ stage = [c \in Calls |-> "idle"]
    /\ sent = [c \in Calls |-> 0]
    /\ result = [c \in Calls |-> "none"]

Open(c) ==
    /\ stage[c] = "idle"
    /\ stage' = [stage EXCEPT ![c] = "open"]
    /\ UNCHANGED <<sent, result>>

Send(c) ==
    /\ stage[c] = "open"
    /\ sent[c] < Budget[c]
    /\ sent' = [sent EXCEPT ![c] = @ + 1]
    /\ UNCHANGED <<stage, result>>

(* Only a wait for a connection can end a call that sent nothing.          *)
End(c, r) ==
    /\ stage[c] = "open"
    /\ r # "timeout" => sent[c] > 0
    /\ stage' = [stage EXCEPT ![c] = "over"]
    /\ result' = [result EXCEPT ![c] = r]
    /\ UNCHANGED sent

Next == \E c \in Calls :
    \/ Open(c)
    \/ Send(c)
    \/ \E r \in Results \ {"none"} : End(c, r)

Spec == Init /\ [][Next]_callVars
=============================================================================
