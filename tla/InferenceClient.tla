-------------------------- MODULE InferenceClient --------------------------
(***************************************************************************)
(* DOInferenceClient.chat_completions() (llm/do_inference.py): the retry   *)
(* loop of a call, and the connection pools of the two clients that the    *)
(* lifespan creates, one for the primary and one for the candidate.        *)
(*                                                                         *)
(* The model service and httpx are the environment: a request is answered, *)
(* times out, or fails in transport; a call that finds its client's pool   *)
(* full waits, and may time out there as well (httpx.PoolTimeout).         *)
(* Connections are held from connect to the end of the body; idle          *)
(* keep-alive connections are not counted.                                 *)
(***************************************************************************)
EXTENDS Integers, Sequences, FiniteSets

CONSTANTS
    Calls, Side,       \* Side[c]: the side of the proxy that makes call c
    MaxRetries,        \* MaxRetries[s]: routes.default.<s>.max_retries, any int
    PoolSize,          \* httpx.Limits.max_connections of one client
    Statuses           \* HTTP statuses that the service may answer with

Sides == {"primary", "candidate"}

ASSUME ClientAssumption ==
    /\ Side \in [Calls -> Sides]
    /\ MaxRetries \in [Sides -> Int]
    /\ PoolSize \in Nat \ {0}
    /\ Statuses \subseteq 200 .. 599

VARIABLES
    pc,         \* pc[c]: where call c is
    tries,      \* tries[c]: what each turn of the loop met; its length is
                \* the loop variable "attempt" until the turn has ended
    outcome     \* outcome[c]: how chat_completions() returned

vars == <<pc, tries, outcome>>

-----------------------------------------------------------------------------
(* Bodies below 400: one that _to_chat_response() accepts, one it answers  *)
(* with LLMCallError, and one that makes json() or the conversion raise    *)
(* something else (not JSON, "message": null).                             *)
Bodies == {"completion", "malformed", "unreadable"}

Answers == [status : Statuses, body : Bodies \cup {"error"}]

(* A turn of the loop without an answer.                                   *)
NoAnswer(why) == [status |-> 0, body |-> why]
Tries == Answers \cup {NoAnswer(w) : w \in {"timeout", "pool_timeout", "transport"}}

PCs == {"new", "waiting", "posted", "backoff", "over"}

Kinds == {"none", "answered", "timeout", "error", "raised", "assertion"}

(* status is LLMCallError.status_code, 0 for None.                         *)
Outcomes == [kind : Kinds, status : Statuses \cup {0}]

Ends(kind, status) == [kind |-> kind, status |-> status]

(* max(0, max_retries) of the constructor, + 1 of the loop.                *)
Attempts(s) == IF MaxRetries[s] > 0 THEN MaxRetries[s] + 1 ELSE 1

TypeOK ==
    /\ pc \in [Calls -> PCs]
    /\ tries \in [Calls -> Seq(Tries)]
    /\ \A c \in Calls : Len(tries[c]) <= Attempts(Side[c])
    /\ outcome \in [Calls -> Outcomes]

Init ==
    /\ pc = [c \in Calls |-> "new"]
    /\ tries = [c \in Calls |-> <<>>]
    /\ outcome = [c \in Calls |-> Ends("none", 0)]

(* A slip: attempt < attempts.                                             *)
MayRetryOnceMore(c) == Len(tries[c]) < Attempts(Side[c])

(* attempt < attempts - 1                                                  *)
MayRetry(c) == Len(tries[c]) < Attempts(Side[c]) - 1

(* A slip: both sides share one client.                                    *)
ClientShared(c) == "primary"

(* Which of the two httpx clients makes call c.                            *)
ClientOf(c) == Side[c]

Connected(client) == {c \in Calls : pc[c] = "posted" /\ ClientOf(c) = client}

PoolFull(client) == Cardinality(Connected(client)) >= PoolSize

(* The turn ended in t and another one follows after a pause.              *)
TryAgain(c, t) ==
    /\ tries' = [tries EXCEPT ![c] = Append(@, t)]
    /\ pc' = [pc EXCEPT ![c] = "backoff"]
    /\ UNCHANGED outcome

(* The turn ended in t and the call with it.                               *)
Return(c, t, o) ==
    /\ tries' = [tries EXCEPT ![c] = Append(@, t)]
    /\ pc' = [pc EXCEPT ![c] = "over"]
    /\ outcome' = [outcome EXCEPT ![c] = o]

-----------------------------------------------------------------------------
(* The first turn, if range(attempts) has one; the assert behind the loop  *)
(* otherwise.                                                              *)
Start(c) ==
    /\ pc[c] = "new"
    /\ LET turns == Attempts(Side[c]) > 0
       IN  /\ pc' = [pc EXCEPT ![c] = IF turns THEN "waiting" ELSE "over"]
           /\ outcome' = [outcome EXCEPT ![c] =
                             IF turns THEN @ ELSE Ends("assertion", 0)]
    /\ UNCHANGED tries

(* post() gets a connection of its client's pool.                          *)
Connect(c) ==
    /\ pc[c] = "waiting"
    /\ ~PoolFull(ClientOf(c))
    /\ pc' = [pc EXCEPT ![c] = "posted"]
    /\ UNCHANGED <<tries, outcome>>

(* httpx.PoolTimeout is a TimeoutException like the others.                *)
PoolTimeout(c) ==
    /\ pc[c] = "waiting"
    /\ PoolFull(ClientOf(c))
    /\ Return(c, NoAnswer("pool_timeout"), Ends("timeout", 0))

TimesOut(c) ==
    /\ pc[c] = "posted"
    /\ Return(c, NoAnswer("timeout"), Ends("timeout", 0))

(* Any other httpx.HTTPError.                                              *)
TransportFails(c) ==
    /\ pc[c] = "posted"
    /\ \/ MayRetry(c) /\ TryAgain(c, NoAnswer("transport"))
       \/ ~MayRetry(c) /\ Return(c, NoAnswer("transport"), Ends("error", 0))

Retried(c, status) == status >= 500 /\ MayRetry(c)

(* An error status.                                                        *)
Rejected(c, status) ==
    /\ pc[c] = "posted"
    /\ status >= 400
    /\ LET t == [status |-> status, body |-> "error"]
       IN  \/ Retried(c, status) /\ TryAgain(c, t)
           \/ ~Retried(c, status) /\ Return(c, t, Ends("error", status))

(* A slip: a body that cannot be read counts as an empty answer.           *)
KindOfLenient(body) == IF body = "malformed" THEN "error" ELSE "answered"

KindOf(body) == IF body = "completion" THEN "answered"
                ELSE IF body = "malformed" THEN "error" ELSE "raised"

(* Any other status: the body decides.                                     *)
Replied(c, status, body) ==
    /\ pc[c] = "posted"
    /\ status < 400
    /\ Return(c, [status |-> status, body |-> body], Ends(KindOf(body), 0))

(* asyncio.sleep(0.1 * 2 ** attempt) is over.                              *)
BackoffEnds(c) ==
    /\ pc[c] = "backoff"
    /\ pc' = [pc EXCEPT ![c] = "waiting"]
    /\ UNCHANGED <<tries, outcome>>

Exchange(c) ==
    \/ TimesOut(c)
    \/ TransportFails(c)
    \/ \E status \in Statuses : Rejected(c, status)
    \/ \E status \in Statuses, body \in Bodies : Replied(c, status, body)

Step(c) == Connect(c) \/ Exchange(c) \/ BackoffEnds(c)

(* Every call has returned.                                                *)
Terminated == (\A c \in Calls : pc[c] = "over") /\ UNCHANGED vars

Next ==
    \/ \E c \in Calls : Start(c) \/ Step(c) \/ PoolTimeout(c)
    \/ Terminated

(* timeout_s bounds the phases of a request, so an exchange that the model *)
(* service does not stretch on purpose ends.  Nothing of the kind is       *)
(* assumed of the candidate, nor that a wait for a connection times out.   *)
Fairness == \A c \in Calls : Side[c] = "primary" => WF_vars(Step(c))

Spec == Init /\ [][Next]_vars /\ Fairness

-----------------------------------------------------------------------------
(* What POST /v1/chat answers after run_primary(), 500 for what it does    *)
(* not catch.                                                              *)
ChatStatus(o) ==
    IF o.kind = "answered" THEN 200
    ELSE IF o.kind = "timeout" THEN 504
    ELSE IF o.kind = "error" THEN IF o.status \in {401, 403} THEN o.status ELSE 502
    ELSE 500

LastTry(c) == tries[c][Len(tries[c])]

(* However many attempts a call took, its client is told about the last    *)
(* one: 200 stands for a completion just received, 504 for a timeout, 401  *)
(* and 403 for a refusal of the model service, 500 for an unreadable body. *)
ChatTellsLastTry ==
    \A c \in Calls : pc[c] = "over" =>
        /\ tries[c] # <<>>
        /\ LET t == LastTry(c)
               s == ChatStatus(outcome[c])
           IN  /\ s = 200 <=> t.body = "completion"
               /\ s = 504 <=> t.body \in {"timeout", "pool_timeout"}
               /\ s = 500 <=> t.body = "unreadable"
               /\ s \in {401, 403} <=> t.status \in {401, 403} /\ t.body = "error"

(* A primary call ends although the candidate's answers may never come and *)
(* although no wait for a connection need ever time out.                   *)
PrimaryEnds == \A c \in Calls : Side[c] = "primary" =>
                   (pc[c] = "waiting" ~> pc[c] = "over")

(* The turns of a call that got as far as a request.                       *)
Sent(s) == {n \in DOMAIN s : s[n].body # "pool_timeout"}

SentBy(c) == Cardinality(Sent(tries[c])) + (IF pc[c] = "posted" THEN 1 ELSE 0)

StageOf(c) == IF pc[c] = "new" THEN "idle" ELSE IF pc[c] = "over" THEN "over" ELSE "open"

(* The loop implements the call that run_primary() and the candidate       *)
(* handler are written against.                                            *)
Call == INSTANCE ModelCall WITH
    Budget <- [c \in Calls |-> Attempts(Side[c])],
    stage  <- [c \in Calls |-> StageOf(c)],
    sent   <- [c \in Calls |-> SentBy(c)],
    result <- [c \in Calls |-> outcome[c].kind]

ImplementsModelCall == Call!Spec
=============================================================================
