---------------------------- MODULE ShadowProxy ----------------------------
(***************************************************************************)
(* The shadow proxy end to end: replicas that answer POST /v1/chat from    *)
(* the primary model (api/v1/chat.py, pipeline.py), archive and record     *)
(* every answer, replay it against the candidate model from a bounded      *)
(* queue (CandidateHandler), reconcile stale rows (sweeper.py) and requeue *)
(* unfinished rows at boot (main.py).  All replicas share one comparison   *)
(* table and one raw store; queue, workers, sweeper, sample rate and       *)
(* counters are per replica and die with it.                               *)
(*                                                                         *)
(* An action is what one task does between two awaits: one statement on    *)
(* the table, one access to the raw store, or one answer of a model.       *)
(* Dispatcher models the queue's own tasks in more detail; here stop() of  *)
(* the dispatcher is the wait for its queue and workers to be empty.       *)
(*                                                                         *)
(* Left out: authentication and validation (they end a call before it      *)
(* changes any state), metrics and logs; ReadApi, InferenceClient, Startup *)
(* and MismatchTape model the read API, the retries of a model call, what  *)
(* precedes Boot, and the tape behind the offer.                           *)
(***************************************************************************)
EXTENDS Evaluator, JobQueue, FiniteSets, Functions

CONSTANTS
    Calls, Ids, IdOf,       \* chat calls; IdOf[c] is the request id of call c
    Leaf,                   \* Leaf[i]: what follows the last "/" of i, else i
    Replicas,
    Workers, Home,          \* Home[w] is the replica of worker task w
    Policy,                 \* dispatcher.overflow_policy
    OnFailure,              \* store.on_failure: "fail_open" or "fail_closed"
    RawStoreOn,             \* FALSE when "spaces" is configured without bucket
    FileStore,              \* the raw store is FilesystemRawStore
    Torn,                   \* a file that a crash left half written
    PrimaryTexts, CandidateTexts,      \* answers the models may give
    Rates,                  \* sample rates that PUT /v1/config may set
    SweepLimit, RequeueLimit,          \* LIMIT of the two queries
    MaxFaults, MaxCrashes, MaxStops,   \* bounds: errors in I/O, crashes, stops
    LastDay                 \* bound: days are 1 .. LastDay

ASSUME ShadowProxyAssumption ==
    /\ IdOf \in [Calls -> Ids]
    /\ Leaf \in [Ids -> Ids]
    /\ Home \in [Workers -> Replicas]
    /\ Policy \in Policies
    /\ OnFailure \in {"fail_open", "fail_closed"}
    /\ RawStoreOn \in BOOLEAN /\ FileStore \in BOOLEAN
    /\ PrimaryTexts \subseteq Text /\ CandidateTexts \subseteq Text
    /\ Rates \subseteq {"none", "some", "all"}
    /\ SweepLimit \in Nat \ {0} /\ RequeueLimit \in Nat \ {0}
    /\ MaxFaults \in Nat /\ MaxCrashes \in Nat /\ MaxStops \in Nat
    /\ LastDay \in Nat \ {0}
    /\ None \notin Ids \cup Text /\ Torn # None

Days  == 1 .. LastDay
NoKey == 0               \* raw_object_key is NULL

Store == INSTANCE ComparisonStore WITH Key <- Days \cup {NoKey}

VARIABLES
    today,       \* the UTC date that _key_for() puts into object keys
    received,    \* number of calls received so far; the clock of received_at
    horizon,     \* rows received before it are older than stale_threshold_s
    call,        \* call[c]: the task of chat() that serves call c
    row,         \* row[i]: the row of request id i in the table, or None
    raw,         \* raw[<<d, i>>]: the object raw/<d>/<i>.json.gz, None, or Torn
    phase,       \* phase[r]: where the lifespan of replica r is
    boots,       \* boots[r]: how often r has booted
    backlog,     \* backlog[r]: ids that r's startup query returned
    queue,       \* queue[r]: the dispatcher's queue
    worker,      \* worker[w]: the dispatcher's worker task w
    sweep,       \* sweep[r]: stale ids the sweeper of r has yet to finalize
    rate,        \* rate[r]: app.state.shadow_sample_rate
    count,       \* count[r]: app.state.rt_counters
    faults, crashes, stops

clockVars   == <<today, received, horizon>>
replicaVars == <<phase, boots, backlog, queue, worker, sweep, rate, count>>
budgetVars  == <<faults, crashes, stops>>
vars == <<clockVars, call, row, raw, replicaVars, budgetVars>>

-----------------------------------------------------------------------------
(* requests_success is requests_total, requests_error is never written,    *)
(* shadow_errors counts the shadow_timeouts too; "taped" counts the rows   *)
(* offered to the mismatch tape.                                           *)
Counters == {"requests_total", "shadow_enqueued", "shadow_sampled_out",
             "shadow_errors", "taped"} \cup Judgements

(* The document that persist_pending() archives and the merge completes.   *)
Payload == [primary : Text, candidate : Text \cup {None}]

\* What is absent, and what a crash spoilt, is no row and no document.
ASSUME StorageAssumption == /\ None \notin Store!Row
                            /\ {None, Torn} \cap Payload = {}

(* The local variables of chat().                                          *)
CallStates == {"new", "primary", "archive", "insert", "respond",
               "answered", "refused", "broken", "lost"}
Call == [ pc     : CallStates,
          at     : Nat,                                \* received_at
          by     : Replicas \cup {None},
          status : Store!PrimaryStatus,
          text   : Text,                               \* PrimaryOutcome.content
          key    : Days \cup {NoKey},
          shadow : {"no", "enqueued", "dropped", "sampled_out"} ]   \* headers

NewCall == [ pc |-> "new", at |-> 0, by |-> None, status |-> "ok",
             text |-> "blank", key |-> NoKey, shadow |-> "no" ]

InFlight(c) == call[c].pc \in {"primary", "archive", "insert", "respond"}

(* The local variables of CandidateHandler.__call__.                       *)
WorkerStates == {"get", "discard", "mark", "load", "asked", "merge_get",
                 "merge_put", "finalize", "count", "fail"}
Worker == [ pc      : WorkerStates,
            id      : Ids \cup {None},
            key     : Days \cup {NoKey},               \* record.raw_object_key
            primary : Text,                            \* primary_content
            reply   : Text,                            \* resp.content
            copy    : Payload \cup {None} ]            \* the merge's payload

Idle == [ pc |-> "get", id |-> None, key |-> NoKey,
          primary |-> "blank", reply |-> "blank", copy |-> None ]

Phases == {"down", "booting", "requeueing", "serving", "stopping"}

TypeOK ==
    /\ today \in Days
    /\ received \in Nat /\ horizon \in Nat
    /\ call \in [Calls -> Call]
    /\ row \in [Ids -> Store!Row \cup {None}]
    /\ raw \in [Days \X Ids -> Payload \cup {None, Torn}]
    /\ phase \in [Replicas -> Phases]
    /\ boots \in [Replicas -> Nat]
    /\ backlog \in [Replicas -> Seq(Ids)]
    /\ queue \in [Replicas -> Seq(Ids)]
    /\ \A r \in Replicas : Len(queue[r]) <= Capacity
    /\ worker \in [Workers -> Worker]
    /\ sweep \in [Replicas -> SUBSET Ids]
    /\ rate \in [Replicas -> Rates \cup {"all"}]
    /\ count \in [Replicas -> [Counters -> Nat]]
    /\ faults \in Nat /\ crashes \in Nat /\ stops \in Nat

ZeroCounters == [n \in Counters |-> 0]

Init ==
    /\ today = 1 /\ received = 0 /\ horizon = 0
    /\ call = [c \in Calls |-> NewCall]
    /\ row = [i \in Ids |-> None]
    /\ raw = [a \in Days \X Ids |-> None]
    /\ phase = [r \in Replicas |-> "down"]
    /\ boots = [r \in Replicas |-> 0]
    /\ backlog = [r \in Replicas |-> <<>>]
    /\ queue = [r \in Replicas |-> <<>>]
    /\ worker = [w \in Workers |-> Idle]
    /\ sweep = [r \in Replicas |-> {}]
    /\ rate = [r \in Replicas |-> "all"]
    /\ count = [r \in Replicas |-> ZeroCounters]
    /\ faults = 0 /\ crashes = 0 /\ stops = 0

(* A storage call raises, or a candidate's answer is not JSON.             *)
Fault == /\ faults < MaxFaults
         /\ faults' = faults + 1
         /\ UNCHANGED <<crashes, stops>>

Rows == {i \in Ids : row[i] # None}

-----------------------------------------------------------------------------
(* A slip: the startup requeue becomes a background task.                  *)
AcceptingEarly(r) == phase[r] \in {"booting", "requeueing", "serving"}

(* Uvicorn accepts requests once the lifespan has yielded.                 *)
Accepting(r) == phase[r] = "serving"

(* POST /v1/chat                                                           *)
Receive(c, r) ==
    /\ call[c].pc = "new"
    /\ Accepting(r)
    /\ call' = [call EXCEPT ![c].pc = "primary", ![c].by = r, ![c].at = received]
    /\ received' = received + 1
    /\ UNCHANGED <<today, horizon, row, raw, replicaVars, budgetVars>>

CallUnchanged == UNCHANGED <<clockVars, replicaVars>>

(* run_primary() returns: an answer, a timeout or an error (no content).   *)
PrimaryReturns(c, status, text) ==
    /\ call[c].pc = "primary"
    /\ status # "ok" => text = "blank"
    /\ call' = [call EXCEPT ![c].pc = IF RawStoreOn THEN "archive" ELSE "insert",
                            ![c].status = status, ![c].text = text]
    /\ CallUnchanged /\ UNCHANGED <<row, raw, budgetVars>>

(* A 200 answer whose body is not JSON raises ValueError in the client,    *)
(* which run_primary() does not catch: a plain 500, nothing recorded.      *)
PrimaryBreaks(c) ==
    /\ call[c].pc = "primary"
    /\ call' = [call EXCEPT ![c].pc = "broken"]
    /\ CallUnchanged /\ UNCHANGED <<row, raw, budgetVars>>

(* persist_pending(): raw_store.put() of the primary's answer.             *)
Archive(c) ==
    /\ call[c].pc = "archive"
    /\ raw' = [raw EXCEPT ![<<today, IdOf[c]>>] =
                  [primary |-> call[c].text, candidate |-> None]]
    /\ call' = [call EXCEPT ![c].pc = "insert", ![c].key = today]
    /\ CallUnchanged /\ UNCHANGED <<row, budgetVars>>

(* A failing put() is logged; the row will have no raw_object_key.         *)
ArchiveFails(c) ==
    /\ call[c].pc = "archive"
    /\ Fault
    /\ call' = [call EXCEPT ![c].pc = "insert"]
    /\ CallUnchanged /\ UNCHANGED <<row, raw>>

(* A slip: INSERT OR REPLACE instead of an INSERT.                         *)
IdFreeUpsert(i) == TRUE

(* request_id is the primary key of the table.                             *)
IdFree(i) == row[i] = None

(* persist_pending(): store.insert_pending().                              *)
Insert(c) ==
    /\ call[c].pc = "insert"
    /\ IdFree(IdOf[c])
    /\ row' = [row EXCEPT ![IdOf[c]] =
                  Store!PendingRow(call[c].status,
                                   IF call[c].status = "ok"
                                   THEN ActionOf(call[c].text) ELSE None,
                                   call[c].key, call[c].at)]
    /\ call' = [call EXCEPT ![c].pc = "respond"]
    /\ CallUnchanged /\ UNCHANGED <<raw, budgetVars>>

(* Slips: the policy is ignored, or the INSERT is tried until it succeeds. *)
AfterFailedInsertOpen    == "respond"
AfterFailedInsertRetries == "insert"

(* "fail_closed" re-raises (a plain 500); "fail_open" carries on.          *)
AfterFailedInsert == IF OnFailure = "fail_closed" THEN "broken" ELSE "respond"

(* The INSERT raises: the id is taken, or the database failed.             *)
InsertFails(c) ==
    /\ call[c].pc = "insert"
    /\ \/ ~IdFree(IdOf[c]) /\ UNCHANGED budgetVars
       \/ IdFree(IdOf[c]) /\ Fault
    /\ call' = [call EXCEPT ![c].pc = AfterFailedInsert]
    /\ CallUnchanged /\ UNCHANGED <<row, raw>>

(* The primary failed: 504, 502, 401 or 403; no shadow gate, no counters.  *)
Refuse(c) ==
    /\ call[c].pc = "respond"
    /\ call[c].status # "ok"
    /\ call' = [call EXCEPT ![c].pc = "refused"]
    /\ CallUnchanged /\ UNCHANGED <<row, raw, budgetVars>>

(* _shadow_gate() with the call sampled in, then the 200 response.         *)
SampleIn(c) ==
    LET r  == call[c].by
        in == Accepts(Policy, queue[r])
    IN  /\ call[c].pc = "respond"
        /\ call[c].status = "ok"
        /\ rate[r] # "none"
        /\ queue' = [queue EXCEPT ![r] = Enqueued(Policy, @, IdOf[c])]
        /\ count' = [count EXCEPT ![r]["requests_total"] = @ + 1,
                                  ![r]["shadow_enqueued"] = IF in THEN @ + 1 ELSE @]
        /\ call' = [call EXCEPT ![c].pc = "answered",
                                ![c].shadow = IF in THEN "enqueued" ELSE "dropped"]
        /\ UNCHANGED <<clockVars, row, raw, phase, boots, backlog, worker, sweep,
                       rate, budgetVars>>

(* _shadow_gate() with the call sampled out, then the 200 response.        *)
SampleOut(c) ==
    LET r == call[c].by
    IN  /\ call[c].pc = "respond"
        /\ call[c].status = "ok"
        /\ rate[r] # "all"
        /\ count' = [count EXCEPT ![r]["requests_total"] = @ + 1,
                                  ![r]["shadow_sampled_out"] = @ + 1]
        /\ call' = [call EXCEPT ![c].pc = "answered", ![c].shadow = "sampled_out"]
        /\ UNCHANGED <<clockVars, row, raw, phase, boots, backlog, queue, worker,
                       sweep, rate, budgetVars>>

ServeCall(c) ==
    \/ \E status \in Store!PrimaryStatus, text \in PrimaryTexts \cup {"blank"} :
          PrimaryReturns(c, status, text)
    \/ PrimaryBreaks(c)
    \/ Archive(c) \/ ArchiveFails(c)
    \/ Insert(c)  \/ InsertFails(c)
    \/ Refuse(c)  \/ SampleIn(c) \/ SampleOut(c)

-----------------------------------------------------------------------------
(* The worker pool and CandidateHandler.                                   *)
WorkerUnchanged == UNCHANGED <<clockVars, call, phase, boots, backlog, sweep, rate>>

Step(w, pc) == worker' = [worker EXCEPT ![w].pc = pc]

(* The handler returned, or raised and the worker loop logged it.          *)
Done(w) == worker' = [worker EXCEPT ![w] = Idle]

(* The handler's first steps on id i: the row decides what it does.        *)
Fetched(i) ==
    IF row[i] = None THEN Idle
    ELSE [Idle EXCEPT !.id = i, !.key = row[i].key,
                      !.pc = IF row[i].primary = "ok" THEN "mark" ELSE "discard"]

(* queue.get(), then store.get(): a record that is missing ends the job.   *)
Take(w) ==
    LET r == Home[w]
    IN  /\ worker[w].pc = "get"
        /\ queue[r] # <<>>
        /\ queue' = [queue EXCEPT ![r] = Tail(@)]
        /\ \/ worker' = [worker EXCEPT ![w] = Fetched(Head(queue[r]))]
              /\ UNCHANGED budgetVars
           \/ Fault /\ UNCHANGED worker
        /\ WorkerUnchanged /\ UNCHANGED <<row, raw, count>>

(* The statement a worker is at raises, and with it the handler; or, at    *)
(* "load" and "count", the session of the UPDATE before it as it closes.   *)
(* At "asked" it is the ValueError of a 200 answer whose body is not JSON. *)
HandlerFails(w) ==
    /\ worker[w].pc \in {"discard", "mark", "load", "asked", "finalize", "count", "fail"}
    /\ Fault
    /\ Done(w)
    /\ WorkerUnchanged /\ UNCHANGED <<row, raw, queue, count>>

FinalizeRow(i, status, verdict, action) ==
    row' = [row EXCEPT ![i] = Store!Finalized(@, status, verdict, action)]

(* A row whose primary failed: there is nothing to compare with.           *)
Discard(w) ==
    /\ worker[w].pc = "discard"
    /\ FinalizeRow(worker[w].id, "dropped", "primary_error", None)
    /\ Done(w)
    /\ WorkerUnchanged /\ UNCHANGED <<raw, queue, count, budgetVars>>

Mark(w) ==
    /\ worker[w].pc = "mark"
    /\ row' = [row EXCEPT ![worker[w].id] = Store!Marked(@)]
    /\ Step(w, "load")
    /\ WorkerUnchanged /\ UNCHANGED <<raw, queue, count, budgetVars>>

Object(w) == IF worker[w].key = NoKey THEN None ELSE raw[<<worker[w].key, worker[w].id>>]

(* _load_request_body() and _primary_content_from_raw(): without a key, or *)
(* when get() raises, the body is {} and the primary's answer reads blank. *)
Load(w) ==
    /\ worker[w].pc = "load"
    /\ \/ UNCHANGED budgetVars /\ worker' = [worker EXCEPT
              ![w].primary = IF Object(w) \in Payload THEN Object(w).primary ELSE "blank",
              ![w].pc = "asked"]
       \/ Object(w) \in Payload /\ Fault /\ Step(w, "asked")
    /\ WorkerUnchanged /\ UNCHANGED <<row, raw, queue, count>>

(* The candidate answers; without a key there is nothing to merge into.    *)
CandidateAnswers(w, text) ==
    /\ worker[w].pc = "asked"
    /\ worker' = [worker EXCEPT ![w].reply = text,
                                ![w].pc = IF worker[w].key = NoKey
                                          THEN "finalize" ELSE "merge_get"]
    /\ WorkerUnchanged /\ UNCHANGED <<row, raw, queue, count, budgetVars>>

(* LLMTimeout or LLMCallError: _finalize_error() counts, then writes.      *)
CandidateFails(w) ==
    /\ worker[w].pc = "asked"
    /\ Step(w, "fail")
    /\ count' = [count EXCEPT ![Home[w]]["shadow_errors"] = @ + 1]
    /\ WorkerUnchanged /\ UNCHANGED <<row, raw, queue, budgetVars>>

FinalizeError(w) ==
    /\ worker[w].pc = "fail"
    /\ FinalizeRow(worker[w].id, "error", "candidate_error", None)
    /\ Done(w)
    /\ WorkerUnchanged /\ UNCHANGED <<raw, queue, count, budgetVars>>

(* _merge_candidate_into_raw(): get() the object; give up if it raises.    *)
MergeGet(w) ==
    /\ worker[w].pc = "merge_get"
    /\ \/ /\ Object(w) \in Payload
          /\ worker' = [worker EXCEPT ![w].copy = Object(w), ![w].pc = "merge_put"]
          /\ UNCHANGED budgetVars
       \/ Object(w) \notin Payload /\ Step(w, "finalize") /\ UNCHANGED budgetVars
       \/ Object(w) \in Payload /\ Fault /\ Step(w, "finalize")
    /\ WorkerUnchanged /\ UNCHANGED <<row, raw, queue, count>>

(* A slip: the document that is put back is built afresh.                  *)
MergedAfresh(copy, text) == [primary |-> "blank", candidate |-> text]

(* A slip: an answer that an earlier attempt has merged stays.             *)
MergedOnce(copy, text) ==
    IF copy.candidate = None THEN [copy EXCEPT !.candidate = text] ELSE copy

Merged(copy, text) == [copy EXCEPT !.candidate = text]

(* ... and put() it back, under a new key: today's date, and of the old    *)
(* key what follows the last "/".  A request id that holds a "/" itself is *)
(* merged into the object of another name, and an id "b" shares its object *)
(* with the merges of every id ".../b".                                    *)
MergePut(w) ==
    /\ worker[w].pc = "merge_put"
    /\ \/ raw' = [raw EXCEPT ![<<today, Leaf[worker[w].id]>>] =
                     Merged(worker[w].copy, worker[w].reply)]
          /\ UNCHANGED budgetVars
       \/ Fault /\ UNCHANGED raw
    /\ Step(w, "finalize")
    /\ WorkerUnchanged /\ UNCHANGED <<row, queue, count>>

(* A slip: the list of counted verdicts misses one.                        *)
CountedVerdictsShort == {"match", "mismatch"}

CountedVerdicts == {"match", "mismatch", "invalid_json"}

TapedVerdicts == {"mismatch", "invalid_json"}

Judged(w) == Evaluate(worker[w].primary, worker[w].reply)

(* finalize() with the evaluator's verdict ...                             *)
FinalizeOk(w) ==
    /\ worker[w].pc = "finalize"
    /\ FinalizeRow(worker[w].id, "ok", Judged(w).verdict, Judged(w).action)
    /\ Step(w, "count")
    /\ WorkerUnchanged /\ UNCHANGED <<raw, queue, count, budgetVars>>

(* ... then, once its COMMIT and the session's close() are awaited, the    *)
(* counter of GET /v1/metrics and the offer to the mismatch tape.          *)
CountVerdict(w) ==
    LET verdict == Judged(w).verdict
    IN  /\ worker[w].pc = "count"
        /\ count' = [count EXCEPT ![Home[w]][verdict] =
                        IF verdict \in CountedVerdicts THEN @ + 1 ELSE @,
                                  ![Home[w]]["taped"] =
                        IF verdict \in TapedVerdicts THEN @ + 1 ELSE @]
        /\ Done(w)
        /\ WorkerUnchanged /\ UNCHANGED <<row, raw, queue, budgetVars>>

Handle(w) ==
    \/ Take(w) \/ HandlerFails(w) \/ Discard(w) \/ Mark(w) \/ Load(w)
    \/ \E text \in CandidateTexts : CandidateAnswers(w, text)
    \/ CandidateFails(w) \/ FinalizeError(w)
    \/ MergeGet(w) \/ MergePut(w) \/ FinalizeOk(w) \/ CountVerdict(w)

-----------------------------------------------------------------------------
(* The sweeper.                                                            *)
UnfinishedIds == {i \in Rows : Store!Unfinished(row[i])}

(* A slip: the query asks for rows in progress only.                       *)
StaleInProgress ==
    {i \in Rows : row[i].candidate = "in_progress" /\ row[i].receivedAt < horizon}

(* A slip: the query does not look at the status.                          *)
StaleOfAnyStatus == {i \in Rows : row[i].receivedAt < horizon}

Stale == {i \in UnfinishedIds : row[i].receivedAt < horizon}

SweepUnchanged ==
    UNCHANGED <<clockVars, call, raw, phase, boots, backlog, queue, worker, rate, count>>

(* find_stale(): any SweepLimit of the stale rows.  The sweeper starts     *)
(* before the startup query; stop() waits for a sweep that has begun.      *)
SweepFind(r) ==
    /\ phase[r] \in {"booting", "requeueing", "serving"}
    /\ sweep[r] = {}
    /\ \E found \in SUBSET Stale :
          /\ found # {}
          /\ Cardinality(found) <= SweepLimit
          /\ found = Stale \/ Cardinality(found) = SweepLimit
          /\ sweep' = [sweep EXCEPT ![r] = found]
    /\ SweepUnchanged /\ UNCHANGED <<row, budgetVars>>

(* finalize() of the next row found, whatever the row has become since.    *)
SweepOne(r, i) ==
    /\ i \in sweep[r]
    /\ FinalizeRow(i, "timeout_stale", "candidate_error", None)
    /\ sweep' = [sweep EXCEPT ![r] = @ \ {i}]
    /\ SweepUnchanged /\ UNCHANGED budgetVars

(* A finalize() raises, or stop() waited interval_s + 5 s and cancels: the *)
(* tick ends, the rest waits for the next one.                             *)
SweepFails(r) ==
    /\ sweep[r] # {}
    /\ Fault \/ (phase[r] = "stopping" /\ UNCHANGED budgetVars)
    /\ sweep' = [sweep EXCEPT ![r] = {}]
    /\ SweepUnchanged /\ UNCHANGED row

Sweep(r) == SweepFind(r) \/ (\E i \in Ids : SweepOne(r, i)) \/ SweepFails(r)

-----------------------------------------------------------------------------
(* The lifespan of a replica, and its end.                                 *)
LifespanUnchanged == UNCHANGED <<clockVars, row, rate, count>>

(* lifespan() up to the startup query: workers and sweeper are running.    *)
Boot(r) ==
    /\ phase[r] = "down"
    /\ phase' = [phase EXCEPT ![r] = "booting"]
    /\ boots' = [boots EXCEPT ![r] = @ + 1]
    /\ LifespanUnchanged
    /\ UNCHANGED <<call, raw, backlog, queue, worker, sweep, budgetVars>>

(* The sequences without repetition over S in order of received_at.        *)
ByAge(S) == {s \in [1 .. Cardinality(S) -> S] :
                \A m, n \in DOMAIN s : m < n =>
                    /\ s[m] # s[n]
                    /\ row[s[m]].receivedAt <= row[s[n]].receivedAt}

Limited(s, limit) == SubSeq(s, 1, IF Len(s) > limit THEN limit ELSE Len(s))

(* requeue_all_unfinished(): the answer of find_all_unfinished() ...       *)
RequeueFind(r) ==
    /\ phase[r] = "booting"
    /\ phase' = [phase EXCEPT ![r] = "requeueing"]
    /\ \E ids \in ByAge(UnfinishedIds) :
          backlog' = [backlog EXCEPT ![r] = Limited(ids, RequeueLimit)]
    /\ LifespanUnchanged
    /\ UNCHANGED <<call, raw, boots, queue, worker, sweep, budgetVars>>

(* ... and one enqueue() per id, with no suspension between them.          *)
RequeueAll(r) ==
    /\ phase[r] = "requeueing"
    /\ phase' = [phase EXCEPT ![r] = "serving"]
    /\ queue' = [queue EXCEPT ![r] = EnqueuedAll(Policy, @, backlog[r])]
    /\ backlog' = [backlog EXCEPT ![r] = <<>>]
    /\ LifespanUnchanged
    /\ UNCHANGED <<call, raw, boots, worker, sweep, budgetVars>>

WorkersOf(r) == {w \in Workers : Home[w] = r}

CallsAt(r) == {c \in Calls : InFlight(c) /\ call[c].by = r}

(* SIGTERM: uvicorn finishes the open requests, then the lifespan resumes. *)
Shutdown(r) ==
    /\ phase[r] = "serving"
    /\ stops < MaxStops
    /\ CallsAt(r) = {}
    /\ phase' = [phase EXCEPT ![r] = "stopping"]
    /\ stops' = stops + 1
    /\ LifespanUnchanged
    /\ UNCHANGED <<call, raw, boots, backlog, queue, worker, sweep, faults, crashes>>

(* A slip: stop(drain=False), the running handlers are cancelled.          *)
DrainedAtOnce(r) == sweep[r] = {}

(* sweeper.stop() and dispatcher.stop(drain=True) have nothing to wait for.*)
Drained(r) == /\ sweep[r] = {}
              /\ queue[r] = <<>>
              /\ \A w \in WorkersOf(r) : worker[w].pc = "get"

(* What a process takes with it, apart from its calls.                     *)
ForgetMemory(r) ==
    /\ phase' = [phase EXCEPT ![r] = "down"]
    /\ backlog' = [backlog EXCEPT ![r] = <<>>]
    /\ queue' = [queue EXCEPT ![r] = <<>>]
    /\ worker' = [w \in Workers |-> IF Home[w] = r THEN Idle ELSE worker[w]]
    /\ sweep' = [sweep EXCEPT ![r] = {}]
    /\ rate' = [rate EXCEPT ![r] = "all"]
    /\ count' = [count EXCEPT ![r] = ZeroCounters]
    /\ UNCHANGED <<clockVars, row, boots>>

ShutdownDone(r) ==
    /\ phase[r] = "stopping"
    /\ Drained(r)
    /\ ForgetMemory(r)
    /\ UNCHANGED <<call, raw, budgetVars>>

(* The objects that r is writing: FilesystemRawStore.put() truncates the   *)
(* file before it fills it.                                                *)
BeingWritten(r) ==
    IF ~FileStore THEN {}
    ELSE {<<today, IdOf[c]>> : c \in {d \in CallsAt(r) : call[d].pc = "archive"}}
         \cup {<<today, Leaf[worker[w].id]>> :
                   w \in {v \in WorkersOf(r) : worker[v].pc = "merge_put"}}

(* The process dies between, or in the middle of, two steps.               *)
Crash(r) ==
    /\ phase[r] # "down"
    /\ crashes < MaxCrashes
    /\ crashes' = crashes + 1
    /\ ForgetMemory(r)
    /\ call' = [c \in Calls |-> IF c \in CallsAt(r)
                                THEN [call[c] EXCEPT !.pc = "lost"] ELSE call[c]]
    /\ \/ UNCHANGED raw
       \/ \E a \in BeingWritten(r) : raw' = [raw EXCEPT ![a] = Torn]
    /\ UNCHANGED <<faults, stops>>

(* PUT /v1/config                                                          *)
PutConfig(r, value) ==
    /\ phase[r] = "serving"
    /\ rate[r] # value
    /\ rate' = [rate EXCEPT ![r] = value]
    /\ UNCHANGED <<clockVars, call, row, raw, phase, boots, backlog, queue, worker,
                   sweep, count, budgetVars>>

-----------------------------------------------------------------------------
(* The oldest request that is not yet stale becomes so, answered or not.   *)
TimePasses ==
    /\ horizon < received
    /\ horizon' = horizon + 1
    /\ UNCHANGED <<today, received, call, row, raw, replicaVars, budgetVars>>

Midnight ==
    /\ today < LastDay
    /\ today' = today + 1
    /\ UNCHANGED <<received, horizon, call, row, raw, replicaVars, budgetVars>>

(* Nothing is left to do until a client, an operator or a clock acts.      *)
Quiescent ==
    /\ \A c \in Calls : ~InFlight(c)
    /\ \A r \in Replicas : phase[r] = "serving" /\ Drained(r)
    /\ UNCHANGED vars

Next ==
    \/ \E c \in Calls, r \in Replicas : Receive(c, r)
    \/ \E c \in Calls : ServeCall(c)
    \/ \E w \in Workers : Handle(w)
    \/ \E r \in Replicas : \/ Sweep(r) \/ Boot(r) \/ RequeueFind(r) \/ RequeueAll(r)
                           \/ Shutdown(r) \/ ShutdownDone(r) \/ Crash(r)
                           \/ \E value \in Rates : PutConfig(r, value)
    \/ TimePasses \/ Midnight \/ Quiescent

(* Tasks that can run do run, models and stores answer or time out, the    *)
(* platform restarts what is down (restart: unless-stopped), time passes.  *)
(* Nothing makes a client call, a process die, a fault happen or the date  *)
(* change.                                                                 *)
Fairness ==
    /\ \A c \in Calls : WF_vars(ServeCall(c))
    /\ \A w \in Workers : WF_vars(Handle(w))
    /\ \A r \in Replicas : /\ WF_vars(Sweep(r))
                           /\ WF_vars(Boot(r))
                           /\ WF_vars(RequeueFind(r) \/ RequeueAll(r))
                           /\ WF_vars(ShutdownDone(r))
    /\ WF_vars(TimePasses)

Spec == Init /\ [][Next]_vars /\ Fairness

-----------------------------------------------------------------------------
(* What the properties assume of the deployment and of the clients.        *)
DistinctIds == \A c, d \in Calls : IdOf[c] = IdOf[d] => c = d
OneReplica  == \E r \in Replicas : Replicas = {r}

\* No other request's merge is put under the name i.
OwnObject(i) == \A c \in Calls : Leaf[IdOf[c]] = i => IdOf[c] = i

Busy == {w \in Workers : worker[w].pc # "get"}

Total(name) == FoldFunction(+, 0, [r \in Replicas |-> count[r][name]])

(* "Persist every comparison durably before responding to the client": a   *)
(* 200 answer implies a row of that very call, under "fail_closed" always, *)
(* under "fail_open" while nothing failed.  A request id that is used      *)
(* twice never acknowledges the call whose row was refused.                *)
AckedIsDurable ==
    (OnFailure = "fail_closed" \/ (faults = 0 /\ DistinctIds)) =>
        \A c \in Calls : call[c].pc = "answered" =>
            /\ row[IdOf[c]] # None
            /\ row[IdOf[c]].primary = "ok"
            /\ row[IdOf[c]].receivedAt = call[c].at
            /\ row[IdOf[c]].key = call[c].key

(* A raw_object_key never dangles and never points at another answer: the  *)
(* archived document exists as soon as the row does, and after any number  *)
(* of concurrent merges, crashes and midnights it still holds the primary  *)
(* answer whose action the row records.  That answer may be lost only for  *)
(* an id "b" beside an id "x/b", whose merge overwrites the object of "b". *)
ArchiveHoldsPrimary ==
    (~FileStore /\ DistinctIds) =>
        \A i \in Rows : row[i].key # NoKey =>
            /\ raw[<<row[i].key, i>>] \in Payload
            /\ row[i].primary = "ok" /\ OwnObject(i) =>
                   row[i].primaryAction = ActionOf(raw[<<row[i].key, i>>].primary)

(* Within a replica a request is in at most one place: one position of the *)
(* queue or one worker.  Neither the requeue at boot nor the gate copies.  *)
OncePerReplica ==
    DistinctIds => \A r \in Replicas :
        /\ \A m, n \in DOMAIN queue[r] : queue[r][m] = queue[r][n] => m = n
        /\ \A v, w \in Busy \cap WorkersOf(r) :
               /\ worker[v].id = worker[w].id => v = w
               /\ worker[w].id \notin Range(queue[r])

(* The two status columns of a row never contradict each other, through    *)
(* sweeps, requeues and crashes (one replica).                             *)
RowCoherent ==
    (DistinctIds /\ OneReplica) => \A i \in Rows :
        row[i].verdict \in
            CASE row[i].candidate = "pending"     -> {"pending", "primary_error"}
              [] row[i].candidate = "in_progress" -> {"pending", "candidate_error"}
              [] row[i].candidate = "ok"          -> Judgements
              [] row[i].candidate = "dropped"     -> {"primary_error"}
              [] OTHER                            -> {"candidate_error"}

(* The verdict agrees with the action columns beside it, although the      *)
(* primary's action was extracted before the archive was written and the   *)
(* verdict is computed from what the archive returns (one replica, and no  *)
(* other request that is merged into the object).                          *)
VerdictAgreesWithActions ==
    (DistinctIds /\ OneReplica /\ RequireJson) => \A i \in Rows :
        LET p    == row[i].primaryAction
            c    == row[i].candidateAction
            same == p # None /\ c # None /\ NormalForm[p] = NormalForm[c]
        IN  OwnObject(i) => /\ row[i].verdict = "match" => same
                            /\ row[i].verdict = "mismatch" => ~same

(* A verdict can be reproduced: the two answers in the archive compare as  *)
(* the row says, whatever attempts before it had merged or asked.  A merge *)
(* and the UPDATE that follows are two steps, and a crash between them     *)
(* makes the next boot ask again (one replica, no faults, one day, and an  *)
(* id without a "/", since no other is merged into its own object).        *)
VerdictReproducible ==
    (DistinctIds /\ OneReplica /\ ~FileStore /\ faults = 0 /\ LastDay = 1) =>
        \A i \in Rows :
            ( /\ row[i].verdict \in Judgements /\ row[i].key # NoKey
              /\ Leaf[i] = i /\ OwnObject(i) ) =>
                LET kept == raw[<<row[i].key, i>>]
                IN  /\ kept.candidate # None
                    /\ row[i].verdict = Evaluate(kept.primary, kept.candidate).verdict

(* Once two answers were compared, only a sweep that had already selected  *)
(* the row touches it again: no handler re-evaluates (one replica).        *)
OnlySweepsOverwrite ==
    [][(DistinctIds /\ OneReplica) =>
         \A i \in Rows : Store!Evaluated(row[i]) /\ row'[i] # row[i] =>
             \E r \in Replicas : i \in sweep[r] /\ i \notin sweep'[r]]_vars

(* What GET /v1/metrics counts, and what the mismatch tape was offered,    *)
(* trails the verdicts in the table only by the handlers that are between  *)
(* their UPDATE and their counter, and by those that failed there, as long *)
(* as no process has ended.                                                *)
Uncounted(V) == {w \in Workers : worker[w].pc = "count" /\ Judged(w).verdict \in V}

JudgedRows(V) == {i \in Rows : row[i].verdict \in V}

CountersCoverTable ==
    (crashes = 0 /\ stops = 0) =>
        /\ \A v \in Judgements :
               Cardinality(JudgedRows({v}))
                   <= Total(v) + Cardinality(Uncounted({v})) + faults
        /\ Cardinality(JudgedRows({"mismatch", "invalid_json"}))
               <= Total("taped") + Cardinality(Uncounted({"mismatch", "invalid_json"}))
                                 + faults

(* A graceful stop leaves nothing half done: without faults or crashes, a  *)
(* request whose X-Shadow-Enqueued header said "true" has been judged, and *)
(* no row is left in progress.                                             *)
CleanShutdown ==
    ( /\ DistinctIds /\ Policy = "drop_new"
      /\ crashes = 0 /\ faults = 0
      /\ \A r \in Replicas : phase[r] = "down" ) =>
        /\ \A i \in Rows : row[i].candidate # "in_progress"
        /\ \A c \in Calls :
               call[c].shadow = "enqueued" => ~Store!Unfinished(row[IdOf[c]])

(* "No row is left dangling": from some point on every row has a final     *)
(* status, whatever was dropped, sampled out, lost or swept before.        *)
EventuallySettled == <>[](\A i \in Rows : ~Store!Unfinished(row[i]))

(* The whole proxy does to a row only what RowLifecycle allows: a handler  *)
(* judges a row that it has marked itself and that has a primary answer, a *)
(* sweep finalizes a row that it has found unfinished, and a row is        *)
(* attempted at most once per boot.                                        *)
Lifecycle == INSTANCE RowLifecycle WITH
    Statuses    <- Store!PrimaryStatus,
    Keys        <- Days \cup {NoKey},
    Times       <- 0 .. Cardinality(Calls),
    Handlers    <- Workers,
    Sweepers    <- Replicas,
    MaxAttempts <- Cardinality(Replicas) + MaxCrashes + MaxStops,
    claim       <- [w \in Workers |->
                      IF worker[w].pc \in {"get", "discard", "mark", "count"}
                      THEN None ELSE worker[w].id],
    found       <- sweep

ImplementsLifecycle == Lifecycle!RowSpec

(* Every call the proxy takes ends with a response or with its process.    *)
CallsEnd == \A c \in Calls : InFlight(c) ~> ~InFlight(c)
=============================================================================
