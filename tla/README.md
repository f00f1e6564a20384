# TLA+ model of llm-shadow-proxy

The proxy answers `POST /v1/chat` from a primary model, records every answer in a
comparison table and an archive of raw payloads, and later replays the request
against a candidate model to compare the two answers. This directory models that
machinery, checks it with TLC on small instances and proves its safety and action properties
with TLAPS for every value of the constants that meets the stated assumptions. Source paths
below are relative to `src/shadow_proxy/`, documents to the repository.

## 1. Inventory

### Components

| component | source | state | operations |
|---|---|---|---|
| chat path | `api/v1/chat.py`, `pipeline.py` (`run_primary`, `persist_pending`) | locals of each call | primary call, archive put, INSERT, shadow gate, response |
| dispatcher | `dispatcher/in_process.py` | bounded `asyncio.Queue`, its unfinished count, worker tasks, `_running` | `start`, `enqueue`, `stop`, worker loop |
| candidate handler | `pipeline.py` (`CandidateHandler`) | locals of each worker | get row, mark, load, ask, evaluate, merge, finalize |
| evaluator | `evaluator/json_action.py` | none | `evaluate`; `extract_action` in `pipeline.py` |
| comparison store | `store/sql.py`, `store/models.py` | table keyed by `request_id` | `insert_pending`, `mark_in_progress`, `finalize`, `find_stale`, `find_all_unfinished`, reads |
| raw store | `store/raw.py` | objects keyed by date and id | `put`, `get` |
| sweeper | `sweeper.py` | ids found in the current tick | `run_once` every 300 s |
| lifespan | `main.py`, `requeue_all_unfinished` | boot order | boot, requeue, graceful stop |
| runtime config, counters | `api/v1/evaluations.py`, `main.py` | `shadow_sample_rate`, `rt_counters` | `PUT /v1/config`, `GET /v1/metrics` |
| read API | `api/v1/evaluations.py`, `store/sql.py` | none; answers put together from several statements | list, summary, detail, raw |
| mismatch tape | `store/mismatch_tape.py` | bounded queue, writer task, SQLite file | `offer`, writer loop, `aclose` |
| inference client | `llm/do_inference.py` | attempt counter of a call, connection pool of each client | `chat_completions` with retries |
| settings, startup | `settings.py`, `main.py`, `llm/do_inference.py` | the `.env` found, what is open already | search for `.env`, checks of secrets and paths, boot steps |
| auth, health, observability, utilities, dashboard, deployment | | none that the above depends on | |

The chat path calls the primary, then the raw store, then the table, then
`enqueue`. Only the request id travels through the queue: the handler reads the
row again, and the archive for the request and the primary's answer. Handler,
sweeper, startup requeue and the replicas meet in the table alone. Each UPDATE is
keyed by `request_id` and none checks the status it replaces, so coherence of a
row rests on who writes when. The read API puts answers together from several
SELECTs while all of them write.

### What is hard

* Concurrency: handler against sweeper against the requeue of another replica on one
  row; the read-modify-write of the archive; drop_old and cancellation against the
  unfinished count that `join()` waits for; `aclose()` against the tape's writer; pages
  and summaries against writers; two sides of the proxy against the connection pools.
* Failure: any storage call raises, the process dies between two awaits or in the
  middle of a file, a model answers with something that is not JSON, a request may or
  may not have been carried out, a boot step raises after others have had effects.
* Boundaries: full queues, LIMITs, midnight (object keys carry the date), the count
  at zero, a negative `max_retries`, the root of the file system.
* Liveness: a row that was dropped, sampled out, lost or abandoned has to reach a
  final status; a drain, an `aclose()`, a primary call have to end.

`PROJECT.json` lists these hazards at their lines, with the properties that would
catch each one.

### What makes it correct

Acknowledged answers are durable; the archive still holds the answer whose action
the row records; the candidate is asked only where there is something to compare,
once per place and boot; the columns of a row agree with each other; readers miss
only what moved while they read; a model call ends once, with the outcome of its last
attempt and within its budget of requests; a bad deployment is refused before it has
effects; nothing waits for ever; the queue loses, copies and miscounts nothing. Where
the code itself gives one of these up, section 5 says so: an id with a slash costs
another request its archive, and a request that failed after it was sent is sent again.

## 2. Modules

| module | models | how |
|---|---|---|
| `JobQueue` | `enqueue` as operators on a sequence | shared by `Dispatcher` and `ShadowProxy` |
| `JobPool` | what a bounded pool promises | abstract; no queue, tasks or count |
| `Dispatcher` | `InProcessDispatcher` in full detail | one action per stretch of code between two awaits; implements `JobPool` |
| `Evaluator` | `evaluate`, `extract_action` | over classes of text |
| `ComparisonStore` | the row and each statement on it | operators; used by `INSTANCE` |
| `RowLifecycle` | the table under its concurrent writers | abstract: no queues, tasks, models or processes |
| `ShadowProxy` | replicas, chat calls, workers, sweepers, lifespan, both stores | composes `Evaluator`, `JobQueue`, `ComparisonStore`; implements `RowLifecycle` |
| `ReadApi` | list and summary against the writers | extends `RowLifecycle` by a reader |
| `MismatchTape` | the tape | independent |
| `ModelCall` | what callers of `chat_completions` rely on | abstract: one end, a budget of requests |
| `InferenceClient` | the retry loop and the pools | implements `ModelCall` |
| `Startup` | `.env` search, secrets, paths, boot steps | ends where `ShadowProxy` begins |
| `JobQueueProofs`, `DispatcherProofs`, `RowLifecycleProofs`, `ReadApiProofs`, `InferenceClientProofs`, `MismatchTapeProofs`, `StartupProofs` | | theorems about the module of the name, see section 4 |
| `ShadowProxyProofs` | | effects and types, safety properties, the refinement of `RowLifecycle`, counters |
| `MC*` | | constants that a `.cfg` cannot write |
| `MCShadowClaims` | | two statements of the documents that the code does not keep |

### Granularity

asyncio switches tasks only at an `await`, so an action is what one task does between
two awaits that suspend. `enqueue()` never suspends, hence one action, and hence
`requeue_all_unfinished` enqueues all its ids in one action (`EnqueuedAll`, whose
agreement with a loop of `Enqueued` `JobQueueProofs` proves). Each SQL
statement, archive access and model answer is a step of its own.

### Dispatcher

`unfinished` is asyncio's `_unfinished_tasks`; `task[w]` says whether a worker waits
in `get()`, runs a handler, or ended; `stop` follows the task that called `stop()`.
`CancelHandling` runs `task_done()` twice, as the `except` and the `finally` clause of
the worker loop do, including the `ValueError` of the second call. `DisplaceRaises` is
the drop_old branch with the count already at zero. `outcome` is a history variable:
what callers saw of each job.

### ShadowProxy and RowLifecycle

`call[c].pc` and `worker[w].pc` are the await a task is at, the other fields its locals.
`row[i]` is the table, `raw[<<d, i>>]` the object of id `i` under date `d`. The merge
does not know the id: it takes the last path component of the row's key. `Leaf[i]` is
what it gets for the id `i`. `X-Request-ID` is not validated, so for `x/b` that is `b`,
and `MergePut` then writes the object of the request `b`. `FinalizeOk` is the UPDATE and
`CountVerdict` what follows its COMMIT: other tasks run in between, so `count` is an
await of its own. A row's age is the position of its call (`received_at`); `horizon`
separates stale rows from fresh ones and moves by `TimePasses`. `ForgetMemory` is what a
process takes with it. The texts of models are reduced to what the evaluator tells
apart; the action strings `Ship` and `ship` differ but normalise alike.

`stop()` of the dispatcher is here only the wait for an empty queue and idle workers;
`Dispatcher` justifies that with `DrainHonoured`.

`RowLifecycle` keeps of all this the rows, what each handler has marked (`claim`) and
what each sweep has found (`found`). It says what a writer must have done before it
writes: a handler judges only a row that it has marked and that has a primary answer, a
sweep finalizes only what it once found unfinished, a row is attempted at most
`MaxAttempts` times. `ShadowProxy` maps `claim` to the worker's id between its `mark`
and the UPDATE that ends its work, `found` to `sweep`, and the bound to the number of
boots that can happen.

### ReadApi

One reader at a time: `request` is what it does next, `answer` the summary so far,
`walk` the pages so far. `summary()` runs three SELECTs in one session, but no
snapshot protects them: the SQLite driver begins no transaction for a SELECT, and
PostgreSQL runs at READ COMMITTED. So every writer's step may come between them.
A page is the set of rows whose position in the list, the number of matching rows that
come before, lies between offset and offset + limit. That is what ORDER BY, OFFSET and
LIMIT select, without sorting anything.
`walk.existing`, `walk.left` and `walk.leaves` are history: the rows that matched at the
start, those that stopped to match since, and how often one did. (A row judged twice may
leave a list twice, and each time the rows behind it move up.)

### MismatchTape

Rows are numbered as offered. A `Take` is `get()` answered, a `Write` the INSERT and
COMMIT; the two are separate because `wait_for` suspends between them on Python 3.11.

### InferenceClient

`tries[c]` is what each turn of the loop met; its length is the loop's `attempt`. A
`posted` call holds a connection of its client's pool. Answers are a status and, below
400, one of three kinds of body: a completion, one that `_to_chat_response` turns into
`LLMCallError`, and one that raises something else (not JSON, `"message": null`).
`ChatStatus` is the status that `chat()` derives from the outcome.

### Startup

A launch picks an environment and a working directory and then runs `Override`, `Walk`
and `Module` (`_find_env_file`), followed by one action per step of `lifespan()` in the
order of `Order`. A step passes or raises; `by` records which one ended the boot. A path
is the directory it is in; `written`, `opened` and `warned` are the effects. `homes`
and `loaded` remember over launches which database was served and which `.env` found.

### Slips

An operator whose comment says "a slip" is not used by the specifications. It is a
plausible wrong version of the definition below it. `PROJECT.json` pairs each property
with such a slip; replacing the definition by it makes TLC violate the property.

## 3. Runs

| run | instance | question |
|---|---|---|
| `dispatcher` | 4 jobs, capacity 2, 2 workers, drain only | exact count, complete drain, implements the pool, liveness |
| `dispatcher_abort` | 5 jobs, abort or drain, 2 starts, late enqueues; symmetric jobs | what the double `task_done()` can and cannot do |
| `replica` | 1 replica, 2 workers, 2 calls, crash, stop; filesystem store | rows stay coherent under all concurrent writers |
| `faults` | 1 replica, drop_old, fail_closed, 1 I/O error, 1 crash, sampling on/off, answers that are not JSON, an id with a slash | durability, archives, counters, and verdicts that can be reproduced |
| `two_replicas` | 2 replicas, 1 call, 1 I/O error, 1 crash, 2 days; symmetric replicas | the same row in two hands; implements `RowLifecycle` |
| `settling` | 2 calls with one id, no raw store, 1 I/O error, 1 crash | everything ends |
| `tape` | 6 rows, queue of 2 | order, displacement, close |
| `table` | 3 rows, 1 handler, 1 sweeper, pages of 1, with and without a verdict filter | row coherence whoever writes; what readers miss |
| `client` | 2 primary and 2 candidate calls, pools of 1, `max_retries` 1 and -1, statuses 200, 401, 429, 503 | what is reported, starvation, implements `ModelCall` |
| `boot` | 2 launches, 3 working directories, all layouts and all settings of `MCStartup` | what happens before the first request |
| `claim_*` | smallest instance that shows it | see "Divergences" |

Why these bounds reach the interesting cases. Capacity is below the number of jobs,
so both overflow branches run; with 4 jobs a displaced job, a queued one and two
running ones exist at once. Two workers make the row-level races of a replica, two
replicas those of a deployment. One crash and one error suffice to put a failure
between any two steps and still observe the recovery: a crash is followed by a boot
with its requeue and sweeps. `SweepLimit` and `RequeueLimit` are 2; larger backlogs
than the limits are not checked. `LastDay = 2` gives one midnight. `MaxFaults` counts
failing storage calls and candidate answers whose body is not JSON.

`faults` gives the first call an id like `x/i3` (`i1`, with `Leaf[i1] = i3`), whose merge
writes an object that no row names, and the second call a plain id, so that the row of
the one stays without a candidate's answer in the archive and that of the other has one.
That no third row is touched when `i3` is a request too is left to the proofs
(`ArchiveIsGenuine`), which hold for every `Leaf`.

`table`: with pages of one row, three rows make a row be inserted before, at and behind
the reader's offset and leave from each of these places. The window of a summary begins
at the second of three values of `received_at`, so that rows inside and outside of it
exist. One handler, one sweeper and one attempt suffice, since each row is written by
itself; `RowLifecycleProofs` covers all numbers. Handler actions are not told apart
(`Actions` is empty). `MCUnanswered` stops the exploration where an answer was sent.

`client`: one connection per side lets a call of the own side, and only that, keep
another one waiting. One retry gives a first, a middle-free last attempt and a backoff;
-1 is the value that would skip the loop. `boot`: the two families of environments vary
what the settings say and where files are; each family keeps the other half as
shipped, since no step reads both.

Deadlock is checked in every run but `dispatcher_abort`; `Terminated` and `Quiescent`
name the states in which the system may rest. In `dispatcher_abort` the code itself can
stop for good: after an aborting `stop()` has left the count too low, the `task_done()`
of a restarted worker raises and ends its task, and once every worker has ended that way
a draining `stop()` waits for ever for a job that nobody will take. The fifth job is the
one that finds a full queue with the count at zero (`DisplaceRaises`).

### Properties worth knowing

* `UnfinishedExact`, `NeverOvercounts`: the count against queue and workers, without
  and with cancelled handlers.
* `ImplementsPool`: `Dispatcher` refines `JobPool` under `FateOf`, so a job runs at
  most once and is turned away only when `Capacity` jobs wait.
* `AckedIsDurable`: a 200 answer implies the row of that very call. Under fail_open it
  is stated for runs without I/O errors and repeated ids, where the code promises it.
* `ArchiveHoldsPrimary`: a key in a row never dangles, and the object's primary answer
  is the one whose action the row records (object store, distinct ids), unless the object
  is that of an id `b` over which a request `x/b` was merged. `OwnObject` excludes just
  that case, which the code does not prevent; it does not exclude the row of `x/b`.
* `VerdictReproducible`: the two answers in the archive compare as the row says, although
  merge and UPDATE are two steps and a crash between them makes the next boot ask again.
  The row of an id with a slash is left out: its object never gets the candidate's answer.
* `CountersCoverTable`: `GET /v1/metrics` and the offers to the tape trail the verdicts in
  the table by the handlers between their UPDATE and their counter (`Uncounted`), by those
  that failed there, and by nothing else.
* `RowCoherent`, `VerdictAgreesWithActions`: columns written by different writers at
  different times agree. For one replica: with two, two handlers may interleave their
  updates, and the code does not prevent it. `StatusAndVerdict` is what remains true then:
  status and verdict agree except in an in_progress row.
* `OnlySweepsOverwrite`: a judged row is touched again only by a sweep that had already
  selected it.
* `ImplementsLifecycle`: all that replicas do to the table is a `RowLifecycle`.
* `CleanShutdown`: once every replica was stopped gracefully, without errors and with
  drop_new, every call whose header said `X-Shadow-Enqueued: true` has a final status. The
  `replica` run checks it for one replica, `StopsAreClean` proves it for any number.
* `EventuallySettled`: from some point on no row is pending or in progress.
* `SummaryInOrder`: total, verdicts and percentiles of a summary are of three moments,
  but each counts at least the rows the one before it has counted.
* `PagesSkipOnlyForLeavers`: a walk through the pages misses at most as many of the rows
  that matched all the time as a row left the list meanwhile; without a verdict filter
  nothing leaves, so nothing is missed.
* `ChatTellsLastTry`, `PrimaryEnds`: the client hears of the last attempt; a primary call
  ends although candidates hang.
* `RefusedBeforeWriting`, `TasksStartLast`: which check comes before which effect.
  `ClientOverrulesOnlyNoKey`: the client's own key check ends a boot that the settings
  let through in one case, an empty key with dummy keys allowed, and in no other.
  `OneDatabasePerEnvFile`: launches that find the same `.env` open the same database.

### Fairness

`Dispatcher`: weak fairness of each worker and of the task in `stop()`; the event loop
runs ready tasks and handlers end, because each of their awaits is a storage call or a
model call with a timeout. `ShadowProxy`: the same for calls, workers, sweeps, startup
and drain; a replica that is down boots again (`restart: unless-stopped` in
`docker-compose.yml`); the clock moves. Nothing forces a client to call, a process to
die or stop, an error, or midnight. `MismatchTape`: the writer and the waiting
`aclose()`; the 2 s timeout is not fair, so `AcloseEnds` does not rest on it.
`InferenceClient`: weak fairness of the steps of a primary call, because `timeout_s`
bounds each phase of a request; none for a candidate, which may hang, and none for a
wait for a connection to time out, so `PrimaryEnds` rests on the separate pools. The
other modules state none and no liveness.

## 4. Proofs

`DispatcherProofs` holds for every capacity, number of workers, finite set of jobs and
policy, from the named assumptions of `JobQueue` and `Dispatcher` (the constructor's
`ValueError` checks, and that `NoJob` is not a job).

* `TypeCorrect`: `TypeOK` is inductive. `EnqueuedType` covers the queue's length.
* `AcceptedJobsInOnePlace`: `OnePlace` is inductive together with `TypeOK` and
  `Lifecycle` (no tasks before `start()` and after `stop()`). `Lifecycle` is needed
  because `Start` resets all tasks: without it a job could vanish there. `AppendFacts`
  and `TailFacts` say what the two ends of the queue do to its range.
* `UnfinishedIsExact`, `CountNeverExceedsWork`: `Counted`, the conjunction of the two, is
  inductive relative to the above. `OnePlace` is needed to know that the job a step
  changes was not already aborted; `CountFacts` handles the cardinality of the busy
  workers.
* `DrainIsHonoured`, `WorkersSurvive`: under `DrainsOnly` (every stop drains, nobody
  enqueues outside start and stop, which is how `main.py` uses it), `Draining` says that
  no handler was cancelled and that the count is zero past `join()`. With the exact
  count that leaves no job (`NothingLeft`), so `CancelHandling` can never happen.
* `DispatcherImplementsPool`: under `DrainsOnly` each step maps, under `FateOf`, to a step
  of `JobPool` or to a stutter (`PoolStep`, with one lemma per kind of step). `OnePlace`
  makes the fate of a job unique; the queue's length and the busy workers give the pool's
  room and servers (`RoomOfQueue`, `PoolServers`). `DrainsOnly` is needed: after an aborting
  stop the count can be zero with a full queue, and `DisplaceRaises` then gives up a job and
  takes none for it, which the pool never does.

`JobQueueProofs`, for every capacity, policy and queue that fits: `EnqueuedAllElements`
gives the length and the positions that `EnqueuedAll` keeps, from which `RequeueNothing`
(the empty loop) and `RequeueOneMore` (`EnqueuedAll` of `Append(s, j)` is `Enqueued` of
`j` after `EnqueuedAll` of `s`) follow. `RequeueLoop` puts them together for the whole
loop: queues `t[1], t[2], ...`, each `Enqueued` of the next id after the one before, end
in `EnqueuedAll`. No induction theorem can be used for it (their predicate is an operator
parameter); the first turn that goes wrong does as well. `LeastNatural` says that there
would be a first one, and follows from the library's order of finite sets by inclusion.

`RowLifecycleProofs`, for any sets of rows, handlers and sweepers and any bound on the
attempts, from the assumptions of `RowLifecycle` (`None` is not a row, `Statuses` are
values of `primary_status`): `PendingRowGood`, `MarkedGood` and `FinalizedGood` show
that each statement turns a good row into a good one with the same ingest columns.
Status and verdict alone are not inductive. `Good` adds that a failed row has no
attempts (`Unshadowed`), `ClaimedAnswered` that a handler has only rows with a primary
answer in hand, and `RowTypeOK` that what is in hand exists. From that follow
`StatusAgreesWithVerdict`, `FailedRowsAreNotShadowed` (stated by a theorem only) and
`IngestNeverRewritten`.

`ReadApiProofs`, for any sets of rows, handlers and sweepers, any page limit, windows and
filters, from `ReadApiAssumption` and those of `RowLifecycle`. `TableInv` adds to `RowInv`
that the table is finite and that no two rows have the same `received_at`. Its step rests
on a lemma: a step of a writer adds at most one row, and only by `InsertRow`
(`OneRowAtMost`).

* `SummaryPartsInOrder`: rows stay in their window (`WindowGrows`), and `SumOfTally` says
  that the counts of the verdicts add up to the rows that were grouped. For that the fold
  of `Sum` has to be evaluated: it is the only function that satisfies its recursion
  (`SumUnique`), and counting a partition is one (`SumOfPartition`).
* `WalkSkipsOnlyForLeavers`: `WalkInv` is about the rows that have matched all the time. Such
  a row that was not met yet stands before the offset only if others left the list since:
  the rows that are passed over (`Passed`) are at most as many as have left (`leaves`). A
  page moves nothing and meets every row in its stretch (`PlacesTaken`,
  `ShortPageIsLast`), a writer's step moves a row up by at most one position, and only if
  it takes a row out of the list (`MovesUp`).
* `ReadTypeCorrect`; and `ReadTableCoherent`, by which the theorems of `RowLifecycle` hold of
  a table that is read, since no read is a write.

`InferenceClientProofs`, for any number of calls, any integers as `max_retries`, any
pool size and set of statuses: `Inv` adds to the properties that a call that is not over
has a turn left (`TurnLeft`), which is what makes the last turn return. `ReturnKeeps`,
`TryAgainKeeps` and `WithinTurnKeeps` are the three shapes of a step. Results:
`ClientTypeCorrect`, `LastTryIsTold`, and `LoopImplementsCall`, the refinement of
`ModelCall`, for which `SentFacts` counts the turns that sent a request.

`MismatchTapeProofs`, for every queue size and number of rows: `Inv` follows a row through
queue, hand and tape (`QueueInOrder`, `HandBetween`, `TapeBeforeQueue`), which makes
`WrittenInOrder` inductive. For `RoomFromTheOldest` it adds that an open queue holds an
unbroken run of the latest rows (`Contiguous`): a full queue then tells how many rows were
offered after the displaced one. `SentinelLast` is what survives of that at a close.

`StartupProofs`, for every layout of directories, environment and number of launches:
`SecretsJudged` and `WarnedFirst` carry the result of the two checks through the rest of
the boot, `TasksLate` orders tasks and steps by the positions in `Order`, and
`HomesBesideEnv` ties every database opened so far to the `.env` files found so far.
Results: `SecretsBeforeDisk`, `OneJudgement` (the settings decide on every key but the
empty one), `OnlyTheQueryAbandons`, `WarnedBeforeWritten`, `SameEnvSameDatabase`.

### ShadowProxy

For any sets of calls, ids, replicas, workers and answers and any bounds, from the
assumptions `ShadowProxyAssumption` and `StorageAssumption` (the kinds of the constants;
that `None` and `Torn` are not rows or documents). Replicas, crashes, faults and
midnights are not bounded by the instance any more.

Part 1 of `ShadowProxyProofs` has `Places`, the invariant under all the others: the types,
and where things are. What a worker or a sweep works on is a row (`Handling`, `Selected`), a call in
flight has a serving replica (`Served`), a process that is down or booting has nothing in
its queue or its workers (`NotBefore`). `ProxyTypeCorrect` is not inductive without it: a
worker that marks a row needs the row to exist.

Part 2 states first what a step of a call, worker, sweeper, lifespan or
process does to the fields that properties talk about (`CallTurn`, `WorkerTurn`,
`SweepTurn`, `LifespanTurn`, `EndTurn`; `Turns` says that these are all steps). Above it
stand the invariants, each on top of `Places` and, where named, of another one:

| invariant | what it adds | gives |
|---|---|---|
| `OnceInv` | an id is queued nowhere before its INSERT, and not at its replica before the gate | `OneJobPerRequest` |
| `Acked` | a call past its INSERT has the row it wrote | `AnsweredIsOnRecord` |
| `CustodyInv` (`OnceInv`) | every copy of a call's text, in objects, rows and handlers, is that text, where no other id is merged into the object; an object with a key in use exists | `ArchiveIsGenuine` |
| `RowInv` (`CustodyInv`) | with one replica, a request in play is not judged and shows no candidate's action; what is merged is what is judged | `RowsAreCoherent`, `VerdictsMatchActions`, `VerdictsCanBeReplayed`, `JudgedRowsStay` |
| `PledgeInv` (`OnceInv`, `Acked`) | while nothing fails, a row in progress is with a worker, and an enqueued request is queued or with one until its row is final | `StopsAreClean` |
| `TallyInv` (`OnceInv`) | times of calls differ; attempts of a row do not exceed the process runs spent on it | `ProxyImplementsLifecycle` |
| `CoverInv` | until a first process ends none is stopping, and a verdict is ahead of its counters by waiting handlers and failures only | `CountersAccountForRows` |

`OnceInv` is what the rest hangs on. That no handler judges a row twice follows only if a
request comes into play at most once per boot, and by `find_all_unfinished` alone
(`ComesIntoPlay`), so that a judged row never does.

`ProxyImplementsLifecycle` is the step simulation of `RowLifecycle` under the mapping of
section 2, one lemma per statement on a row. Its assumption `BoundedWorld` is that calls
have ids of their own and that calls and replicas are finitely many. The first is needed:
under fail_open a call whose INSERT failed is still enqueued, and calls that share an id
can have one row attempted more often than there are boots. The second gives the
cardinalities a value; no process meets infinitely many calls. The bound on the attempts is
the hard part. `Runs` are the starts of processes so far, `Spent(i)` those in which `i` can
not be marked any more, `Budgeted` says that a row has no more attempts than spent runs,
and `MarkSpends` that each mark spends one.

With the refinement the theorems of `RowLifecycleProofs` hold of the proxy, for any number
of replicas: `ProxyStatusAgrees`, `ProxySparesFailedCalls`, `ProxyKeepsIngest`. `Table` is the
same instance as `Lifecycle`, taken of the module with the proofs; `TableAssumptions` shows
that the mapping meets the assumptions of `RowLifecycle`.

Part 4 proves `CountersAccountForRows`. Two counters may have to account for one judgement
(`mismatch` and `taped`), and they belong to the replica whose worker made it, while the
table shows the rows of all. `StepCounted` says that for each counter a step is of one of
four kinds. It adds no row to those that the counter has to cover, stops nobody from
waiting and leaves the counter alone (`Keeps`); it judges a row, whose handler waits from
then on (`Judges`); it ends such a wait and adds one at one replica (`Shows`); or it fails
(`Misses`), and `faults` grows. `SumOneMore` carries the third kind to the sum over the
replicas: a sum is the number of units that its terms consist of (`SumIsUnits`), so one
more at one place is one more in the sum. The assumptions are that replicas and workers
are finitely many: without that a sum, or the number of waiting handlers, has no value.

### Model-checked only

* Liveness, which like `ENABLED` is out of the prover's reach: `AcceptedSettles`,
  `StopCompletes`, `EventuallySettled`, `CallsEnd`, `RowsLeaveQueue`, `AcloseEnds`,
  `PrimaryEnds`.

Every safety and action property of a passing run is a theorem. Statements about recursive
operators do not occur, because no module declares one. What is open is which statements
about actions still hold of several replicas, see section 7.

## 5. Divergences

Shown by a run that violates a statement of the repository:

* `claim_sampled_out`: `docs/Architecture_Doc.md` 2 skips the shadow call of a sampled-out
  request. Its row stays pending, and the next boot enqueues it.
* `claim_same_object`: the candidate's answer is to be merged "into the same object"
  (document 3; the comment at `pipeline.py:379` says "Reuse the same key"). `put()` uses
  the date of the merge.


Seen while modelling, not kept as runs. About rows and verdicts:

* `docs/Architecture_Doc.md` 5.1 ends the life of a row at match, mismatch and invalid_json.
  `run_once` finalizes the ids of an earlier SELECT, so a row judged in between becomes
  `timeout_stale` with `candidate_error` (`sweeper.py:82`). `OnlySweepsOverwrite` says that
  nothing else overwrites it.
* The same section reserves invalid_json for "parse failure on either side". If the archive
  was not written or cannot be read, the primary's text is taken to be empty and the
  candidate is asked with no messages (`pipeline.py:367`).
* It also ends primary_error. Such a row stays pending; the sweeper relabels its verdict
  `primary_error` as `candidate_error`.
* A finalize without `candidate_action` keeps the column of an earlier judgement.
* The merge does not "reuse the same key" (`pipeline.py:379`) on the same day either, if
  the id has a slash: `X-Request-ID` is not validated (`chat.py:105`), and the last path
  component of the key of `x/b` is `b`. The document is written over that of the request
  `b`, which then has another call's answer; a verdict on `b` that is computed from there
  can contradict the row's `primary_action`. The object of `x/b` stays without a candidate.
* `GET /v1/metrics` shows fewer verdicts than the table between the COMMIT of an UPDATE
  and the increment behind it, and for good if closing the session raises.
* A repeated `X-Request-ID` overwrites the first answer's archive before its INSERT fails.
* Under fail_open a call whose INSERT failed is still enqueued; the document skips it.
* `fail_closed` re-raises the storage error, a 500; the document says 503.
* A crash while `FilesystemRawStore.put` writes leaves a truncated file under the row's key.
* A replica that boots requeues what live replicas are working on.
* The startup requeue ignores DROPPED; what does not fit waits for the sweeper.

About queue and tape:

* drop_old evicts a job whose client was told `X-Shadow-Enqueued: true`.
* `stop(drain=False)` can raise `ValueError` (`task_done()` twice per cancelled handler); no
  caller passes it.
* `MismatchTape.aclose` writes at most the row in the writer's hands, because the loop
  tests the stop event first; `docs/Architecture_Doc.md:750` says it is called "to flush
  the queue before exit".
* `dispatcher.type` accepts `redis_streams` and `kafka`; the in-process one is always used.

About the read API:

* With a verdict filter, rows leave the list as they are judged, the rest moves up, and
  the next offset passes over rows that matched all the time. `docs/Architecture_Doc.md:410`
  lists a cursor among the parameters; the code has none.
* The percentiles are taken over every row of the window that has the latency in question,
  judged or not, so they and the verdict counts rest on different sets of rows.

About the inference client:

* `docs/Architecture_Doc.md:703` retries the primary "on 429, 5xx, or connection errors" with
  a jittered backoff. The loop retries from 500 on, so a 429 ends the call at once
  (`do_inference.py:129`), and there is no jitter.
* A request that may have been carried out is sent again: a connection that breaks while
  the answer is read and every status from 500 on are retried (`do_inference.py:122`,
  `129`). Only a timeout is not.
* `timeout_s` bounds each phase of a request, not the whole.
* A 200 answer that cannot be read escapes `run_primary` as a 500 without a row; 401 and
  403 of the model service are passed on to the client as its own.

About the launch:

* `docs/Demo_Flow.md:266`: "Running from /tmp behaves identically to running from the repo
  root". If the walk from the working directory does not meet the `.env` and the package is
  installed outside the checkout, the anchor is the working directory, `/app` or the
  package's directory, and another database is opened (`settings.py:256`).
* `settings.py:157`: `SHADOW_PROXY_ALLOW_DUMMY_KEY` "lets the server boot without a valid DO
  key". The client refuses an empty key before it looks at `strict` (`do_inference.py:38`).
  `ClientOverrulesOnlyNoKey` states that nothing else is refused so.
* `do_inference.py:19`: the client's markers are "kept in sync with
  settings._DUMMY_KEY_MARKERS". They lack "change-me" and "secret-here".
* `README.md:134` has "test" among the markers that are refused. Neither list has it.
* `settings.py:56` looks for "a .env alongside a pyproject.toml". The loop takes any `.env`
  it comes across; `pyproject.toml` only ends the walk (`settings.py:75`).
* `raw_store_type: spaces` without a bucket means no raw store where dummy keys are allowed.

## 6. Not modelled

Auth, health, metrics and logs, redaction and hashing, the dashboard and the deployment
files have no state that the rest depends on. Of the read API: the detail and raw
endpoints (one read each), the filters on columns that never change, the values of
percentiles and rates. Of the settings: field validators (a failing one is an invalid
file), log levels, symbolic links. `compare_key` other than "action" (then
`extract_action` and the evaluator would look at different keys). SQL isolation beyond
atomic statements; a statement that raises is without effect, but for the UPDATE whose
session fails to close. Request ids that a file system maps to one path though they
differ (`..`, `a//b`); `FileStore` knows only distinct paths. Several readers at once:
they share nothing. Rows are never deleted, as in the code.

## 7. Plan

1. Done: all modules of section 2, their runs and the theorems of section 4. Every safety
   and action property that a passing run checks is a theorem.
2. `OnlySweepsOverwrite` and `RowCoherent` are stated for one replica. With several, the
   handlers of two replicas interleave; which weaker statements about actions still hold
   beyond `StatusAndVerdict` is open.
3. A model of several readers, once they share something: so far they do not.
