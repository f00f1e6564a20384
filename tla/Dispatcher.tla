----------------------------- MODULE Dispatcher -----------------------------
(***************************************************************************)
(* InProcessDispatcher (src/shadow_proxy/dispatcher/in_process.py): a      *)
(* bounded asyncio.Queue, its count of unfinished tasks, a pool of worker  *)
(* tasks, and start / enqueue / stop.  An action is the code a task runs   *)
(* between two awaits: the event loop interleaves tasks only there.        *)
(*                                                                         *)
(* asyncio.Queue itself is outside src/.  Modelled from its use: get()     *)
(* hands out the head to whichever waiting worker runs first, put_nowait() *)
(* adds one to the unfinished count, task_done() subtracts one and raises  *)
(* ValueError at zero, join() suspends while the count is not zero and is  *)
(* woken by the task_done() that brings it to zero.                        *)
(*                                                                         *)
(* Left out: logging, metrics, depth(); start() while a stop() is pending  *)
(* or after one that raised; a second stop(), which returns at once        *)
(* because _running is already False and changes nothing.                  *)
(***************************************************************************)
EXTENDS JobQueue, FiniteSets, Functions

CONSTANTS Jobs,          \* the jobs callers may enqueue, each at most once
          NoJob,         \* what a worker holds when it holds no job
          Servers,       \* workers: how many tasks start() creates
          DrainModes,    \* the values of drain that stop() is called with
          LateEnqueue,   \* do callers enqueue while the dispatcher is not running?
          MaxStarts      \* bound on the number of start() calls that start tasks

ASSUME ServersAssumption    == Servers \in Nat \ {0}
ASSUME DrainModesAssumption == DrainModes \subseteq BOOLEAN /\ LateEnqueue \in BOOLEAN
ASSUME JobsAssumption       == IsFiniteSet(Jobs) /\ NoJob \notin Jobs /\ MaxStarts \in Nat

Workers == 1 .. Servers

VARIABLES
    policy,       \* self._policy, fixed at construction
    queue,        \* the jobs in self._queue
    unfinished,   \* self._queue._unfinished_tasks
    running,      \* self._running
    task,         \* task[w]: where worker task w is
    job,          \* job[w]: the job whose handler worker w awaits
    stop,         \* where the task that called stop() is
    starts,       \* number of effective start() calls so far
    outcome       \* outcome[j]: what became of job j, as its callers saw it

vars == <<policy, queue, unfinished, running, task, job, stop, starts, outcome>>

(* A task is created by start(), waits in queue.get(), runs a handler, and *)
(* ends with CancelledError or with the ValueError of task_done().         *)
TaskStates == {"absent", "get", "handle", "cancelled", "failed"}
StopStates == {"idle", "joining", "joined", "reaping", "returned", "raised"}
Outcomes   == {"new", "refused", "accepted", "handled", "displaced", "aborted"}

Busy == {w \in Workers : task[w] = "handle"}

(* Every task got t.cancel() and its next step will be CancelledError.     *)
CancelRequested == stop \in {"reaping", "raised"}

TypeOK ==
    /\ policy \in Policies
    /\ queue \in Seq(Jobs)
    /\ Len(queue) <= Capacity
    /\ unfinished \in Nat
    /\ running \in BOOLEAN
    /\ task \in [Workers -> TaskStates]
    /\ job \in [Workers -> Jobs \cup {NoJob}]
    /\ stop \in StopStates
    /\ starts \in 0 .. MaxStarts
    /\ outcome \in [Jobs -> Outcomes]

Init ==
    /\ policy \in Policies
    /\ queue = <<>>
    /\ unfinished = 0
    /\ running = FALSE
    /\ task = [w \in Workers |-> "absent"]
    /\ job = [w \in Workers |-> NoJob]
    /\ stop = "idle"
    /\ starts = 0
    /\ outcome = [j \in Jobs |-> "new"]

-----------------------------------------------------------------------------
(* Slips of the count: task_done() is skipped when the handler raises, or  *)
(* runs in the except clause as well as in the finally clause.             *)
TaskDoneSkipped(n) == n
TaskDoneTwice(n)   == IF n > 1 THEN n - 2 ELSE 0

(* task_done() on a count of n; it raises ValueError when n is zero.       *)
TaskDone(n) == IF n > 0 THEN n - 1 ELSE 0

(* A slip: the event that join() waits for is set by every task_done().    *)
WakeJoinEarly(n) == IF stop = "joining" THEN "joined" ELSE stop

(* Where stop() is after a task_done() that left n unfinished.             *)
WakeJoin(n) == IF stop = "joining" /\ n = 0 THEN "joined" ELSE stop

(* A slip: the exception of a handler escapes the worker loop.             *)
AfterHandlerEnds(n) == "failed"

(* The worker after its handler ended and task_done() ran on a count of n. *)
AfterHandler(n) == IF n > 0 THEN "get" ELSE "failed"

(* start(): nothing when already running; otherwise one task per worker.   *)
Start ==
    /\ ~running
    /\ stop \in {"idle", "returned"}
    /\ starts < MaxStarts
    /\ starts' = starts + 1
    /\ running' = TRUE
    /\ stop' = "idle"
    /\ task' = [w \in Workers |-> "get"]
    /\ UNCHANGED <<policy, queue, unfinished, job, outcome>>

(* enqueue() while the dispatcher runs; it does not look at _running, so   *)
(* LateEnqueue admits the callers that enqueue at any other time.          *)
MayEnqueue(j) == outcome[j] = "new" /\ (running \/ LateEnqueue)

(* put_nowait() finds room.                                                *)
Accept(j) ==
    /\ MayEnqueue(j)
    /\ ~Full(queue)
    /\ queue' = Enqueued(policy, queue, j)
    /\ unfinished' = unfinished + 1
    /\ outcome' = [outcome EXCEPT ![j] = "accepted"]
    /\ UNCHANGED <<policy, running, task, job, stop, starts>>

(* QueueFull under "drop_old": get_nowait(), task_done(), put_nowait().    *)
(* task_done() may bring the count to zero and wake join() although the    *)
(* put that follows raises it again.                                       *)
Displace(j) ==
    /\ MayEnqueue(j)
    /\ Full(queue)
    /\ policy = "drop_old"
    /\ unfinished > 0
    /\ queue' = Enqueued(policy, queue, j)
    /\ unfinished' = TaskDone(unfinished) + 1
    /\ stop' = WakeJoin(TaskDone(unfinished))
    /\ outcome' = [outcome EXCEPT ![Head(queue)] = "displaced", ![j] = "accepted"]
    /\ UNCHANGED <<policy, running, task, job, starts>>

(* QueueFull under "drop_old" with the count already at zero (only after   *)
(* an aborting stop() miscounted): task_done() raises ValueError out of    *)
(* enqueue() after get_nowait() removed the head, so both jobs are gone.   *)
DisplaceRaises(j) ==
    /\ MayEnqueue(j)
    /\ Full(queue)
    /\ policy = "drop_old"
    /\ unfinished = 0
    /\ queue' = Tail(queue)
    /\ outcome' = [outcome EXCEPT ![Head(queue)] = "displaced", ![j] = "refused"]
    /\ UNCHANGED <<policy, unfinished, running, task, job, stop, starts>>

(* QueueFull under "drop_new": DispatchStatus.DROPPED.                     *)
Refuse(j) ==
    /\ MayEnqueue(j)
    /\ ~Accepts(policy, queue)
    /\ outcome' = [outcome EXCEPT ![j] = "refused"]
    /\ UNCHANGED <<policy, queue, unfinished, running, task, job, stop, starts>>

-----------------------------------------------------------------------------
(* stop(drain) of a running dispatcher, up to its first suspension.        *)
Stop(drain) ==
    /\ running
    /\ running' = FALSE
    /\ stop' = IF drain /\ unfinished > 0 THEN "joining" ELSE "reaping"
    /\ UNCHANGED <<policy, queue, unfinished, task, job, starts, outcome>>

(* join() has returned: every task is cancelled.                           *)
CancelTasks ==
    /\ stop = "joined"
    /\ stop' = "reaping"
    /\ UNCHANGED <<policy, queue, unfinished, running, task, job, starts, outcome>>

(* The awaited tasks all ended with CancelledError: stop() clears its list *)
(* of tasks and returns.                                                   *)
StopReturns ==
    /\ stop = "reaping"
    /\ \A w \in Workers : task[w] = "cancelled"
    /\ stop' = "returned"
    /\ task' = [w \in Workers |-> "absent"]
    /\ UNCHANGED <<policy, queue, unfinished, running, job, starts, outcome>>

(* An awaited task ended with ValueError, which stop() does not catch.     *)
StopRaises ==
    /\ stop = "reaping"
    /\ \E w \in Workers : /\ task[w] = "failed"
                          /\ \A v \in 1 .. (w - 1) : task[v] = "cancelled"
    /\ stop' = "raised"
    /\ UNCHANGED <<policy, queue, unfinished, running, task, job, starts, outcome>>

-----------------------------------------------------------------------------
(* queue.get() returns the head and the worker awaits the handler on it.   *)
Dequeue(w) ==
    /\ task[w] = "get"
    /\ ~CancelRequested
    /\ queue # <<>>
    /\ queue' = Tail(queue)
    /\ task' = [task EXCEPT ![w] = "handle"]
    /\ job' = [job EXCEPT ![w] = Head(queue)]
    /\ UNCHANGED <<policy, unfinished, running, stop, starts, outcome>>

(* The handler returns, or raises an Exception that is logged; either way  *)
(* task_done() runs once and the worker goes back to get().                *)
Finish(w) ==
    /\ task[w] = "handle"
    /\ ~CancelRequested
    /\ job' = [job EXCEPT ![w] = NoJob]
    /\ outcome' = [outcome EXCEPT ![job[w]] = "handled"]
    /\ task' = [task EXCEPT ![w] = AfterHandler(unfinished)]
    /\ unfinished' = TaskDone(unfinished)
    /\ stop' = WakeJoin(TaskDone(unfinished))
    /\ UNCHANGED <<policy, queue, running, starts>>

(* CancelledError reaches a worker suspended in get(): the task ends.      *)
CancelWaiting(w) ==
    /\ CancelRequested
    /\ task[w] = "get"
    /\ task' = [task EXCEPT ![w] = "cancelled"]
    /\ UNCHANGED <<policy, queue, unfinished, running, job, stop, starts, outcome>>

(* CancelledError reaches a worker inside the handler: task_done() runs in *)
(* the except clause and again in the finally clause, and whichever call   *)
(* finds the count at zero replaces CancelledError by ValueError.          *)
CancelHandling(w) ==
    /\ CancelRequested
    /\ task[w] = "handle"
    /\ task' = [task EXCEPT ![w] = IF unfinished >= 2 THEN "cancelled" ELSE "failed"]
    /\ job' = [job EXCEPT ![w] = NoJob]
    /\ unfinished' = TaskDone(TaskDone(unfinished))
    /\ outcome' = [outcome EXCEPT ![job[w]] = "aborted"]
    /\ UNCHANGED <<policy, queue, running, stop, starts>>

-----------------------------------------------------------------------------
Caller == \/ Start
          \/ \E j \in Jobs : Accept(j) \/ Displace(j) \/ DisplaceRaises(j) \/ Refuse(j)
          \/ \E drain \in DrainModes : Stop(drain)

Stopper == CancelTasks \/ StopReturns \/ StopRaises

Worker(w) == Dequeue(w) \/ Finish(w) \/ CancelWaiting(w) \/ CancelHandling(w)

(* Stopped for good: the lifespan has ended.                               *)
Terminated == ~running /\ stop \in {"returned", "raised"} /\ UNCHANGED vars

Next == Caller \/ Stopper \/ Terminated \/ \E w \in Workers : Worker(w)

(* The event loop runs every ready task, and a handler ends: each await in *)
(* CandidateHandler is a storage call or a model call with a timeout.      *)
Fairness == WF_vars(Stopper) /\ \A w \in Workers : WF_vars(Worker(w))

Spec == Init /\ [][Next]_vars /\ Fairness

-----------------------------------------------------------------------------
(* What unfinished has to count for join() to mean anything.               *)
Outstanding == Len(queue) + Cardinality(Busy)

(* As long as no handler was cancelled, _unfinished_tasks is exactly the   *)
(* jobs that wait plus the jobs that run, through overflow, handler errors *)
(* and drains: join() neither returns early nor hangs.                     *)
UnfinishedExact ==
    (\A j \in Jobs : outcome[j] # "aborted") => unfinished = Outstanding

(* Whatever stop() did to the count, it never exceeds the outstanding      *)
(* work: a drain can miss work but cannot wait for work that is not there. *)
NeverOvercounts == unfinished <= Outstanding

(* A job that enqueue() acknowledged and nobody finished, displaced or     *)
(* aborted is in exactly one place: one position of the queue or the hands *)
(* of one worker.  No await point of the worker loop loses or copies it.   *)
OnePlace ==
    /\ \A i, k \in DOMAIN queue : queue[i] = queue[k] => i = k
    /\ \A v, w \in Busy : job[v] = job[w] => v = w
    /\ \A w \in Busy : job[w] \notin Range(queue)
    /\ {j \in Jobs : outcome[j] = "accepted"} = Range(queue) \cup {job[w] : w \in Busy}

(* stop(drain=True) "waits for in-flight jobs to complete before           *)
(* returning": once it is past join(), no acknowledged job is left, in the *)
(* queue or at a worker.                                                   *)
DrainHonoured ==
    stop \in {"joined", "reaping", "returned"} => \A j \in Jobs : outcome[j] # "accepted"

(* "Handler errors are logged but must not crash the worker": no worker    *)
(* task ends with an exception, and stop() never propagates one.           *)
NoWorkerDies == (\A w \in Workers : task[w] # "failed") /\ stop # "raised"

(* Every acknowledged job is eventually handled or displaced.              *)
AcceptedSettles ==
    \A j \in Jobs : outcome[j] = "accepted" ~> outcome[j] \in {"handled", "displaced"}

(* stop(drain=True) returns: nobody waits for a count that cannot fall.    *)
StopCompletes == stop = "joining" ~> stop = "returned"

(* The pool that callers were promised.                                    *)
FateOf(j) ==
    CASE outcome[j] = "accepted" /\ j \in Range(queue)    -> "waiting"
      [] outcome[j] = "accepted" /\ j \notin Range(queue) -> "running"
      [] outcome[j] = "handled"                           -> "done"
      [] OTHER                                            -> outcome[j]

Pool == INSTANCE JobPool WITH fate <- [j \in Jobs |-> FateOf(j)]

(* The queue, the tasks and the count implement the bounded pool: a job    *)
(* runs at most once and is turned away only when Capacity jobs wait.      *)
ImplementsPool == Pool!Spec
=============================================================================
