------------------------------ MODULE JobQueue ------------------------------
(***************************************************************************)
(* The bounded asyncio.Queue behind InProcessDispatcher.enqueue            *)
(* (dispatcher/in_process.py), as operators on a sequence of jobs.  What   *)
(* happens on a full queue is the overflow policy of the configuration:    *)
(* "drop_new" refuses the job that arrives, "drop_old" removes the job at  *)
(* the head to make room.                                                  *)
(***************************************************************************)
EXTENDS Integers, Sequences

CONSTANT Capacity        \* asyncio.Queue(maxsize=capacity)

\* InProcessDispatcher.__init__ raises ValueError for anything smaller.
ASSUME CapacityAssumption == Capacity \in Nat \ {0}

Policies == {"drop_new", "drop_old"}

(* Off by one, in either direction.                                        *)
FullTooLate(q)  == Len(q) > Capacity
FullTooEarly(q) == Len(q) + 1 >= Capacity

Full(q) == Len(q) >= Capacity

(* enqueue(): ENQUEUED unless the queue is full under "drop_new".          *)
Accepts(policy, q) == ~Full(q) \/ policy = "drop_old"

(* A slip: after get_nowait() made room, the put_nowait(job) is forgotten. *)
EnqueuedLosesNew(policy, q, j) ==
    IF ~Full(q) THEN Append(q, j) ELSE IF policy = "drop_old" THEN Tail(q) ELSE q

(* The queue after enqueue(j).                                             *)
Enqueued(policy, q, j) ==
    IF ~Full(q) THEN Append(q, j)
    ELSE IF policy = "drop_old" THEN Append(Tail(q), j)
    ELSE q

(* The queue after a loop of enqueue() calls with no suspension between    *)
(* them, as in requeue_all_unfinished: "drop_new" keeps what fits of s,    *)
(* "drop_old" keeps the last Capacity jobs of q followed by s.             *)
EnqueuedAll(policy, q, s) ==
    LET all   == q \o s
        over  == IF Len(all) > Capacity THEN Len(all) - Capacity ELSE 0
    IN  IF policy = "drop_old"
        THEN SubSeq(all, over + 1, Len(all))
        ELSE SubSeq(all, 1, Len(all) - over)
=============================================================================
