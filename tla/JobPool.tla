------------------------------- MODULE JobPool -------------------------------
(***************************************************************************)
(* What a bounded job pool promises to its callers, without a queue, tasks *)
(* or counters: at most Capacity jobs wait and at most Servers run, a job  *)
(* is turned away or displaced only when the waiting room is full, and a   *)
(* job runs at most once.  Dispatcher implements it.                       *)
(***************************************************************************)
EXTENDS Integers, FiniteSets

CONSTANTS Jobs, Capacity, Servers

VARIABLE fate          \* fate[j]: how far job j has come

Fates == {"new", "refused", "waiting", "running", "done", "displaced", "aborted"}

JobsIn(f) == {j \in Jobs : fate[j] = f}

RoomFull == Cardinality(JobsIn("waiting")) >= Capacity

Move(j, from, to) == fate[j] = from /\ fate' = [fate EXCEPT ![j] = to]

Init == fate = [j \in Jobs |-> "new"]

Accept(j) == ~RoomFull /\ Move(j, "new", "waiting")

Refuse(j) == RoomFull /\ Move(j, "new", "refused")

(* The newcomer takes the place of a waiting job, in one step.             *)
Displace(old, j) ==
    /\ RoomFull
    /\ fate[old] = "waiting" /\ fate[j] = "new"
    /\ fate' = [fate EXCEPT ![old] = "displaced", ![j] = "waiting"]

Run(j) ==
    /\ Cardinality(JobsIn("running")) < Servers
    /\ Move(j, "waiting", "running")

Finish(j) == Move(j, "running", "done")

(* The pool is shut down under the job: it never completes.                *)
Abort(j) == Move(j, "running", "aborted")

Next == \E j \in Jobs : \/ Accept(j) \/ Refuse(j) \/ Run(j) \/ Finish(j) \/ Abort(j)
                        \/ \E old \in Jobs : Displace(old, j)

Spec == Init /\ [][Next]_fate
=============================================================================
