-------------------------- MODULE DispatcherProofs --------------------------
(***************************************************************************)
(* Proofs about Dispatcher for every capacity, number of workers, set of   *)
(* jobs and overflow policy.                                               *)
(***************************************************************************)
EXTENDS Dispatcher, JobQueueProofs, FiniteSetTheorems, TLAPS

USE DEF CapacityAssumption, ServersAssumption, DrainModesAssumption, JobsAssumption

(* The variables of the dispatcher keep their types, and the queue never   *)
(* grows past its capacity, whatever the callers do.                       *)
THEOREM TypeCorrect == Spec => []TypeOK
<1>1. Init => TypeOK
  <2> SUFFICES ASSUME Init PROVE TypeOK
    OBVIOUS
  <2>1. queue \in Seq(Jobs) /\ Len(queue) <= Capacity
    BY CapacityAssumption DEF Init
  <2>2. unfinished = 0 /\ running = FALSE /\ starts = 0
    BY DEF Init
  <2>4. unfinished \in Nat /\ starts \in 0 .. MaxStarts
    BY <2>2, JobsAssumption
  <2>3. /\ task \in [Workers -> TaskStates]
        /\ job \in [Workers -> Jobs \cup {NoJob}]
        /\ stop \in StopStates
        /\ outcome \in [Jobs -> Outcomes]
    BY DEF Init, TaskStates, StopStates, Outcomes
  <2> QED
    BY <2>1, <2>2, <2>3, <2>4 DEF Init, TypeOK
<1>2. TypeOK /\ [Next]_vars => TypeOK'
  <2> SUFFICES ASSUME TypeOK, [Next]_vars PROVE TypeOK'
    OBVIOUS
  <2> USE DEF TypeOK, TaskStates, StopStates, Outcomes
  <2>1. CASE Start
    BY <2>1, JobsAssumption DEF Start
  <2>2. ASSUME NEW j \in Jobs, Accept(j) PROVE TypeOK'
    BY <2>2, EnqueuedType DEF Accept
  <2>3. ASSUME NEW j \in Jobs, Displace(j) PROVE TypeOK'
    <3>1. queue' \in Seq(Jobs) /\ Len(queue)' <= Capacity
      BY <2>3, EnqueuedType DEF Displace
    <3>2. unfinished' \in Nat
      BY <2>3 DEF Displace, TaskDone
    <3>3. stop' \in StopStates
      BY <2>3 DEF Displace, WakeJoin
    <3> QED
      BY <2>3, <3>1, <3>2, <3>3 DEF Displace
  <2>4. ASSUME NEW j \in Jobs, DisplaceRaises(j) PROVE TypeOK'
    <3>1. Capacity \in Nat \ {0} /\ Len(queue) >= Capacity
      BY <2>4, CapacityAssumption DEF DisplaceRaises, Full
    <3>2. queue # <<>> /\ Tail(queue) \in Seq(Jobs) /\ Len(Tail(queue)) = Len(queue) - 1
      BY <3>1
    <3> QED
      BY <2>4, <3>1, <3>2 DEF DisplaceRaises
  <2>5. ASSUME NEW j \in Jobs, Refuse(j) PROVE TypeOK'
    BY <2>5 DEF Refuse
  <2>6. ASSUME NEW drain \in DrainModes, Stop(drain) PROVE TypeOK'
    BY <2>6 DEF Stop
  <2>7. CASE Stopper
    BY <2>7 DEF Stopper, CancelTasks, StopReturns, StopRaises
  <2>8. ASSUME NEW w \in Workers, Dequeue(w) PROVE TypeOK'
    <3>1. queue # <<>> /\ Tail(queue) \in Seq(Jobs) /\ Len(Tail(queue)) = Len(queue) - 1
          /\ Head(queue) \in Jobs
      BY <2>8 DEF Dequeue
    <3> QED
      BY <2>8, <3>1, CapacityAssumption DEF Dequeue
  <2>9. ASSUME NEW w \in Workers, Finish(w) PROVE TypeOK'
    <3>1. unfinished' \in Nat
      BY <2>9 DEF Finish, TaskDone
    <3>2. stop' \in StopStates
      BY <2>9 DEF Finish, WakeJoin
    <3>3. AfterHandler(unfinished) \in TaskStates
      BY DEF AfterHandler
    <3> QED
      BY <2>9, <3>1, <3>2, <3>3 DEF Finish
  <2>10. ASSUME NEW w \in Workers, CancelWaiting(w) PROVE TypeOK'
    BY <2>10 DEF CancelWaiting
  <2>11. ASSUME NEW w \in Workers, CancelHandling(w) PROVE TypeOK'
    <3>1. unfinished' \in Nat
      BY <2>11 DEF CancelHandling, TaskDone
    <3>2. task' \in [Workers -> TaskStates]
      BY <2>11 DEF CancelHandling
    <3>3. job' \in [Workers -> Jobs \cup {NoJob}] /\ outcome' \in [Jobs -> Outcomes]
      BY <2>11 DEF CancelHandling
    <3> QED
      BY <2>11, <3>1, <3>2, <3>3 DEF CancelHandling
  <2>12. CASE UNCHANGED vars
    BY <2>12 DEF vars
  <2> QED
    BY <2>1, <2>2, <2>3, <2>4, <2>5, <2>6, <2>7, <2>8, <2>9, <2>10, <2>11, <2>12
       DEF Next, Caller, Worker, Terminated
<1> QED
  BY <1>1, <1>2, PTL DEF Spec

-----------------------------------------------------------------------------
(* Before start() and after stop() there are no tasks; while the           *)
(* dispatcher runs, no stop() is pending.                                  *)
Lifecycle ==
    /\ running => stop = "idle"
    /\ (~running /\ stop \in {"idle", "returned"}) =>
           \A w \in Workers : task[w] = "absent"

LEMMA LifecycleStep == TypeOK /\ Lifecycle /\ [Next]_vars => Lifecycle'
<1> SUFFICES ASSUME TypeOK, Lifecycle, [Next]_vars PROVE Lifecycle'
  OBVIOUS
<1> USE DEF TypeOK, Lifecycle, TaskStates
<1>1. CASE Start
  BY <1>1 DEF Start
<1>2. ASSUME NEW j \in Jobs, Accept(j) \/ DisplaceRaises(j) \/ Refuse(j) PROVE Lifecycle'
  BY <1>2 DEF Accept, DisplaceRaises, Refuse
<1>3. ASSUME NEW j \in Jobs, Displace(j) PROVE Lifecycle'
  BY <1>3 DEF Displace, WakeJoin
<1>4. ASSUME NEW drain \in DrainModes, Stop(drain) PROVE Lifecycle'
  BY <1>4 DEF Stop
<1>5. CASE CancelTasks \/ StopReturns \/ StopRaises
  BY <1>5 DEF CancelTasks, StopReturns, StopRaises
<1>6. ASSUME NEW w \in Workers, Dequeue(w) PROVE Lifecycle'
  BY <1>6 DEF Dequeue
<1>7. ASSUME NEW w \in Workers, Finish(w) PROVE Lifecycle'
  BY <1>7 DEF Finish, WakeJoin
<1>8. ASSUME NEW w \in Workers, CancelWaiting(w) \/ CancelHandling(w) PROVE Lifecycle'
  BY <1>8 DEF CancelWaiting, CancelHandling, CancelRequested
<1>9. CASE UNCHANGED vars
  BY <1>9 DEF vars
<1> QED
  BY <1>1, <1>2, <1>3, <1>4, <1>5, <1>6, <1>7, <1>8, <1>9
     DEF Next, Caller, Stopper, Worker, Terminated

-----------------------------------------------------------------------------
Accepted == {j \in Jobs : outcome[j] = "accepted"}
Held     == {job[w] : w \in Busy}

(* OnePlace in the terms of the lemmas above.                              *)
LEMMA OnePlaceAlt ==
    OnePlace <=> /\ Distinct(queue)
                 /\ \A v, w \in Busy : job[v] = job[w] => v = w
                 /\ Held \cap Range(queue) = {}
                 /\ Accepted = Range(queue) \cup Held
  BY DEF OnePlace, Distinct, Accepted, Held

LEMMA OnePlaceStep == TypeOK /\ Lifecycle /\ OnePlace /\ [Next]_vars => OnePlace'
<1> SUFFICES ASSUME TypeOK, Lifecycle, OnePlace, [Next]_vars PROVE OnePlace'
  OBVIOUS
<1> DEFINE NoSharing == \A v, w \in Busy : job[v] = job[w] => v = w
<1>a. /\ Distinct(queue) /\ NoSharing
      /\ Held \cap Range(queue) = {}
      /\ Accepted = Range(queue) \cup Held
  BY OnePlaceAlt
<1>b. SUFFICES /\ Distinct(queue') /\ NoSharing'
               /\ Held' \cap Range(queue') = {}
               /\ Accepted' = Range(queue') \cup Held'
  BY DEF OnePlace, Distinct, Accepted, Held
<1>c. /\ queue \in Seq(Jobs) /\ outcome \in [Jobs -> Outcomes]
      /\ task \in [Workers -> TaskStates] /\ job \in [Workers -> Jobs \cup {NoJob}]
  BY DEF TypeOK
<1>1. CASE Start
  <2>1. Busy = {} /\ Busy' = {}
    BY <1>1, <1>c DEF Start, Lifecycle, Busy
  <2> QED
    BY <1>1, <1>a, <2>1 DEF Start, Accepted, Held
<1>2. ASSUME NEW j \in Jobs, Accept(j) PROVE <1>b!1
  <2>1. j \notin Range(queue) /\ j \notin Held
    BY <1>2, <1>a DEF Accept, MayEnqueue, Accepted
  <2>2. queue' = Append(queue, j)
    BY <1>2 DEF Accept, Enqueued
  <2>3. Distinct(queue') /\ Range(queue') = Range(queue) \cup {j}
    BY <1>a, <1>c, <2>1, <2>2, AppendFacts
  <2>4. Busy' = Busy /\ Held' = Held /\ NoSharing'
    BY <1>2, <1>a DEF Accept, Busy, Held
  <2>5. Accepted' = Accepted \cup {j}
    BY <1>2, <1>c DEF Accept, Accepted
  <2> QED
    BY <1>a, <2>1, <2>3, <2>4, <2>5
<1>3. ASSUME NEW j \in Jobs, Displace(j) PROVE <1>b!1
  <2>1. j \notin Range(queue) /\ j \notin Held
    BY <1>3, <1>a DEF Displace, MayEnqueue, Accepted
  <2>2. queue # <<>> /\ queue' = Append(Tail(queue), j)
    BY <1>3, CapacityAssumption DEF Displace, Enqueued, Full
  <2>3. /\ Head(queue) \in Range(queue) /\ Tail(queue) \in Seq(Jobs)
        /\ Distinct(Tail(queue)) /\ Range(Tail(queue)) = Range(queue) \ {Head(queue)}
    BY <1>a, <1>c, <2>2, TailFacts
  <2>4. /\ Distinct(queue')
        /\ Range(queue') = (Range(queue) \ {Head(queue)}) \cup {j}
    <3>1. PICK q \in Seq(Jobs) : q = Tail(queue)
      BY <2>3
    <3>2. /\ Range(Append(q, j)) = Range(q) \cup {j}
          /\ Distinct(q) /\ j \notin Range(q) => Distinct(Append(q, j))
      BY AppendFacts
    <3> QED
      BY <2>1, <2>2, <2>3, <3>1, <3>2, Zenon
  <2>5. Busy' = Busy /\ Held' = Held /\ NoSharing'
    BY <1>3, <1>a DEF Displace, Busy, Held
  <2>6. Head(queue) # j /\ Head(queue) \notin Held /\ Head(queue) \in Jobs
    BY <1>a, <2>1, <2>3 DEF Accepted
  <2>7. Accepted' = (Accepted \ {Head(queue)}) \cup {j}
    BY <1>3, <1>c, <2>6 DEF Displace, Accepted
  <2> QED
    BY <1>a, <2>1, <2>4, <2>5, <2>6, <2>7
<1>4. ASSUME NEW j \in Jobs, DisplaceRaises(j) PROVE <1>b!1
  <2>1. j \notin Range(queue) /\ j \notin Held
    BY <1>4, <1>a DEF DisplaceRaises, MayEnqueue, Accepted
  <2>2. queue # <<>> /\ queue' = Tail(queue)
    BY <1>4, CapacityAssumption DEF DisplaceRaises, Full
  <2>3. /\ Head(queue) \in Range(queue)
        /\ Distinct(queue') /\ Range(queue') = Range(queue) \ {Head(queue)}
    BY <1>a, <1>c, <2>2, TailFacts
  <2>4. Busy' = Busy /\ Held' = Held /\ NoSharing'
    BY <1>4, <1>a DEF DisplaceRaises, Busy, Held
  <2>5. Head(queue) # j /\ Head(queue) \notin Held /\ Head(queue) \in Jobs
    BY <1>a, <2>1, <2>3 DEF Accepted
  <2>6. Accepted' = Accepted \ {Head(queue)}
    BY <1>4, <1>c, <1>a, <2>1, <2>5 DEF DisplaceRaises, Accepted
  <2> QED
    BY <1>a, <2>3, <2>4, <2>5, <2>6
<1>5. ASSUME NEW j \in Jobs, Refuse(j) PROVE <1>b!1
  <2>1. Busy' = Busy /\ Held' = Held /\ NoSharing' /\ queue' = queue
    BY <1>5, <1>a DEF Refuse, Busy, Held
  <2>2. Accepted' = Accepted
    BY <1>5, <1>c DEF Refuse, MayEnqueue, Accepted
  <2> QED
    BY <1>a, <2>1, <2>2
<1>6. ASSUME NEW drain \in DrainModes, Stop(drain) PROVE <1>b!1
  BY <1>6, <1>a DEF Stop, Busy, Held, Accepted
<1>7. CASE CancelTasks \/ StopRaises
  BY <1>7, <1>a DEF CancelTasks, StopRaises, Busy, Held, Accepted
<1>8. CASE StopReturns
  <2>1. Busy = {} /\ Busy' = {}
    BY <1>8, <1>c DEF StopReturns, Busy
  <2> QED
    BY <1>8, <1>a, <2>1 DEF StopReturns, Accepted, Held
<1>9. ASSUME NEW w \in Workers, Dequeue(w) PROVE <1>b!1
  <2>1. /\ Head(queue) \in Range(queue)
        /\ Distinct(queue') /\ Range(queue') = Range(queue) \ {Head(queue)}
    BY <1>9, <1>a, <1>c, TailFacts DEF Dequeue
  <2>2. w \notin Busy /\ Busy' = Busy \cup {w}
    BY <1>9, <1>c DEF Dequeue, Busy
  <2>3. job'[w] = Head(queue) /\ \A v \in Busy : job'[v] = job[v]
    BY <1>9, <1>c, <2>2 DEF Dequeue, Busy
  <2>4. Held' = Held \cup {Head(queue)}
    BY <2>2, <2>3 DEF Held
  <2>5. NoSharing'
    BY <1>a, <2>1, <2>2, <2>3 DEF Held
  <2>6. Accepted' = Accepted
    BY <1>9 DEF Dequeue, Accepted
  <2> QED
    BY <1>a, <2>1, <2>4, <2>5, <2>6
<1>10. ASSUME NEW w \in Workers, Finish(w) \/ CancelHandling(w) PROVE <1>b!1
  <2>1. w \in Busy /\ Busy' = Busy \ {w} /\ queue' = queue
    BY <1>10, <1>c DEF Finish, CancelHandling, Busy, AfterHandler
  <2>2. \A v \in Busy' : job'[v] = job[v]
    BY <1>10, <1>c, <2>1 DEF Finish, CancelHandling, Busy
  <2>3. Held' = Held \ {job[w]} /\ NoSharing'
    BY <1>a, <2>1, <2>2 DEF Held
  <2>4. job[w] \in Held /\ job[w] \in Jobs
    BY <1>a, <2>1 DEF Held, Accepted
  <2>5. Accepted' = Accepted \ {job[w]}
    BY <1>10, <1>c, <2>4 DEF Finish, CancelHandling, Accepted
  <2> QED
    BY <1>a, <2>1, <2>3, <2>4, <2>5
<1>11. ASSUME NEW w \in Workers, CancelWaiting(w) PROVE <1>b!1
  <2>1. Busy' = Busy
    BY <1>11, <1>c DEF CancelWaiting, Busy
  <2> QED
    BY <1>11, <1>a, <2>1 DEF CancelWaiting, Held, Accepted
<1>12. CASE UNCHANGED vars
  BY <1>12, <1>a DEF vars, Busy, Held, Accepted
<1> QED
  BY <1>1, <1>2, <1>3, <1>4, <1>5, <1>6, <1>7, <1>8, <1>9, <1>10, <1>11, <1>12
     DEF Next, Caller, Stopper, Worker, Terminated

(* Every acknowledged job that is not finished, displaced or aborted is in *)
(* exactly one place, under overflow, handler errors, cancellation, late   *)
(* enqueues and restarts.                                                  *)
THEOREM AcceptedJobsInOnePlace == Spec => []OnePlace
<1>1. Init => Lifecycle /\ OnePlace
  <2> SUFFICES ASSUME Init PROVE Lifecycle /\ OnePlace
    OBVIOUS
  <2>1. Busy = {} /\ queue = <<>> /\ DOMAIN queue = {} /\ Lifecycle
    BY DEF Init, Busy, Lifecycle
  <2>2. \A j \in Jobs : outcome[j] # "accepted"
    BY DEF Init
  <2> QED
    BY <2>1, <2>2 DEF OnePlace, Range
<1>2. TypeOK /\ Lifecycle /\ OnePlace /\ [Next]_vars => (Lifecycle /\ OnePlace)'
  BY LifecycleStep, OnePlaceStep
<1> QED
  BY <1>1, <1>2, TypeCorrect, PTL DEF Spec

-----------------------------------------------------------------------------
(* The jobs a worker holds are counted by a natural number, which an       *)
(* arriving and a leaving worker change by one.                            *)
LEMMA CountFacts ==
    ASSUME NEW B \in SUBSET Workers
    PROVE  /\ Cardinality(B) \in Nat
           /\ Cardinality(B) = 0 <=> B = {}
           /\ \A w \in Workers \ B : Cardinality(B \cup {w}) = Cardinality(B) + 1
           /\ \A w \in B : Cardinality(B \ {w}) = Cardinality(B) - 1
<1>1. IsFiniteSet(B)
  <2>1. IsFiniteSet(Workers)
    <3>1. 1 \in Int /\ Servers \in Int
      BY ServersAssumption
    <3> QED
      BY <3>1, FS_Interval DEF Workers
  <2> QED
    BY <2>1, FS_Subset
<1> QED
  BY <1>1, FS_CardinalityType, FS_EmptySet, FS_AddElement, FS_RemoveElement

Unaborted == \A j \in Jobs : outcome[j] # "aborted"
Counted   == NeverOvercounts /\ UnfinishedExact

(* The two halves of what the count has to satisfy, over any step: it      *)
(* moves with the outstanding work, or a handler was cancelled.            *)
LEMMA CountedStep == TypeOK /\ Lifecycle /\ OnePlace /\ Counted /\ [Next]_vars => Counted'
<1> SUFFICES ASSUME TypeOK, Lifecycle, OnePlace, Counted, [Next]_vars PROVE Counted'
  OBVIOUS
<1> DEFINE out == Len(queue) + Cardinality(Busy)
<1>a. /\ unfinished <= out
      /\ Unaborted => unfinished = out
  BY DEF Counted, NeverOvercounts, UnfinishedExact, Outstanding, Unaborted
<1>b. SUFFICES /\ unfinished' <= out'
               /\ Unaborted' => unfinished' = out'
  BY DEF Counted, NeverOvercounts, UnfinishedExact, Outstanding, Unaborted
<1>c. /\ queue \in Seq(Jobs) /\ Len(queue) \in Nat
      /\ outcome \in [Jobs -> Outcomes] /\ unfinished \in Nat
      /\ task \in [Workers -> TaskStates] /\ job \in [Workers -> Jobs \cup {NoJob}]
  BY DEF TypeOK
<1>d. /\ Busy \in SUBSET Workers /\ Cardinality(Busy) \in Nat /\ out \in Nat
      /\ Busy = {} => Cardinality(Busy) = 0
  BY <1>c, CountFacts DEF Busy
<1>e. \A j \in Range(queue) \cup Held : j \in Jobs /\ outcome[j] = "accepted"
  BY OnePlaceAlt DEF Accepted
<1>1. CASE Start
  <2>1. Busy = {} /\ Busy' = {}
    BY <1>1, <1>c DEF Start, Lifecycle, Busy
  <2> QED
    BY <1>1, <1>a, <2>1 DEF Start, Unaborted
<1>2. ASSUME NEW j \in Jobs, Accept(j) PROVE <1>b!1
  <2>1. Busy' = Busy /\ Len(queue') = Len(queue) + 1 /\ unfinished' = unfinished + 1
    BY <1>2, <1>c DEF Accept, Busy, Enqueued
  <2>2. Unaborted' => Unaborted
    BY <1>2, <1>c DEF Accept, MayEnqueue, Unaborted
  <2> QED
    BY <1>a, <1>c, <1>d, <2>1, <2>2
<1>3. ASSUME NEW j \in Jobs, Displace(j) PROVE <1>b!1
  <2>1. queue # <<>> /\ queue' = Append(Tail(queue), j)
    BY <1>3, CapacityAssumption DEF Displace, Enqueued, Full
  <2>2. Busy' = Busy /\ Len(queue') = Len(queue) /\ unfinished' = unfinished
    BY <1>3, <1>c, <2>1 DEF Displace, Busy, TaskDone
  <2>3. Head(queue) \in Range(queue)
    <3>1. 1 \in DOMAIN queue /\ Head(queue) = queue[1]
      BY <1>c, <2>1
    <3> QED
      BY <3>1 DEF Range
  <2>4. Unaborted' => Unaborted
    BY <1>3, <1>c, <1>e, <2>3 DEF Displace, MayEnqueue, Unaborted
  <2> QED
    BY <1>a, <1>c, <1>d, <2>2, <2>4
<1>4. ASSUME NEW j \in Jobs, DisplaceRaises(j) PROVE <1>b!1
  <2>1. queue # <<>> /\ queue' = Tail(queue) /\ unfinished = 0 /\ unfinished' = 0
    BY <1>4, CapacityAssumption DEF DisplaceRaises, Full
  <2>2. Busy' = Busy /\ Len(queue) > 0 /\ Len(queue') = Len(queue) - 1
    BY <1>4, <1>c, <2>1 DEF DisplaceRaises, Busy
  <2>3. Head(queue) \in Range(queue)
    <3>1. 1 \in DOMAIN queue /\ Head(queue) = queue[1]
      BY <1>c, <2>1
    <3> QED
      BY <3>1 DEF Range
  <2>4. ~Unaborted'
    <3>1. PICK k \in Jobs : outcome[k] = "aborted"
      BY <1>a, <1>c, <1>d, <2>1, <2>2 DEF Unaborted
    <3>2. k # j /\ k # Head(queue)
      BY <1>4, <1>e, <2>3, <3>1 DEF DisplaceRaises, MayEnqueue
    <3> QED
      BY <1>4, <1>c, <3>1, <3>2 DEF DisplaceRaises, Unaborted
  <2> QED
    BY <1>c, <1>d, <2>1, <2>2, <2>4
<1>5. ASSUME NEW j \in Jobs, Refuse(j) PROVE <1>b!1
  <2>1. Busy' = Busy /\ queue' = queue /\ unfinished' = unfinished
    BY <1>5 DEF Refuse, Busy
  <2>2. Unaborted' => Unaborted
    BY <1>5, <1>c DEF Refuse, MayEnqueue, Unaborted
  <2> QED
    BY <1>a, <2>1, <2>2
<1>6. ASSUME NEW drain \in DrainModes, Stop(drain) PROVE <1>b!1
  BY <1>6, <1>a DEF Stop, Busy, Unaborted
<1>7. CASE CancelTasks \/ StopRaises
  BY <1>7, <1>a DEF CancelTasks, StopRaises, Busy, Unaborted
<1>8. CASE StopReturns
  <2>1. Busy = {} /\ Busy' = {}
    BY <1>8, <1>c DEF StopReturns, Busy
  <2> QED
    BY <1>8, <1>a, <2>1 DEF StopReturns, Unaborted
<1>9. ASSUME NEW w \in Workers, Dequeue(w) PROVE <1>b!1
  <2>1. w \notin Busy /\ Busy' = Busy \cup {w}
    BY <1>9, <1>c DEF Dequeue, Busy
  <2>2. Cardinality(Busy') = Cardinality(Busy) + 1
    BY <1>d, <2>1, CountFacts
  <2>3. Len(queue') = Len(queue) - 1 /\ unfinished' = unfinished /\ Unaborted' = Unaborted
    BY <1>9, <1>c DEF Dequeue, Unaborted
  <2> QED
    BY <1>a, <1>c, <1>d, <2>2, <2>3
<1>10. ASSUME NEW w \in Workers, Finish(w) \/ CancelHandling(w) PROVE <1>b!1
  <2>1. w \in Busy /\ Busy' = Busy \ {w} /\ queue' = queue
    BY <1>10, <1>c DEF Finish, CancelHandling, Busy, AfterHandler
  <2>2. Cardinality(Busy') = Cardinality(Busy) - 1 /\ Cardinality(Busy') \in Nat
    BY <1>d, <2>1, CountFacts
  <2>3. job[w] \in Jobs /\ outcome[job[w]] = "accepted"
    BY <1>e, <2>1 DEF Held
  <2>4. CASE Finish(w)
    <3>1. unfinished' = IF unfinished > 0 THEN unfinished - 1 ELSE 0
      BY <2>4 DEF Finish, TaskDone
    <3>2. Unaborted' => Unaborted
      BY <1>c, <2>3, <2>4 DEF Finish, Unaborted
    <3> QED
      BY <1>a, <1>c, <1>d, <2>1, <2>2, <3>1, <3>2
  <2>5. CASE CancelHandling(w)
    <3>1. unfinished' = IF unfinished > 1 THEN unfinished - 2 ELSE 0
      BY <1>c, <2>5 DEF CancelHandling, TaskDone
    <3>2. ~Unaborted'
      BY <1>c, <2>3, <2>5 DEF CancelHandling, Unaborted
    <3> QED
      BY <1>a, <1>c, <1>d, <2>1, <2>2, <3>1, <3>2
  <2> QED
    BY <1>10, <2>4, <2>5
<1>11. ASSUME NEW w \in Workers, CancelWaiting(w) PROVE <1>b!1
  <2>1. Busy' = Busy
    BY <1>11, <1>c DEF CancelWaiting, Busy
  <2> QED
    BY <1>11, <1>a, <2>1 DEF CancelWaiting, Unaborted
<1>12. CASE UNCHANGED vars
  BY <1>12, <1>a DEF vars, Busy, Unaborted
<1> QED
  BY <1>1, <1>2, <1>3, <1>4, <1>5, <1>6, <1>7, <1>8, <1>9, <1>10, <1>11, <1>12
     DEF Next, Caller, Stopper, Worker, Terminated

(* What an inductive argument about the count needs.                       *)
LEMMA InitCounted == Init => Lifecycle /\ OnePlace /\ Counted
<1> SUFFICES ASSUME Init PROVE Lifecycle /\ OnePlace /\ Counted
  OBVIOUS
<1>1. Busy = {} /\ queue = <<>> /\ DOMAIN queue = {} /\ unfinished = 0
  BY DEF Init, Busy
<1>2. \A j \in Jobs : outcome[j] # "accepted"
  BY DEF Init
<1>3. Len(queue) = 0 /\ Cardinality(Busy) = 0
  BY <1>1, FS_EmptySet
<1>4. Lifecycle
  BY DEF Init, Lifecycle
<1>5. OnePlace
  BY <1>1, <1>2 DEF OnePlace, Range
<1>6. Counted
  BY <1>1, <1>3 DEF Counted, NeverOvercounts, UnfinishedExact, Outstanding
<1> QED
  BY <1>4, <1>5, <1>6

(* The strengthening the theorems share.                                   *)
LEMMA CountInvariant == Spec => [](TypeOK /\ Lifecycle /\ OnePlace /\ Counted)
  BY InitCounted, LifecycleStep, OnePlaceStep, CountedStep, TypeCorrect, PTL DEF Spec

(* Until a handler is cancelled, _unfinished_tasks is exactly the jobs     *)
(* that wait plus the jobs that run, for any number of jobs, workers,      *)
(* restarts and slots of the queue.                                        *)
THEOREM UnfinishedIsExact == Spec => []UnfinishedExact
  BY CountInvariant, PTL DEF Counted

(* Whatever stop() cancels, the count never exceeds the outstanding work.  *)
THEOREM CountNeverExceedsWork == Spec => []NeverOvercounts
  BY CountInvariant, PTL DEF Counted

-----------------------------------------------------------------------------
(* The lifespan of the application calls stop(drain=True) only, after the  *)
(* server stopped accepting requests.                                      *)
DrainsOnly == DrainModes \subseteq {TRUE} /\ LateEnqueue = FALSE

(* No handler is ever cancelled, no task fails, and behind join() the      *)
(* count is zero.                                                          *)
Draining ==
    /\ Unaborted
    /\ \A w \in Workers : task[w] # "failed"
    /\ stop # "raised"
    /\ stop \in {"joined", "reaping", "returned"} => unfinished = 0

LEMMA NothingLeft ==
    TypeOK /\ OnePlace /\ Counted /\ Unaborted /\ unfinished = 0 =>
        queue = <<>> /\ Busy = {} /\ Accepted = {}
<1> SUFFICES ASSUME TypeOK, OnePlace, Counted, Unaborted, unfinished = 0
             PROVE  queue = <<>> /\ Busy = {} /\ Accepted = {}
  OBVIOUS
<1>1. Len(queue) + Cardinality(Busy) = 0
  BY DEF Counted, UnfinishedExact, Outstanding, Unaborted
<1>2. /\ queue \in Seq(Jobs) /\ Len(queue) \in Nat
      /\ Cardinality(Busy) \in Nat /\ (Cardinality(Busy) = 0 <=> Busy = {})
  <2>1. Busy \in SUBSET Workers
    BY DEF Busy
  <2> QED
    BY <2>1, CountFacts DEF TypeOK
<1>3. queue = <<>> /\ Busy = {} /\ DOMAIN queue = {}
  BY <1>1, <1>2
<1> QED
  BY <1>3, OnePlaceAlt DEF Range, Held

LEMMA DrainingStep ==
    ASSUME DrainsOnly
    PROVE  TypeOK /\ Lifecycle /\ OnePlace /\ Counted /\ Draining /\ [Next]_vars => Draining'
<1> SUFFICES ASSUME TypeOK, Lifecycle, OnePlace, Counted, Draining, [Next]_vars
             PROVE  Draining'
  OBVIOUS
<1>a. /\ queue \in Seq(Jobs) /\ unfinished \in Nat /\ stop \in StopStates
      /\ outcome \in [Jobs -> Outcomes] /\ running \in BOOLEAN
      /\ task \in [Workers -> TaskStates]
  BY DEF TypeOK
<1>b. stop \in {"joined", "reaping", "returned", "raised"} => ~running /\ Busy = {} /\ queue = <<>>
  BY NothingLeft DEF Lifecycle, Draining
<1>c. \A j \in Range(queue) \cup Held : j \in Jobs
  BY OnePlaceAlt DEF Accepted
<1>1. CASE Start
  BY <1>1, <1>a DEF Start, Draining, Unaborted
<1>2. ASSUME NEW j \in Jobs, Accept(j) \/ Displace(j) \/ DisplaceRaises(j) \/ Refuse(j)
      PROVE  Draining'
  <2>1. running /\ stop = "idle"
    BY <1>2 DEF Accept, Displace, DisplaceRaises, Refuse, MayEnqueue, DrainsOnly, Lifecycle
  <2>2. task' = task /\ stop' = "idle"
    BY <1>2, <2>1 DEF Accept, Displace, DisplaceRaises, Refuse, WakeJoin
  <2>3. Unaborted'
    BY <1>2, <1>a DEF Accept, Displace, DisplaceRaises, Refuse, Unaborted, Draining
  <2> QED
    BY <2>2, <2>3 DEF Draining
<1>3. ASSUME NEW drain \in DrainModes, Stop(drain) PROVE Draining'
  <2>1. drain = TRUE
    BY DEF DrainsOnly
  <2> QED
    BY <1>3, <1>a, <2>1 DEF Stop, Draining, Unaborted
<1>4. CASE CancelTasks
  BY <1>4 DEF CancelTasks, Draining, Unaborted
<1>5. CASE StopReturns
  BY <1>5 DEF StopReturns, Draining, Unaborted
<1>6. CASE StopRaises
  BY <1>6 DEF StopRaises, Draining
<1>7. ASSUME NEW w \in Workers, Dequeue(w) PROVE Draining'
  BY <1>7, <1>a DEF Dequeue, Draining, Unaborted
<1>8. ASSUME NEW w \in Workers, Finish(w) PROVE Draining'
  <2>1. w \in Busy /\ stop \in {"idle", "joining"}
    BY <1>8, <1>a, <1>b DEF Finish, Busy, StopStates
  <2>2. unfinished > 0
    BY <1>a, <2>1, NothingLeft DEF Draining
  <2>3. task' = [task EXCEPT ![w] = "get"] /\ unfinished' = unfinished - 1
    BY <1>8, <2>2 DEF Finish, AfterHandler, TaskDone
  <2>4. /\ stop' \in {"idle", "joining", "joined"}
        /\ stop' = "joined" => unfinished' = 0
    BY <1>8, <2>1, <2>2, <2>3 DEF Finish, WakeJoin, TaskDone
  <2>5. Unaborted'
    BY <1>8, <1>a DEF Finish, Unaborted, Draining
  <2> QED
    BY <1>a, <2>3, <2>4, <2>5 DEF Draining
<1>9. ASSUME NEW w \in Workers, CancelWaiting(w) PROVE Draining'
  BY <1>9, <1>a DEF CancelWaiting, Draining, Unaborted
<1>10. ASSUME NEW w \in Workers, CancelHandling(w) PROVE Draining'
  BY <1>10, <1>b DEF CancelHandling, CancelRequested, Busy
<1>11. CASE UNCHANGED vars
  BY <1>11 DEF vars, Draining, Unaborted
<1> QED
  BY <1>1, <1>2, <1>3, <1>4, <1>5, <1>6, <1>7, <1>8, <1>9, <1>10, <1>11
     DEF Next, Caller, Stopper, Worker, Terminated

LEMMA DrainInvariant ==
    ASSUME DrainsOnly
    PROVE  Spec => [](TypeOK /\ OnePlace /\ Counted /\ Draining)
<1>1. Init => Draining
  BY DEF Init, Draining, Unaborted
<1>2. TypeOK /\ Lifecycle /\ OnePlace /\ Counted /\ Draining /\ [Next]_vars => Draining'
  BY DrainingStep
<1> QED
  BY <1>1, <1>2, CountInvariant, PTL DEF Spec

(* Used as the lifespan uses it, stop(drain=True) is past join() only when *)
(* every acknowledged job was handled or displaced.                        *)
THEOREM DrainIsHonoured == ASSUME DrainsOnly PROVE Spec => []DrainHonoured
<1>1. TypeOK /\ OnePlace /\ Counted /\ Draining => DrainHonoured
  BY NothingLeft DEF Draining, DrainHonoured, Accepted
<1> QED
  BY <1>1, DrainInvariant, PTL

(* ... and no worker task, nor stop() itself, ends with the ValueError of  *)
(* an unbalanced task_done().                                              *)
THEOREM WorkersSurvive == ASSUME DrainsOnly PROVE Spec => []NoWorkerDies
<1>1. Draining => NoWorkerDies
  BY DEF Draining, NoWorkerDies
<1> QED
  BY <1>1, DrainInvariant, PTL

-----------------------------------------------------------------------------
(* The refinement of JobPool.  The waiting room of the pool is the queue,  *)
(* its servers are the tasks inside a handler.                             *)
LEMMA RoomOfQueue ==
    ASSUME NEW S, NEW q \in Seq(S), Distinct(q)
    PROVE  Cardinality(Range(q)) = Len(q)
<1> DEFINE n == Len(q)
<1>1. n \in Nat /\ q \in [1 .. n -> Range(q)] /\ Range(q) = {q[m] : m \in 1 .. n}
  BY DEF Range
<1>2. q \in Bijection(1 .. n, Range(q))
  BY <1>1 DEF Bijection, Injection, IsInjective, Surjection, Distinct, Range
<1> QED
  BY <1>1, <1>2, FS_CountingElements DEF ExistsBijection

LEMMA Fates ==
    ASSUME TypeOK, OnePlace
    PROVE  /\ \A j \in Jobs : /\ FateOf(j) = "waiting" <=> j \in Range(queue)
                              /\ FateOf(j) = "running" <=> j \in Held
                              /\ FateOf(j) = "new" <=> outcome[j] = "new"
           /\ Range(queue) \subseteq Jobs /\ Held \subseteq Jobs
<1>1. Accepted = Range(queue) \cup Held /\ Held \cap Range(queue) = {}
  BY OnePlaceAlt
<1>2. ASSUME NEW j \in Jobs
      PROVE  /\ FateOf(j) = "waiting" <=> j \in Range(queue)
             /\ FateOf(j) = "running" <=> j \in Held
             /\ FateOf(j) = "new" <=> outcome[j] = "new"
  BY <1>1 DEF FateOf, Accepted, TypeOK, Outcomes
<1> QED
  BY <1>1, <1>2 DEF Accepted

(* The pool counts as its queue does.                                      *)
LEMMA PoolCounts ==
    ASSUME NEW S
    PROVE  Pool!Cardinality(S) = Cardinality(S)
  BY DEF Pool!Cardinality, Cardinality

LEMMA JobsOfFate ==
    ASSUME NEW f
    PROVE  Pool!JobsIn(f) = {j \in Jobs : FateOf(j) = f}
<1>1. \A j \in Jobs : [k \in Jobs |-> FateOf(k)][j] = FateOf(j)
  OBVIOUS
<1> QED
  BY <1>1 DEF Pool!JobsIn

LEMMA PoolRoom ==
    ASSUME TypeOK, OnePlace
    PROVE  Pool!RoomFull <=> Full(queue)
<1>1. Pool!JobsIn("waiting") = Range(queue)
  <2>1. {j \in Jobs : FateOf(j) = "waiting"} = Range(queue)
    BY Fates
  <2> QED
    BY <2>1, JobsOfFate
<1>2. Cardinality(Range(queue)) = Len(queue)
  BY RoomOfQueue, OnePlaceAlt DEF TypeOK
<1> QED
  BY <1>1, <1>2, PoolCounts DEF Pool!RoomFull, Full

LEMMA PoolServers ==
    ASSUME TypeOK, OnePlace, NEW w \in Workers, w \notin Busy
    PROVE  Cardinality(Pool!JobsIn("running")) < Servers
<1>1. Pool!JobsIn("running") = Held
  <2>1. {j \in Jobs : FateOf(j) = "running"} = Held
    BY Fates
  <2> QED
    BY <2>1, JobsOfFate
<1>2. /\ IsFiniteSet(Workers) /\ Cardinality(Workers) = Servers /\ Servers \in Nat
  BY ServersAssumption, FS_Interval DEF Workers
<1>3. Busy \subseteq Workers /\ IsFiniteSet(Busy)
  BY <1>2, FS_Subset DEF Busy
<1>4. Cardinality(Held) <= Cardinality(Busy) /\ IsFiniteSet(Held)
  <2> DEFINE f == [v \in Busy |-> job[v]]
  <2>1. f \in Surjection(Busy, Held)
    BY DEF Surjection, Held
  <2> QED
    BY <1>3, <2>1, FS_Surjection
<1>5. Cardinality(Busy) + 1 <= Servers
  <2>1. Cardinality(Busy \cup {w}) = Cardinality(Busy) + 1
    BY <1>3, FS_AddElement
  <2> QED
    BY <1>2, <1>3, <2>1, FS_Subset
<1>6. Cardinality(Held) \in Nat /\ Cardinality(Busy) \in Nat
  BY <1>3, <1>4, FS_CardinalityType
<1> QED
  BY <1>1, <1>2, <1>4, <1>5, <1>6

(* One job changes its fate, and the others wait where they waited.        *)
LEMMA OneFate ==
    ASSUME NEW j \in Jobs, NEW from, NEW to, FateOf(j) = from, FateOf(j)' = to,
           \A k \in Jobs : k # j => FateOf(k)' = FateOf(k)
    PROVE  Pool!Move(j, from, to)
  BY DEF Pool!Move

LEMMA SameFates ==
    ASSUME UNCHANGED <<queue, outcome>>
    PROVE  [j \in Jobs |-> FateOf(j)]' = [j \in Jobs |-> FateOf(j)]
  BY DEF FateOf

LEMMA AcceptStep ==
    ASSUME TypeOK, OnePlace, NEW j \in Jobs, Accept(j)
    PROVE  Pool!Accept(j)
<1>1. /\ queue' = Append(queue, j) /\ outcome[j] = "new" /\ ~Full(queue)
      /\ outcome' = [outcome EXCEPT ![j] = "accepted"]
      /\ queue \in Seq(Jobs) /\ outcome \in [Jobs -> Outcomes]
  BY DEF Accept, MayEnqueue, Enqueued, TypeOK
<1>2. Range(queue') = Range(queue) \cup {j}
  BY <1>1, AppendFacts
<1>3. /\ FateOf(j) = "new" /\ FateOf(j)' = "waiting"
      /\ \A k \in Jobs : k # j => FateOf(k)' = FateOf(k)
  BY <1>1, <1>2 DEF FateOf
<1> QED
  BY <1>1, <1>3, OneFate, PoolRoom DEF Pool!Accept

LEMMA RefuseStep ==
    ASSUME TypeOK, OnePlace, NEW j \in Jobs, Refuse(j)
    PROVE  Pool!Refuse(j)
<1>1. /\ queue' = queue /\ outcome[j] = "new" /\ Full(queue)
      /\ outcome' = [outcome EXCEPT ![j] = "refused"] /\ outcome \in [Jobs -> Outcomes]
  BY DEF Refuse, MayEnqueue, Accepts, TypeOK
<1>2. /\ FateOf(j) = "new" /\ FateOf(j)' = "refused"
      /\ \A k \in Jobs : k # j => FateOf(k)' = FateOf(k)
  BY <1>1 DEF FateOf
<1> QED
  BY <1>1, <1>2, OneFate, PoolRoom DEF Pool!Refuse

LEMMA DisplaceStep ==
    ASSUME TypeOK, OnePlace, NEW j \in Jobs, Displace(j), NEW old, old = Head(queue)
    PROVE  old \in Jobs /\ Pool!Displace(old, j)
<1>1. /\ outcome[j] = "new" /\ Full(queue) /\ queue # <<>>
      /\ queue' = Append(Tail(queue), j)
      /\ outcome' = [outcome EXCEPT ![old] = "displaced", ![j] = "accepted"]
      /\ queue \in Seq(Jobs) /\ outcome \in [Jobs -> Outcomes] /\ Distinct(queue)
  BY OnePlaceAlt, CapacityAssumption DEF Displace, MayEnqueue, Enqueued, Full, TypeOK
<1>2. /\ old \in Range(queue) /\ Tail(queue) \in Seq(Jobs)
      /\ Range(Tail(queue)) = Range(queue) \ {old}
  BY <1>1, TailFacts
<1>3. Range(queue') = (Range(queue) \ {old}) \cup {j}
  <2>1. PICK rest \in Seq(Jobs) : rest = Tail(queue)
    BY <1>2
  <2>2. Range(Append(rest, j)) = Range(rest) \cup {j}
    BY AppendFacts
  <2> QED
    BY <1>1, <1>2, <2>1, <2>2
<1>4. old \in Jobs /\ outcome[old] = "accepted" /\ old # j /\ FateOf(old) = "waiting"
  BY <1>1, <1>2, Fates, OnePlaceAlt DEF Accepted
<1>5. /\ FateOf(j) = "new" /\ FateOf(j)' = "waiting" /\ FateOf(old)' = "displaced"
      /\ \A k \in Jobs : k # j /\ k # old => FateOf(k)' = FateOf(k)
  BY <1>1, <1>3, <1>4 DEF FateOf
<1>6. [k \in Jobs |-> FateOf(k)]' =
          [[k \in Jobs |-> FateOf(k)] EXCEPT ![old] = "displaced", ![j] = "waiting"]
  BY <1>4, <1>5
<1> QED
  BY <1>1, <1>4, <1>5, <1>6, PoolRoom DEF Pool!Displace

LEMMA RunStep ==
    ASSUME TypeOK, OnePlace, NEW w \in Workers, Dequeue(w), NEW j, j = Head(queue)
    PROVE  j \in Jobs /\ Pool!Run(j)
<1>1. /\ queue # <<>> /\ queue' = Tail(queue) /\ UNCHANGED outcome /\ w \notin Busy
      /\ queue \in Seq(Jobs) /\ Distinct(queue)
  BY OnePlaceAlt DEF Dequeue, TypeOK, Busy
<1>2. j \in Range(queue) /\ Range(queue') = Range(queue) \ {j}
  BY <1>1, TailFacts
<1>3. j \in Jobs /\ outcome[j] = "accepted"
  BY <1>2, Fates, OnePlaceAlt DEF Accepted
<1>4. /\ FateOf(j) = "waiting" /\ FateOf(j)' = "running"
      /\ \A k \in Jobs : k # j => FateOf(k)' = FateOf(k)
  BY <1>1, <1>2, <1>3 DEF FateOf
<1> QED
  BY <1>1, <1>3, <1>4, OneFate, PoolServers, PoolCounts DEF Pool!Run

LEMMA EndStep ==
    ASSUME TypeOK, OnePlace, NEW w \in Workers, Finish(w) \/ CancelHandling(w),
           NEW j, j = job[w]
    PROVE  j \in Jobs /\ (Pool!Finish(j) \/ Pool!Abort(j))
<1>1. /\ w \in Busy /\ UNCHANGED queue /\ outcome \in [Jobs -> Outcomes]
      /\ \E o \in {"handled", "aborted"} : outcome' = [outcome EXCEPT ![j] = o]
  BY DEF Finish, CancelHandling, Busy, TypeOK
<1>2. j \in Held
  BY <1>1 DEF Held
<1>3. j \in Jobs /\ j \notin Range(queue) /\ FateOf(j) = "running"
  BY <1>2, Fates, OnePlaceAlt
<1>4. PICK to \in {"done", "aborted"} : FateOf(j)' = to
  BY <1>1, <1>3 DEF FateOf
<1>5. \A k \in Jobs : k # j => FateOf(k)' = FateOf(k)
  BY <1>1 DEF FateOf
<1> QED
  BY <1>3, <1>4, <1>5, OneFate DEF Pool!Finish, Pool!Abort

LEMMA PoolStep ==
    ASSUME DrainsOnly, TypeOK, OnePlace, Counted, Draining, [Next]_vars
    PROVE  [Pool!Next]_([j \in Jobs |-> FateOf(j)])
<1>1. ASSUME NEW j \in Jobs, Accept(j) \/ Refuse(j)
      PROVE  Pool!Next
  BY <1>1, AcceptStep, RefuseStep DEF Pool!Next
<1>2. ASSUME NEW j \in Jobs, Displace(j)
      PROVE  Pool!Next
  <2>1. PICK old : old = Head(queue)
    OBVIOUS
  <2> QED
    BY <1>2, <2>1, DisplaceStep DEF Pool!Next
<1>3. ASSUME NEW j \in Jobs, DisplaceRaises(j)
      PROVE  FALSE
  <2>1. unfinished = 0 /\ Len(queue) >= Capacity
    BY <1>3 DEF DisplaceRaises, Full
  <2>2. queue = <<>>
    BY <2>1, NothingLeft DEF Draining
  <2>3. Len(queue) = 0
    BY <2>2
  <2> QED
    BY <2>1, <2>3, CapacityAssumption
<1>4. ASSUME NEW w \in Workers, Dequeue(w)
      PROVE  Pool!Next
  <2>1. PICK j : j = Head(queue)
    OBVIOUS
  <2> QED
    BY <1>4, <2>1, RunStep DEF Pool!Next
<1>5. ASSUME NEW w \in Workers, Finish(w) \/ CancelHandling(w)
      PROVE  Pool!Next
  <2>1. PICK j : j = job[w]
    OBVIOUS
  <2> QED
    BY <1>5, <2>1, EndStep DEF Pool!Next
<1>6. CASE \/ Start \/ Stopper \/ UNCHANGED vars
           \/ \E drain \in DrainModes : Stop(drain)
           \/ \E w \in Workers : CancelWaiting(w)
  <2>1. UNCHANGED <<queue, outcome>>
    BY <1>6 DEF Start, Stopper, CancelTasks, StopReturns, StopRaises, vars, Stop, CancelWaiting
  <2> QED
    BY <2>1, SameFates
<1> QED
  BY <1>1, <1>2, <1>3, <1>4, <1>5, <1>6 DEF Next, Caller, Worker, Terminated

(* Queue, tasks and count implement the bounded pool that JobPool          *)
(* describes: a job runs at most once, at most Servers jobs run, and a job *)
(* is refused or displaced only when Capacity jobs wait.                   *)
THEOREM DispatcherImplementsPool ==
    ASSUME DrainsOnly
    PROVE  Spec => ImplementsPool
<1>1. Init => Pool!Init
  <2>1. Init => \A j \in Jobs : outcome[j] = "new"
    BY DEF Init
  <2>2. (\A j \in Jobs : outcome[j] = "new") => \A j \in Jobs : FateOf(j) = "new"
    BY DEF FateOf
  <2> QED
    BY <2>1, <2>2 DEF Pool!Init
<1>2. /\ TypeOK /\ OnePlace /\ Counted /\ Draining
      /\ [Next]_vars
      => [Pool!Next]_([j \in Jobs |-> FateOf(j)])
  BY PoolStep
<1> QED
  BY <1>1, <1>2, DrainInvariant, PTL DEF Spec, ImplementsPool, Pool!Spec

=============================================================================
