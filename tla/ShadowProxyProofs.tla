-------------------------- MODULE ShadowProxyProofs --------------------------
(***************************************************************************)
(* Proofs about ShadowProxy for any number of calls, replicas and workers, *)
(* any capacity, texts, limits and bounds.                                 *)
(*                                                                         *)
(* Part 1: the effect of each action, and Places, the invariant that keeps *)
(* types and references.  Part 2: what a step of each task does, as        *)
(* equations on the fields that the properties are about, and one          *)
(* inductive invariant per group of safety properties, each on top of      *)
(* Places and of the ones before.  Part 3: the refinement of RowLifecycle. *)
(* Part 4: sums of counters over the replicas.                             *)
(***************************************************************************)
EXTENDS ShadowProxy, JobQueueProofs, FiniteSetTheorems, TLAPS

-----------------------------------------------------------------------------
(* Part 1.  What one statement does to one row (store/sql.py).             *)
SameIngest(r, s) ==
    /\ s.primary = r.primary /\ s.primaryAction = r.primaryAction
    /\ s.receivedAt = r.receivedAt /\ s.key = r.key

LEMMA PendingRowType ==
    ASSUME NEW status \in Store!PrimaryStatus, NEW action \in Store!ActionColumn,
           NEW key \in Days \cup {NoKey}, NEW at \in Nat,
           NEW s, s = Store!PendingRow(status, action, key, at)
    PROVE  /\ s \in Store!Row
           /\ s.primary = status /\ s.primaryAction = action
           /\ s.receivedAt = at /\ s.key = key /\ s.attempts = 0
           /\ s.candidate = "pending" /\ s.candidateAction = None
           /\ s.verdict = IF status = "ok" THEN "pending" ELSE "primary_error"
  BY DEF Store!PendingRow, Store!Row, Store!PrimaryStatus, Store!CandidateStatus,
     Store!Verdict, Store!ActionColumn

LEMMA MarkedRow ==
    ASSUME NEW r \in Store!Row
    PROVE  LET s == Store!Marked(r)
           IN  /\ s \in Store!Row /\ SameIngest(r, s)
               /\ s.candidate = "in_progress" /\ s.attempts = r.attempts + 1
               /\ s.verdict = r.verdict /\ s.candidateAction = r.candidateAction
<1> DEFINE s == Store!Marked(r)
           n == r.attempts + 1
<1>1. n \in Nat
  BY DEF Store!Row
<1>2. s = [r EXCEPT !.candidate = "in_progress", !.attempts = n]
  BY DEF Store!Marked
<1> HIDE DEF n, s
<1>3. /\ s \in Store!Row /\ SameIngest(r, s)
      /\ s.candidate = "in_progress" /\ s.attempts = n
      /\ s.verdict = r.verdict /\ s.candidateAction = r.candidateAction
  BY <1>1, <1>2 DEF Store!Row, Store!CandidateStatus, SameIngest
<1> QED
  BY <1>3 DEF s, n

LEMMA FinalizedRow ==
    ASSUME NEW r \in Store!Row, NEW status \in Store!CandidateStatus,
           NEW verdict \in Store!Verdict, NEW action \in Store!ActionColumn
    PROVE  LET s == Store!Finalized(r, status, verdict, action)
           IN  /\ s \in Store!Row /\ SameIngest(r, s)
               /\ s.candidate = status /\ s.verdict = verdict
               /\ s.attempts = r.attempts
               /\ s.candidateAction =
                      IF action = None THEN r.candidateAction ELSE action
<1> DEFINE s == Store!Finalized(r, status, verdict, action)
           a == IF action = None THEN r.candidateAction ELSE action
<1>1. a \in Store!ActionColumn
  BY DEF Store!Row
<1>2. s = [r EXCEPT !.candidate = status, !.verdict = verdict, !.candidateAction = a]
  BY DEF Store!Finalized
<1> HIDE DEF a, s
<1>3. /\ s \in Store!Row /\ SameIngest(r, s)
      /\ s.candidate = status /\ s.verdict = verdict
      /\ s.attempts = r.attempts /\ s.candidateAction = a
  BY <1>1, <1>2 DEF Store!Row, SameIngest
<1> QED
  BY <1>3 DEF s, a

(* What the evaluator returns.                                             *)
LEMMA EvaluateType ==
    ASSUME NEW p \in Text, NEW c \in Text
    PROVE  /\ Evaluate(p, c).verdict \in Judgements
           /\ Evaluate(p, c).action \in Store!ActionColumn
  BY DEF Evaluate, Judgements, ActionOf, Store!ActionColumn

-----------------------------------------------------------------------------
(* The first invariant: where things are.                                  *)

(* The row that a handler works on exists, and the handler knows of it     *)
(* what does not change.                                                   *)
InHand(w) ==
    LET i == worker[w].id
    IN  /\ i \in Ids /\ row[i] # None
        /\ worker[w].key = row[i].key
        /\ worker[w].pc = "discard" <=> row[i].primary # "ok"
        /\ worker[w].pc = "merge_put" => worker[w].copy \in Payload

Handling == \A w \in Workers : worker[w].pc # "get" => InHand(w)

Selected == \A r \in Replicas : \A i \in sweep[r] : row[i] # None

(* A call in flight is served by a replica that accepts calls.             *)
Served == \A c \in Calls : InFlight(c) =>
              call[c].by \in Replicas /\ phase[call[c].by] = "serving"

(* Queue and workers have nothing to do before the startup query.          *)
Started(r) == phase[r] \in {"serving", "stopping"}

NotBefore ==
    /\ \A r \in Replicas : ~Started(r) => queue[r] = <<>>
    /\ \A w \in Workers : ~Started(Home[w]) => worker[w].pc = "get"
    /\ \A r \in Replicas : phase[r] # "requeueing" => backlog[r] = <<>>

Backlogged ==
    \A r \in Replicas : /\ Distinct(backlog[r])
                        /\ \A i \in Range(backlog[r]) : row[i] # None

Places == /\ TypeOK /\ IsFiniteSet(Rows)
          /\ Handling /\ Selected /\ Served /\ NotBefore /\ Backlogged

(* The table keeps its type and its rows, and a row what ingest wrote.     *)
TableKept ==
    /\ row' \in [Ids -> Store!Row \cup {None}]
    /\ \A i \in Ids : row[i] # None => row'[i] # None /\ SameIngest(row[i], row'[i])

LEMMA OneRowRewritten ==
    ASSUME TypeOK, NEW i \in Ids, row[i] # None, NEW s \in Store!Row,
           SameIngest(row[i], s), row' = [row EXCEPT ![i] = s]
    PROVE  /\ TableKept /\ Rows' = Rows /\ row'[i] = s
           /\ \A j \in Ids : j # i => row'[j] = row[j]
<1>1. /\ row' \in [Ids -> Store!Row \cup {None}] /\ row'[i] = s /\ s # None
      /\ \A j \in Ids : j # i => row'[j] = row[j]
  BY StorageAssumption DEF TypeOK
<1> QED
  BY <1>1 DEF TableKept, Rows, SameIngest

LEMMA TableUntouched ==
    ASSUME TypeOK, UNCHANGED row
    PROVE  TableKept /\ Rows' = Rows
  BY DEF TypeOK, TableKept, Rows, SameIngest

LEMMA HandKept ==
    ASSUME TableKept, NEW x \in Workers, InHand(x), worker'[x] = worker[x]
    PROVE  InHand(x)'
  BY DEF InHand, TableKept, SameIngest

(* The types of single tasks.                                              *)
LEMMA OneCall ==
    ASSUME Places, NEW c \in Calls PROVE call[c] \in Call /\ IdOf[c] \in Ids
  BY ShadowProxyAssumption DEF Places, TypeOK

LEMMA OneWorker ==
    ASSUME Places, NEW w \in Workers
    PROVE  /\ worker[w] \in Worker /\ Home[w] \in Replicas
           /\ count[Home[w]] \in [Counters -> Nat]
  BY ShadowProxyAssumption DEF Places, TypeOK

(* A step of call c, which may insert its row.                             *)
LEMMA CallKeepsPlaces ==
    ASSUME Places, NEW c \in Calls, NEW s \in Call, call' = [call EXCEPT ![c] = s],
           s.pc \in {"primary", "archive", "insert", "respond"} =>
               s.by \in Replicas /\ phase[s.by] = "serving",
           TableKept, IsFiniteSet(Rows'),
           raw' \in [Days \X Ids -> Payload \cup {None, Torn}],
           queue' \in [Replicas -> Seq(Ids)],
           \A r \in Replicas : Len(queue'[r]) <= Capacity,
           \A r \in Replicas : queue'[r] # queue[r] => Started(r),
           count' \in [Replicas -> [Counters -> Nat]],
           received' \in Nat, faults' \in Nat,
           UNCHANGED <<today, horizon, phase, boots, backlog, worker, sweep, rate,
                       crashes, stops>>
    PROVE  Places'
<1>1. call' \in [Calls -> Call] /\ call'[c] = s /\ \A d \in Calls : d # c => call'[d] = call[d]
  BY DEF Places, TypeOK
<1>2. TypeOK'
  BY <1>1 DEF Places, TypeOK, TableKept
<1>3. Handling' /\ Selected'
  <2>1. ASSUME NEW x \in Workers, worker[x].pc # "get" PROVE InHand(x)'
    <3>1. InHand(x)
      BY <2>1 DEF Places, Handling
    <3> QED
      BY <3>1, HandKept
  <2>2. Selected'
    BY DEF Places, TypeOK, Selected, TableKept
  <2> QED
    BY <2>1, <2>2 DEF Handling
<1>4. Served'
  BY <1>1 DEF Places, Served, InFlight
<1>5. NotBefore' /\ Backlogged'
  <2>1. NotBefore'
    BY DEF Places, NotBefore, Started
  <2>2. \A r \in Replicas : \A i \in Range(backlog[r]) : i \in Ids
    BY DEF Places, TypeOK, Range
  <2> QED
    BY <2>1, <2>2 DEF Places, Backlogged, TableKept
<1> QED
  BY <1>2, <1>3, <1>4, <1>5 DEF Places

(* A step of worker task w, which may rewrite its row.                     *)
LEMMA WorkerKeepsPlaces ==
    ASSUME Places, NEW w \in Workers, Started(Home[w]),
           NEW v \in Worker, worker' = [worker EXCEPT ![w] = v],
           v.pc # "get" =>
               /\ v.id \in Ids /\ row[v.id] # None /\ v.key = row[v.id].key
               /\ v.pc = "discard" <=> row[v.id].primary # "ok"
               /\ v.pc = "merge_put" => v.copy \in Payload,
           TableKept, Rows' = Rows,
           raw' \in [Days \X Ids -> Payload \cup {None, Torn}],
           queue' \in [Replicas -> Seq(Ids)],
           \A r \in Replicas : Len(queue'[r]) <= Capacity,
           \A r \in Replicas : queue'[r] # queue[r] => Started(r),
           count' \in [Replicas -> [Counters -> Nat]],
           faults' \in Nat, UNCHANGED <<crashes, stops>>,
           WorkerUnchanged
    PROVE  Places'
<1>1. /\ worker' \in [Workers -> Worker] /\ worker'[w] = v
      /\ \A x \in Workers : x # w => worker'[x] = worker[x]
  BY DEF Places, TypeOK
<1>2. TypeOK'
  BY <1>1 DEF Places, TypeOK, TableKept, WorkerUnchanged, clockVars
<1>3. Handling'
  <2>1. ASSUME NEW x \in Workers, x # w, worker[x].pc # "get" PROVE InHand(x)'
    <3>1. InHand(x) /\ worker'[x] = worker[x]
      BY <1>1, <2>1 DEF Places, Handling
    <3> QED
      BY <3>1, HandKept
  <2>2. v.pc # "get" => InHand(w)'
    BY <1>1 DEF InHand, TableKept, SameIngest
  <2> QED
    BY <1>1, <2>1, <2>2 DEF Handling
<1>4. Selected' /\ Served'
  BY DEF Places, TypeOK, Selected, Served, InFlight, TableKept, WorkerUnchanged
<1>5. NotBefore' /\ Backlogged'
  <2>1. NotBefore'
    BY <1>1 DEF Places, NotBefore, Started, WorkerUnchanged
  <2>2. \A r \in Replicas : \A i \in Range(backlog[r]) : i \in Ids
    BY DEF Places, TypeOK, Range
  <2> QED
    BY <2>1, <2>2 DEF Places, Backlogged, TableKept, WorkerUnchanged
<1> QED
  BY <1>2, <1>3, <1>4, <1>5 DEF Places

-----------------------------------------------------------------------------
(* The steps of a call.                                                    *)

LEMMA ReceiveKeeps ==
    ASSUME Places, NEW c \in Calls, NEW r \in Replicas, Receive(c, r)
    PROVE  Places'
<1> DEFINE s == [call[c] EXCEPT !.pc = "primary", !.by = r, !.at = received]
<1>1. s \in Call /\ s.by = r
  <2>1. received \in Nat /\ call[c] \in Call
    BY OneCall DEF Places, TypeOK
  <2> QED
    BY <2>1 DEF Call, CallStates
<1>2. call' = [call EXCEPT ![c] = s]
  BY DEF Receive
<1>4. received + 1 \in Nat
  BY DEF Places, TypeOK
<1>3. TableKept /\ Rows' = Rows
  BY TableUntouched DEF Receive, Places
<1>5. phase[r] = "serving"
  BY DEF Receive, Accepting
<1>6. /\ UNCHANGED <<today, horizon, raw, phase, boots, backlog, queue, worker, sweep, rate, count>>
      /\ UNCHANGED <<faults, crashes, stops>> /\ received' = received + 1
  BY DEF Receive, replicaVars, budgetVars
<1>7. /\ IsFiniteSet(Rows') /\ faults \in Nat
      /\ raw \in [Days \X Ids -> Payload \cup {None, Torn}]
      /\ queue \in [Replicas -> Seq(Ids)] /\ \A x \in Replicas : Len(queue[x]) <= Capacity
      /\ count \in [Replicas -> [Counters -> Nat]]
  BY <1>3 DEF Places, TypeOK
<1> HIDE DEF s
<1> QED
  BY <1>1, <1>2, <1>3, <1>4, <1>5, <1>6, <1>7, CallKeepsPlaces

(* What a step of chat() that touches nothing but its own locals, the row  *)
(* and the archive leaves to show.                                         *)
LEMMA ServingKeeps ==
    ASSUME Places, NEW c \in Calls, InFlight(c), NEW s \in Call, s.by = call[c].by,
           call' = [call EXCEPT ![c] = s], CallUnchanged,
           TableKept, IsFiniteSet(Rows'),
           raw' \in [Days \X Ids -> Payload \cup {None, Torn}],
           UNCHANGED budgetVars \/ Fault
    PROVE  Places'
<1>1. call[c].by \in Replicas /\ phase[call[c].by] = "serving"
  BY DEF Places, Served
<1>2. faults' \in Nat /\ UNCHANGED <<crashes, stops>>
  BY DEF Fault, budgetVars, Places, TypeOK
<1> QED
  BY <1>1, <1>2, CallKeepsPlaces
     DEF CallUnchanged, clockVars, replicaVars, Places, TypeOK

LEMMA PrimaryReturnsKeeps ==
    ASSUME Places, NEW c \in Calls, NEW status \in Store!PrimaryStatus, NEW text \in Text,
           PrimaryReturns(c, status, text)
    PROVE  Places'
<1> DEFINE pc == IF RawStoreOn THEN "archive" ELSE "insert"
           s  == [call[c] EXCEPT !.pc = pc, !.status = status, !.text = text]
<1>1. s \in Call /\ s.by = call[c].by
  BY OneCall DEF Call, CallStates
<1>2. call' = [call EXCEPT ![c] = s] /\ InFlight(c)
  BY DEF PrimaryReturns, InFlight
<1>3. TableKept /\ Rows' = Rows
  BY TableUntouched DEF PrimaryReturns, Places
<1> HIDE DEF s
<1> QED
  BY <1>1, <1>2, <1>3, ServingKeeps DEF PrimaryReturns, Places, TypeOK

LEMMA PcChangeKeeps ==
    ASSUME Places, NEW c \in Calls, InFlight(c), NEW pc \in CallStates,
           call' = [call EXCEPT ![c].pc = pc], CallUnchanged, UNCHANGED <<row, raw>>,
           UNCHANGED budgetVars \/ Fault
    PROVE  Places'
<1> DEFINE s == [call[c] EXCEPT !.pc = pc]
<1>1. s \in Call /\ s.by = call[c].by
  BY OneCall DEF Call
<1>2. call' = [call EXCEPT ![c] = s]
  OBVIOUS
<1>3. TableKept /\ Rows' = Rows
  BY TableUntouched DEF Places
<1> HIDE DEF s
<1> QED
  BY <1>1, <1>2, <1>3, ServingKeeps DEF Places, TypeOK

LEMMA ArchiveKeeps ==
    ASSUME Places, NEW c \in Calls, Archive(c)
    PROVE  Places'
<1> DEFINE s == [call[c] EXCEPT !.pc = "insert", !.key = today]
           o == [primary |-> call[c].text, candidate |-> None]
<1>1. s \in Call /\ s.by = call[c].by /\ o \in Payload
  <2>1. today \in Days
    BY DEF Places, TypeOK
  <2> QED
    BY <2>1, OneCall DEF Call, CallStates, Payload
<1>2. call' = [call EXCEPT ![c] = s] /\ InFlight(c)
  BY DEF Archive, InFlight
<1>3. TableKept /\ Rows' = Rows
  BY TableUntouched DEF Archive, Places
<1>4. raw' = [raw EXCEPT ![<<today, IdOf[c]>>] = o]
  BY DEF Archive
<1> HIDE DEF s, o
<1>5. raw' \in [Days \X Ids -> Payload \cup {None, Torn}]
  BY <1>1, <1>4 DEF Places, TypeOK
<1> QED
  BY <1>1, <1>2, <1>3, <1>5, ServingKeeps DEF Archive, Places

(* What INSERT writes for call c, in the terms of the call.                *)
Recorded(c, r) ==
    /\ r \in Store!Row
    /\ r.primary = call[c].status /\ r.receivedAt = call[c].at /\ r.key = call[c].key
    /\ r.primaryAction = IF call[c].status = "ok" THEN ActionOf(call[c].text) ELSE None
    /\ r.attempts = 0 /\ r.candidate = "pending" /\ r.candidateAction = None
    /\ r.verdict = IF call[c].status = "ok" THEN "pending" ELSE "primary_error"

LEMMA InsertEffect ==
    ASSUME TypeOK, NEW c \in Calls, Insert(c)
    PROVE  /\ TableKept /\ Rows' = Rows \cup {IdOf[c]}
           /\ Recorded(c, row'[IdOf[c]])
           /\ \A j \in Ids : j # IdOf[c] => row'[j] = row[j]
<1> DEFINE i == IdOf[c]
           action == IF call[c].status = "ok" THEN ActionOf(call[c].text) ELSE None
           s == Store!PendingRow(call[c].status, action, call[c].key, call[c].at)
<1>1. /\ i \in Ids /\ call[c].status \in Store!PrimaryStatus
      /\ action \in Store!ActionColumn
      /\ call[c].key \in Days \cup {NoKey} /\ call[c].at \in Nat
  BY ShadowProxyAssumption DEF TypeOK, Call, ActionOf, Store!ActionColumn
<1>2. Recorded(c, s)
  <2> HIDE DEF action
  <2>1. /\ s \in Store!Row /\ s.primary = call[c].status /\ s.primaryAction = action
        /\ s.receivedAt = call[c].at /\ s.key = call[c].key /\ s.attempts = 0
        /\ s.candidate = "pending" /\ s.candidateAction = None
        /\ s.verdict = IF call[c].status = "ok" THEN "pending" ELSE "primary_error"
    <3>1. s = Store!PendingRow(call[c].status, action, call[c].key, call[c].at)
      OBVIOUS
    <3> HIDE DEF s
    <3> QED
      BY <1>1, <3>1, PendingRowType
  <2> HIDE DEF s
  <2> QED
    BY <2>1 DEF Recorded, action
<1>3. row' = [row EXCEPT ![i] = s] /\ row[i] = None
  BY DEF Insert, IdFree
<1> HIDE DEF s
<1>4. /\ row' \in [Ids -> Store!Row \cup {None}] /\ row'[i] = s /\ s # None
      /\ \A j \in Ids : j # i => row'[j] = row[j]
  BY StorageAssumption, <1>1, <1>2, <1>3 DEF TypeOK, Recorded
<1> QED
  BY <1>1, <1>2, <1>3, <1>4 DEF TableKept, Rows, SameIngest

LEMMA InsertKeeps ==
    ASSUME Places, NEW c \in Calls, Insert(c)
    PROVE  Places'
<1> DEFINE s == [call[c] EXCEPT !.pc = "respond"]
<1>1. s \in Call /\ s.by = call[c].by
  BY OneCall DEF Call, CallStates
<1>2. call' = [call EXCEPT ![c] = s] /\ InFlight(c)
  <2>1. call' = [call EXCEPT ![c].pc = "respond"] /\ call[c].pc = "insert"
    BY DEF Insert
  <2> QED
    BY <2>1 DEF InFlight
<1>3. TableKept /\ IsFiniteSet(Rows')
  BY InsertEffect, FS_AddElement DEF Places
<1> HIDE DEF s
<1> QED
  BY <1>1, <1>2, <1>3, ServingKeeps DEF Insert, Places, TypeOK

LEMMA GateKeeps ==
    ASSUME Places, NEW c \in Calls, SampleIn(c) \/ SampleOut(c)
    PROVE  Places'
<1> DEFINE r == call[c].by
<1>1. r \in Replicas /\ phase[r] = "serving"
  BY DEF SampleIn, SampleOut, Places, Served, InFlight
<1>2. PICK shadow \in {"enqueued", "dropped", "sampled_out"} :
         call' = [call EXCEPT ![c].pc = "answered", ![c].shadow = shadow]
  BY DEF SampleIn, SampleOut
<1> DEFINE s == [call[c] EXCEPT !.pc = "answered", !.shadow = shadow]
<1>3. s \in Call /\ s.pc = "answered"
  <2>1. call[c] \in Call /\ shadow \in {"no", "enqueued", "dropped", "sampled_out"}
    BY <1>2 DEF Places, TypeOK
  <2> QED
    BY <2>1 DEF Call, CallStates
<1>7. call' = [call EXCEPT ![c] = s]
  BY <1>2
<1>4. TableKept /\ Rows' = Rows
  BY TableUntouched DEF SampleIn, SampleOut, Places
<1>5. /\ queue' \in [Replicas -> Seq(Ids)]
      /\ \A x \in Replicas : Len(queue'[x]) <= Capacity
      /\ \A x \in Replicas : queue'[x] # queue[x] => Started(x)
  <2> DEFINE q == Enqueued(Policy, queue[r], IdOf[c])
  <2>1. q \in Seq(Ids) /\ Len(q) <= Capacity
    BY ShadowProxyAssumption, <1>1, EnqueuedType DEF Places, TypeOK
  <2>2. queue' = [queue EXCEPT ![r] = q] \/ queue' = queue
    BY DEF SampleIn, SampleOut
  <2>3. /\ queue \in [Replicas -> Seq(Ids)] /\ Started(r)
        /\ \A x \in Replicas : Len(queue[x]) <= Capacity
    BY <1>1 DEF Places, TypeOK, Started
  <2> HIDE DEF q, r
  <2>4. /\ queue' \in [Replicas -> Seq(Ids)]
        /\ \A x \in Replicas : queue'[x] = queue[x] \/ (x = r /\ queue'[x] = q)
    BY <2>1, <2>2, <2>3
  <2> QED
    BY <2>1, <2>3, <2>4
<1>6. count' \in [Replicas -> [Counters -> Nat]]
  <2>1. count[r] \in [Counters -> Nat]
    BY <1>1 DEF Places, TypeOK
  <2>2. PICK f \in [Counters -> Nat] : count' = [count EXCEPT ![r] = f]
    <3>1. CASE SampleOut(c)
      <4> DEFINE f == [count[r] EXCEPT !["requests_total"] = @ + 1,
                                       !["shadow_sampled_out"] = @ + 1]
      <4>1. f \in [Counters -> Nat]
        BY <2>1 DEF Counters
      <4>2. count' = [count EXCEPT ![r] = f]
        BY <3>1 DEF SampleOut
      <4> QED
        BY <4>1, <4>2
    <3>2. CASE SampleIn(c)
      <4> DEFINE in == Accepts(Policy, queue[r])
                 f == [count[r] EXCEPT !["requests_total"] = @ + 1,
                                  !["shadow_enqueued"] = IF in THEN @ + 1 ELSE @]
      <4> HIDE DEF in
      <4>1. f \in [Counters -> Nat]
        BY <2>1 DEF Counters
      <4>2. count' = [count EXCEPT ![r] = f]
        BY <3>2 DEF SampleIn, in
      <4> QED
        BY <4>1, <4>2
    <3> QED
      BY <3>1, <3>2
  <2> QED
    BY <1>1, <2>2 DEF Places, TypeOK
<1>8. UNCHANGED <<today, received, horizon, row, raw, phase, boots, backlog, worker,
                  sweep, rate, faults, crashes, stops>>
  BY DEF SampleIn, SampleOut, clockVars, budgetVars
<1> HIDE DEF s
<1> QED
  BY <1>3, <1>4, <1>5, <1>6, <1>7, <1>8, CallKeepsPlaces DEF Places, TypeOK

LEMMA ServeCallKeeps ==
    ASSUME Places, NEW c \in Calls, ServeCall(c)
    PROVE  Places'
<1>1. ASSUME NEW status \in Store!PrimaryStatus, NEW text \in PrimaryTexts \cup {"blank"},
             PrimaryReturns(c, status, text)
      PROVE  Places'
  BY ShadowProxyAssumption, <1>1, PrimaryReturnsKeeps DEF Text, Unparsable
<1>2. CASE PrimaryBreaks(c)
  BY <1>2, PcChangeKeeps DEF PrimaryBreaks, InFlight, CallStates
<1>3. CASE ArchiveFails(c)
  BY <1>3, PcChangeKeeps DEF ArchiveFails, InFlight, CallStates
<1>4. CASE InsertFails(c)
  BY <1>4, PcChangeKeeps DEF InsertFails, InFlight, CallStates, AfterFailedInsert
<1>5. CASE Refuse(c)
  BY <1>5, PcChangeKeeps DEF Refuse, InFlight, CallStates
<1> QED
  BY <1>1, <1>2, <1>3, <1>4, <1>5, ArchiveKeeps, InsertKeeps, GateKeeps DEF ServeCall
-----------------------------------------------------------------------------
(* The steps of a worker task.                                             *)
LEMMA IdleWorker == Idle \in Worker /\ Idle.pc = "get"
  BY EvaluatorAssumption DEF Idle, Worker, WorkerStates, Text, Unparsable

(* A busy worker's replica has started, and its row is in hand.            *)
LEMMA BusyWorker ==
    ASSUME Places, NEW w \in Workers, worker[w].pc # "get"
    PROVE  /\ Started(Home[w]) /\ InHand(w)
           /\ worker[w].id \in Ids /\ row[worker[w].id] \in Store!Row
           /\ row[worker[w].id] # None
<1>1. Started(Home[w]) /\ InHand(w)
  BY DEF Places, NotBefore, Handling
<1>2. worker[w].id \in Ids /\ row[worker[w].id] # None
  BY <1>1 DEF InHand
<1> QED
  BY <1>1, <1>2 DEF Places, TypeOK

(* The handler goes on with its row, or is done with it.                   *)
LEMMA HandlerKeeps ==
    ASSUME Places, NEW w \in Workers, worker[w].pc # "get", NEW v \in Worker,
           worker' = [worker EXCEPT ![w] = v],
           \/ v.pc = "get"
           \/ /\ v.id = worker[w].id /\ v.key = worker[w].key
              /\ v.pc = "discard" <=> worker[w].pc = "discard"
              /\ v.pc = "merge_put" => v.copy \in Payload,
           TableKept, Rows' = Rows,
           raw' \in [Days \X Ids -> Payload \cup {None, Torn}],
           UNCHANGED queue, count' \in [Replicas -> [Counters -> Nat]],
           UNCHANGED budgetVars \/ Fault, WorkerUnchanged
    PROVE  Places'
<1>1. /\ Started(Home[w]) /\ InHand(w)
  BY BusyWorker
<1>2. v.pc # "get" =>
          /\ v.id \in Ids /\ row[v.id] # None /\ v.key = row[v.id].key
          /\ v.pc = "discard" <=> row[v.id].primary # "ok"
          /\ v.pc = "merge_put" => v.copy \in Payload
  BY <1>1 DEF InHand
<1>3. faults' \in Nat /\ UNCHANGED <<crashes, stops>>
  BY DEF Fault, budgetVars, Places, TypeOK
<1>4. /\ queue' \in [Replicas -> Seq(Ids)]
      /\ \A r \in Replicas : Len(queue'[r]) <= Capacity
      /\ \A r \in Replicas : queue'[r] # queue[r] => Started(r)
  BY DEF Places, TypeOK
<1> QED
  BY <1>1, <1>2, <1>3, <1>4, WorkerKeepsPlaces

LEMMA TakeKeeps ==
    ASSUME Places, NEW w \in Workers, Take(w)
    PROVE  Places'
<1> DEFINE r == Home[w]
           i == Head(queue[r])
           rest == Tail(queue[r])
<1>1. /\ r \in Replicas /\ queue[r] \in Seq(Ids) /\ queue[r] # <<>>
      /\ Len(queue[r]) <= Capacity /\ queue' = [queue EXCEPT ![r] = rest]
  BY OneWorker DEF Take, Places, TypeOK
<1>2. /\ i \in Ids /\ rest \in Seq(Ids) /\ Len(rest) <= Capacity
  <2>1. Len(queue[r]) \in Nat /\ Len(rest) = Len(queue[r]) - 1
    BY <1>1
  <2> QED
    BY <1>1, <2>1, CapacityAssumption
<1>3. Started(r)
  BY <1>1 DEF Places, NotBefore
<1>4. PICK v \in Worker :
        /\ worker' = [worker EXCEPT ![w] = v]
        /\ v.pc # "get" =>
               /\ v.id \in Ids /\ row[v.id] # None /\ v.key = row[v.id].key
               /\ v.pc = "discard" <=> row[v.id].primary # "ok"
               /\ v.pc = "merge_put" => v.copy \in Payload
  <2>1. CASE worker' = [worker EXCEPT ![w] = Fetched(i)]
    <3>1. CASE row[i] = None
      BY <2>1, <3>1, IdleWorker DEF Fetched
    <3>2. CASE row[i] # None
      <4> DEFINE pc == IF row[i].primary = "ok" THEN "mark" ELSE "discard"
                 v  == [Idle EXCEPT !.id = i, !.key = row[i].key, !.pc = pc]
      <4>1. row[i].key \in Days \cup {NoKey}
        BY <1>2, <3>2 DEF Places, TypeOK, Store!Row
      <4>2. v \in Worker /\ v.id = i /\ v.key = row[i].key /\ v.pc = pc
        BY <1>2, <4>1, IdleWorker DEF Worker, WorkerStates
      <4>3. Fetched(i) = v
        BY <3>2 DEF Fetched
      <4> HIDE DEF v
      <4> QED
        BY <1>2, <2>1, <3>2, <4>2, <4>3
    <3> QED
      BY <3>1, <3>2
  <2>2. CASE UNCHANGED worker
    <3>1. worker' = [worker EXCEPT ![w] = worker[w]]
      BY <2>2 DEF Places, TypeOK
    <3> QED
      BY <3>1, OneWorker DEF Take
  <2> QED
    BY <2>1, <2>2 DEF Take
<1> HIDE DEF r, i, rest
<1>5. /\ queue' \in [Replicas -> Seq(Ids)]
      /\ \A x \in Replicas : queue'[x] = queue[x] \/ (x = r /\ queue'[x] = rest)
  BY <1>1, <1>2 DEF Places, TypeOK
<1>6. /\ \A x \in Replicas : Len(queue'[x]) <= Capacity
      /\ \A x \in Replicas : queue'[x] # queue[x] => Started(x)
  BY <1>2, <1>3, <1>5 DEF Places, TypeOK
<1>7. TableKept /\ Rows' = Rows
  BY TableUntouched DEF Take, Places
<1>8. /\ faults' \in Nat /\ UNCHANGED <<crashes, stops, raw, count>> /\ WorkerUnchanged
  BY DEF Take, Fault, budgetVars, Places, TypeOK
<1> QED
  BY <1>3, <1>4, <1>5, <1>6, <1>7, <1>8, WorkerKeepsPlaces DEF r, Places, TypeOK

(* One UPDATE of the row in hand.                                          *)
LEMMA MarkEffect ==
    ASSUME Places, NEW w \in Workers, Mark(w)
    PROVE  LET i == worker[w].id
           IN  /\ i \in Ids /\ row[i] \in Store!Row /\ row[i] # None
               /\ TableKept /\ Rows' = Rows
               /\ \A j \in Ids : j # i => row'[j] = row[j]
               /\ row'[i] \in Store!Row /\ row'[i].candidate = "in_progress"
               /\ row'[i].attempts = row[i].attempts + 1
               /\ row'[i].verdict = row[i].verdict
               /\ row'[i].candidateAction = row[i].candidateAction
<1> DEFINE i == worker[w].id
           s == Store!Marked(row[i])
<1>1. i \in Ids /\ row[i] \in Store!Row /\ row[i] # None
  BY BusyWorker DEF Mark
<1>2. /\ s \in Store!Row /\ SameIngest(row[i], s)
      /\ s.candidate = "in_progress" /\ s.attempts = row[i].attempts + 1
      /\ s.verdict = row[i].verdict /\ s.candidateAction = row[i].candidateAction
  BY <1>1, MarkedRow
<1>3. row' = [row EXCEPT ![i] = s]
  BY DEF Mark
<1> HIDE DEF s, i
<1>4. /\ TableKept /\ Rows' = Rows /\ row'[i] = s
      /\ \A j \in Ids : j # i => row'[j] = row[j]
  BY <1>1, <1>2, <1>3, OneRowRewritten DEF Places
<1> QED
  BY <1>1, <1>2, <1>4 DEF i

LEMMA FinalizeEffect ==
    ASSUME Places, NEW i \in Ids, row[i] # None, NEW status \in Store!CandidateStatus,
           NEW verdict \in Store!Verdict, NEW action \in Store!ActionColumn,
           FinalizeRow(i, status, verdict, action)
    PROVE  /\ TableKept /\ Rows' = Rows
           /\ \A j \in Ids : j # i => row'[j] = row[j]
           /\ row'[i] \in Store!Row
           /\ row'[i].candidate = status /\ row'[i].verdict = verdict
           /\ row'[i].attempts = row[i].attempts
           /\ row'[i].candidateAction =
                  IF action = None THEN row[i].candidateAction ELSE action
<1> DEFINE s == Store!Finalized(row[i], status, verdict, action)
<1>1. row[i] \in Store!Row
  BY DEF Places, TypeOK
<1>2. /\ s \in Store!Row /\ SameIngest(row[i], s)
      /\ s.candidate = status /\ s.verdict = verdict
      /\ s.attempts = row[i].attempts
      /\ s.candidateAction = IF action = None THEN row[i].candidateAction ELSE action
  BY <1>1, FinalizedRow
<1>3. row' = [row EXCEPT ![i] = s]
  BY DEF FinalizeRow
<1> HIDE DEF s
<1>4. /\ TableKept /\ Rows' = Rows /\ row'[i] = s
      /\ \A j \in Ids : j # i => row'[j] = row[j]
  BY <1>2, <1>3, OneRowRewritten DEF Places
<1> QED
  BY <1>2, <1>4

(* The constants that the statements write.                                *)
LEMMA Written ==
    /\ {"ok", "error", "timeout_stale", "dropped"} \subseteq Store!CandidateStatus
    /\ {"candidate_error", "primary_error"} \cup Judgements \subseteq Store!Verdict
    /\ None \in Store!ActionColumn
  BY DEF Store!CandidateStatus, Store!Verdict, Store!ActionColumn, Judgements

(* A handler that ends: its worker is idle again.                          *)
LEMMA DoneKeeps ==
    ASSUME Places, NEW w \in Workers, worker[w].pc # "get", Done(w),
           TableKept, Rows' = Rows, UNCHANGED <<raw, queue>>,
           count' \in [Replicas -> [Counters -> Nat]],
           UNCHANGED budgetVars \/ Fault, WorkerUnchanged
    PROVE  Places'
<1>1. raw' \in [Days \X Ids -> Payload \cup {None, Torn}]
  BY DEF Places, TypeOK
<1> QED
  BY <1>1, IdleWorker, HandlerKeeps DEF Done

LEMMA HandlerFailsKeeps ==
    ASSUME Places, NEW w \in Workers, HandlerFails(w)
    PROVE  Places'
<1>1. TableKept /\ Rows' = Rows
  BY TableUntouched DEF HandlerFails, Places
<1>2. worker[w].pc # "get"
  BY DEF HandlerFails
<1> QED
  BY <1>1, <1>2, DoneKeeps DEF HandlerFails, Places, TypeOK

LEMMA DiscardKeeps ==
    ASSUME Places, NEW w \in Workers, Discard(w)
    PROVE  Places'
<1>1. TableKept /\ Rows' = Rows
  BY BusyWorker, Written, FinalizeEffect DEF Discard
<1> QED
  BY <1>1, DoneKeeps DEF Discard, Places, TypeOK

LEMMA FinalizeErrorKeeps ==
    ASSUME Places, NEW w \in Workers, FinalizeError(w)
    PROVE  Places'
<1>1. TableKept /\ Rows' = Rows
  BY BusyWorker, Written, FinalizeEffect DEF FinalizeError
<1> QED
  BY <1>1, DoneKeeps DEF FinalizeError, Places, TypeOK

(* The judgement that finalize() writes is a verdict on two answers.       *)
LEMMA JudgedType ==
    ASSUME Places, NEW w \in Workers
    PROVE  /\ Judged(w).verdict \in Judgements
           /\ Judged(w).action \in Store!ActionColumn
<1>1. worker[w].primary \in Text /\ worker[w].reply \in Text
  BY OneWorker DEF Worker
<1> QED
  BY <1>1, EvaluateType DEF Judged

LEMMA JudgedEffect ==
    ASSUME Places, NEW w \in Workers, FinalizeOk(w)
    PROVE  LET i      == worker[w].id
               result == Judged(w)
           IN  /\ i \in Ids /\ row[i] \in Store!Row /\ row[i] # None
               /\ TableKept /\ Rows' = Rows
               /\ \A j \in Ids : j # i => row'[j] = row[j]
               /\ row'[i] \in Store!Row
               /\ row'[i].candidate = "ok" /\ row'[i].verdict = result.verdict
               /\ row'[i].attempts = row[i].attempts
               /\ row'[i].candidateAction = IF result.action = None
                                            THEN row[i].candidateAction ELSE result.action
               /\ result.verdict \in Judgements
               /\ result.action \in Store!ActionColumn
<1> DEFINE i      == worker[w].id
           result == Judged(w)
<1>1. i \in Ids /\ row[i] \in Store!Row /\ row[i] # None
  BY BusyWorker DEF FinalizeOk
<1>2. result.verdict \in Judgements /\ result.action \in Store!ActionColumn
  BY JudgedType
<1>3. FinalizeRow(i, "ok", result.verdict, result.action)
  BY DEF FinalizeOk
<1> HIDE DEF i, result
<1>4. /\ TableKept /\ Rows' = Rows
      /\ \A j \in Ids : j # i => row'[j] = row[j]
      /\ row'[i] \in Store!Row
      /\ row'[i].candidate = "ok" /\ row'[i].verdict = result.verdict
      /\ row'[i].attempts = row[i].attempts
      /\ row'[i].candidateAction = IF result.action = None
                                   THEN row[i].candidateAction ELSE result.action
  <2>1. result.verdict \in Store!Verdict /\ "ok" \in Store!CandidateStatus
    BY <1>2, Written
  <2> QED
    BY <1>1, <1>2, <1>3, <2>1, FinalizeEffect
<1> QED
  BY <1>1, <1>2, <1>4 DEF i, result

LEMMA FinalizeOkKeeps ==
    ASSUME Places, NEW w \in Workers, FinalizeOk(w)
    PROVE  Places'
<1> DEFINE v == [worker[w] EXCEPT !.pc = "count"]
<1>1. v \in Worker /\ v.pc = "count" /\ v.id = worker[w].id /\ v.key = worker[w].key
  BY OneWorker DEF Worker, WorkerStates
<1>2. worker' = [worker EXCEPT ![w] = v] /\ worker[w].pc = "finalize"
  BY DEF FinalizeOk, Step
<1>3. TableKept /\ Rows' = Rows
  BY JudgedEffect
<1>4. /\ raw' \in [Days \X Ids -> Payload \cup {None, Torn}]
      /\ count' \in [Replicas -> [Counters -> Nat]]
  BY DEF FinalizeOk, Places, TypeOK
<1> HIDE DEF v
<1> QED
  BY <1>1, <1>2, <1>3, <1>4, HandlerKeeps DEF FinalizeOk

LEMMA CountVerdictKeeps ==
    ASSUME Places, NEW w \in Workers, CountVerdict(w)
    PROVE  Places'
<1>1. TableKept /\ Rows' = Rows
  BY TableUntouched DEF CountVerdict, Places
<1>2. count' \in [Replicas -> [Counters -> Nat]]
  <2> DEFINE v == Judged(w).verdict
             r == Home[w]
             f == [count[r] EXCEPT ![v] = IF v \in CountedVerdicts THEN @ + 1 ELSE @,
                                   !["taped"] = IF v \in TapedVerdicts THEN @ + 1 ELSE @]
  <2>1. v \in Counters
    BY JudgedType DEF Counters
  <2>2. count[r] \in [Counters -> Nat] /\ r \in Replicas
    BY OneWorker
  <2>3. count' = [count EXCEPT ![r] = f]
    BY DEF CountVerdict
  <2> HIDE DEF v, r
  <2>4. f \in [Counters -> Nat]
    BY <2>1, <2>2 DEF Counters
  <2> HIDE DEF f
  <2> QED
    BY <2>2, <2>3, <2>4 DEF Places, TypeOK
<1>3. worker[w].pc # "get"
  BY DEF CountVerdict
<1> QED
  BY <1>1, <1>2, <1>3, DoneKeeps DEF CountVerdict

LEMMA MarkKeeps ==
    ASSUME Places, NEW w \in Workers, Mark(w)
    PROVE  Places'
<1> DEFINE v == [worker[w] EXCEPT !.pc = "load"]
<1>1. v \in Worker /\ v.pc = "load" /\ v.id = worker[w].id /\ v.key = worker[w].key
  BY OneWorker DEF Worker, WorkerStates
<1>2. worker' = [worker EXCEPT ![w] = v] /\ worker[w].pc = "mark"
  BY DEF Mark, Step
<1>3. TableKept /\ Rows' = Rows
  BY MarkEffect
<1>4. /\ raw' \in [Days \X Ids -> Payload \cup {None, Torn}]
      /\ count' \in [Replicas -> [Counters -> Nat]]
  BY DEF Mark, Places, TypeOK
<1> HIDE DEF v
<1> QED
  BY <1>1, <1>2, <1>3, <1>4, HandlerKeeps DEF Mark

(* The archive as the worker reads it.                                     *)
LEMMA ObjectType ==
    ASSUME Places, NEW w \in Workers, worker[w].pc # "get"
    PROVE  Object(w) \in Payload \cup {None, Torn}
<1>1. worker[w].id \in Ids /\ worker[w].key \in Days \cup {NoKey}
  BY BusyWorker, OneWorker DEF Worker
<1>2. CASE worker[w].key = NoKey
  BY <1>2 DEF Object
<1>3. CASE worker[w].key # NoKey
  <2>1. <<worker[w].key, worker[w].id>> \in Days \X Ids
    BY <1>1, <1>3
  <2> QED
    BY <1>3, <2>1 DEF Object, Places, TypeOK
<1> QED
  BY <1>2, <1>3

(* A step that changes nothing outside the worker but the archive, or      *)
(* counts an error.                                                        *)
LEMMA PrivateStepKeeps ==
    ASSUME Places, NEW w \in Workers, worker[w].pc \notin {"get", "discard"},
           NEW v \in Worker, v.pc \notin {"get", "discard"},
           v.id = worker[w].id, v.key = worker[w].key,
           v.pc = "merge_put" => v.copy \in Payload,
           worker' = [worker EXCEPT ![w] = v],
           raw' \in [Days \X Ids -> Payload \cup {None, Torn}],
           count' \in [Replicas -> [Counters -> Nat]],
           UNCHANGED <<row, queue>>, UNCHANGED budgetVars \/ Fault, WorkerUnchanged
    PROVE  Places'
<1>1. TableKept /\ Rows' = Rows
  BY TableUntouched DEF Places
<1> QED
  BY <1>1, HandlerKeeps

LEMMA LoadKeeps ==
    ASSUME Places, NEW w \in Workers, Load(w)
    PROVE  Places'
<1>1. worker[w].pc = "load" /\ worker[w] \in Worker
  BY OneWorker DEF Load
<1>2. PICK v \in Worker : /\ worker' = [worker EXCEPT ![w] = v]
                          /\ v.pc = "asked" /\ v.id = worker[w].id
                          /\ v.key = worker[w].key
  <2> DEFINE text == IF Object(w) \in Payload THEN Object(w).primary ELSE "blank"
             a == [worker[w] EXCEPT !.primary = text, !.pc = "asked"]
             b == [worker[w] EXCEPT !.pc = "asked"]
  <2>1. text \in Text
    BY DEF Payload, Text, Unparsable
  <2>2. /\ a \in Worker /\ b \in Worker /\ a.pc = "asked" /\ b.pc = "asked"
        /\ a.id = worker[w].id /\ b.id = worker[w].id
        /\ a.key = worker[w].key /\ b.key = worker[w].key
    <3> HIDE DEF text
    <3> QED
      BY <1>1, <2>1 DEF Worker, WorkerStates
  <2>3. worker' = [worker EXCEPT ![w] = a] \/ worker' = [worker EXCEPT ![w] = b]
    BY DEF Load, Step
  <2> HIDE DEF a, b
  <2> QED
    BY <2>2, <2>3
<1>3. /\ raw' \in [Days \X Ids -> Payload \cup {None, Torn}]
      /\ count' \in [Replicas -> [Counters -> Nat]]
      /\ UNCHANGED budgetVars \/ Fault
  BY DEF Load, Places, TypeOK
<1> QED
  BY <1>1, <1>2, <1>3, PrivateStepKeeps DEF Load

LEMMA CandidateAnswersKeeps ==
    ASSUME Places, NEW w \in Workers, NEW text \in CandidateTexts,
           CandidateAnswers(w, text)
    PROVE  Places'
<1> DEFINE pc == IF worker[w].key = NoKey THEN "finalize" ELSE "merge_get"
           v  == [worker[w] EXCEPT !.reply = text, !.pc = pc]
<1>1. v \in Worker /\ v.pc = pc /\ v.id = worker[w].id /\ v.key = worker[w].key
  <2>1. worker[w] \in Worker /\ text \in Text
    BY ShadowProxyAssumption, OneWorker
  <2>2. pc \in WorkerStates
    BY DEF WorkerStates
  <2> HIDE DEF pc
  <2> QED
    BY <2>1, <2>2 DEF Worker
<1>2. worker' = [worker EXCEPT ![w] = v] /\ worker[w].pc = "asked"
  BY DEF CandidateAnswers
<1>3. /\ raw' \in [Days \X Ids -> Payload \cup {None, Torn}]
      /\ count' \in [Replicas -> [Counters -> Nat]]
  BY DEF CandidateAnswers, Places, TypeOK
<1> HIDE DEF v
<1> QED
  BY <1>1, <1>2, <1>3, PrivateStepKeeps DEF CandidateAnswers

LEMMA CandidateFailsKeeps ==
    ASSUME Places, NEW w \in Workers, CandidateFails(w)
    PROVE  Places'
<1> DEFINE v == [worker[w] EXCEPT !.pc = "fail"]
           f == [count[Home[w]] EXCEPT !["shadow_errors"] = @ + 1]
<1>1. v \in Worker /\ v.pc = "fail" /\ v.id = worker[w].id /\ v.key = worker[w].key
  BY OneWorker DEF Worker, WorkerStates
<1>2. /\ worker' = [worker EXCEPT ![w] = v] /\ worker[w].pc = "asked"
      /\ count' = [count EXCEPT ![Home[w]] = f]
  BY DEF CandidateFails, Step
<1>3. f \in [Counters -> Nat]
  <2>1. count[Home[w]] \in [Counters -> Nat]
    BY OneWorker
  <2> QED
    BY <2>1 DEF Counters
<1> HIDE DEF v, f
<1>4. raw' \in [Days \X Ids -> Payload \cup {None, Torn}]
  BY DEF CandidateFails, Places, TypeOK
<1>5. count' \in [Replicas -> [Counters -> Nat]]
  <2>1. count \in [Replicas -> [Counters -> Nat]]
    BY DEF Places, TypeOK
  <2> QED
    BY <1>2, <1>3, <2>1
<1> QED
  BY <1>1, <1>2, <1>4, <1>5, PrivateStepKeeps DEF CandidateFails

LEMMA MergeGetKeeps ==
    ASSUME Places, NEW w \in Workers, MergeGet(w)
    PROVE  Places'
<1>1. worker[w].pc = "merge_get" /\ worker[w] \in Worker
  BY OneWorker DEF MergeGet
<1>2. PICK v \in Worker : /\ worker' = [worker EXCEPT ![w] = v]
                          /\ v.pc \in {"merge_put", "finalize"}
                          /\ v.id = worker[w].id /\ v.key = worker[w].key
                          /\ v.pc = "merge_put" => v.copy \in Payload
  <2> DEFINE a == [worker[w] EXCEPT !.copy = Object(w), !.pc = "merge_put"]
             b == [worker[w] EXCEPT !.pc = "finalize"]
  <2>1. \/ Object(w) \in Payload /\ worker' = [worker EXCEPT ![w] = a]
        \/ worker' = [worker EXCEPT ![w] = b]
    BY DEF MergeGet, Step
  <2>2. /\ Object(w) \in Payload => a \in Worker
        /\ b \in Worker /\ a.pc = "merge_put" /\ b.pc = "finalize"
        /\ a.copy = Object(w)
        /\ a.id = worker[w].id /\ b.id = worker[w].id
        /\ a.key = worker[w].key /\ b.key = worker[w].key
    BY <1>1 DEF Worker, WorkerStates
  <2> HIDE DEF a, b
  <2> QED
    BY <2>1, <2>2
<1>3. /\ raw' \in [Days \X Ids -> Payload \cup {None, Torn}]
      /\ count' \in [Replicas -> [Counters -> Nat]]
      /\ UNCHANGED budgetVars \/ Fault
  BY DEF MergeGet, Places, TypeOK
<1> QED
  BY <1>1, <1>2, <1>3, PrivateStepKeeps DEF MergeGet

LEMMA MergePutKeeps ==
    ASSUME Places, NEW w \in Workers, MergePut(w)
    PROVE  Places'
<1> DEFINE v == [worker[w] EXCEPT !.pc = "finalize"]
           o == Merged(worker[w].copy, worker[w].reply)
<1>1. v \in Worker /\ v.pc = "finalize" /\ v.id = worker[w].id /\ v.key = worker[w].key
  BY OneWorker DEF Worker, WorkerStates
<1>2. worker' = [worker EXCEPT ![w] = v] /\ worker[w].pc = "merge_put"
  BY DEF MergePut, Step
<1>3. o \in Payload
  <2>1. worker[w].copy \in Payload /\ worker[w].reply \in Text
    BY <1>2, BusyWorker, OneWorker DEF InHand, Worker
  <2> QED
    BY <2>1 DEF Payload, Merged
<1> HIDE DEF v, o
<1>4. raw' \in [Days \X Ids -> Payload \cup {None, Torn}]
  <2> DEFINE i == Leaf[worker[w].id]
  <2>1. raw' = [raw EXCEPT ![<<today, i>>] = o] \/ raw' = raw
    BY DEF MergePut, o
  <2> HIDE DEF i
  <2> QED
    BY <1>3, <2>1 DEF Places, TypeOK
<1>5. /\ count' \in [Replicas -> [Counters -> Nat]]
      /\ UNCHANGED budgetVars \/ Fault
  BY DEF MergePut, Places, TypeOK
<1> QED
  BY <1>1, <1>2, <1>4, <1>5, PrivateStepKeeps DEF MergePut

LEMMA HandleKeeps ==
    ASSUME Places, NEW w \in Workers, Handle(w)
    PROVE  Places'
<1>1. CASE Take(w) \/ HandlerFails(w) \/ Discard(w) \/ Mark(w) \/ Load(w)
  BY <1>1, TakeKeeps, HandlerFailsKeeps, DiscardKeeps, MarkKeeps, LoadKeeps
<1>2. CASE \E text \in CandidateTexts : CandidateAnswers(w, text)
  BY <1>2, CandidateAnswersKeeps
<1>3. CASE CandidateFails(w) \/ FinalizeError(w) \/ MergeGet(w) \/ MergePut(w)
  BY <1>3, CandidateFailsKeeps, FinalizeErrorKeeps, MergeGetKeeps, MergePutKeeps
<1>4. CASE FinalizeOk(w) \/ CountVerdict(w)
  BY <1>4, FinalizeOkKeeps, CountVerdictKeeps
<1> QED
  BY <1>1, <1>2, <1>3, <1>4 DEF Handle

-----------------------------------------------------------------------------
(* The steps of a sweeper.                                                 *)

(* A step of the sweeper of r, which may rewrite a row.                    *)
LEMMA SweeperKeepsPlaces ==
    ASSUME Places, NEW r \in Replicas, NEW left \in SUBSET Rows,
           sweep' = [sweep EXCEPT ![r] = left],
           TableKept, Rows' = Rows, UNCHANGED budgetVars \/ Fault, SweepUnchanged
    PROVE  Places'
<1>1. /\ left \in SUBSET Ids /\ \A i \in left : row[i] # None
      /\ faults' \in Nat /\ UNCHANGED <<crashes, stops>>
  BY DEF Rows, Fault, budgetVars, Places, TypeOK
<1>2. /\ sweep' \in [Replicas -> SUBSET Ids] /\ sweep'[r] = left
      /\ \A x \in Replicas : x # r => sweep'[x] = sweep[x]
  BY <1>1 DEF Places, TypeOK
<1>3. TypeOK'
  BY <1>1, <1>2 DEF Places, TypeOK, TableKept, SweepUnchanged, clockVars
<1>4. Handling'
  <2>1. ASSUME NEW x \in Workers, worker[x].pc # "get" PROVE InHand(x)'
    BY <2>1, HandKept DEF Places, Handling, SweepUnchanged
  <2> QED
    BY <2>1 DEF Handling, SweepUnchanged
<1>5. Selected'
  BY <1>1, <1>2 DEF Places, TypeOK, Selected, TableKept
<1>6. Served' /\ NotBefore'
  BY DEF Places, Served, InFlight, NotBefore, Started, SweepUnchanged
<1>7. Backlogged'
  <2>1. \A x \in Replicas : \A i \in Range(backlog[x]) : i \in Ids
    BY DEF Places, TypeOK, Range
  <2> QED
    BY <2>1 DEF Places, Backlogged, TableKept, SweepUnchanged
<1> QED
  BY <1>3, <1>4, <1>5, <1>6, <1>7 DEF Places

LEMMA SweepFindKeeps ==
    ASSUME Places, NEW r \in Replicas, SweepFind(r)
    PROVE  Places'
<1>1. PICK found \in SUBSET Stale : sweep' = [sweep EXCEPT ![r] = found]
  BY DEF SweepFind
<1>2. found \in SUBSET Rows
  BY DEF Stale, UnfinishedIds
<1>3. TableKept /\ Rows' = Rows
  BY TableUntouched DEF SweepFind, Places
<1> QED
  BY <1>1, <1>2, <1>3, SweeperKeepsPlaces DEF SweepFind

LEMMA SweepOneKeeps ==
    ASSUME Places, NEW r \in Replicas, NEW i \in Ids, SweepOne(r, i)
    PROVE  Places'
<1>1. row[i] # None /\ sweep[r] \ {i} \in SUBSET Rows
  BY DEF SweepOne, Places, Selected, Rows, TypeOK
<1>2. TableKept /\ Rows' = Rows
  BY <1>1, Written, FinalizeEffect DEF SweepOne
<1> QED
  BY <1>1, <1>2, SweeperKeepsPlaces DEF SweepOne

LEMMA SweepFailsKeeps ==
    ASSUME Places, NEW r \in Replicas, SweepFails(r)
    PROVE  Places'
<1>1. TableKept /\ Rows' = Rows
  BY TableUntouched DEF SweepFails, Places
<1> QED
  BY <1>1, SweeperKeepsPlaces DEF SweepFails

LEMMA SweepKeeps ==
    ASSUME Places, NEW r \in Replicas, Sweep(r)
    PROVE  Places'
  BY SweepFindKeeps, SweepOneKeeps, SweepFailsKeeps DEF Sweep

-----------------------------------------------------------------------------
(* The lifespan of a replica.                                              *)

(* The startup query returns existing rows, each once.                     *)
LEMMA StartupQuery ==
    ASSUME Places, NEW ids \in ByAge(UnfinishedIds)
    PROVE  LET s == Limited(ids, RequeueLimit)
           IN  /\ s \in Seq(Ids) /\ Distinct(s)
               /\ Range(s) \subseteq UnfinishedIds
<1> DEFINE n == Cardinality(UnfinishedIds)
           s == Limited(ids, RequeueLimit)
           e == IF n > RequeueLimit THEN RequeueLimit ELSE n
<1>1. n \in Nat
  <2>1. UnfinishedIds \subseteq Rows
    BY DEF UnfinishedIds
  <2> QED
    BY <2>1, FS_Subset, FS_CardinalityType DEF Places
<1>2. /\ ids \in [1 .. n -> UnfinishedIds]
      /\ \A k, m \in 1 .. n : k < m => ids[k] # ids[m]
  BY DEF ByAge
<1>3. UnfinishedIds \subseteq Ids
  BY DEF UnfinishedIds, Rows
<1>4. e \in Nat /\ e <= n
  BY <1>1, ShadowProxyAssumption
<1> HIDE DEF n
<1>5. ids \in Seq(UnfinishedIds) /\ Len(ids) = n
  BY <1>1, <1>2
<1>6. s = SubSeq(ids, 1, e)
  BY <1>5 DEF Limited
<1> HIDE DEF e, s
<1>7. /\ s \in Seq(UnfinishedIds) /\ Len(s) = e
      /\ \A k \in 1 .. e : s[k] = ids[k]
  <2> DEFINE t == SubSeq(ids, 1, e)
  <2>1. /\ t \in Seq(UnfinishedIds) /\ Len(t) = e - 1 + 1
        /\ \A k \in 1 .. e - 1 + 1 : t[k] = ids[1 + k - 1]
    BY <1>4, <1>5, Window
  <2>2. e - 1 + 1 = e /\ \A k \in 1 .. e : 1 + k - 1 = k
    BY <1>4
  <2>3. s = t
    BY <1>6
  <2> HIDE DEF t
  <2> QED
    BY <2>1, <2>2, <2>3
<1>8. Distinct(s)
  <2> SUFFICES ASSUME NEW k \in 1 .. e, NEW m \in 1 .. e, k # m
               PROVE  s[k] # s[m]
    BY <1>7 DEF Distinct
  <2>1. k \in 1 .. n /\ m \in 1 .. n /\ (k < m \/ m < k)
    BY <1>1, <1>4
  <2> QED
    BY <1>2, <1>7, <2>1
<1>9. Range(s) \subseteq UnfinishedIds
  BY <1>7 DEF Range
<1>10. s \in Seq(Ids)
  BY <1>3, <1>7
<1> QED
  BY <1>8, <1>9, <1>10 DEF s

(* A step of the lifespan of r that ends or begins nothing else.           *)
LEMMA LifespanKeepsPlaces ==
    ASSUME Places, NEW r \in Replicas, NEW p \in Phases,
           phase' = [phase EXCEPT ![r] = p],
           \/ /\ phase[r] = "down" /\ p = "booting" /\ UNCHANGED <<backlog, queue>>
           \/ /\ phase[r] = "booting" /\ p = "requeueing" /\ UNCHANGED queue
              /\ \E s \in Seq(Ids) :
                     /\ Distinct(s) /\ Range(s) \subseteq Rows
                     /\ backlog' = [backlog EXCEPT ![r] = s]
           \/ /\ phase[r] = "requeueing" /\ p = "serving"
              /\ backlog' = [backlog EXCEPT ![r] = <<>>]
              /\ \E q \in Seq(Ids) : /\ Len(q) <= Capacity
                                     /\ queue' = [queue EXCEPT ![r] = q]
           \/ /\ phase[r] = "serving" /\ p = "stopping" /\ CallsAt(r) = {}
              /\ UNCHANGED <<backlog, queue>>,
           boots' \in [Replicas -> Nat], stops' \in Nat,
           LifespanUnchanged,
           UNCHANGED <<call, raw, worker, sweep, faults, crashes>>
    PROVE  Places'
<1>1. PICK s \in Seq(Ids) :
        /\ Distinct(s) /\ \A i \in Range(s) : row[i] # None
        /\ backlog' = [backlog EXCEPT ![r] = s]
        /\ p # "requeueing" => s = <<>>
  <2>1. /\ <<>> \in Seq(Ids) /\ Distinct(<<>>) /\ Range(<<>>) = {}
    BY DEF Distinct, Range
  <2>2. CASE phase[r] = "booting" /\ p = "requeueing"
    BY <2>2 DEF Rows
  <2>3. CASE phase[r] = "requeueing" /\ p = "serving"
    BY <2>1, <2>3
  <2>4. CASE UNCHANGED backlog /\ phase[r] # "requeueing" /\ p # "requeueing"
    <3>1. backlog' = [backlog EXCEPT ![r] = <<>>]
      BY <2>4 DEF Places, TypeOK, NotBefore
    <3> QED
      BY <2>1, <3>1
  <2> QED
    BY <2>2, <2>3, <2>4
<1>2. PICK q \in Seq(Ids) :
        /\ Len(q) <= Capacity /\ queue' = [queue EXCEPT ![r] = q]
        /\ p \notin {"serving", "stopping"} => q = <<>>
  <2>1. CASE phase[r] = "requeueing" /\ p = "serving"
    BY <2>1
  <2>2. CASE UNCHANGED queue
    <3>1. queue' = [queue EXCEPT ![r] = queue[r]]
      BY <2>2 DEF Places, TypeOK
    <3>2. p \notin {"serving", "stopping"} => queue[r] = <<>>
      BY DEF Places, NotBefore, Started
    <3> QED
      BY <3>1, <3>2 DEF Places, TypeOK
  <2> QED
    BY <2>1, <2>2
<1>3. /\ phase' \in [Replicas -> Phases] /\ phase'[r] = p
      /\ \A x \in Replicas : x # r => phase'[x] = phase[x]
      /\ backlog' \in [Replicas -> Seq(Ids)] /\ backlog'[r] = s
      /\ \A x \in Replicas : x # r => backlog'[x] = backlog[x]
      /\ queue' \in [Replicas -> Seq(Ids)] /\ queue'[r] = q
      /\ \A x \in Replicas : x # r => queue'[x] = queue[x]
  BY <1>1, <1>2 DEF Places, TypeOK
<1>4. TypeOK'
  BY <1>2, <1>3 DEF Places, TypeOK, LifespanUnchanged, clockVars
<1>5. Handling' /\ Selected' /\ IsFiniteSet(Rows)'
  BY DEF Places, Handling, InHand, Selected, Rows, LifespanUnchanged
<1>6. Served'
  <2> SUFFICES ASSUME NEW c \in Calls, InFlight(c)'
               PROVE  call'[c].by \in Replicas /\ phase'[call'[c].by] = "serving"
    BY DEF Served
  <2>1. InFlight(c) /\ call[c].by \in Replicas /\ phase[call[c].by] = "serving"
    BY DEF Places, Served, InFlight
  <2>2. call[c].by = r => p = "serving"
    BY <2>1 DEF CallsAt
  <2> QED
    BY <1>3, <2>1, <2>2
<1>7. NotBefore'
  <2>1. \A x \in Replicas : ~Started(x)' => queue'[x] = <<>>
    BY <1>2, <1>3 DEF Places, NotBefore, Started
  <2>2. \A w \in Workers : ~Started(Home[w])' => worker'[w].pc = "get"
    BY <1>3, ShadowProxyAssumption DEF Places, NotBefore, Started
  <2>3. \A x \in Replicas : phase'[x] # "requeueing" => backlog'[x] = <<>>
    BY <1>1, <1>3 DEF Places, NotBefore
  <2> QED
    BY <2>1, <2>2, <2>3 DEF NotBefore
<1>8. Backlogged'
  BY <1>1, <1>3 DEF Places, Backlogged, LifespanUnchanged
<1> QED
  BY <1>4, <1>5, <1>6, <1>7, <1>8 DEF Places

LEMMA BootKeeps ==
    ASSUME Places, NEW r \in Replicas, Boot(r)
    PROVE  Places'
<1>1. boots' \in [Replicas -> Nat] /\ stops' \in Nat
  <2>1. boots[r] + 1 \in Nat /\ boots' = [boots EXCEPT ![r] = boots[r] + 1]
    BY DEF Boot, Places, TypeOK
  <2> QED
    BY <2>1 DEF Boot, budgetVars, Places, TypeOK
<1> QED
  BY <1>1, LifespanKeepsPlaces DEF Boot, Phases, budgetVars

LEMMA RequeueFindKeeps ==
    ASSUME Places, NEW r \in Replicas, RequeueFind(r)
    PROVE  Places'
<1>1. PICK ids \in ByAge(UnfinishedIds) :
         backlog' = [backlog EXCEPT ![r] = Limited(ids, RequeueLimit)]
  BY DEF RequeueFind
<1> DEFINE s == Limited(ids, RequeueLimit)
<1>2. s \in Seq(Ids) /\ Distinct(s) /\ Range(s) \subseteq Rows
  <2>1. s \in Seq(Ids) /\ Distinct(s) /\ Range(s) \subseteq UnfinishedIds
    BY StartupQuery
  <2> QED
    BY <2>1 DEF UnfinishedIds
<1>3. backlog' = [backlog EXCEPT ![r] = s]
  BY <1>1
<1> HIDE DEF s
<1>4. boots' \in [Replicas -> Nat] /\ stops' \in Nat
  BY DEF RequeueFind, budgetVars, Places, TypeOK
<1> QED
  BY <1>2, <1>3, <1>4, LifespanKeepsPlaces DEF RequeueFind, Phases, budgetVars

LEMMA RequeueAllKeeps ==
    ASSUME Places, NEW r \in Replicas, RequeueAll(r)
    PROVE  Places'
<1> DEFINE q == EnqueuedAll(Policy, <<>>, backlog[r])
<1>1. q \in Seq(Ids) /\ Len(q) <= Capacity
  BY ShadowProxyAssumption, RequeuedOnce DEF Places, TypeOK, Backlogged
<1>2. queue' = [queue EXCEPT ![r] = q]
  BY DEF RequeueAll, Places, NotBefore, Started
<1> HIDE DEF q
<1>3. boots' \in [Replicas -> Nat] /\ stops' \in Nat
  BY DEF RequeueAll, budgetVars, Places, TypeOK
<1> QED
  BY <1>1, <1>2, <1>3, LifespanKeepsPlaces DEF RequeueAll, Phases, budgetVars

LEMMA ShutdownKeeps ==
    ASSUME Places, NEW r \in Replicas, Shutdown(r)
    PROVE  Places'
<1>1. boots' \in [Replicas -> Nat] /\ stops' \in Nat
  BY DEF Shutdown, Places, TypeOK
<1> QED
  BY <1>1, LifespanKeepsPlaces DEF Shutdown, Phases

(* The end of a process.                                                   *)
LEMMA ForgetKeepsPlaces ==
    ASSUME Places, NEW r \in Replicas, ForgetMemory(r),
           call' \in [Calls -> Call],
           \A c \in Calls : InFlight(c)' => call'[c] = call[c] /\ call[c].by # r,
           raw' \in [Days \X Ids -> Payload \cup {None, Torn}],
           crashes' \in Nat, UNCHANGED <<faults, stops>>
    PROVE  Places'
<1>1. /\ phase' \in [Replicas -> Phases] /\ phase'[r] = "down"
      /\ \A x \in Replicas : x # r => phase'[x] = phase[x]
      /\ backlog' \in [Replicas -> Seq(Ids)] /\ backlog'[r] = <<>>
      /\ \A x \in Replicas : x # r => backlog'[x] = backlog[x]
      /\ queue' \in [Replicas -> Seq(Ids)] /\ queue'[r] = <<>>
      /\ \A x \in Replicas : x # r => queue'[x] = queue[x]
      /\ sweep' \in [Replicas -> SUBSET Ids]
      /\ \A x \in Replicas : sweep'[x] \subseteq sweep[x]
  BY DEF ForgetMemory, Places, TypeOK, Phases
<1>2. /\ worker' \in [Workers -> Worker]
      /\ \A w \in Workers : worker'[w] = IF Home[w] = r THEN Idle ELSE worker[w]
  BY IdleWorker DEF ForgetMemory, Places, TypeOK
<1>3. TypeOK'
  <2>1. rate' \in [Replicas -> Rates \cup {"all"}]
    BY DEF ForgetMemory, Places, TypeOK
  <2>2. count' \in [Replicas -> [Counters -> Nat]]
    <3>1. ZeroCounters \in [Counters -> Nat]
      BY DEF ZeroCounters
    <3> QED
      BY <3>1 DEF ForgetMemory, Places, TypeOK
  <2>3. \A x \in Replicas : Len(queue'[x]) <= Capacity
    <3>1. Len(<<>>) = 0 /\ 0 <= Capacity
      BY CapacityAssumption
    <3>2. \A x \in Replicas : queue'[x] = <<>> \/ queue'[x] = queue[x]
      BY <1>1
    <3> QED
      BY <3>1, <3>2 DEF Places, TypeOK
  <2> QED
    BY <1>1, <1>2, <2>1, <2>2, <2>3 DEF ForgetMemory, Places, TypeOK, clockVars
<1>4. Handling'
  BY <1>2, IdleWorker DEF Places, Handling, InHand, ForgetMemory
<1>5. Selected' /\ IsFiniteSet(Rows)'
  BY <1>1 DEF Places, Selected, Rows, ForgetMemory
<1>6. Served'
  <2> SUFFICES ASSUME NEW c \in Calls, InFlight(c)'
               PROVE  call'[c].by \in Replicas /\ phase'[call'[c].by] = "serving"
    BY DEF Served
  <2>1. call'[c] = call[c] /\ call[c].by # r
    OBVIOUS
  <2>2. call[c].by \in Replicas /\ phase[call[c].by] = "serving"
    BY <2>1 DEF Places, Served, InFlight
  <2> QED
    BY <1>1, <2>1, <2>2
<1>7. NotBefore'
  <2>1. NotBefore
    BY DEF Places
  <2>2. ASSUME NEW x \in Replicas
        PROVE  /\ ~Started(x)' => queue'[x] = <<>>
               /\ phase'[x] # "requeueing" => backlog'[x] = <<>>
    BY <1>1, <2>1, <2>2 DEF NotBefore, Started
  <2>3. ASSUME NEW w \in Workers, ~Started(Home[w])'
        PROVE  worker'[w].pc = "get"
    <3>1. Home[w] \in Replicas
      BY ShadowProxyAssumption
    <3>2. CASE Home[w] = r
      BY <1>2, <3>2, IdleWorker
    <3>3. CASE Home[w] # r
      BY <1>1, <1>2, <2>1, <2>3, <3>1, <3>3 DEF NotBefore, Started
    <3> QED
      BY <3>2, <3>3
  <2> QED
    BY <2>2, <2>3 DEF NotBefore, Started
<1>8. Backlogged'
  BY <1>1 DEF Places, Backlogged, ForgetMemory, Distinct, Range
<1> QED
  BY <1>3, <1>4, <1>5, <1>6, <1>7, <1>8 DEF Places

LEMMA ShutdownDoneKeeps ==
    ASSUME Places, NEW r \in Replicas, ShutdownDone(r)
    PROVE  Places'
<1>1. \A c \in Calls : InFlight(c) => call[c].by # r
  BY DEF ShutdownDone, Places, Served
<1> QED
  BY <1>1, ForgetKeepsPlaces DEF ShutdownDone, InFlight, budgetVars, Places, TypeOK

LEMMA CrashKeeps ==
    ASSUME Places, NEW r \in Replicas, Crash(r)
    PROVE  Places'
<1>1. /\ call' \in [Calls -> Call]
      /\ \A c \in Calls : InFlight(c)' => call'[c] = call[c] /\ call[c].by # r
  <2> DEFINE lost(c) == [call[c] EXCEPT !.pc = "lost"]
  <2>1. \A c \in Calls : lost(c) \in Call /\ lost(c).pc = "lost"
    BY OneCall DEF Call, CallStates
  <2>2. call' = [c \in Calls |-> IF c \in CallsAt(r) THEN lost(c) ELSE call[c]]
    BY DEF Crash
  <2> HIDE DEF lost
  <2>3. call' \in [Calls -> Call]
    BY <2>1, <2>2, OneCall
  <2>4. ASSUME NEW c \in Calls, InFlight(c)'
        PROVE  call'[c] = call[c] /\ call[c].by # r
    <3>1. call'[c] = IF c \in CallsAt(r) THEN lost(c) ELSE call[c]
      BY <2>2
    <3>2. c \notin CallsAt(r)
      BY <2>1, <2>4, <3>1 DEF InFlight
    <3> QED
      BY <2>4, <3>1, <3>2 DEF CallsAt, InFlight
  <2> QED
    BY <2>3, <2>4
<1>2. raw' \in [Days \X Ids -> Payload \cup {None, Torn}]
  BY DEF Crash, Places, TypeOK
<1>3. crashes' \in Nat /\ UNCHANGED <<faults, stops>> /\ ForgetMemory(r)
  BY DEF Crash, Places, TypeOK
<1> QED
  BY <1>1, <1>2, <1>3, ForgetKeepsPlaces

(* Configuration and clocks.                                               *)
LEMMA OtherKeeps ==
    ASSUME Places,
           \/ \E r \in Replicas, value \in Rates : PutConfig(r, value)
           \/ TimePasses \/ Midnight \/ UNCHANGED vars
    PROVE  Places'
<1>1. /\ rate' \in [Replicas -> Rates \cup {"all"}]
      /\ today' \in Days /\ horizon' \in Nat
  <2>1. today < LastDay => today + 1 \in Days
    BY ShadowProxyAssumption DEF Places, TypeOK, Days
  <2>2. horizon + 1 \in Nat
    BY DEF Places, TypeOK
  <2>3. /\ \/ \E r \in Replicas, value \in Rates : rate' = [rate EXCEPT ![r] = value]
           \/ UNCHANGED rate
        /\ UNCHANGED today \/ (today < LastDay /\ today' = today + 1)
        /\ UNCHANGED horizon \/ horizon' = horizon + 1
    BY DEF PutConfig, TimePasses, Midnight, vars, clockVars, replicaVars
  <2> QED
    BY <2>1, <2>2, <2>3 DEF Places, TypeOK
<1>2. UNCHANGED <<received, call, row, raw, phase, boots, backlog, queue, worker, sweep,
                  count, faults, crashes, stops>>
  BY DEF PutConfig, TimePasses, Midnight, vars, clockVars, replicaVars, budgetVars
<1>3. TypeOK'
  BY <1>1, <1>2 DEF Places, TypeOK
<1> QED
  BY <1>2, <1>3 DEF Places, Handling, InHand, Selected, Served, InFlight, NotBefore, Started,
     Backlogged, Rows

LEMMA InitPlaces == Init => Places
<1> SUFFICES ASSUME Init PROVE Places
  OBVIOUS
<1>1. TypeOK
  <2>1. NewCall \in Call
    BY EvaluatorAssumption DEF NewCall, Call, CallStates, Store!PrimaryStatus, Text, Unparsable
  <2>2. ZeroCounters \in [Counters -> Nat] /\ 1 \in Days
    BY ShadowProxyAssumption DEF ZeroCounters, Days
  <2> QED
    BY <2>1, <2>2, IdleWorker, CapacityAssumption DEF Init, TypeOK, Phases
<1>2. Rows = {}
  BY DEF Init, Rows
<1>3. Handling /\ Selected /\ Served /\ NotBefore /\ Backlogged
  BY IdleWorker DEF Init, Handling, Selected, Served, InFlight, NewCall, NotBefore, Started,
     Backlogged, Distinct, Range
<1> QED
  BY <1>1, <1>2, <1>3, FS_EmptySet DEF Places

LEMMA NextPlaces == Places /\ [Next]_vars => Places'
<1> SUFFICES ASSUME Places, [Next]_vars PROVE Places'
  OBVIOUS
<1>1. CASE \E c \in Calls, r \in Replicas : Receive(c, r)
  BY <1>1, ReceiveKeeps
<1>2. CASE \E c \in Calls : ServeCall(c)
  BY <1>2, ServeCallKeeps
<1>3. CASE \E w \in Workers : Handle(w)
  BY <1>3, HandleKeeps
<1>4. CASE \E r \in Replicas : \/ Sweep(r) \/ Boot(r) \/ RequeueFind(r) \/ RequeueAll(r)
                               \/ Shutdown(r) \/ ShutdownDone(r) \/ Crash(r)
  BY <1>4, SweepKeeps, BootKeeps, RequeueFindKeeps, RequeueAllKeeps, ShutdownKeeps,
     ShutdownDoneKeeps, CrashKeeps
<1>5. CASE \/ \E r \in Replicas, value \in Rates : PutConfig(r, value)
           \/ TimePasses \/ Midnight \/ UNCHANGED vars
  BY <1>5, OtherKeeps
<1> QED
  BY <1>1, <1>2, <1>3, <1>4, <1>5 DEF Next, Quiescent

(* Every component of the state has its type: no queue outgrows its        *)
(* capacity, and the columns of the table hold what the columns can hold.  *)
THEOREM ProxyTypeCorrect == Spec => []TypeOK
<1>1. Places => TypeOK
  BY DEF Places
<1> QED
  BY InitPlaces, NextPlaces, <1>1, PTL DEF Spec

-----------------------------------------------------------------------------
(* Part 2.  A step of a call.                                              *)
OthersWait(c) == \A d \in Calls : d # c => call'[d] = call[d]

SameAnswer(c) ==
    /\ call'[c].status = call[c].status /\ call'[c].text = call[c].text
    /\ call'[c].at = call[c].at /\ call'[c].by = call[c].by

Enters(c) ==
    /\ call[c].pc = "new" /\ call'[c].pc = "primary" /\ call'[c].key = call[c].key
    /\ call'[c].shadow = call[c].shadow
    /\ UNCHANGED <<row, raw, queue>>

Hears(c) ==
    /\ call[c].pc = "primary" /\ call'[c].pc \in {"archive", "insert", "broken"}
    /\ call'[c].key = call[c].key /\ call'[c].at = call[c].at
    /\ call'[c].shadow = call[c].shadow
    /\ UNCHANGED <<row, raw, queue>>

Archives(c) ==
    /\ call[c].pc = "archive" /\ call'[c].pc = "insert" /\ SameAnswer(c)
    /\ call'[c].shadow = call[c].shadow
    /\ \/ /\ call'[c].key = today
          /\ raw' = [raw EXCEPT ![<<today, IdOf[c]>>] =
                        [primary |-> call[c].text, candidate |-> None]]
       \/ call'[c].key = call[c].key /\ UNCHANGED raw /\ faults' = faults + 1
    /\ UNCHANGED <<row, queue>>

Records(c) ==
    /\ call[c].pc = "insert" /\ call'[c].pc = "respond" /\ SameAnswer(c)
    /\ call'[c].shadow = call[c].shadow
    /\ call'[c].key = call[c].key
    /\ row[IdOf[c]] = None /\ row'[IdOf[c]] # None /\ Recorded(c, row'[IdOf[c]])
    /\ \A i \in Ids : i # IdOf[c] => row'[i] = row[i]
    /\ UNCHANGED <<raw, queue>>

FailsToRecord(c) ==
    /\ call[c].pc = "insert" /\ call'[c].pc \in {"respond", "broken"} /\ SameAnswer(c)
    /\ call'[c].shadow = call[c].shadow
    /\ call'[c].pc = "respond" => OnFailure # "fail_closed"
    /\ call'[c].key = call[c].key
    /\ row[IdOf[c]] # None \/ faults' = faults + 1
    /\ UNCHANGED <<row, raw, queue>>

Responds(c) ==
    /\ call[c].pc = "respond" /\ SameAnswer(c) /\ call'[c].key = call[c].key
    /\ \/ call'[c].pc = "refused"  /\ call'[c].shadow = call[c].shadow /\ UNCHANGED queue
       \/ /\ call'[c].pc = "answered" /\ call[c].status = "ok"
          /\ call'[c].shadow = "sampled_out" /\ UNCHANGED queue
       \/ /\ call'[c].pc = "answered" /\ call[c].status = "ok"
          /\ call'[c].shadow = IF Accepts(Policy, queue[call[c].by])
                               THEN "enqueued" ELSE "dropped"
          /\ queue' = [queue EXCEPT ![call[c].by] = Enqueued(Policy, @, IdOf[c])]
    /\ UNCHANGED <<row, raw>>

CallTurn(c) ==
    /\ OthersWait(c)
    /\ \/ Enters(c) \/ Hears(c) \/ Archives(c) \/ Records(c)
       \/ FailsToRecord(c) \/ Responds(c)
    /\ UNCHANGED <<today, phase, backlog, worker, sweep, crashes, stops>>
    /\ UNCHANGED faults \/ faults' = faults + 1

LEMMA ReceiveTurn ==
    ASSUME Places, NEW c \in Calls, NEW r \in Replicas, Receive(c, r)
    PROVE  CallTurn(c)
<1> DEFINE s == [call[c] EXCEPT !.pc = "primary", !.by = r, !.at = received]
<1>1. s.pc = "primary" /\ s.key = call[c].key /\ s.shadow = call[c].shadow
  BY OneCall DEF Call
<1>2. call' = [call EXCEPT ![c] = s] /\ call[c].pc = "new"
  BY DEF Receive
<1> HIDE DEF s
<1>3. call'[c] = s /\ OthersWait(c)
  BY <1>2 DEF OthersWait, Places, TypeOK
<1>4. UNCHANGED <<row, raw, queue, today, phase, backlog, worker, sweep, faults, crashes, stops>>
  BY DEF Receive, replicaVars, budgetVars
<1> QED
  BY <1>1, <1>2, <1>3, <1>4 DEF CallTurn, Enters

LEMMA ServeCallTurn ==
    ASSUME Places, NEW c \in Calls, ServeCall(c)
    PROVE  CallTurn(c)
<1>0. call[c] \in Call /\ call \in [Calls -> Call]
  BY OneCall DEF Places, TypeOK
<1>1. ASSUME NEW status \in Store!PrimaryStatus, NEW text \in PrimaryTexts \cup {"blank"},
             PrimaryReturns(c, status, text)
      PROVE  CallTurn(c)
  <2> DEFINE pc == IF RawStoreOn THEN "archive" ELSE "insert"
             s  == [call[c] EXCEPT !.pc = pc, !.status = status, !.text = text]
  <2>1. /\ s.pc = pc /\ s.key = call[c].key /\ s.at = call[c].at
        /\ s.shadow = call[c].shadow
    BY <1>0 DEF Call
  <2>2. call' = [call EXCEPT ![c] = s] /\ call[c].pc = "primary"
    BY <1>1 DEF PrimaryReturns
  <2> HIDE DEF s
  <2>3. call'[c] = s /\ OthersWait(c)
    BY <1>0, <2>2 DEF OthersWait
  <2>4. UNCHANGED <<row, raw, queue, today, phase, backlog, worker, sweep, faults, crashes, stops>>
    BY <1>1 DEF PrimaryReturns, CallUnchanged, clockVars, replicaVars, budgetVars
  <2> QED
    BY <2>1, <2>2, <2>3, <2>4 DEF CallTurn, Hears
<1>2. ASSUME NEW pc \in CallStates, call' = [call EXCEPT ![c].pc = pc]
      PROVE  /\ OthersWait(c) /\ SameAnswer(c) /\ call'[c].pc = pc
             /\ call'[c].key = call[c].key /\ call'[c].shadow = call[c].shadow
  <2> DEFINE s == [call[c] EXCEPT !.pc = pc]
  <2>1. /\ s.pc = pc /\ s.key = call[c].key /\ s.at = call[c].at /\ s.by = call[c].by
        /\ s.shadow = call[c].shadow /\ s.status = call[c].status /\ s.text = call[c].text
    BY <1>0 DEF Call
  <2>2. call' = [call EXCEPT ![c] = s]
    BY <1>2
  <2> HIDE DEF s
  <2>3. call'[c] = s /\ OthersWait(c)
    BY <1>0, <2>2 DEF OthersWait
  <2> QED
    BY <2>1, <2>3 DEF SameAnswer
<1>3. ASSUME CallUnchanged
      PROVE  UNCHANGED <<queue, today, phase, backlog, worker, sweep>>
  BY <1>3 DEF CallUnchanged, clockVars, replicaVars
<1>4. CASE PrimaryBreaks(c)
  <2>1. call' = [call EXCEPT ![c].pc = "broken"] /\ call[c].pc = "primary" /\ CallUnchanged
    BY <1>4 DEF PrimaryBreaks
  <2>2. UNCHANGED <<row, raw, faults, crashes, stops>>
    BY <1>4 DEF PrimaryBreaks, budgetVars
  <2> QED
    BY <1>2, <1>3, <2>1, <2>2 DEF CallTurn, Hears, SameAnswer, CallStates
<1>5. CASE Archive(c)
  <2> DEFINE s == [call[c] EXCEPT !.pc = "insert", !.key = today]
  <2>1. /\ s.pc = "insert" /\ s.key = today /\ s.at = call[c].at /\ s.by = call[c].by
        /\ s.shadow = call[c].shadow /\ s.status = call[c].status /\ s.text = call[c].text
    BY <1>0 DEF Call
  <2>2. call' = [call EXCEPT ![c] = s] /\ call[c].pc = "archive" /\ CallUnchanged
    BY <1>5 DEF Archive
  <2> HIDE DEF s
  <2>3. call'[c] = s /\ OthersWait(c)
    BY <1>0, <2>2 DEF OthersWait
  <2>4. UNCHANGED <<row, faults, crashes, stops>>
    BY <1>5 DEF Archive, budgetVars
  <2>5. raw' = [raw EXCEPT ![<<today, IdOf[c]>>] =
                        [primary |-> call[c].text, candidate |-> None]]
    BY <1>5 DEF Archive
  <2> QED
    BY <1>3, <2>1, <2>2, <2>3, <2>4, <2>5 DEF CallTurn, Archives, SameAnswer
<1>6. CASE ArchiveFails(c)
  <2>1. call' = [call EXCEPT ![c].pc = "insert"] /\ call[c].pc = "archive" /\ CallUnchanged
    BY <1>6 DEF ArchiveFails
  <2>2. UNCHANGED <<row, raw, crashes, stops>> /\ faults' = faults + 1
    BY <1>6 DEF ArchiveFails, Fault
  <2> QED
    BY <1>2, <1>3, <2>1, <2>2 DEF CallTurn, Archives, CallStates
<1>7. CASE Insert(c)
  <2>1. call' = [call EXCEPT ![c].pc = "respond"] /\ call[c].pc = "insert" /\ CallUnchanged
    BY <1>7 DEF Insert
  <2>2. UNCHANGED <<raw, faults, crashes, stops>> /\ row[IdOf[c]] = None
    BY <1>7 DEF Insert, IdFree, budgetVars
  <2>3. /\ Recorded(c, row'[IdOf[c]]) /\ row'[IdOf[c]] # None
        /\ \A i \in Ids : i # IdOf[c] => row'[i] = row[i]
    BY <1>7, InsertEffect, StorageAssumption DEF Places, Recorded
  <2> QED
    BY <1>2, <1>3, <2>1, <2>2, <2>3 DEF CallTurn, Records, CallStates
<1>8. CASE InsertFails(c)
  <2> DEFINE pc == AfterFailedInsert
  <2>1. call' = [call EXCEPT ![c].pc = pc] /\ call[c].pc = "insert" /\ CallUnchanged
    BY <1>8 DEF InsertFails
  <2>2. /\ UNCHANGED <<row, raw, crashes, stops>>
        /\ (row[IdOf[c]] # None /\ UNCHANGED faults) \/ faults' = faults + 1
    BY <1>8 DEF InsertFails, IdFree, Fault, budgetVars
  <2>3. /\ pc \in {"respond", "broken"} /\ pc \in CallStates
        /\ pc = "respond" => OnFailure # "fail_closed"
    BY DEF AfterFailedInsert, CallStates
  <2> HIDE DEF pc
  <2> QED
    BY <1>2, <1>3, <2>1, <2>2, <2>3 DEF CallTurn, FailsToRecord
<1>9. CASE Refuse(c)
  <2>1. call' = [call EXCEPT ![c].pc = "refused"] /\ call[c].pc = "respond" /\ CallUnchanged
    BY <1>9 DEF Refuse
  <2>2. UNCHANGED <<row, raw, faults, crashes, stops>>
    BY <1>9 DEF Refuse, budgetVars
  <2> QED
    BY <1>2, <1>3, <2>1, <2>2 DEF CallTurn, Responds, CallStates
<1>10. CASE SampleIn(c) \/ SampleOut(c)
  <2> DEFINE in == IF Accepts(Policy, queue[call[c].by]) THEN "enqueued" ELSE "dropped"
  <2>1. PICK shadow \in {in, "sampled_out"} :
          /\ call' = [call EXCEPT ![c].pc = "answered", ![c].shadow = shadow]
          /\ \/ shadow = "sampled_out" /\ UNCHANGED queue
             \/ /\ shadow = in
                /\ queue' = [queue EXCEPT ![call[c].by] = Enqueued(Policy, @, IdOf[c])]
    BY <1>10 DEF SampleIn, SampleOut
  <2> DEFINE s == [call[c] EXCEPT !.pc = "answered", !.shadow = shadow]
  <2>2. /\ s.pc = "answered" /\ s.key = call[c].key /\ s.at = call[c].at
        /\ s.by = call[c].by
        /\ s.shadow = shadow /\ s.status = call[c].status /\ s.text = call[c].text
    BY <1>0 DEF Call
  <2>3. call' = [call EXCEPT ![c] = s]
    BY <2>1
  <2> HIDE DEF s
  <2>4. call'[c] = s /\ OthersWait(c)
    BY <1>0, <2>3 DEF OthersWait
  <2>5. /\ call[c].pc = "respond" /\ call[c].status = "ok"
        /\ UNCHANGED <<row, raw, today, phase, backlog, worker, sweep, faults, crashes, stops>>
    BY <1>10 DEF SampleIn, SampleOut, clockVars, budgetVars
  <2>6. Responds(c)
    BY <2>1, <2>2, <2>4, <2>5 DEF Responds, SameAnswer
  <2> QED
    BY <2>4, <2>5, <2>6 DEF CallTurn
<1> QED
  BY <1>1, <1>4, <1>5, <1>6, <1>7, <1>8, <1>9, <1>10 DEF ServeCall

-----------------------------------------------------------------------------
(* A step of a worker task.                                                *)
OthersWork(w) == \A v \in Workers : v # w => worker'[v] = worker[v]

SameJob(w) == /\ worker'[w].id = worker[w].id /\ worker'[w].key = worker[w].key
              /\ worker'[w].primary = worker[w].primary

(* One UPDATE: finalize() or mark_in_progress() of row i.                  *)
OtherRowsKept(i) == \A j \in Ids : j # i => row'[j] = row[j]

Rewritten(i, status, verdict, action) ==
    /\ OtherRowsKept(i)
    /\ row[i] # None /\ row'[i] # None /\ SameIngest(row[i], row'[i])
    /\ row'[i].candidate = status /\ row'[i].verdict = verdict
    /\ row'[i].attempts = row[i].attempts
    /\ row'[i].candidateAction = IF action = None THEN row[i].candidateAction ELSE action

Takes(w) ==
    LET r == Home[w]
        i == Head(queue[r])
    IN  /\ worker[w].pc = "get" /\ queue[r] # <<>>
        /\ queue' = [queue EXCEPT ![r] = Tail(@)]
        /\ \/ /\ worker'[w].pc = "get"
              /\ (row[i] = None /\ UNCHANGED faults) \/ faults' = faults + 1
           \/ /\ worker'[w].pc = IF row[i].primary = "ok" THEN "mark" ELSE "discard"
              /\ row[i] # None /\ worker'[w].id = i /\ worker'[w].key = row[i].key
              /\ worker'[w].primary = "blank" /\ UNCHANGED faults
        /\ UNCHANGED <<row, raw>>

Abandons(w) ==
    /\ worker[w].pc \in {"discard", "mark", "load", "asked", "finalize", "count", "fail"}
    /\ worker'[w].pc = "get" /\ faults' = faults + 1
    /\ UNCHANGED <<row, raw, queue>>

Discards(w) ==
    /\ worker[w].pc = "discard" /\ worker'[w].pc = "get"
    /\ row[worker[w].id].primary # "ok"
    /\ Rewritten(worker[w].id, "dropped", "primary_error", None)
    /\ UNCHANGED <<raw, queue, faults>>

Marks(w) ==
    LET i == worker[w].id
    IN  /\ worker[w].pc = "mark" /\ worker'[w].pc = "load" /\ SameJob(w)
        /\ OtherRowsKept(i)
        /\ row[i] # None /\ row'[i] # None /\ SameIngest(row[i], row'[i])
        /\ row[i].primary = "ok"
        /\ row'[i].candidate = "in_progress" /\ row'[i].verdict = row[i].verdict
        /\ row'[i].attempts = row[i].attempts + 1
        /\ row'[i].candidateAction = row[i].candidateAction
        /\ UNCHANGED <<raw, queue, faults>>

Loads(w) ==
    /\ worker[w].pc = "load" /\ worker'[w].pc = "asked"
    /\ worker'[w].id = worker[w].id /\ worker'[w].key = worker[w].key
    /\ \/ /\ UNCHANGED faults
          /\ worker'[w].primary =
                 IF Object(w) \in Payload THEN Object(w).primary ELSE "blank"
       \/ faults' = faults + 1 /\ worker'[w].primary = worker[w].primary
    /\ UNCHANGED <<row, raw, queue>>

Asks(w) ==
    /\ worker[w].pc = "asked" /\ SameJob(w)
    /\ \/ worker'[w].pc = "fail"
       \/ worker'[w].pc = "finalize" /\ worker[w].key = NoKey
       \/ worker'[w].pc = "merge_get" /\ worker[w].key # NoKey
    /\ UNCHANGED <<row, raw, queue, faults>>

GetsObject(w) ==
    /\ worker[w].pc = "merge_get" /\ SameJob(w) /\ worker'[w].reply = worker[w].reply
    /\ \/ /\ worker'[w].pc = "merge_put" /\ UNCHANGED faults
          /\ Object(w) \in Payload /\ worker'[w].copy = Object(w)
       \/ /\ worker'[w].pc = "finalize"
          /\ (Object(w) \notin Payload /\ UNCHANGED faults) \/ faults' = faults + 1
    /\ UNCHANGED <<row, raw, queue>>

PutsObject(w) ==
    /\ worker[w].pc = "merge_put" /\ worker'[w].pc = "finalize"
    /\ SameJob(w) /\ worker'[w].reply = worker[w].reply
    /\ \/ /\ raw' = [raw EXCEPT ![<<today, Leaf[worker[w].id]>>] =
                        Merged(worker[w].copy, worker[w].reply)]
          /\ UNCHANGED faults
       \/ UNCHANGED raw /\ faults' = faults + 1
    /\ UNCHANGED <<row, queue>>

GivesVerdict(w) ==
    LET result == Evaluate(worker[w].primary, worker[w].reply)
    IN  /\ worker[w].pc = "finalize" /\ worker'[w].pc = "count" /\ SameJob(w)
        /\ Rewritten(worker[w].id, "ok", result.verdict, result.action)
        /\ UNCHANGED <<raw, queue, faults>>

Counts(w) ==
    /\ worker[w].pc = "count" /\ worker'[w].pc = "get"
    /\ UNCHANGED <<row, raw, queue, faults>>

RecordsError(w) ==
    /\ worker[w].pc = "fail" /\ worker'[w].pc = "get"
    /\ Rewritten(worker[w].id, "error", "candidate_error", None)
    /\ UNCHANGED <<raw, queue, faults>>

WorkerTurn(w) ==
    /\ OthersWork(w)
    /\ \/ Takes(w) \/ Abandons(w) \/ Discards(w) \/ Marks(w) \/ Loads(w) \/ Asks(w)
       \/ GetsObject(w) \/ PutsObject(w) \/ GivesVerdict(w) \/ Counts(w)
       \/ RecordsError(w)
    /\ UNCHANGED <<today, call, phase, backlog, sweep, crashes, stops>>

LEMMA FinalizeRewrites ==
    ASSUME Places, NEW i \in Ids, row[i] # None, NEW status \in Store!CandidateStatus,
           NEW verdict \in Store!Verdict, NEW action \in Store!ActionColumn,
           FinalizeRow(i, status, verdict, action)
    PROVE  Rewritten(i, status, verdict, action)
<1>1. /\ TableKept
      /\ \A j \in Ids : j # i => row'[j] = row[j]
      /\ row'[i].candidate = status /\ row'[i].verdict = verdict
      /\ row'[i].attempts = row[i].attempts
      /\ row'[i].candidateAction =
             IF action = None THEN row[i].candidateAction ELSE action
  BY FinalizeEffect
<1> QED
  BY <1>1 DEF Rewritten, OtherRowsKept, TableKept

LEMMA HandleTurn ==
    ASSUME Places, NEW w \in Workers, Handle(w)
    PROVE  WorkerTurn(w)
<1>0. worker[w] \in Worker /\ worker \in [Workers -> Worker]
  BY OneWorker DEF Places, TypeOK
<1>1. ASSUME WorkerUnchanged, UNCHANGED <<crashes, stops>>
      PROVE  UNCHANGED <<today, call, phase, backlog, sweep, crashes, stops>>
  BY <1>1 DEF WorkerUnchanged, clockVars
<1>2. ASSUME NEW v, worker' = [worker EXCEPT ![w] = v]
      PROVE  worker'[w] = v /\ OthersWork(w)
  BY <1>0, <1>2 DEF OthersWork
<1>3. ASSUME NEW pc, Step(w, pc)
      PROVE  /\ OthersWork(w) /\ SameJob(w) /\ worker'[w].pc = pc
             /\ worker'[w].reply = worker[w].reply
  <2> DEFINE s == [worker[w] EXCEPT !.pc = pc]
  <2>1. /\ s.pc = pc /\ s.key = worker[w].key /\ s.id = worker[w].id
        /\ s.primary = worker[w].primary /\ s.reply = worker[w].reply
    BY <1>0 DEF Worker
  <2>2. worker' = [worker EXCEPT ![w] = s]
    BY <1>3 DEF Step
  <2> HIDE DEF s
  <2> QED
    BY <1>2, <2>1, <2>2 DEF SameJob
<1>4. ASSUME Done(w)
      PROVE  OthersWork(w) /\ worker'[w].pc = "get"
  BY <1>2, <1>4, IdleWorker DEF Done
<1>5. worker[w].pc # "get" => worker[w].id \in Ids /\ row[worker[w].id] # None
  BY BusyWorker
<1>6. CASE Take(w)
  <2> DEFINE i == Head(queue[Home[w]])
  <2>1. /\ worker[w].pc = "get" /\ queue[Home[w]] # <<>>
        /\ queue' = [queue EXCEPT ![Home[w]] = Tail(@)]
        /\ UNCHANGED <<row, raw, crashes, stops>> /\ WorkerUnchanged
        /\ \/ worker' = [worker EXCEPT ![w] = Fetched(i)] /\ UNCHANGED faults
           \/ UNCHANGED worker /\ faults' = faults + 1
    BY <1>6 DEF Take, Fault, budgetVars
  <2>2. CASE UNCHANGED worker /\ faults' = faults + 1
    BY <1>1, <2>1, <2>2 DEF WorkerTurn, Takes, OthersWork
  <2>3. CASE worker' = [worker EXCEPT ![w] = Fetched(i)] /\ UNCHANGED faults
    <3>1. worker'[w] = Fetched(i) /\ OthersWork(w)
      BY <1>2, <2>3
    <3>2. CASE row[i] = None
      <4>1. worker'[w].pc = "get"
        BY <3>1, <3>2, IdleWorker DEF Fetched
      <4> QED
        BY <1>1, <2>1, <2>3, <3>1, <3>2, <4>1 DEF WorkerTurn, Takes
    <3>3. CASE row[i] # None
      <4> DEFINE pc == IF row[i].primary = "ok" THEN "mark" ELSE "discard"
                 v  == [Idle EXCEPT !.id = i, !.key = row[i].key, !.pc = pc]
      <4>1. v.id = i /\ v.key = row[i].key /\ v.pc = pc /\ v.primary = "blank"
        BY DEF Idle
      <4>2. worker'[w] = v
        BY <3>1, <3>3 DEF Fetched
      <4> HIDE DEF v
      <4> QED
        BY <1>1, <2>1, <2>3, <3>1, <3>3, <4>1, <4>2 DEF WorkerTurn, Takes
    <3> QED
      BY <3>2, <3>3
  <2> QED
    BY <2>1, <2>2, <2>3
<1>7. CASE HandlerFails(w)
  <2>1. /\ UNCHANGED <<row, raw, queue, crashes, stops>> /\ WorkerUnchanged
        /\ worker[w].pc \in {"discard", "mark", "load", "asked", "finalize", "count", "fail"}
        /\ faults' = faults + 1 /\ Done(w)
    BY <1>7 DEF HandlerFails, Fault
  <2> QED
    BY <1>1, <1>4, <2>1 DEF WorkerTurn, Abandons
<1>8. CASE Discard(w)
  <2>1. /\ worker[w].pc = "discard" /\ Done(w) /\ WorkerUnchanged
        /\ UNCHANGED <<raw, queue, faults, crashes, stops>>
    BY <1>8 DEF Discard, budgetVars
  <2>2. row[worker[w].id].primary # "ok"
    BY <2>1, BusyWorker DEF InHand
  <2>3. Rewritten(worker[w].id, "dropped", "primary_error", None)
    BY <1>5, <1>8, <2>1, Written, FinalizeRewrites DEF Discard
  <2> QED
    BY <1>1, <1>4, <2>1, <2>2, <2>3 DEF WorkerTurn, Discards
<1>9. CASE Mark(w)
  <2>1. /\ worker[w].pc = "mark" /\ Step(w, "load") /\ WorkerUnchanged
        /\ UNCHANGED <<raw, queue, faults, crashes, stops>>
    BY <1>9 DEF Mark, budgetVars
  <2> DEFINE i == worker[w].id
  <2>2. /\ i \in Ids /\ row[i] # None /\ TableKept
        /\ \A j \in Ids : j # i => row'[j] = row[j]
        /\ row'[i].candidate = "in_progress" /\ row'[i].verdict = row[i].verdict
        /\ row'[i].attempts = row[i].attempts + 1
        /\ row'[i].candidateAction = row[i].candidateAction
    BY <1>9, MarkEffect
  <2>3. row[i].primary = "ok"
    BY <2>1, BusyWorker DEF InHand
  <2>4. row'[i] # None /\ SameIngest(row[i], row'[i])
    BY <2>2 DEF TableKept
  <2>5. Marks(w)
    BY <1>3, <2>1, <2>2, <2>3, <2>4 DEF Marks, OtherRowsKept
  <2> QED
    BY <1>1, <1>3, <2>1, <2>5 DEF WorkerTurn
<1>10. CASE Load(w)
  <2> DEFINE text == IF Object(w) \in Payload THEN Object(w).primary ELSE "blank"
             s == [worker[w] EXCEPT !.primary = text, !.pc = "asked"]
  <2>1. /\ worker[w].pc = "load" /\ WorkerUnchanged
        /\ UNCHANGED <<row, raw, queue, crashes, stops>>
        /\ \/ worker' = [worker EXCEPT ![w] = s] /\ UNCHANGED faults
           \/ Step(w, "asked") /\ faults' = faults + 1
    BY <1>10 DEF Load, Fault, budgetVars
  <2>2. CASE worker' = [worker EXCEPT ![w] = s] /\ UNCHANGED faults
    <3>1. /\ s.pc = "asked" /\ s.id = worker[w].id /\ s.key = worker[w].key
          /\ s.primary = text
      BY <1>0 DEF Worker
    <3>2. worker'[w] = s /\ OthersWork(w)
      BY <1>2, <2>2
    <3> HIDE DEF s
    <3> QED
      BY <1>1, <2>1, <2>2, <3>1, <3>2 DEF WorkerTurn, Loads
  <2>3. CASE Step(w, "asked") /\ faults' = faults + 1
    BY <1>1, <1>3, <2>1, <2>3 DEF WorkerTurn, Loads, SameJob
  <2> QED
    BY <2>1, <2>2, <2>3
<1>11. ASSUME NEW text \in CandidateTexts, CandidateAnswers(w, text)
       PROVE  WorkerTurn(w)
  <2> DEFINE pc == IF worker[w].key = NoKey THEN "finalize" ELSE "merge_get"
             s == [worker[w] EXCEPT !.reply = text, !.pc = pc]
  <2>1. /\ worker[w].pc = "asked" /\ WorkerUnchanged
        /\ UNCHANGED <<row, raw, queue, faults, crashes, stops>>
        /\ worker' = [worker EXCEPT ![w] = s]
    BY <1>11 DEF CandidateAnswers, budgetVars
  <2>2. /\ s.pc = pc /\ s.id = worker[w].id /\ s.key = worker[w].key
        /\ s.primary = worker[w].primary
    BY <1>0 DEF Worker
  <2> HIDE DEF s
  <2>3. worker'[w] = s /\ OthersWork(w)
    BY <1>2, <2>1
  <2> QED
    BY <1>1, <2>1, <2>2, <2>3 DEF WorkerTurn, Asks, SameJob
<1>12. CASE CandidateFails(w)
  <2>1. /\ worker[w].pc = "asked" /\ Step(w, "fail") /\ WorkerUnchanged
        /\ UNCHANGED <<row, raw, queue, faults, crashes, stops>>
    BY <1>12 DEF CandidateFails, budgetVars
  <2> QED
    BY <1>1, <1>3, <2>1 DEF WorkerTurn, Asks
<1>13. CASE FinalizeError(w)
  <2>1. /\ worker[w].pc = "fail" /\ Done(w) /\ WorkerUnchanged
        /\ UNCHANGED <<raw, queue, faults, crashes, stops>>
    BY <1>13 DEF FinalizeError, budgetVars
  <2>2. Rewritten(worker[w].id, "error", "candidate_error", None)
    BY <1>5, <1>13, <2>1, Written, FinalizeRewrites DEF FinalizeError
  <2> QED
    BY <1>1, <1>4, <2>1, <2>2 DEF WorkerTurn, RecordsError
<1>14. CASE MergeGet(w)
  <2> DEFINE s == [worker[w] EXCEPT !.copy = Object(w), !.pc = "merge_put"]
  <2>1. /\ worker[w].pc = "merge_get" /\ WorkerUnchanged
        /\ UNCHANGED <<row, raw, queue, crashes, stops>>
        /\ \/ /\ Object(w) \in Payload /\ UNCHANGED faults
              /\ worker' = [worker EXCEPT ![w] = s]
           \/ /\ Step(w, "finalize")
              /\ (Object(w) \notin Payload /\ UNCHANGED faults) \/ faults' = faults + 1
    BY <1>14 DEF MergeGet, Fault, budgetVars
  <2>2. CASE /\ Object(w) \in Payload /\ UNCHANGED faults
             /\ worker' = [worker EXCEPT ![w] = s]
    <3>1. /\ s.pc = "merge_put" /\ s.id = worker[w].id /\ s.key = worker[w].key
          /\ s.primary = worker[w].primary /\ s.reply = worker[w].reply
          /\ s.copy = Object(w)
      BY <1>0 DEF Worker
    <3>2. worker'[w] = s /\ OthersWork(w)
      BY <1>2, <2>2
    <3> HIDE DEF s
    <3> QED
      BY <1>1, <2>1, <2>2, <3>1, <3>2 DEF WorkerTurn, GetsObject, SameJob
  <2>3. CASE /\ Step(w, "finalize")
             /\ (Object(w) \notin Payload /\ UNCHANGED faults) \/ faults' = faults + 1
    BY <1>1, <1>3, <2>1, <2>3 DEF WorkerTurn, GetsObject
  <2> QED
    BY <2>1, <2>2, <2>3
<1>15. CASE MergePut(w)
  <2>1. /\ worker[w].pc = "merge_put" /\ WorkerUnchanged /\ Step(w, "finalize")
        /\ UNCHANGED <<row, queue, crashes, stops>>
        /\ \/ /\ raw' = [raw EXCEPT ![<<today, Leaf[worker[w].id]>>] =
                        Merged(worker[w].copy, worker[w].reply)]
              /\ UNCHANGED faults
           \/ UNCHANGED raw /\ faults' = faults + 1
    BY <1>15 DEF MergePut, Fault, budgetVars
  <2> QED
    BY <1>1, <1>3, <2>1 DEF WorkerTurn, PutsObject
<1>16. CASE FinalizeOk(w)
  <2> DEFINE i == worker[w].id
             result == Evaluate(worker[w].primary, worker[w].reply)
  <2>1. /\ worker[w].pc = "finalize" /\ Step(w, "count") /\ WorkerUnchanged
        /\ UNCHANGED <<raw, queue, faults, crashes, stops>>
    BY <1>16 DEF FinalizeOk, budgetVars
  <2>2. /\ i \in Ids /\ row[i] # None /\ TableKept
        /\ \A j \in Ids : j # i => row'[j] = row[j]
        /\ row'[i].candidate = "ok" /\ row'[i].verdict = result.verdict
        /\ row'[i].attempts = row[i].attempts
        /\ row'[i].candidateAction = IF result.action = None
                                     THEN row[i].candidateAction ELSE result.action
    BY <1>16, JudgedEffect DEF Judged
  <2>3. Rewritten(i, "ok", result.verdict, result.action)
    BY <2>2 DEF Rewritten, OtherRowsKept, TableKept
  <2> QED
    BY <1>1, <1>3, <2>1, <2>3 DEF WorkerTurn, GivesVerdict
<1>17. CASE CountVerdict(w)
  <2>1. /\ worker[w].pc = "count" /\ Done(w) /\ WorkerUnchanged
        /\ UNCHANGED <<row, raw, queue, faults, crashes, stops>>
    BY <1>17 DEF CountVerdict, budgetVars
  <2> QED
    BY <1>1, <1>4, <2>1 DEF WorkerTurn, Counts
<1> QED
  BY <1>6, <1>7, <1>8, <1>9, <1>10, <1>11, <1>12, <1>13, <1>14, <1>15, <1>16, <1>17 DEF Handle

-----------------------------------------------------------------------------
(* A step of a sweeper, of a lifespan, the end of a process, the rest.     *)
SweepTurn(r) ==
    /\ \A x \in Replicas : x # r => sweep'[x] = sweep[x]
    /\ \/ /\ sweep[r] = {} /\ sweep'[r] \subseteq UnfinishedIds
          /\ UNCHANGED <<row, faults>>
       \/ /\ sweep'[r] = {} /\ UNCHANGED row
          /\ UNCHANGED faults \/ faults' = faults + 1
       \/ \E i \in sweep[r] :
             /\ sweep'[r] = sweep[r] \ {i} /\ UNCHANGED faults
             /\ Rewritten(i, "timeout_stale", "candidate_error", None)
    /\ UNCHANGED <<today, call, raw, phase, backlog, queue, worker, crashes, stops>>

LifespanTurn(r) ==
    /\ \/ UNCHANGED <<backlog, queue>>
       \/ /\ phase[r] = "booting" /\ UNCHANGED queue
          /\ \E s \in Seq(Ids) : /\ Distinct(s) /\ Range(s) \subseteq UnfinishedIds
                                 /\ backlog' = [backlog EXCEPT ![r] = s]
       \/ /\ phase[r] = "requeueing"
          /\ backlog' = [backlog EXCEPT ![r] = <<>>]
          /\ \E q \in Seq(Ids) : /\ Distinct(q) /\ Range(q) \subseteq Range(backlog[r])
                                 /\ queue' = [queue EXCEPT ![r] = q]
    /\ UNCHANGED <<today, call, row, raw, worker, sweep, faults, crashes>>

EndTurn(r) ==
    /\ phase' = [phase EXCEPT ![r] = "down"]
    /\ backlog' = [backlog EXCEPT ![r] = <<>>]
    /\ queue' = [queue EXCEPT ![r] = <<>>]
    /\ \A w \in Workers : worker'[w] = IF Home[w] = r THEN Idle ELSE worker[w]
    /\ sweep' = [sweep EXCEPT ![r] = {}]
    /\ \/ /\ queue[r] = <<>> /\ \A w \in Workers : Home[w] = r => worker[w].pc = "get"
          /\ UNCHANGED <<call, raw, crashes>>
       \/ /\ \A c \in Calls :
                IF c \in CallsAt(r)
                THEN /\ call'[c].pc = "lost" /\ SameAnswer(c)
                     /\ call'[c].key = call[c].key /\ call'[c].shadow = call[c].shadow
                ELSE call'[c] = call[c]
          /\ \A d \in Days, i \in Ids :
                raw'[<<d, i>>] = raw[<<d, i>>] \/ (FileStore /\ raw'[<<d, i>>] = Torn)
          /\ crashes' = crashes + 1
    /\ UNCHANGED <<today, row, faults, stops>>

OtherTurn ==
    UNCHANGED <<call, row, raw, phase, backlog, queue, worker, sweep, faults, crashes, stops>>

LEMMA SweepTurns ==
    ASSUME Places, NEW r \in Replicas, Sweep(r)
    PROVE  SweepTurn(r)
<1>1. ASSUME SweepUnchanged
      PROVE  UNCHANGED <<today, call, raw, phase, backlog, queue, worker>>
  BY <1>1 DEF SweepUnchanged, clockVars
<1>2. sweep \in [Replicas -> SUBSET Ids]
  BY DEF Places, TypeOK
<1>3. CASE SweepFind(r)
  <2>1. PICK found \in SUBSET UnfinishedIds : sweep' = [sweep EXCEPT ![r] = found]
    BY <1>3 DEF SweepFind, Stale
  <2>2. sweep[r] = {} /\ SweepUnchanged /\ UNCHANGED <<row, faults, crashes, stops>>
    BY <1>3 DEF SweepFind, budgetVars
  <2> QED
    BY <1>1, <1>2, <2>1, <2>2 DEF SweepTurn
<1>4. ASSUME NEW i \in Ids, SweepOne(r, i)
      PROVE  SweepTurn(r)
  <2>1. /\ i \in sweep[r] /\ sweep' = [sweep EXCEPT ![r] = @ \ {i}]
        /\ SweepUnchanged /\ UNCHANGED <<faults, crashes, stops>>
    BY <1>4 DEF SweepOne, budgetVars
  <2>2. row[i] # None
    BY <2>1 DEF Places, Selected
  <2>3. Rewritten(i, "timeout_stale", "candidate_error", None)
    BY <1>4, <2>2, Written, FinalizeRewrites DEF SweepOne
  <2> QED
    BY <1>1, <1>2, <2>1, <2>3 DEF SweepTurn
<1>5. CASE SweepFails(r)
  <2>1. /\ sweep' = [sweep EXCEPT ![r] = {}]
        /\ SweepUnchanged /\ UNCHANGED <<row, crashes, stops>>
        /\ UNCHANGED faults \/ faults' = faults + 1
    BY <1>5 DEF SweepFails, Fault, budgetVars
  <2> QED
    BY <1>1, <1>2, <2>1 DEF SweepTurn
<1> QED
  BY <1>3, <1>4, <1>5 DEF Sweep

LEMMA LifespanTurns ==
    ASSUME Places, NEW r \in Replicas,
           Boot(r) \/ RequeueFind(r) \/ RequeueAll(r) \/ Shutdown(r)
    PROVE  LifespanTurn(r)
<1>1. UNCHANGED <<today, call, row, raw, worker, sweep, faults, crashes>>
  BY DEF Boot, RequeueFind, RequeueAll, Shutdown, LifespanUnchanged, clockVars, budgetVars
<1>2. CASE Boot(r) \/ Shutdown(r)
  BY <1>1, <1>2 DEF Boot, Shutdown, LifespanTurn
<1>3. CASE RequeueFind(r)
  <2>1. PICK ids \in ByAge(UnfinishedIds) :
           backlog' = [backlog EXCEPT ![r] = Limited(ids, RequeueLimit)]
    BY <1>3 DEF RequeueFind
  <2> DEFINE s == Limited(ids, RequeueLimit)
  <2>2. s \in Seq(Ids) /\ Distinct(s) /\ Range(s) \subseteq UnfinishedIds
    BY StartupQuery
  <2>3. backlog' = [backlog EXCEPT ![r] = s] /\ phase[r] = "booting" /\ UNCHANGED queue
    BY <1>3, <2>1 DEF RequeueFind
  <2> HIDE DEF s
  <2> QED
    BY <1>1, <2>2, <2>3 DEF LifespanTurn
<1>4. CASE RequeueAll(r)
  <2> DEFINE q == EnqueuedAll(Policy, <<>>, backlog[r])
  <2>1. q \in Seq(Ids) /\ Distinct(q) /\ Range(q) \subseteq Range(backlog[r])
    BY ShadowProxyAssumption, RequeuedOnce DEF Places, TypeOK, Backlogged
  <2>2. /\ queue' = [queue EXCEPT ![r] = q] /\ phase[r] = "requeueing"
        /\ backlog' = [backlog EXCEPT ![r] = <<>>]
    BY <1>4 DEF RequeueAll, Places, NotBefore, Started
  <2> HIDE DEF q
  <2> QED
    BY <1>1, <2>1, <2>2 DEF LifespanTurn
<1> QED
  BY <1>2, <1>3, <1>4

LEMMA EndTurns ==
    ASSUME Places, NEW r \in Replicas, ShutdownDone(r) \/ Crash(r)
    PROVE  EndTurn(r)
<1>1. ForgetMemory(r)
  BY DEF ShutdownDone, Crash
<1>2. /\ phase' = [phase EXCEPT ![r] = "down"]
      /\ backlog' = [backlog EXCEPT ![r] = <<>>]
      /\ queue' = [queue EXCEPT ![r] = <<>>]
      /\ \A w \in Workers : worker'[w] = IF Home[w] = r THEN Idle ELSE worker[w]
      /\ sweep' = [sweep EXCEPT ![r] = {}]
      /\ UNCHANGED <<today, row>>
  BY <1>1 DEF ForgetMemory, clockVars
<1>3. CASE ShutdownDone(r)
  BY <1>2, <1>3 DEF EndTurn, ShutdownDone, Drained, WorkersOf, budgetVars
<1>4. CASE Crash(r)
  <2>1. ASSUME NEW c \in Calls
        PROVE  IF c \in CallsAt(r)
               THEN /\ call'[c].pc = "lost" /\ SameAnswer(c)
                    /\ call'[c].key = call[c].key /\ call'[c].shadow = call[c].shadow
               ELSE call'[c] = call[c]
    <3> DEFINE s == [call[c] EXCEPT !.pc = "lost"]
    <3>1. /\ s.pc = "lost" /\ s.key = call[c].key /\ s.at = call[c].at
          /\ s.by = call[c].by /\ s.shadow = call[c].shadow
          /\ s.status = call[c].status /\ s.text = call[c].text
      BY OneCall DEF Call
    <3>2. call'[c] = IF c \in CallsAt(r) THEN s ELSE call[c]
      BY <1>4 DEF Crash
    <3> HIDE DEF s
    <3> QED
      BY <3>1, <3>2 DEF SameAnswer
  <2>2. ASSUME NEW d \in Days, NEW i \in Ids
        PROVE  raw'[<<d, i>>] = raw[<<d, i>>] \/ (FileStore /\ raw'[<<d, i>>] = Torn)
    <3>1. UNCHANGED raw \/ (FileStore /\ \E a : raw' = [raw EXCEPT ![a] = Torn])
      BY <1>4 DEF Crash, BeingWritten
    <3>2. <<d, i>> \in DOMAIN raw
      BY DEF Places, TypeOK
    <3> QED
      BY <3>1, <3>2
  <2>3. crashes' = crashes + 1 /\ UNCHANGED <<faults, stops>>
    BY <1>4 DEF Crash
  <2> QED
    BY <1>2, <2>1, <2>2, <2>3 DEF EndTurn
<1> QED
  BY <1>3, <1>4

(* Every step is the turn of one task.                                     *)
LEMMA Turns ==
    ASSUME Places, [Next]_vars
    PROVE  \/ \E c \in Calls : CallTurn(c)
           \/ \E w \in Workers : WorkerTurn(w)
           \/ \E r \in Replicas : SweepTurn(r) \/ LifespanTurn(r) \/ EndTurn(r)
           \/ OtherTurn
<1>1. CASE \E c \in Calls, r \in Replicas : Receive(c, r)
  BY <1>1, ReceiveTurn
<1>2. CASE \E c \in Calls : ServeCall(c)
  BY <1>2, ServeCallTurn
<1>3. CASE \E w \in Workers : Handle(w)
  BY <1>3, HandleTurn
<1>4. CASE \E r \in Replicas : \/ Sweep(r) \/ Boot(r) \/ RequeueFind(r) \/ RequeueAll(r)
                               \/ Shutdown(r) \/ ShutdownDone(r) \/ Crash(r)
  BY <1>4, SweepTurns, LifespanTurns, EndTurns
<1>5. CASE \/ \E r \in Replicas, value \in Rates : PutConfig(r, value)
           \/ TimePasses \/ Midnight \/ UNCHANGED vars
  BY <1>5 DEF OtherTurn, PutConfig, TimePasses, Midnight, vars, clockVars, replicaVars, budgetVars
<1> QED
  BY <1>1, <1>2, <1>3, <1>4, <1>5 DEF Next, Quiescent

-----------------------------------------------------------------------------
(* A request is in one place of a replica.  What keeps it there: the id of *)
(* a call that has no row yet is in no queue, and the gate is the first to *)
(* queue the id of a call that its own replica serves.                     *)
BeforeInsert == {"new", "primary", "archive", "insert"}

Unrecorded ==
    \A c \in Calls : call[c].pc \in BeforeInsert =>
        /\ row[IdOf[c]] = None
        /\ \A r \in Replicas : IdOf[c] \notin Range(queue[r])

BusyAt(w, r) == Home[w] = r /\ worker[w].pc # "get"

Ungated ==
    \A c \in Calls : call[c].pc = "respond" =>
        /\ IdOf[c] \notin Range(queue[call[c].by])
        /\ \A w \in Workers : BusyAt(w, call[c].by) => worker[w].id # IdOf[c]

OnePlaceAt(r) ==
    /\ Distinct(queue[r])
    /\ \A w \in Workers : BusyAt(w, r) =>
           /\ worker[w].id \notin Range(queue[r])
           /\ \A v \in Workers : BusyAt(v, r) /\ worker[v].id = worker[w].id => v = w

OnePlace == \A r \in Replicas : OnePlaceAt(r)

Once == Unrecorded /\ Ungated /\ OnePlace

(* No row appears or disappears, but the one that a call inserts.          *)
SameRows == \A i \in Ids : row'[i] = None <=> row[i] = None

LEMMA RewrittenSameRows ==
    ASSUME NEW i \in Ids, row[i] # None, row'[i] # None, OtherRowsKept(i)
    PROVE  SameRows
  BY DEF SameRows, OtherRowsKept

LEMMA OnceCallTurn ==
    ASSUME Places, DistinctIds, Once, NEW c \in Calls, CallTurn(c)
    PROVE  Once'
<1> DEFINE i == IdOf[c]
<1>0. /\ i \in Ids /\ \A d \in Calls : IdOf[d] \in Ids /\ (d # c => IdOf[d] # i)
      /\ OthersWait(c) /\ UNCHANGED worker
  BY ShadowProxyAssumption DEF DistinctIds, CallTurn
<1>1. CASE Enters(c) \/ Hears(c) \/ Archives(c) \/ FailsToRecord(c)
  <2>1. /\ UNCHANGED <<row, queue>>
        /\ call[c].pc \in BeforeInsert
        /\ call'[c].pc \in BeforeInsert \cup {"broken", "respond"}
    BY <1>1 DEF Enters, Hears, Archives, FailsToRecord, BeforeInsert
  <2>2. Unrecorded'
    BY <1>0, <2>1 DEF Once, Unrecorded, OthersWait
  <2>3. Ungated'
    <3> SUFFICES ASSUME NEW d \in Calls, call'[d].pc = "respond"
                 PROVE  /\ IdOf[d] \notin Range(queue[call'[d].by])
                        /\ \A w \in Workers : BusyAt(w, call'[d].by) => worker[w].id # IdOf[d]
      BY <1>0, <2>1 DEF Ungated, BusyAt
    <3>1. CASE d # c
      BY <1>0, <3>1 DEF Once, Ungated, OthersWait
    <3>2. CASE d = c
      <4>1. call'[c].by \in Replicas
        <5>1. call[c].pc = "insert" /\ call'[c].by = call[c].by
          BY <1>1, <3>2 DEF Enters, Hears, Archives, FailsToRecord, SameAnswer
        <5> QED
          BY <5>1 DEF Places, Served, InFlight
      <4>2. row[i] = None /\ i \notin Range(queue[call'[c].by])
        BY <2>1, <4>1 DEF Once, Unrecorded
      <4> QED
        BY <3>2, <4>2 DEF BusyAt, Places, Handling, InHand
    <3> QED
      BY <3>1, <3>2
  <2>4. OnePlace'
    BY <1>0, <2>1 DEF Once, OnePlace, OnePlaceAt, BusyAt
  <2> QED
    BY <2>2, <2>3, <2>4 DEF Once
<1>2. CASE Records(c)
  <2>1. /\ call[c].pc = "insert" /\ call'[c].pc = "respond" /\ call'[c].by = call[c].by
        /\ row[i] = None /\ \A j \in Ids : j # i => row'[j] = row[j]
        /\ UNCHANGED queue
    BY <1>2 DEF Records, SameAnswer
  <2>2. call[c].by \in Replicas
    BY <2>1 DEF Places, Served, InFlight
  <2>3. i \notin Range(queue[call[c].by])
    BY <2>1, <2>2 DEF Once, Unrecorded, BeforeInsert
  <2>4. Unrecorded'
    BY <1>0, <2>1 DEF Once, Unrecorded, OthersWait, BeforeInsert
  <2>5. Ungated'
    <3> SUFFICES ASSUME NEW d \in Calls, call'[d].pc = "respond"
                 PROVE  /\ IdOf[d] \notin Range(queue[call'[d].by])
                        /\ \A w \in Workers : BusyAt(w, call'[d].by) => worker[w].id # IdOf[d]
      BY <1>0, <2>1 DEF Ungated, BusyAt
    <3>1. CASE d # c
      BY <1>0, <3>1 DEF Once, Ungated, OthersWait
    <3>2. CASE d = c
      BY <2>1, <2>3, <3>2 DEF BusyAt, Places, Handling, InHand
    <3> QED
      BY <3>1, <3>2
  <2>6. OnePlace'
    BY <1>0, <2>1 DEF Once, OnePlace, OnePlaceAt, BusyAt
  <2> QED
    BY <2>4, <2>5, <2>6 DEF Once
<1>3. CASE Responds(c)
  <2> DEFINE r == call[c].by
             q == Enqueued(Policy, queue[r], i)
  <2>1. /\ call[c].pc = "respond" /\ call'[c].pc \in {"answered", "refused"}
        /\ UNCHANGED row
        /\ UNCHANGED queue \/ queue' = [queue EXCEPT ![r] = q]
    BY <1>3 DEF Responds
  <2>2. r \in Replicas /\ queue[r] \in Seq(Ids) /\ queue \in [Replicas -> Seq(Ids)]
    BY <2>1 DEF Places, Served, InFlight, TypeOK
  <2>3. Distinct(queue[r]) /\ i \notin Range(queue[r])
    BY <2>1, <2>2 DEF Once, OnePlace, OnePlaceAt, Ungated
  <2>4. Distinct(q) /\ Range(q) \subseteq Range(queue[r]) \cup {i}
    BY <1>0, <2>2, <2>3, EnqueuedOnce, ShadowProxyAssumption
  <2>5. \A w \in Workers : BusyAt(w, r) => worker[w].id # i
    BY <2>1 DEF Once, Ungated
  <2> HIDE DEF r, q, i
  <2>6. \A x \in Replicas : \/ queue'[x] = queue[x]
                            \/ x = r /\ queue'[x] = q
    BY <2>1, <2>2
  <2>7. \A x \in Replicas : Range(queue'[x]) \subseteq Range(queue[x]) \cup {i}
    BY <2>4, <2>6
  <2>8. Unrecorded'
    <3> SUFFICES ASSUME NEW d \in Calls, call'[d].pc \in BeforeInsert
                 PROVE  /\ row[IdOf[d]] = None
                        /\ \A x \in Replicas : IdOf[d] \notin Range(queue'[x])
      BY <2>1 DEF Unrecorded
    <3>1. d # c
      BY <2>1 DEF BeforeInsert
    <3>2. IdOf[d] # i /\ call'[d] = call[d]
      BY <1>0, <3>1 DEF OthersWait, i
    <3> QED
      BY <2>7, <3>2 DEF Once, Unrecorded
  <2>9. Ungated'
    <3> SUFFICES ASSUME NEW d \in Calls, call'[d].pc = "respond"
                 PROVE  /\ IdOf[d] \notin Range(queue'[call'[d].by])
                        /\ \A w \in Workers : BusyAt(w, call'[d].by) => worker[w].id # IdOf[d]
      BY <1>0 DEF Ungated, BusyAt
    <3>1. d # c
      BY <2>1
    <3>2. IdOf[d] # i /\ call'[d] = call[d]
      BY <1>0, <3>1 DEF OthersWait, i
    <3>3. call[d].by \in Replicas
      BY <3>2 DEF Places, Served, InFlight
    <3> QED
      BY <2>7, <3>2, <3>3 DEF Once, Ungated
  <2>10. OnePlace'
    <3> SUFFICES ASSUME NEW x \in Replicas PROVE OnePlaceAt(x)'
      BY DEF OnePlace
    <3>1. OnePlaceAt(x)
      BY DEF Once, OnePlace
    <3>2. CASE queue'[x] = queue[x]
      BY <1>0, <3>1, <3>2 DEF OnePlaceAt, BusyAt
    <3>3. CASE x = r /\ queue'[x] = q
      BY <1>0, <2>4, <2>5, <3>1, <3>3 DEF OnePlaceAt, BusyAt
    <3> QED
      BY <2>6, <3>2, <3>3
  <2> QED
    BY <2>8, <2>9, <2>10 DEF Once
<1> QED
  BY <1>1, <1>2, <1>3 DEF CallTurn

LEMMA OnceWorkerTurn ==
    ASSUME Places, DistinctIds, Once, NEW w \in Workers, WorkerTurn(w)
    PROVE  Once'
<1>0. /\ OthersWork(w) /\ UNCHANGED call /\ Home[w] \in Replicas
      /\ \A c \in Calls : IdOf[c] \in Ids
  BY ShadowProxyAssumption DEF WorkerTurn
<1>1. CASE Takes(w)
  <2> DEFINE r == Home[w]
             i == Head(queue[r])
             rest == Tail(queue[r])
  <2>1. /\ worker[w].pc = "get" /\ queue[r] # <<>> /\ UNCHANGED row
        /\ queue' = [queue EXCEPT ![r] = rest]
        /\ worker'[w].pc # "get" => worker'[w].id = i
    BY <1>1 DEF Takes
  <2>2. r \in Replicas /\ queue[r] \in Seq(Ids) /\ queue \in [Replicas -> Seq(Ids)]
    BY <1>0 DEF Places, TypeOK
  <2>3. OnePlaceAt(r)
    BY <2>2 DEF Once, OnePlace
  <2>4. /\ i \in Range(queue[r]) /\ Distinct(rest)
        /\ Range(rest) = Range(queue[r]) \ {i}
    BY <2>1, <2>2, <2>3, TailFacts DEF OnePlaceAt
  <2> HIDE DEF r, i, rest
  <2>5. /\ queue'[r] = rest /\ \A x \in Replicas : x # r => queue'[x] = queue[x]
    BY <2>1, <2>2
  <2>6. Unrecorded'
    BY <1>0, <2>1, <2>4, <2>5 DEF Once, Unrecorded
  <2>7. Ungated'
    <3> SUFFICES ASSUME NEW d \in Calls, call[d].pc = "respond"
                 PROVE  /\ IdOf[d] \notin Range(queue'[call[d].by])
                        /\ \A v \in Workers : BusyAt(v, call[d].by)' => worker'[v].id # IdOf[d]
      BY <1>0 DEF Ungated, BusyAt
    <3>1. /\ call[d].by \in Replicas /\ IdOf[d] \notin Range(queue[call[d].by])
          /\ \A v \in Workers : BusyAt(v, call[d].by) => worker[v].id # IdOf[d]
      BY DEF Once, Ungated, Places, Served, InFlight
    <3>2. IdOf[d] \notin Range(queue'[call[d].by])
      BY <2>4, <2>5, <3>1
    <3>3. ASSUME NEW v \in Workers, BusyAt(v, call[d].by)'
          PROVE  worker'[v].id # IdOf[d]
      <4>1. CASE v # w
        BY <1>0, <3>1, <3>3, <4>1 DEF BusyAt, OthersWork
      <4>2. CASE v = w
        BY <1>0, <2>1, <2>4, <3>1, <3>3, <4>2 DEF BusyAt, r
      <4> QED
        BY <4>1, <4>2
    <3> QED
      BY <3>2, <3>3
  <2>8. OnePlace'
    <3> SUFFICES ASSUME NEW x \in Replicas PROVE OnePlaceAt(x)'
      BY DEF OnePlace
    <3>1. OnePlaceAt(x)
      BY DEF Once, OnePlace
    <3>2. CASE x # r
      BY <1>0, <2>5, <3>1, <3>2 DEF OnePlaceAt, BusyAt, OthersWork, r
    <3>3. CASE x = r
      <4>1. \A v \in Workers : v # w => (BusyAt(v, r)' <=> BusyAt(v, r)) /\ worker'[v] = worker[v]
        BY <1>0 DEF BusyAt, OthersWork
      <4>2. \A v \in Workers : BusyAt(v, r) => worker[v].id \notin Range(queue[r])
        BY <2>3 DEF OnePlaceAt
      <4>3. Distinct(queue'[r])
        BY <2>4, <2>5
      <4>4. ASSUME NEW u \in Workers, BusyAt(u, r)'
            PROVE  /\ worker'[u].id \notin Range(rest)
                   /\ \A v \in Workers : BusyAt(v, r)' /\ worker'[v].id = worker'[u].id => v = u
        <5>1. BusyAt(w, r)' => worker'[w].id = i
          BY <2>1 DEF BusyAt
        <5> QED
          BY <2>3, <2>4, <4>1, <4>2, <4>4, <5>1 DEF OnePlaceAt
      <4> QED
        BY <2>5, <3>3, <4>3, <4>4 DEF OnePlaceAt
    <3> QED
      BY <3>2, <3>3
  <2> QED
    BY <2>6, <2>7, <2>8 DEF Once
<1>2. CASE ~Takes(w)
  <2>1. /\ worker[w].pc # "get" /\ UNCHANGED queue /\ SameRows
        /\ worker'[w].pc # "get" => worker'[w].id = worker[w].id
    <3>1. worker[w].pc # "get"
      BY <1>2 DEF WorkerTurn, Abandons, Discards, Marks, Loads, Asks, GetsObject, PutsObject,
         GivesVerdict, Counts, RecordsError
    <3>2. worker[w].id \in Ids
      BY <3>1, BusyWorker
    <3>3. CASE Discards(w) \/ Marks(w) \/ GivesVerdict(w) \/ RecordsError(w)
      BY <3>1, <3>2, <3>3, RewrittenSameRows
         DEF Discards, Marks, GivesVerdict, RecordsError, Rewritten, SameJob
    <3>4. CASE Abandons(w) \/ Loads(w) \/ Asks(w) \/ GetsObject(w) \/ PutsObject(w) \/ Counts(w)
      BY <3>1, <3>4 DEF Abandons, Loads, Asks, GetsObject, PutsObject, Counts, SameJob, SameRows
    <3> QED
      BY <1>2, <3>3, <3>4 DEF WorkerTurn
  <2>2. \A v \in Workers, r \in Replicas :
            BusyAt(v, r)' => BusyAt(v, r) /\ worker'[v].id = worker[v].id
    BY <1>0, <2>1 DEF BusyAt, OthersWork
  <2>3. \A c \in Calls : call[c].pc = "respond" => call[c].by \in Replicas
    BY DEF Places, Served, InFlight
  <2>4. Unrecorded'
    BY <1>0, <2>1 DEF Once, Unrecorded, SameRows
  <2>5. Ungated'
    BY <1>0, <2>1, <2>2, <2>3 DEF Once, Ungated
  <2>6. OnePlace'
    BY <2>1, <2>2 DEF Once, OnePlace, OnePlaceAt
  <2> QED
    BY <2>4, <2>5, <2>6 DEF Once
<1> QED
  BY <1>1, <1>2

LEMMA OnceOtherTurns ==
    ASSUME Places, DistinctIds, Once, NEW r \in Replicas,
           SweepTurn(r) \/ LifespanTurn(r) \/ EndTurn(r) \/ OtherTurn
    PROVE  Once'
<1>0. \A c \in Calls : IdOf[c] \in Ids /\ (call[c].pc = "respond" => call[c].by \in Replicas)
  BY ShadowProxyAssumption DEF Places, Served, InFlight
<1>1. ASSUME UNCHANGED <<call, queue, worker>>, SameRows
      PROVE  Once'
  BY <1>0, <1>1 DEF Once, Unrecorded, Ungated, OnePlace, OnePlaceAt, BusyAt, SameRows
<1>2. CASE SweepTurn(r)
  <2>1. SameRows
    <3>1. CASE UNCHANGED row
      BY <3>1 DEF SameRows
    <3>2. CASE \E i \in sweep[r] : Rewritten(i, "timeout_stale", "candidate_error", None)
      BY <3>2, RewrittenSameRows DEF Rewritten, Places, TypeOK
    <3> QED
      BY <1>2, <3>1, <3>2 DEF SweepTurn
  <2> QED
    BY <1>1, <1>2, <2>1 DEF SweepTurn
<1>3. CASE LifespanTurn(r)
  <2>1. UNCHANGED <<call, row, worker>>
    BY <1>3 DEF LifespanTurn
  <2>2. CASE UNCHANGED queue
    BY <1>1, <2>1, <2>2 DEF SameRows
  <2>3. CASE queue' # queue
    <3>1. PICK q \in Seq(Ids) :
            /\ phase[r] = "requeueing" /\ queue' = [queue EXCEPT ![r] = q]
            /\ Distinct(q) /\ Range(q) \subseteq Range(backlog[r])
      BY <1>3, <2>3 DEF LifespanTurn
    <3>2. /\ queue'[r] = q /\ \A x \in Replicas : x # r => queue'[x] = queue[x]
      BY <3>1 DEF Places, TypeOK
    <3>3. \A w \in Workers : ~BusyAt(w, r)
      BY <3>1 DEF BusyAt, Places, NotBefore, Started
    <3>4. \A c \in Calls : call[c].pc = "respond" => call[c].by # r
      BY <3>1 DEF Places, Served, InFlight
    <3>5. \A i \in Range(q) : row[i] # None
      BY <3>1 DEF Places, Backlogged
    <3>6. Unrecorded'
      BY <1>0, <2>1, <3>2, <3>5 DEF Once, Unrecorded
    <3>7. Ungated'
      BY <1>0, <2>1, <3>2, <3>4 DEF Once, Ungated, BusyAt
    <3>8. OnePlace'
      <4> SUFFICES ASSUME NEW x \in Replicas PROVE OnePlaceAt(x)'
        BY DEF OnePlace
      <4>1. CASE x = r
        BY <2>1, <3>1, <3>2, <3>3, <4>1 DEF OnePlaceAt, BusyAt
      <4>2. CASE x # r
        BY <2>1, <3>2, <4>2 DEF Once, OnePlace, OnePlaceAt, BusyAt
      <4> QED
        BY <4>1, <4>2
    <3> QED
      BY <3>6, <3>7, <3>8 DEF Once
  <2> QED
    BY <2>2, <2>3
<1>4. CASE EndTurn(r)
  <2>1. /\ queue'[r] = <<>> /\ \A x \in Replicas : x # r => queue'[x] = queue[x]
        /\ UNCHANGED row
    BY <1>4 DEF EndTurn, Places, TypeOK
  <2>2. Distinct(<<>>) /\ Range(<<>>) = {}
    BY DEF Distinct, Range
  <2>3. \A w \in Workers, x \in Replicas :
            BusyAt(w, x)' => BusyAt(w, x) /\ worker'[w].id = worker[w].id
    BY <1>4, IdleWorker DEF EndTurn, BusyAt
  <2>4. \A x \in Replicas : queue'[x] = queue[x] \/ queue'[x] = <<>>
    BY <2>1
  <2>5. \A c \in Calls : /\ call'[c].pc = "lost" \/ call'[c].pc = call[c].pc
                         /\ call'[c].by = call[c].by
    BY <1>4 DEF EndTurn, SameAnswer
  <2>6. Unrecorded'
    BY <1>0, <2>1, <2>2, <2>4, <2>5 DEF Once, Unrecorded, BeforeInsert
  <2>7. Ungated'
    BY <1>0, <2>2, <2>3, <2>4, <2>5 DEF Once, Ungated
  <2>8. OnePlace'
    <3> SUFFICES ASSUME NEW x \in Replicas PROVE OnePlaceAt(x)'
      BY DEF OnePlace
    <3>1. OnePlaceAt(x)
      BY DEF Once, OnePlace
    <3> QED
      BY <2>2, <2>3, <2>4, <3>1 DEF OnePlaceAt
  <2> QED
    BY <2>6, <2>7, <2>8 DEF Once
<1>5. CASE OtherTurn
  BY <1>1, <1>5 DEF OtherTurn, SameRows
<1> QED
  BY <1>2, <1>3, <1>4, <1>5

OnceInv == Places /\ (DistinctIds => Once)

LEMMA InitOnce == Init => OnceInv
<1> SUFFICES ASSUME Init PROVE Once
  BY InitPlaces DEF OnceInv
<1>1. Distinct(<<>>) /\ Range(<<>>) = {}
  BY DEF Distinct, Range
<1> QED
  BY <1>1, IdleWorker, ShadowProxyAssumption
     DEF Init, NewCall, Once, Unrecorded, Ungated, OnePlace, OnePlaceAt, BusyAt

LEMMA NextOnce == OnceInv /\ [Next]_vars => OnceInv'
<1> SUFFICES ASSUME OnceInv, [Next]_vars PROVE OnceInv'
  OBVIOUS
<1>1. Places /\ Places'
  BY NextPlaces DEF OnceInv
<1>2. ASSUME DistinctIds, ~OtherTurn PROVE Once'
  <2>1. Once
    BY <1>2 DEF OnceInv
  <2> QED
    BY <1>1, <1>2, <2>1, Turns, OnceCallTurn, OnceWorkerTurn, OnceOtherTurns
<1>3. ASSUME DistinctIds, OtherTurn PROVE Once'
  <2>1. Once
    BY <1>3 DEF OnceInv
  <2> QED
    BY <1>3, <2>1 DEF OtherTurn, Once, Unrecorded, Ungated, OnePlace, OnePlaceAt, BusyAt
<1>4. DistinctIds' <=> DistinctIds
  BY DEF DistinctIds
<1> QED
  BY <1>1, <1>2, <1>3, <1>4 DEF OnceInv

LEMMA OnceInvariant == Spec => []OnceInv
  BY InitOnce, NextOnce, PTL DEF Spec

(* Within a replica a request is at one position of the queue or with one  *)
(* worker, whatever boots, gates and handlers do, and however often the    *)
(* row is requeued.                                                        *)
THEOREM OneJobPerRequest == Spec => []OncePerReplica
<1>1. OnceInv => OncePerReplica
  <2> SUFFICES ASSUME OnceInv, DistinctIds, NEW r \in Replicas
               PROVE  /\ \A m, n \in DOMAIN queue[r] : queue[r][m] = queue[r][n] => m = n
                      /\ \A v, w \in Busy \cap WorkersOf(r) :
                             /\ worker[v].id = worker[w].id => v = w
                             /\ worker[w].id \notin Range(queue[r])
    BY DEF OncePerReplica
  <2>1. OnePlaceAt(r)
    BY DEF OnceInv, Once, OnePlace
  <2> QED
    BY <2>1 DEF OnePlaceAt, Distinct, BusyAt, Busy, WorkersOf
<1> QED
  BY OnceInvariant, <1>1, PTL

-----------------------------------------------------------------------------
(* What a 200 answer stands for.  A call that has got past its INSERT has  *)
(* the row it wrote, unless "fail_open" let it pass without one.           *)
Durable == OnFailure = "fail_closed" \/ (faults = 0 /\ DistinctIds)

HasItsRow(c) ==
    LET r == row[IdOf[c]]
    IN  /\ r # None /\ r.primary = call[c].status
        /\ r.receivedAt = call[c].at /\ r.key = call[c].key

Acked == Durable => \A c \in Calls :
    /\ call[c].pc \in {"respond", "answered"} => HasItsRow(c)
    /\ call[c].pc = "answered" => call[c].status = "ok"

LEMMA RowOfCallKept ==
    ASSUME TableKept, NEW c \in Calls, IdOf[c] \in Ids, HasItsRow(c), SameAnswer(c),
           call'[c].key = call[c].key
    PROVE  HasItsRow(c)'
  BY DEF HasItsRow, TableKept, SameIngest, SameAnswer

LEMMA InitAcked == Init => Acked
  BY DEF Init, NewCall, Acked

LEMMA TurnKeepsTable ==
    ASSUME Places, [Next]_vars
    PROVE  TableKept
<1>0. TypeOK /\ Places'
  BY NextPlaces DEF Places
<1>1. ASSUME NEW i \in Ids, row[i] # None
      PROVE  row'[i] # None /\ SameIngest(row[i], row'[i])
  <2>1. CASE row'[i] = row[i]
    BY <1>1, <2>1 DEF SameIngest
  <2>2. CASE row'[i] # row[i]
    <3>1. \/ \E w \in Workers : Marks(w)
          \/ \E j, status, verdict, action : Rewritten(j, status, verdict, action)
          \/ \E c \in Calls : Records(c)
      BY <2>2, Turns DEF CallTurn, Enters, Hears, Archives, FailsToRecord, Responds, WorkerTurn,
         Takes, Abandons, Discards, Loads, Asks, GetsObject, PutsObject, GivesVerdict, Counts, RecordsError,
         SweepTurn, LifespanTurn, EndTurn, OtherTurn
    <3> QED
      BY <1>1, <2>2, <3>1 DEF Rewritten, Marks, OtherRowsKept, Records
  <2> QED
    BY <2>1, <2>2
<1> QED
  BY <1>0, <1>1 DEF TableKept, Places, TypeOK

LEMMA NextAcked == OnceInv /\ Acked /\ [Next]_vars => Acked'
<1> SUFFICES ASSUME OnceInv, Acked, [Next]_vars, Durable', NEW c \in Calls
             PROVE  /\ call'[c].pc \in {"respond", "answered"} => HasItsRow(c)'
                    /\ call'[c].pc = "answered" => call'[c].status = "ok"
  BY DEF Acked
<1>0. Places /\ TableKept /\ IdOf[c] \in Ids
  BY TurnKeepsTable, ShadowProxyAssumption DEF OnceInv
<1>1. faults \in Nat
  BY <1>0 DEF Places, TypeOK
<1>2. ASSUME faults' = faults \/ faults' = faults + 1 PROVE Durable
  BY <1>1, <1>2 DEF Durable, DistinctIds
<1>3. ASSUME call'[c] = call[c], faults' = faults \/ faults' = faults + 1
      PROVE  /\ call'[c].pc \in {"respond", "answered"} => HasItsRow(c)'
             /\ call'[c].pc = "answered" => call'[c].status = "ok"
  <2>1. SameAnswer(c) /\ call'[c].key = call[c].key
    BY <1>3 DEF SameAnswer
  <2> QED
    BY <1>0, <1>2, <1>3, <2>1, RowOfCallKept DEF Acked
<1>4. ASSUME NEW d \in Calls, CallTurn(d)
      PROVE  /\ call'[c].pc \in {"respond", "answered"} => HasItsRow(c)'
             /\ call'[c].pc = "answered" => call'[c].status = "ok"
  <2>0. faults' = faults \/ faults' = faults + 1
    BY <1>4 DEF CallTurn
  <2>1. CASE d # c
    BY <1>3, <1>4, <2>0, <2>1 DEF CallTurn, OthersWait
  <2>2. CASE d = c
    <3>1. CASE Enters(c) \/ Hears(c) \/ Archives(c)
      BY <3>1 DEF Enters, Hears, Archives
    <3>2. CASE Records(c)
      BY <3>2 DEF Records, Recorded, HasItsRow, SameAnswer
    <3>3. CASE FailsToRecord(c)
      <4>1. call[c].pc = "insert" /\ (row[IdOf[c]] # None \/ faults' = faults + 1)
        BY <3>3 DEF FailsToRecord
      <4>2. ASSUME faults' = 0, DistinctIds PROVE FALSE
        <5>1. row[IdOf[c]] = None
          BY <3>3, <4>2 DEF FailsToRecord, OnceInv, Once, Unrecorded, BeforeInsert
        <5> QED
          BY <1>1, <3>3, <4>2, <5>1 DEF FailsToRecord
      <4>3. OnFailure = "fail_closed"
        BY <4>2 DEF Durable, DistinctIds
      <4> QED
        BY <3>3, <4>3 DEF FailsToRecord
    <3>4. CASE Responds(c)
      <4>1. /\ call[c].pc = "respond" /\ SameAnswer(c) /\ call'[c].key = call[c].key
            /\ call'[c].pc = "answered" => call[c].status = "ok"
        BY <3>4 DEF Responds
      <4>2. HasItsRow(c)
        BY <1>2, <2>0, <4>1 DEF Acked
      <4> QED
        BY <1>0, <4>1, <4>2, RowOfCallKept DEF SameAnswer
    <3> QED
      BY <1>4, <2>2, <3>1, <3>2, <3>3, <3>4 DEF CallTurn
  <2> QED
    BY <2>1, <2>2
<1>5. ASSUME NEW r \in Replicas, EndTurn(r)
      PROVE  /\ call'[c].pc \in {"respond", "answered"} => HasItsRow(c)'
             /\ call'[c].pc = "answered" => call'[c].status = "ok"
  <2>1. call'[c] = call[c] \/ call'[c].pc = "lost"
    BY <1>5 DEF EndTurn
  <2>2. faults' = faults
    BY <1>5 DEF EndTurn
  <2> QED
    BY <1>3, <2>1, <2>2
<1>6. CASE \/ \E w \in Workers : WorkerTurn(w)
           \/ \E r \in Replicas : SweepTurn(r) \/ LifespanTurn(r)
           \/ OtherTurn
  <2>1. call'[c] = call[c]
    BY <1>6 DEF WorkerTurn, SweepTurn, LifespanTurn, OtherTurn
  <2>2. faults' = faults \/ faults' = faults + 1
    BY <1>6 DEF WorkerTurn, Takes, Abandons, Discards, Marks, Loads, Asks, GetsObject, PutsObject,
       GivesVerdict, Counts, RecordsError, SweepTurn, LifespanTurn, OtherTurn
  <2> QED
    BY <1>3, <2>1, <2>2
<1> QED
  BY <1>0, <1>4, <1>5, <1>6, Turns

(* A 200 answer implies the row of that very call: under "fail_closed"     *)
(* whatever fails and whoever reuses its id, under "fail_open" as long as  *)
(* nothing failed and no id is used twice.                                 *)
THEOREM AnsweredIsOnRecord == Spec => []AckedIsDurable
<1>1. Init => OnceInv /\ Acked
  BY InitOnce, InitAcked
<1>2. OnceInv /\ Acked /\ [Next]_vars => OnceInv' /\ Acked'
  BY NextOnce, NextAcked
<1>3. Acked => AckedIsDurable
  BY DEF Acked, AckedIsDurable, Durable, HasItsRow
<1> QED
  BY <1>1, <1>2, <1>3, PTL DEF Spec

-----------------------------------------------------------------------------
(* What the archive holds of a call, and what rows and handlers have from  *)
(* it.  The text of a call is settled before the first put() of its id,    *)
(* and every later put() of that id passes the text on, unless the merge   *)
(* of another id ends up there.                                            *)
Owned == \A i \in Ids : row[i] # None => \E c \in Calls : IdOf[c] = i

NeverTorn ==
    ~FileStore => \A d \in Days, i \in Ids : raw[<<d, i>>] # Torn

RowOf(c) ==
    LET r == row[IdOf[c]]
    IN  r # None =>
            /\ HasItsRow(c)
            /\ r.primaryAction = IF call[c].status = "ok"
                                 THEN ActionOf(call[c].text) ELSE None

Genuine(c) == OwnObject(IdOf[c]) =>
    \A d \in Days : raw[<<d, IdOf[c]>>] \in Payload =>
        /\ raw[<<d, IdOf[c]>>].primary = call[c].text
        /\ call[c].pc \notin {"new", "primary", "archive"}

KeyHolds(c) ==
    ~FileStore /\ call[c].key # NoKey =>
        /\ call[c].key \in Days
        /\ raw[<<call[c].key, IdOf[c]>>] \in Payload

Faithful(c) == OwnObject(IdOf[c]) =>
    \A w \in Workers : worker[w].pc # "get" /\ worker[w].id = IdOf[c] =>
        /\ worker[w].primary \in {"blank", call[c].text}
        /\ worker[w].pc = "merge_put" => worker[w].copy.primary = call[c].text

Kept(c) == RowOf(c) /\ Genuine(c) /\ KeyHolds(c) /\ Faithful(c)

Custody == Owned /\ NeverTorn /\ (DistinctIds => \A c \in Calls : Kept(c))

LEMMA RawUpdate ==
    ASSUME Places, NEW d \in Days, NEW i \in Ids, NEW o, raw' = [raw EXCEPT ![<<d, i>>] = o]
    PROVE  /\ raw'[<<d, i>>] = o
           /\ \A e \in Days, j \in Ids : e # d \/ j # i => raw'[<<e, j>>] = raw[<<e, j>>]
  BY DEF Places, TypeOK

LEMMA ObjectFacts ==
    ASSUME Places, NEW w \in Workers, worker[w].pc # "get", Object(w) \in Payload
    PROVE  /\ worker[w].key \in Days /\ worker[w].id \in Ids
           /\ Object(w) = raw[<<worker[w].key, worker[w].id>>]
<1>1. worker[w].key # NoKey
  BY StorageAssumption DEF Object
<1>2. worker[w].key \in Days \cup {NoKey}
  BY OneWorker DEF Worker
<1> QED
  BY <1>1, <1>2, BusyWorker DEF Object

(* What a put() of a merge writes.                                         *)
LEMMA MergedFacts ==
    ASSUME Places, NEW w \in Workers, worker[w].pc = "merge_put"
    PROVE  LET o == Merged(worker[w].copy, worker[w].reply)
           IN  /\ o \in Payload /\ o.primary = worker[w].copy.primary
               /\ o.candidate = worker[w].reply /\ worker[w].reply \in Text
<1>1. worker[w].copy \in Payload /\ worker[w].reply \in Text
  BY BusyWorker, OneWorker DEF InHand, Worker
<1> QED
  BY <1>1 DEF Payload, Merged

LEMMA ArchiveTypes ==
    ASSUME Places
    PROVE  /\ today \in Days /\ NoKey \notin Days
           /\ \A c \in Calls : /\ IdOf[c] \in Ids /\ call[c].text \in Text
                               /\ call[c].key \in Days \cup {NoKey}
                               /\ [primary |-> call[c].text, candidate |-> None] \in Payload
<1>1. today \in Days /\ NoKey \notin Days
  BY DEF Places, TypeOK, Days, NoKey
<1>2. ASSUME NEW c \in Calls
      PROVE  /\ IdOf[c] \in Ids /\ call[c].text \in Text
             /\ call[c].key \in Days \cup {NoKey}
  BY OneCall DEF Call
<1> QED
  BY <1>1, <1>2 DEF Payload

(* No handler works for a call that has no row yet.                        *)
LEMMA NoHandlerYet ==
    ASSUME Places, Once, NEW c \in Calls, call[c].pc \in BeforeInsert, NEW w \in Workers,
           worker[w].pc # "get"
    PROVE  worker[w].id # IdOf[c]
  BY DEF Places, Handling, InHand, Once, Unrecorded

LEMMA KeptCallTurn ==
    ASSUME Places, DistinctIds, Once, NEW c \in Calls, Kept(c), NEW d \in Calls, CallTurn(d)
    PROVE  Kept(c)'
<1> DEFINE i == IdOf[c]
<1>0. /\ i \in Ids /\ today \in Days /\ NoKey \notin Days /\ IdOf[d] \in Ids
      /\ (d # c => IdOf[d] # i)
      /\ OthersWait(d) /\ UNCHANGED worker
  BY ArchiveTypes DEF DistinctIds, CallTurn
<1>1. CASE d # c
  <2>1. call'[c] = call[c] /\ IdOf[d] # i
    BY <1>0, <1>1 DEF OthersWait
  <2>2. row'[i] = row[i]
    BY <1>0, <2>1 DEF CallTurn, Enters, Hears, Archives, Records, FailsToRecord, Responds
  <2>3. \A e \in Days : raw'[<<e, i>>] = raw[<<e, i>>]
    BY <1>0, <2>1, RawUpdate
       DEF CallTurn, Enters, Hears, Archives, Records, FailsToRecord, Responds
  <2>4. RowOf(c)'
    BY <2>1, <2>2 DEF Kept, RowOf, HasItsRow
  <2>5. Genuine(c)' /\ KeyHolds(c)' /\ Faithful(c)'
    BY <1>0, <2>1, <2>3 DEF Kept, Genuine, KeyHolds, Faithful
  <2> QED
    BY <2>4, <2>5 DEF Kept
<1>2. CASE d = c
  <2>1. CASE Enters(c) \/ Hears(c)
    <3>1. /\ call[c].pc \in {"new", "primary"} /\ call'[c].key = call[c].key
          /\ UNCHANGED <<row, raw>>
      BY <2>1 DEF Enters, Hears
    <3>2. /\ row[i] = None
          /\ OwnObject(i) => \A e \in Days : raw[<<e, i>>] \notin Payload
          /\ \A w \in Workers : worker[w].pc # "get" => worker[w].id # i
      BY <3>1, NoHandlerYet DEF Kept, Genuine, Once, Unrecorded, BeforeInsert
    <3> QED
      BY <1>0, <3>1, <3>2 DEF Kept, RowOf, Genuine, KeyHolds, Faithful
  <2>2. CASE Archives(c)
    <3> DEFINE o == [primary |-> call[c].text, candidate |-> None]
    <3>1. /\ call[c].pc = "archive" /\ call'[c].pc = "insert" /\ call'[c].text = call[c].text
          /\ UNCHANGED row
          /\ \/ call'[c].key = today /\ raw' = [raw EXCEPT ![<<today, i>>] = o]
             \/ call'[c].key = call[c].key /\ UNCHANGED raw
      BY <2>2 DEF Archives, SameAnswer
    <3>2. /\ row[i] = None
          /\ \A w \in Workers : worker[w].pc # "get" => worker[w].id # i
      BY <3>1, NoHandlerYet DEF Once, Unrecorded, BeforeInsert
    <3>3. o \in Payload /\ o.primary = call[c].text
      BY ArchiveTypes
    <3> HIDE DEF o, i
    <3>4. CASE call'[c].key = today /\ raw' = [raw EXCEPT ![<<today, i>>] = o]
      <4>1. /\ raw'[<<today, i>>] = o
            /\ \A e \in Days : e # today => raw'[<<e, i>>] = raw[<<e, i>>]
        <5>1. i \in Ids /\ today \in Days
          BY <1>0 DEF i
        <5>2. raw' = [raw EXCEPT ![<<today, i>>] = o]
          BY <3>4
        <5> QED
          BY <5>1, <5>2 DEF Places, TypeOK
      <4> QED
        BY <1>0, <3>1, <3>2, <3>3, <3>4, <4>1 DEF Kept, RowOf, Genuine, KeyHolds, Faithful, i
    <3>5. CASE call'[c].key = call[c].key /\ UNCHANGED raw
      BY <1>0, <3>1, <3>2, <3>5 DEF Kept, RowOf, Genuine, KeyHolds, Faithful, i
    <3> QED
      BY <3>1, <3>4, <3>5
  <2>3. CASE Records(c) \/ FailsToRecord(c) \/ Responds(c)
    <3>1. /\ SameAnswer(c) /\ call'[c].key = call[c].key /\ UNCHANGED raw
          /\ call[c].pc \in {"insert", "respond"}
          /\ call'[c].pc \notin {"new", "primary", "archive"}
      BY <2>3 DEF Records, FailsToRecord, Responds
    <3>2. RowOf(c)'
      <4>1. CASE Records(c)
        BY <3>1, <4>1 DEF Records, Recorded, RowOf, HasItsRow, SameAnswer
      <4>2. CASE UNCHANGED row
        BY <3>1, <4>2 DEF Kept, RowOf, HasItsRow, SameAnswer
      <4> QED
        BY <2>3, <4>1, <4>2 DEF FailsToRecord, Responds
    <3>3. Genuine(c)' /\ KeyHolds(c)' /\ Faithful(c)'
      BY <1>0, <3>1 DEF Kept, Genuine, KeyHolds, Faithful, SameAnswer
    <3> QED
      BY <3>2, <3>3 DEF Kept
  <2> QED
    BY <1>2, <2>1, <2>2, <2>3 DEF CallTurn
<1> QED
  BY <1>1, <1>2

LEMMA RowOfKept ==
    ASSUME TableKept, NEW c \in Calls, IdOf[c] \in Ids, RowOf(c),
           row[IdOf[c]] = None => row'[IdOf[c]] = None,
           SameAnswer(c), call'[c].key = call[c].key
    PROVE  RowOf(c)'
  BY DEF RowOf, HasItsRow, TableKept, SameIngest, SameAnswer

LEMMA KeptWorkerTurn ==
    ASSUME Places, TableKept, DistinctIds, Once, Owned, NEW c \in Calls, Kept(c),
           NEW w \in Workers, WorkerTurn(w)
    PROVE  Kept(c)'
<1> DEFINE i == IdOf[c]
<1>0. /\ i \in Ids /\ today \in Days /\ NoKey \notin Days
      /\ OthersWork(w) /\ UNCHANGED call /\ SameAnswer(c) /\ call'[c].key = call[c].key
  BY ArchiveTypes DEF WorkerTurn, SameAnswer
<1>1. RowOf(c)'
  <2>1. row[i] = None => row'[i] = None
    <3>1. worker[w].pc # "get" => worker[w].id \in Ids /\ row[worker[w].id] # None
      BY BusyWorker
    <3> QED
      BY <1>0, <3>1 DEF WorkerTurn, Takes, Abandons, Discards, Marks, Loads, Asks, GetsObject,
         PutsObject, GivesVerdict, Counts, RecordsError, Rewritten, OtherRowsKept
  <2> QED
    BY <1>0, <2>1, RowOfKept DEF Kept
<1>2. CASE ~PutsObject(w)
  <2>1. UNCHANGED raw
    BY <1>2 DEF WorkerTurn, Takes, Abandons, Discards, Marks, Loads, Asks, GetsObject,
       GivesVerdict, Counts, RecordsError
  <2>2. Genuine(c)' /\ KeyHolds(c)'
    BY <1>0, <2>1 DEF Kept, Genuine, KeyHolds
  <2>3. Faithful(c)'
    <3> SUFFICES ASSUME OwnObject(i), NEW v \in Workers,
                        worker'[v].pc # "get", worker'[v].id = i
                 PROVE  /\ worker'[v].primary \in {"blank", call[c].text}
                        /\ worker'[v].pc = "merge_put" => worker'[v].copy.primary = call[c].text
      BY <1>0 DEF Faithful
    <3>1. CASE v # w
      BY <1>0, <3>1 DEF Kept, Faithful, OthersWork
    <3>2. CASE v = w
      <4>1. CASE Takes(w)
        BY <3>2, <4>1 DEF Takes
      <4>2. CASE Marks(w) \/ Asks(w) \/ GivesVerdict(w)
        BY <3>2, <4>2 DEF Marks, Asks, GivesVerdict, SameJob, Kept, Faithful
      <4>3. CASE Loads(w)
        <5>1. /\ worker[w].pc = "load" /\ worker'[w].id = worker[w].id /\ worker'[w].pc = "asked"
              /\ worker'[w].primary \in {Object(w).primary, "blank", worker[w].primary}
              /\ Object(w) \notin Payload => worker'[w].primary \in {"blank", worker[w].primary}
          BY <4>3 DEF Loads
        <5>2. Object(w) \in Payload => Object(w).primary = call[c].text
          BY <3>2, <5>1, ObjectFacts DEF Kept, Genuine
        <5> QED
          BY <3>2, <5>1, <5>2 DEF Kept, Faithful
      <4>4. CASE GetsObject(w)
        <5>1. Object(w) \in Payload => Object(w).primary = call[c].text
          BY <3>2, <4>4, ObjectFacts DEF GetsObject, SameJob, Kept, Genuine
        <5> QED
          BY <3>2, <4>4, <5>1 DEF GetsObject, SameJob, Kept, Faithful
      <4>5. CASE Abandons(w) \/ Discards(w) \/ Counts(w) \/ RecordsError(w)
        BY <3>2, <4>5 DEF Abandons, Discards, Counts, RecordsError
      <4> QED
        BY <1>2, <4>1, <4>2, <4>3, <4>4, <4>5 DEF WorkerTurn
    <3> QED
      BY <3>1, <3>2
  <2> QED
    BY <1>1, <2>2, <2>3 DEF Kept
<1>3. CASE PutsObject(w)
  <2> DEFINE o == Merged(worker[w].copy, worker[w].reply)
  <2>1. /\ worker[w].pc = "merge_put" /\ worker'[w].pc = "finalize" /\ SameJob(w)
        /\ UNCHANGED raw \/ raw' = [raw EXCEPT ![<<today, Leaf[worker[w].id]>>] = o]
    BY <1>3 DEF PutsObject
  <2>2. o \in Payload /\ o.primary = worker[w].copy.primary
    BY <2>1, MergedFacts
  <2>3. worker[w].id \in Ids /\ row[worker[w].id] # None /\ Leaf[worker[w].id] \in Ids
    BY <2>1, BusyWorker, ShadowProxyAssumption
  <2>4. Leaf[worker[w].id] = i /\ OwnObject(i) =>
            /\ o.primary = call[c].text
            /\ call[c].pc \notin {"new", "primary", "archive"}
    <3> SUFFICES ASSUME Leaf[worker[w].id] = i, OwnObject(i)
                 PROVE  /\ o.primary = call[c].text
                        /\ call[c].pc \notin {"new", "primary", "archive"}
      OBVIOUS
    <3>1. worker[w].id = i
      BY <2>3 DEF Owned, OwnObject
    <3>2. call[c].pc \notin BeforeInsert
      BY <2>3, <3>1 DEF Once, Unrecorded
    <3> QED
      BY <2>1, <2>2, <3>1, <3>2 DEF Kept, Faithful, BeforeInsert
  <2> HIDE DEF o
  <2>5. \A e \in Days : \/ raw'[<<e, i>>] = raw[<<e, i>>]
                        \/ Leaf[worker[w].id] = i /\ raw'[<<e, i>>] = o
    BY <1>0, <2>1, <2>3, RawUpdate
  <2>6. Genuine(c)' /\ KeyHolds(c)'
    BY <1>0, <2>2, <2>4, <2>5 DEF Kept, Genuine, KeyHolds
  <2>7. Faithful(c)'
    BY <1>0, <2>1 DEF Kept, Faithful, OthersWork, SameJob
  <2> QED
    BY <1>1, <2>6, <2>7 DEF Kept
<1> QED
  BY <1>2, <1>3

LEMMA KeptOtherTurns ==
    ASSUME Places, TableKept, NEW c \in Calls, Kept(c), NEW r \in Replicas,
           SweepTurn(r) \/ LifespanTurn(r) \/ EndTurn(r)
    PROVE  Kept(c)'
<1> DEFINE i == IdOf[c]
<1>0. i \in Ids /\ NoKey \notin Days
  BY ArchiveTypes
<1>1. /\ SameAnswer(c) /\ call'[c].key = call[c].key
      /\ call'[c].pc = call[c].pc \/ (call'[c].pc = "lost" /\ InFlight(c))
  BY DEF SweepTurn, LifespanTurn, EndTurn, SameAnswer, CallsAt
<1>2. row[i] = None => row'[i] = None
  BY <1>0 DEF SweepTurn, LifespanTurn, EndTurn, Rewritten, OtherRowsKept
<1>3. \A e \in Days : raw'[<<e, i>>] = raw[<<e, i>>] \/ (FileStore /\ raw'[<<e, i>>] = Torn)
  BY <1>0 DEF SweepTurn, LifespanTurn, EndTurn
<1>4. \A w \in Workers : worker'[w] = worker[w] \/ worker'[w].pc = "get"
  BY IdleWorker DEF SweepTurn, LifespanTurn, EndTurn
<1>5. RowOf(c)'
  BY <1>0, <1>1, <1>2, RowOfKept DEF Kept
<1>6. Genuine(c)'
  BY <1>1, <1>3, StorageAssumption DEF Kept, Genuine, SameAnswer
<1>7. KeyHolds(c)'
  BY <1>0, <1>1, <1>3 DEF Kept, KeyHolds
<1>8. Faithful(c)'
  BY <1>1, <1>4 DEF Kept, Faithful, SameAnswer
<1> QED
  BY <1>5, <1>6, <1>7, <1>8 DEF Kept

CustodyInv == OnceInv /\ Custody

LEMMA InitCustody == Init => Custody
<1> SUFFICES ASSUME Init PROVE Custody
  OBVIOUS
<1>1. /\ \A c \in Calls : IdOf[c] \in Ids /\ call[c] = NewCall
      /\ \A i \in Ids : row[i] = None
      /\ \A d \in Days, i \in Ids : raw[<<d, i>>] = None
      /\ \A w \in Workers : worker[w].pc = "get"
  BY ShadowProxyAssumption, IdleWorker DEF Init
<1> QED
  BY <1>1, ShadowProxyAssumption, StorageAssumption
     DEF Custody, Owned, NeverTorn, Kept, RowOf, Genuine, KeyHolds, Faithful, NewCall

LEMMA OwnedKept == Places /\ Owned /\ [Next]_vars => Owned'
<1> SUFFICES ASSUME Places, Owned, [Next]_vars, NEW i \in Ids, row'[i] # None
             PROVE  \E c \in Calls : IdOf[c] = i
  BY DEF Owned
<1>1. CASE row[i] # None
  BY <1>1 DEF Owned
<1>2. CASE row[i] = None
  <2>1. \/ \E j, status, verdict, action : Rewritten(j, status, verdict, action)
        \/ \E w \in Workers : Marks(w)
        \/ \E c \in Calls : Records(c)
    BY <1>2, Turns DEF CallTurn, Enters, Hears, Archives, FailsToRecord, Responds, WorkerTurn,
       Takes, Abandons, Discards, Loads, Asks, GetsObject, PutsObject, GivesVerdict, Counts, RecordsError,
       SweepTurn, LifespanTurn, EndTurn, OtherTurn
  <2> QED
    BY <1>2, <2>1 DEF Rewritten, Marks, OtherRowsKept, Records
<1> QED
  BY <1>1, <1>2

LEMMA NeverTornKept == Places /\ NeverTorn /\ [Next]_vars => NeverTorn'
<1> SUFFICES ASSUME Places, NeverTorn, [Next]_vars, ~FileStore,
                    NEW d \in Days, NEW i \in Ids
             PROVE  raw'[<<d, i>>] # Torn
  BY DEF NeverTorn
<1>1. raw[<<d, i>>] # Torn
  BY DEF NeverTorn
<1>2. CASE \E c \in Calls : CallTurn(c)
  <2>1. UNCHANGED raw \/ \E o \in Payload : \E a : raw' = [raw EXCEPT ![a] = o]
    BY <1>2, ArchiveTypes
       DEF CallTurn, Enters, Hears, Archives, Records, FailsToRecord, Responds
  <2> QED
    BY <1>1, <2>1, StorageAssumption DEF Places, TypeOK
<1>3. CASE \E w \in Workers : WorkerTurn(w)
  <2>1. UNCHANGED raw \/ \E o \in Payload : \E a : raw' = [raw EXCEPT ![a] = o]
    BY <1>3, MergedFacts DEF WorkerTurn, Takes, Abandons, Discards, Marks, Loads, Asks, GetsObject,
       PutsObject, GivesVerdict, Counts, RecordsError
  <2> QED
    BY <1>1, <2>1, StorageAssumption DEF Places, TypeOK
<1>4. CASE \/ \E r \in Replicas : SweepTurn(r) \/ LifespanTurn(r) \/ EndTurn(r)
           \/ OtherTurn
  BY <1>1, <1>4 DEF SweepTurn, LifespanTurn, EndTurn, OtherTurn
<1> QED
  BY <1>2, <1>3, <1>4, Turns

LEMMA NextCustody == CustodyInv /\ [Next]_vars => CustodyInv'
<1> SUFFICES ASSUME CustodyInv, [Next]_vars PROVE CustodyInv'
  OBVIOUS
<1>1. OnceInv' /\ Places /\ TableKept
  BY NextOnce, TurnKeepsTable DEF CustodyInv, OnceInv
<1>2. Owned' /\ NeverTorn'
  BY <1>1, OwnedKept, NeverTornKept DEF CustodyInv, Custody
<1>3. ASSUME DistinctIds, NEW c \in Calls PROVE Kept(c)'
  <2>1. Kept(c) /\ Once
    BY <1>3 DEF CustodyInv, Custody, OnceInv
  <2>2. CASE OtherTurn
    BY <2>1, <2>2 DEF OtherTurn, Kept, RowOf, HasItsRow, Genuine, KeyHolds, Faithful
  <2>3. CASE ~OtherTurn
    BY <1>1, <1>3, <2>1, <2>3, Turns, KeptCallTurn, KeptWorkerTurn, KeptOtherTurns
       DEF CustodyInv, Custody
  <2> QED
    BY <2>2, <2>3
<1>4. DistinctIds' <=> DistinctIds
  BY DEF DistinctIds
<1> QED
  BY <1>1, <1>2, <1>3, <1>4 DEF CustodyInv, Custody

LEMMA CustodyInvariant == Spec => []CustodyInv
<1>1. Init => CustodyInv
  BY InitOnce, InitCustody DEF CustodyInv
<1> QED
  BY <1>1, NextCustody, PTL DEF Spec

(* The row of an id and the call that has the id, for what follows.        *)
LEMMA OwnerFacts ==
    ASSUME CustodyInv, DistinctIds, NEW i \in Ids, row[i] # None
    PROVE  \E c \in Calls :
               /\ IdOf[c] = i /\ HasItsRow(c) /\ Kept(c)
               /\ row[i].primaryAction = IF call[c].status = "ok"
                                         THEN ActionOf(call[c].text) ELSE None
               /\ ~FileStore /\ row[i].key # NoKey =>
                      /\ row[i].key \in Days /\ raw[<<row[i].key, i>>] \in Payload
                      /\ OwnObject(i) => raw[<<row[i].key, i>>].primary = call[c].text
<1>1. PICK c \in Calls : IdOf[c] = i
  BY DEF CustodyInv, Custody, Owned
<1>2. Kept(c)
  BY DEF CustodyInv, Custody
<1>3. /\ HasItsRow(c)
      /\ row[i].primaryAction = IF call[c].status = "ok"
                                THEN ActionOf(call[c].text) ELSE None
  BY <1>1, <1>2 DEF Kept, RowOf
<1>4. ASSUME ~FileStore, row[i].key # NoKey
      PROVE  /\ row[i].key \in Days /\ raw[<<row[i].key, i>>] \in Payload
             /\ OwnObject(i) => raw[<<row[i].key, i>>].primary = call[c].text
  <2>1. row[i].key = call[c].key
    BY <1>1, <1>3 DEF HasItsRow
  <2> QED
    BY <1>1, <1>2, <1>4, <2>1 DEF Kept, KeyHolds, Genuine
<1> QED
  BY <1>1, <1>2, <1>3, <1>4

(* A raw_object_key never dangles and never points at the answer of        *)
(* another call: whatever merges, crashes and midnights come in between,   *)
(* the object holds the primary answer whose action the row records.       *)
THEOREM ArchiveIsGenuine == Spec => []ArchiveHoldsPrimary
<1>1. CustodyInv => ArchiveHoldsPrimary
  <2> SUFFICES ASSUME CustodyInv, ~FileStore, DistinctIds, NEW i \in Rows, row[i].key # NoKey
               PROVE  /\ raw[<<row[i].key, i>>] \in Payload
                      /\ row[i].primary = "ok" /\ OwnObject(i) =>
                             row[i].primaryAction = ActionOf(raw[<<row[i].key, i>>].primary)
    BY DEF ArchiveHoldsPrimary
  <2>1. i \in Ids /\ row[i] # None
    BY DEF Rows
  <2> QED
    BY <2>1, OwnerFacts DEF HasItsRow
<1> QED
  BY CustodyInvariant, <1>1, PTL

-----------------------------------------------------------------------------
(* The row of a request, with one replica.  While a request is in play (it *)
(* is queued, read back at boot, with a worker that has yet to judge it,   *)
(* or before the gate) nobody has judged it, so that no handler judges a   *)
(* row for the second time.                                                *)
Single == DistinctIds /\ OneReplica

InPlay(i) ==
    \/ \E r \in Replicas : i \in Range(queue[r]) \cup Range(backlog[r])
    \/ \E w \in Workers : worker[w].pc \notin {"get", "count"} /\ worker[w].id = i
    \/ \E c \in Calls : call[c].pc = "respond" /\ IdOf[c] = i

Open(i) ==
    row[i] # None /\ InPlay(i) =>
        ~Store!Evaluated(row[i]) /\ row[i].candidateAction = None

Coherent(i) ==
    LET r == row[i]
    IN  r # None =>
            /\ r.candidate = "pending"     => r.verdict \in {"pending", "primary_error"}
            /\ r.candidate = "in_progress" => r.verdict \in {"pending", "candidate_error"}
            /\ r.candidate = "ok"          => r.verdict \in Judgements
            /\ r.candidate = "dropped"     => r.verdict = "primary_error"
            /\ r.candidate \in {"error", "timeout_stale"} => r.verdict = "candidate_error"
            /\ r.verdict = "primary_error" => r.primary # "ok"
            /\ Store!Unfinished(r) => r.candidateAction = None

Agrees(i) ==
    LET r == row[i]
    IN  RequireJson /\ OwnObject(i) /\ r # None =>
            /\ r.verdict = "match"    => SameAction(r.primaryAction, r.candidateAction)
            /\ r.verdict = "mismatch" => ~SameAction(r.primaryAction, r.candidateAction)

OpenRows == \A i \in Ids : Open(i) /\ Coherent(i) /\ Agrees(i)

(* Where nothing fails and no date changes, a handler has read what the    *)
(* call archived, and at its UPDATE the object holds its own two answers,  *)
(* if merges for i, and only those, end up in the object of i.             *)
OwnMerges(i) == Leaf[i] = i /\ OwnObject(i)

Replayable == Single /\ ~FileStore /\ faults = 0 /\ LastDay = 1

AskedStates == {"asked", "merge_get", "merge_put", "finalize", "fail"}

ReadBack(w) ==
    worker[w].pc # "get" /\ worker[w].key # NoKey /\ OwnMerges(worker[w].id) =>
        /\ worker[w].pc \in AskedStates => worker[w].primary = Object(w).primary
        /\ worker[w].pc = "finalize" => Object(w).candidate = worker[w].reply

Reproduced(i) ==
    row[i] # None /\ row[i].verdict \in Judgements /\ row[i].key # NoKey /\ OwnMerges(i) =>
        LET kept == raw[<<row[i].key, i>>]
        IN  /\ kept.candidate # None
            /\ row[i].verdict = Evaluate(kept.primary, kept.candidate).verdict

Replays == (\A w \in Workers : ReadBack(w)) /\ (\A i \in Ids : Reproduced(i))

RowInv == /\ CustodyInv /\ (Single => OpenRows) /\ (Replayable => Replays)

(* Who writes a row in a step.                                             *)
Sweeps(r, i) ==
    /\ i \in sweep[r] /\ sweep'[r] = sweep[r] \ {i}
    /\ Rewritten(i, "timeout_stale", "candidate_error", None)

LEMMA RowWriters ==
    ASSUME Places, [Next]_vars, NEW i \in Ids
    PROVE  \/ row'[i] = row[i]
           \/ \E c \in Calls : Records(c) /\ IdOf[c] = i
           \/ \E w \in Workers :
                 /\ WorkerTurn(w) /\ worker[w].id = i
                 /\ Marks(w) \/ GivesVerdict(w) \/ Discards(w) \/ RecordsError(w)
           \/ \E r \in Replicas : Sweeps(r, i)
<1>1. CASE \E c \in Calls : CallTurn(c)
  BY <1>1 DEF CallTurn, Enters, Hears, Archives, Records, FailsToRecord, Responds
<1>2. ASSUME NEW w \in Workers, WorkerTurn(w)
      PROVE  \/ row'[i] = row[i]
             \/ /\ worker[w].id = i
                /\ Marks(w) \/ GivesVerdict(w) \/ Discards(w) \/ RecordsError(w)
  <2>1. CASE \/ Takes(w) \/ Abandons(w) \/ Loads(w) \/ Asks(w) \/ GetsObject(w)
             \/ PutsObject(w) \/ Counts(w)
    BY <2>1 DEF Takes, Abandons, Loads, Asks, GetsObject, PutsObject, Counts
  <2>2. CASE Marks(w) \/ GivesVerdict(w) \/ Discards(w) \/ RecordsError(w)
    <3>1. OtherRowsKept(worker[w].id)
      BY <2>2 DEF Marks, GivesVerdict, Discards, RecordsError, Rewritten
    <3> QED
      BY <2>2, <3>1 DEF OtherRowsKept
  <2> QED
    BY <1>2, <2>1, <2>2 DEF WorkerTurn
<1>3. ASSUME NEW r \in Replicas, SweepTurn(r)
      PROVE  row'[i] = row[i] \/ Sweeps(r, i)
  BY <1>3 DEF SweepTurn, Sweeps, Rewritten, OtherRowsKept
<1>4. CASE OtherTurn \/ \E r \in Replicas : LifespanTurn(r) \/ EndTurn(r)
  BY <1>4 DEF OtherTurn, LifespanTurn, EndTurn
<1> QED
  BY <1>1, <1>2, <1>3, <1>4, Turns

(* A request that has a row comes into play only by the startup query.     *)
LEMMA ComesIntoPlay ==
    ASSUME Places, DistinctIds, Once, [Next]_vars, NEW i \in Ids, row[i] # None, InPlay(i)'
    PROVE  InPlay(i) \/ Store!Unfinished(row[i])
<1>0. /\ queue \in [Replicas -> Seq(Ids)] /\ backlog \in [Replicas -> Seq(Ids)]
      /\ \A c \in Calls : IdOf[c] \in Ids
  BY ShadowProxyAssumption DEF Places, TypeOK
<1>1. ASSUME NEW c \in Calls, CallTurn(c)
      PROVE  InPlay(i)
  <2>1. UNCHANGED <<backlog, worker>> /\ OthersWait(c)
    BY <1>1 DEF CallTurn
  <2>2. CASE Responds(c)
    <3> DEFINE q == Enqueued(Policy, queue[call[c].by], IdOf[c])
    <3>1. /\ call[c].pc = "respond" /\ call'[c].pc # "respond"
          /\ UNCHANGED queue \/ queue' = [queue EXCEPT ![call[c].by] = q]
      BY <2>2 DEF Responds
    <3>2. call[c].by \in Replicas
      BY <3>1 DEF Places, Served, InFlight
    <3>3. Range(q) \subseteq Range(queue[call[c].by]) \cup {IdOf[c]}
      <4>1. /\ Distinct(queue[call[c].by]) /\ IdOf[c] \notin Range(queue[call[c].by])
        BY <3>1, <3>2 DEF Once, OnePlace, OnePlaceAt, Ungated
      <4> QED
        BY <1>0, <3>2, <4>1, EnqueuedOnce, ShadowProxyAssumption
    <3> HIDE DEF q
    <3>4. \A r \in Replicas : Range(queue'[r]) \subseteq Range(queue[r]) \cup {IdOf[c]}
      BY <1>0, <3>1, <3>2, <3>3
    <3> QED
      BY <2>1, <3>1, <3>4 DEF InPlay, OthersWait
  <2>3. CASE ~Responds(c)
    <3>1. UNCHANGED queue /\ (call'[c].pc = "respond" => call[c].pc \in BeforeInsert)
      BY <1>1, <2>3
         DEF CallTurn, Enters, Hears, Archives, Records, FailsToRecord, BeforeInsert
    <3>2. call'[c].pc = "respond" => IdOf[c] # i
      BY <3>1 DEF Once, Unrecorded
    <3> QED
      BY <2>1, <3>1, <3>2 DEF InPlay, OthersWait
  <2> QED
    BY <2>2, <2>3
<1>2. ASSUME NEW w \in Workers, WorkerTurn(w)
      PROVE  InPlay(i)
  <2>1. UNCHANGED <<backlog, call>> /\ OthersWork(w) /\ Home[w] \in Replicas
    BY <1>2, ShadowProxyAssumption DEF WorkerTurn
  <2>2. CASE Takes(w)
    <3> DEFINE q == queue[Home[w]]
    <3>1. /\ q # <<>> /\ queue' = [queue EXCEPT ![Home[w]] = Tail(q)]
          /\ worker'[w].pc # "get" => worker'[w].id = Head(q)
      BY <2>2 DEF Takes
    <3>2. Head(q) \in Range(q) /\ Range(Tail(q)) \subseteq Range(q)
      <4>1. q \in Seq(Ids) /\ Distinct(q)
        BY <1>0, <2>1 DEF Once, OnePlace, OnePlaceAt
      <4> QED
        BY <3>1, <4>1, TailFacts
    <3> HIDE DEF q
    <3>3. \A r \in Replicas : queue'[r] = queue[r] \/ (r = Home[w] /\ queue'[r] = Tail(q))
      BY <1>0, <2>1, <3>1
    <3>4. q = queue[Home[w]]
      BY DEF q
    <3> QED
      BY <2>1, <3>1, <3>2, <3>3, <3>4 DEF InPlay, OthersWork
  <2>3. CASE ~Takes(w)
    <3>1. /\ UNCHANGED queue /\ worker[w].pc # "get"
          /\ worker'[w].pc \notin {"get", "count"} =>
                 worker'[w].id = worker[w].id /\ worker[w].pc # "count"
      BY <1>2, <2>3 DEF WorkerTurn, Abandons, Discards, Marks, Loads, Asks, GetsObject, PutsObject,
         GivesVerdict, Counts, RecordsError, SameJob
    <3> QED
      BY <2>1, <3>1 DEF InPlay, OthersWork
  <2> QED
    BY <2>2, <2>3
<1>3. ASSUME NEW r \in Replicas, LifespanTurn(r)
      PROVE  InPlay(i) \/ Store!Unfinished(row[i])
  <2>1. UNCHANGED <<call, worker>>
    BY <1>3 DEF LifespanTurn
  <2>2. CASE UNCHANGED <<backlog, queue>>
    BY <2>1, <2>2 DEF InPlay
  <2>3. CASE /\ UNCHANGED queue
             /\ \E s \in Seq(Ids) : /\ Distinct(s) /\ Range(s) \subseteq UnfinishedIds
                                    /\ backlog' = [backlog EXCEPT ![r] = s]
    <3>1. \A x \in Replicas : \/ backlog'[x] = backlog[x]
                              \/ Range(backlog'[x]) \subseteq UnfinishedIds
      BY <1>0, <2>3
    <3> QED
      BY <2>1, <2>3, <3>1 DEF InPlay, UnfinishedIds
  <2>4. CASE /\ backlog' = [backlog EXCEPT ![r] = <<>>]
             /\ \E q \in Seq(Ids) : /\ Distinct(q) /\ Range(q) \subseteq Range(backlog[r])
                                    /\ queue' = [queue EXCEPT ![r] = q]
    <3>1. \A x \in Replicas : Range(queue'[x]) \subseteq Range(queue[x]) \cup Range(backlog[x])
      BY <1>0, <2>4
    <3>2. \A x \in Replicas : Range(backlog'[x]) \subseteq Range(backlog[x])
      BY <1>0, <2>4 DEF Range
    <3> QED
      BY <2>1, <3>1, <3>2 DEF InPlay
  <2> QED
    BY <1>3, <2>2, <2>3, <2>4 DEF LifespanTurn
<1>4. ASSUME NEW r \in Replicas, EndTurn(r)
      PROVE  InPlay(i)
  <2>1. Range(<<>>) = {}
    BY DEF Range
  <2>2. \A x \in Replicas : /\ queue'[x] = queue[x] \/ queue'[x] = <<>>
                            /\ backlog'[x] = backlog[x] \/ backlog'[x] = <<>>
    BY <1>0, <1>4 DEF EndTurn
  <2>3. \A w \in Workers : worker'[w].pc # "get" => worker'[w] = worker[w]
    BY <1>4, IdleWorker DEF EndTurn
  <2>4. \A c \in Calls : call'[c].pc = "respond" => call'[c] = call[c]
    BY <1>4 DEF EndTurn
  <2> QED
    BY <2>1, <2>2, <2>3, <2>4 DEF InPlay
<1>5. CASE OtherTurn \/ \E r \in Replicas : SweepTurn(r)
  BY <1>5 DEF OtherTurn, SweepTurn, InPlay
<1> QED
  BY <1>1, <1>2, <1>3, <1>4, <1>5, Turns

(* A verdict takes its request out of play.                                *)
LEMMA VerdictEndsPlay ==
    ASSUME Places, OneReplica, Once, NEW w \in Workers, WorkerTurn(w), GivesVerdict(w),
           NEW i, i = worker[w].id
    PROVE  ~InPlay(i)'
<1> DEFINE r == Home[w]
<1>1. Replicas = {r}
  BY ShadowProxyAssumption DEF OneReplica
<1>2. /\ worker[w].pc = "finalize" /\ worker'[w].pc = "count" /\ OthersWork(w)
      /\ UNCHANGED <<queue, backlog, call>>
  BY DEF GivesVerdict, WorkerTurn
<1>3. BusyAt(w, r) /\ Started(r)
  BY <1>2 DEF BusyAt, Places, NotBefore
<1>4. /\ i \notin Range(queue[r])
      /\ \A v \in Workers : v # w /\ worker[v].pc # "get" => worker[v].id # i
  <2>1. \A v \in Workers : Home[v] = r
    BY <1>1, ShadowProxyAssumption
  <2>2. OnePlaceAt(r)
    BY <1>1 DEF Once, OnePlace
  <2> QED
    BY <1>3, <2>1, <2>2 DEF OnePlaceAt, BusyAt
<1>5. i \notin Range(backlog[r])
  <2>1. backlog[r] = <<>>
    BY <1>1, <1>3 DEF Places, NotBefore, Started
  <2> QED
    BY <2>1 DEF Range
<1>6. \A c \in Calls : call[c].pc = "respond" => IdOf[c] # i
  <2> SUFFICES ASSUME NEW c \in Calls, call[c].pc = "respond" PROVE IdOf[c] # i
    OBVIOUS
  <2>1. call[c].by = r
    BY <1>1 DEF Places, Served, InFlight
  <2> QED
    BY <1>3, <2>1 DEF Once, Ungated
<1> HIDE DEF r
<1>7. \A x \in Replicas : i \notin Range(queue'[x]) \cup Range(backlog'[x])
  BY <1>1, <1>2, <1>4, <1>5
<1>8. \A v \in Workers : worker'[v].pc \notin {"get", "count"} => worker'[v].id # i
  BY <1>2, <1>4 DEF OthersWork
<1>9. \A c \in Calls : call'[c].pc = "respond" => IdOf[c] # i
  BY <1>2, <1>6
<1> QED
  BY <1>7, <1>8, <1>9 DEF InPlay

(* The verdict of a handler, against the columns it ends up beside.        *)
LEMMA VerdictAgrees ==
    ASSUME CustodyInv, DistinctIds, NEW w \in Workers, GivesVerdict(w),
           NEW i, i = worker[w].id, row[i].candidateAction = None
    PROVE  /\ row'[i].candidate = "ok" /\ row'[i].verdict \in Judgements
           /\ row[i].primary = "ok" /\ Agrees(i)'
<1> DEFINE p == worker[w].primary
           t == worker[w].reply
<1>0. /\ Places /\ worker[w].pc = "finalize"
      /\ Rewritten(i, "ok", Evaluate(p, t).verdict, Evaluate(p, t).action)
  BY DEF CustodyInv, OnceInv, GivesVerdict
<1>1. i \in Ids /\ row[i] # None /\ row[i].primary = "ok"
  BY <1>0, BusyWorker DEF InHand
<1>2. p \in Text /\ t \in Text
  BY <1>0, OneWorker DEF Worker
<1>3. /\ row'[i].candidate = "ok" /\ row'[i].verdict = Evaluate(p, t).verdict
      /\ row'[i].primaryAction = row[i].primaryAction
      /\ row'[i].candidateAction = Evaluate(p, t).action
  BY <1>0 DEF Rewritten, SameIngest
<1>4. Evaluate(p, t).verdict \in Judgements
  BY <1>2, EvaluateType
<1>5. PICK c \in Calls : /\ IdOf[c] = i /\ HasItsRow(c) /\ Kept(c)
                         /\ row[i].primaryAction = IF call[c].status = "ok"
                                                   THEN ActionOf(call[c].text) ELSE None
  BY <1>1, OwnerFacts
<1>6. /\ row[i].primaryAction = ActionOf(call[c].text)
      /\ OwnObject(i) => p \in {"blank", call[c].text}
  BY <1>0, <1>1, <1>5 DEF HasItsRow, Kept, Faithful
<1> HIDE DEF p, t
<1>7. ASSUME RequireJson, OwnObject(i)
      PROVE  /\ Evaluate(p, t).verdict = "match" =>
                    SameAction(ActionOf(call[c].text), Evaluate(p, t).action)
             /\ Evaluate(p, t).verdict = "mismatch" =>
                    ~SameAction(ActionOf(call[c].text), Evaluate(p, t).action)
  BY <1>6, <1>7 DEF Evaluate, Unparsable
<1>8. Agrees(i)'
  BY <1>3, <1>6, <1>7 DEF Agrees
<1> QED
  BY <1>1, <1>3, <1>4, <1>8

LEMMA OpenRowsKept ==
    ASSUME CustodyInv, Single, OpenRows, [Next]_vars, NEW i \in Ids
    PROVE  Open(i)' /\ Coherent(i)' /\ Agrees(i)'
<1>0. /\ Places /\ DistinctIds /\ OneReplica /\ Once
      /\ Open(i) /\ Coherent(i) /\ Agrees(i)
  BY DEF Single, CustodyInv, OnceInv, OpenRows
<1>1. ASSUME row[i] # None, InPlay(i)'
      PROVE  ~Store!Evaluated(row[i]) /\ row[i].candidateAction = None
  <2>1. InPlay(i) \/ Store!Unfinished(row[i])
    BY <1>0, <1>1, ComesIntoPlay
  <2> QED
    BY <1>0, <1>1, <2>1 DEF Open, Coherent, Store!Evaluated, Store!Unfinished
<1>2. CASE row'[i] = row[i]
  <2>1. Coherent(i)' /\ Agrees(i)'
    BY <1>0, <1>2 DEF Coherent, Agrees
  <2>2. Open(i)'
    BY <1>1, <1>2 DEF Open, Store!Evaluated
  <2> QED
    BY <2>1, <2>2
<1>3. ASSUME NEW c \in Calls, Records(c), IdOf[c] = i
      PROVE  Open(i)' /\ Coherent(i)' /\ Agrees(i)'
  <2>1. /\ row'[i].candidate = "pending" /\ row'[i].candidateAction = None
        /\ row'[i].verdict = IF row'[i].primary = "ok" THEN "pending" ELSE "primary_error"
    BY <1>3 DEF Records, Recorded
  <2> QED
    BY <2>1 DEF Open, Coherent, Agrees, Store!Evaluated, Store!Unfinished
<1>4. ASSUME NEW w \in Workers, WorkerTurn(w), worker[w].id = i,
             Marks(w) \/ GivesVerdict(w) \/ Discards(w) \/ RecordsError(w)
      PROVE  Open(i)' /\ Coherent(i)' /\ Agrees(i)'
  <2>0. InPlay(i) /\ row[i] # None /\ row'[i] # None
    BY <1>4 DEF InPlay, Marks, GivesVerdict, Discards, RecordsError, Rewritten
  <2>1. ~Store!Evaluated(row[i]) /\ row[i].candidateAction = None
    BY <1>0, <2>0 DEF Open
  <2>2. CASE Marks(w)
    <3>1. /\ row'[i].candidate = "in_progress" /\ row'[i].verdict = row[i].verdict
          /\ row'[i].candidateAction = None
          /\ row[i].primary = "ok" /\ row'[i].primary = "ok"
      BY <1>4, <2>1, <2>2 DEF Marks, SameIngest
    <3>2. row[i].verdict \in {"pending", "candidate_error"}
      <4>1. row[i].candidate \in {"pending", "in_progress", "error", "timeout_stale", "dropped"}
        <5>1. row[i] \in Store!Row
          BY <1>0, <2>0 DEF Places, TypeOK
        <5> QED
          BY <2>1, <5>1 DEF Store!Row, Store!CandidateStatus, Store!Evaluated
      <4> QED
        BY <1>0, <2>0, <3>1, <4>1 DEF Coherent
    <3> QED
      BY <3>1, <3>2 DEF Open, Coherent, Agrees, Store!Evaluated
  <2>3. CASE GivesVerdict(w)
    <3>1. /\ row'[i].candidate = "ok" /\ row'[i].verdict \in Judgements
          /\ row[i].primary = "ok" /\ Agrees(i)'
      BY <1>0, <1>4, <2>1, <2>3, VerdictAgrees
    <3>2. ~InPlay(i)'
      BY <1>0, <1>4, <2>3, VerdictEndsPlay
    <3>3. Coherent(i)'
      BY <3>1 DEF Coherent, Judgements, Store!Unfinished
    <3> QED
      BY <3>1, <3>2, <3>3 DEF Open
  <2>4. CASE Discards(w) \/ RecordsError(w)
    <3>1. /\ \/ /\ row'[i].candidate = "dropped" /\ row'[i].verdict = "primary_error"
                /\ row'[i].primary # "ok"
             \/ row'[i].candidate = "error" /\ row'[i].verdict = "candidate_error"
          /\ row'[i].candidateAction = None
      BY <1>4, <2>1, <2>4 DEF Discards, RecordsError, Rewritten, SameIngest
    <3> QED
      BY <3>1 DEF Open, Coherent, Agrees, Store!Evaluated
  <2> QED
    BY <1>4, <2>2, <2>3, <2>4
<1>5. ASSUME NEW r \in Replicas, Sweeps(r, i)
      PROVE  Open(i)' /\ Coherent(i)' /\ Agrees(i)'
  <2>1. /\ row[i] # None
        /\ row'[i].candidate = "timeout_stale" /\ row'[i].verdict = "candidate_error"
        /\ row'[i].candidateAction = row[i].candidateAction
    BY <1>5 DEF Sweeps, Rewritten
  <2> QED
    BY <1>1, <2>1 DEF Open, Coherent, Agrees, Store!Evaluated, Store!Unfinished
<1> QED
  BY <1>0, <1>2, <1>3, <1>4, <1>5, RowWriters

(* Which of these writes touches an object of a request that has a row.    *)
Puts(w, i) ==
    /\ WorkerTurn(w) /\ worker[w].pc = "merge_put" /\ worker'[w].pc = "finalize"
    /\ worker[w].id = i /\ SameJob(w) /\ worker'[w].reply = worker[w].reply
    /\ raw' = [raw EXCEPT ![<<today, i>>] = Merged(worker[w].copy, worker[w].reply)]

LEMMA ObjectWriters ==
    ASSUME Places, Once, Owned, ~FileStore, [Next]_vars,
           NEW i \in Ids, row[i] # None, OwnMerges(i)
    PROVE  \/ \A d \in Days : raw'[<<d, i>>] = raw[<<d, i>>]
           \/ \E w \in Workers : Puts(w, i)
<1>0. today \in Days /\ \A c \in Calls : IdOf[c] \in Ids
  BY ArchiveTypes
<1>1. ASSUME NEW c \in Calls, CallTurn(c), raw' # raw
      PROVE  \A d \in Days : raw'[<<d, i>>] = raw[<<d, i>>]
  <2>1. PICK o : raw' = [raw EXCEPT ![<<today, IdOf[c]>>] = o]
    BY <1>1 DEF CallTurn, Enters, Hears, Archives, Records, FailsToRecord, Responds
  <2>2. call[c].pc = "archive"
    BY <1>1 DEF CallTurn, Enters, Hears, Archives, Records, FailsToRecord, Responds
  <2>3. IdOf[c] # i
    BY <2>2 DEF Once, Unrecorded, BeforeInsert
  <2> QED
    BY <1>0, <2>1, <2>3, RawUpdate
<1>2. ASSUME NEW w \in Workers, WorkerTurn(w), raw' # raw
      PROVE  (\A d \in Days : raw'[<<d, i>>] = raw[<<d, i>>]) \/ Puts(w, i)
  <2> DEFINE o == Merged(worker[w].copy, worker[w].reply)
             j == Leaf[worker[w].id]
  <2>1. /\ PutsObject(w)
        /\ raw' = [raw EXCEPT ![<<today, j>>] = o]
    BY <1>2 DEF WorkerTurn, Takes, Abandons, Discards, Marks, Loads, Asks, GetsObject, PutsObject,
       GivesVerdict, Counts, RecordsError
  <2>2. worker[w].id \in Ids /\ row[worker[w].id] # None /\ j \in Ids
    BY <2>1, BusyWorker, ShadowProxyAssumption DEF PutsObject
  <2>3. CASE worker[w].id = i
    BY <1>2, <2>1, <2>3 DEF Puts, PutsObject, OwnMerges
  <2>4. CASE worker[w].id # i
    <3>1. PICK c \in Calls : IdOf[c] = worker[w].id
      BY <2>2 DEF Owned
    <3>2. j # i
      BY <2>4, <3>1 DEF OwnMerges, OwnObject
    <3> HIDE DEF o, j
    <3> QED
      BY <1>0, <2>1, <2>2, <3>2, RawUpdate
  <2> QED
    BY <2>3, <2>4
<1>3. CASE \/ \E r \in Replicas : SweepTurn(r) \/ LifespanTurn(r) \/ EndTurn(r)
           \/ OtherTurn
  BY <1>3 DEF SweepTurn, LifespanTurn, EndTurn, OtherTurn
<1> QED
  BY <1>1, <1>2, <1>3, Turns

(* With one replica no two handlers work on one request.                   *)
LEMMA OneHandler ==
    ASSUME Once, OneReplica, NEW v \in Workers, NEW w \in Workers,
           worker[v].pc # "get", worker[w].pc # "get", worker[v].id = worker[w].id
    PROVE  v = w
<1>1. Home[v] = Home[w] /\ Home[v] \in Replicas
  BY ShadowProxyAssumption DEF OneReplica
<1>2. OnePlaceAt(Home[w])
  BY <1>1 DEF Once, OnePlace
<1> QED
  BY <1>1, <1>2 DEF OnePlaceAt, BusyAt

(* What a handler's object holds.                                          *)
LEMMA ObjectOfHandler ==
    ASSUME CustodyInv, DistinctIds, ~FileStore, NEW w \in Workers, worker[w].pc # "get",
           worker[w].key # NoKey
    PROVE  /\ worker[w].id \in Ids /\ row[worker[w].id] # None
           /\ worker[w].key = row[worker[w].id].key /\ worker[w].key \in Days
           /\ Object(w) = raw[<<worker[w].key, worker[w].id>>]
           /\ Object(w) \in Payload
           /\ worker[w].pc = "merge_put" /\ OwnObject(worker[w].id) =>
                  worker[w].copy.primary = Object(w).primary
<1> DEFINE i == worker[w].id
<1>1. i \in Ids /\ row[i] # None /\ worker[w].key = row[i].key
  BY BusyWorker DEF CustodyInv, OnceInv, InHand
<1>2. PICK c \in Calls :
        /\ IdOf[c] = i /\ Kept(c)
        /\ ~FileStore /\ row[i].key # NoKey =>
               /\ row[i].key \in Days /\ raw[<<row[i].key, i>>] \in Payload
               /\ OwnObject(i) => raw[<<row[i].key, i>>].primary = call[c].text
  BY <1>1, OwnerFacts
<1>3. worker[w].pc = "merge_put" /\ OwnObject(i) => worker[w].copy.primary = call[c].text
  BY <1>2 DEF Kept, Faithful
<1> QED
  BY <1>1, <1>2, <1>3 DEF Object

LEMMA ReadBackKept ==
    ASSUME CustodyInv, Replayable, Replays, [Next]_vars, faults' = 0, NEW w \in Workers
    PROVE  ReadBack(w)'
<1> SUFFICES ASSUME worker'[w].pc # "get", worker'[w].key # NoKey, OwnMerges(worker'[w].id)
             PROVE  /\ worker'[w].pc \in AskedStates => worker'[w].primary = Object(w)'.primary
                    /\ worker'[w].pc = "finalize" => Object(w)'.candidate = worker'[w].reply
  BY DEF ReadBack, OwnMerges, OwnObject
<1> DEFINE i == worker[w].id
           k == worker[w].key
<1>0. /\ Places /\ Once /\ Owned /\ OneReplica /\ DistinctIds /\ ~FileStore
      /\ faults = 0 /\ Days = {1} /\ ReadBack(w) /\ today \in Days
  BY ArchiveTypes DEF Replayable, Single, CustodyInv, Custody, OnceInv, Replays, Days
<1>1. ASSUME worker[w].pc # "get", worker'[w].id = i, worker'[w].key = k
      PROVE  /\ OwnMerges(i) /\ i \in Ids /\ row[i] # None /\ k \in Days
             /\ Object(w) = raw[<<k, i>>] /\ Object(w) \in Payload
             /\ Object(w)' = raw'[<<k, i>>]
             /\ worker[w].pc = "merge_put" => worker[w].copy.primary = Object(w).primary
  BY <1>0, <1>1, ObjectOfHandler DEF Object, OwnMerges
<1>2. ASSUME worker'[w] = worker[w], \A v \in Workers : Puts(v, i) => v = w
      PROVE  /\ worker'[w].pc \in AskedStates => worker'[w].primary = Object(w)'.primary
             /\ worker'[w].pc = "finalize" => Object(w)'.candidate = worker'[w].reply
  <2>1. \A v \in Workers : ~Puts(v, i)
    BY <1>2 DEF Puts
  <2>2. \A d \in Days : raw'[<<d, i>>] = raw[<<d, i>>]
    BY <1>0, <1>1, <1>2, <2>1, ObjectWriters
  <2>3. Object(w)' = Object(w)
    BY <1>1, <1>2, <2>2
  <2> QED
    BY <1>0, <1>1, <1>2, <2>3 DEF ReadBack
<1>3. CASE worker'[w] = worker[w]
  <2>1. \A v \in Workers : Puts(v, i) => v = w
    BY <1>0, <1>3, OneHandler DEF Puts
  <2> QED
    BY <1>2, <1>3, <2>1
<1>4. CASE worker'[w] # worker[w]
  <2>1. WorkerTurn(w)
    <3>1. ASSUME NEW v \in Workers, WorkerTurn(v) PROVE v = w
      BY <1>4, <3>1 DEF WorkerTurn, OthersWork
    <3>2. ~OtherTurn /\ \A c \in Calls : ~CallTurn(c)
      BY <1>4 DEF OtherTurn, CallTurn
    <3>3. \A r \in Replicas : ~SweepTurn(r) /\ ~LifespanTurn(r) /\ ~EndTurn(r)
      BY <1>4, IdleWorker DEF SweepTurn, LifespanTurn, EndTurn
    <3> QED
      BY <1>0, <3>1, <3>2, <3>3, Turns
  <2>2. CASE Takes(w) \/ Marks(w)
    BY <2>2 DEF Takes, Marks, AskedStates
  <2>3. CASE Loads(w)
    <3>1. /\ worker[w].pc = "load" /\ worker'[w].pc = "asked"
          /\ worker'[w].id = i /\ worker'[w].key = k /\ UNCHANGED raw
          /\ worker'[w].primary = IF Object(w) \in Payload THEN Object(w).primary ELSE "blank"
      BY <1>0, <2>3 DEF Loads
    <3>2. Object(w)' = Object(w) /\ Object(w) \in Payload
      BY <1>1, <3>1
    <3> QED
      BY <3>1, <3>2
  <2>4. CASE Asks(w) \/ GetsObject(w)
    <3>1. /\ worker[w].pc \in {"asked", "merge_get"} /\ SameJob(w) /\ UNCHANGED raw
      BY <2>4 DEF Asks, GetsObject
    <3>2. Object(w)' = Object(w) /\ Object(w) \in Payload
      BY <1>1, <3>1 DEF SameJob
    <3>3. worker'[w].pc # "finalize"
      BY <1>0, <2>4, <3>1, <3>2 DEF Asks, GetsObject, SameJob
    <3> QED
      BY <1>0, <1>1, <3>1, <3>2, <3>3 DEF ReadBack, SameJob, AskedStates
  <2>5. CASE PutsObject(w)
    <3> DEFINE o == Merged(worker[w].copy, worker[w].reply)
    <3>1. /\ worker[w].pc = "merge_put" /\ worker'[w].pc = "finalize" /\ SameJob(w)
          /\ worker'[w].reply = worker[w].reply
          /\ raw' = [raw EXCEPT ![<<today, Leaf[i]>>] = o]
      BY <1>0, <2>5 DEF PutsObject
    <3>2. o.primary = worker[w].copy.primary /\ o.candidate = worker[w].reply
      BY <1>0, <3>1, MergedFacts
    <3>3. worker[w].primary = Object(w).primary /\ Leaf[i] = i
      BY <1>0, <1>1, <3>1 DEF ReadBack, AskedStates, SameJob, OwnMerges
    <3> HIDE DEF o
    <3>4. Object(w)' = o
      <4>1. k = today /\ <<today, i>> \in DOMAIN raw /\ Object(w)' = raw'[<<k, i>>]
        BY <1>0, <1>1, <3>1 DEF SameJob, Places, TypeOK
      <4> QED
        BY <3>1, <3>3, <4>1
    <3> QED
      BY <1>1, <3>1, <3>2, <3>3, <3>4 DEF SameJob
  <2>6. CASE Abandons(w) \/ Discards(w) \/ GivesVerdict(w) \/ Counts(w) \/ RecordsError(w)
    BY <2>6 DEF Abandons, Discards, GivesVerdict, Counts, RecordsError, AskedStates
  <2> QED
    BY <2>1, <2>2, <2>3, <2>4, <2>5, <2>6 DEF WorkerTurn
<1> QED
  BY <1>3, <1>4

LEMMA ReproducedKept ==
    ASSUME CustodyInv, OpenRows, OpenRows', Replayable, Replays, [Next]_vars, faults' = 0,
           NEW i \in Ids
    PROVE  Reproduced(i)'
<1> SUFFICES ASSUME row'[i] # None, row'[i].verdict \in Judgements, row'[i].key # NoKey,
                    OwnMerges(i)
             PROVE  /\ raw'[<<row'[i].key, i>>].candidate # None
                    /\ row'[i].verdict = Evaluate(raw'[<<row'[i].key, i>>].primary,
                                                  raw'[<<row'[i].key, i>>].candidate).verdict
  BY DEF Reproduced, OwnMerges, OwnObject
<1>0. Places /\ Once /\ Owned /\ DistinctIds /\ ~FileStore /\ Open(i) /\ Coherent(i) /\ Coherent(i)'
  BY DEF Replayable, Single, CustodyInv, Custody, OnceInv, OpenRows
<1>1. Judgements \cap {"pending", "primary_error", "candidate_error"} = {}
  BY DEF Judgements
<1>2. CASE row'[i] = row[i]
  <2>1. row[i] # None /\ row[i] \in Store!Row
    BY <1>0, <1>2 DEF Places, TypeOK
  <2>2. Store!Evaluated(row[i])
    BY <1>0, <1>1, <1>2, <2>1 DEF Coherent, Store!Row, Store!CandidateStatus, Store!Evaluated
  <2>3. ~InPlay(i)
    BY <1>0, <2>1, <2>2 DEF Open
  <2>4. \A w \in Workers : ~Puts(w, i)
    BY <2>3 DEF InPlay, Puts
  <2>5. \A d \in Days : raw'[<<d, i>>] = raw[<<d, i>>]
    BY <1>0, <2>1, <2>4, ObjectWriters
  <2>6. row[i].key \in Days
    BY <1>0, <1>2, <2>1, OwnerFacts DEF CustodyInv
  <2>7. Reproduced(i)
    BY DEF Replays
  <2> QED
    BY <1>2, <2>1, <2>5, <2>6, <2>7 DEF Reproduced
<1>3. CASE row'[i] # row[i]
  <2>1. PICK w \in Workers : WorkerTurn(w) /\ worker[w].id = i /\ GivesVerdict(w)
    <3>1. \A c \in Calls : ~(Records(c) /\ IdOf[c] = i)
      BY <1>1 DEF Records, Recorded
    <3>2. ASSUME NEW w \in Workers, worker[w].id = i, Marks(w) PROVE FALSE
      BY <1>0, <1>1, <3>2 DEF Marks, Coherent
    <3>3. \A w \in Workers : worker[w].id = i => ~Discards(w) /\ ~RecordsError(w)
      BY <1>1 DEF Discards, RecordsError, Rewritten
    <3>4. \A r \in Replicas : ~Sweeps(r, i)
      BY <1>1 DEF Sweeps, Rewritten
    <3> QED
      BY <1>0, <1>3, <3>1, <3>2, <3>3, <3>4, RowWriters
  <2>2. /\ worker[w].pc = "finalize" /\ UNCHANGED raw /\ row'[i].key = row[i].key
        /\ row'[i].verdict = Evaluate(worker[w].primary, worker[w].reply).verdict
    BY <2>1 DEF GivesVerdict, Rewritten, SameIngest
  <2>3. worker[w].key = row[i].key /\ worker[w].reply \in Text
    BY <1>0, <2>1, <2>2, BusyWorker, OneWorker DEF InHand, Worker
  <2>4. Object(w) = raw[<<row[i].key, i>>]
    BY <1>0, <2>1, <2>2, <2>3, ObjectOfHandler
  <2>5. Object(w).primary = worker[w].primary /\ Object(w).candidate = worker[w].reply
    BY <2>1, <2>2, <2>3 DEF Replays, ReadBack, AskedStates
  <2>6. worker[w].reply # None
    BY <2>3, ShadowProxyAssumption
  <2> QED
    BY <2>2, <2>4, <2>5, <2>6
<1> QED
  BY <1>2, <1>3

LEMMA InitRows == Init => OpenRows /\ Replays
  BY IdleWorker DEF Init, OpenRows, Open, Coherent, Agrees, Replays, ReadBack, Reproduced

LEMMA FaultsGrow ==
    ASSUME Places, [Next]_vars
    PROVE  UNCHANGED faults \/ faults' = faults + 1
BY Turns DEF CallTurn, WorkerTurn, Takes, Abandons, Discards, Marks, Loads, Asks, GetsObject,
   PutsObject, GivesVerdict, Counts, RecordsError, SweepTurn, LifespanTurn, EndTurn, OtherTurn

LEMMA FaultsCounted ==
    ASSUME Places, [Next]_vars, faults' = 0
    PROVE  faults = 0
<1>1. UNCHANGED faults \/ faults' = faults + 1
  BY FaultsGrow
<1>2. faults \in Nat
  BY DEF Places, TypeOK
<1> QED
  BY <1>1, <1>2

LEMMA NextRows == RowInv /\ [Next]_vars => RowInv'
<1> SUFFICES ASSUME RowInv, [Next]_vars PROVE RowInv'
  OBVIOUS
<1>1. CustodyInv /\ CustodyInv' /\ Places
  BY NextCustody DEF RowInv, CustodyInv, OnceInv
<1>2. Single' <=> Single
  BY DEF Single, DistinctIds, OneReplica
<1>3. ASSUME Single PROVE OpenRows'
  BY <1>1, <1>3, OpenRowsKept DEF RowInv, OpenRows
<1>4. ASSUME Replayable' PROVE Replays'
  <2>1. Single /\ ~FileStore /\ faults' = 0 /\ LastDay = 1
    BY <1>2, <1>4 DEF Replayable
  <2>2. Replayable
    BY <1>1, <2>1, FaultsCounted DEF Replayable
  <2>3. OpenRows /\ OpenRows' /\ Replays
    BY <1>3, <2>1, <2>2 DEF RowInv
  <2>4. (\A w \in Workers : ReadBack(w)') /\ (\A i \in Ids : Reproduced(i)')
    BY <1>1, <2>1, <2>2, <2>3, ReadBackKept, ReproducedKept
  <2> QED
    BY <2>4 DEF Replays
<1> QED
  BY <1>1, <1>2, <1>3, <1>4 DEF RowInv

LEMMA RowInvariant == Spec => []RowInv
<1>1. Init => RowInv
  BY InitOnce, InitCustody, InitRows DEF RowInv, CustodyInv
<1> QED
  BY <1>1, NextRows, PTL DEF Spec

(* The two status columns of a row never contradict each other, whatever   *)
(* sweeps, requeues and crashes do between the two UPDATEs of a handler.   *)
THEOREM RowsAreCoherent == Spec => []RowCoherent
<1>1. RowInv => RowCoherent
  <2> SUFFICES ASSUME RowInv, Single, NEW i \in Rows
               PROVE  row[i].verdict \in
                         CASE row[i].candidate = "pending"     -> {"pending", "primary_error"}
                           [] row[i].candidate = "in_progress" -> {"pending", "candidate_error"}
                           [] row[i].candidate = "ok"          -> Judgements
                           [] row[i].candidate = "dropped"     -> {"primary_error"}
                           [] OTHER                            -> {"candidate_error"}
    BY DEF RowCoherent, Single
  <2>1. i \in Ids /\ row[i] # None /\ Coherent(i) /\ row[i] \in Store!Row
    BY DEF RowInv, OpenRows, Rows, CustodyInv, OnceInv, Places, TypeOK
  <2>2. row[i].candidate \in Store!CandidateStatus
    BY <2>1 DEF Store!Row
  <2> DEFINE r == row[i]
  <2> HIDE DEF r
  <2>3. /\ r.candidate = "pending"     => r.verdict \in {"pending", "primary_error"}
        /\ r.candidate = "in_progress" => r.verdict \in {"pending", "candidate_error"}
        /\ r.candidate = "ok"          => r.verdict \in Judgements
        /\ r.candidate = "dropped"     => r.verdict = "primary_error"
        /\ r.candidate \in {"error", "timeout_stale"} => r.verdict = "candidate_error"
        /\ r.candidate \in Store!CandidateStatus
    BY <2>1, <2>2 DEF Coherent, r
  <2>4. r.verdict \in CASE r.candidate = "pending"     -> {"pending", "primary_error"}
                        [] r.candidate = "in_progress" -> {"pending", "candidate_error"}
                        [] r.candidate = "ok"          -> Judgements
                        [] r.candidate = "dropped"     -> {"primary_error"}
                        [] OTHER                       -> {"candidate_error"}
    BY <2>3 DEF Store!CandidateStatus
  <2> QED
    BY <2>4 DEF r
<1> QED
  BY RowInvariant, <1>1, PTL

(* A verdict of match or mismatch agrees with the two action columns of    *)
(* its row: the primary's was extracted from the answer before it was      *)
(* archived, the candidate's with the verdict, and no later attempt leaves *)
(* an action beside another attempt's verdict.                             *)
THEOREM VerdictsMatchActions == Spec => []VerdictAgreesWithActions
<1>1. RowInv => VerdictAgreesWithActions
  <2> SUFFICES ASSUME RowInv, Single, RequireJson, NEW i \in Rows, OwnObject(i)
               PROVE  LET p    == row[i].primaryAction
                          c    == row[i].candidateAction
                          same == p # None /\ c # None /\ NormalForm[p] = NormalForm[c]
                      IN  /\ row[i].verdict = "match" => same
                          /\ row[i].verdict = "mismatch" => ~same
    BY DEF VerdictAgreesWithActions, Single
  <2>1. row[i] # None /\ Agrees(i)
    BY DEF RowInv, OpenRows, Rows
  <2> QED
    BY <2>1 DEF Agrees, SameAction
<1> QED
  BY RowInvariant, <1>1, PTL

(* The two answers in the archive compare as the row says, although the    *)
(* merge and the UPDATE are two steps and a crash between them makes the   *)
(* next boot ask the candidate again.                                      *)
THEOREM VerdictsCanBeReplayed == Spec => []VerdictReproducible
<1>1. RowInv => VerdictReproducible
  <2> SUFFICES ASSUME RowInv, Replayable, NEW i \in Rows,
                      row[i].verdict \in Judgements, row[i].key # NoKey, OwnMerges(i)
               PROVE  LET kept == raw[<<row[i].key, i>>]
                      IN  /\ kept.candidate # None
                          /\ row[i].verdict = Evaluate(kept.primary, kept.candidate).verdict
    BY DEF VerdictReproducible, Replayable, Single, OwnMerges
  <2>1. row[i] # None /\ Reproduced(i)
    BY DEF RowInv, Replays, Rows
  <2> QED
    BY <2>1 DEF Reproduced
<1> QED
  BY RowInvariant, <1>1, PTL

(* A row that was judged is rewritten only by a sweep that had selected it *)
(* before: whatever is requeued at boot, no handler judges it again.       *)
THEOREM JudgedRowsStay == Spec => OnlySweepsOverwrite
<1> DEFINE A == (DistinctIds /\ OneReplica) =>
                    \A i \in Rows : Store!Evaluated(row[i]) /\ row'[i] # row[i] =>
                        \E r \in Replicas : i \in sweep[r] /\ i \notin sweep'[r]
<1>1. RowInv /\ [Next]_vars => A
  <2> SUFFICES ASSUME RowInv, [Next]_vars, Single, NEW i \in Rows,
                      Store!Evaluated(row[i]), row'[i] # row[i]
               PROVE  \E r \in Replicas : i \in sweep[r] /\ i \notin sweep'[r]
    BY DEF Single
  <2>0. i \in Ids /\ row[i] # None
    BY DEF Rows
  <2>1. Places /\ ~InPlay(i)
    BY <2>0 DEF RowInv, OpenRows, Open, CustodyInv, OnceInv
  <2>2. \A w \in Workers : worker[w].id = i => worker[w].pc \in {"get", "count"}
    BY <2>1 DEF InPlay
  <2>3. \E r \in Replicas : Sweeps(r, i)
    BY <2>0, <2>1, <2>2, RowWriters DEF Records, Marks, GivesVerdict, Discards, RecordsError
  <2> QED
    BY <2>3 DEF Sweeps
<1> HIDE DEF A
<1>2. RowInv /\ [Next]_vars => [A]_vars
  BY <1>1
<1>3. Spec => [][A]_vars
  BY RowInvariant, <1>2, PTL DEF Spec
<1> QED
  BY <1>3 DEF A, OnlySweepsOverwrite

-----------------------------------------------------------------------------
(* What a graceful stop waits for.  As long as nothing fails and no        *)
(* process dies, a row in progress is with a worker, and a request whose   *)
(* caller was told "enqueued" is in a queue or with a worker until its row *)
(* has a final status.                                                     *)
Unhurt == faults = 0 /\ crashes = 0 /\ DistinctIds /\ Policy = "drop_new"

Working(i) ==
    \E w \in Workers : worker[w].pc \notin {"get", "count"} /\ worker[w].id = i

Carried(i) == Working(i) \/ \E r \in Replicas : i \in Range(queue[r])

Unsettled(i) == row[i] # None /\ Store!Unfinished(row[i])

Pledged ==
    /\ \A i \in Ids : row[i] # None /\ row[i].candidate = "in_progress" => Working(i)
    /\ \A c \in Calls : call[c].shadow # "no" => call[c].pc = "answered"
    /\ \A c \in Calls : call[c].shadow = "enqueued" /\ Unsettled(IdOf[c]) => Carried(IdOf[c])

PledgeInv == OnceInv /\ Acked /\ (Unhurt => Pledged)

LEMMA Unharmed ==
    ASSUME Places, [Next]_vars, Unhurt'
    PROVE  Unhurt /\ UNCHANGED <<faults, crashes>>
<1>1. /\ UNCHANGED faults \/ faults' = faults + 1
      /\ UNCHANGED crashes \/ crashes' = crashes + 1
  BY Turns DEF CallTurn, WorkerTurn, Takes, Abandons, Discards, Marks, Loads, Asks, GetsObject,
     PutsObject, GivesVerdict, Counts, RecordsError, SweepTurn, LifespanTurn, EndTurn, OtherTurn
<1>2. faults \in Nat /\ crashes \in Nat
  BY DEF Places, TypeOK
<1> QED
  BY <1>1, <1>2 DEF Unhurt, DistinctIds

(* Nobody lays down a request before its row has a final status.           *)
LEMMA StaysWithWorker ==
    ASSUME Places, [Next]_vars, UNCHANGED <<faults, crashes>>, NEW i \in Ids,
           Working(i), Unsettled(i)'
    PROVE  Working(i)'
<1>1. PICK w \in Workers : worker[w].pc \notin {"get", "count"} /\ worker[w].id = i
  BY DEF Working
<1>2. faults \in Nat /\ crashes \in Nat
  BY DEF Places, TypeOK
<1>3. SUFFICES ASSUME worker'[w] # worker[w] PROVE Working(i)'
  BY <1>1 DEF Working
<1>4. WorkerTurn(w)
  <2>1. ASSUME NEW v \in Workers, WorkerTurn(v) PROVE v = w
    BY <1>3, <2>1 DEF WorkerTurn, OthersWork
  <2>2. ASSUME NEW r \in Replicas, EndTurn(r) PROVE FALSE
    BY <1>1, <1>2, <1>3, <2>2 DEF EndTurn
  <2>3. ~OtherTurn /\ \A c \in Calls : ~CallTurn(c)
    BY <1>3 DEF OtherTurn, CallTurn
  <2>4. \A r \in Replicas : ~SweepTurn(r) /\ ~LifespanTurn(r)
    BY <1>3 DEF SweepTurn, LifespanTurn
  <2> QED
    BY <2>1, <2>2, <2>3, <2>4, Turns
<1>5. ~Discards(w) /\ ~GivesVerdict(w) /\ ~Counts(w) /\ ~RecordsError(w)
  BY <1>1 DEF Discards, GivesVerdict, Counts, RecordsError, Rewritten, Unsettled, Store!Unfinished
<1>6. ~Takes(w) /\ ~Abandons(w)
  BY <1>1, <1>2 DEF Takes, Abandons
<1>7. worker'[w].pc \notin {"get", "count"} /\ worker'[w].id = i
  BY <1>1, <1>4, <1>5, <1>6
     DEF WorkerTurn, Marks, Loads, Asks, GetsObject, PutsObject, SameJob
<1> QED
  BY <1>7 DEF Working

LEMMA StaysCarried ==
    ASSUME Places, Once, Unhurt, [Next]_vars, UNCHANGED <<faults, crashes>>, NEW i \in Ids,
           Carried(i), row[i] # None, Unsettled(i)'
    PROVE  Carried(i)'
<1>0. /\ queue \in [Replicas -> Seq(Ids)] /\ faults \in Nat /\ crashes \in Nat
      /\ \A c \in Calls : IdOf[c] \in Ids
  BY ShadowProxyAssumption DEF Places, TypeOK
<1>1. CASE Working(i)
  BY <1>1, StaysWithWorker DEF Carried
<1>2. ASSUME NEW r \in Replicas, i \in Range(queue[r])
      PROVE  Carried(i)'
  <2>1. SUFFICES ASSUME queue'[r] # queue[r] PROVE Carried(i)'
    BY <1>2 DEF Carried
  <2>2. ASSUME NEW c \in Calls, CallTurn(c)
        PROVE  i \in Range(queue'[r])
    <3>1. /\ Responds(c) /\ call[c].pc = "respond"
          /\ queue' = [queue EXCEPT ![call[c].by] = Enqueued(Policy, @, IdOf[c])]
      BY <2>1, <2>2 DEF CallTurn, Enters, Hears, Archives, Records, FailsToRecord, Responds
    <3>2. queue'[r] = Enqueued(Policy, queue[r], IdOf[c])
      BY <1>0, <2>1, <3>1
    <3>3. Distinct(queue[r])
      BY DEF Once, OnePlace, OnePlaceAt
    <3> QED
      BY <1>0, <1>2, <3>2, <3>3, EnqueuedOnce, ShadowProxyAssumption DEF Unhurt
  <2>3. ASSUME NEW w \in Workers, WorkerTurn(w)
        PROVE  Carried(i)'
    <3>1. Takes(w) /\ Home[w] = r
      BY <1>0, <2>1, <2>3 DEF WorkerTurn, Takes, Abandons, Discards, Marks, Loads, Asks, GetsObject,
         PutsObject, GivesVerdict, Counts, RecordsError
    <3>2. /\ queue[r] # <<>> /\ queue'[r] = Tail(queue[r])
          /\ row[Head(queue[r])] # None =>
                 worker'[w].pc \notin {"get", "count"} /\ worker'[w].id = Head(queue[r])
      BY <1>0, <3>1 DEF Takes
    <3>3. Range(Tail(queue[r])) = Range(queue[r]) \ {Head(queue[r])}
      <4>1. Distinct(queue[r])
        BY DEF Once, OnePlace, OnePlaceAt
      <4> QED
        BY <1>0, <3>2, <4>1, TailFacts
    <3>4. CASE Head(queue[r]) = i
      BY <3>2, <3>4 DEF Carried, Working
    <3>5. CASE Head(queue[r]) # i
      BY <1>2, <3>2, <3>3, <3>5 DEF Carried
    <3> QED
      BY <3>4, <3>5
  <2>4. ASSUME NEW x \in Replicas, LifespanTurn(x) PROVE FALSE
    <3>1. x = r /\ phase[r] = "requeueing"
      BY <1>0, <2>1, <2>4 DEF LifespanTurn
    <3>2. queue[r] = <<>>
      BY <3>1 DEF Places, NotBefore, Started
    <3> QED
      BY <1>2, <3>2 DEF Range
  <2>5. ASSUME NEW x \in Replicas, EndTurn(x) PROVE FALSE
    <3>1. x = r /\ queue[r] = <<>>
      BY <1>0, <2>1, <2>5 DEF EndTurn
    <3> QED
      BY <1>2, <3>1 DEF Range
  <2>6. ~OtherTurn /\ \A x \in Replicas : ~SweepTurn(x)
    BY <2>1 DEF OtherTurn, SweepTurn
  <2> QED
    BY <2>2, <2>3, <2>4, <2>5, <2>6, Turns DEF Carried
<1> QED
  BY <1>1, <1>2 DEF Carried

LEMMA NextPledged ==
    ASSUME OnceInv, Unhurt, Pledged, [Next]_vars, UNCHANGED <<faults, crashes>>
    PROVE  Pledged'
<1>0. /\ Places /\ Once /\ DistinctIds /\ \A c \in Calls : IdOf[c] \in Ids
  BY ShadowProxyAssumption DEF OnceInv, Unhurt
<1>1. ASSUME NEW i \in Ids, row'[i] # None, row'[i].candidate = "in_progress"
      PROVE  Working(i)'
  <2>1. Unsettled(i)'
    BY <1>1 DEF Unsettled, Store!Unfinished
  <2>2. Working(i)
    <3>1. CASE row'[i] = row[i]
      BY <1>1, <3>1 DEF Pledged
    <3>2. CASE row'[i] # row[i]
      <4>1. PICK w \in Workers : worker[w].id = i /\ Marks(w)
        BY <1>0, <1>1, <3>2, RowWriters
           DEF Records, Recorded, GivesVerdict, Discards, RecordsError, Sweeps, Rewritten
      <4> QED
        BY <4>1 DEF Marks, Working
    <3> QED
      BY <3>1, <3>2
  <2> QED
    BY <1>0, <2>1, <2>2, StaysWithWorker
<1>2. ASSUME NEW c \in Calls
      PROVE  /\ call'[c].shadow # "no" => call'[c].pc = "answered"
             /\ \/ call'[c].shadow = call[c].shadow
                \/ call'[c].shadow = "enqueued" => IdOf[c] \in Range(queue'[call[c].by])
                                                   /\ call[c].by \in Replicas
  <2>1. CASE call'[c] = call[c]
    BY <2>1 DEF Pledged
  <2>2. CASE CallTurn(c)
    <3>1. CASE Responds(c)
      <4>1. ASSUME call'[c].shadow = "enqueued", call[c].shadow # "enqueued"
            PROVE  IdOf[c] \in Range(queue'[call[c].by]) /\ call[c].by \in Replicas
        <5> DEFINE r == call[c].by
        <5>1. /\ call[c].pc = "respond" /\ Accepts(Policy, queue[r])
              /\ queue' = [queue EXCEPT ![r] = Enqueued(Policy, @, IdOf[c])]
          BY <3>1, <4>1 DEF Responds
        <5>2. r \in Replicas
          BY <1>0, <5>1 DEF Places, Served, InFlight
        <5>3. queue[r] \in Seq(Ids) /\ Distinct(queue[r]) /\ r \in DOMAIN queue
          BY <1>0, <5>2 DEF Places, TypeOK, Once, OnePlace, OnePlaceAt
        <5> HIDE DEF r
        <5>4. IdOf[c] \in Range(Enqueued(Policy, queue[r], IdOf[c]))
          BY <1>0, <5>1, <5>3, EnqueuedOnce, ShadowProxyAssumption
        <5>5. queue'[r] = Enqueued(Policy, queue[r], IdOf[c])
          BY <5>1, <5>3
        <5> QED
          BY <5>2, <5>4, <5>5 DEF r
      <4>2. call'[c].pc = "refused" => call'[c].shadow = call[c].shadow
        BY <3>1 DEF Responds
      <4>3. call[c].shadow = "no" /\ call'[c].pc \in {"answered", "refused"}
        BY <3>1 DEF Responds, Pledged
      <4> QED
        BY <4>1, <4>2, <4>3
    <3>2. CASE ~Responds(c)
      <4>1. call'[c].shadow = call[c].shadow /\ call[c].pc # "answered"
        BY <2>2, <3>2 DEF CallTurn, Enters, Hears, Archives, Records, FailsToRecord
      <4> QED
        BY <4>1 DEF Pledged
    <3> QED
      BY <3>1, <3>2
  <2>3. ASSUME NEW r \in Replicas, EndTurn(r), call'[c] # call[c]
        PROVE  FALSE
    <3>1. crashes \in Nat
      BY <1>0 DEF Places, TypeOK
    <3> QED
      BY <2>3, <3>1 DEF EndTurn
  <2>4. ASSUME NEW d \in Calls, CallTurn(d), d # c
        PROVE  call'[c] = call[c]
    BY <2>4 DEF CallTurn, OthersWait
  <2>5. CASE \/ \E w \in Workers : WorkerTurn(w)
             \/ \E r \in Replicas : SweepTurn(r) \/ LifespanTurn(r)
             \/ OtherTurn
    BY <2>5, <2>1 DEF WorkerTurn, SweepTurn, LifespanTurn, OtherTurn
  <2> QED
    BY <1>0, <2>1, <2>2, <2>3, <2>4, <2>5, Turns
<1>3. ASSUME NEW c \in Calls, call'[c].shadow = "enqueued", Unsettled(IdOf[c])'
      PROVE  Carried(IdOf[c])'
  <2> DEFINE i == IdOf[c]
  <2>1. CASE call[c].shadow # "enqueued"
    BY <1>2, <1>3, <2>1 DEF Carried
  <2>2. CASE call[c].shadow = "enqueued"
    <3>1. CASE row[i] # None /\ Carried(i)
      BY <1>0, <1>3, <3>1, StaysCarried
    <3>2. CASE ~(row[i] # None /\ Carried(i))
      <4>1. call[c].pc = "answered"
        BY <2>2 DEF Pledged
      <4>2. row'[i] # row[i]
        BY <1>3, <2>2, <3>2 DEF Pledged, Unsettled
      <4>3. \A d \in Calls : ~(Records(d) /\ IdOf[d] = i)
        BY <1>0, <4>1 DEF Records, DistinctIds
      <4>4. PICK w \in Workers : worker[w].id = i /\ Marks(w)
        BY <1>0, <1>3, <4>2, <4>3, RowWriters
           DEF GivesVerdict, Discards, RecordsError, Sweeps, Rewritten, Unsettled, Store!Unfinished
      <4>5. row[i] # None /\ Carried(i)
        BY <4>4 DEF Marks, Carried, Working
      <4> QED
        BY <3>2, <4>5
    <3> QED
      BY <3>1, <3>2
  <2> QED
    BY <2>1, <2>2
<1> QED
  BY <1>1, <1>2, <1>3 DEF Pledged

LEMMA PledgeInvariant == Spec => []PledgeInv
<1>1. Init => PledgeInv
  <2>1. Init => Pledged
    BY DEF Init, NewCall, Pledged
  <2> QED
    BY <2>1, InitOnce, InitAcked DEF PledgeInv
<1>2. PledgeInv /\ [Next]_vars => PledgeInv'
  <2> SUFFICES ASSUME PledgeInv, [Next]_vars PROVE PledgeInv'
    OBVIOUS
  <2>1. OnceInv /\ OnceInv' /\ Acked'
    BY NextOnce, NextAcked DEF PledgeInv
  <2>2. ASSUME Unhurt' PROVE Pledged'
    <3>1. Unhurt /\ UNCHANGED <<faults, crashes>>
      BY <2>1, <2>2, Unharmed DEF OnceInv
    <3> QED
      BY <2>1, <3>1, NextPledged DEF PledgeInv
  <2> QED
    BY <2>1, <2>2 DEF PledgeInv
<1> QED
  BY <1>1, <1>2, PTL DEF Spec

(* A graceful stop leaves nothing half done: once every process is down,   *)
(* no row is in progress and every request that was acknowledged as        *)
(* enqueued has a row with a final status, for any number of replicas that *)
(* stop and boot in any order.                                             *)
THEOREM StopsAreClean == Spec => []CleanShutdown
<1>1. PledgeInv => CleanShutdown
  <2> SUFFICES ASSUME PledgeInv, Unhurt, \A r \in Replicas : phase[r] = "down"
               PROVE  /\ \A i \in Rows : row[i].candidate # "in_progress"
                      /\ \A c \in Calls :
                             call[c].shadow = "enqueued" => ~Store!Unfinished(row[IdOf[c]])
    BY DEF CleanShutdown, Unhurt
  <2>1. Places /\ Pledged /\ Acked
    BY DEF PledgeInv, OnceInv
  <2>2. \A i : ~Carried(i) /\ ~Working(i)
    <3>1. \A r \in Replicas : queue[r] = <<>>
      BY <2>1 DEF Places, NotBefore, Started
    <3>2. \A w \in Workers : worker[w].pc = "get"
      BY <2>1, ShadowProxyAssumption DEF Places, NotBefore, Started
    <3> QED
      BY <3>1, <3>2 DEF Carried, Working, Range
  <2>3. \A i \in Rows : row[i].candidate # "in_progress"
    BY <2>1, <2>2 DEF Rows, Pledged
  <2>4. ASSUME NEW c \in Calls, call[c].shadow = "enqueued"
        PROVE  ~Store!Unfinished(row[IdOf[c]])
    <3>1. row[IdOf[c]] # None
      BY <2>1, <2>4 DEF Pledged, Acked, Durable, Unhurt, HasItsRow
    <3> QED
      BY <2>1, <2>2, <2>4, <3>1 DEF Pledged, Unsettled
  <2> QED
    BY <2>3, <2>4
<1> QED
  BY PledgeInvariant, <1>1, PTL

-----------------------------------------------------------------------------
(* Part 3.                                                                 *)
(* The refinement of RowLifecycle.  Its InsertRow wants a received_at that *)
(* no other row has and that is below the number of calls, its MarkRow     *)
(* that the row was attempted fewer times than processes were started.     *)
BoundedWorld == DistinctIds /\ IsFiniteSet(Calls) /\ IsFiniteSet(Replicas)

Begun == {c \in Calls : call[c].pc # "new"}

Stamps ==
    /\ received <= Cardinality(Begun)
    /\ \A c \in Begun : call[c].at < received
    /\ \A c, d \in Begun : call[c].at = call[d].at => c = d
    /\ \A i \in Ids : row[i] # None =>
           \E c \in Calls : /\ IdOf[c] = i /\ call[c].pc \notin BeforeInsert
                            /\ row[i].receivedAt = call[c].at

(* The k-th run of a replica's process, for every k up to now; the ones in *)
(* which request i can no longer be marked.                                *)
Runs == {p \in Replicas \X (Nat \ {0}) : p[2] <= boots[p[1]]}

MarkableAt(r, i) ==
    \/ phase[r] = "booting"
    \/ i \in Range(queue[r]) \cup Range(backlog[r])
    \/ \E w \in Workers : Home[w] = r /\ worker[w].pc = "mark" /\ worker[w].id = i
    \/ \E c \in Calls : call[c].pc = "respond" /\ call[c].by = r /\ IdOf[c] = i

Spent(i) == {p \in Runs : p[2] = boots[p[1]] => ~MarkableAt(p[1], i)}

Away == {r \in Replicas : phase[r] \in {"down", "stopping"}}

Lives ==
    /\ crashes <= MaxCrashes /\ stops <= MaxStops
    /\ \A r \in Replicas : phase[r] # "down" => boots[r] > 0
    /\ IsFiniteSet(Runs)
    /\ Cardinality(Runs) + Cardinality(Away) <= Cardinality(Replicas) + crashes + stops

Budgeted == \A i \in Ids : row[i] # None => row[i].attempts <= Cardinality(Spent(i))

TallyInv == OnceInv /\ Stamps /\ Lives /\ Budgeted

LEMMA ClockTurn ==
    ASSUME Places, [Next]_vars
    PROVE  \/ \E c \in Calls :
                 /\ call[c].pc = "new" /\ call'[c].pc = "primary"
                 /\ call'[c].at = received /\ received' = received + 1
                 /\ OthersWait(c) /\ UNCHANGED row
           \/ /\ received' = received
              /\ \A c \in Calls : /\ call'[c].at = call[c].at
                                  /\ call'[c].pc = "new" <=> call[c].pc = "new"
<1>1. ASSUME NEW c \in Calls, NEW r \in Replicas, Receive(c, r)
      PROVE  /\ call[c].pc = "new" /\ call'[c].pc = "primary"
             /\ call'[c].at = received /\ received' = received + 1
             /\ OthersWait(c) /\ UNCHANGED row
  <2> DEFINE s == [call[c] EXCEPT !.pc = "primary", !.by = r, !.at = received]
  <2>1. s.pc = "primary" /\ s.at = received
    BY OneCall DEF Call
  <2>2. /\ call' = [call EXCEPT ![c] = s] /\ call[c].pc = "new"
        /\ received' = received + 1 /\ UNCHANGED row
    BY <1>1 DEF Receive
  <2> HIDE DEF s
  <2> QED
    BY <2>1, <2>2 DEF OthersWait, Places, TypeOK
<1>2. ASSUME NEW c \in Calls, ServeCall(c)
      PROVE  /\ received' = received
             /\ \A d \in Calls : /\ call'[d].at = call[d].at
                                 /\ call'[d].pc = "new" <=> call[d].pc = "new"
  <2>1. received' = received /\ call[c].pc # "new"
    BY <1>2 DEF ServeCall, PrimaryReturns, PrimaryBreaks, Archive, ArchiveFails, Insert,
       InsertFails, Refuse, SampleIn, SampleOut, CallUnchanged, clockVars
  <2>2. CallTurn(c)
    BY <1>2, ServeCallTurn
  <2>3. call'[c].at = call[c].at /\ call'[c].pc # "new" /\ OthersWait(c)
    BY <2>1, <2>2 DEF CallTurn, Enters, Hears, Archives, Records, FailsToRecord, Responds,
       SameAnswer
  <2> QED
    BY <2>1, <2>3 DEF OthersWait
<1>3. ASSUME NEW r \in Replicas, Crash(r)
      PROVE  /\ received' = received
             /\ \A d \in Calls : /\ call'[d].at = call[d].at
                                 /\ call'[d].pc = "new" <=> call[d].pc = "new"
  <2>1. received' = received
    BY <1>3 DEF Crash, ForgetMemory, clockVars
  <2>2. \A d \in Calls : \/ call'[d] = call[d]
                         \/ InFlight(d) /\ call'[d].pc = "lost" /\ call'[d].at = call[d].at
    <3>1. EndTurn(r)
      BY <1>3, EndTurns
    <3> QED
      BY <3>1 DEF EndTurn, CallsAt, SameAnswer
  <2> QED
    BY <2>1, <2>2 DEF InFlight
<1>4. ASSUME NEW w \in Workers, Handle(w) PROVE UNCHANGED <<received, call>>
  BY <1>4 DEF Handle, Take, HandlerFails, Discard, Mark, Load, CandidateAnswers, CandidateFails,
     FinalizeError, MergeGet, MergePut, FinalizeOk, CountVerdict, WorkerUnchanged, clockVars
<1>5. ASSUME NEW r \in Replicas,
             \/ Sweep(r) \/ Boot(r) \/ RequeueFind(r) \/ RequeueAll(r) \/ Shutdown(r)
             \/ ShutdownDone(r) \/ \E value \in Rates : PutConfig(r, value)
      PROVE  UNCHANGED <<received, call>>
  BY <1>5 DEF Sweep, SweepFind, SweepOne, SweepFails, SweepUnchanged, Boot, RequeueFind,
     RequeueAll, Shutdown, ShutdownDone, ForgetMemory, LifespanUnchanged, PutConfig, clockVars
<1>6. CASE TimePasses \/ Midnight \/ UNCHANGED vars
  BY <1>6 DEF TimePasses, Midnight, vars, clockVars
<1> QED
  BY <1>1, <1>2, <1>3, <1>4, <1>5, <1>6 DEF Next, Quiescent

LEMMA NextStamps ==
    ASSUME OnceInv, BoundedWorld, Stamps, [Next]_vars
    PROVE  Stamps'
<1>0. /\ Places /\ Once /\ DistinctIds /\ received \in Nat /\ IsFiniteSet(Begun)
      /\ \A c \in Calls : IdOf[c] \in Ids /\ call[c].at \in Nat
  <2>1. Places /\ Once /\ DistinctIds /\ received \in Nat
    BY DEF OnceInv, BoundedWorld, Places, TypeOK
  <2>2. \A c \in Calls : IdOf[c] \in Ids /\ call[c].at \in Nat
    BY <2>1, OneCall DEF Call
  <2>3. IsFiniteSet(Begun)
    BY FS_Subset DEF Begun, BoundedWorld
  <2> QED
    BY <2>1, <2>2, <2>3
<1>1. ASSUME NEW i \in Ids, row'[i] # None,
             \A c \in Calls : call[c].pc \notin BeforeInsert =>
                 call'[c].at = call[c].at /\ call'[c].pc \notin BeforeInsert
      PROVE  \E c \in Calls : /\ IdOf[c] = i /\ call'[c].pc \notin BeforeInsert
                              /\ row'[i].receivedAt = call'[c].at
  <2>1. CASE row[i] # None
    <3>1. row'[i].receivedAt = row[i].receivedAt
      BY <1>0, <2>1, TurnKeepsTable DEF TableKept, SameIngest
    <3> QED
      BY <1>1, <2>1, <3>1 DEF Stamps
  <2>2. CASE row[i] = None
    <3>1. PICK c \in Calls : Records(c) /\ IdOf[c] = i
      BY <1>0, <1>1, <2>2, RowWriters
         DEF Marks, GivesVerdict, Discards, RecordsError, Sweeps, Rewritten
    <3> QED
      BY <3>1 DEF Records, Recorded, SameAnswer, BeforeInsert
  <2> QED
    BY <2>1, <2>2
<1>2. ASSUME NEW c \in Calls, call[c].pc \notin BeforeInsert
      PROVE  call'[c].pc \notin BeforeInsert
  <2>1. CASE call'[c] = call[c]
    BY <1>2, <2>1
  <2>2. CASE CallTurn(c)
    BY <1>2, <2>2 DEF CallTurn, Enters, Hears, Archives, Records, FailsToRecord, Responds,
       BeforeInsert
  <2>3. CASE call'[c].pc = "lost"
    BY <2>3 DEF BeforeInsert
  <2>4. \/ call'[c] = call[c] \/ CallTurn(c) \/ call'[c].pc = "lost"
    <3>1. CASE \E d \in Calls : CallTurn(d)
      BY <3>1 DEF CallTurn, OthersWait
    <3>2. CASE \E r \in Replicas : EndTurn(r)
      BY <3>2 DEF EndTurn
    <3>3. CASE \/ \E w \in Workers : WorkerTurn(w)
               \/ \E r \in Replicas : SweepTurn(r) \/ LifespanTurn(r)
               \/ OtherTurn
      BY <3>3 DEF WorkerTurn, SweepTurn, LifespanTurn, OtherTurn
    <3> QED
      BY <1>0, <3>1, <3>2, <3>3, Turns
  <2> QED
    BY <2>1, <2>2, <2>3, <2>4
<1>3. ASSUME NEW c \in Calls, call[c].pc = "new", call'[c].pc = "primary",
             call'[c].at = received, received' = received + 1, OthersWait(c), UNCHANGED row
      PROVE  Stamps'
  <2>1. Begun' = Begun \cup {c} /\ c \notin Begun
    BY <1>3 DEF Begun, OthersWait
  <2>2. Cardinality(Begun') = Cardinality(Begun) + 1
    BY <1>0, <2>1, FS_AddElement
  <2>3. Cardinality(Begun) \in Nat
    BY <1>0, FS_CardinalityType
  <2>4. \A d \in Begun : call'[d] = call[d]
    BY <1>3, <2>1 DEF OthersWait, Begun
  <2>5. \A d \in Begun : call[d].at < received /\ call[d].at \in Nat
    BY <1>0 DEF Stamps, Begun
  <2>6. /\ received' <= Cardinality(Begun')
        /\ \A d \in Begun' : call'[d].at < received'
    BY <1>0, <1>3, <2>1, <2>2, <2>3, <2>4, <2>5 DEF Stamps
  <2>7. \A d, e \in Begun' : call'[d].at = call'[e].at => d = e
    BY <1>0, <1>3, <2>1, <2>4, <2>5 DEF Stamps
  <2>8. \A d \in Calls : call[d].pc \notin BeforeInsert => call'[d].at = call[d].at
    BY <1>3 DEF OthersWait, BeforeInsert
  <2> QED
    BY <1>1, <1>2, <2>6, <2>7, <2>8 DEF Stamps
<1>4. CASE /\ received' = received
           /\ \A c \in Calls : /\ call'[c].at = call[c].at
                               /\ call'[c].pc = "new" <=> call[c].pc = "new"
  <2>1. Begun' = Begun
    BY <1>4 DEF Begun
  <2>2. \A d \in Begun : call'[d].at = call[d].at
    BY <1>4 DEF Begun
  <2> QED
    BY <1>1, <1>2, <1>4, <2>1, <2>2 DEF Stamps
<1> QED
  BY <1>0, <1>3, <1>4, ClockTurn

(* How processes start and end.                                            *)
BootTurn(r) ==
    /\ phase[r] = "down" /\ phase' = [phase EXCEPT ![r] = "booting"]
    /\ boots' = [boots EXCEPT ![r] = @ + 1] /\ UNCHANGED <<crashes, stops>>

ReadyTurn(r) ==
    /\ phase[r] \in {"booting", "requeueing"}
    /\ \E p \in {"requeueing", "serving"} : phase' = [phase EXCEPT ![r] = p]
    /\ UNCHANGED <<boots, crashes, stops>>

StopTurn(r) ==
    /\ phase[r] = "serving" /\ phase' = [phase EXCEPT ![r] = "stopping"]
    /\ stops < MaxStops /\ stops' = stops + 1 /\ UNCHANGED <<boots, crashes>>

DownTurn(r) ==
    /\ phase[r] # "down" /\ phase' = [phase EXCEPT ![r] = "down"]
    /\ UNCHANGED <<boots, stops>>
    /\ \/ phase[r] = "stopping" /\ UNCHANGED crashes
       \/ crashes < MaxCrashes /\ crashes' = crashes + 1

LEMMA PhaseTurn ==
    ASSUME [Next]_vars
    PROVE  \/ UNCHANGED <<phase, boots, crashes, stops>>
           \/ \E r \in Replicas : BootTurn(r) \/ ReadyTurn(r) \/ StopTurn(r) \/ DownTurn(r)
<1>1. ASSUME NEW c \in Calls, ServeCall(c) \/ \E r \in Replicas : Receive(c, r)
      PROVE  UNCHANGED <<phase, boots, crashes, stops>>
  BY <1>1 DEF Receive, ServeCall, PrimaryReturns, PrimaryBreaks, Archive, ArchiveFails, Insert,
     InsertFails, Refuse, SampleIn, SampleOut, CallUnchanged, replicaVars, budgetVars, Fault
<1>2. ASSUME NEW w \in Workers, Handle(w)
      PROVE  UNCHANGED <<phase, boots, crashes, stops>>
  BY <1>2 DEF Handle, Take, HandlerFails, Discard, Mark, Load, CandidateAnswers, CandidateFails,
     FinalizeError, MergeGet, MergePut, FinalizeOk, CountVerdict, WorkerUnchanged, budgetVars, Fault
<1>3. ASSUME NEW r \in Replicas, Sweep(r) \/ \E value \in Rates : PutConfig(r, value)
      PROVE  UNCHANGED <<phase, boots, crashes, stops>>
  BY <1>3 DEF Sweep, SweepFind, SweepOne, SweepFails, SweepUnchanged, PutConfig, budgetVars, Fault
<1>4. ASSUME NEW r \in Replicas, Boot(r) PROVE BootTurn(r)
  BY <1>4 DEF Boot, BootTurn, budgetVars
<1>5. ASSUME NEW r \in Replicas, RequeueFind(r) \/ RequeueAll(r) PROVE ReadyTurn(r)
  BY <1>5 DEF RequeueFind, RequeueAll, ReadyTurn, budgetVars
<1>6. ASSUME NEW r \in Replicas, Shutdown(r) PROVE StopTurn(r)
  BY <1>6 DEF Shutdown, StopTurn
<1>7. ASSUME NEW r \in Replicas, ShutdownDone(r) \/ Crash(r) PROVE DownTurn(r)
  BY <1>7 DEF ShutdownDone, Crash, ForgetMemory, DownTurn, budgetVars
<1>8. CASE TimePasses \/ Midnight \/ UNCHANGED vars
  BY <1>8 DEF TimePasses, Midnight, vars, replicaVars, budgetVars
<1> QED
  BY <1>1, <1>2, <1>3, <1>4, <1>5, <1>6, <1>7, <1>8 DEF Next, Quiescent

(* A request becomes markable at a replica again only by its next boot.    *)
LEMMA BecomesMarkable ==
    ASSUME Places, DistinctIds, Once, [Next]_vars, NEW i \in Ids, row[i] # None,
           NEW r \in Replicas, boots'[r] = boots[r], MarkableAt(r, i)'
    PROVE  MarkableAt(r, i)
<1>0. /\ queue \in [Replicas -> Seq(Ids)] /\ backlog \in [Replicas -> Seq(Ids)]
      /\ \A c \in Calls : IdOf[c] \in Ids
  BY ShadowProxyAssumption DEF Places, TypeOK
<1>1. phase'[r] = "booting" => phase[r] = "booting"
  <2>1. phase \in [Replicas -> Phases] /\ boots \in [Replicas -> Nat]
    BY DEF Places, TypeOK
  <2> QED
    BY <2>1, PhaseTurn DEF BootTurn, ReadyTurn, StopTurn, DownTurn
<1>2. ASSUME NEW c \in Calls, CallTurn(c), phase'[r] # "booting"
      PROVE  MarkableAt(r, i)
  <2>1. UNCHANGED <<backlog, worker>> /\ OthersWait(c)
    BY <1>2 DEF CallTurn
  <2>2. CASE Responds(c)
    <3> DEFINE q == Enqueued(Policy, queue[call[c].by], IdOf[c])
    <3>1. /\ call[c].pc = "respond" /\ call'[c].pc # "respond"
          /\ UNCHANGED queue \/ queue' = [queue EXCEPT ![call[c].by] = q]
      BY <2>2 DEF Responds
    <3>2. call[c].by \in Replicas
      BY <3>1 DEF Places, Served, InFlight
    <3>3. Range(q) \subseteq Range(queue[call[c].by]) \cup {IdOf[c]}
      <4>1. /\ Distinct(queue[call[c].by]) /\ IdOf[c] \notin Range(queue[call[c].by])
        BY <3>1, <3>2 DEF Once, OnePlace, OnePlaceAt, Ungated
      <4> QED
        BY <1>0, <3>2, <4>1, EnqueuedOnce, ShadowProxyAssumption
    <3> HIDE DEF q
    <3>4. \/ queue'[r] = queue[r]
          \/ call[c].by = r /\ Range(queue'[r]) \subseteq Range(queue[r]) \cup {IdOf[c]}
      BY <1>0, <3>1, <3>2, <3>3
    <3> QED
      BY <1>2, <2>1, <3>1, <3>4 DEF MarkableAt, OthersWait
  <2>3. CASE ~Responds(c)
    <3>1. UNCHANGED queue /\ (call'[c].pc = "respond" => call[c].pc \in BeforeInsert)
      BY <1>2, <2>3
         DEF CallTurn, Enters, Hears, Archives, Records, FailsToRecord, BeforeInsert
    <3>2. call'[c].pc = "respond" => IdOf[c] # i
      BY <3>1 DEF Once, Unrecorded
    <3> QED
      BY <1>2, <2>1, <3>1, <3>2 DEF MarkableAt, OthersWait
  <2> QED
    BY <2>2, <2>3
<1>3. ASSUME NEW w \in Workers, WorkerTurn(w), phase'[r] # "booting"
      PROVE  MarkableAt(r, i)
  <2>1. UNCHANGED <<backlog, call>> /\ OthersWork(w) /\ Home[w] \in Replicas
    BY <1>3, ShadowProxyAssumption DEF WorkerTurn
  <2>2. CASE Takes(w)
    <3> DEFINE q == queue[Home[w]]
    <3>1. /\ q # <<>> /\ queue' = [queue EXCEPT ![Home[w]] = Tail(q)]
          /\ worker'[w].pc # "get" => worker'[w].id = Head(q)
      BY <2>2 DEF Takes
    <3>2. Head(q) \in Range(q) /\ Range(Tail(q)) \subseteq Range(q)
      <4>1. q \in Seq(Ids) /\ Distinct(q)
        BY <1>0, <2>1 DEF Once, OnePlace, OnePlaceAt
      <4> QED
        BY <3>1, <4>1, TailFacts
    <3> HIDE DEF q
    <3>3. queue'[r] = queue[r] \/ (r = Home[w] /\ queue'[r] = Tail(q))
      BY <1>0, <2>1, <3>1
    <3>4. q = queue[Home[w]]
      BY DEF q
    <3> QED
      BY <1>3, <2>1, <3>1, <3>2, <3>3, <3>4 DEF MarkableAt, OthersWork
  <2>3. CASE ~Takes(w)
    <3>1. UNCHANGED queue /\ worker'[w].pc # "mark"
      BY <1>3, <2>3 DEF WorkerTurn, Abandons, Discards, Marks, Loads, Asks, GetsObject, PutsObject,
         GivesVerdict, Counts, RecordsError
    <3> QED
      BY <1>3, <2>1, <3>1 DEF MarkableAt, OthersWork
  <2> QED
    BY <2>2, <2>3
<1>4. ASSUME NEW x \in Replicas, LifespanTurn(x), phase'[r] # "booting"
      PROVE  MarkableAt(r, i)
  <2>1. UNCHANGED <<call, worker>>
    BY <1>4 DEF LifespanTurn
  <2>2. CASE UNCHANGED <<backlog, queue>>
    BY <1>4, <2>1, <2>2 DEF MarkableAt
  <2>3. CASE /\ phase[x] = "booting" /\ UNCHANGED queue
             /\ \E s \in Seq(Ids) : backlog' = [backlog EXCEPT ![x] = s]
    <3>1. CASE x = r
      BY <2>3, <3>1 DEF MarkableAt
    <3>2. CASE x # r
      <4>1. backlog'[r] = backlog[r]
        BY <1>0, <2>3, <3>2
      <4> QED
        BY <1>4, <2>1, <2>3, <4>1 DEF MarkableAt
    <3> QED
      BY <3>1, <3>2
  <2>4. CASE /\ backlog' = [backlog EXCEPT ![x] = <<>>]
             /\ \E q \in Seq(Ids) : /\ Range(q) \subseteq Range(backlog[x])
                                    /\ queue' = [queue EXCEPT ![x] = q]
    <3>1. Range(queue'[r]) \subseteq Range(queue[r]) \cup Range(backlog[r])
      BY <1>0, <2>4
    <3>2. Range(backlog'[r]) \subseteq Range(backlog[r])
      BY <1>0, <2>4 DEF Range
    <3> QED
      BY <1>4, <2>1, <3>1, <3>2 DEF MarkableAt
  <2> QED
    BY <1>4, <2>2, <2>3, <2>4 DEF LifespanTurn
<1>5. ASSUME NEW x \in Replicas, EndTurn(x), phase'[r] # "booting"
      PROVE  MarkableAt(r, i)
  <2>1. Range(<<>>) = {}
    BY DEF Range
  <2>2. /\ queue'[r] = queue[r] \/ queue'[r] = <<>>
        /\ backlog'[r] = backlog[r] \/ backlog'[r] = <<>>
    BY <1>0, <1>5 DEF EndTurn
  <2>3. \A w \in Workers : worker'[w].pc = "mark" => worker'[w] = worker[w]
    BY <1>5, IdleWorker DEF EndTurn
  <2>4. \A c \in Calls : call'[c].pc = "respond" => call'[c] = call[c]
    BY <1>5 DEF EndTurn
  <2> QED
    BY <1>5, <2>1, <2>2, <2>3, <2>4 DEF MarkableAt
<1>6. CASE phase'[r] # "booting" /\ (OtherTurn \/ \E x \in Replicas : SweepTurn(x))
  BY <1>6 DEF OtherTurn, SweepTurn, MarkableAt
<1>7. CASE phase'[r] = "booting"
  BY <1>1, <1>7 DEF MarkableAt
<1> QED
  BY <1>2, <1>3, <1>4, <1>5, <1>6, <1>7, Turns

LEMMA NextLives ==
    ASSUME Places, BoundedWorld, Lives, [Next]_vars
    PROVE  Lives'
<1>0. /\ phase \in [Replicas -> Phases] /\ boots \in [Replicas -> Nat]
      /\ crashes \in Nat /\ stops \in Nat /\ MaxCrashes \in Nat /\ MaxStops \in Nat
      /\ IsFiniteSet(Runs) /\ IsFiniteSet(Away)
  <2>1. IsFiniteSet(Away)
    BY FS_Subset DEF Away, BoundedWorld
  <2> QED
    BY <2>1, ShadowProxyAssumption DEF Places, TypeOK, Lives
<1>1. /\ Cardinality(Runs) \in Nat /\ Cardinality(Away) \in Nat
      /\ Cardinality(Replicas) \in Nat
  BY <1>0, FS_CardinalityType DEF BoundedWorld
<1>2. ASSUME boots' = boots, Away' = Away, crashes <= crashes', crashes' <= MaxCrashes,
             crashes' \in Nat, stops' = stops,
             \A r \in Replicas : phase'[r] # "down" => phase[r] # "down"
      PROVE  Lives'
  <2>1. Runs' = Runs
    BY <1>2 DEF Runs
  <2> QED
    BY <1>0, <1>1, <1>2, <2>1 DEF Lives
<1>3. CASE UNCHANGED <<phase, boots, crashes, stops>>
  BY <1>0, <1>2, <1>3 DEF Away, Lives
<1>4. ASSUME NEW r \in Replicas, BootTurn(r)
      PROVE  Lives'
  <2> DEFINE p == <<r, boots[r] + 1>>
  <2>1. /\ \A x \in Replicas : phase'[x] = IF x = r THEN "booting" ELSE phase[x]
        /\ \A x \in Replicas : boots'[x] = IF x = r THEN boots[r] + 1 ELSE boots[x]
        /\ phase[r] = "down" /\ UNCHANGED <<crashes, stops>>
    BY <1>0, <1>4 DEF BootTurn
  <2>2. Runs' = Runs \cup {p} /\ p \notin Runs
    <3>1. p \notin Runs
      BY <1>0 DEF Runs
    <3>2. ASSUME NEW q \in Replicas \X (Nat \ {0})
          PROVE  q \in Runs' <=> q \in Runs \cup {p}
      BY <1>0, <2>1 DEF Runs
    <3>3. p \in Replicas \X (Nat \ {0})
      BY <1>0
    <3> HIDE DEF p
    <3> QED
      BY <3>1, <3>2, <3>3 DEF Runs
  <2>3. Away' = Away \ {r} /\ r \in Away
    BY <2>1 DEF Away
  <2>4. IsFiniteSet(Runs') /\ Cardinality(Runs') = Cardinality(Runs) + 1
    BY <1>0, <2>2, FS_AddElement
  <2>5. Cardinality(Away') = Cardinality(Away) - 1
    BY <1>0, <2>3, FS_RemoveElement
  <2>6. \A x \in Replicas : phase'[x] # "down" => boots'[x] > 0
    BY <1>0, <2>1 DEF Lives
  <2> QED
    BY <1>0, <1>1, <2>1, <2>4, <2>5, <2>6 DEF Lives
<1>5. ASSUME NEW r \in Replicas, ReadyTurn(r)
      PROVE  Lives'
  <2>1. /\ \A x \in Replicas : x # r => phase'[x] = phase[x]
        /\ phase[r] \in {"booting", "requeueing"} /\ phase'[r] \in {"requeueing", "serving"}
        /\ UNCHANGED <<boots, crashes, stops>>
    BY <1>0, <1>5 DEF ReadyTurn
  <2>2. Away' = Away
    BY <2>1 DEF Away
  <2> QED
    BY <1>0, <1>2, <2>1, <2>2 DEF Lives
<1>6. ASSUME NEW r \in Replicas, StopTurn(r)
      PROVE  Lives'
  <2>1. /\ \A x \in Replicas : phase'[x] = IF x = r THEN "stopping" ELSE phase[x]
        /\ phase[r] = "serving" /\ stops' = stops + 1 /\ stops < MaxStops
        /\ UNCHANGED <<boots, crashes>>
    BY <1>0, <1>6 DEF StopTurn
  <2>2. Away' = Away \cup {r} /\ r \notin Away /\ Runs' = Runs
    BY <2>1 DEF Away, Runs
  <2>3. Cardinality(Away') = Cardinality(Away) + 1
    BY <1>0, <2>2, FS_AddElement
  <2>4. \A x \in Replicas : phase'[x] # "down" => boots'[x] > 0
    BY <1>0, <2>1 DEF Lives
  <2> QED
    BY <1>0, <1>1, <2>1, <2>2, <2>3, <2>4 DEF Lives
<1>7. ASSUME NEW r \in Replicas, DownTurn(r)
      PROVE  Lives'
  <2>1. /\ \A x \in Replicas : phase'[x] = IF x = r THEN "down" ELSE phase[x]
        /\ UNCHANGED <<boots, stops>>
        /\ \/ phase[r] = "stopping" /\ crashes' = crashes
           \/ crashes < MaxCrashes /\ crashes' = crashes + 1
    BY <1>0, <1>7 DEF DownTurn
  <2>2. CASE r \in Away
    <3>1. Away' = Away
      BY <2>1, <2>2 DEF Away
    <3> QED
      BY <1>0, <1>2, <2>1, <3>1 DEF Lives
  <2>3. CASE r \notin Away
    <3>1. Away' = Away \cup {r} /\ Runs' = Runs
      BY <2>1 DEF Away, Runs
    <3>2. Cardinality(Away') = Cardinality(Away) + 1
      BY <1>0, <2>3, <3>1, FS_AddElement
    <3>3. crashes < MaxCrashes /\ crashes' = crashes + 1
      BY <2>1, <2>3 DEF Away
    <3>4. \A x \in Replicas : phase'[x] # "down" => boots'[x] > 0
      BY <1>0, <2>1 DEF Lives
    <3> QED
      BY <1>0, <1>1, <2>1, <3>1, <3>2, <3>3, <3>4 DEF Lives
  <2> QED
    BY <2>2, <2>3
<1> QED
  BY <1>3, <1>4, <1>5, <1>6, <1>7, PhaseTurn

LEMMA SpentStays ==
    ASSUME Places, DistinctIds, Once, [Next]_vars, NEW i \in Ids, row[i] # None
    PROVE  Spent(i) \subseteq Spent(i)'
<1> SUFFICES ASSUME NEW p \in Spent(i)
             PROVE  p \in Spent(i)'
  OBVIOUS
<1>1. /\ p[1] \in Replicas /\ p[2] \in Nat \ {0} /\ p \in Replicas \X (Nat \ {0})
      /\ p[2] <= boots[p[1]]
      /\ p[2] = boots[p[1]] => ~MarkableAt(p[1], i)
  BY DEF Spent, Runs
<1>2. boots[p[1]] \in Nat
  BY <1>1 DEF Places, TypeOK
<1>3. boots'[p[1]] = boots[p[1]] \/ boots'[p[1]] = boots[p[1]] + 1
  BY <1>1, PhaseTurn DEF BootTurn, ReadyTurn, StopTurn, DownTurn, Places, TypeOK
<1>4. p \in Runs'
  BY <1>1, <1>2, <1>3 DEF Runs
<1>5. ASSUME p[2] = boots'[p[1]]
      PROVE  ~MarkableAt(p[1], i)'
  <2>1. boots'[p[1]] = boots[p[1]]
    BY <1>1, <1>2, <1>3, <1>5
  <2> QED
    BY <1>1, <1>5, <2>1, BecomesMarkable
<1> DEFINE r == p[1]
<1>6. p[2] = boots'[r] => ~MarkableAt(r, i)'
  BY <1>5
<1> QED
  BY <1>4, <1>6 DEF Spent

(* mark_in_progress() of row i at w spends the run that w belongs to.      *)
LEMMA MarkSpends ==
    ASSUME Places, DistinctIds, Once, Lives, [Next]_vars,
           NEW w \in Workers, WorkerTurn(w), Marks(w),
           NEW i, i = worker[w].id, NEW r, r = Home[w], NEW p, p = <<r, boots[r]>>
    PROVE  p \in Runs /\ p \notin Spent(i) /\ p \in Spent(i)'
<1>0. /\ r \in Replicas /\ i \in Ids /\ row[i] # None /\ boots[r] \in Nat
      /\ worker[w].pc = "mark" /\ worker'[w].pc = "load"
      /\ UNCHANGED <<queue, backlog, phase, call>> /\ OthersWork(w)
  BY ShadowProxyAssumption DEF Places, Handling, InHand, Marks, WorkerTurn, TypeOK
<1>1. phase[r] \in {"serving", "stopping"} /\ Range(backlog[r]) = {}
  BY <1>0 DEF Places, NotBefore, Started, Range
<1>2. p \in Runs /\ p[1] = r /\ p[2] = boots[r]
  BY <1>0, <1>1 DEF Lives, Runs
<1>3. MarkableAt(r, i)
  BY <1>0 DEF MarkableAt
<1>4. boots' = boots
  BY <1>0, PhaseTurn DEF BootTurn, ReadyTurn, StopTurn, DownTurn, Places, TypeOK
<1>5. ~MarkableAt(r, i)'
  <2>1. phase'[r] # "booting"
    BY <1>0, <1>1
  <2>2. i \notin Range(queue'[r]) \cup Range(backlog'[r])
    BY <1>0, <1>1 DEF Once, OnePlace, OnePlaceAt, BusyAt
  <2>3. ~ \E v \in Workers : Home[v] = r /\ worker'[v].pc = "mark" /\ worker'[v].id = i
    BY <1>0 DEF Once, OnePlace, OnePlaceAt, BusyAt, OthersWork
  <2>4. ~ \E c \in Calls : call'[c].pc = "respond" /\ call'[c].by = r /\ IdOf[c] = i
    BY <1>0 DEF Once, Ungated, BusyAt
  <2> QED
    BY <2>1, <2>2, <2>3, <2>4 DEF MarkableAt
<1>6. p \in Runs'
  BY <1>2, <1>4 DEF Runs
<1>7. p \notin Spent(i)
  BY <1>2, <1>3 DEF Spent
<1>8. p[2] = boots'[p[1]] => ~MarkableAt(p[1], i)'
  BY <1>2, <1>5
<1> QED
  BY <1>2, <1>6, <1>7, <1>8 DEF Spent

LEMMA NextBudgeted ==
    ASSUME TallyInv, BoundedWorld, [Next]_vars
    PROVE  Budgeted'
<1>0. Places /\ Places' /\ DistinctIds /\ Once /\ Lives /\ Lives' /\ Budgeted
  BY NextLives, NextPlaces DEF TallyInv, OnceInv, BoundedWorld
<1>1. ASSUME NEW i \in Ids
      PROVE  /\ IsFiniteSet(Spent(i)) /\ Cardinality(Spent(i)) \in Nat
             /\ IsFiniteSet(Spent(i)') /\ Cardinality(Spent(i)') \in Nat
  <2>1. IsFiniteSet(Spent(i)) /\ IsFiniteSet(Spent(i)')
    BY <1>0, FS_Subset DEF Lives, Spent
  <2> QED
    BY <2>1, FS_CardinalityType
<1>2. ASSUME NEW i \in Ids, row'[i] # None
      PROVE  row'[i].attempts <= Cardinality(Spent(i)')
  <2>1. CASE row[i] = None
    <3>1. row'[i].attempts = 0
      BY <1>0, <1>2, <2>1, RowWriters DEF Records, Recorded, Marks, GivesVerdict, Discards,
         RecordsError, Sweeps, Rewritten
    <3> QED
      BY <1>1, <3>1
  <2>2. CASE row[i] # None
    <3>1. /\ Spent(i) \subseteq Spent(i)'
          /\ Cardinality(Spent(i)) <= Cardinality(Spent(i)')
      BY <1>0, <1>1, <2>2, SpentStays, FS_Subset
    <3>2. row[i].attempts <= Cardinality(Spent(i)) /\ row[i].attempts \in Nat
      BY <1>0, <2>2 DEF Budgeted, Places, TypeOK, Store!Row
    <3>3. CASE row'[i].attempts = row[i].attempts
      BY <1>1, <3>1, <3>2, <3>3
    <3>4. ASSUME NEW w \in Workers, WorkerTurn(w), Marks(w), worker[w].id = i
          PROVE  row'[i].attempts <= Cardinality(Spent(i)')
      <4>1. PICK r, p : r = Home[w] /\ p = <<r, boots[r]>>
        OBVIOUS
      <4>2. p \notin Spent(i) /\ p \in Spent(i)'
        BY <1>0, <3>4, <4>1, MarkSpends
      <4>3. Cardinality(Spent(i) \cup {p}) = Cardinality(Spent(i)) + 1
        BY <1>1, <4>2, FS_AddElement
      <4>4. Cardinality(Spent(i) \cup {p}) <= Cardinality(Spent(i)')
        BY <1>1, <3>1, <4>2, FS_Subset
      <4>5. row'[i].attempts = row[i].attempts + 1
        BY <3>4 DEF Marks
      <4> QED
        BY <1>1, <3>2, <4>3, <4>4, <4>5
    <3>5. \/ row'[i].attempts = row[i].attempts
          \/ \E w \in Workers : WorkerTurn(w) /\ Marks(w) /\ worker[w].id = i
      BY <1>0, <2>2, RowWriters DEF Records, GivesVerdict, Discards, RecordsError, Sweeps,
         Rewritten
    <3> QED
      BY <3>3, <3>4, <3>5
  <2> QED
    BY <2>1, <2>2
<1> QED
  BY <1>2 DEF Budgeted

LEMMA InitTally == BoundedWorld /\ Init => TallyInv
<1> SUFFICES ASSUME BoundedWorld, Init
             PROVE  TallyInv
  OBVIOUS
<1>1. \A c \in Calls : call[c].pc = "new"
  BY DEF Init, NewCall
<1>2. Stamps
  <2>1. Begun = {} /\ Cardinality(Begun) = 0 /\ received = 0
    BY <1>1, FS_EmptySet DEF Begun, Init
  <2> QED
    BY <2>1 DEF Stamps, Init
<1>3. Runs = {} /\ Away = Replicas
  BY DEF Runs, Away, Init
<1>4. Lives
  <2>1. IsFiniteSet(Runs) /\ Cardinality(Runs) = 0 /\ Cardinality(Replicas) \in Nat
    BY <1>3, FS_EmptySet, FS_CardinalityType DEF BoundedWorld
  <2>2. crashes = 0 /\ stops = 0 /\ \A r \in Replicas : phase[r] = "down"
    BY DEF Init
  <2> QED
    BY <1>3, <2>1, <2>2, ShadowProxyAssumption DEF Lives
<1>5. Budgeted
  BY DEF Budgeted, Init
<1> QED
  BY <1>2, <1>4, <1>5, InitOnce DEF TallyInv

LEMMA NextTally == BoundedWorld /\ TallyInv /\ [Next]_vars => TallyInv'
  BY NextOnce, NextStamps, NextLives, NextBudgeted DEF TallyInv, OnceInv

LEMMA TallyInvariant ==
    ASSUME BoundedWorld
    PROVE  Spec => []TallyInv
<1>1. Init => TallyInv
  BY InitTally
<1>2. TallyInv /\ [Next]_vars => TallyInv'
  BY NextTally
<1> QED
  BY <1>1, <1>2, PTL DEF Spec

(* The steps of ShadowProxy under the mapping of Lifecycle.                *)
Held(w) == IF worker[w].pc \in {"get", "discard", "mark", "count"} THEN None ELSE worker[w].id

LEMMA HeldByOne ==
    ASSUME NEW w \in Workers, OthersWork(w), NEW x, Held(w)' = x
    PROVE  [v \in Workers |-> Held(v)]' = [[v \in Workers |-> Held(v)] EXCEPT ![w] = x]
  BY DEF OthersWork, Held

LEMMA SameHeld ==
    ASSUME NEW w \in Workers, OthersWork(w), Held(w)' = Held(w), UNCHANGED <<row, sweep>>
    PROVE  UNCHANGED Lifecycle!rowVars
  BY DEF OthersWork, Held, Lifecycle!rowVars

LEMMA LetsGo ==
    ASSUME NEW hs \in SUBSET Workers, NEW ss \in SUBSET Replicas,
           sweep \in [Replicas -> SUBSET Ids], sweep' \in [Replicas -> SUBSET Ids], UNCHANGED row,
           \A w \in Workers : Held(w)' = IF w \in hs THEN None ELSE Held(w),
           \A r \in Replicas : sweep'[r] = IF r \in ss THEN {} ELSE sweep[r]
    PROVE  Lifecycle!GiveUp(hs, ss)
  BY DEF Lifecycle!GiveUp, Held

LEMMA InsertsRow ==
    ASSUME Places, BoundedWorld, Stamps, NEW c \in Calls, Insert(c)
    PROVE  Lifecycle!InsertRow(IdOf[c])
<1> DEFINE action == IF call[c].status = "ok" THEN ActionOf(call[c].text) ELSE None
           s == Store!PendingRow(call[c].status, action, call[c].key, call[c].at)
<1>1. /\ call[c].pc = "insert" /\ row[IdOf[c]] = None
      /\ row' = [row EXCEPT ![IdOf[c]] = s]
      /\ UNCHANGED <<worker, sweep>>
  BY DEF Insert, IdFree, CallUnchanged, replicaVars
<1>2. /\ call[c] \in Call /\ IdOf[c] \in Ids
  BY OneCall, ShadowProxyAssumption DEF Places, TypeOK
<1>3. call[c].at \in 0 .. Cardinality(Calls)
  <2>1. IsFiniteSet(Begun) /\ Cardinality(Begun) <= Cardinality(Calls)
    BY FS_Subset DEF Begun, BoundedWorld
  <2>2. c \in Begun /\ call[c].at \in Nat /\ received \in Nat
    BY <1>1, <1>2 DEF Begun, Call, Places, TypeOK
  <2>3. Cardinality(Begun) \in Nat /\ Cardinality(Calls) \in Nat
    BY <2>1, FS_CardinalityType DEF BoundedWorld
  <2>4. call[c].at < received /\ received <= Cardinality(Begun)
    BY <2>2 DEF Stamps
  <2> QED
    BY <2>1, <2>2, <2>3, <2>4
<1>4. ASSUME NEW j \in Ids, row[j] # None
      PROVE  row[j].receivedAt # call[c].at
  <2>1. PICK d \in Calls : /\ call[d].pc \notin BeforeInsert
                           /\ row[j].receivedAt = call[d].at
    BY <1>4 DEF Stamps
  <2>2. c # d /\ c \in Begun /\ d \in Begun
    BY <1>1, <2>1 DEF Begun, BeforeInsert
  <2> QED
    BY <2>1, <2>2 DEF Stamps
<1>5. action \in IF call[c].status = "ok" THEN Store!ActionColumn ELSE {None}
  BY DEF ActionOf, Store!ActionColumn
<1>6. call[c].status \in Store!PrimaryStatus /\ call[c].key \in Days \cup {NoKey}
  BY <1>2 DEF Call
<1>7. Lifecycle!Store!PendingRow(call[c].status, action, call[c].key, call[c].at) = s
  BY DEF Lifecycle!Store!PendingRow, Store!PendingRow
<1> HIDE DEF action, s
<1> QED
  BY <1>1, <1>3, <1>4, <1>5, <1>6, <1>7
     DEF Lifecycle!InsertRow, Lifecycle!Insertable, Lifecycle!Exists,
         Lifecycle!Store!ActionColumn, Store!ActionColumn

LEMMA MarksRow ==
    ASSUME TallyInv, BoundedWorld, NEW w \in Workers, Mark(w), NEW i, i = worker[w].id
    PROVE  Lifecycle!MarkRow(w, i)
<1>0. Places /\ DistinctIds /\ Once /\ Lives /\ Lives' /\ Budgeted /\ [Next]_vars
  <2>1. [Next]_vars
    BY DEF Next, Handle
  <2> QED
    BY <2>1, NextLives DEF TallyInv, OnceInv, BoundedWorld
<1>1. WorkerTurn(w)
  BY <1>0, HandleTurn DEF Handle
<1>2. Marks(w) /\ OthersWork(w) /\ UNCHANGED sweep
  <2>1. worker[w].pc = "mark" /\ faults' = faults /\ faults \in Nat
    BY <1>0 DEF Mark, budgetVars, Places, TypeOK
  <2> QED
    BY <1>1, <2>1 DEF WorkerTurn, Takes, Abandons, Discards, Loads, Asks, GetsObject, PutsObject,
       GivesVerdict, Counts, RecordsError
<1>3. /\ worker[w].pc = "mark" /\ worker'[w].pc = "load" /\ worker'[w].id = i
      /\ row[i] # None /\ row[i].primary = "ok" /\ i \in Ids
  BY <1>0, <1>2 DEF Marks, SameJob, Places, Handling, InHand
<1>4. row[i].attempts < Cardinality(Replicas) + MaxCrashes + MaxStops
  <2>1. PICK r, p : r = Home[w] /\ p = <<r, boots[r]>>
    OBVIOUS
  <2>2. p \in Runs /\ p \notin Spent(i)
    BY <1>0, <1>1, <1>2, <2>1, MarkSpends
  <2>3. Spent(i) \subseteq Runs /\ IsFiniteSet(Runs) /\ IsFiniteSet(Spent(i))
    BY <1>0, FS_Subset DEF Lives, Spent
  <2>4. Cardinality(Spent(i)) + 1 <= Cardinality(Runs)
    <3>1. Cardinality(Spent(i) \cup {p}) = Cardinality(Spent(i)) + 1
      BY <2>2, <2>3, FS_AddElement
    <3>2. Spent(i) \cup {p} \subseteq Runs
      BY <2>2, <2>3
    <3> QED
      BY <2>3, <3>1, <3>2, FS_Subset
  <2>5. /\ row[i].attempts <= Cardinality(Spent(i)) /\ row[i].attempts \in Nat
        /\ Cardinality(Spent(i)) \in Nat
    BY <1>0, <1>3, <2>3, FS_CardinalityType DEF Budgeted, Places, TypeOK, Store!Row
  <2>6. Cardinality(Away) \in Nat
    <3>1. IsFiniteSet(Away)
      BY FS_Subset DEF Away, BoundedWorld
    <3> QED
      BY <3>1, FS_CardinalityType
  <2>7. /\ Cardinality(Runs) \in Nat /\ Cardinality(Replicas) \in Nat
        /\ crashes \in Nat /\ stops \in Nat /\ MaxCrashes \in Nat /\ MaxStops \in Nat
    BY <1>0, <2>3, FS_CardinalityType, ShadowProxyAssumption DEF BoundedWorld, Places, TypeOK
  <2> QED
    BY <1>0, <2>4, <2>5, <2>6, <2>7 DEF Lives
<1>5. Held(w) = None /\ Held(w)' = i
  BY <1>3 DEF Held
<1>6. [v \in Workers |-> Held(v)]' = [[v \in Workers |-> Held(v)] EXCEPT ![w] = i]
  BY <1>2, <1>5, HeldByOne
<1>7. row' = [row EXCEPT ![i] = Lifecycle!Store!Marked(@)]
  BY DEF Mark, Lifecycle!Store!Marked, Store!Marked
<1> QED
  BY <1>2, <1>3, <1>4, <1>5, <1>6, <1>7
     DEF Lifecycle!MarkRow, Lifecycle!Exists, Lifecycle!Comparable, Held

(* The statements that finalize the row of w.                              *)
LEMMA SameFinalize ==
    ASSUME NEW i, NEW status, NEW verdict, NEW action, FinalizeRow(i, status, verdict, action)
    PROVE  Lifecycle!Finalize(i, status, verdict, action)
  BY DEF FinalizeRow, Lifecycle!Finalize, Lifecycle!Store!Finalized, Store!Finalized

LEMMA EndsHandler ==
    ASSUME Places, NEW w \in Workers, Done(w)
    PROVE  OthersWork(w) /\ Held(w)' = None
  BY IdleWorker DEF Done, OthersWork, Held, Places, TypeOK

LEMMA DiscardsRow ==
    ASSUME Places, NEW w \in Workers, Discard(w)
    PROVE  Lifecycle!DiscardRow(worker[w].id)
<1> DEFINE i == worker[w].id
<1>1. /\ worker[w].pc = "discard" /\ row[i] # None /\ row[i].primary # "ok"
      /\ UNCHANGED sweep
  BY DEF Discard, Places, Handling, InHand, WorkerUnchanged
<1>2. Held(w) = None /\ Held(w)' = None /\ OthersWork(w)
  BY <1>1, EndsHandler DEF Discard, Held
<1>3. [v \in Workers |-> Held(v)]' = [v \in Workers |-> Held(v)]
  BY <1>2 DEF OthersWork, Held
<1>4. Lifecycle!Finalize(i, "dropped", "primary_error", None)
  BY SameFinalize DEF Discard
<1> QED
  BY <1>1, <1>3, <1>4
     DEF Lifecycle!DiscardRow, Lifecycle!Exists, Lifecycle!Comparable, Held

LEMMA JudgesRow ==
    ASSUME Places, NEW w \in Workers, FinalizeOk(w)
    PROVE  Lifecycle!JudgeRow(w)
<1> DEFINE i == worker[w].id
           result == Evaluate(worker[w].primary, worker[w].reply)
<1>1. worker[w].pc = "finalize" /\ i \in Ids /\ i # None /\ UNCHANGED sweep
  BY ShadowProxyAssumption DEF FinalizeOk, Places, Handling, InHand, WorkerUnchanged
<1>2. Held(w) = i /\ Held(w)' = None /\ OthersWork(w)
  <2>1. worker' = [worker EXCEPT ![w] = [worker[w] EXCEPT !.pc = "count"]]
    BY DEF FinalizeOk, Step
  <2>2. worker'[w].pc = "count" /\ OthersWork(w)
    BY <2>1, OneWorker DEF Worker, OthersWork, Places, TypeOK
  <2> QED
    BY <1>1, <2>2 DEF Held
<1>3. [v \in Workers |-> Held(v)]' = [[v \in Workers |-> Held(v)] EXCEPT ![w] = None]
  BY <1>2, HeldByOne
<1>4. Lifecycle!Finalize(i, "ok", result.verdict, result.action)
  BY SameFinalize DEF FinalizeOk, Judged
<1>5. /\ result.verdict \in {"match", "mismatch", "invalid_json"}
      /\ result.action \in Actions \cup {None}
      /\ result.verdict = "match" => result.action # None
      /\ result.verdict = "invalid_json" => result.action = None
  <2> DEFINE p == ActionOf(worker[w].primary)
             c == ActionOf(worker[w].reply)
  <2>1. p \in Actions \cup {None} /\ c \in Actions \cup {None}
    BY DEF ActionOf
  <2>2. \/ result.verdict = "invalid_json" /\ result.action = None
        \/ /\ result.verdict = IF SameAction(p, c) THEN "match" ELSE "mismatch"
           /\ result.action = c
    BY DEF Evaluate
  <2>3. SameAction(p, c) => c # None
    BY DEF SameAction
  <2> HIDE DEF p, c, result
  <2> QED
    BY <2>1, <2>2, <2>3
<1> HIDE DEF result, i
<1> QED
  BY <1>1, <1>2, <1>3, <1>4, <1>5
     DEF Lifecycle!JudgeRow, Lifecycle!Leave, Lifecycle!Judgements,
         Lifecycle!Store!ActionColumn, Held

LEMMA ErrorsRow ==
    ASSUME Places, NEW w \in Workers, FinalizeError(w)
    PROVE  Lifecycle!ErrorRow(w)
<1> DEFINE i == worker[w].id
<1>1. worker[w].pc = "fail" /\ i \in Ids /\ i # None /\ UNCHANGED sweep
  BY ShadowProxyAssumption DEF FinalizeError, Places, Handling, InHand, WorkerUnchanged
<1>2. Held(w) = i /\ Held(w)' = None /\ OthersWork(w)
  BY <1>1, EndsHandler DEF FinalizeError, Held
<1>3. [v \in Workers |-> Held(v)]' = [[v \in Workers |-> Held(v)] EXCEPT ![w] = None]
  BY <1>2, HeldByOne
<1>4. Lifecycle!Finalize(i, "error", "candidate_error", None)
  BY SameFinalize DEF FinalizeError
<1> HIDE DEF i
<1> QED
  BY <1>1, <1>2, <1>3, <1>4 DEF Lifecycle!ErrorRow, Lifecycle!Leave, Held

LEMMA HandlerLetsGo ==
    ASSUME Places, NEW w \in Workers, HandlerFails(w)
    PROVE  Lifecycle!GiveUp({w}, {})
<1>1. OthersWork(w) /\ Held(w)' = None /\ UNCHANGED <<row, sweep>>
  BY EndsHandler DEF HandlerFails, WorkerUnchanged
<1>2. \A v \in Workers : Held(v)' = IF v \in {w} THEN None ELSE Held(v)
  BY <1>1 DEF OthersWork, Held
<1>3. sweep \in [Replicas -> SUBSET Ids] /\ {w} \in SUBSET Workers /\ {} \in SUBSET Replicas
  BY DEF Places, TypeOK
<1>4. \A r \in Replicas : sweep'[r] = IF r \in {} THEN {} ELSE sweep[r]
  BY <1>1
<1> QED
  BY <1>1, <1>2, <1>3, <1>4, LetsGo

LEMMA ProcessLetsGo ==
    ASSUME Places, NEW r \in Replicas, ForgetMemory(r)
    PROVE  Lifecycle!GiveUp(WorkersOf(r), {r})
<1>1. /\ sweep \in [Replicas -> SUBSET Ids] /\ sweep' \in [Replicas -> SUBSET Ids]
      /\ \A x \in Replicas : sweep'[x] = IF x \in {r} THEN {} ELSE sweep[x]
      /\ UNCHANGED row
  BY DEF ForgetMemory, Places, TypeOK
<1>2. \A w \in Workers : Held(w)' = IF w \in WorkersOf(r) THEN None ELSE Held(w)
  <2>1. \A w \in Workers : worker'[w] = IF Home[w] = r THEN Idle ELSE worker[w]
    BY DEF ForgetMemory
  <2> QED
    BY <2>1, IdleWorker DEF Held, WorkersOf
<1>3. WorkersOf(r) \in SUBSET Workers /\ {r} \in SUBSET Replicas
  BY DEF WorkersOf
<1> QED
  BY <1>1, <1>2, <1>3, LetsGo

LEMMA SweeperSteps ==
    ASSUME Places, NEW r \in Replicas, Sweep(r)
    PROVE  \/ \E stale \in SUBSET Ids : Lifecycle!SelectRows(r, stale)
           \/ \E i \in Ids : Lifecycle!SweepRow(r, i)
           \/ Lifecycle!GiveUp({}, {r})
<1>0. UNCHANGED worker /\ sweep \in [Replicas -> SUBSET Ids]
  BY DEF Sweep, SweepFind, SweepOne, SweepFails, SweepUnchanged, Places, TypeOK
<1>1. CASE SweepFind(r)
  <2>1. PICK stale \in SUBSET Stale : sweep' = [sweep EXCEPT ![r] = stale]
    BY <1>1 DEF SweepFind
  <2>2. stale \in SUBSET Ids /\ \A i \in stale : row[i] # None /\ Store!Unfinished(row[i])
    BY <2>1 DEF Stale, UnfinishedIds, Rows
  <2>3. sweep[r] = {} /\ UNCHANGED row
    BY <1>1 DEF SweepFind
  <2>4. Lifecycle!SelectRows(r, stale)
    BY <1>0, <2>1, <2>2, <2>3 DEF Lifecycle!SelectRows, Lifecycle!Exists,
       Lifecycle!Store!Unfinished, Store!Unfinished
  <2> QED
    BY <2>2, <2>4
<1>2. ASSUME NEW i \in Ids, SweepOne(r, i)
      PROVE  Lifecycle!SweepRow(r, i)
  <2>1. Lifecycle!Finalize(i, "timeout_stale", "candidate_error", None)
    BY <1>2, SameFinalize DEF SweepOne
  <2> QED
    BY <1>0, <1>2, <2>1 DEF SweepOne, Lifecycle!SweepRow
<1>3. CASE SweepFails(r)
  <2>1. /\ sweep' \in [Replicas -> SUBSET Ids] /\ UNCHANGED row
        /\ \A x \in Replicas : sweep'[x] = IF x \in {r} THEN {} ELSE sweep[x]
    BY <1>0, <1>3 DEF SweepFails
  <2>2. \A w \in Workers : Held(w)' = IF w \in {} THEN None ELSE Held(w)
    BY <1>0 DEF Held
  <2>3. {} \in SUBSET Workers /\ {r} \in SUBSET Replicas
    OBVIOUS
  <2> QED
    BY <1>0, <2>1, <2>2, <2>3, LetsGo
<1> QED
  BY <1>1, <1>2, <1>3 DEF Sweep

LEMMA HandlerSteps ==
    ASSUME TallyInv, BoundedWorld, NEW w \in Workers, Handle(w)
    PROVE  [Lifecycle!RowNext]_(Lifecycle!rowVars)
<1>0. Places
  BY DEF TallyInv, OnceInv
<1>1. CASE HandlerFails(w)
  BY <1>0, <1>1, HandlerLetsGo DEF Lifecycle!RowNext
<1>2. CASE Discard(w)
  <2>1. worker[w].id \in Ids
    BY <1>0, <1>2 DEF Discard, Places, Handling, InHand
  <2> QED
    BY <1>0, <1>2, <2>1, DiscardsRow DEF Lifecycle!RowNext
<1>3. CASE Mark(w)
  <2>1. PICK i : i = worker[w].id
    OBVIOUS
  <2>2. i \in Ids
    BY <1>0, <1>3, <2>1 DEF Mark, Places, Handling, InHand
  <2> QED
    BY <1>3, <2>1, <2>2, MarksRow DEF Lifecycle!RowNext
<1>4. CASE FinalizeOk(w)
  BY <1>0, <1>4, JudgesRow DEF Lifecycle!RowNext
<1>5. CASE FinalizeError(w)
  BY <1>0, <1>5, ErrorsRow DEF Lifecycle!RowNext
<1>6. CASE \/ Take(w) \/ Load(w) \/ CandidateFails(w) \/ MergeGet(w) \/ MergePut(w)
           \/ \E text \in CandidateTexts : CandidateAnswers(w, text)
  <2>1. WorkerTurn(w)
    BY <1>0, HandleTurn
  <2>2. UNCHANGED <<row, sweep>>
    BY <1>6 DEF Take, Load, CandidateAnswers, CandidateFails, MergeGet, MergePut, WorkerUnchanged
  <2>3. Held(w)' = Held(w)
    <3>1. worker[w].pc \in {"get", "load", "asked", "merge_get", "merge_put"}
      BY <1>6 DEF Take, Load, CandidateAnswers, CandidateFails, MergeGet, MergePut
    <3>2. \/ worker[w].pc = "get" /\ worker'[w].pc \in {"get", "mark", "discard"}
          \/ worker'[w].pc = "get" /\ faults' = faults + 1 /\ worker[w].pc \in {"load", "asked"}
          \/ /\ worker'[w].id = worker[w].id /\ worker[w].pc # "get"
             /\ worker'[w].pc \in {"asked", "fail", "finalize", "merge_get", "merge_put"}
      BY <2>1, <3>1 DEF WorkerTurn, Takes, Abandons, Discards, Marks, Loads, Asks, GetsObject,
         PutsObject, GivesVerdict, Counts, RecordsError, SameJob
    <3>3. worker[w].pc \in {"load", "asked"} => worker'[w].pc # "get"
      <4>1. worker[w].pc = "load" => Load(w)
        BY <1>6 DEF Take, CandidateAnswers, CandidateFails, MergeGet, MergePut
      <4>2. worker[w].pc = "asked" => faults' = faults /\ faults \in Nat
        BY <1>0, <1>6 DEF Take, Load, CandidateAnswers, CandidateFails, MergeGet, MergePut,
           budgetVars, Places, TypeOK
      <4>3. Load(w) => worker'[w].pc = "asked"
        BY <1>0, OneWorker DEF Load, Step, Worker, Places, TypeOK
      <4> QED
        BY <3>2, <4>1, <4>2, <4>3
    <3> QED
      BY <3>1, <3>2, <3>3 DEF Held
  <2> QED
    BY <2>1, <2>2, <2>3, SameHeld DEF WorkerTurn
<1>7. CASE CountVerdict(w)
  <2>1. worker[w].pc = "count" /\ UNCHANGED <<row, sweep>> /\ Done(w)
    BY <1>7 DEF CountVerdict, WorkerUnchanged
  <2>2. OthersWork(w) /\ Held(w)' = None /\ Held(w) = None
    BY <1>0, <2>1, EndsHandler DEF Held
  <2> QED
    BY <2>1, <2>2, SameHeld
<1> QED
  BY <1>1, <1>2, <1>3, <1>4, <1>5, <1>6, <1>7 DEF Handle

LEMMA StepsOfRows ==
    ASSUME TallyInv, BoundedWorld, [Next]_vars
    PROVE  [Lifecycle!RowNext]_(Lifecycle!rowVars)
<1>0. Places /\ Stamps /\ \A c \in Calls : IdOf[c] \in Ids
  BY ShadowProxyAssumption DEF TallyInv, OnceInv
<1>1. ASSUME UNCHANGED <<row, worker, sweep>>
      PROVE  UNCHANGED Lifecycle!rowVars
  BY <1>1 DEF Lifecycle!rowVars
<1>2. CASE \E c \in Calls, r \in Replicas : Receive(c, r)
  BY <1>1, <1>2 DEF Receive, replicaVars
<1>3. ASSUME NEW c \in Calls, ServeCall(c), ~Insert(c)
      PROVE  UNCHANGED <<row, worker, sweep>>
  BY <1>3 DEF ServeCall, PrimaryReturns, PrimaryBreaks, Archive, ArchiveFails, InsertFails, Refuse,
     SampleIn, SampleOut, CallUnchanged, replicaVars
<1>4. ASSUME NEW c \in Calls, Insert(c)
      PROVE  Lifecycle!RowNext
  BY <1>0, <1>4, InsertsRow DEF Lifecycle!RowNext
<1>5. CASE \E w \in Workers : Handle(w)
  BY <1>5, HandlerSteps
<1>6. ASSUME NEW r \in Replicas, Sweep(r)
      PROVE  Lifecycle!RowNext
  BY <1>0, <1>6, SweeperSteps DEF Lifecycle!RowNext
<1>7. ASSUME NEW r \in Replicas, ShutdownDone(r) \/ Crash(r)
      PROVE  Lifecycle!RowNext
  <2>1. Lifecycle!GiveUp(WorkersOf(r), {r})
    BY <1>0, <1>7, ProcessLetsGo DEF ShutdownDone, Crash
  <2>2. WorkersOf(r) \in SUBSET Workers /\ {r} \in SUBSET Replicas
    BY DEF WorkersOf
  <2> QED
    BY <2>1, <2>2 DEF Lifecycle!RowNext
<1>8. ASSUME NEW r \in Replicas,
             \/ Boot(r) \/ RequeueFind(r) \/ RequeueAll(r) \/ Shutdown(r)
             \/ \E value \in Rates : PutConfig(r, value)
      PROVE  UNCHANGED <<row, worker, sweep>>
  BY <1>8 DEF Boot, RequeueFind, RequeueAll, Shutdown, PutConfig, LifespanUnchanged
<1>9. CASE TimePasses \/ Midnight \/ UNCHANGED vars
  BY <1>1, <1>9 DEF TimePasses, Midnight, vars, replicaVars
<1> QED
  BY <1>1, <1>2, <1>3, <1>4, <1>5, <1>6, <1>7, <1>8, <1>9 DEF Next, Quiescent

LEMMA StartsEmpty == Init => Lifecycle!RowInit
  BY DEF Init, Idle, Lifecycle!RowInit

(* Calls, queues, tasks, processes and models together do to the table     *)
(* what RowLifecycle allows, as long as every call has a request id of its *)
(* own: no handler judges a row that it has not marked, no sweep takes a   *)
(* row that it has not found unfinished, no two rows have one received_at, *)
(* and a row is attempted at most once per start of a process.             *)
THEOREM ProxyImplementsLifecycle ==
    ASSUME BoundedWorld
    PROVE  Spec => ImplementsLifecycle
<1>1. TallyInv /\ [Next]_vars => [Lifecycle!RowNext]_(Lifecycle!rowVars)
  BY StepsOfRows
<1>2. Init => Lifecycle!RowInit
  BY StartsEmpty
<1>3. Spec => []TallyInv
  BY TallyInvariant
<1> QED
  BY <1>1, <1>2, <1>3, PTL DEF Spec, ImplementsLifecycle, Lifecycle!RowSpec

-----------------------------------------------------------------------------
(* The theorems of RowLifecycle hold of the proxy's table.  Table is the   *)
(* same instance as Lifecycle, with the proofs.                            *)
Table == INSTANCE RowLifecycleProofs WITH
    Statuses    <- Store!PrimaryStatus,
    Keys        <- Days \cup {NoKey},
    Times       <- 0 .. Cardinality(Calls),
    Handlers    <- Workers,
    Sweepers    <- Replicas,
    MaxAttempts <- Cardinality(Replicas) + MaxCrashes + MaxStops,
    claim       <- [w \in Workers |->
                      IF worker[w].pc \in {"get", "discard", "mark", "count"}
                      THEN None ELSE worker[w].id],
    found       <- sweep

LEMMA TableStore ==
    /\ Table!Store!Row = Store!Row
    /\ Table!Store!PrimaryStatus = Store!PrimaryStatus
  BY DEF Table!Store!Row, Store!Row, Table!Store!PrimaryStatus, Store!PrimaryStatus,
         Table!Store!ActionColumn, Store!ActionColumn,
         Table!Store!CandidateStatus, Store!CandidateStatus,
         Table!Store!Verdict, Store!Verdict

LEMMA TableAssumptions ==
    ASSUME BoundedWorld
    PROVE  /\ Cardinality(Replicas) + MaxCrashes + MaxStops \in Nat
           /\ 0 .. Cardinality(Calls) \subseteq Nat
           /\ None \notin Table!Store!Row
           /\ Store!PrimaryStatus \subseteq Table!Store!PrimaryStatus
<1>1. Cardinality(Replicas) \in Nat /\ Cardinality(Calls) \in Nat
  BY FS_CardinalityType DEF BoundedWorld
<1> QED
  BY <1>1, TableStore, StorageAssumption, ShadowProxyAssumption

LEMMA TableStep == [Lifecycle!RowNext]_(Lifecycle!rowVars) => [Table!RowNext]_(Table!rowVars)
<1> USE DEF Table!Exists, Lifecycle!Exists, Table!Comparable, Lifecycle!Comparable,
            Table!Finalize, Lifecycle!Finalize,
            Table!Store!Finalized, Lifecycle!Store!Finalized
<1>1. ASSUME NEW i \in Ids, Lifecycle!InsertRow(i)
      PROVE  Table!InsertRow(i)
  BY <1>1 DEF Table!InsertRow, Lifecycle!InsertRow, Table!Insertable, Lifecycle!Insertable,
              Table!Store!ActionColumn, Lifecycle!Store!ActionColumn,
              Table!Store!PendingRow, Lifecycle!Store!PendingRow
<1>2. ASSUME NEW i \in Ids, Lifecycle!DiscardRow(i)
      PROVE  Table!DiscardRow(i)
  BY <1>2 DEF Table!DiscardRow, Lifecycle!DiscardRow
<1>3. ASSUME NEW w \in Workers, Lifecycle!JudgeRow(w)
      PROVE  Table!JudgeRow(w)
  <2>1. /\ Table!Judgements = Lifecycle!Judgements
        /\ Table!Store!ActionColumn = Lifecycle!Store!ActionColumn
    BY DEF Table!Judgements, Lifecycle!Judgements,
           Table!Store!ActionColumn, Lifecycle!Store!ActionColumn
  <2>2. PICK verdict \in Lifecycle!Judgements, action \in Lifecycle!Store!ActionColumn :
           /\ verdict = "match" => action # None
           /\ verdict = "invalid_json" => action = None
           /\ Lifecycle!Finalize(Held(w), "ok", verdict, action)
    BY <1>3, Zenon DEF Lifecycle!JudgeRow, Held
  <2>3. Table!Finalize(Held(w), "ok", verdict, action)
    BY <2>2
  <2>4. Held(w) # None /\ Table!Leave(w) /\ UNCHANGED sweep
    BY <1>3, Zenon DEF Table!Leave, Lifecycle!Leave, Lifecycle!JudgeRow, Held
  <2> QED
    BY <2>1, <2>2, <2>3, <2>4, Zenon DEF Table!JudgeRow, Held
<1>4. ASSUME NEW w \in Workers, Lifecycle!ErrorRow(w)
      PROVE  Table!ErrorRow(w)
  BY <1>4 DEF Table!ErrorRow, Lifecycle!ErrorRow, Table!Leave, Lifecycle!Leave
<1>5. ASSUME NEW w \in Workers, NEW i \in Ids, Lifecycle!MarkRow(w, i)
      PROVE  Table!MarkRow(w, i)
  BY <1>5 DEF Table!MarkRow, Lifecycle!MarkRow, Table!Store!Marked, Lifecycle!Store!Marked
<1>6. ASSUME NEW r \in Replicas, NEW stale \in SUBSET Ids, Lifecycle!SelectRows(r, stale)
      PROVE  Table!SelectRows(r, stale)
  BY <1>6 DEF Table!SelectRows, Lifecycle!SelectRows,
              Table!Store!Unfinished, Lifecycle!Store!Unfinished
<1>7. ASSUME NEW r \in Replicas, NEW i \in Ids, Lifecycle!SweepRow(r, i)
      PROVE  Table!SweepRow(r, i)
  BY <1>7 DEF Table!SweepRow, Lifecycle!SweepRow
<1>8. ASSUME NEW ws \in SUBSET Workers, NEW rs \in SUBSET Replicas, Lifecycle!GiveUp(ws, rs)
      PROVE  Table!GiveUp(ws, rs)
  BY <1>8 DEF Table!GiveUp, Lifecycle!GiveUp
<1>9. Lifecycle!rowVars = Table!rowVars /\ (UNCHANGED Lifecycle!rowVars => UNCHANGED Table!rowVars)
  BY DEF Lifecycle!rowVars, Table!rowVars
<1> QED
  BY <1>1, <1>2, <1>3, <1>4, <1>5, <1>6, <1>7, <1>8, <1>9, Zenon DEF Table!RowNext, Lifecycle!RowNext

LEMMA TableInit == Lifecycle!RowInit => Table!RowInit
  BY DEF Table!RowInit, Lifecycle!RowInit

LEMMA ProxyIsTable ==
    ASSUME BoundedWorld
    PROVE  Spec => Table!RowSpec
<1>1. Spec => Lifecycle!RowSpec
  BY ProxyImplementsLifecycle DEF ImplementsLifecycle
<1> QED
  BY <1>1, TableInit, TableStep, PTL DEF Lifecycle!RowSpec, Table!RowSpec

(* With any number of replicas, whose handlers may interleave their        *)
(* UPDATEs on one row: once the row is not in progress, its status and its *)
(* verdict agree.                                                          *)
THEOREM ProxyStatusAgrees ==
    ASSUME BoundedWorld
    PROVE  Spec => []Lifecycle!StatusAndVerdict
<1>1. Table!RowSpec => []Table!StatusAndVerdict
  BY Table!StatusAgreesWithVerdict, TableAssumptions
<1>2. Table!StatusAndVerdict => Lifecycle!StatusAndVerdict
  BY DEF Table!StatusAndVerdict, Lifecycle!StatusAndVerdict, Table!Exists, Lifecycle!Exists,
         Table!Agree, Lifecycle!Agree, Table!Judgements, Lifecycle!Judgements
<1>3. Spec => Table!RowSpec
  BY ProxyIsTable
<1> QED
  BY <1>1, <1>2, <1>3, PTL

(* No worker, sweep or boot ever shadows a call whose primary failed.      *)
THEOREM ProxySparesFailedCalls ==
    ASSUME BoundedWorld
    PROVE  Spec => []Lifecycle!FailedNeverShadowed
<1>1. Table!RowSpec => []Table!FailedNeverShadowed
  BY Table!FailedRowsAreNotShadowed, TableAssumptions
<1>2. Table!FailedNeverShadowed => Lifecycle!FailedNeverShadowed
  BY DEF Table!FailedNeverShadowed, Lifecycle!FailedNeverShadowed,
         Table!Exists, Lifecycle!Exists
<1>3. Spec => Table!RowSpec
  BY ProxyIsTable
<1> QED
  BY <1>1, <1>2, <1>3, PTL

(* What persist_pending() wrote of a call stays in its row for good.       *)
THEOREM ProxyKeepsIngest ==
    ASSUME BoundedWorld
    PROVE  Spec => Lifecycle!IngestIsImmutable
<1>1. Table!RowSpec => Table!IngestIsImmutable
  BY Table!IngestNeverRewritten, TableAssumptions
<1>2. Table!IngestIsImmutable => Lifecycle!IngestIsImmutable
  BY PTL DEF Table!IngestIsImmutable, Lifecycle!IngestIsImmutable, Table!Exists, Lifecycle!Exists,
         Table!rowVars, Lifecycle!rowVars
<1>3. Spec => Table!RowSpec
  BY ProxyIsTable
<1> QED
  BY <1>1, <1>2, <1>3, PTL

-----------------------------------------------------------------------------
(* Part 4.  The counters.  Total is a fold over the replicas.  It is the   *)
(* only function that adds up a set by taking out one element after the    *)
(* other, so it counts the units of which the values consist.              *)
AnyOf(s) == CHOOSE x \in s : TRUE

SumOf(c) == FoldFunction(+, 0, c)

AddsUp(g, c) ==
    g = [s \in SUBSET DOMAIN c |->
            IF s = {} THEN 0 ELSE c[AnyOf(s)] + g[s \ {AnyOf(s)}]]

(* Among subsets of a finite set there is one that contains no other.      *)
LEMMA SmallestSet ==
    ASSUME NEW D, IsFiniteSet(D), NEW T, T \subseteq SUBSET D, T # {}
    PROVE  \E s \in T : \A t \in T : t \subseteq s => t = s
<1>1. FiniteSubsetsOf(D) = SUBSET D
  BY FS_FiniteSubsetsOfFinite
<1>2. IsWellFoundedOn(StrictSubsetOrdering(D), SUBSET D)
  BY <1>1, FS_StrictSubsetOrderingWellFounded
<1>3. PICK s \in T : \A t \in T : ~(<<t, s>> \in StrictSubsetOrdering(D))
  BY <1>2, WFMin
<1> QED
  BY <1>3 DEF StrictSubsetOrdering

LEMMA SumUnique ==
    ASSUME NEW c, NEW D, D = DOMAIN c, IsFiniteSet(D), NEW g, AddsUp(g, c)
    PROVE  SumOf(c) = g[D]
<1> DEFINE iter == CHOOSE h : AddsUp(h, c)
<1>1. SumOf(c) = iter[D]
  BY DEF SumOf, FoldFunction, FoldFunctionOnSet, MapThenFoldSet, AnyOf, AddsUp
<1>2. AddsUp(iter, c)
  OBVIOUS
<1> HIDE DEF iter
<1> DEFINE T == {s \in SUBSET D : iter[s] # g[s]}
<1> SUFFICES ASSUME T # {} PROVE FALSE
  BY <1>1
<1>3. PICK s \in T : \A t \in T : t \subseteq s => t = s
  <2>1. T \subseteq SUBSET D
    OBVIOUS
  <2> HIDE DEF T
  <2> QED
    BY <2>1, SmallestSet
<1>4. /\ iter[s] = IF s = {} THEN 0 ELSE c[AnyOf(s)] + iter[s \ {AnyOf(s)}]
      /\ g[s] = IF s = {} THEN 0 ELSE c[AnyOf(s)] + g[s \ {AnyOf(s)}]
  <2>1. s \in SUBSET D
    OBVIOUS
  <2>2. ASSUME NEW h, AddsUp(h, c)
        PROVE  h[s] = IF s = {} THEN 0 ELSE c[AnyOf(s)] + h[s \ {AnyOf(s)}]
    BY <2>1, <2>2 DEF AddsUp
  <2> QED
    BY <1>2, <2>2
<1>5. s # {}
  BY <1>4
<1>6. AnyOf(s) \in s
  BY <1>5 DEF AnyOf
<1>7. s \ {AnyOf(s)} \in T
  BY <1>4, <1>5
<1> QED
  BY <1>3, <1>6, <1>7

(* The units of which the values of c in s consist.                        *)
Units(s, c) == {p \in s \X Nat : p[2] < c[p[1]]}

(* The units of one value, and those of a set without it.                  *)
LEMMA UnitsOfOne ==
    ASSUME NEW d, NEW c, c[d] \in Nat
    PROVE  IsFiniteSet(Units({d}, c)) /\ Cardinality(Units({d}, c)) = c[d]
<1> DEFINE I == 0 .. c[d] - 1
           f == [k \in I |-> <<d, k>>]
<1>1. IsFiniteSet(I) /\ Cardinality(I) = c[d]
  <2>1. PICK n \in Nat : n = c[d]
    OBVIOUS
  <2>2. /\ IsFiniteSet(0 .. n - 1)
        /\ Cardinality(0 .. n - 1) = IF 0 > n - 1 THEN 0 ELSE (n - 1) - 0 + 1
    BY FS_Interval
  <2> QED
    BY <2>1, <2>2
<1>2. f \in Bijection(I, Units({d}, c))
  <2>1. f \in [I -> Units({d}, c)]
    BY DEF Units
  <2>2. \A k, m \in I : f[k] = f[m] => k = m
    OBVIOUS
  <2>3. \A p \in Units({d}, c) : \E k \in I : f[k] = p
    BY DEF Units
  <2> QED
    BY <2>1, <2>2, <2>3 DEF Bijection, Injection, IsInjective, Surjection
<1> HIDE DEF I, f
<1> QED
  BY <1>1, <1>2, FS_Bijection DEF ExistsBijection

LEMMA UnitsSplit ==
    ASSUME NEW s, NEW d \in s, NEW c
    PROVE  /\ Units(s, c) = Units({d}, c) \cup Units(s \ {d}, c)
           /\ Units({d}, c) \cap Units(s \ {d}, c) = {}
BY DEF Units

LEMMA DisjointUnion ==
    ASSUME NEW A, NEW B, IsFiniteSet(A), IsFiniteSet(B), A \cap B = {}
    PROVE  /\ IsFiniteSet(A \cup B)
           /\ Cardinality(A \cup B) = Cardinality(A) + Cardinality(B)
<1>1. /\ IsFiniteSet(A \cup B)
      /\ Cardinality(A \cup B) = Cardinality(A) + Cardinality(B) - Cardinality(A \cap B)
  BY FS_Union
<1>2. Cardinality(A \cap B) = 0
  BY FS_EmptySet
<1>3. Cardinality(A) \in Nat /\ Cardinality(B) \in Nat
  BY FS_CardinalityType
<1> QED
  BY <1>1, <1>2, <1>3

(* So the sum of a function over a finite set is the number of its units.  *)
LEMMA SumIsUnits ==
    ASSUME NEW D, IsFiniteSet(D), NEW c \in [D -> Nat]
    PROVE  IsFiniteSet(Units(D, c)) /\ SumOf(c) = Cardinality(Units(D, c))
<1> DEFINE T == {s \in SUBSET D : ~IsFiniteSet(Units(s, c))}
<1>1. T = {}
  <2> SUFFICES ASSUME T # {} PROVE FALSE
    OBVIOUS
  <2>1. PICK s \in T : \A t \in T : t \subseteq s => t = s
    <3>1. T \subseteq SUBSET D
      OBVIOUS
    <3> HIDE DEF T
    <3> QED
      BY <3>1, SmallestSet
  <2>2. s # {}
    <3>1. Units({}, c) = {}
      BY DEF Units
    <3> QED
      BY <3>1, FS_EmptySet
  <2>3. PICK d \in s : TRUE
    BY <2>2
  <2>4. IsFiniteSet(Units(s \ {d}, c))
    <3>1. s \ {d} \notin T
      BY <2>1, <2>3
    <3> QED
      BY <3>1
  <2>5. c[d] \in Nat
    OBVIOUS
  <2>6. Units(s, c) = Units({d}, c) \cup Units(s \ {d}, c)
    BY <2>3, UnitsSplit
  <2>7. IsFiniteSet(Units({d}, c))
    BY <2>5, UnitsOfOne
  <2>8. IsFiniteSet(Units({d}, c) \cup Units(s \ {d}, c))
    BY <2>4, <2>7, FS_Union
  <2> QED
    BY <2>6, <2>8
<1>2. \A s \in SUBSET D : IsFiniteSet(Units(s, c))
  BY <1>1
<1> DEFINE g == [s \in SUBSET D |-> Cardinality(Units(s, c))]
<1>3. ASSUME NEW s \in SUBSET D
      PROVE  g[s] = IF s = {} THEN 0 ELSE c[AnyOf(s)] + g[s \ {AnyOf(s)}]
  <2>1. CASE s = {}
    <3>1. Units(s, c) = {}
      BY <2>1 DEF Units
    <3> QED
      BY <2>1, <3>1, FS_EmptySet
  <2>2. CASE s # {}
    <3> DEFINE d == AnyOf(s)
    <3>1. d \in s /\ c[d] \in Nat
      BY <2>2 DEF AnyOf
    <3>2. IsFiniteSet(Units(s \ {d}, c)) /\ g[s \ {d}] = Cardinality(Units(s \ {d}, c))
      BY <1>2
    <3>3. g[s] = Cardinality(Units(s, c))
      OBVIOUS
    <3> HIDE DEF d, g
    <3>4. IsFiniteSet(Units({d}, c)) /\ Cardinality(Units({d}, c)) = c[d]
      BY <3>1, UnitsOfOne
    <3>5. /\ Units(s, c) = Units({d}, c) \cup Units(s \ {d}, c)
          /\ Units({d}, c) \cap Units(s \ {d}, c) = {}
      BY <3>1, UnitsSplit
    <3>6. Cardinality(Units(s, c)) = c[d] + g[s \ {d}]
      BY <3>2, <3>4, <3>5, DisjointUnion
    <3> QED
      BY <2>2, <3>3, <3>6 DEF d
  <2> QED
    BY <2>1, <2>2
<1>4. AddsUp(g, c)
  <2>1. DOMAIN c = D
    OBVIOUS
  <2>2. g = [s \in SUBSET D |-> g[s]]
    OBVIOUS
  <2> HIDE DEF g
  <2>3. [s \in SUBSET D |-> g[s]] =
          [s \in SUBSET D |-> IF s = {} THEN 0 ELSE c[AnyOf(s)] + g[s \ {AnyOf(s)}]]
    BY <1>3
  <2> QED
    BY <2>1, <2>2, <2>3 DEF AddsUp
<1>5. g[D] = Cardinality(Units(D, c))
  OBVIOUS
<1> HIDE DEF g
<1> QED
  BY <1>2, <1>4, <1>5, SumUnique

(* One more at one place is one more in the sum.                           *)
LEMMA SumOneMore ==
    ASSUME NEW D, IsFiniteSet(D), NEW c \in [D -> Nat], NEW e \in [D -> Nat], NEW d \in D,
           e[d] = c[d] + 1, \A x \in D : x # d => e[x] = c[x]
    PROVE  SumOf(c) \in Nat /\ SumOf(e) = SumOf(c) + 1
<1>1. Units(D, e) = Units(D, c) \cup {<<d, c[d]>>} /\ <<d, c[d]>> \notin Units(D, c)
  <2>1. c[d] \in Nat
    OBVIOUS
  <2>2. <<d, c[d]>> \in D \X Nat /\ ~(c[d] < c[d]) /\ c[d] < e[d]
    BY <2>1
  <2>3. ASSUME NEW x \in D, NEW k \in Nat
        PROVE  k < e[x] <=> k < c[x] \/ (x = d /\ k = c[d])
    <3>1. CASE x = d
      BY <2>1, <3>1
    <3>2. CASE x # d
      BY <3>2
    <3> QED
      BY <3>1, <3>2
  <2> QED
    BY <2>2, <2>3 DEF Units
<1>2. /\ IsFiniteSet(Units(D, c)) /\ SumOf(c) = Cardinality(Units(D, c))
      /\ SumOf(e) = Cardinality(Units(D, e))
  BY SumIsUnits
<1>3. Cardinality(Units(D, c)) \in Nat
  BY <1>2, FS_CardinalityType
<1>4. Cardinality(Units(D, e)) = Cardinality(Units(D, c)) + 1
  BY <1>1, <1>2, FS_AddElement
<1> QED
  BY <1>2, <1>3, <1>4

-----------------------------------------------------------------------------
(* Which rows a counter has to account for.                                *)
Shown == Judgements \cup {"taped"}

Accounts(n, verdict) ==
    IF n = "taped" THEN verdict \in {"mismatch", "invalid_json"} ELSE verdict = n

RowsOf(n) == {i \in Rows : Accounts(n, row[i].verdict)}

\* Handlers whose UPDATE is done and whose counter is not.
Waits(w, n) == worker[w].pc = "count" /\ Accounts(n, Judged(w).verdict)

Waiting(n) == {w \in Workers : Waits(w, n)}

Covered == \A n \in Shown :
    Cardinality(RowsOf(n)) <= Total(n) + Cardinality(Waiting(n)) + faults

(* Counters end with their process.  No process ends unless it crashes or  *)
(* is stopped: a replica that is stopping was told so.                     *)
CoverInv ==
    /\ Places
    /\ stops = 0 => \A r \in Replicas : phase[r] # "stopping"
    /\ crashes = 0 /\ stops = 0 => Covered

(* What a step does to the rows of a counter, to the counter, and to the   *)
(* handlers in between.                                                    *)
NoNewRows(n) == \A i \in Ids : row'[i] # None /\ Accounts(n, row'[i].verdict)
                                  => row[i] # None /\ Accounts(n, row[i].verdict)

SameCount(n) == \A r \in Replicas : count'[r][n] = count[r][n]

OneMore(n, q) ==
    /\ count'[q][n] = count[q][n] + 1
    /\ \A r \in Replicas : r # q => count'[r][n] = count[r][n]

Keeps(n) == NoNewRows(n) /\ SameCount(n) /\ Waiting(n)' = Waiting(n)

Judges(w, n) ==
    /\ \E i \in Ids : \A j \in Ids : j # i => row'[j] = row[j]
    /\ SameCount(n)
    /\ w \notin Waiting(n) /\ Waiting(n)' = Waiting(n) \cup {w}

Shows(w, n) ==
    /\ NoNewRows(n) /\ OneMore(n, Home[w])
    /\ w \in Waiting(n) /\ Waiting(n)' = Waiting(n) \ {w}

Misses(w, n) ==
    /\ NoNewRows(n) /\ SameCount(n) /\ faults' = faults + 1
    /\ w \in Waiting(n) /\ Waiting(n)' = Waiting(n) \ {w}

LEMMA ShownCounters ==
    /\ Shown \subseteq Counters
    /\ \A n \in Shown : n \notin {"requests_total", "shadow_enqueued",
                                    "shadow_sampled_out", "shadow_errors"}
    /\ \A n \in Shown : \A v : Accounts(n, v) => v \in Judgements
BY DEF Shown, Counters, Judgements, Accounts

(* Statements that judge nothing.                                          *)
LEMMA InsertNotCounted ==
    ASSUME Places, NEW c \in Calls, Insert(c), NEW n \in Shown
    PROVE  NoNewRows(n)
<1>1. /\ row'[IdOf[c]].verdict \in {"pending", "primary_error"}
      /\ \A j \in Ids : j # IdOf[c] => row'[j] = row[j]
  BY InsertEffect DEF Places, Recorded
<1>2. row'[IdOf[c]].verdict \notin Judgements
  BY <1>1 DEF Judgements
<1> QED
  BY <1>1, <1>2, ShownCounters DEF NoNewRows

LEMMA ErrorNotCounted ==
    ASSUME Places, NEW i \in Ids, row[i] # None, NEW status \in Store!CandidateStatus,
           NEW verdict \in {"candidate_error", "primary_error"},
           FinalizeRow(i, status, verdict, None), NEW n \in Shown
    PROVE  NoNewRows(n)
<1>1. row'[i].verdict = verdict /\ \A j \in Ids : j # i => row'[j] = row[j]
  BY Written, FinalizeEffect
<1>2. row'[i].verdict \notin Judgements
  BY <1>1 DEF Judgements
<1> QED
  BY <1>1, <1>2, ShownCounters DEF NoNewRows

LEMMA MarkNotCounted ==
    ASSUME Places, NEW w \in Workers, Mark(w), NEW n \in Shown
    PROVE  NoNewRows(n)
BY MarkEffect DEF NoNewRows

(* Only the step of w itself changes whether w is in between.              *)
LEMMA WaitingTurn ==
    ASSUME NEW w \in Workers, OthersWork(w), NEW n
    PROVE  /\ Waits(w, n)' /\ ~Waits(w, n) => Waiting(n)' = Waiting(n) \cup {w}
           /\ Waits(w, n) /\ ~Waits(w, n)' => Waiting(n)' = Waiting(n) \ {w}
           /\ (Waits(w, n)' <=> Waits(w, n)) => Waiting(n)' = Waiting(n)
<1>1. \A v \in Workers : v # w => (Waits(v, n)' <=> Waits(v, n))
  BY DEF OthersWork, Waits, Judged
<1>2. /\ Waiting(n)' = {v \in Workers : Waits(v, n)'}
      /\ Waiting(n) = {v \in Workers : Waits(v, n)}
  BY DEF Waiting
<1> QED
  BY <1>1, <1>2

(* finalize() with a verdict makes w wait where the row may be new.        *)
LEMMA JudgementWaits ==
    ASSUME Places, NEW w \in Workers, FinalizeOk(w), NEW n \in Shown
    PROVE  Keeps(n) \/ Judges(w, n)
<1> DEFINE v == Judged(w).verdict
           i == worker[w].id
<1>1. /\ i \in Ids /\ row'[i].verdict = v
      /\ \A j \in Ids : j # i => row'[j] = row[j]
  BY JudgedEffect
<1>2. SameCount(n)
  BY DEF FinalizeOk, SameCount
<1>3. WorkerTurn(w) /\ worker[w].pc = "finalize"
  BY HandleTurn DEF Handle, FinalizeOk
<1>4. /\ OthersWork(w) /\ ~Waits(w, n)
      /\ Waits(w, n)' <=> Accounts(n, v)
  <2>1. worker' = [worker EXCEPT ![w] = [worker[w] EXCEPT !.pc = "count"]]
    BY DEF FinalizeOk, Step
  <2>2. /\ worker'[w].pc = "count" /\ worker'[w].primary = worker[w].primary
        /\ worker'[w].reply = worker[w].reply
    BY <2>1, OneWorker DEF Worker, Places, TypeOK
  <2> QED
    BY <1>3, <2>2 DEF Waits, Judged, WorkerTurn
<1> HIDE DEF v, i
<1>5. CASE Accounts(n, v)
  <2>1. w \notin Waiting(n) /\ Waiting(n)' = Waiting(n) \cup {w}
    BY <1>4, <1>5, WaitingTurn DEF Waiting
  <2> QED
    BY <1>1, <1>2, <2>1 DEF Judges
<1>6. CASE ~Accounts(n, v)
  <2>1. Waiting(n)' = Waiting(n)
    BY <1>4, <1>6, WaitingTurn
  <2>2. NoNewRows(n)
    BY <1>1, <1>6 DEF NoNewRows
  <2> QED
    BY <1>2, <2>1, <2>2 DEF Keeps
<1> QED
  BY <1>5, <1>6

(* The counter that was waited for goes up.                                *)
LEMMA VerdictCounted ==
    ASSUME Places, NEW w \in Workers, CountVerdict(w), NEW n \in Shown
    PROVE  Keeps(n) \/ Shows(w, n)
<1> DEFINE v == Judged(w).verdict
           r == Home[w]
           f == [count[r] EXCEPT ![v] = IF v \in CountedVerdicts THEN @ + 1 ELSE @,
                                 !["taped"] = IF v \in TapedVerdicts THEN @ + 1 ELSE @]
<1>1. v \in Judgements
  BY JudgedType DEF CountVerdict
<1>2. count[r] \in [Counters -> Nat] /\ r \in Replicas
  BY OneWorker DEF Places, TypeOK
<1>3. count' = [count EXCEPT ![r] = f] /\ UNCHANGED row
  BY DEF CountVerdict
<1>4. OthersWork(w) /\ ~Waits(w, n)' /\ (Waits(w, n) <=> Accounts(n, v))
  <2>1. worker[w].pc = "count" /\ Done(w)
    BY DEF CountVerdict
  <2>2. OthersWork(w) /\ worker'[w].pc = "get"
    BY <2>1, IdleWorker DEF Done, OthersWork, Places, TypeOK
  <2> QED
    BY <2>1, <2>2 DEF Waits
<1> HIDE DEF v, r
<1>5. f[n] = IF Accounts(n, v) THEN count[r][n] + 1 ELSE count[r][n]
  BY <1>1, <1>2, ShownCounters
     DEF Shown, Counters, Judgements, Accounts, CountedVerdicts, TapedVerdicts
<1> HIDE DEF f
<1>6. count'[r] = f /\ \A q \in Replicas : q # r => count'[q] = count[q]
  BY <1>2, <1>3 DEF Places, TypeOK
<1>7. NoNewRows(n)
  BY <1>3 DEF NoNewRows
<1>8. CASE Accounts(n, v)
  <2>1. OneMore(n, r)
    BY <1>5, <1>6, <1>8 DEF OneMore
  <2>2. w \in Waiting(n) /\ Waiting(n)' = Waiting(n) \ {w}
    BY <1>4, <1>8, WaitingTurn DEF Waiting
  <2> QED
    BY <1>7, <2>1, <2>2 DEF Shows, r
<1>9. CASE ~Accounts(n, v)
  <2>1. SameCount(n)
    BY <1>5, <1>6, <1>9 DEF SameCount
  <2>2. Waiting(n)' = Waiting(n)
    BY <1>4, <1>9, WaitingTurn
  <2> QED
    BY <1>7, <2>1, <2>2 DEF Keeps
<1> QED
  BY <1>8, <1>9

(* A handler that fails may have been in between.                          *)
LEMMA FailureMisses ==
    ASSUME Places, NEW w \in Workers, HandlerFails(w), NEW n \in Shown
    PROVE  Keeps(n) \/ Misses(w, n)
<1>1. UNCHANGED <<row, count>> /\ Done(w) /\ faults' = faults + 1
  BY DEF HandlerFails, Fault
<1>2. OthersWork(w) /\ ~Waits(w, n)'
  <2>1. OthersWork(w) /\ worker'[w].pc = "get"
    BY <1>1, IdleWorker DEF Done, OthersWork, Places, TypeOK
  <2> QED
    BY <2>1 DEF Waits
<1>3. NoNewRows(n) /\ SameCount(n)
  BY <1>1 DEF NoNewRows, SameCount
<1>4. CASE Waits(w, n)
  <2>1. w \in Waiting(n) /\ Waiting(n)' = Waiting(n) \ {w}
    BY <1>2, <1>4, WaitingTurn DEF Waiting
  <2> QED
    BY <1>1, <1>3, <2>1 DEF Misses
<1>5. CASE ~Waits(w, n)
  <2>1. Waiting(n)' = Waiting(n)
    BY <1>2, <1>5, WaitingTurn
  <2> QED
    BY <1>3, <2>1 DEF Keeps
<1> QED
  BY <1>4, <1>5

(* Every other step of a handler leaves it out of that place.              *)
LEMMA NobodyNewWaits ==
    ASSUME Places, NEW w \in Workers, Handle(w), worker[w].pc \notin {"finalize", "count"}, NEW n
    PROVE  Waiting(n)' = Waiting(n)
<1>1. WorkerTurn(w)
  BY HandleTurn
<1>2. worker'[w].pc # "count" /\ OthersWork(w)
  BY <1>1 DEF WorkerTurn, Takes, Abandons, Discards, Marks, Loads, Asks, GetsObject, PutsObject,
     GivesVerdict, Counts, RecordsError
<1>3. ~Waits(w, n) /\ ~Waits(w, n)'
  BY <1>2 DEF Waits
<1> QED
  BY <1>2, <1>3, WaitingTurn

LEMMA WaitingKept ==
    ASSUME UNCHANGED worker, NEW n
    PROVE  Waiting(n)' = Waiting(n)
<1>1. \A w \in Workers : Waits(w, n)' <=> Waits(w, n)
  BY DEF Waits, Judged
<1> QED
  BY <1>1 DEF Waiting

(* The other steps, as long as no process ends.                            *)
LEMMA CallNotCounted ==
    ASSUME Places, NEW c \in Calls, ServeCall(c), NEW n \in Shown
    PROVE  Keeps(n)
<1>0. Waiting(n)' = Waiting(n)
  <2>1. UNCHANGED worker
    BY ServeCallTurn DEF CallTurn
  <2> QED
    BY <2>1, WaitingKept
<1> SUFFICES NoNewRows(n) /\ SameCount(n)
  BY <1>0 DEF Keeps
<1>1. CASE SampleIn(c) \/ SampleOut(c)
  <2> DEFINE r == call[c].by
  <2>1. UNCHANGED row
    BY <1>1 DEF SampleIn, SampleOut
  <2>2. r \in Replicas /\ count \in [Replicas -> [Counters -> Nat]]
    BY <1>1 DEF SampleIn, SampleOut, Places, Served, InFlight, TypeOK
  <2>3. n \notin {"requests_total", "shadow_enqueued", "shadow_sampled_out"} /\ n \in Counters
    BY ShownCounters
  <2>4. PICK f : count' = [count EXCEPT ![r] = f] /\ f[n] = count[r][n]
    <3>1. CASE SampleOut(c)
      <4> DEFINE f == [count[r] EXCEPT !["requests_total"] = @ + 1,
                                       !["shadow_sampled_out"] = @ + 1]
      <4>1. f[n] = count[r][n]
        BY <2>2, <2>3
      <4>2. count' = [count EXCEPT ![r] = f]
        BY <3>1 DEF SampleOut
      <4> QED
        BY <4>1, <4>2
    <3>2. CASE SampleIn(c)
      <4> DEFINE in == Accepts(Policy, queue[r])
                 f == [count[r] EXCEPT !["requests_total"] = @ + 1,
                                       !["shadow_enqueued"] = IF in THEN @ + 1 ELSE @]
      <4> HIDE DEF in
      <4>1. f[n] = count[r][n]
        BY <2>2, <2>3
      <4>2. count' = [count EXCEPT ![r] = f]
        BY <3>2 DEF SampleIn, in
      <4> QED
        BY <4>1, <4>2
    <3> QED
      BY <1>1, <3>1, <3>2
  <2> HIDE DEF r
  <2>5. \A q \in Replicas : count'[q][n] = count[q][n]
    BY <2>2, <2>4
  <2> QED
    BY <2>1, <2>5 DEF NoNewRows, SameCount
<1>2. CASE Insert(c)
  <2>1. SameCount(n)
    BY <1>2 DEF Insert, CallUnchanged, replicaVars, SameCount
  <2> QED
    BY <1>2, <2>1, InsertNotCounted
<1>3. CASE \/ \E status \in Store!PrimaryStatus, text \in PrimaryTexts \cup {"blank"} :
                PrimaryReturns(c, status, text)
           \/ PrimaryBreaks(c) \/ Archive(c) \/ ArchiveFails(c) \/ InsertFails(c) \/ Refuse(c)
  <2>1. UNCHANGED <<row, count>>
    BY <1>3 DEF PrimaryReturns, PrimaryBreaks, Archive, ArchiveFails, InsertFails, Refuse,
       CallUnchanged, replicaVars
  <2> QED
    BY <2>1 DEF NoNewRows, SameCount
<1> QED
  BY <1>1, <1>2, <1>3 DEF ServeCall

LEMMA HandlerCounted ==
    ASSUME Places, NEW w \in Workers, Handle(w), NEW n \in Shown
    PROVE  Keeps(n) \/ Judges(w, n) \/ Shows(w, n) \/ Misses(w, n)
<1>0. CASE FinalizeOk(w) \/ CountVerdict(w) \/ HandlerFails(w)
  BY <1>0, JudgementWaits, VerdictCounted, FailureMisses
<1>1. SUFFICES ASSUME ~FinalizeOk(w), ~CountVerdict(w), ~HandlerFails(w)
               PROVE  NoNewRows(n) /\ SameCount(n)
  <2>1. ASSUME ~FinalizeOk(w), ~CountVerdict(w), ~HandlerFails(w)
        PROVE  worker[w].pc \notin {"finalize", "count"}
    BY <2>1 DEF Handle, Take, Discard, Mark, Load, CandidateAnswers, CandidateFails,
       FinalizeError, MergeGet, MergePut
  <2> QED
    BY <1>0, <2>1, NobodyNewWaits DEF Keeps
<1>2. CASE Discard(w) \/ FinalizeError(w)
  <2>1. worker[w].id \in Ids /\ row[worker[w].id] # None
    BY <1>2, BusyWorker DEF Discard, FinalizeError
  <2>2. NoNewRows(n)
    BY <1>2, <2>1, Written, ErrorNotCounted DEF Discard, FinalizeError
  <2>3. SameCount(n)
    BY <1>2 DEF Discard, FinalizeError, SameCount
  <2> QED
    BY <2>2, <2>3
<1>3. CASE Mark(w)
  BY <1>3, MarkNotCounted DEF Mark, SameCount
<1>4. CASE CandidateFails(w)
  <2>1. UNCHANGED row /\ count' = [count EXCEPT ![Home[w]]["shadow_errors"] = @ + 1]
    BY <1>4 DEF CandidateFails
  <2>2. n # "shadow_errors" /\ n \in Counters /\ count \in [Replicas -> [Counters -> Nat]]
    BY ShownCounters DEF Places, TypeOK
  <2>3. \A q \in Replicas : count'[q][n] = count[q][n]
    BY <2>1, <2>2
  <2> QED
    BY <2>1, <2>3 DEF NoNewRows, SameCount
<1>5. CASE \/ Take(w) \/ Load(w) \/ MergeGet(w) \/ MergePut(w)
           \/ \E text \in CandidateTexts : CandidateAnswers(w, text)
  <2>1. UNCHANGED <<row, count>>
    BY <1>5 DEF Take, Load, MergeGet, MergePut, CandidateAnswers
  <2> QED
    BY <2>1 DEF NoNewRows, SameCount
<1> QED
  BY <1>1, <1>2, <1>3, <1>4, <1>5 DEF Handle

LEMMA SweepNotCounted ==
    ASSUME Places, NEW r \in Replicas, Sweep(r), NEW n \in Shown
    PROVE  Keeps(n)
<1>0. Waiting(n)' = Waiting(n)
  <2>1. UNCHANGED worker
    BY DEF Sweep, SweepFind, SweepOne, SweepFails, SweepUnchanged
  <2> QED
    BY <2>1, WaitingKept
<1> SUFFICES NoNewRows(n) /\ SameCount(n)
  BY <1>0 DEF Keeps
<1>1. SameCount(n)
  BY DEF Sweep, SweepFind, SweepOne, SweepFails, SweepUnchanged, SameCount
<1>2. CASE SweepFind(r) \/ SweepFails(r)
  BY <1>1, <1>2 DEF SweepFind, SweepFails, NoNewRows
<1>3. CASE \E i \in Ids : SweepOne(r, i)
  <2>1. PICK i \in Ids : SweepOne(r, i)
    BY <1>3
  <2>2. row[i] # None
    BY <2>1 DEF SweepOne, Places, Selected
  <2>3. NoNewRows(n)
    BY <2>1, <2>2, Written, ErrorNotCounted DEF SweepOne
  <2> QED
    BY <1>1, <2>3
<1> QED
  BY <1>1, <1>2, <1>3 DEF Sweep

LEMMA StepCounted ==
    ASSUME Places, [Next]_vars, NEW n \in Shown,
           ~ \E r \in Replicas : ShutdownDone(r) \/ Crash(r)
    PROVE  Keeps(n) \/ \E w \in Workers : Judges(w, n) \/ Shows(w, n) \/ Misses(w, n)
<1>1. CASE \E w \in Workers : Handle(w)
  BY <1>1, HandlerCounted
<1>2. CASE \/ \E c \in Calls, r \in Replicas : Receive(c, r)
           \/ \E r \in Replicas : \/ Boot(r) \/ RequeueFind(r) \/ RequeueAll(r) \/ Shutdown(r)
                                  \/ \E value \in Rates : PutConfig(r, value)
           \/ TimePasses \/ Midnight \/ UNCHANGED vars
  <2>1. UNCHANGED <<row, count, worker>>
    BY <1>2 DEF Receive, Boot, RequeueFind, RequeueAll, Shutdown, PutConfig, TimePasses, Midnight,
       LifespanUnchanged, replicaVars, vars
  <2>2. Waiting(n)' = Waiting(n)
    BY <2>1, WaitingKept
  <2> QED
    BY <2>1, <2>2 DEF Keeps, NoNewRows, SameCount
<1>3. CASE \E c \in Calls : ServeCall(c)
  BY <1>3, CallNotCounted
<1>4. CASE \E r \in Replicas : Sweep(r)
  BY <1>4, SweepNotCounted
<1> QED
  BY <1>1, <1>2, <1>3, <1>4 DEF Next, Quiescent

(* From the steps to the sums.                                             *)
LEMMA TotalIsSum ==
    ASSUME NEW n
    PROVE  /\ Total(n) = SumOf([r \in Replicas |-> count[r][n]])
           /\ Total(n)' = SumOf([r \in Replicas |-> count'[r][n]])
<1>1. Total(n) = SumOf([r \in Replicas |-> count[r][n]])
  BY DEF Total, SumOf
<1>2. Total(n)' = SumOf([r \in Replicas |-> count'[r][n]])
  <2>1. Total(n)' = SumOf([r \in Replicas |-> count[r][n]])'
    BY DEF Total, SumOf
  <2> QED
    BY <2>1
<1> QED
  BY <1>1, <1>2

LEMMA TotalKept ==
    ASSUME NEW n, SameCount(n)
    PROVE  Total(n)' = Total(n)
<1>1. [r \in Replicas |-> count'[r][n]] = [r \in Replicas |-> count[r][n]]
  BY DEF SameCount
<1> QED
  BY <1>1, TotalIsSum

LEMMA TotalOneMore ==
    ASSUME TypeOK, TypeOK', IsFiniteSet(Replicas), NEW n \in Shown, NEW q \in Replicas,
           OneMore(n, q)
    PROVE  Total(n) \in Nat /\ Total(n)' = Total(n) + 1
<1>1. PICK c, e : /\ c = [r \in Replicas |-> count[r][n]]
                  /\ e = [r \in Replicas |-> count'[r][n]]
  OBVIOUS
<1>2. n \in Counters
  BY ShownCounters
<1>3. c \in [Replicas -> Nat] /\ e \in [Replicas -> Nat]
  BY <1>1, <1>2 DEF TypeOK
<1>4. e[q] = c[q] + 1 /\ \A x \in Replicas : x # q => e[x] = c[x]
  BY <1>1 DEF OneMore
<1>5. SumOf(c) \in Nat /\ SumOf(e) = SumOf(c) + 1
  BY <1>3, <1>4, SumOneMore
<1>6. Total(n) = SumOf(c)
  BY <1>1, TotalIsSum
<1>7. Total(n)' = SumOf(e)
  BY <1>1, TotalIsSum
<1> QED
  BY <1>5, <1>6, <1>7

LEMMA TotalType ==
    ASSUME TypeOK, IsFiniteSet(Replicas), NEW n \in Shown
    PROVE  Total(n) \in Nat
<1>1. PICK c : c = [r \in Replicas |-> count[r][n]]
  OBVIOUS
<1>2. c \in [Replicas -> Nat]
  BY <1>1, ShownCounters DEF TypeOK
<1>3. IsFiniteSet(Units(Replicas, c)) /\ SumOf(c) = Cardinality(Units(Replicas, c))
  BY <1>2, SumIsUnits
<1> QED
  BY <1>1, <1>3, TotalIsSum, FS_CardinalityType

LEMMA RowsOfFinite ==
    ASSUME Places, NEW n
    PROVE  IsFiniteSet(RowsOf(n)) /\ Cardinality(RowsOf(n)) \in Nat
<1>1. RowsOf(n) \subseteq Rows /\ IsFiniteSet(Rows)
  BY DEF RowsOf, Places
<1> QED
  BY <1>1, FS_Subset, FS_CardinalityType

LEMMA WaitingFinite ==
    ASSUME IsFiniteSet(Workers), NEW n
    PROVE  IsFiniteSet(Waiting(n)) /\ Cardinality(Waiting(n)) \in Nat
<1>1. Waiting(n) \subseteq Workers
  BY DEF Waiting
<1> QED
  BY <1>1, FS_Subset, FS_CardinalityType

LEMMA CoveredKept ==
    ASSUME Places, TypeOK', [Next]_vars, IsFiniteSet(Replicas), IsFiniteSet(Workers),
           ~ \E r \in Replicas : ShutdownDone(r) \/ Crash(r), NEW n \in Shown,
           Cardinality(RowsOf(n)) <= Total(n) + Cardinality(Waiting(n)) + faults
    PROVE  Cardinality(RowsOf(n)') <= Total(n)' + Cardinality(Waiting(n)') + faults'
<1>0. /\ Total(n) \in Nat /\ faults \in Nat
      /\ faults' = faults \/ faults' = faults + 1
  BY TotalType, FaultsGrow DEF Places, TypeOK
<1>1. /\ IsFiniteSet(RowsOf(n)) /\ Cardinality(RowsOf(n)) \in Nat
      /\ IsFiniteSet(Waiting(n)) /\ Cardinality(Waiting(n)) \in Nat
  BY RowsOfFinite, WaitingFinite
<1>2. RowsOf(n)' = {i \in Ids : row'[i] # None /\ Accounts(n, row'[i].verdict)}
  BY DEF RowsOf, Rows
<1>3. RowsOf(n) = {i \in Ids : row[i] # None /\ Accounts(n, row[i].verdict)}
  BY DEF RowsOf, Rows
<1>4. ASSUME NoNewRows(n)
      PROVE  /\ Cardinality(RowsOf(n)') <= Cardinality(RowsOf(n))
             /\ Cardinality(RowsOf(n)') \in Nat
  <2>1. RowsOf(n)' \subseteq RowsOf(n)
    BY <1>2, <1>3, <1>4 DEF NoNewRows
  <2> QED
    BY <1>1, <2>1, FS_Subset, FS_CardinalityType
<1>5. CASE Keeps(n)
  <2>1. /\ Total(n)' = Total(n) /\ Cardinality(Waiting(n)') = Cardinality(Waiting(n))
        /\ Cardinality(RowsOf(n)') <= Cardinality(RowsOf(n))
        /\ Cardinality(RowsOf(n)') \in Nat
    BY <1>4, <1>5, TotalKept DEF Keeps
  <2> QED
    BY <1>0, <1>1, <2>1
<1>6. ASSUME NEW w \in Workers, Judges(w, n)
      PROVE  Cardinality(RowsOf(n)') <= Total(n)' + Cardinality(Waiting(n)') + faults'
  <2>1. PICK i \in Ids : \A j \in Ids : j # i => row'[j] = row[j]
    BY <1>6 DEF Judges
  <2>2. RowsOf(n)' \subseteq RowsOf(n) \cup {i}
    BY <1>2, <1>3, <2>1
  <2>3. /\ IsFiniteSet(RowsOf(n) \cup {i})
        /\ Cardinality(RowsOf(n) \cup {i}) <= Cardinality(RowsOf(n)) + 1
    <3>1. /\ IsFiniteSet(RowsOf(n) \cup {i})
          /\ Cardinality(RowsOf(n) \cup {i}) =
                 IF i \in RowsOf(n) THEN Cardinality(RowsOf(n)) ELSE Cardinality(RowsOf(n)) + 1
      BY <1>1, FS_AddElement
    <3> QED
      BY <1>1, <3>1
  <2>4. /\ Cardinality(RowsOf(n)') <= Cardinality(RowsOf(n) \cup {i})
        /\ Cardinality(RowsOf(n)') \in Nat /\ Cardinality(RowsOf(n) \cup {i}) \in Nat
    BY <2>2, <2>3, FS_Subset, FS_CardinalityType
  <2>5. Cardinality(Waiting(n)') = Cardinality(Waiting(n)) + 1
    BY <1>1, <1>6, FS_AddElement DEF Judges
  <2>6. Total(n)' = Total(n)
    BY <1>6, TotalKept DEF Judges
  <2> QED
    BY <1>0, <1>1, <2>3, <2>4, <2>5, <2>6
<1>7. ASSUME NEW w \in Workers, Shows(w, n) \/ Misses(w, n)
      PROVE  Cardinality(RowsOf(n)') <= Total(n)' + Cardinality(Waiting(n)') + faults'
  <2>1. w \in Waiting(n) /\ Waiting(n)' = Waiting(n) \ {w} /\ NoNewRows(n)
    BY <1>7 DEF Shows, Misses
  <2>2. Cardinality(Waiting(n)') = Cardinality(Waiting(n)) - 1
    BY <1>1, <2>1, FS_RemoveElement
  <2>3. /\ Cardinality(RowsOf(n)') <= Cardinality(RowsOf(n))
        /\ Cardinality(RowsOf(n)') \in Nat
    BY <1>4, <2>1
  <2>4. CASE Shows(w, n)
    <3>1. Home[w] \in Replicas
      BY ShadowProxyAssumption
    <3>2. Total(n)' = Total(n) + 1
      BY <2>4, <3>1, TotalOneMore DEF Shows, Places
    <3> QED
      BY <1>0, <1>1, <2>2, <2>3, <3>2
  <2>5. CASE Misses(w, n)
    <3>1. Total(n)' = Total(n) /\ faults' = faults + 1
      BY <2>5, TotalKept DEF Misses
    <3> QED
      BY <1>0, <1>1, <2>2, <2>3, <3>1
  <2> QED
    BY <1>7, <2>4, <2>5
<1> QED
  BY <1>5, <1>6, <1>7, StepCounted

LEMMA NextCover ==
    ASSUME IsFiniteSet(Replicas), IsFiniteSet(Workers), CoverInv, [Next]_vars
    PROVE  CoverInv'
<1>1. Places /\ Places' /\ TypeOK' /\ stops \in Nat /\ crashes \in Nat
  BY NextPlaces DEF CoverInv, Places, TypeOK
<1>2. /\ stops' = 0 => stops = 0 /\ \A r \in Replicas : ~StopTurn(r)
      /\ crashes' = 0 => crashes = 0
  <2>1. \/ UNCHANGED <<phase, boots, crashes, stops>>
        \/ \E r \in Replicas : BootTurn(r) \/ ReadyTurn(r) \/ StopTurn(r) \/ DownTurn(r)
    BY PhaseTurn
  <2>2. stops' \in {stops, stops + 1} /\ crashes' \in {crashes, crashes + 1}
    BY <2>1 DEF BootTurn, ReadyTurn, StopTurn, DownTurn
  <2> QED
    BY <1>1, <2>2 DEF StopTurn
<1>3. ASSUME stops' = 0, NEW r \in Replicas PROVE phase'[r] # "stopping"
  <2>1. phase \in [Replicas -> Phases] /\ phase[r] # "stopping"
    BY <1>1, <1>2, <1>3 DEF CoverInv, Places, TypeOK
  <2>2. CASE UNCHANGED <<phase, boots, crashes, stops>>
    BY <2>1, <2>2
  <2>3. CASE \E q \in Replicas : BootTurn(q) \/ ReadyTurn(q) \/ DownTurn(q)
    BY <2>1, <2>3 DEF BootTurn, ReadyTurn, DownTurn
  <2> QED
    BY <1>2, <1>3, <2>2, <2>3, PhaseTurn
<1>4. ASSUME crashes' = 0, stops' = 0 PROVE Covered'
  <2>1. crashes = 0 /\ stops = 0 /\ Covered /\ \A r \in Replicas : phase[r] # "stopping"
    BY <1>2, <1>4 DEF CoverInv
  <2>2. ~ \E r \in Replicas : ShutdownDone(r) \/ Crash(r)
    BY <1>4, <2>1 DEF ShutdownDone, Crash
  <2>3. ASSUME NEW n \in Shown
        PROVE  Cardinality(RowsOf(n)') <= Total(n)' + Cardinality(Waiting(n)') + faults'
    BY <1>1, <2>1, <2>2, CoveredKept DEF Covered
  <2> QED
    BY <2>3 DEF Covered
<1> QED
  BY <1>1, <1>3, <1>4 DEF CoverInv

LEMMA InitCover ==
    ASSUME IsFiniteSet(Replicas), IsFiniteSet(Workers), Init
    PROVE  CoverInv
<1>1. Places
  BY InitPlaces
<1>2. \A r \in Replicas : phase[r] # "stopping"
  BY DEF Init
<1>3. ASSUME NEW n \in Shown
      PROVE  Cardinality(RowsOf(n)) <= Total(n) + Cardinality(Waiting(n)) + faults
  <2>1. RowsOf(n) = {}
    BY DEF RowsOf, Rows, Init
  <2>2. Total(n) \in Nat /\ Cardinality(Waiting(n)) \in Nat /\ faults \in Nat
    BY <1>1, TotalType, WaitingFinite DEF Places, TypeOK
  <2>3. Cardinality(RowsOf(n)) = 0
    BY <2>1, FS_EmptySet
  <2> QED
    BY <2>2, <2>3
<1> QED
  BY <1>1, <1>2, <1>3 DEF CoverInv, Covered

(* GET /v1/metrics (main.py, _rt_inc) lacks a verdict that the table shows *)
(* only while its handler is between the UPDATE and the counter, or after  *)
(* it failed there, and the mismatch tape was offered every judgement that *)
(* is not a match but for those, for any number of calls and faults and    *)
(* any finite number of replicas and workers, as long as no process ended. *)
THEOREM CountersAccountForRows ==
    ASSUME IsFiniteSet(Replicas), IsFiniteSet(Workers)
    PROVE  Spec => []CountersCoverTable
<1>1. Init => CoverInv
  BY InitCover
<1>2. CoverInv /\ [Next]_vars => CoverInv'
  BY NextCover
<1>3. CoverInv => CountersCoverTable
  <2> DEFINE other == {"mismatch", "invalid_json"}
  <2> SUFFICES ASSUME CoverInv, crashes = 0, stops = 0
               PROVE  /\ \A v \in Judgements :
                             Cardinality(JudgedRows({v}))
                                 <= Total(v) + Cardinality(Uncounted({v})) + faults
                      /\ Cardinality(JudgedRows(other))
                             <= Total("taped") + Cardinality(Uncounted(other)) + faults
    BY DEF CountersCoverTable
  <2>1. Covered
    BY DEF CoverInv
  <2>2. ASSUME NEW n \in Shown, NEW V, \A v : Accounts(n, v) <=> v \in V
        PROVE  Cardinality(JudgedRows(V)) <= Total(n) + Cardinality(Uncounted(V)) + faults
    <3>1. RowsOf(n) = JudgedRows(V) /\ Waiting(n) = Uncounted(V)
      BY <2>2 DEF RowsOf, JudgedRows, Waiting, Waits, Uncounted
    <3> QED
      BY <2>1, <3>1 DEF Covered
  <2>3. ASSUME NEW v \in Judgements
        PROVE  Cardinality(JudgedRows({v})) <= Total(v) + Cardinality(Uncounted({v})) + faults
    <3>1. v \in Shown /\ v # "taped"
      BY DEF Shown, Judgements
    <3>2. \A x : Accounts(v, x) <=> x \in {v}
      BY <3>1 DEF Accounts
    <3> QED
      BY <2>2, <3>1, <3>2
  <2>4. "taped" \in Shown /\ \A x : Accounts("taped", x) <=> x \in other
    BY DEF Shown, Accounts
  <2> HIDE DEF other
  <2> QED
    BY <2>2, <2>3, <2>4
<1> QED
  BY <1>1, <1>2, <1>3, PTL DEF Spec
=============================================================================
