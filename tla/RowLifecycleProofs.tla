-------------------------- MODULE RowLifecycleProofs --------------------------
(***************************************************************************)
(* Proofs about RowLifecycle, for all sets of rows, handlers and sweepers  *)
(* and every bound on the attempts.  Each writer is shown to turn a good   *)
(* row into a good row; the invariant adds what the writers know of the    *)
(* rows they have in hand.                                                 *)
(***************************************************************************)
EXTENDS RowLifecycle, TLAPS

USE RowAssumption, StoreAssumption DEF RowAssumption, StoreAssumption

Unshadowed(r) ==
    r.primary # "ok" =>
        /\ r.attempts = 0
        /\ r.candidate \in {"pending", "dropped", "timeout_stale"}
        /\ r.primaryAction = None /\ r.candidateAction = None

Good(r) == r \in Store!Row /\ Agree(r) /\ Unshadowed(r)

SameIngest(r, s) ==
    /\ s.primary = r.primary /\ s.primaryAction = r.primaryAction
    /\ s.receivedAt = r.receivedAt /\ s.key = r.key

-----------------------------------------------------------------------------
(* What INSERT writes is good.                                             *)
LEMMA PendingRowGood ==
    ASSUME NEW status \in Store!PrimaryStatus, NEW action \in Store!ActionColumn,
           NEW key \in Keys, NEW at \in Nat,
           status # "ok" => action = None
    PROVE  Good(Store!PendingRow(status, action, key, at))
<1> DEFINE r == Store!PendingRow(status, action, key, at)
<1>1. r \in Store!Row
  BY DEF Store!PendingRow, Store!Row, Store!PrimaryStatus, Store!CandidateStatus,
         Store!Verdict, Store!ActionColumn
<1>2. /\ r.primary = status /\ r.candidate = "pending" /\ r.attempts = 0
      /\ r.primaryAction = action /\ r.candidateAction = None
      /\ r.verdict = IF status = "ok" THEN "pending" ELSE "primary_error"
  BY DEF Store!PendingRow
<1> SUFFICES Good(r)
  OBVIOUS
<1> HIDE DEF r
<1> QED
  BY <1>1, <1>2 DEF Good, Agree, Unshadowed

(* mark_in_progress() on a row with an answer of the primary.              *)
LEMMA MarkedGood ==
    ASSUME NEW r, Good(r), r.primary = "ok"
    PROVE  LET s == Store!Marked(r)
           IN  /\ Good(s) /\ SameIngest(r, s)
               /\ s.attempts = r.attempts + 1
<1> DEFINE s == Store!Marked(r)
<1>1. r \in Store!Row /\ r.attempts \in Nat
  BY DEF Good, Store!Row
<1>2. s \in Store!Row
  <2> DEFINE n == r.attempts + 1
  <2>1. n \in Nat
    BY <1>1
  <2>2. s = [r EXCEPT !.candidate = "in_progress", !.attempts = n]
    BY DEF Store!Marked
  <2> HIDE DEF n, s
  <2> QED
    BY <1>1, <2>1, <2>2 DEF Store!Row, Store!CandidateStatus
<1>3. /\ SameIngest(r, s) /\ s.verdict = r.verdict
      /\ s.candidate = "in_progress" /\ s.attempts = r.attempts + 1
  BY <1>1 DEF Store!Marked, Store!Row, SameIngest
<1>4. r.verdict # "primary_error"
  BY DEF Good, Agree, Judgements
<1> SUFFICES Good(s) /\ SameIngest(r, s) /\ s.attempts = r.attempts + 1
  OBVIOUS
<1> HIDE DEF s
<1> QED
  BY <1>2, <1>3, <1>4 DEF Good, Agree, Unshadowed, SameIngest

(* finalize() by a handler, which knows that the primary answered, by a    *)
(* handler that knows that it did not, and by a sweep, which knows nothing.*)
LEMMA FinalizedGood ==
    ASSUME NEW r, Good(r), NEW status, NEW verdict, NEW action \in Store!ActionColumn,
           \/ r.primary = "ok" /\ status = "ok" /\ verdict \in Judgements
           \/ r.primary = "ok" /\ status = "error" /\ verdict = "candidate_error"
           \/ /\ r.primary # "ok" /\ action = None
              /\ status = "dropped" /\ verdict = "primary_error"
           \/ status = "timeout_stale" /\ verdict = "candidate_error" /\ action = None
    PROVE  LET s == Store!Finalized(r, status, verdict, action)
           IN  Good(s) /\ SameIngest(r, s) /\ s.attempts = r.attempts
<1> DEFINE s == Store!Finalized(r, status, verdict, action)
<1>1. r \in Store!Row /\ s \in Store!Row
  BY DEF Good, Store!Finalized, Store!Row, Store!CandidateStatus, Store!Verdict,
         Store!ActionColumn, Judgements
<1>2. /\ SameIngest(r, s) /\ s.attempts = r.attempts
      /\ s.candidate = status /\ s.verdict = verdict
      /\ s.candidateAction = IF action = None THEN r.candidateAction ELSE action
  BY <1>1 DEF Store!Finalized, Store!Row, SameIngest
<1> SUFFICES Good(s) /\ SameIngest(r, s) /\ s.attempts = r.attempts
  OBVIOUS
<1> HIDE DEF s
<1> QED
  BY <1>1, <1>2 DEF Good, Agree, Unshadowed, SameIngest

-----------------------------------------------------------------------------
(* The invariant, row by row.                                              *)
RowsGood == \A i \in Ids : Exists(i) => Good(row[i])

(* A handler keeps a row in hand only if the primary had answered.         *)
ClaimedAnswered == \A h \in Handlers : claim[h] # None => row[claim[h]].primary = "ok"

RowInv == RowTypeOK /\ RowsGood /\ ClaimedAnswered

LEMMA InvariantGivesProperties == RowInv => StatusAndVerdict /\ FailedNeverShadowed
BY DEF RowInv, RowsGood, Good, Agree, Unshadowed, StatusAndVerdict,
       FailedNeverShadowed

(* A writer replaces one row, which exists, by a good one with the same    *)
(* ingest columns, and lets go of what it pleases.                         *)
LEMMA OneRowRewritten ==
    ASSUME RowInv, NEW i \in Ids, Exists(i), NEW s, Good(s), SameIngest(row[i], s),
           row' = [row EXCEPT ![i] = s],
           s.attempts \in row[i].attempts .. MaxAttempts \/ s.attempts = row[i].attempts,
           claim' \in [Handlers -> Ids \cup {None}],
           found' \in [Sweepers -> SUBSET Ids],
           \A h \in Handlers : \/ claim'[h] = claim[h] \/ claim'[h] = None
                               \/ /\ claim'[h] = i /\ s.primary = "ok"
                                  /\ s.attempts \in 1 .. MaxAttempts,
           \A t \in Sweepers : found'[t] \subseteq found[t]
    PROVE  RowInv' /\ \A j \in Ids : Exists(j) => row'[j] # None /\ SameIngest(row[j], row'[j])
<1>1. /\ row'[i] = s /\ s # None /\ s \in Store!Row
      /\ \A j \in Ids : j # i => row'[j] = row[j]
      /\ \A j \in Ids : Exists(j) => row'[j] # None
  BY DEF RowInv, RowTypeOK, Good, Exists
<1>2. RowTypeOK'
  <2>1. row' \in [Ids -> Store!Row \cup {None}]
    BY <1>1 DEF RowInv, RowTypeOK
  <2>2. ASSUME NEW h \in Handlers, claim'[h] # None
        PROVE  row'[claim'[h]] # None /\ row'[claim'[h]].attempts \in 1 .. MaxAttempts
    <3>1. CASE claim'[h] = i /\ s.attempts \in 1 .. MaxAttempts
      BY <3>1, <1>1
    <3>2. CASE claim'[h] = claim[h]
      <4>1. /\ claim[h] \in Ids /\ row[claim[h]] # None
            /\ row[claim[h]].attempts \in 1 .. MaxAttempts
        BY <2>2, <3>2 DEF RowInv, RowTypeOK
      <4>2. row[i].attempts \in Nat /\ s.attempts \in Nat
        BY <1>1 DEF RowInv, RowTypeOK, Exists, Store!Row
      <4> QED
        BY <3>2, <4>1, <4>2, <1>1
    <3> QED
      BY <2>2, <3>1, <3>2
  <2>3. \A t \in Sweepers : \A j \in found'[t] : row'[j] # None
    BY <1>1 DEF RowInv, RowTypeOK, Exists
  <2> QED
    BY <2>1, <2>2, <2>3 DEF RowTypeOK
<1>3. RowsGood'
  BY <1>1 DEF RowInv, RowsGood, Exists
<1>4. ClaimedAnswered'
  BY <1>1 DEF RowInv, RowTypeOK, ClaimedAnswered, SameIngest
<1>5. \A j \in Ids : Exists(j) => row'[j] # None /\ SameIngest(row[j], row'[j])
  BY <1>1 DEF SameIngest
<1> QED
  BY <1>2, <1>3, <1>4, <1>5 DEF RowInv

-----------------------------------------------------------------------------
(* Every step of the table keeps the invariant, and what ingest wrote.     *)
IngestKept == \A j \in Ids : Exists(j) => row'[j] # None /\ SameIngest(row[j], row'[j])

LEMMA InsertRowKeeps ==
    ASSUME RowInv, NEW i \in Ids, InsertRow(i)
    PROVE  RowInv' /\ IngestKept
<1>1. row[i] = None
  BY DEF InsertRow, Insertable, Exists
<1>2. PICK at \in Times, status \in Statuses :
        \E action \in IF status = "ok" THEN Store!ActionColumn ELSE {None}, key \in Keys :
            row' = [row EXCEPT ![i] = Store!PendingRow(status, action, key, at)]
  BY DEF InsertRow
<1>3. PICK action \in (IF status = "ok" THEN Store!ActionColumn ELSE {None}), key \in Keys :
        row' = [row EXCEPT ![i] = Store!PendingRow(status, action, key, at)]
  BY <1>2
<1> DEFINE s == Store!PendingRow(status, action, key, at)
<1>4. Good(s)
  <2>1. status \in Store!PrimaryStatus /\ at \in Nat
    OBVIOUS
  <2>2. action \in Store!ActionColumn /\ (status # "ok" => action = None)
    BY DEF Store!ActionColumn
  <2> QED
    BY <2>1, <2>2, PendingRowGood
<1> HIDE DEF s
<1>5. /\ row'[i] = s /\ s # None /\ s \in Store!Row
      /\ \A j \in Ids : j # i => row'[j] = row[j]
      /\ row' \in [Ids -> Store!Row \cup {None}]
  BY <1>3, <1>4 DEF s, RowInv, RowTypeOK, Good
<1>6. RowTypeOK'
  <2>1. claim' = claim /\ found' = found
    BY DEF InsertRow
  <2> QED
    BY <1>1, <1>5, <2>1 DEF RowInv, RowTypeOK
<1>7. RowsGood'
  BY <1>4, <1>5 DEF RowInv, RowsGood, Exists
<1>8. ClaimedAnswered'
  <2>1. claim' = claim
    BY DEF InsertRow
  <2> QED
    BY <1>1, <1>5, <2>1 DEF RowInv, RowTypeOK, ClaimedAnswered
<1>9. IngestKept
  BY <1>1, <1>5 DEF IngestKept, Exists, SameIngest, RowInv, RowTypeOK
<1> QED
  BY <1>6, <1>7, <1>8, <1>9 DEF RowInv

LEMMA MarkRowKeeps ==
    ASSUME RowInv, NEW h \in Handlers, NEW i \in Ids, MarkRow(h, i)
    PROVE  RowInv' /\ IngestKept
<1> DEFINE s == Store!Marked(row[i])
<1>1. Good(row[i]) /\ row[i].primary = "ok" /\ row[i].attempts \in Nat
  BY DEF MarkRow, Comparable, RowInv, RowsGood, Good, Store!Row
<1>2. Good(s) /\ SameIngest(row[i], s) /\ s.attempts = row[i].attempts + 1
  BY <1>1, MarkedGood
<1>3. /\ row' = [row EXCEPT ![i] = s] /\ Exists(i)
      /\ claim' = [claim EXCEPT ![h] = i] /\ found' = found
      /\ row[i].attempts < MaxAttempts
  BY DEF MarkRow
<1> HIDE DEF s
<1>4. s.primary = "ok" /\ s.attempts \in 1 .. MaxAttempts
      /\ s.attempts \in row[i].attempts .. MaxAttempts
  <2>1. s.attempts \in 1 .. MaxAttempts /\ s.attempts \in row[i].attempts .. MaxAttempts
    BY <1>1, <1>2, <1>3
  <2> QED
    BY <1>1, <1>2, <2>1 DEF SameIngest
<1>5. /\ claim' \in [Handlers -> Ids \cup {None}]
      /\ found' \in [Sweepers -> SUBSET Ids]
      /\ \A k \in Handlers : \/ claim'[k] = claim[k] \/ claim'[k] = None
                             \/ /\ claim'[k] = i /\ s.primary = "ok"
                                /\ s.attempts \in 1 .. MaxAttempts
      /\ \A t \in Sweepers : found'[t] \subseteq found[t]
  BY <1>3, <1>4 DEF RowInv, RowTypeOK
<1> QED
  BY <1>2, <1>3, <1>4, <1>5, OneRowRewritten DEF IngestKept

(* What the four kinds of finalize() have in common.                       *)
LEMMA FinalizeKeeps ==
    ASSUME RowInv, NEW i \in Ids, Exists(i),
           NEW status, NEW verdict, NEW action \in Store!ActionColumn,
           Finalize(i, status, verdict, action),
           \/ row[i].primary = "ok" /\ status = "ok" /\ verdict \in Judgements
           \/ row[i].primary = "ok" /\ status = "error" /\ verdict = "candidate_error"
           \/ /\ row[i].primary # "ok" /\ action = None
              /\ status = "dropped" /\ verdict = "primary_error"
           \/ status = "timeout_stale" /\ verdict = "candidate_error" /\ action = None,
           claim' \in [Handlers -> Ids \cup {None}],
           found' \in [Sweepers -> SUBSET Ids],
           \A h \in Handlers : claim'[h] = claim[h] \/ claim'[h] = None,
           \A t \in Sweepers : found'[t] \subseteq found[t]
    PROVE  RowInv' /\ IngestKept
<1> DEFINE s == Store!Finalized(row[i], status, verdict, action)
<1>1. Good(row[i])
  BY DEF RowInv, RowsGood
<1>2. Good(s) /\ SameIngest(row[i], s) /\ s.attempts = row[i].attempts
  BY <1>1, FinalizedGood
<1>3. row' = [row EXCEPT ![i] = s]
  BY DEF Finalize
<1> HIDE DEF s
<1> QED
  BY <1>2, <1>3, OneRowRewritten DEF IngestKept

LEMMA JudgeRowKeeps ==
    ASSUME RowInv, NEW h \in Handlers, JudgeRow(h)
    PROVE  RowInv' /\ IngestKept
<1>1. PICK verdict \in Judgements, action \in Store!ActionColumn :
        Finalize(claim[h], "ok", verdict, action)
  BY DEF JudgeRow
<1>2. claim[h] \in Ids /\ Exists(claim[h]) /\ row[claim[h]].primary = "ok"
  BY DEF JudgeRow, RowInv, RowTypeOK, ClaimedAnswered, Exists
<1>3. /\ claim' \in [Handlers -> Ids \cup {None}]
      /\ found' \in [Sweepers -> SUBSET Ids]
      /\ \A k \in Handlers : claim'[k] = claim[k] \/ claim'[k] = None
      /\ \A t \in Sweepers : found'[t] \subseteq found[t]
  BY DEF JudgeRow, Leave, RowInv, RowTypeOK
<1> QED
  BY <1>1, <1>2, <1>3, FinalizeKeeps

LEMMA ErrorRowKeeps ==
    ASSUME RowInv, NEW h \in Handlers, ErrorRow(h)
    PROVE  RowInv' /\ IngestKept
<1>1. Finalize(claim[h], "error", "candidate_error", None) /\ None \in Store!ActionColumn
  BY DEF ErrorRow, Store!ActionColumn
<1>2. claim[h] \in Ids /\ Exists(claim[h]) /\ row[claim[h]].primary = "ok"
  BY DEF ErrorRow, RowInv, RowTypeOK, ClaimedAnswered, Exists
<1>3. /\ claim' \in [Handlers -> Ids \cup {None}]
      /\ found' \in [Sweepers -> SUBSET Ids]
      /\ \A k \in Handlers : claim'[k] = claim[k] \/ claim'[k] = None
      /\ \A t \in Sweepers : found'[t] \subseteq found[t]
  BY DEF ErrorRow, Leave, RowInv, RowTypeOK
<1> QED
  BY <1>1, <1>2, <1>3, FinalizeKeeps

LEMMA DiscardRowKeeps ==
    ASSUME RowInv, NEW i \in Ids, DiscardRow(i)
    PROVE  RowInv' /\ IngestKept
<1>1. /\ Finalize(i, "dropped", "primary_error", None) /\ None \in Store!ActionColumn
      /\ Exists(i) /\ row[i].primary # "ok"
  BY DEF DiscardRow, Comparable, Store!ActionColumn
<1>2. claim' = claim /\ found' = found
  BY DEF DiscardRow
<1> QED
  BY <1>1, <1>2, FinalizeKeeps DEF RowInv, RowTypeOK

LEMMA SweepRowKeeps ==
    ASSUME RowInv, NEW t \in Sweepers, NEW i \in Ids, SweepRow(t, i)
    PROVE  RowInv' /\ IngestKept
<1>1. /\ Finalize(i, "timeout_stale", "candidate_error", None)
      /\ None \in Store!ActionColumn /\ Exists(i)
  BY DEF SweepRow, RowInv, RowTypeOK, Exists, Store!ActionColumn
<1>2. /\ claim' = claim
      /\ found' \in [Sweepers -> SUBSET Ids]
      /\ \A u \in Sweepers : found'[u] \subseteq found[u]
  BY DEF SweepRow, RowInv, RowTypeOK
<1> QED
  BY <1>1, <1>2, FinalizeKeeps DEF RowInv, RowTypeOK

(* Steps that leave the table alone.                                       *)
LEMMA TableUntouched ==
    ASSUME RowInv, row' = row,
           claim' \in [Handlers -> Ids \cup {None}],
           \A h \in Handlers : claim'[h] = claim[h] \/ claim'[h] = None,
           found' \in [Sweepers -> SUBSET Ids],
           \A t \in Sweepers : \A i \in found'[t] : row[i] # None
    PROVE  RowInv' /\ IngestKept
<1>1. RowTypeOK'
  BY DEF RowInv, RowTypeOK
<1>2. RowsGood'
  BY DEF RowInv, RowsGood, Exists
<1>3. ClaimedAnswered'
  BY DEF RowInv, RowTypeOK, ClaimedAnswered
<1>4. IngestKept
  BY DEF IngestKept, Exists, SameIngest
<1> QED
  BY <1>1, <1>2, <1>3, <1>4 DEF RowInv

LEMMA SelectRowsKeeps ==
    ASSUME RowInv, NEW t \in Sweepers, NEW stale \in SUBSET Ids, SelectRows(t, stale)
    PROVE  RowInv' /\ IngestKept
<1>1. /\ row' = row /\ claim' = claim /\ found' = [found EXCEPT ![t] = stale]
      /\ \A i \in stale : row[i] # None
  BY DEF SelectRows, Exists
<1>2. /\ found' \in [Sweepers -> SUBSET Ids]
      /\ \A u \in Sweepers : \A i \in found'[u] : row[i] # None
  BY <1>1 DEF RowInv, RowTypeOK
<1> QED
  BY <1>1, <1>2, TableUntouched DEF RowInv, RowTypeOK

LEMMA GiveUpKeeps ==
    ASSUME RowInv, NEW handlers \in SUBSET Handlers, NEW sweepers \in SUBSET Sweepers,
           GiveUp(handlers, sweepers)
    PROVE  RowInv' /\ IngestKept
<1>1. /\ row' = row
      /\ claim' \in [Handlers -> Ids \cup {None}]
      /\ \A h \in Handlers : claim'[h] = claim[h] \/ claim'[h] = None
  BY DEF GiveUp, RowInv, RowTypeOK
<1>2. /\ found' \in [Sweepers -> SUBSET Ids]
      /\ \A t \in Sweepers : \A i \in found'[t] : row[i] # None
  BY DEF GiveUp, RowInv, RowTypeOK
<1> QED
  BY <1>1, <1>2, TableUntouched

LEMMA RowStep == RowInv /\ [RowNext]_rowVars => RowInv' /\ (IngestKept \/ UNCHANGED rowVars)
<1> SUFFICES ASSUME RowInv, [RowNext]_rowVars
             PROVE  RowInv' /\ (IngestKept \/ UNCHANGED rowVars)
  OBVIOUS
<1>1. CASE \E i \in Ids : InsertRow(i)
  BY <1>1, InsertRowKeeps
<1>2. CASE \E i \in Ids : DiscardRow(i)
  BY <1>2, DiscardRowKeeps
<1>3. CASE \E h \in Handlers : JudgeRow(h)
  BY <1>3, JudgeRowKeeps
<1>4. CASE \E h \in Handlers : ErrorRow(h)
  BY <1>4, ErrorRowKeeps
<1>5. CASE \E h \in Handlers, i \in Ids : MarkRow(h, i)
  BY <1>5, MarkRowKeeps
<1>6. CASE \E t \in Sweepers, stale \in SUBSET Ids : SelectRows(t, stale)
  BY <1>6, SelectRowsKeeps
<1>7. CASE \E t \in Sweepers, i \in Ids : SweepRow(t, i)
  BY <1>7, SweepRowKeeps
<1>8. CASE \E handlers \in SUBSET Handlers, sweepers \in SUBSET Sweepers :
             GiveUp(handlers, sweepers)
  BY <1>8, GiveUpKeeps
<1>9. CASE UNCHANGED rowVars
  <2>1. row' = row /\ claim' = claim /\ found' = found
    BY <1>9 DEF rowVars
  <2> QED
    BY <1>9, <2>1, TableUntouched DEF RowInv, RowTypeOK
<1> QED
  BY <1>1, <1>2, <1>3, <1>4, <1>5, <1>6, <1>7, <1>8, <1>9 DEF RowNext

LEMMA RowInitially == RowInit => RowInv
BY DEF RowInit, RowInv, RowTypeOK, RowsGood, ClaimedAnswered, Exists

(* For any number of rows, handlers and sweepers: what a handler or a      *)
(* sweep has in hand is a row of the table, of its type (sql.py).          *)
THEOREM RowTypeCorrect == RowSpec => []RowTypeOK
<1>1. RowInv => RowTypeOK
  BY DEF RowInv
<1> QED
  BY <1>1, RowInitially, RowStep, PTL DEF RowSpec

(* However many handlers and sweepers of however many replicas write one   *)
(* row without looking at what they replace (sql.py, mark_in_progress and  *)
(* finalize), its status and its verdict agree.                            *)
THEOREM StatusAgreesWithVerdict == RowSpec => []StatusAndVerdict
<1>1. RowInv => StatusAndVerdict
  BY InvariantGivesProperties
<1> QED
  BY <1>1, RowInitially, RowStep, PTL DEF RowSpec

(* A row whose primary call failed is never attempted and never shows an   *)
(* action, however often it is found, swept or requeued.                   *)
THEOREM FailedRowsAreNotShadowed == RowSpec => []FailedNeverShadowed
<1>1. RowInv => FailedNeverShadowed
  BY InvariantGivesProperties
<1> QED
  BY <1>1, RowInitially, RowStep, PTL DEF RowSpec

(* No row is deleted, and no writer changes what ingest wrote.             *)
THEOREM IngestNeverRewritten == RowSpec => IngestIsImmutable
<1> DEFINE Kept == \A i \in Ids : Exists(i) =>
                     /\ row'[i] # None
                     /\ row'[i].primary = row[i].primary
                     /\ row'[i].primaryAction = row[i].primaryAction
                     /\ row'[i].receivedAt = row[i].receivedAt
                     /\ row'[i].key = row[i].key
<1>1. RowInv /\ [RowNext]_rowVars => [Kept]_rowVars
  BY RowStep DEF IngestKept, SameIngest
<1> QED
  BY <1>1, RowInitially, RowStep, PTL DEF RowSpec, IngestIsImmutable
=============================================================================
