---------------------------- MODULE RowLifecycle ----------------------------
(***************************************************************************)
(* The comparison table as its writers use it, without the queues, tasks,  *)
(* models and processes behind them: what may happen to a row, and what a  *)
(* writer must have done before.  ShadowProxy implements it; ReadApi reads *)
(* a table that behaves like it.                                           *)
(*                                                                         *)
(* claim[h] is the row that handler h has marked and not yet left;         *)
(* found[s] are the rows that a sweep of s has selected and not yet        *)
(* finalized.  Both may be given up at any moment (an error, a crash), and *)
(* neither is looked at by the UPDATEs of the others.                      *)
(***************************************************************************)
EXTENDS Integers

CONSTANTS Ids, Actions, None,
          Statuses,          \* values of primary_status
          Keys,              \* values of raw_object_key
          Times,             \* values of received_at
          Handlers, Sweepers,
          MaxAttempts        \* bound: attempts per row

ASSUME RowAssumption == MaxAttempts \in Nat /\ Times \subseteq Nat

VARIABLES row, claim, found

rowVars == <<row, claim, found>>

Judgements == {"match", "mismatch", "invalid_json"}

Store == INSTANCE ComparisonStore WITH Key <- Keys

ASSUME StoreAssumption ==
    /\ None \notin Store!Row
    /\ Statuses \subseteq Store!PrimaryStatus

RowTypeOK ==
    /\ row \in [Ids -> Store!Row \cup {None}]
    /\ claim \in [Handlers -> Ids \cup {None}]
    /\ found \in [Sweepers -> SUBSET Ids]
    /\ \A h \in Handlers : claim[h] # None =>
          /\ row[claim[h]] # None
          /\ row[claim[h]].attempts \in 1 .. MaxAttempts
    /\ \A s \in Sweepers : \A i \in found[s] : row[i] # None

RowInit ==
    /\ row = [i \in Ids |-> None]
    /\ claim = [h \in Handlers |-> None]
    /\ found = [s \in Sweepers |-> {}]

Exists(i) == row[i] # None

(* A slip: INSERT OR REPLACE.                                              *)
InsertableAlways(i) == TRUE

(* request_id is the primary key.                                          *)
Insertable(i) == ~Exists(i)

(* persist_pending(): one INSERT per request id, each at a time of its own.*)
InsertRow(i) ==
    /\ Insertable(i)
    /\ UNCHANGED <<claim, found>>
    /\ \E at \in Times, status \in Statuses :
          /\ \A j \in Ids : Exists(j) => row[j].receivedAt # at
          /\ \E action \in IF status = "ok" THEN Store!ActionColumn ELSE {None},
                key \in Keys :
                row' = [row EXCEPT ![i] = Store!PendingRow(status, action, key, at)]

(* A slip: the handler does not look at primary_status.                    *)
ComparableAlways(i) == TRUE

(* There is an answer of the primary to compare with.                      *)
Comparable(i) == row[i].primary = "ok"

(* The handler marks comparable rows only, but in any state.               *)
MarkRow(h, i) ==
    /\ claim[h] = None
    /\ Exists(i)
    /\ Comparable(i)
    /\ row[i].attempts < MaxAttempts
    /\ row' = [row EXCEPT ![i] = Store!Marked(@)]
    /\ claim' = [claim EXCEPT ![h] = i]
    /\ UNCHANGED found

Finalize(i, status, verdict, action) ==
    row' = [row EXCEPT ![i] = Store!Finalized(@, status, verdict, action)]

Leave(h) == claim' = [claim EXCEPT ![h] = None]

(* A match has a candidate's action, an invalid_json has none.             *)
JudgeRow(h) ==
    /\ claim[h] # None
    /\ Leave(h)
    /\ UNCHANGED found
    /\ \E verdict \in Judgements, action \in Store!ActionColumn :
          /\ verdict = "match" => action # None
          /\ verdict = "invalid_json" => action = None
          /\ Finalize(claim[h], "ok", verdict, action)

ErrorRow(h) ==
    /\ claim[h] # None
    /\ Finalize(claim[h], "error", "candidate_error", None)
    /\ Leave(h)
    /\ UNCHANGED found

(* A handler that meets a row without a primary answer drops it at once.   *)
DiscardRow(i) ==
    /\ Exists(i)
    /\ ~Comparable(i)
    /\ Finalize(i, "dropped", "primary_error", None)
    /\ UNCHANGED <<claim, found>>

SelectRows(s, stale) ==
    /\ found[s] = {}
    /\ \A i \in stale : Exists(i) /\ Store!Unfinished(row[i])
    /\ found' = [found EXCEPT ![s] = stale]
    /\ UNCHANGED <<row, claim>>

SweepRow(s, i) ==
    /\ i \in found[s]
    /\ Finalize(i, "timeout_stale", "candidate_error", None)
    /\ found' = [found EXCEPT ![s] = @ \ {i}]
    /\ UNCHANGED claim

(* Statements raise and processes die: what was in hand is let go of.      *)
GiveUp(handlers, sweepers) ==
    /\ claim' = [h \in Handlers |-> IF h \in handlers THEN None ELSE claim[h]]
    /\ found' = [s \in Sweepers |-> IF s \in sweepers THEN {} ELSE found[s]]
    /\ UNCHANGED row

RowNext ==
    \/ \E i \in Ids : InsertRow(i) \/ DiscardRow(i)
    \/ \E h \in Handlers : \/ JudgeRow(h) \/ ErrorRow(h)
                            \/ \E i \in Ids : MarkRow(h, i)
    \/ \E s \in Sweepers, stale \in SUBSET Ids : SelectRows(s, stale)
    \/ \E s \in Sweepers, i \in Ids : SweepRow(s, i)
    \/ \E handlers \in SUBSET Handlers, sweepers \in SUBSET Sweepers :
          GiveUp(handlers, sweepers)

RowSpec == RowInit /\ [][RowNext]_rowVars

-----------------------------------------------------------------------------
(* Whatever handlers and sweepers of whatever replicas do to one row in    *)
(* whatever order, its status and its verdict agree, unless it is in       *)
(* progress: then the verdict is what an earlier writer left.              *)
Agree(r) ==
    \/ r.candidate = "pending" /\ r.primary = "ok" /\ r.verdict = "pending"
    \/ r.candidate \in {"pending", "dropped"} /\ r.verdict = "primary_error"
                                             /\ r.primary # "ok"
    \/ r.candidate = "in_progress" /\ r.verdict # "primary_error"
    \/ r.candidate = "ok" /\ r.verdict \in Judgements
    \/ r.candidate \in {"error", "timeout_stale"} /\ r.verdict = "candidate_error"

StatusAndVerdict == \A i \in Ids : Exists(i) => Agree(row[i])

(* A row whose primary failed is never attempted, never judged and never   *)
(* shows an action.                                                        *)
FailedNeverShadowed ==
    \A i \in Ids : Exists(i) /\ row[i].primary # "ok" =>
        /\ row[i].attempts = 0
        /\ row[i].candidate \in {"pending", "dropped", "timeout_stale"}
        /\ row[i].primaryAction = None /\ row[i].candidateAction = None

(* Rows are never deleted, and what the request path wrote is never        *)
(* rewritten by what runs in the background.                               *)
IngestIsImmutable ==
    [][\A i \in Ids : Exists(i) =>
         /\ row'[i] # None
         /\ row'[i].primary = row[i].primary
         /\ row'[i].primaryAction = row[i].primaryAction
         /\ row'[i].receivedAt = row[i].receivedAt
         /\ row'[i].key = row[i].key]_rowVars
=============================================================================
