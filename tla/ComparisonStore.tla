-------------------------- MODULE ComparisonStore --------------------------
(***************************************************************************)
(* One row of SqlComparisonStore (store/sql.py) and what each of its       *)
(* statements does to it.  Every UPDATE is keyed by request_id alone: none *)
(* looks at the status it replaces.                                        *)
(* Left out of the row: latencies, hashes, tenant, reasons, error texts    *)
(* and evaluated_at, which no other statement reads.                       *)
(***************************************************************************)
EXTENDS Integers

CONSTANTS Actions, None,
          Key            \* the values of raw_object_key, None included

PrimaryStatus   == {"ok", "error", "timeout"}
CandidateStatus == {"pending", "in_progress", "ok", "error", "timeout_stale", "dropped"}
Verdict == {"pending", "match", "mismatch", "invalid_json", "candidate_error", "primary_error"}

ActionColumn == Actions \cup {None}

Row == [ primary         : PrimaryStatus,
         primaryAction   : ActionColumn,
         receivedAt      : Nat,
         key             : Key,
         candidate       : CandidateStatus,
         candidateAction : ActionColumn,
         verdict         : Verdict,
         attempts        : Nat ]

(* insert_pending()                                                        *)
PendingRow(status, action, key, at) ==
    [ primary         |-> status,
      primaryAction   |-> action,
      receivedAt      |-> at,
      key             |-> key,
      candidate       |-> "pending",
      candidateAction |-> None,
      verdict         |-> IF status = "ok" THEN "pending" ELSE "primary_error",
      attempts        |-> 0 ]

(* mark_in_progress()                                                      *)
Marked(r) == [r EXCEPT !.candidate = "in_progress", !.attempts = @ + 1]

(* A slip: the verdict is left out of the UPDATE.                          *)
FinalizedNoVerdict(r, status, verdict, action) == [r EXCEPT !.candidate = status]
(* finalize(): a patch without a candidate_action keeps the column.        *)
Finalized(r, status, verdict, action) ==
    [r EXCEPT !.candidate = status,
              !.verdict = verdict,
              !.candidateAction = IF action = None THEN @ ELSE action]

(* A slip: everything that was not dropped counts as unfinished.           *)
UnfinishedUnlessDropped(r) == r.candidate # "dropped"

(* What find_stale() and find_all_unfinished() select on.                  *)
Unfinished(r) == r.candidate \in {"pending", "in_progress"}

(* The verdict of this row came from comparing two answers.                *)
Evaluated(r) == r.candidate = "ok"
=============================================================================
