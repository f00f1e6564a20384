------------------------------ MODULE ReadApi ------------------------------
(***************************************************************************)
(* Reads of the comparison table that take more than one statement, while  *)
(* its writers go on: GET /v1/evaluations/summary, three SELECTs of        *)
(* SqlComparisonStore.summary(), and a client that walks through the pages *)
(* of GET /v1/evaluations with limit and offset.  One of them is under way *)
(* at a time: readers do not meet.  The table is that of RowLifecycle.     *)
(*                                                                         *)
(* Left out: the filters since, until, route and tenant_id, which select   *)
(* on columns that never change, equal values of received_at, match_rate,  *)
(* a quotient of verdicts, and the percentiles, of which only the number   *)
(* of rows they rest on is kept.                                           *)
(***************************************************************************)
EXTENDS RowLifecycle, FiniteSets, Functions

CONSTANTS
    Limit,      \* limit of a page
    Cutoffs,    \* where the window of a summary may begin
    Filters     \* verdict filters of a walk, None for no filter

ASSUME ReadApiAssumption ==
    /\ Limit \in Nat \ {0}
    /\ Cutoffs \subseteq Nat
    /\ Filters \subseteq Store!Verdict \cup {None}

VARIABLES
    request,    \* what the reader does next
    answer,     \* SummaryStats, as far as they are known
    walk        \* the walk through the pages

readVars == <<request, answer, walk>>
vars == <<rowVars, readVars>>

-----------------------------------------------------------------------------
RowIds == {i \in Ids : Exists(i)}

Requests == {"none", "total", "verdicts", "latencies", "summary", "page", "pages"}

Counts == [Store!Verdict -> Nat]

Answer == [since : Nat, total : Nat, verdicts : Counts, latencies : Nat]

Walk == [ filter   : Store!Verdict \cup {None},
          existing : SUBSET Ids,     \* history: what matched at the start
          left     : SUBSET Ids,     \* history: what has stopped to match
          leaves   : Nat,            \* history: how often a row has done so
          offset   : Nat,
          seen     : SUBSET Ids ]

TypeOK ==
    /\ RowTypeOK
    /\ request \in Requests
    /\ answer \in Answer
    /\ walk \in Walk

NoCounts == [v \in Store!Verdict |-> 0]

Init ==
    /\ RowInit
    /\ request = "none"
    /\ answer = [since |-> 0, total |-> 0, verdicts |-> NoCounts, latencies |-> 0]
    /\ walk = [filter |-> None, existing |-> {}, left |-> {}, leaves |-> 0,
             offset |-> 0, seen |-> {}]

-----------------------------------------------------------------------------
(* summary()                                                               *)

Window(since) == {i \in RowIds : row[i].receivedAt >= since}

Tally(S) == [v \in Store!Verdict |-> Cardinality({i \in S : row[i].verdict = v})]

(* A slip: each SELECT computes now() - window for itself.                 *)
CutoffRecomputed(select) == answer.since + select

(* The cutoff of the first, second and third SELECT.                       *)
Cutoff(select) == answer.since

AskSummary ==
    /\ request = "none"
    /\ request' = "total"
    /\ \E since \in Cutoffs : answer' = [answer EXCEPT !.since = since]
    /\ UNCHANGED <<rowVars, walk>>

SelectTotal ==
    /\ request = "total"
    /\ request' = "verdicts"
    /\ answer' = [answer EXCEPT !.total = Cardinality(Window(Cutoff(0)))]
    /\ UNCHANGED <<rowVars, walk>>

SelectVerdicts ==
    /\ request = "verdicts"
    /\ request' = "latencies"
    /\ answer' = [answer EXCEPT !.verdicts = Tally(Window(Cutoff(1)))]
    /\ UNCHANGED <<rowVars, walk>>

SelectLatencies ==
    /\ request = "latencies"
    /\ request' = "summary"
    /\ answer' = [answer EXCEPT !.latencies = Cardinality(Window(Cutoff(2)))]
    /\ UNCHANGED <<rowVars, walk>>

-----------------------------------------------------------------------------
(* list(), once per page                                                   *)

Matching(filter) == {i \in RowIds : filter = None \/ row[i].verdict = filter}

(* A slip: the rows judged last come first.                                *)
PrecedesByAttempts(i, j) ==
    \/ row[i].attempts > row[j].attempts
    \/ row[i].attempts = row[j].attempts /\ row[i].receivedAt > row[j].receivedAt

(* ORDER BY received_at DESC                                               *)
Precedes(i, j) == row[i].receivedAt > row[j].receivedAt

(* How many rows of the list come before row i.                            *)
Position(filter, i) == Cardinality({j \in Matching(filter) : Precedes(j, i)})

(* LIMIT Limit OFFSET offset                                               *)
Page(filter, offset) ==
    {i \in Matching(filter) : Position(filter, i) \in offset .. offset + Limit - 1}

AskPages ==
    /\ request = "none"
    /\ request' = "page"
    /\ \E filter \in Filters :
          walk' = [walk EXCEPT !.filter = filter, !.existing = Matching(filter)]
    /\ UNCHANGED <<rowVars, answer>>

(* A page shorter than the limit is the last one.                          *)
LastPage(page) == Cardinality(page) < Limit

ReadPage ==
    /\ request = "page"
    /\ LET page == Page(walk.filter, walk.offset)
       IN  /\ request' = IF LastPage(page) THEN "pages" ELSE "page"
           /\ walk' = [walk EXCEPT !.offset = @ + Limit, !.seen = @ \cup page]
    /\ UNCHANGED <<rowVars, answer>>

-----------------------------------------------------------------------------
(* A writer's step, and what the history variable notes of it.            *)
Write ==
    /\ RowNext
    /\ UNCHANGED <<request, answer>>
    /\ \E filter \in {walk.filter} :
          LET gone == Matching(filter) \ Matching(filter)'
          IN  walk' = IF request = "page"
                      THEN [walk EXCEPT !.left = @ \cup gone, !.leaves = @ + Cardinality(gone)]
                      ELSE walk

Next == \/ Write
        \/ AskSummary \/ SelectTotal \/ SelectVerdicts \/ SelectLatencies
        \/ AskPages \/ ReadPage

Spec == Init /\ [][Next]_vars

-----------------------------------------------------------------------------
Sum(counts) == FoldFunction(+, 0, counts)

(* The three parts of a summary describe three moments, but in order: no   *)
(* part misses a row that an earlier part has counted, and none counts a   *)
(* row that does not exist.                                                *)
SummaryInOrder ==
    /\ request \in {"latencies", "summary"} => answer.total <= Sum(answer.verdicts)
    /\ request = "summary" => /\ Sum(answer.verdicts) <= answer.latencies
                              /\ answer.latencies <= Cardinality(Window(answer.since))

(* A client that walks all pages meets every row that matched all the      *)
(* time, but for one row at most per time that a row left the list: so    *)
(* every row, if it asks for no verdict.  Rows may be inserted, also       *)
(* between older ones (received_at precedes the INSERT by a model call),   *)
(* judged and swept between two pages; a row may be met twice.             *)
PagesSkipOnlyForLeavers ==
    request = "pages" =>
        Cardinality((walk.existing \ walk.left) \ walk.seen) <= walk.leaves
=============================================================================
