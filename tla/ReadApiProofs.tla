---------------------------- MODULE ReadApiProofs ----------------------------
(***************************************************************************)
(* Proofs about ReadApi, for any number of rows and writers, any limit of  *)
(* a page, any windows and filters.                                        *)
(***************************************************************************)
EXTENDS ReadApi, RowLifecycleProofs, FiniteSetTheorems, TLAPS

-----------------------------------------------------------------------------
(* Counting: least numbers, and the sum of a function over a finite set.   *)
AnyOf(s) == CHOOSE x \in s : TRUE

LEMMA LeastNatural ==
    ASSUME NEW T \in SUBSET Nat, T # {}
    PROVE  \E n \in T : \A m \in T : n <= m
<1> DEFINE Up == {1 .. n : n \in T}
<1>1. Up \subseteq FiniteSubsetsOf(Nat) /\ Up # {}
  <2>1. ASSUME NEW n \in T PROVE 1 .. n \in SUBSET Nat /\ IsFiniteSet(1 .. n)
    BY FS_Interval
  <2> QED
    BY <2>1 DEF FiniteSubsetsOf
<1>2. PICK u \in Up : \A v \in Up : ~(<<v, u>> \in StrictSubsetOrdering(Nat))
  <2> HIDE DEF Up
  <2> QED
    BY <1>1, FS_StrictSubsetOrderingWellFounded, WFMin
<1>3. PICK n \in T : u = 1 .. n
  OBVIOUS
<1>4. ASSUME NEW m \in T, m < n PROVE FALSE
  <2>1. 1 .. m \in Up /\ 1 .. m \subseteq 1 .. n /\ n \in 1 .. n /\ n \notin 1 .. m
    BY <1>4
  <2>2. 1 .. m \in SUBSET Nat /\ 1 .. n \in SUBSET Nat
    OBVIOUS
  <2> QED
    BY <1>2, <1>3, <2>1, <2>2 DEF StrictSubsetOrdering
<1> QED
  BY <1>4

(* The fold of Sum is the only function that adds up a set by taking out   *)
(* one element after the other.                                            *)
AddsUp(g, counts) ==
    g = [s \in SUBSET DOMAIN counts |->
            IF s = {} THEN 0 ELSE counts[AnyOf(s)] + g[s \ {AnyOf(s)}]]

LEMMA SumUnique ==
    ASSUME NEW counts, NEW D, D = DOMAIN counts, IsFiniteSet(D),
           NEW g, AddsUp(g, counts)
    PROVE  Sum(counts) = g[D]
<1> DEFINE iter == CHOOSE h : AddsUp(h, counts)
<1>1. Sum(counts) = iter[D]
  BY DEF Sum, FoldFunction, FoldFunctionOnSet, MapThenFoldSet, AnyOf, AddsUp
<1>2. AddsUp(iter, counts)
  OBVIOUS
<1> HIDE DEF iter
<1> DEFINE T == {s \in SUBSET D : iter[s] # g[s]}
<1> SUFFICES ASSUME T # {} PROVE FALSE
  BY <1>1
<1>3. PICK s \in T : \A t \in T : ~(<<t, s>> \in StrictSubsetOrdering(D))
  <2>1. FiniteSubsetsOf(D) = SUBSET D
    BY FS_FiniteSubsetsOfFinite
  <2>2. IsWellFoundedOn(StrictSubsetOrdering(D), SUBSET D)
    BY <2>1, FS_StrictSubsetOrderingWellFounded
  <2>3. T \subseteq SUBSET D
    OBVIOUS
  <2> HIDE DEF T
  <2> QED
    BY <2>2, <2>3, WFMin
<1>4. /\ iter[s] = IF s = {} THEN 0 ELSE counts[AnyOf(s)] + iter[s \ {AnyOf(s)}]
      /\ g[s] = IF s = {} THEN 0 ELSE counts[AnyOf(s)] + g[s \ {AnyOf(s)}]
  <2>1. s \in SUBSET D
    OBVIOUS
  <2>2. ASSUME NEW h, AddsUp(h, counts)
        PROVE  h[s] = IF s = {} THEN 0 ELSE counts[AnyOf(s)] + h[s \ {AnyOf(s)}]
    BY <2>1, <2>2 DEF AddsUp
  <2> QED
    BY <1>2, <2>2
<1>5. s # {}
  BY <1>4
<1>6. AnyOf(s) \in s
  BY <1>5 DEF AnyOf
<1>7. s \ {AnyOf(s)} \in T
  BY <1>4, <1>5
<1> QED
  BY <1>3, <1>6, <1>7 DEF StrictSubsetOrdering

(* The elements of S by the value that f gives them: the counts of a       *)
(* partition of S add up to the size of S.                                 *)
LEMMA SumOfPartition ==
    ASSUME NEW S, IsFiniteSet(S), NEW D, IsFiniteSet(D), NEW f \in [S -> D],
           NEW counts, counts = [d \in D |-> Cardinality({i \in S : f[i] = d})]
    PROVE  Sum(counts) = Cardinality(S)
<1> DEFINE g == [s \in SUBSET D |-> Cardinality({i \in S : f[i] \in s})]
<1>1. ASSUME NEW s \in SUBSET D
      PROVE  g[s] = IF s = {} THEN 0 ELSE counts[AnyOf(s)] + g[s \ {AnyOf(s)}]
  <2>1. CASE s = {}
    <3>1. {i \in S : f[i] \in s} = {}
      BY <2>1
    <3> QED
      BY <2>1, <3>1, FS_EmptySet
  <2>2. CASE s # {}
    <3> DEFINE d == AnyOf(s)
               A == {i \in S : f[i] = d}
               B == {i \in S : f[i] \in s \ {d}}
    <3>1. d \in s
      BY <2>2 DEF AnyOf
    <3>2. {i \in S : f[i] \in s} = A \cup B /\ A \cap B = {}
      BY <3>1
    <3>3. IsFiniteSet(A) /\ IsFiniteSet(B)
      BY FS_Subset
    <3>4. Cardinality(A \cup B) = Cardinality(A) + Cardinality(B)
      <4>1. Cardinality(A \cup B) = Cardinality(A) + Cardinality(B) - Cardinality(A \cap B)
        BY <3>3, FS_Union
      <4>2. Cardinality(A \cap B) = 0
        BY <3>2, FS_EmptySet
      <4>3. Cardinality(A) \in Nat /\ Cardinality(B) \in Nat
        BY <3>3, FS_CardinalityType
      <4> QED
        BY <4>1, <4>2, <4>3
    <3>5. counts[d] = Cardinality(A) /\ g[s \ {d}] = Cardinality(B)
      BY <3>1
    <3> HIDE DEF d
    <3> QED
      BY <2>2, <3>2, <3>4, <3>5 DEF d
  <2> QED
    BY <2>1, <2>2
<1>2. AddsUp(g, counts)
  <2>1. DOMAIN counts = D
    OBVIOUS
  <2>2. g = [s \in SUBSET D |-> g[s]]
    OBVIOUS
  <2> HIDE DEF g
  <2>3. [s \in SUBSET D |-> g[s]] =
          [s \in SUBSET D |-> IF s = {} THEN 0 ELSE counts[AnyOf(s)] + g[s \ {AnyOf(s)}]]
    BY <1>1
  <2> QED
    BY <2>1, <2>2, <2>3 DEF AddsUp
<1>3. g[D] = Cardinality(S)
  <2>1. {i \in S : f[i] \in D} = S
    OBVIOUS
  <2> QED
    BY <2>1
<1> HIDE DEF g
<1> QED
  BY <1>2, <1>3, SumUnique

-----------------------------------------------------------------------------
(* The place of a row in a list ordered by time, latest first.             *)
Before(M, at, i) == {j \in M : at[j] > at[i]}
Rank(M, at, i) == Cardinality(Before(M, at, i))

Timed(M, at) == /\ IsFiniteSet(M) /\ at \in [M -> Nat]
                /\ \A i, j \in M : at[i] = at[j] => i = j

LEMMA RankType ==
    ASSUME NEW M, NEW at, Timed(M, at), NEW i \in M
    PROVE  IsFiniteSet(Before(M, at, i)) /\ Rank(M, at, i) \in Nat
<1>1. Before(M, at, i) \in SUBSET M
  BY DEF Before
<1> QED
  BY <1>1, FS_Subset, FS_CardinalityType DEF Timed, Rank

(* The later row comes first.                                              *)
LEMMA RankOrder ==
    ASSUME NEW M, NEW at, Timed(M, at), NEW i \in M, NEW j \in M, at[i] > at[j]
    PROVE  Rank(M, at, i) < Rank(M, at, j)
<1>1. /\ Before(M, at, i) \subseteq Before(M, at, j)
      /\ i \in Before(M, at, j) /\ i \notin Before(M, at, i)
  BY DEF Before, Timed
<1>2. Cardinality(Before(M, at, i)) <= Cardinality(Before(M, at, j))
      /\ Cardinality(Before(M, at, i)) # Cardinality(Before(M, at, j))
  BY <1>1, RankType, FS_Subset
<1> QED
  BY <1>2, RankType DEF Rank

LEMMA RankInjective ==
    ASSUME NEW M, NEW at, Timed(M, at), NEW i \in M, NEW j \in M,
           Rank(M, at, i) = Rank(M, at, j)
    PROVE  i = j
<1>1. at[i] > at[j] \/ at[j] > at[i] \/ at[i] = at[j]
  BY DEF Timed
<1> QED
  BY <1>1, RankOrder, RankType DEF Timed

(* At most n rows share n places.                                          *)
LEMMA FewPlaces ==
    ASSUME NEW M, NEW at, Timed(M, at), NEW a \in Nat, NEW n \in Nat,
           NEW S \in SUBSET M, \A i \in S : Rank(M, at, i) \in a .. a + n - 1
    PROVE  IsFiniteSet(S) /\ Cardinality(S) <= n
<1> DEFINE f == [i \in S |-> Rank(M, at, i)]
<1>1. f \in Injection(S, a .. a + n - 1)
  BY RankInjective DEF Injection, IsInjective
<1>2. IsFiniteSet(a .. a + n - 1) /\ Cardinality(a .. a + n - 1) = n
  BY FS_Interval
<1> QED
  BY <1>1, <1>2, FS_Injection

(* If some row comes behind place b, all places from a up to b are taken.  *)
LEMMA PlacesTaken ==
    ASSUME NEW M, NEW at, Timed(M, at), NEW a \in Nat, NEW n \in Nat,
           NEW i \in M, Rank(M, at, i) >= a + n
    PROVE  n <= Cardinality({j \in M : Rank(M, at, j) \in a .. a + n - 1})
<1> DEFINE Later == {Rank(M, at, j) : j \in {k \in M : Rank(M, at, k) >= a + n}}
<1>1. Later \in SUBSET Nat /\ Later # {}
  BY RankType
<1>2. PICK r \in Later : \A q \in Later : r <= q
  <2> HIDE DEF Later
  <2> QED
    BY <1>1, LeastNatural
<1>3. PICK j \in M : Rank(M, at, j) = r /\ r >= a + n
  OBVIOUS
<1> DEFINE P == {k \in M : Rank(M, at, k) \in a .. a + n - 1}
           F == {k \in M : Rank(M, at, k) \in 0 .. 0 + a - 1}
<1>4. Before(M, at, j) \subseteq F \cup P
  <2> SUFFICES ASSUME NEW k \in Before(M, at, j) PROVE k \in F \cup P
    OBVIOUS
  <2>1. k \in M /\ at[k] > at[j]
    BY DEF Before
  <2>2. Rank(M, at, k) < r /\ Rank(M, at, k) \in Nat
    BY <1>3, <2>1, RankOrder, RankType
  <2>3. Rank(M, at, k) < a + n
    <3>1. CASE Rank(M, at, k) >= a + n
      <4>1. Rank(M, at, k) \in Later
        BY <2>1, <3>1
      <4> QED
        BY <1>1, <1>2, <2>2, <4>1
    <3> QED
      BY <2>2, <3>1
  <2> QED
    BY <2>1, <2>2, <2>3
<1>5. IsFiniteSet(F) /\ Cardinality(F) <= a
  <2>1. F \in SUBSET M /\ \A k \in F : Rank(M, at, k) \in 0 .. 0 + a - 1
    OBVIOUS
  <2> HIDE DEF F
  <2> QED
    BY <2>1, FewPlaces
<1>6. IsFiniteSet(P)
  BY FS_Subset DEF Timed
<1> HIDE DEF F, P
<1>7. /\ IsFiniteSet(F \cup P)
      /\ Cardinality(F \cup P) = Cardinality(F) + Cardinality(P) - Cardinality(F \cap P)
      /\ IsFiniteSet(F \cap P)
  BY <1>5, <1>6, FS_Union, FS_Intersection
<1>8. Cardinality(Before(M, at, j)) <= Cardinality(F \cup P)
  BY <1>4, <1>7, FS_Subset
<1>9. /\ Cardinality(F) \in Nat /\ Cardinality(P) \in Nat
      /\ Cardinality(F \cap P) \in Nat
  BY <1>5, <1>6, <1>7, FS_CardinalityType
<1>10. n <= Cardinality(P)
  <2>1. r = Cardinality(Before(M, at, j)) /\ r \in Nat
    BY <1>1, <1>3 DEF Rank
  <2> QED
    BY <1>3, <1>5, <1>7, <1>8, <1>9, <2>1
<1> QED
  BY <1>10 DEF P

-----------------------------------------------------------------------------
(* What the writers of the table do to a list of it.                       *)

(* No two rows have been received at the same time.                        *)
Distinct == \A i, j \in RowIds : row[i].receivedAt = row[j].receivedAt => i = j

TableInv == RowInv /\ IsFiniteSet(RowIds) /\ Distinct

(* What a step of the table does to the rows there are.                    *)
RowsStay == \A i \in RowIds : i \in RowIds' /\ row'[i].receivedAt = row[i].receivedAt

LEMMA OneRowAtMost ==
    ASSUME RowInv, [RowNext]_rowVars
    PROVE  \/ RowIds' = RowIds
           \/ \E i \in Ids : InsertRow(i) /\ RowIds' = RowIds \cup {i}
<1>1. /\ row \in [Ids -> Store!Row \cup {None}]
      /\ \A h \in Handlers : claim[h] # None => claim[h] \in Ids /\ row[claim[h]] # None
      /\ \A t \in Sweepers : \A i \in found[t] : i \in Ids /\ row[i] # None
  BY DEF RowInv, RowTypeOK
<1>2. row' \in [Ids -> Store!Row \cup {None}] /\ \A i \in RowIds : i \in RowIds'
  BY RowStep DEF RowInv, RowTypeOK, IngestKept, RowIds, Exists, rowVars
<1>3. ASSUME NEW i \in Ids, row[i] # None, NEW s, row' = [row EXCEPT ![i] = s]
      PROVE  RowIds' = RowIds
  BY <1>1, <1>2, <1>3 DEF RowIds, Exists
<1>4. CASE \E i \in Ids : InsertRow(i)
  <2>1. PICK i \in Ids : InsertRow(i)
    BY <1>4
  <2>2. PICK s : row' = [row EXCEPT ![i] = s]
    BY <2>1 DEF InsertRow
  <2>3. RowIds' = RowIds \/ RowIds' = RowIds \cup {i}
    BY <1>1, <1>2, <2>2 DEF RowIds, Exists
  <2> QED
    BY <2>1, <2>3
<1>5. CASE \E i \in Ids : DiscardRow(i)
  BY <1>3, <1>5 DEF DiscardRow, Finalize, Exists
<1>6. CASE \E h \in Handlers : JudgeRow(h)
  BY <1>1, <1>3, <1>6 DEF JudgeRow, Finalize
<1>7. CASE \E h \in Handlers : ErrorRow(h)
  BY <1>1, <1>3, <1>7 DEF ErrorRow, Finalize
<1>8. CASE \E h \in Handlers, i \in Ids : MarkRow(h, i)
  BY <1>3, <1>8 DEF MarkRow, Exists
<1>9. CASE \E t \in Sweepers, i \in Ids : SweepRow(t, i)
  <2>1. PICK t \in Sweepers, i \in Ids : SweepRow(t, i)
    BY <1>9
  <2>2. i \in Ids /\ row[i] # None
    BY <1>1, <2>1 DEF SweepRow
  <2>3. PICK s : row' = [row EXCEPT ![i] = s]
    BY <2>1 DEF SweepRow, Finalize
  <2> QED
    BY <1>3, <2>2, <2>3
<1>10. CASE row' = row
  BY <1>10 DEF RowIds, Exists
<1> QED
  BY <1>4, <1>5, <1>6, <1>7, <1>8, <1>9, <1>10
     DEF RowNext, SelectRows, GiveUp, rowVars

LEMMA TableStep ==
    ASSUME TableInv, [RowNext]_rowVars
    PROVE  TableInv' /\ RowsStay
<1>1. RowInv' /\ RowsStay
  BY RowStep DEF TableInv, RowInv, RowTypeOK, IngestKept, SameIngest, RowsStay, RowIds,
                 Exists, rowVars
<1>2. IsFiniteSet(RowIds')
  BY OneRowAtMost, FS_AddElement DEF TableInv
<1>3. CASE RowIds' = RowIds
  BY <1>1, <1>2, <1>3 DEF TableInv, Distinct, RowsStay
<1>4. CASE \E i \in Ids : InsertRow(i) /\ RowIds' = RowIds \cup {i}
  <2>1. PICK i \in Ids : InsertRow(i) /\ RowIds' = RowIds \cup {i}
    BY <1>4
  <2>2. PICK at \in Times, status \in Statuses :
          /\ \A j \in Ids : Exists(j) => row[j].receivedAt # at
          /\ \E action, key : row' = [row EXCEPT ![i] = Store!PendingRow(status, action, key, at)]
    BY <2>1 DEF InsertRow
  <2>3. row'[i].receivedAt = at
    BY <2>2 DEF TableInv, RowInv, RowTypeOK, Store!PendingRow
  <2>4. \A j \in RowIds : row'[j].receivedAt # at
    BY <1>1, <2>2 DEF RowsStay, RowIds
  <2> QED
    BY <1>1, <1>2, <2>1, <2>3, <2>4 DEF TableInv, Distinct, RowsStay
<1> QED
  BY <1>3, <1>4, OneRowAtMost DEF TableInv

LEMMA TableInitially == RowInit => TableInv
<1> SUFFICES ASSUME RowInit PROVE TableInv
  OBVIOUS
<1>1. RowIds = {}
  BY DEF RowInit, RowIds, Exists
<1> QED
  BY <1>1, RowInitially, FS_EmptySet DEF TableInv, Distinct

LEMMA FiniteLists ==
    ASSUME TableInv
    PROVE  /\ \A since : IsFiniteSet(Window(since))
           /\ \A filter : IsFiniteSet(Matching(filter))
BY FS_Subset DEF TableInv, Window, Matching
-----------------------------------------------------------------------------
(* Types.                                                                  *)
LEMMA VerdictsFinite == IsFiniteSet(Store!Verdict)
<1>1. \A x, y, z : IsFiniteSet({x, y, z})
  <2> SUFFICES ASSUME NEW x, NEW y, NEW z PROVE IsFiniteSet({x, y, z})
    OBVIOUS
  <2>1. IsFiniteSet({x} \cup {y})
    BY FS_Singleton, FS_AddElement
  <2>2. IsFiniteSet(({x} \cup {y}) \cup {z})
    BY <2>1, FS_AddElement
  <2>3. ({x} \cup {y}) \cup {z} = {x, y, z}
    OBVIOUS
  <2> QED
    BY <2>2, <2>3
<1>2. IsFiniteSet({"pending", "match", "mismatch"}
                  \cup {"invalid_json", "candidate_error", "primary_error"})
  BY <1>1, FS_Union
<1>3. Store!Verdict = {"pending", "match", "mismatch"}
                      \cup {"invalid_json", "candidate_error", "primary_error"}
  BY DEF Store!Verdict
<1> QED
  BY <1>2, <1>3

ReadTypes == request \in Requests /\ answer \in Answer /\ walk \in Walk

LEMMA TallyType ==
    ASSUME TableInv, NEW S \in SUBSET RowIds
    PROVE  Tally(S) \in Counts /\ Cardinality(S) \in Nat
<1>1. \A T \in SUBSET S : Cardinality(T) \in Nat
  <2> SUFFICES ASSUME NEW T \in SUBSET S PROVE Cardinality(T) \in Nat
    OBVIOUS
  <2>1. T \in SUBSET RowIds /\ IsFiniteSet(RowIds)
    BY DEF TableInv
  <2> QED
    BY <2>1, FS_Subset, FS_CardinalityType
<1> QED
  BY <1>1 DEF Tally, Counts

(* The six counts of a tally add up to the number of its rows.             *)
LEMMA SumOfTally ==
    ASSUME TableInv, NEW S \in SUBSET RowIds
    PROVE  Sum(Tally(S)) = Cardinality(S)
<1> DEFINE f == [i \in S |-> row[i].verdict]
<1>1. f \in [S -> Store!Verdict]
  BY DEF TableInv, RowInv, RowTypeOK, RowIds, Exists, Store!Row
<1>2. Tally(S) = [d \in Store!Verdict |-> Cardinality({i \in S : f[i] = d})]
  <2>1. \A d : {i \in S : row[i].verdict = d} = {i \in S : f[i] = d}
    OBVIOUS
  <2> HIDE DEF f
  <2> QED
    BY <2>1 DEF Tally
<1>3. IsFiniteSet(S)
  BY FS_Subset DEF TableInv
<1> HIDE DEF f
<1> QED
  BY <1>1, <1>2, <1>3, VerdictsFinite, SumOfPartition

LEMMA WindowRows == \A since : Window(since) \in SUBSET RowIds
BY DEF Window

LEMMA MatchingRows == \A filter : Matching(filter) \in SUBSET Ids
BY DEF Matching, RowIds

(* A window only ever gains rows.                                          *)
LEMMA WindowGrows ==
    ASSUME TableInv, TableInv', RowsStay, NEW since
    PROVE  Cardinality(Window(since)) <= Cardinality(Window(since)')
<1>1. Window(since) \subseteq Window(since)'
  BY DEF Window, RowsStay
<1>2. IsFiniteSet(Window(since)')
  BY FS_Subset DEF TableInv, Window
<1> QED
  BY <1>1, <1>2, FS_Subset
-----------------------------------------------------------------------------
(* The steps of the reader and of the writers.                             *)
ReadStep ==
    \/ AskSummary \/ SelectTotal \/ SelectVerdicts \/ SelectLatencies
    \/ AskPages \/ ReadPage

LEMMA ReadStepTable == ReadStep => UNCHANGED rowVars
BY DEF ReadStep, AskSummary, SelectTotal, SelectVerdicts, SelectLatencies, AskPages, ReadPage

LEMMA NextTable ==
    ASSUME TableInv, [Next]_vars
    PROVE  TableInv' /\ RowsStay
<1>1. [RowNext]_rowVars
  BY ReadStepTable DEF Next, ReadStep, Write, vars, rowVars
<1> QED
  BY <1>1, TableStep

LEMMA ReadTypesKept ==
    ASSUME TableInv, TableInv', ReadTypes, [Next]_vars
    PROVE  ReadTypes'
<1> USE DEF ReadTypes
<1>1. CASE AskSummary
  BY <1>1, ReadApiAssumption DEF AskSummary, Requests, Answer, ReadApiAssumption
<1>2. CASE SelectTotal
  <2>1. Cardinality(Window(Cutoff(0))) \in Nat
    BY WindowRows, TallyType
  <2> QED
    BY <1>2, <2>1 DEF SelectTotal, Requests, Answer
<1>3. CASE SelectVerdicts
  <2>1. Tally(Window(Cutoff(1))) \in Counts
    BY WindowRows, TallyType
  <2> QED
    BY <1>3, <2>1 DEF SelectVerdicts, Requests, Answer
<1>4. CASE SelectLatencies
  <2>1. Cardinality(Window(Cutoff(2))) \in Nat
    BY WindowRows, TallyType
  <2> QED
    BY <1>4, <2>1 DEF SelectLatencies, Requests, Answer
<1>5. CASE AskPages
  <2>1. PICK filter \in Filters :
          walk' = [walk EXCEPT !.filter = filter, !.existing = Matching(filter)]
    BY <1>5 DEF AskPages
  <2>2. filter \in Store!Verdict \cup {None} /\ Matching(filter) \in SUBSET Ids
    BY ReadApiAssumption, MatchingRows DEF ReadApiAssumption
  <2>3. request' \in Requests /\ answer' = answer
    BY <1>5 DEF AskPages, Requests
  <2> QED
    BY <2>1, <2>2, <2>3 DEF Walk
<1>6. CASE ReadPage
  <2>1. PICK page : page = Page(walk.filter, walk.offset)
    OBVIOUS
  <2>2. page \in SUBSET Ids
    BY <2>1, MatchingRows DEF Page
  <2>3. request' \in Requests /\ answer' = answer
    BY <1>6 DEF ReadPage, Requests
  <2>4. walk' = [walk EXCEPT !.offset = @ + Limit, !.seen = @ \cup page]
    BY <1>6, <2>1 DEF ReadPage
  <2>5. walk.offset + Limit \in Nat /\ walk.seen \cup page \in SUBSET Ids
    BY <2>2, ReadApiAssumption DEF Walk, ReadApiAssumption
  <2> QED
    BY <2>3, <2>4, <2>5 DEF Walk
<1>7. CASE Write
  <2>1. PICK filter : filter = walk.filter
    OBVIOUS
  <2>2. PICK gone : gone = Matching(filter) \ Matching(filter)'
    OBVIOUS
  <2>3. gone \in SUBSET Ids /\ Cardinality(gone) \in Nat
    BY <2>2, MatchingRows, FiniteLists, FS_Difference, FS_CardinalityType
  <2>4. request' = request /\ answer' = answer
    BY <1>7 DEF Write
  <2>5. \/ walk' = walk
        \/ walk' = [walk EXCEPT !.left = @ \cup gone, !.leaves = @ + Cardinality(gone)]
    BY <1>7, <2>1, <2>2 DEF Write
  <2>6. walk.left \cup gone \in SUBSET Ids /\ walk.leaves + Cardinality(gone) \in Nat
    BY <2>3 DEF Walk
  <2> QED
    BY <2>4, <2>5, <2>6 DEF Walk
<1>8. CASE UNCHANGED vars
  BY <1>8 DEF vars, readVars
<1> QED
  BY <1>1, <1>2, <1>3, <1>4, <1>5, <1>6, <1>7, <1>8 DEF Next

-----------------------------------------------------------------------------
(* GET /v1/evaluations/summary.                                            *)

(* Each SELECT counts no more rows than there are now in the window.       *)
SummaryInv ==
    LET inWindow == Cardinality(Window(answer.since))
        judged   == Sum(answer.verdicts)
    IN  /\ request \in {"latencies", "summary"} => judged \in Nat
        /\ request = "verdicts" => answer.total <= inWindow
        /\ request = "latencies" => answer.total <= judged /\ judged <= inWindow
        /\ request = "summary" => /\ answer.total <= judged
                                  /\ judged <= answer.latencies
                                  /\ answer.latencies <= inWindow

LEMMA SummaryKept ==
    ASSUME TableInv, TableInv', RowsStay, ReadTypes, ReadTypes', SummaryInv, [Next]_vars
    PROVE  SummaryInv'
<1>1. PICK since : since = answer.since
  OBVIOUS
<1>2. PICK n : n = Cardinality(Window(since))
  OBVIOUS
<1>3. PICK m : m = Cardinality(Window(since)')
  OBVIOUS
<1>4. n \in Nat /\ m \in Nat /\ n <= m
  <2>1. Window(since) \in SUBSET RowIds /\ Window(since)' \in SUBSET RowIds'
    BY DEF Window
  <2>2. Cardinality(Window(since)) \in Nat
    BY <2>1, TallyType
  <2>3. Cardinality(Window(since)') \in Nat
    BY <2>1, FS_Subset, FS_CardinalityType DEF TableInv
  <2> QED
    BY <1>2, <1>3, <2>2, <2>3, WindowGrows
<1>5. answer.total \in Nat /\ answer.latencies \in Nat
  BY DEF ReadTypes, Answer
<1>6. CASE request' = request /\ answer' = answer
  <2>1. Cardinality(Window(answer.since))' = m
    BY <1>1, <1>3, <1>6
  <2> QED
    BY <1>1, <1>2, <1>4, <1>5, <1>6, <2>1 DEF SummaryInv
<1>7. CASE request' \in {"total", "page", "pages"}
  BY <1>7 DEF SummaryInv
<1>8. CASE SelectTotal
  <2>1. /\ answer'.total = n /\ answer'.since = since
        /\ request' = "verdicts"
    BY <1>1, <1>2, <1>8 DEF SelectTotal, Cutoff, ReadTypes, Answer
  <2>2. Cardinality(Window(answer.since))' = m
    BY <1>3, <2>1
  <2> QED
    BY <1>4, <2>1, <2>2 DEF SummaryInv
<1>9. CASE SelectVerdicts
  <2>1. /\ answer'.verdicts = Tally(Window(since)) /\ answer'.since = since
        /\ answer'.total = answer.total
        /\ request = "verdicts" /\ request' = "latencies"
    BY <1>1, <1>9 DEF SelectVerdicts, Cutoff, ReadTypes, Answer
  <2>2. Cardinality(Window(answer.since))' = m
    BY <1>3, <2>1
  <2>3. Sum(answer.verdicts)' = n
    <3>1. PICK S \in SUBSET RowIds : S = Window(since)
      BY WindowRows
    <3>2. Sum(Tally(S)) = Cardinality(S)
      BY SumOfTally
    <3> QED
      BY <1>2, <2>1, <3>1, <3>2
  <2>4. answer.total <= n
    BY <1>1, <1>2, <2>1 DEF SummaryInv
  <2> QED
    BY <1>4, <2>1, <2>2, <2>3, <2>4 DEF SummaryInv
<1>10. CASE SelectLatencies
  <2>1. /\ answer'.latencies = n /\ answer'.since = since
        /\ answer'.total = answer.total /\ answer'.verdicts = answer.verdicts
        /\ request = "latencies" /\ request' = "summary"
    BY <1>1, <1>2, <1>10 DEF SelectLatencies, Cutoff, ReadTypes, Answer
  <2>2. Cardinality(Window(answer.since))' = m
    BY <1>3, <2>1
  <2>3. Sum(answer.verdicts)' = Sum(answer.verdicts)
    BY <2>1
  <2>4. /\ Sum(answer.verdicts) \in Nat
        /\ answer.total <= Sum(answer.verdicts) /\ Sum(answer.verdicts) <= n
    BY <1>1, <1>2, <2>1 DEF SummaryInv
  <2> QED
    BY <1>4, <2>1, <2>2, <2>3, <2>4 DEF SummaryInv
<1> QED
  BY <1>6, <1>7, <1>8, <1>9, <1>10
     DEF Next, AskSummary, AskPages, ReadPage, Write, vars, readVars

-----------------------------------------------------------------------------
(* GET /v1/evaluations, page by page.                                      *)

At(M) == [i \in M |-> row[i].receivedAt]

LEMMA ListTimed ==
    ASSUME TableInv, NEW filter
    PROVE  Timed(Matching(filter), At(Matching(filter)))
<1>1. \A i \in RowIds : row[i].receivedAt \in Nat
  BY DEF TableInv, RowInv, RowTypeOK, RowIds, Exists, Store!Row
<1> QED
  BY <1>1, FiniteLists DEF Timed, At, Matching, TableInv, Distinct

LEMMA PositionIsRank ==
    ASSUME NEW filter, NEW i \in Matching(filter)
    PROVE  Position(filter, i) = Rank(Matching(filter), At(Matching(filter)), i)
<1>1. {j \in Matching(filter) : Precedes(j, i)}
        = Before(Matching(filter), At(Matching(filter)), i)
  BY DEF Precedes, Before, At
<1> QED
  BY <1>1 DEF Position, Rank

Stable == walk.existing \ walk.left

(* Rows that the walk has not met and will not meet any more.              *)
Passed == {i \in Stable \ walk.seen : Position(walk.filter, i) < walk.offset}

WalkInv ==
    /\ request = "none" => /\ walk.left = {} /\ walk.seen = {}
                           /\ walk.leaves = 0 /\ walk.offset = 0
    /\ request = "page" => /\ Stable \subseteq Matching(walk.filter)
                           /\ Cardinality(Passed) <= walk.leaves
    /\ request = "pages" => /\ IsFiniteSet(Stable)
                            /\ Cardinality(Stable \ walk.seen) <= walk.leaves

LEMMA PositionType ==
    ASSUME TableInv, NEW filter, NEW i \in Matching(filter)
    PROVE  Position(filter, i) \in Nat
BY ListTimed, PositionIsRank, RankType

(* A page is short only if no row comes behind it.                         *)
LEMMA ShortPageIsLast ==
    ASSUME TableInv, NEW filter, NEW offset \in Nat, LastPage(Page(filter, offset)),
           NEW i \in Matching(filter), i \notin Page(filter, offset)
    PROVE  Position(filter, i) < offset
<1> DEFINE M == Matching(filter)
           page == {j \in M : Rank(M, At(M), j) \in offset .. offset + Limit - 1}
<1>1. Page(filter, offset) = page
  BY PositionIsRank DEF Page
<1>2. Limit \in Nat /\ Timed(M, At(M)) /\ i \in M
  BY ReadApiAssumption, ListTimed DEF ReadApiAssumption
<1>3. Rank(M, At(M), i) \in Nat /\ Position(filter, i) = Rank(M, At(M), i)
  BY <1>2, RankType, PositionIsRank
<1>4. IsFiniteSet(page) /\ Cardinality(page) \in Nat /\ Cardinality(page) < Limit
  <2>1. page \in SUBSET M /\ IsFiniteSet(M)
    BY <1>2 DEF Timed
  <2> QED
    BY <1>1, <2>1, FS_Subset, FS_CardinalityType DEF LastPage
<1> HIDE DEF M
<1>5. ~(Rank(M, At(M), i) >= offset + Limit)
  <2> SUFFICES ASSUME Rank(M, At(M), i) >= offset + Limit PROVE FALSE
    OBVIOUS
  <2>1. Limit <= Cardinality(page)
    BY <1>2, PlacesTaken
  <2> HIDE DEF page
  <2> QED
    BY <1>2, <1>4, <2>1
<1>6. ~(Rank(M, At(M), i) \in offset .. offset + Limit - 1)
  BY <1>1, <1>2
<1> QED
  BY <1>2, <1>3, <1>5, <1>6

(* A row moves up by one place at most per row that leaves the list.       *)
LEMMA MovesUp ==
    ASSUME TableInv, TableInv', RowsStay, NEW filter,
           NEW gone, gone = Matching(filter) \ Matching(filter)',
           NEW i \in Matching(filter), i \in Matching(filter)'
    PROVE  Position(filter, i) <= Position(filter, i)' + Cardinality(gone)
<1> DEFINE B == {j \in Matching(filter) : Precedes(j, i)}
           C == {j \in Matching(filter) : Precedes(j, i)}'
<1>1. B \subseteq C \cup gone
  <2> SUFFICES ASSUME NEW j \in B, j \notin gone PROVE j \in C
    OBVIOUS
  <2>1. j \in Matching(filter) /\ j \in Matching(filter)' /\ row[j].receivedAt > row[i].receivedAt
    BY DEF Precedes
  <2>2. row'[j].receivedAt = row[j].receivedAt /\ row'[i].receivedAt = row[i].receivedAt
    BY <2>1 DEF RowsStay, Matching
  <2> QED
    BY <2>1, <2>2 DEF Precedes
<1>2. IsFiniteSet(B) /\ IsFiniteSet(gone)
  BY FiniteLists, FS_Subset
<1>3. IsFiniteSet(C)
  <2>1. IsFiniteSet(Matching(filter)')
    BY FS_Subset DEF TableInv, Matching
  <2> QED
    BY <2>1, FS_Subset
<1>4. Position(filter, i) = Cardinality(B) /\ Position(filter, i)' = Cardinality(C)
  BY DEF Position
<1> HIDE DEF B, C
<1>5. /\ Cardinality(B) <= Cardinality(C \cup gone)
      /\ Cardinality(C \cup gone) = Cardinality(C) + Cardinality(gone) - Cardinality(C \cap gone)
      /\ IsFiniteSet(C \cap gone) /\ IsFiniteSet(C \cup gone)
  BY <1>1, <1>2, <1>3, FS_Union, FS_Subset, FS_Intersection
<1>6. /\ Cardinality(B) \in Nat /\ Cardinality(C) \in Nat /\ Cardinality(gone) \in Nat
      /\ Cardinality(C \cap gone) \in Nat
  BY <1>2, <1>3, <1>5, FS_CardinalityType
<1> QED
  BY <1>4, <1>5, <1>6

(* What the writers do to a walk under way.                                *)
LEMMA WriteKeepsWalk ==
    ASSUME TableInv, TableInv', RowsStay, ReadTypes, WalkInv, Write, request = "page"
    PROVE  WalkInv'
<1>1. PICK filter : filter = walk.filter
  OBVIOUS
<1>2. PICK gone : gone = Matching(filter) \ Matching(filter)'
  OBVIOUS
<1>3. PICK M : M = Matching(filter)
  OBVIOUS
<1>4. /\ request' = "page" /\ walk'.filter = filter /\ walk'.seen = walk.seen
      /\ walk'.existing = walk.existing /\ walk'.offset = walk.offset
      /\ walk'.left = walk.left \cup gone
      /\ walk'.leaves = walk.leaves + Cardinality(gone)
  <2>1. walk' = [walk EXCEPT !.left = @ \cup gone, !.leaves = @ + Cardinality(gone)]
    BY <1>1, <1>2 DEF Write
  <2>2. request' = "page"
    BY DEF Write
  <2> QED
    BY <1>1, <2>1, <2>2 DEF ReadTypes, Walk
<1>5. Stable' = Stable \ gone /\ Stable \subseteq M
  BY <1>1, <1>3, <1>4 DEF Stable, WalkInv
<1>6. Stable' \subseteq Matching(filter)'
  BY <1>2, <1>3, <1>5
<1> DEFINE offset == walk.offset
           g == Cardinality(gone)
           Moved == {i \in M : Rank(M, At(M), i) \in offset .. offset + g - 1}
<1>7. offset \in Nat /\ IsFiniteSet(gone) /\ g \in Nat /\ Timed(M, At(M))
  BY <1>2, <1>3, ListTimed, FiniteLists, FS_Subset, FS_CardinalityType DEF ReadTypes, Walk
<1>8. IsFiniteSet(Moved) /\ Cardinality(Moved) \in Nat /\ Cardinality(Moved) <= g
  <2>1. Moved \in SUBSET M /\ \A i \in Moved : Rank(M, At(M), i) \in offset .. offset + g - 1
    OBVIOUS
  <2> HIDE DEF Moved, g, offset
  <2>2. IsFiniteSet(Moved) /\ Cardinality(Moved) <= g
    BY <1>7, <2>1, FewPlaces
  <2> QED
    BY <2>2, FS_CardinalityType
<1>9. Passed' \subseteq Passed \cup Moved
  <2> SUFFICES ASSUME NEW i \in Passed', i \notin Passed PROVE i \in Moved
    OBVIOUS
  <2>1. i \in Stable' /\ i \notin walk.seen /\ Position(filter, i)' < offset
    BY <1>4 DEF Passed
  <2>2. i \in Stable /\ i \in M /\ i \in Matching(filter)' /\ i \in Matching(filter)
    BY <1>3, <1>5, <1>6, <2>1
  <2>3. Position(filter, i) <= Position(filter, i)' + g
    BY <1>2, <2>2, MovesUp
  <2>4. ~(Position(filter, i) < offset)
    BY <1>1, <2>1, <2>2 DEF Passed
  <2>5. Position(filter, i) \in Nat
    BY <2>2, PositionType
  <2>6. Position(filter, i)' \in Nat
    <3>1. \A j \in Matching(filter)' : Position(filter, j)' \in Nat
      <4>1. IsFiniteSet(Matching(filter)')
        BY FS_Subset DEF TableInv, Matching
      <4>2. \A T \in SUBSET Matching(filter)' : Cardinality(T) \in Nat
        BY <4>1, FS_Subset, FS_CardinalityType
      <4> QED
        BY <4>2 DEF Position
    <3> QED
      BY <2>2, <3>1
  <2>7. Position(filter, i) = Rank(M, At(M), i)
    BY <1>3, <2>2, PositionIsRank
  <2> HIDE DEF g, offset
  <2>8. Position(filter, i) \in offset .. offset + g - 1
    BY <1>7, <2>1, <2>3, <2>4, <2>5, <2>6
  <2> QED
    BY <2>2, <2>7, <2>8
<1>10. IsFiniteSet(Passed) /\ Cardinality(Passed) \in Nat /\ Cardinality(Passed) <= walk.leaves
  <2>1. Passed \in SUBSET M /\ IsFiniteSet(M)
    BY <1>3, <1>5, FiniteLists DEF Passed
  <2> QED
    BY <2>1, FS_Subset, FS_CardinalityType DEF WalkInv
<1> HIDE DEF Moved, g
<1>11. /\ IsFiniteSet(Passed \cup Moved) /\ IsFiniteSet(Passed \cap Moved)
       /\ Cardinality(Passed \cup Moved)
             = Cardinality(Passed) + Cardinality(Moved) - Cardinality(Passed \cap Moved)
       /\ Cardinality(Passed \cap Moved) \in Nat
  BY <1>8, <1>10, FS_Union, FS_Intersection, FS_CardinalityType
<1>12. Cardinality(Passed') <= Cardinality(Passed \cup Moved) /\ Cardinality(Passed') \in Nat
  BY <1>9, <1>11, FS_Subset, FS_CardinalityType
<1>13. Cardinality(Passed') <= walk'.leaves
  <2>1. walk'.leaves = walk.leaves + g /\ walk.leaves \in Nat
    BY <1>4 DEF g, ReadTypes, Walk
  <2> QED
    BY <1>7, <1>8, <1>10, <1>11, <1>12, <2>1
<1> QED
  BY <1>4, <1>6, <1>13 DEF WalkInv

(* A page adds what it shows, and what stays unmet lies behind the offset  *)
(* or has been passed.                                                     *)
LEMMA PageKeepsWalk ==
    ASSUME TableInv, ReadTypes, WalkInv, ReadPage
    PROVE  WalkInv'
<1>1. PICK filter : filter = walk.filter
  OBVIOUS
<1>2. PICK page : page = Page(filter, walk.offset)
  OBVIOUS
<1>3. /\ request = "page" /\ row' = row
      /\ walk' = [walk EXCEPT !.offset = @ + Limit, !.seen = @ \cup page]
      /\ request' = IF LastPage(page) THEN "pages" ELSE "page"
  BY <1>1, <1>2 DEF ReadPage, rowVars
<1>4. /\ walk'.filter = filter /\ walk'.existing = walk.existing /\ walk'.left = walk.left
      /\ walk'.leaves = walk.leaves /\ walk'.offset = walk.offset + Limit
      /\ walk'.seen = walk.seen \cup page
      /\ walk.offset \in Nat /\ Limit \in Nat
  BY <1>1, <1>3, ReadApiAssumption DEF ReadTypes, Walk, ReadApiAssumption
<1>5. /\ Stable' = Stable /\ Matching(filter)' = Matching(filter)
      /\ Stable \subseteq Matching(filter) /\ Cardinality(Passed) <= walk.leaves
  BY <1>1, <1>3, <1>4 DEF Stable, Matching, RowIds, Exists, WalkInv
<1>6. IsFiniteSet(Stable) /\ IsFiniteSet(Passed) /\ Cardinality(Passed) \in Nat
  <2>1. IsFiniteSet(Stable)
    BY <1>5, FiniteLists, FS_Subset
  <2>2. Passed \in SUBSET Stable
    BY DEF Passed
  <2> QED
    BY <2>1, <2>2, FS_Subset, FS_CardinalityType
<1>7. CASE LastPage(page)
  <2>1. Stable \ walk'.seen \subseteq Passed
    BY <1>1, <1>2, <1>4, <1>5, <1>7, ShortPageIsLast DEF Passed
  <2>2. /\ Cardinality(Stable \ walk'.seen) <= Cardinality(Passed)
        /\ Cardinality(Stable \ walk'.seen) \in Nat
    BY <1>6, <2>1, FS_Subset, FS_CardinalityType
  <2>3. /\ request' = "pages" /\ walk'.leaves \in Nat
        /\ Cardinality(Stable \ walk'.seen) <= walk'.leaves
    BY <1>3, <1>4, <1>5, <1>6, <1>7, <2>2 DEF ReadTypes, Walk
  <2> QED
    BY <1>5, <1>6, <2>3 DEF WalkInv
<1>8. CASE ~LastPage(page)
  <2>1. Passed' \subseteq Passed
    <3> SUFFICES ASSUME NEW i \in Passed' PROVE i \in Passed
      OBVIOUS
    <3>1. /\ i \in Stable /\ i \notin walk.seen /\ i \notin page
          /\ Position(filter, i)' < walk.offset + Limit
      BY <1>4, <1>5 DEF Passed
    <3>2. Position(filter, i)' = Position(filter, i)
      BY <1>3, <1>5 DEF Position, Precedes
    <3>3. i \in Matching(filter) /\ Position(filter, i) \in Nat
      BY <1>5, <3>1, PositionType
    <3>4. ~(Position(filter, i) \in walk.offset .. walk.offset + Limit - 1)
      BY <1>2, <3>1, <3>3 DEF Page
    <3>5. Position(filter, i) < walk.offset
      BY <1>4, <3>1, <3>2, <3>3, <3>4
    <3> QED
      BY <1>1, <3>1, <3>5 DEF Passed
  <2>2. Cardinality(Passed') <= Cardinality(Passed) /\ Cardinality(Passed') \in Nat
    BY <1>6, <2>1, FS_Subset, FS_CardinalityType
  <2>3. request' = "page" /\ Cardinality(Passed') <= walk'.leaves
    BY <1>3, <1>4, <1>5, <1>6, <1>8, <2>2 DEF ReadTypes, Walk
  <2> QED
    BY <1>4, <1>5, <2>3 DEF WalkInv
<1> QED
  BY <1>7, <1>8

LEMMA WalkKept ==
    ASSUME TableInv, TableInv', RowsStay, ReadTypes, WalkInv, [Next]_vars
    PROVE  WalkInv'
<1>1. CASE request' \in {"total", "verdicts", "latencies", "summary"}
  BY <1>1 DEF WalkInv
<1>2. CASE AskPages
  <2>1. PICK filter \in Filters :
          walk' = [walk EXCEPT !.filter = filter, !.existing = Matching(filter)]
    BY <1>2 DEF AskPages
  <2>2. /\ walk'.filter = filter /\ walk'.existing = Matching(filter)
        /\ walk'.left = {} /\ walk'.seen = {} /\ walk'.leaves = 0 /\ walk'.offset = 0
    BY <1>2, <2>1 DEF AskPages, WalkInv, ReadTypes, Walk
  <2>3. request' = "page" /\ row' = row
    BY <1>2 DEF AskPages, rowVars
  <2>4. Matching(filter)' = Matching(filter)
    BY <2>3 DEF Matching, RowIds, Exists
  <2>5. Stable' \subseteq Matching(walk.filter)'
    BY <2>2, <2>4 DEF Stable
  <2>6. Passed' = {}
    <3> SUFFICES ASSUME NEW i \in Passed' PROVE FALSE
      OBVIOUS
    <3>1. i \in Matching(filter) /\ Position(filter, i)' < 0
      BY <2>2 DEF Passed, Stable
    <3>2. Position(filter, i)' = Position(filter, i)
      BY <2>3, <2>4 DEF Position, Precedes
    <3> QED
      BY <3>1, <3>2, PositionType
  <2> QED
    BY <2>2, <2>3, <2>5, <2>6, FS_EmptySet DEF WalkInv
<1>3. CASE ReadPage
  BY <1>3, PageKeepsWalk
<1>4. CASE Write
  <2>1. CASE request = "page"
    BY <1>4, <2>1, WriteKeepsWalk
  <2>2. CASE request # "page"
    <3>1. request' = request /\ walk' = walk
      BY <1>4, <2>2 DEF Write
    <3> QED
      BY <2>2, <3>1 DEF WalkInv, Stable
  <2> QED
    BY <2>1, <2>2
<1>5. CASE UNCHANGED vars
  <2>1. row' = row /\ request' = request /\ walk' = walk
    BY <1>5 DEF vars, rowVars, readVars
  <2> QED
    BY <2>1 DEF WalkInv, Stable, Passed, Position, Precedes, Matching, RowIds, Exists
<1> QED
  BY <1>1, <1>2, <1>3, <1>4, <1>5
     DEF Next, AskSummary, SelectTotal, SelectVerdicts, SelectLatencies

-----------------------------------------------------------------------------
(* The invariant, and the theorems.                                        *)
ReadInv == TableInv /\ ReadTypes /\ SummaryInv /\ WalkInv

LEMMA ReadInitially == Init => ReadInv
<1> SUFFICES ASSUME Init PROVE ReadInv
  OBVIOUS
<1>1. TableInv
  BY TableInitially DEF Init
<1>2. ReadTypes
  <2>1. NoCounts \in Counts
    BY DEF NoCounts, Counts
  <2> QED
    BY <2>1 DEF Init, ReadTypes, Requests, Answer, Walk
<1>3. SummaryInv /\ WalkInv
  BY DEF Init, SummaryInv, WalkInv
<1> QED
  BY <1>1, <1>2, <1>3 DEF ReadInv

LEMMA ReadInvStep == ReadInv /\ [Next]_vars => ReadInv'
BY NextTable, ReadTypesKept, SummaryKept, WalkKept DEF ReadInv

LEMMA ReadInvariant == Spec => []ReadInv
BY ReadInitially, ReadInvStep, PTL DEF Spec

(* For any number of rows, writers, filters and windows, the state of the  *)
(* reader and of the table keeps its types (evaluations.py, sql.py).       *)
THEOREM ReadTypeCorrect == Spec => []TypeOK
<1>1. ReadInv => TypeOK
  BY DEF ReadInv, TableInv, RowInv, ReadTypes, TypeOK
<1> QED
  BY <1>1, ReadInvariant, PTL

(* The three SELECTs of a summary (sql.py, summary()) see a table that     *)
(* writers change in between: total, verdict counts and latencies never    *)
(* run backwards, and none counts a row that is not there.                 *)
THEOREM SummaryPartsInOrder == Spec => []SummaryInOrder
<1>1. ReadInv => SummaryInOrder
  BY DEF ReadInv, SummaryInv, SummaryInOrder
<1> QED
  BY <1>1, ReadInvariant, PTL

(* A walk through all pages with limit and offset (evaluations.py, list)   *)
(* misses at most one row per time that a row left the list, however many  *)
(* rows come in, are judged or swept between two pages.                    *)
THEOREM WalkSkipsOnlyForLeavers == Spec => []PagesSkipOnlyForLeavers
<1>1. ReadInv => PagesSkipOnlyForLeavers
  <2> SUFFICES ASSUME ReadInv, request = "pages"
               PROVE  Cardinality((walk.existing \ walk.left) \ walk.seen) <= walk.leaves
    BY DEF PagesSkipOnlyForLeavers
  <2> QED
    BY DEF ReadInv, WalkInv, Stable
<1> QED
  BY <1>1, ReadInvariant, PTL

(* The reader never disturbs the writers: whatever it reads in between,    *)
(* the table goes through a behaviour of RowLifecycle (sql.py: list() and  *)
(* summary() only SELECT).                                                 *)
LEMMA ReadersKeepLifecycle == Spec => RowSpec
<1>1. Init => RowInit
  BY DEF Init
<1>2. [Next]_vars => [RowNext]_rowVars
  BY ReadStepTable DEF Next, ReadStep, Write, vars
<1> QED
  BY <1>1, <1>2, PTL DEF Spec, RowSpec

(* So what writers promise of rows holds also for a table that is read:    *)
(* status and verdict agree, and ingest columns never change.              *)
THEOREM ReadTableCoherent == Spec => []StatusAndVerdict /\ IngestIsImmutable
BY ReadersKeepLifecycle, StatusAgreesWithVerdict, IngestNeverRewritten, PTL
=============================================================================
