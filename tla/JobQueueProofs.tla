--------------------------- MODULE JobQueueProofs ---------------------------
(***************************************************************************)
(* Proofs about JobQueue for every capacity.  ShadowProxy fills a queue    *)
(* with EnqueuedAll in one action, where the code loops over enqueue();    *)
(* the two theorems are the empty loop and one more turn of the loop.  The *)
(* lemmas say what a queue holds, for the modules that extend this one.    *)
(***************************************************************************)
EXTENDS JobQueue, Functions, FiniteSets, FiniteSetTheorems, SequenceTheorems, TLAPS

USE CapacityAssumption DEF CapacityAssumption

(* How many jobs of n do not fit, and how many of those are at the front.  *)
Over(n)      == IF n > Capacity THEN n - Capacity ELSE 0
Offset(p, n) == IF p = "drop_old" THEN Over(n) ELSE 0

(* A set of naturals has a least one.                                      *)
LEMMA LeastNatural ==
    ASSUME NEW T \in SUBSET Nat, T # {}
    PROVE  \E n \in T : \A m \in T : n <= m
<1> DEFINE Up == {1 .. n : n \in T}
<1>1. Up \subseteq FiniteSubsetsOf(Nat) /\ Up # {}
  <2>1. ASSUME NEW n \in T PROVE 1 .. n \in SUBSET Nat /\ IsFiniteSet(1 .. n)
    BY FS_Interval
  <2> QED
    BY <2>1 DEF FiniteSubsetsOf
<1>2. PICK u \in Up : \A v \in Up : ~(<<v, u>> \in StrictSubsetOrdering(Nat))
  <2> HIDE DEF Up
  <2> QED
    BY <1>1, FS_StrictSubsetOrderingWellFounded, WFMin
<1>3. PICK n \in T : u = 1 .. n
  OBVIOUS
<1>4. ASSUME NEW m \in T, m < n PROVE FALSE
  <2>1. 1 .. m \in Up /\ 1 .. m \subseteq 1 .. n /\ n \in 1 .. n /\ n \notin 1 .. m
    BY <1>4
  <2>2. 1 .. m \in SUBSET Nat /\ 1 .. n \in SUBSET Nat
    OBVIOUS
  <2> QED
    BY <1>2, <1>3, <2>1, <2>2 DEF StrictSubsetOrdering
<1> QED
  BY <1>4

(* A window of a sequence, from position m to position e.                  *)
LEMMA Window ==
    ASSUME NEW S, NEW t \in Seq(S), NEW m \in Nat \ {0}, NEW e \in Nat,
           m <= e + 1, e <= Len(t)
    PROVE  /\ SubSeq(t, m, e) \in Seq(S)
           /\ Len(SubSeq(t, m, e)) = e - m + 1
           /\ \A i \in 1 .. e - m + 1 : SubSeq(t, m, e)[i] = t[m + i - 1]
<1>1. m \in Int /\ e \in Int /\ \A i \in m .. e : t[i] \in S
  OBVIOUS
<1>2. /\ SubSeq(t, m, e) \in Seq(S)
      /\ Len(SubSeq(t, m, e)) = IF m <= e THEN e - m + 1 ELSE 0
      /\ \A i \in 1 .. e - m + 1 : SubSeq(t, m, e)[i] = t[m + i - 1]
  BY <1>1, SubSeqProperties
<1>3. (IF m <= e THEN e - m + 1 ELSE 0) = e - m + 1
  OBVIOUS
<1> QED
  BY <1>2, <1>3

(* The positions of q \o s that EnqueuedAll keeps.                         *)
LEMMA EnqueuedAllElements ==
    ASSUME NEW S, NEW q \in Seq(S), NEW s \in Seq(S), NEW p \in Policies
    PROVE  LET n == Len(q \o s)
           IN  /\ EnqueuedAll(p, q, s) \in Seq(S)
               /\ Len(EnqueuedAll(p, q, s)) = n - Over(n)
               /\ \A i \in 1 .. n - Over(n) :
                      EnqueuedAll(p, q, s)[i] = (q \o s)[i + Offset(p, n)]
<1> DEFINE n == Len(q \o s)
<1>1. q \o s \in Seq(S) /\ Len(q \o s) = n /\ n \in Nat
  BY ConcatProperties
<1> SUFFICES /\ EnqueuedAll(p, q, s) \in Seq(S)
             /\ Len(EnqueuedAll(p, q, s)) = n - Over(n)
             /\ \A i \in 1 .. n - Over(n) :
                    EnqueuedAll(p, q, s)[i] = (q \o s)[i + Offset(p, n)]
  OBVIOUS
<1> HIDE DEF n
<1>2. /\ Offset(p, n) \in Nat /\ n - Over(n) \in Nat
      /\ Offset(p, n) + (n - Over(n)) <= n
  BY <1>1 DEF Over, Offset
<1>3. EnqueuedAll(p, q, s) =
          SubSeq(q \o s, Offset(p, n) + 1, Offset(p, n) + (n - Over(n)))
  <2>1. EnqueuedAll(p, q, s) = IF p = "drop_old"
                               THEN SubSeq(q \o s, Over(n) + 1, n)
                               ELSE SubSeq(q \o s, 1, n - Over(n))
    BY <1>1 DEF EnqueuedAll, Over
  <2>2. CASE p = "drop_old"
    <3>1. Offset(p, n) = Over(n) /\ Over(n) + (n - Over(n)) = n
      BY <1>1, <2>2 DEF Offset, Over
    <3> QED
      BY <2>1, <2>2, <3>1
  <2>3. CASE p # "drop_old"
    <3>1. Offset(p, n) = 0 /\ 0 + 1 = 1 /\ 0 + (n - Over(n)) = n - Over(n)
      BY <1>1, <2>3 DEF Offset, Over
    <3> QED
      BY <2>1, <2>3, <3>1
  <2> QED
    BY <2>2, <2>3
<1> QED
  <2> DEFINE m == Offset(p, n) + 1
             e == Offset(p, n) + (n - Over(n))
  <2>1. /\ m \in Nat \ {0} /\ e \in Nat /\ m <= e + 1 /\ e <= Len(q \o s)
        /\ e - m + 1 = n - Over(n)
        /\ \A i \in 1 .. n - Over(n) : m + i - 1 = i + Offset(p, n)
    <3>1. PICK o \in Nat, k \in Nat : o = Offset(p, n) /\ k = n - Over(n)
      BY <1>2
    <3>2. o + k <= n /\ n \in Nat /\ m = o + 1 /\ e = o + k
      BY <1>1, <1>2, <3>1
    <3>3. \A i \in 1 .. k : m + i - 1 = i + o
      BY <3>2
    <3> HIDE DEF m, e
    <3>4. m \in Nat \ {0} /\ e \in Nat /\ m <= e + 1 /\ e <= n /\ e - m + 1 = k
      <4>1. o + 1 \in Nat \ {0} /\ o + k \in Nat /\ (o + k) - (o + 1) + 1 = k
        OBVIOUS
      <4>2. o + 1 <= (o + k) + 1
        OBVIOUS
      <4> QED
        BY <3>2, <4>1, <4>2, Zenon
    <3>5. e <= Len(q \o s)
      BY <1>1, <3>4
    <3> QED
      BY <3>1, <3>3, <3>4, <3>5, Zenon
  <2>2. EnqueuedAll(p, q, s) = SubSeq(q \o s, m, e)
    BY <1>3
  <2> HIDE DEF m, e
  <2>3. /\ SubSeq(q \o s, m, e) \in Seq(S)
        /\ Len(SubSeq(q \o s, m, e)) = e - m + 1
        /\ \A i \in 1 .. e - m + 1 : SubSeq(q \o s, m, e)[i] = (q \o s)[m + i - 1]
    BY <1>1, <2>1, Window
  <2> QED
    BY <2>1, <2>2, <2>3

(* requeue_all_unfinished with nothing to requeue leaves the queue alone.  *)
THEOREM RequeueNothing ==
    ASSUME NEW S, NEW q \in Seq(S), Len(q) <= Capacity, NEW p \in Policies
    PROVE  EnqueuedAll(p, q, <<>>) = q
<1>1. q \o <<>> = q /\ Len(q) \in Nat
  BY ConcatEmptySeq
<1>2. EnqueuedAll(p, q, <<>>) = SubSeq(q, 1, Len(q))
  <2>1. ~(Len(q) > Capacity) /\ 0 + 1 = 1 /\ Len(q) - 0 = Len(q)
    BY <1>1, CapacityAssumption
  <2> QED
    BY <1>1, <2>1 DEF EnqueuedAll
<1> QED
  BY <1>2, SubSeqFull

(* One more turn of the loop of requeue_all_unfinished: enqueueing s and   *)
(* then j is enqueueing Append(s, j), under either overflow policy and     *)
(* whether or not the queue is full by then.                               *)
THEOREM RequeueOneMore ==
    ASSUME NEW S, NEW q \in Seq(S), Len(q) <= Capacity,
           NEW s \in Seq(S), NEW j \in S, NEW p \in Policies
    PROVE  EnqueuedAll(p, q, Append(s, j)) = Enqueued(p, EnqueuedAll(p, q, s), j)
<1> DEFINE n  == Len(q) + Len(s)
           d  == Offset(p, n)
           d1 == Offset(p, n + 1)
           before == EnqueuedAll(p, q, s)
           after  == EnqueuedAll(p, q, Append(s, j))
           old == q \o s
           new == q \o Append(s, j)
<1>1. /\ n \in Nat /\ Append(s, j) \in Seq(S)
      /\ Len(old) = n /\ Len(new) = n + 1
      /\ d \in Nat /\ d1 \in Nat
  <2>1. n \in Nat /\ Append(s, j) \in Seq(S) /\ Len(Append(s, j)) = Len(s) + 1
    OBVIOUS
  <2>2. Len(old) = n /\ Len(new) = n + 1
    BY <2>1, ConcatProperties
  <2>3. d \in Nat /\ d1 \in Nat
    BY <2>1 DEF Over, Offset
  <2> QED
    BY <2>1, <2>2, <2>3
<1>2. /\ before \in Seq(S) /\ Len(before) = n - Over(n)
      /\ \A i \in 1 .. n - Over(n) : before[i] = old[i + d]
  <2>1. Len(old) = n
    BY <1>1
  <2>2. /\ before \in Seq(S) /\ Len(before) = Len(old) - Over(Len(old))
        /\ \A i \in 1 .. Len(old) - Over(Len(old)) :
               before[i] = old[i + Offset(p, Len(old))]
    BY EnqueuedAllElements
  <2> HIDE DEF n, old, before
  <2> QED
    BY <2>1, <2>2
<1>3. /\ after \in Seq(S) /\ Len(after) = (n + 1) - Over(n + 1)
      /\ \A i \in 1 .. (n + 1) - Over(n + 1) : after[i] = new[i + d1]
  <2>1. Len(new) = n + 1 /\ Append(s, j) \in Seq(S)
    BY <1>1
  <2>2. /\ after \in Seq(S) /\ Len(after) = Len(new) - Over(Len(new))
        /\ \A i \in 1 .. Len(new) - Over(Len(new)) :
               after[i] = new[i + Offset(p, Len(new))]
    BY <2>1, EnqueuedAllElements
  <2> HIDE DEF new, after
  <2> QED
    BY <2>1, <2>2
<1>4. /\ \A i \in 1 .. n : new[i] = old[i]
      /\ new[n + 1] = j
  <2>1. \A i \in 1 .. n : old[i] = IF i <= Len(q) THEN q[i] ELSE s[i - Len(q)]
    BY ConcatProperties
  <2>2. \A i \in 1 .. n + 1 :
            new[i] = IF i <= Len(q) THEN q[i] ELSE Append(s, j)[i - Len(q)]
    BY <1>1, ConcatProperties
  <2>3. /\ \A i \in 1 .. Len(s) : Append(s, j)[i] = s[i]
        /\ Append(s, j)[Len(s) + 1] = j
    OBVIOUS
  <2> QED
    BY <1>1, <2>1, <2>2, <2>3
<1>5. p \in {"drop_old", "drop_new"} /\ Capacity \in Nat \ {0}
  BY CapacityAssumption DEF Policies
<1> HIDE DEF n, d, d1, before, after, old, new
<1>6. CASE n < Capacity
  <2>1. Over(n) = 0 /\ Over(n + 1) = 0 /\ d = 0 /\ d1 = 0
    BY <1>1, <1>5, <1>6 DEF Over, Offset, d, d1
  <2>2. Enqueued(p, before, j) = Append(before, j)
    BY <1>1, <1>2, <1>5, <1>6, <2>1 DEF Enqueued, Full
  <2>3. \A i \in 1 .. n + 1 : after[i] = Append(before, j)[i]
    <3>1. \A i \in 1 .. n : after[i] = old[i] /\ before[i] = old[i]
      BY <1>1, <1>2, <1>3, <1>4, <2>1
    <3>2. after[n + 1] = j
      BY <1>1, <1>3, <1>4, <2>1
    <3> QED
      BY <1>1, <1>2, <2>1, <3>1, <3>2
  <2>4. Append(before, j) \in Seq(S) /\ Len(Append(before, j)) = n + 1
    BY <1>1, <1>2, <2>1
  <2>5. Len(after) = n + 1
    BY <1>1, <1>3, <2>1
  <2>6. after = Append(before, j)
    BY <1>3, <2>3, <2>4, <2>5, SeqEqual
  <2> QED
    BY <2>2, <2>6 DEF before, after
<1>7. CASE n >= Capacity
  <2>1. Over(n) = n - Capacity /\ Over(n + 1) = n + 1 - Capacity
    BY <1>1, <1>5, <1>7 DEF Over
  <2>2. Full(before) /\ Len(before) = Capacity /\ Len(after) = Capacity
    BY <1>1, <1>2, <1>3, <1>5, <2>1 DEF Full
  <2>3. CASE p = "drop_new"
    <3>1. d = 0 /\ d1 = 0
      BY <1>1, <2>1, <2>3 DEF Offset, d, d1
    <3>2. \A i \in 1 .. Capacity : after[i] = before[i]
      BY <1>1, <1>2, <1>3, <1>4, <1>5, <1>7, <2>1, <3>1
    <3>3. after = before
      BY <1>2, <1>3, <2>2, <3>2, SeqEqual
    <3> QED
      BY <2>2, <2>3, <3>3 DEF Enqueued, before, after
  <2>4. CASE p = "drop_old"
    <3>1. d = n - Capacity /\ d1 = n - Capacity + 1
      BY <1>1, <2>1, <2>4 DEF Offset, d, d1
    <3>2. Enqueued(p, before, j) = Append(Tail(before), j)
      BY <2>2, <2>4 DEF Enqueued
    <3>3. /\ Tail(before) \in Seq(S) /\ Len(Tail(before)) = Capacity - 1
          /\ \A i \in 1 .. Capacity - 1 : Tail(before)[i] = before[i + 1]
      <4>1. before # <<>>
        BY <1>5, <2>2
      <4> QED
        BY <1>2, <2>2, <4>1, HeadTailProperties
    <3>4. /\ Append(Tail(before), j) \in Seq(S)
          /\ Len(Append(Tail(before), j)) = Capacity
          /\ \A i \in 1 .. Capacity - 1 : Append(Tail(before), j)[i] = Tail(before)[i]
          /\ Append(Tail(before), j)[Capacity] = j
      BY <1>5, <3>3
    <3>5. \A i \in 1 .. Capacity - 1 : after[i] = before[i + 1]
      <4>1. \A i \in 1 .. Capacity - 1 : /\ after[i] = new[i + d1]
                                         /\ i + d1 \in 1 .. n
        BY <1>1, <1>3, <1>5, <1>7, <2>1, <3>1
      <4>2. \A i \in 1 .. Capacity - 1 : before[i + 1] = old[(i + 1) + d]
        <5>1. \A i \in 1 .. Capacity - 1 : i + 1 \in 1 .. n - Over(n)
          BY <1>1, <1>5, <2>1
        <5> QED
          BY <1>2, <5>1
      <4>3. \A i \in 1 .. Capacity - 1 : (i + 1) + d = i + d1
        BY <1>1, <1>5, <3>1
      <4> QED
        BY <1>4, <4>1, <4>2, <4>3
    <3>6. after[Capacity] = j
      <4>1. Capacity + d1 = n + 1 /\ Capacity \in 1 .. (n + 1) - Over(n + 1)
        BY <1>1, <1>5, <2>1, <3>1
      <4> QED
        BY <1>3, <1>4, <4>1
    <3>7. \A i \in 1 .. Capacity : after[i] = Append(Tail(before), j)[i]
      BY <1>5, <3>3, <3>4, <3>5, <3>6
    <3>8. after = Append(Tail(before), j)
      BY <1>3, <2>2, <3>4, <3>7, SeqEqual
    <3> QED
      BY <3>2, <3>8 DEF before, after
  <2> QED
    BY <1>5, <2>3, <2>4
<1> QED
  BY <1>1, <1>5, <1>6, <1>7

(* The whole loop: t[k] is the queue before the k-th turn, which enqueues  *)
(* s[k].  Behind the last turn it is EnqueuedAll of the whole backlog.  So *)
(* the one action that stands for the loop in ShadowProxy does what the    *)
(* loop of requeue_all_unfinished does, however long the backlog is.       *)
THEOREM RequeueLoop ==
    ASSUME NEW S, NEW q \in Seq(S), Len(q) <= Capacity,
           NEW s \in Seq(S), NEW p \in Policies, NEW t,
           t[1] = q,
           \A k \in 1 .. Len(s) : t[k + 1] = Enqueued(p, t[k], s[k])
    PROVE  t[Len(s) + 1] = EnqueuedAll(p, q, s)
<1> DEFINE Done(k) == SubSeq(s, 1, k)
           Agree(k) == t[k + 1] = EnqueuedAll(p, q, Done(k))
<1>1. Done(0) = <<>> /\ Done(Len(s)) = s /\ Len(s) \in Nat
  BY SubSeqEmpty, SubSeqFull
<1>2. Agree(0)
  <2>1. EnqueuedAll(p, q, <<>>) = q
    BY RequeueNothing
  <2>2. t[0 + 1] = q
    OBVIOUS
  <2> HIDE DEF Done
  <2> QED
    BY <1>1, <2>1, <2>2
<1>3. ASSUME NEW k \in 0 .. Len(s) - 1, Agree(k) PROVE Agree(k + 1)
  <2>1. Done(k) \in Seq(S) /\ s[k + 1] \in S /\ Done(k + 1) = Append(Done(k), s[k + 1])
    OBVIOUS
  <2>2. t[(k + 1) + 1] = Enqueued(p, t[k + 1], s[k + 1])
    BY <1>1
  <2> HIDE DEF Done
  <2>3. EnqueuedAll(p, q, Append(Done(k), s[k + 1])) =
            Enqueued(p, EnqueuedAll(p, q, Done(k)), s[k + 1])
    BY <2>1, RequeueOneMore
  <2> QED
    BY <1>3, <2>1, <2>2, <2>3
<1> HIDE DEF Agree
<1> DEFINE Wrong == {k \in 0 .. Len(s) : ~Agree(k)}
<1>4. Wrong = {}
  <2> SUFFICES ASSUME Wrong # {} PROVE FALSE
    OBVIOUS
  <2>1. PICK k \in Wrong : \A m \in Wrong : k <= m
    <3>1. Wrong \in SUBSET Nat
      OBVIOUS
    <3> HIDE DEF Wrong
    <3> QED
      BY <3>1, LeastNatural
  <2>2. PICK j \in 0 .. Len(s) - 1 : k = j + 1
    <3>1. k # 0 /\ k \in 0 .. Len(s)
      BY <1>2
    <3>2. k - 1 \in 0 .. Len(s) - 1 /\ k = (k - 1) + 1
      BY <1>1, <3>1
    <3> QED
      BY <3>2
  <2>3. Agree(j)
    BY <1>1, <2>1, <2>2
  <2> QED
    BY <1>3, <2>2, <2>3
<1>5. Agree(Len(s))
  BY <1>1, <1>4
<1> HIDE DEF Done
<1> QED
  BY <1>1, <1>5 DEF Agree

-----------------------------------------------------------------------------
(* enqueue() on the queue as a sequence: what it returns is a queue of the *)
(* same kind that is not longer than the capacity.                         *)
LEMMA EnqueuedType ==
    ASSUME NEW S, NEW q \in Seq(S), NEW j \in S, NEW p \in Policies,
           Len(q) <= Capacity
    PROVE  /\ Enqueued(p, q, j) \in Seq(S)
           /\ Len(Enqueued(p, q, j)) <= Capacity
<1>1. Capacity \in Nat \ {0}
  BY CapacityAssumption
<1>2. CASE ~Full(q)
  <2>1. Enqueued(p, q, j) = Append(q, j)
    BY <1>2 DEF Enqueued
  <2>2. Append(q, j) \in Seq(S) /\ Len(Append(q, j)) = Len(q) + 1 /\ Len(q) \in Nat
    OBVIOUS
  <2> QED
    BY <1>1, <1>2, <2>1, <2>2 DEF Full
<1>3. CASE Full(q)
  <2>1. q # <<>> /\ Len(q) \in Nat
    BY <1>1, <1>3 DEF Full
  <2>2. Tail(q) \in Seq(S) /\ Len(Tail(q)) = Len(q) - 1
    BY <2>1
  <2>3. Append(Tail(q), j) \in Seq(S) /\ Len(Append(Tail(q), j)) = Len(q)
    BY <2>1, <2>2
  <2> QED
    BY <1>3, <2>3 DEF Enqueued
<1> QED
  BY <1>2, <1>3

(* A queue that holds no job twice.                                        *)
Distinct(q) == \A i, k \in DOMAIN q : q[i] = q[k] => i = k

(* Appending a job that is not in the queue.                               *)
LEMMA AppendFacts ==
    ASSUME NEW S, NEW q \in Seq(S), NEW j \in S
    PROVE  /\ Range(Append(q, j)) = Range(q) \cup {j}
           /\ Distinct(q) /\ j \notin Range(q) => Distinct(Append(q, j))
<1>1. /\ DOMAIN Append(q, j) = 1 .. (Len(q) + 1)
      /\ DOMAIN q = 1 .. Len(q) /\ Len(q) \in Nat
      /\ \A i \in 1 .. Len(q) : Append(q, j)[i] = q[i]
      /\ Append(q, j)[Len(q) + 1] = j
  OBVIOUS
<1>2. Range(Append(q, j)) = Range(q) \cup {j}
  BY <1>1 DEF Range
<1>3. ASSUME Distinct(q), j \notin Range(q) PROVE Distinct(Append(q, j))
  BY <1>1, <1>3 DEF Range, Distinct
<1> QED
  BY <1>2, <1>3

(* Taking the head of a queue.                                             *)
LEMMA TailFacts ==
    ASSUME NEW S, NEW q \in Seq(S), q # <<>>, Distinct(q)
    PROVE  /\ Head(q) \in Range(q)
           /\ Tail(q) \in Seq(S)
           /\ Distinct(Tail(q))
           /\ Range(Tail(q)) = Range(q) \ {Head(q)}
<1>1. /\ Len(q) \in Nat \ {0} /\ DOMAIN q = 1 .. Len(q)
      /\ Tail(q) \in Seq(S)
      /\ DOMAIN Tail(q) = 1 .. (Len(q) - 1)
      /\ \A i \in 1 .. (Len(q) - 1) : Tail(q)[i] = q[i + 1]
      /\ Head(q) = q[1]
  OBVIOUS
<1>2. Head(q) \in Range(q)
  BY <1>1 DEF Range
<1>3. Distinct(Tail(q))
  BY <1>1 DEF Distinct
<1>4. Range(Tail(q)) \subseteq Range(q) \ {Head(q)}
  BY <1>1 DEF Range, Distinct
<1>5. Range(q) \ {Head(q)} \subseteq Range(Tail(q))
  <2> SUFFICES ASSUME NEW k \in 1 .. Len(q), q[k] # q[1] PROVE q[k] \in Range(Tail(q))
    BY <1>1 DEF Range
  <2>1. k - 1 \in 1 .. (Len(q) - 1) /\ Tail(q)[k - 1] = q[k]
    BY <1>1
  <2> QED
    BY <1>1, <2>1 DEF Range
<1> QED
  BY <1>1, <1>2, <1>3, <1>4, <1>5

(* enqueue() of a job that is not queued keeps the queue free of copies;   *)
(* "drop_new" loses nothing that was there.                                *)
LEMMA EnqueuedOnce ==
    ASSUME NEW S, NEW q \in Seq(S), NEW j \in S, NEW p \in Policies, Distinct(q)
    PROVE  /\ j \notin Range(q) => Distinct(Enqueued(p, q, j))
           /\ Range(Enqueued(p, q, j)) \subseteq Range(q) \cup {j}
           /\ p = "drop_new" => Range(q) \subseteq Range(Enqueued(p, q, j))
           /\ Accepts(p, q) => j \in Range(Enqueued(p, q, j))
<1>1. CASE ~Full(q)
  <2>1. Enqueued(p, q, j) = Append(q, j)
    BY <1>1 DEF Enqueued
  <2> QED
    BY <2>1, AppendFacts
<1>2. CASE Full(q) /\ p = "drop_old"
  <2>1. q # <<>>
    BY <1>2, CapacityAssumption DEF Full
  <2>2. /\ Tail(q) \in Seq(S) /\ Distinct(Tail(q))
        /\ Range(Tail(q)) = Range(q) \ {Head(q)}
    BY <2>1, TailFacts
  <2>3. Enqueued(p, q, j) = Append(Tail(q), j)
    BY <1>2 DEF Enqueued
  <2>4. /\ Range(Append(Tail(q), j)) = Range(Tail(q)) \cup {j}
        /\ j \notin Range(Tail(q)) => Distinct(Append(Tail(q), j))
    <3>1. PICK rest : rest = Tail(q)
      OBVIOUS
    <3>2. rest \in Seq(S) /\ Distinct(rest)
      BY <2>2, <3>1
    <3> QED
      BY <3>1, <3>2, AppendFacts
  <2>5. p # "drop_new"
    BY <1>2
  <2> QED
    BY <2>2, <2>3, <2>4, <2>5
<1>3. CASE Full(q) /\ p # "drop_old"
  BY <1>3 DEF Enqueued, Accepts
<1> QED
  BY <1>1, <1>2, <1>3

(* requeue_all_unfinished() into an empty queue: no copies, nothing else.  *)
LEMMA RequeuedOnce ==
    ASSUME NEW S, NEW s \in Seq(S), NEW p \in Policies, Distinct(s)
    PROVE  /\ EnqueuedAll(p, <<>>, s) \in Seq(S)
           /\ Len(EnqueuedAll(p, <<>>, s)) <= Capacity
           /\ Distinct(EnqueuedAll(p, <<>>, s))
           /\ Range(EnqueuedAll(p, <<>>, s)) \subseteq Range(s)
<1> DEFINE n == Len(s)
           e == EnqueuedAll(p, <<>>, s)
<1>1. <<>> \o s = s /\ <<>> \in Seq(S) /\ n \in Nat
  BY ConcatEmptySeq
<1>2. /\ e \in Seq(S) /\ Len(e) = n - Over(n)
      /\ \A i \in 1 .. n - Over(n) : e[i] = s[i + Offset(p, n)]
  <2> DEFINE t == <<>> \o s
  <2>1. /\ e \in Seq(S) /\ Len(e) = Len(t) - Over(Len(t))
        /\ \A i \in 1 .. Len(t) - Over(Len(t)) : e[i] = t[i + Offset(p, Len(t))]
    BY <1>1, EnqueuedAllElements
  <2>2. t = s
    BY <1>1
  <2> HIDE DEF t, e
  <2> QED
    BY <2>1, <2>2
<1>3. /\ n - Over(n) \in Nat /\ n - Over(n) <= Capacity
      /\ Offset(p, n) \in Nat /\ n - Over(n) + Offset(p, n) <= n
  BY <1>1, CapacityAssumption DEF Over, Offset
<1>4. DOMAIN s = 1 .. n /\ DOMAIN e = 1 .. n - Over(n)
  BY <1>2
<1> HIDE DEF n, e
<1>5. \A i \in 1 .. n - Over(n) : i + Offset(p, n) \in 1 .. n
  BY <1>1, <1>3
<1>6. Distinct(e)
  <2> SUFFICES ASSUME NEW i \in 1 .. n - Over(n), NEW k \in 1 .. n - Over(n), e[i] = e[k]
               PROVE  i = k
    BY <1>4 DEF Distinct
  <2>1. s[i + Offset(p, n)] = s[k + Offset(p, n)]
    BY <1>2
  <2>2. i + Offset(p, n) = k + Offset(p, n)
    BY <1>4, <1>5, <2>1 DEF Distinct
  <2> QED
    BY <1>3, <2>2
<1>7. Range(e) \subseteq Range(s)
  BY <1>2, <1>4, <1>5 DEF Range
<1> QED
  BY <1>2, <1>3, <1>6, <1>7 DEF e
=============================================================================
