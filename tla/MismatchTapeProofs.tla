------------------------- MODULE MismatchTapeProofs -------------------------
(***************************************************************************)
(* Proofs about MismatchTape for every queue size and any number of rows   *)
(* offered.                                                                *)
(***************************************************************************)
EXTENDS MismatchTape, SequenceTheorems, TLAPS

-----------------------------------------------------------------------------
(* The inductive invariant.                                                *)

(* Only aclose() puts a sentinel, and nothing comes behind it.             *)
SentinelLast ==
    /\ closer = "open" => \A n \in 1 .. Len(queue) : queue[n] # Sentinel
    /\ \A m, n \in 1 .. Len(queue) : m < n => queue[m] # Sentinel

(* The rows up to last, without a gap.                                     *)
Run(q, last) == \A n \in 1 .. Len(q) : q[n] = last - Len(q) + n

(* The queue holds the latest rows while rows are offered.                 *)
Contiguous == closer = "open" => Run(queue, offered)

(* Rows leave the queue in the order in which they came.                   *)
QueueInOrder ==
    \A m, n \in 1 .. Len(queue) :
        m < n /\ queue[n] # Sentinel => queue[m] < queue[n]

(* The row in the writer's hand is older than what waits and newer than    *)
(* what was written.                                                       *)
HandBetween ==
    hand # Sentinel =>
        /\ writer = "hold"
        /\ \A n \in 1 .. Len(queue) : queue[n] # Sentinel => hand < queue[n]
        /\ \A m \in DOMAIN tape : tape[m] < hand

TapeBeforeQueue ==
    \A m \in DOMAIN tape, n \in 1 .. Len(queue) :
        queue[n] # Sentinel => tape[m] < queue[n]

(* A displaced row is older than what waits and was never in the writer's  *)
(* hand; a queue full of rows came after it.                               *)
DisplacedGone ==
    \A old \in displaced :
        /\ \A n \in 1 .. Len(queue) : queue[n] # Sentinel => old < queue[n]
        /\ old # hand
        /\ \A m \in DOMAIN tape : old # tape[m]
        /\ offered >= old + Size

Inv == /\ TypeOK
       /\ SentinelLast /\ Contiguous /\ QueueInOrder /\ HandBetween
       /\ TapeBeforeQueue /\ TapeInOrder /\ DisplacedGone

-----------------------------------------------------------------------------
(* The two ends of a queue, position by position.                          *)
LEMMA AppendAt ==
    ASSUME NEW S, NEW q \in Seq(S), NEW x \in S
    PROVE  /\ Append(q, x) \in Seq(S)
           /\ Len(q) \in Nat /\ Len(Append(q, x)) = Len(q) + 1
           /\ \A n \in 1 .. Len(q) : Append(q, x)[n] = q[n]
           /\ Append(q, x)[Len(q) + 1] = x
  BY AppendProperties, LenProperties

LEMMA TailAt ==
    ASSUME NEW S, NEW q \in Seq(S), q # <<>>
    PROVE  /\ Tail(q) \in Seq(S) /\ Head(q) \in S
           /\ Len(q) \in Nat \ {0} /\ Len(Tail(q)) = Len(q) - 1
           /\ Head(q) = q[1]
           /\ \A n \in 1 .. Len(q) - 1 : Tail(q)[n] = q[n + 1]
  BY EmptySeq, HeadTailProperties

(* get_nowait() and put_nowait() of the next row keep a run.               *)
LEMMA RunTail ==
    ASSUME NEW S, NEW q \in Seq(S), q # <<>>, NEW last \in Int, Run(q, last)
    PROVE  Run(Tail(q), last)
<1> SUFFICES ASSUME NEW n \in 1 .. Len(Tail(q))
             PROVE  Tail(q)[n] = last - Len(Tail(q)) + n
  BY DEF Run
<1>1. /\ Len(q) \in Nat \ {0} /\ Len(Tail(q)) = Len(q) - 1
      /\ n \in 1 .. Len(q) - 1 /\ n + 1 \in 1 .. Len(q) /\ Tail(q)[n] = q[n + 1]
  BY TailAt
<1>2. q[n + 1] = last - Len(q) + (n + 1)
  BY <1>1 DEF Run
<1> QED
  BY <1>1, <1>2

LEMMA RunAppend ==
    ASSUME NEW S, NEW q \in Seq(S), NEW last \in Int, last + 1 \in S, Run(q, last)
    PROVE  Run(Append(q, last + 1), last + 1)
<1> SUFFICES ASSUME NEW n \in 1 .. Len(Append(q, last + 1))
             PROVE  Append(q, last + 1)[n]
                        = (last + 1) - Len(Append(q, last + 1)) + n
  BY DEF Run
<1>1. /\ Len(q) \in Nat /\ Len(Append(q, last + 1)) = Len(q) + 1
      /\ n \in 1 .. Len(q) + 1
      /\ n \in 1 .. Len(q) => Append(q, last + 1)[n] = q[n]
      /\ Append(q, last + 1)[Len(q) + 1] = last + 1
  BY AppendAt
<1>2. CASE n \in 1 .. Len(q)
  <2>1. q[n] = last - Len(q) + n
    BY <1>2 DEF Run
  <2> QED
    BY <1>1, <1>2, <2>1
<1>3. CASE n = Len(q) + 1
  BY <1>1, <1>3
<1> QED
  BY <1>1, <1>2, <1>3

(* A run holds its oldest row at the head, so making room drops exactly    *)
(* that row.                                                               *)
LEMMA RoomDropsHead ==
    ASSUME NEW S, NEW q \in Seq(S), q # <<>>, NEW last \in Int, Run(q, last)
    PROVE  Range(q) \ Range(RoomIn(q)) = {q[1]}
<1>1. /\ Len(q) \in Nat \ {0} /\ Len(Tail(q)) = Len(q) - 1
      /\ \A n \in 1 .. Len(q) - 1 : Tail(q)[n] = q[n + 1]
  BY TailAt
<1>2. /\ Range(q) = {q[n] : n \in 1 .. Len(q)}
      /\ Range(RoomIn(q)) = {Tail(q)[n] : n \in 1 .. Len(q) - 1}
  <2>1. Range(q) = {q[n] : n \in 1 .. Len(q)}
    BY RangeEquality
  <2>2. Tail(q) \in Seq(S)
    BY TailAt
  <2>3. Range(Tail(q)) = {Tail(q)[n] : n \in 1 .. Len(Tail(q))}
    BY <2>2, RangeEquality
  <2> QED
    BY <1>1, <2>1, <2>3 DEF RoomIn
<1>3. \A n \in 1 .. Len(q) : q[n] = last - Len(q) + n
  BY DEF Run
<1>4. \A n \in 1 .. Len(q) - 1 : Tail(q)[n] # q[1]
  BY <1>1, <1>3
<1>5. ASSUME NEW n \in 1 .. Len(q), n # 1 PROVE q[n] \in Range(RoomIn(q))
  <2>1. n - 1 \in 1 .. Len(q) - 1 /\ Tail(q)[n - 1] = q[n]
    BY <1>1, <1>5
  <2> QED
    BY <1>2, <2>1
<1>6. 1 \in 1 .. Len(q)
  BY <1>1
<1> QED
  BY <1>2, <1>4, <1>5, <1>6

(* Positions of a run and what stands there.                               *)
LEMMA RunOrdered ==
    ASSUME NEW q, NEW last \in Int, Len(q) \in Nat, Run(q, last),
           NEW m \in 1 .. Len(q), NEW n \in 1 .. Len(q), m < n
    PROVE  q[m] < q[n]
<1>1. q[m] = last - Len(q) + m /\ q[n] = last - Len(q) + n
  BY DEF Run
<1> QED
  BY <1>1

(* Above row low, which the run does not reach down to.                    *)
LEMMA RunAbove ==
    ASSUME NEW q, NEW last \in Int, Len(q) \in Nat, Run(q, last),
           NEW low \in Int, low <= last - Len(q), NEW n \in 1 .. Len(q)
    PROVE  low < q[n]
<1>1. q[n] = last - Len(q) + n
  BY DEF Run
<1> QED
  BY <1>1

(* A run and the same run with one more row: what is not new was there,    *)
(* when the longer one reaches back no further.                            *)
LEMMA RunGrows ==
    ASSUME NEW q, NEW p, NEW last \in Int, Len(q) \in Nat, Len(p) \in Nat,
           Run(q, last), Run(p, last + 1), Len(p) <= Len(q) + 1,
           NEW n \in 1 .. Len(p)
    PROVE  p[n] = last + 1 \/ \E m \in 1 .. Len(q) : p[n] = q[m]
<1>1. p[n] = last + 1 - Len(p) + n
  BY DEF Run
<1>2. CASE n = Len(p)
  BY <1>1, <1>2
<1>3. CASE n # Len(p)
  <2> DEFINE m == n + Len(q) + 1 - Len(p)
  <2>1. m \in 1 .. Len(q)
    BY <1>3
  <2>2. q[m] = last - Len(q) + m
    BY <2>1 DEF Run
  <2>3. p[n] = q[m]
    BY <1>1, <2>2
  <2> QED
    BY <2>1, <2>3
<1> QED
  BY <1>2, <1>3

-----------------------------------------------------------------------------
LEMMA Initially == Init => Inv
<1> SUFFICES ASSUME Init PROVE Inv
  OBVIOUS
<1>1. queue = <<>> /\ tape = <<>> /\ 1 .. Len(queue) = {} /\ DOMAIN tape = {}
  BY DEF Init
<1>2. queue \in Seq(Rows \cup {Sentinel}) /\ Len(queue) = 0 /\ tape \in Seq(Rows)
  BY <1>1, EmptySeq
<1>3. TypeOK
  BY <1>2, TapeAssumption DEF Init, TypeOK
<1> QED
  BY <1>1, <1>3 DEF Init, Inv, SentinelLast, Contiguous, QueueInOrder, HandBetween,
     TapeBeforeQueue, TapeInOrder, DisplacedGone, Run

(* What is the same whatever the step: types as arithmetic needs them.     *)
LEMMA Numbers ==
    ASSUME TypeOK
    PROVE  /\ Size \in Nat \ {0} /\ offered \in Nat /\ hand \in Nat
           /\ Len(queue) \in Nat
           /\ \A n \in 1 .. Len(queue) : queue[n] \in Nat /\ queue[n] <= offered
           /\ Len(tape) \in Nat /\ DOMAIN tape = 1 .. Len(tape)
           /\ \A n \in DOMAIN tape : tape[n] \in Nat \ {0} /\ tape[n] <= offered
           /\ \A old \in displaced : old \in Nat \ {0} /\ old <= offered
<1>1. queue \in Seq(Rows \cup {Sentinel}) /\ tape \in Seq(Rows) /\ offered \in Nat
  BY TapeAssumption DEF TypeOK
<1>2. /\ Len(queue) \in Nat
      /\ Len(tape) \in Nat /\ DOMAIN tape = 1 .. Len(tape)
  BY <1>1, LenProperties
<1>3. /\ \A n \in 1 .. Len(queue) : queue[n] \in Rows \cup {Sentinel}
      /\ \A n \in 1 .. Len(tape) : tape[n] \in Rows
  BY <1>1, ElementOfSeq
<1> QED
  BY <1>1, <1>2, <1>3, TapeAssumption DEF TypeOK, Rows, Sentinel

LEMMA OfferKeeps == Inv /\ Offer => Inv'
<1> SUFFICES ASSUME Inv, Offer PROVE Inv'
  OBVIOUS
<1>1. /\ closer = "open" /\ closer' = "open"
      /\ offered' = offered + 1 /\ offered < MaxOffers
      /\ UNCHANGED <<writer, hand, tape>>
  BY DEF Offer
<1>2. /\ Size \in Nat \ {0} /\ offered \in Nat /\ MaxOffers \in Nat /\ hand \in Nat
      /\ Len(queue) \in Nat /\ Len(queue) <= Size
      /\ \A n \in 1 .. Len(queue) : queue[n] \in Nat \ {0} /\ queue[n] <= offered
      /\ \A m \in DOMAIN tape : tape[m] \in Nat /\ tape[m] <= offered
      /\ \A old \in displaced : old \in Nat /\ old <= offered
  BY <1>1, Numbers, TapeAssumption DEF Inv, TypeOK, SentinelLast, Sentinel
<1>3. queue \in Seq(Rows \cup {Sentinel}) /\ Run(queue, offered)
  BY <1>1 DEF Inv, TypeOK, Contiguous
<1>4. Rows \subseteq Rows' /\ offered + 1 \in Rows' /\ offered' \in 0 .. MaxOffers
  BY <1>1, <1>2 DEF Rows
<1>5. Full => queue # <<>> /\ Len(queue) = Size /\ 1 \in 1 .. Len(queue)
  <2>1. Full => Len(queue) = Size /\ 1 \in 1 .. Len(queue)
    BY <1>2 DEF Full
  <2> QED
    BY <2>1
<1> DEFINE room == IF Full THEN RoomIn(queue) ELSE queue
           out  == IF Full THEN {queue[1]} ELSE {}
(* The queue with room.                                                    *)
<1>6. /\ room \in Seq(Rows \cup {Sentinel}) /\ Run(room, offered)
      /\ Len(room) = IF Full THEN Len(queue) - 1 ELSE Len(queue)
  BY <1>2, <1>3, <1>5, TailAt, RunTail DEF RoomIn
<1>7. displaced' = displaced \cup out
  BY <1>2, <1>3, <1>5, RoomDropsHead DEF Offer
<1>8. Len(room) \in Nat /\ Len(room) < Size
  BY <1>2, <1>5, <1>6 DEF Full
<1>9. /\ queue' \in Seq(Rows' \cup {Sentinel}) /\ Run(queue', offered')
      /\ Len(queue') = Len(room) + 1
  <2>1. room \in Seq(Rows' \cup {Sentinel}) /\ offered + 1 \in Rows' \cup {Sentinel}
    BY <1>4, <1>6, SeqMonotonic
  <2>2. queue' = Append(room, offered + 1)
    BY DEF Offer
  <2> QED
    BY <1>1, <1>2, <1>6, <2>1, <2>2, AppendAt, RunAppend
(* Every row that waits now is new, or waited before.                      *)
<1>10. Len(queue') \in Nat /\ Len(queue') <= Len(queue) + 1 /\ Len(queue') <= Size
  BY <1>2, <1>5, <1>6, <1>8, <1>9
<1>11. ASSUME NEW n \in 1 .. Len(queue')
       PROVE  queue'[n] = offered + 1 \/ \E m \in 1 .. Len(queue) : queue'[n] = queue[m]
  <2>1. Run(queue', offered + 1)
    BY <1>1, <1>9
  <2> QED
    BY <1>2, <1>3, <1>10, <2>1, RunGrows
<1>12. \A n \in 1 .. Len(queue') : queue'[n] \in Nat \ {0}
  BY <1>2, <1>11
<1>13. out # {} => /\ Full /\ out = {queue[1]} /\ queue[1] \in Nat \ {0}
                   /\ queue[1] = offered + 1 - Size /\ Len(queue') = Size
  <2>1. ASSUME Full PROVE queue[1] = offered - Len(queue) + 1
    BY <1>3, <1>5, <2>1 DEF Run
  <2> QED
    BY <1>2, <1>5, <1>6, <1>9, <2>1
<1>14. TypeOK'
  <2>1. out \subseteq Rows
    BY <1>2, <1>5 DEF Rows
  <2>2. displaced' \subseteq Rows'
    BY <1>4, <1>7, <2>1 DEF Inv, TypeOK
  <2>3. tape' \in Seq(Rows')
    BY <1>1, <1>4, SeqMonotonic DEF Inv, TypeOK
  <2>4. hand' \in Rows' \cup {Sentinel}
    BY <1>1, <1>4 DEF Inv, TypeOK
  <2>5. Len(queue') <= Size
    BY <1>2, <1>8, <1>9
  <2>6. queue' \in Seq(Rows' \cup {Sentinel})
    BY <1>9
  <2> QED
    BY <1>1, <1>4, <2>2, <2>3, <2>4, <2>5, <2>6 DEF Inv, TypeOK
<1>15. Contiguous' /\ SentinelLast'
  BY <1>9, <1>12 DEF Contiguous, SentinelLast, Sentinel
<1>16. QueueInOrder'
  <2> SUFFICES ASSUME NEW m \in 1 .. Len(queue'), NEW n \in 1 .. Len(queue'), m < n
               PROVE  queue'[m] < queue'[n]
    BY DEF QueueInOrder
  <2> QED
    BY <1>1, <1>2, <1>9, <1>10, RunOrdered
<1>17. HandBetween' /\ TapeBeforeQueue' /\ TapeInOrder'
  <2>1. hand # Sentinel => \A n \in 1 .. Len(queue') : hand < queue'[n]
    <3>1. hand <= offered
      BY <1>2 DEF Inv, TypeOK, Rows, Sentinel
    <3> QED
      BY <1>2, <1>11, <3>1 DEF Inv, HandBetween, Sentinel
  <2>2. \A m \in DOMAIN tape, n \in 1 .. Len(queue') : tape[m] < queue'[n]
    BY <1>2, <1>11 DEF Inv, TapeBeforeQueue, Sentinel
  <2> QED
    BY <1>1, <2>1, <2>2 DEF Inv, HandBetween, TapeBeforeQueue, TapeInOrder
<1>18. DisplacedGone'
  <2> SUFFICES ASSUME NEW old \in displaced'
               PROVE  /\ \A n \in 1 .. Len(queue') : old < queue'[n]
                      /\ old # hand
                      /\ \A m \in DOMAIN tape : old # tape[m]
                      /\ offered + 1 >= old + Size
    BY <1>1 DEF DisplacedGone
  <2>1. CASE old \in displaced
    <3>1. /\ \A n \in 1 .. Len(queue) : old < queue[n]
          /\ old # hand /\ \A m \in DOMAIN tape : old # tape[m]
          /\ offered >= old + Size
      BY <1>2, <2>1 DEF Inv, DisplacedGone, Sentinel
    <3> QED
      BY <1>2, <1>11, <2>1, <3>1
  <2>2. CASE old \in out
    <3>1. old = queue[1] /\ old \in Nat \ {0} /\ old = offered + 1 - Size
      BY <1>13, <2>2
    <3>2. \A n \in 1 .. Len(queue') : old < queue'[n]
      <4>1. Run(queue', offered + 1) /\ offered + 1 \in Int /\ old \in Int
        BY <1>1, <1>2, <1>9, <3>1
      <4>2. old <= (offered + 1) - Len(queue')
        BY <1>2, <1>13, <2>2, <3>1
      <4> QED
        BY <1>10, <4>1, <4>2, RunAbove
    <3>3. hand # Sentinel => hand < old
      BY <1>2, <1>5, <1>13, <2>2, <3>1 DEF Inv, HandBetween, Sentinel
    <3>4. \A m \in DOMAIN tape : tape[m] < old
      BY <1>2, <1>5, <1>13, <2>2, <3>1 DEF Inv, TapeBeforeQueue, Sentinel
    <3> QED
      BY <1>2, <3>1, <3>2, <3>3, <3>4 DEF Sentinel
  <2> QED
    BY <1>7, <2>1, <2>2
<1> QED
  BY <1>14, <1>15, <1>16, <1>17, <1>18 DEF Inv

LEMMA TakeKeeps == Inv /\ Take => Inv'
<1> SUFFICES ASSUME Inv, Take PROVE Inv'
  OBVIOUS
<1>1. /\ writer = "wait" /\ writer' = "hold"
      /\ queue # <<>> /\ queue' = Tail(queue) /\ hand' = queue[1]
      /\ hand' = Head(queue)
      /\ UNCHANGED <<closer, offered, displaced, tape>>
  BY TailAt DEF Take, Inv, TypeOK
<1>2. /\ queue' \in Seq(Rows \cup {Sentinel}) /\ hand' \in Rows \cup {Sentinel}
      /\ Len(queue) \in Nat \ {0} /\ Len(queue') = Len(queue) - 1
      /\ \A n \in 1 .. Len(queue) - 1 : queue'[n] = queue[n + 1]
  BY <1>1, TailAt DEF Inv, TypeOK
<1>3. TypeOK'
  BY <1>1, <1>2, TapeAssumption DEF Inv, TypeOK, Rows
<1>4. SentinelLast' /\ QueueInOrder' /\ TapeInOrder'
  BY <1>1, <1>2 DEF Inv, SentinelLast, QueueInOrder, TapeInOrder
<1>5. Contiguous'
  BY <1>1, Numbers, RunTail DEF Inv, TypeOK, Contiguous
<1>6. HandBetween' /\ TapeBeforeQueue'
  BY <1>1, <1>2 DEF Inv, HandBetween, TapeBeforeQueue, QueueInOrder
<1>7. DisplacedGone'
  <2> SUFFICES ASSUME NEW old \in displaced
               PROVE  /\ \A n \in 1 .. Len(queue') : queue'[n] # Sentinel => old < queue'[n]
                      /\ old # hand'
                      /\ \A m \in DOMAIN tape : old # tape[m]
                      /\ offered >= old + Size
    BY <1>1 DEF DisplacedGone
  <2>1. old \in Nat \ {0} /\ queue[1] \in Nat /\ 1 \in 1 .. Len(queue)
    BY <1>2, Numbers DEF Inv
  <2> QED
    BY <1>1, <1>2, <2>1 DEF Inv, DisplacedGone, Sentinel
<1> QED
  BY <1>3, <1>4, <1>5, <1>6, <1>7 DEF Inv

LEMMA WriteKeeps == Inv /\ Write => Inv'
<1> SUFFICES ASSUME Inv, Write PROVE Inv'
  OBVIOUS
<1>1. /\ writer = "hold" /\ hand # Sentinel /\ hand' = Sentinel
      /\ tape' = Append(tape, hand) /\ writer' \in {"wait", "ended"}
      /\ UNCHANGED <<queue, closer, offered, displaced>>
  BY DEF Write, NextRound
<1>2. /\ tape \in Seq(Rows) /\ hand \in Rows
  BY <1>1 DEF Inv, TypeOK
<1>3. /\ tape' \in Seq(Rows) /\ Len(tape) \in Nat
      /\ DOMAIN tape = 1 .. Len(tape) /\ DOMAIN tape' = 1 .. Len(tape) + 1
      /\ \A n \in DOMAIN tape : tape'[n] = tape[n]
      /\ tape'[Len(tape) + 1] = hand
  <2>1. /\ tape' \in Seq(Rows) /\ Len(tape) \in Nat /\ Len(tape') = Len(tape) + 1
        /\ \A n \in 1 .. Len(tape) : tape'[n] = tape[n]
        /\ tape'[Len(tape) + 1] = hand
    BY <1>1, <1>2, AppendAt
  <2>2. DOMAIN tape = 1 .. Len(tape) /\ DOMAIN tape' = 1 .. Len(tape')
    BY <1>2, <2>1, LenProperties
  <2> QED
    BY <2>1, <2>2
<1>4. TypeOK'
  BY <1>1, <1>3 DEF Inv, TypeOK, Rows
<1>5. SentinelLast' /\ Contiguous' /\ QueueInOrder' /\ HandBetween'
  BY <1>1 DEF Inv, SentinelLast, Contiguous, QueueInOrder, HandBetween
<1>6. TapeInOrder' /\ TapeBeforeQueue'
  BY <1>1, <1>3 DEF Inv, TapeInOrder, TapeBeforeQueue, HandBetween
<1>7. DisplacedGone'
  BY <1>1, <1>3, Numbers DEF Inv, DisplacedGone, Sentinel
<1> QED
  BY <1>4, <1>5, <1>6, <1>7 DEF Inv

LEMMA AcloseKeeps == Inv /\ Aclose => Inv'
<1> SUFFICES ASSUME Inv, Aclose PROVE Inv'
  OBVIOUS
<1>1. /\ closer = "open" /\ closer' = "closing"
      /\ UNCHANGED <<writer, hand, offered, displaced, tape>>
      /\ queue' = IF Full THEN queue ELSE Append(queue, Sentinel)
  BY DEF Aclose
<1>2. CASE Full
  BY <1>1, <1>2 DEF Inv, TypeOK, SentinelLast, Contiguous, QueueInOrder, HandBetween,
     TapeBeforeQueue, TapeInOrder, DisplacedGone, Rows
<1>3. CASE ~Full
  <2>1. /\ queue' \in Seq(Rows \cup {Sentinel}) /\ Len(queue) \in Nat
        /\ Len(queue') = Len(queue) + 1
        /\ \A n \in 1 .. Len(queue) : queue'[n] = queue[n]
        /\ queue'[Len(queue) + 1] = Sentinel
    BY <1>1, <1>3, AppendAt DEF Inv, TypeOK
  <2>2. TypeOK'
    BY <1>1, <1>3, <2>1, TapeAssumption DEF Inv, TypeOK, Rows, Full
  <2>3. SentinelLast' /\ Contiguous' /\ QueueInOrder'
    BY <1>1, <2>1 DEF Inv, SentinelLast, Contiguous, QueueInOrder
  <2>4. HandBetween' /\ TapeBeforeQueue' /\ TapeInOrder' /\ DisplacedGone'
    BY <1>1, <2>1 DEF Inv, HandBetween, TapeBeforeQueue, TapeInOrder, DisplacedGone
  <2> QED
    BY <2>2, <2>3, <2>4 DEF Inv
<1> QED
  BY <1>2, <1>3

(* The other steps leave queue and tape as they are.                       *)
LEMMA OthersKeep ==
    ASSUME Inv, UNCHANGED <<queue, offered, displaced, tape>>,
           hand' \in {hand, Sentinel}, hand' # Sentinel => writer' = "hold",
           writer' \in {"wait", "hold", "ended"}, closer' \in {"open", "closing", "closed"},
           closer' = "open" => closer = "open"
    PROVE  Inv'
<1>1. TypeOK'
  BY DEF Inv, TypeOK, Rows
<1>2. SentinelLast' /\ Contiguous' /\ QueueInOrder' /\ TapeBeforeQueue' /\ TapeInOrder'
  BY DEF Inv, SentinelLast, Contiguous, QueueInOrder, TapeBeforeQueue, TapeInOrder
<1>3. HandBetween' /\ DisplacedGone'
  BY Numbers DEF Inv, HandBetween, DisplacedGone, Sentinel
<1> QED
  BY <1>1, <1>2, <1>3 DEF Inv

LEMMA NextKeeps == Inv /\ [Next]_vars => Inv'
<1> SUFFICES ASSUME Inv, [Next]_vars PROVE Inv'
  OBVIOUS
<1> USE DEF Inv, TypeOK, HandBetween
<1>1. CASE Offer
  BY <1>1, OfferKeeps
<1>2. CASE Take
  BY <1>2, TakeKeeps
<1>3. CASE Write
  BY <1>3, WriteKeeps
<1>4. CASE WriteFails
  <2>1. /\ UNCHANGED <<queue, closer, offered, displaced, tape>>
        /\ hand' = Sentinel /\ writer' \in {"wait", "ended"}
    BY <1>4 DEF WriteFails, RolledBack, AfterRollback, NextRound
  <2> QED
    BY <2>1, OthersKeep
<1>5. CASE TakeSentinel
  BY <1>5, OthersKeep DEF TakeSentinel
<1>6. CASE Aclose
  BY <1>6, AcloseKeeps
<1>7. CASE AcloseReturns
  BY <1>7, OthersKeep DEF AcloseReturns
<1>8. CASE AcloseTimesOut
  BY <1>8, OthersKeep DEF AcloseTimesOut
<1>9. CASE Terminated \/ UNCHANGED vars
  BY <1>9, OthersKeep DEF Terminated, vars
<1> QED
  BY <1>1, <1>2, <1>3, <1>4, <1>5, <1>6, <1>7, <1>8, <1>9 DEF Next, Writer

LEMMA Invariant == Spec => []Inv
  BY Initially, NextKeeps, PTL DEF Spec

(* For any queue and any number of rows, the variables keep their types    *)
(* and the queue its bound.                                                *)
THEOREM TapeTypeCorrect == Spec => []TypeOK
  BY Invariant, PTL DEF Inv

(* Rows reach the tape in the order in which they were finalized, each at  *)
(* most once (store/mismatch_tape.py).                                     *)
THEOREM WrittenInOrder == Spec => []TapeInOrder
  BY Invariant, PTL DEF Inv

(* offer() on a full queue gives up the oldest row that waits: it never    *)
(* reached the tape and Size newer rows were offered.                      *)
THEOREM RoomFromTheOldest == Spec => []OldestDisplaced
<1>1. Inv => OldestDisplaced
  <2> SUFFICES ASSUME Inv, NEW old \in displaced
               PROVE  /\ \A new \in Range(queue) \ {Sentinel} : old < new
                      /\ old \notin Range(tape)
                      /\ offered >= old + Size
    BY DEF OldestDisplaced
  <2> QED
    BY DEF Inv, DisplacedGone, Range
<1> QED
  BY <1>1, Invariant, PTL
=============================================================================
