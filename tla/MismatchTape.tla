---------------------------- MODULE MismatchTape ----------------------------
(***************************************************************************)
(* MismatchTape (store/mismatch_tape.py): a bounded queue of rows, the one *)
(* writer task that inserts them into mismatches.sqlite, and aclose().     *)
(* Rows are numbered in the order they are offered.  The SQLite calls do   *)
(* not await, so INSERT and COMMIT of a row are one step; get() under      *)
(* wait_for() hands a row over one step before the writer runs again, as   *)
(* in Python 3.11, the oldest version the project supports.                *)
(*                                                                         *)
(* Left out: the schema, and the timeout of get(), which only makes the    *)
(* writer look at the stop event again; aclose() before start().           *)
(***************************************************************************)
EXTENDS Integers, Sequences, FiniteSets, Functions

CONSTANTS Size,          \* queue_size
          MaxOffers      \* bound on the number of rows offered

ASSUME TapeAssumption == Size \in Nat \ {0} /\ MaxOffers \in Nat

Sentinel == 0            \* the None that aclose() puts

VARIABLES
    queue,       \* self._queue
    writer,      \* where the writer task is
    hand,        \* what get() handed to the writer
    closer,      \* where aclose() is; self._stopped is set when not "open"
    offered,     \* number of rows offered so far
    displaced,   \* rows that made room for newer ones
    tape         \* the rows of the mismatches table, in order of their ids

vars == <<queue, writer, hand, closer, offered, displaced, tape>>

Rows == 1 .. offered

TypeOK ==
    /\ queue \in Seq(Rows \cup {Sentinel})
    /\ Len(queue) <= Size
    /\ writer \in {"wait", "hold", "ended"}
    /\ hand \in Rows \cup {Sentinel}
    /\ closer \in {"open", "closing", "closed"}
    /\ offered \in 0 .. MaxOffers
    /\ displaced \subseteq Rows
    /\ tape \in Seq(Rows)

(* start(): the schema exists and the writer task was created.             *)
Init ==
    /\ queue = <<>> /\ writer = "wait" /\ hand = Sentinel
    /\ closer = "open" /\ offered = 0 /\ displaced = {} /\ tape = <<>>

-----------------------------------------------------------------------------
Full == Len(queue) >= Size

(* A slip: the newest row makes room.                                      *)
RoomFromNewest(q) == SubSeq(q, 1, Len(q) - 1)

(* get_nowait() makes room.                                                *)
RoomIn(q) == Tail(q)

(* offer(): put_nowait(), on a full queue after dropping a row.  It has no *)
(* await, so nothing comes between the two.                                *)
Offer ==
    /\ closer = "open"
    /\ offered < MaxOffers
    /\ offered' = offered + 1
    /\ queue' = Append(IF Full THEN RoomIn(queue) ELSE queue, offered + 1)
    /\ displaced' = displaced \cup
           (IF Full THEN Range(queue) \ Range(RoomIn(queue)) ELSE {})
    /\ UNCHANGED <<writer, hand, closer, tape>>

(* A slip: the loop looks for the sentinel only.                           *)
NextRoundSentinelOnly == "wait"

(* The loop condition, after a row.                                        *)
NextRound == IF closer = "open" THEN "wait" ELSE "ended"

(* wait_for(get()) is answered.                                            *)
Take ==
    /\ writer = "wait"
    /\ queue # <<>>
    /\ hand' = Head(queue)
    /\ queue' = Tail(queue)
    /\ writer' = "hold"
    /\ UNCHANGED <<closer, offered, displaced, tape>>

(* INSERT and COMMIT.                                                      *)
Write ==
    /\ writer = "hold" /\ hand # Sentinel
    /\ tape' = Append(tape, hand)
    /\ hand' = Sentinel
    /\ writer' = NextRound
    /\ UNCHANGED <<queue, closer, offered, displaced>>

(* Slips: the row is queued again, or the exception ends the writer.       *)
RolledBackRequeued == Append(queue, hand)
AfterRollbackEnds  == "ended"

(* What rollback() leaves of the queue, and where the writer goes on.      *)
RolledBack    == queue
AfterRollback == NextRound

(* INSERT or COMMIT raises: "never let a single bad row kill the writer".  *)
WriteFails ==
    /\ writer = "hold" /\ hand # Sentinel
    /\ queue' = RolledBack
    /\ hand' = Sentinel
    /\ writer' = AfterRollback
    /\ UNCHANGED <<closer, offered, displaced, tape>>

TakeSentinel ==
    /\ writer = "hold" /\ hand = Sentinel
    /\ writer' = "ended"
    /\ UNCHANGED <<queue, hand, closer, offered, displaced, tape>>

(* aclose(): the stop event, then the sentinel if there is room for it.    *)
Aclose ==
    /\ closer = "open"
    /\ closer' = "closing"
    /\ queue' = IF Full THEN queue ELSE Append(queue, Sentinel)
    /\ UNCHANGED <<writer, hand, offered, displaced, tape>>

AcloseReturns ==
    /\ closer = "closing" /\ writer = "ended"
    /\ closer' = "closed"
    /\ UNCHANGED <<queue, writer, hand, offered, displaced, tape>>

(* The writer still waits after 2 s (SQLite or another task held up the    *)
(* event loop): wait_for() cancels it.  A writer that was already handed a *)
(* row gets it all the same, and ends by itself.                           *)
AcloseTimesOut ==
    /\ closer = "closing" /\ writer = "wait"
    /\ closer' = "closed"
    /\ writer' = "ended"
    /\ UNCHANGED <<queue, hand, offered, displaced, tape>>

Writer == Take \/ Write \/ WriteFails \/ TakeSentinel

Terminated == closer = "closed" /\ UNCHANGED vars

Next == Offer \/ Writer \/ Aclose \/ AcloseReturns \/ AcloseTimesOut \/ Terminated

(* The event loop runs the writer and the waiter; nothing forces offers, a *)
(* close, or the 2 s of its timeout to pass first.                         *)
Spec == Init /\ [][Next]_vars /\ WF_vars(Writer) /\ WF_vars(AcloseReturns)

-----------------------------------------------------------------------------
(* The tape shows rows in the order in which they were finalized and shows *)
(* none twice, whatever was displaced, failed or cancelled in between.     *)
TapeInOrder == \A m, n \in DOMAIN tape : m < n => tape[m] < tape[n]

(* "Drop the oldest to make room for the newest": a displaced row is older *)
(* than everything that still waits, never reached the tape, and at least  *)
(* a queue full of newer rows was offered after it.                        *)
OldestDisplaced ==
    \A old \in displaced :
        /\ \A new \in Range(queue) \ {Sentinel} : old < new
        /\ old \notin Range(tape)
        /\ offered >= old + Size

(* A bad row never stops the tape: while it is open, every queued row is   *)
(* written, rolled back or displaced.                                      *)
RowsLeaveQueue ==
    \A r \in 1 .. MaxOffers :
        r \in Range(queue) ~> (r \notin Range(queue) \/ closer # "open")

(* aclose() ends by itself, not only by its timeout, even when the queue   *)
(* was so full that the sentinel did not fit.                              *)
AcloseEnds == closer = "closing" ~> closer = "closed"
=============================================================================
