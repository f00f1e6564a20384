----------------------------- MODULE MCReadApi -----------------------------
(***************************************************************************)
(* ReadApi for TLC.                                                        *)
(***************************************************************************)
EXTENDS ReadApi, TLC

CONSTANTS i1, i2, i3

(* One value of received_at per row.                                       *)
MCTimes == 0 .. Cardinality(Ids) - 1

(* What the writers do after the answer was sent is of no interest.        *)
MCUnanswered == request \notin {"summary", "pages"}

MCSymmetry == Permutations(Ids)
=============================================================================
