---------------------------- MODULE MCDispatcher ----------------------------
(***************************************************************************)
(* Dispatcher for TLC.  Jobs is a symmetry set of model values.            *)
(***************************************************************************)
EXTENDS Dispatcher, TLC

JobSymmetry == Permutations(Jobs)

MCDrain == {TRUE}
MCDrainOrAbort == BOOLEAN
=============================================================================
