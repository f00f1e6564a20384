--------------------------- MODULE MCShadowProxy ---------------------------
(***************************************************************************)
(* ShadowProxy for TLC: values for the constants that a .cfg cannot write. *)
(***************************************************************************)
EXTENDS ShadowProxy, TLC

CONSTANTS c1, c2, c3, i1, i2, i3, r1, r2, w1, w2, Ship, ship, hold

MCActions == {Ship, ship, hold}

(* "SHIP " and "ship" are the same action once normalised.                 *)
MCNormalForm == [a \in MCActions |-> IF a = Ship THEN ship ELSE a]

MCOwnIds    == [c \in Calls |-> IF c = c1 THEN i1 ELSE i2]
MCSharedId  == [c \in Calls |-> IF c = c3 THEN i2 ELSE i1]

\* Ids without a "/"; and i1 a name in a folder, whose last part is i3.
MCPlainIds  == [i \in Ids |-> i]
MCNestedId  == [i \in Ids |-> IF i = i1 THEN i3 ELSE i]

MCOneHome   == [w \in Workers |-> r1]
MCTwoHomes  == w1 :> r1 @@ w2 :> r2

(* Replicas may swap names if their workers do.                            *)
MCReplicaSymmetry ==
    {f \in Permutations(Replicas \cup Workers) :
        /\ {f[w] : w \in Workers} = Workers
        /\ \A w \in Workers : Home[f[w]] = f[Home[w]]}
=============================================================================
