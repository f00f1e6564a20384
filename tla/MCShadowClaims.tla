--------------------------- MODULE MCShadowClaims ---------------------------
(***************************************************************************)
(* What the repository's documents say of the shadow proxy and its code    *)
(* does not keep.  Each property is checked by a run that must violate it. *)
(***************************************************************************)
EXTENDS MCShadowProxy

(* docs/Architecture_Doc.md, 2: "sampled out" leads to "skip shadow".  A   *)
(* sampled-out row stays pending, so the startup requeue shadows it.       *)
SampledOutNotShadowed ==
    \A c \in Calls : call[c].shadow = "sampled_out" => row[IdOf[c]].attempts = 0

(* docs/Architecture_Doc.md, 3: the worker merges "candidate response into *)
(* the same object".  put() derives the key from the date of the merge, so *)
(* past midnight the merge writes another object than the row's key names. *)
MergedIntoSameObject ==
    faults = 0 => \A i \in Rows :
        row[i].candidate = "ok" /\ row[i].key # NoKey => raw[row[i].key, i].candidate # None
=============================================================================
