-------------------------- MODULE MCInferenceClient --------------------------
(***************************************************************************)
(* InferenceClient for TLC.                                                *)
(***************************************************************************)
EXTENDS InferenceClient, TLC

CONSTANTS p1, p2, q1, q2

MCSide == [c \in Calls |-> IF c \in {p1, p2} THEN "primary" ELSE "candidate"]

(* As shipped for the primary; the candidate's value is not a sane one.    *)
MCMaxRetries == [s \in Sides |-> IF s = "primary" THEN 1 ELSE -1]

=============================================================================
