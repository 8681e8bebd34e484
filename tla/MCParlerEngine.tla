--------------------------- MODULE MCParlerEngine ---------------------------
(* Instances of ParlerEngine for TLC. *)
EXTENDS ParlerEngine, TLC

CONSTANTS r1, r2, r3, r4

MCSymmetry == Permutations(Req)
=============================================================================
