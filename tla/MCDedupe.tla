------------------------------ MODULE MCDedupe ------------------------------
(***************************************************************************)
(* Finite instances of Dedupe.                                             *)
(***************************************************************************)
EXTENDS Dedupe, TLC

CONSTANTS j1, j2, j3, p1, p2, k1

MCSymmetry == Permutations(Jobs) \cup Permutations(Producers)
=============================================================================
