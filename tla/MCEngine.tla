------------------------------ MODULE MCEngine ------------------------------
(***************************************************************************)
(* Finite instances of Engine: kind a may run two jobs at a time and kind  *)
(* b one, in an engine with fewer slots than they want together.           *)
(***************************************************************************)
EXTENDS Engine, TLC

CONSTANTS a, b, c1, c2, WorkA, WorkB

MCConcurrency == a :> 2 @@ b :> 1

MCWork == a :> WorkA @@ b :> WorkB

MCSymmetry == Permutations(Callers)
=============================================================================
