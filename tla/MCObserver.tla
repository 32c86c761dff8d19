----------------------------- MODULE MCObserver -----------------------------
(* Observer for TLC: two files of the same size, interchangeable. *)
EXTENDS Observer, TLC

CONSTANTS j1, j2

MCSize == j1 :> 2 @@ j2 :> 2

Symmetry == Permutations(Jobs)
=============================================================================
