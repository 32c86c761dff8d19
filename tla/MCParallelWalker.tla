-------------------------- MODULE MCParallelWalker --------------------------
(* ParallelWalker for TLC: small trees. *)
EXTENDS ParallelWalker, TLC

CONSTANTS w1, w2, root, sub, f1, f2, f3, f4

\* A directory of two pages, its subdirectory on the first; the subdirectory
\* has one full page.
Both == root :> <<f1, sub, f2>> @@ sub :> <<f3, f4>>

Symmetry == Permutations(Workers)
=============================================================================
