------------------------- MODULE MCSequentialWalker -------------------------
(* SequentialWalker for TLC: a small tree. *)
EXTENDS SequentialWalker, TLC

CONSTANTS root, d1, d2, d3, f1, f2, f3, f4, f5, f6

\* Three levels, directories of several pages, full and not, and an empty one.
Tree == root :> <<d1, f1, d2, f2, f3>> @@ d1 :> <<f4, d3>> @@ d2 :> <<f5, f6>> @@ d3 :> <<>>
=============================================================================
