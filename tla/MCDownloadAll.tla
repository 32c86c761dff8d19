--------------------------- MODULE MCDownloadAll ---------------------------
(* DownloadAll for TLC: a few files, workers and files interchangeable. *)
EXTENDS DownloadAll, TLC

CONSTANTS w1, w2, d, f1, f2, f3, f4, b

Symmetry == Permutations(Workers) \cup Permutations(Files)
=============================================================================
