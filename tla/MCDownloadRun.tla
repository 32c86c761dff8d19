---------------------------- MODULE MCDownloadRun ----------------------------
(* DownloadRun for TLC: a tree of two directories and three files. *)
EXTENDS DownloadRun, TLC

CONSTANTS w1, w2, l1, l2, root, sub, f1, f2, b

\* The subdirectory first, so that both listing workers are busy; a file no job
\* can be made of beside one.
Tree == root :> <<sub, f1>> @@ sub :> <<b, f2>>
=============================================================================
