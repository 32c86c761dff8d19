--------------------------- MODULE MCFileDownload ---------------------------
(* FileDownload for TLC: two versions of the file with chosen lengths. *)
EXTENDS FileDownload, TLC

CONSTANTS v1, v2, Size1, Size2

MCSize == v1 :> Size1 @@ v2 :> Size2
=============================================================================
