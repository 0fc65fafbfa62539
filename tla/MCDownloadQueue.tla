-------------------------- MODULE MCDownloadQueue --------------------------
(* Model values for DownloadQueue. *)
EXTENDS DownloadQueue

CONSTANTS t1, t2, t3, t4

=============================================================================
