---------------------------- MODULE MCSharedMedia ----------------------------
(* Model values for SharedMedia. *)
EXTENDS SharedMedia

CONSTANTS c1, c2, c3

=============================================================================
