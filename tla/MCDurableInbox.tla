--------------------------- MODULE MCDurableInbox ---------------------------
(* Model values for DurableInbox: interchangeable processes and items. *)
EXTENDS DurableInbox, TLC

CONSTANTS j1, w1, w2, w3, k1, k2

Symmetry == Permutations(Owners) \cup Permutations(Keys)

=============================================================================
