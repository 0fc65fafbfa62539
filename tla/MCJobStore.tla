----------------------------- MODULE MCJobStore -----------------------------
(* Model values for JobStore.  Jobs and owners are only compared for equality *)
(* (the inbox keeps the order of the jobs), so both are interchangeable.      *)
EXTENDS JobStore, TLC

CONSTANTS j1, j2, j3, o1, o2, k1, k2

Symmetry == Permutations(Jobs) \cup Permutations(Owners)

=============================================================================
