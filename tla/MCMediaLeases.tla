---------------------------- MODULE MCMediaLeases ----------------------------
(* One download with a transform in the process that runs it, the rest of that *)
(* process's downloads as a sum, and the janitors of two processes.            *)
EXTENDS MediaLeases, TLC

CONSTANTS d1, old, new

MCHome == [d \in Downloads |-> new]

=============================================================================
