--------------------------- MODULE MCTenraiAdapter ---------------------------
(* A small instance of TenraiAdapter for TLC.  No symmetry: the run checks  *)
(* liveness.                                                               *)
EXTENDS TenraiAdapter

CONSTANTS c1, c2, c3

MCBackoff == [a \in 1 .. MaxAttempts |-> 2 ^ (a - 1)]

MCCallers == {c1, c2, c3}
=============================================================================
