--------------------------- MODULE MCBridgeLocks ---------------------------
(* BridgeLocks for TLC: threads are interchangeable.                         *)
EXTENDS BridgeLocks, TLC

Symmetry == Permutations(Threads)
=============================================================================
