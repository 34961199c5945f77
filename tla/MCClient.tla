------------------------------ MODULE MCClient ------------------------------
EXTENDS CommandLine, TLC

CONSTANTS c1, c2, k1, t1

Symmetry == Permutations({c1, c2})
=============================================================================
