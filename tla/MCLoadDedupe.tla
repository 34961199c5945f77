---------------------------- MODULE MCLoadDedupe ---------------------------
(* LoadDedupe for TLC: loads are interchangeable.                            *)
EXTENDS LoadDedupe, TLC

Symmetry == Permutations(Loads)
=============================================================================
