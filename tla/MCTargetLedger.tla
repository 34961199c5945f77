--------------------------- MODULE MCTargetLedger --------------------------
(* TargetLedger for TLC: views and requests are interchangeable.             *)
EXTENDS TargetLedger, TLC

Symmetry == Permutations(Views) \cup Permutations(Requests)
=============================================================================
