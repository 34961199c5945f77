----------------------------- MODULE MCSaveHome -----------------------------
(* SaveHome for TLC: views and changes are interchangeable.                  *)
EXTENDS SaveHome, TLC

Symmetry == Permutations(Views) \cup Permutations(Changes)

=============================================================================
