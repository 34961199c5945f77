------------------------- MODULE MCBridgeLifecycle -------------------------
(* BridgeLifecycle for TLC: bridges, requests and stops are interchangeable. *)
EXTENDS BridgeLifecycle, TLC

Symmetry == Permutations(Bridges) \cup Permutations(Requests) \cup Permutations(Stoppers)
=============================================================================
