--------------------------- MODULE BridgeThreads ---------------------------
(* The threads of a bridge process that serve requests: one per connection,  *)
(* and one per detached load.                                                *)
EXTENDS FiniteSets

CONSTANTS Threads, None

ASSUME NoneAssumption == None \notin Threads
ASSUME ThreadsAssumption == IsFiniteSet(Threads)
=============================================================================
