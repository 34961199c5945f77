-------------------------------- MODULE Taint --------------------------------
(***************************************************************************)
(* One run of the taint engine: forward from a source (TaintForward) or    *)
(* backward from what a sink reads (TaintBackward).  Each command has an   *)
(* engine of its own, so a run has one direction.                          *)
(***************************************************************************)
EXTENDS TaintForward, TaintBackward

ASSUME TaintAssumption == ForwardConstants /\ BackwardConstants

Init == \/ ForwardInit /\ BackwardParked
        \/ BackwardInit /\ ForwardParked

IsForward == sources # {}

Next == \/ IsForward /\ ForwardNext /\ UNCHANGED sliceVars
        \/ ~IsForward /\ BackwardNext /\ UNCHANGED forwardVars

Spec == Init /\ [][Next]_<<forwardVars, sliceVars>>
=============================================================================
