------------------------------ MODULE Mutations ------------------------------
(***************************************************************************)
(* The mutating requests of a bridge, as the client and the ledger see     *)
(* them: a batch or a standalone create (MutationBatch), or a Go rename    *)
(* (GoRename).  The write gate lets one of them run at a time; that it     *)
(* does is shown in BridgeLocks.  The result and the mark of the view are  *)
(* shared.                                                                 *)
(***************************************************************************)
EXTENDS Naturals

CONSTANTS MaxOps, Kinds, Faults, NFunctions, ChunkSize, GuiEdits, GoFaults

VARIABLES preview, at, result, marked,
          request, batch, next, rows, live, pinned, drift, imported, restores, undo,
          name, todo, inChunk, before, verified, pending, clean, cancelled, original, edited

Batch == INSTANCE MutationBatch
Go == INSTANCE GoRename

ASSUME MutationsAssumption == Batch!BatchConstants /\ Go!GoConstants

shared == <<preview, at, result, marked>>
batchOwn == <<request, batch, next, rows, live, pinned, drift, imported, restores, undo>>
goOwn == <<name, todo, inChunk, before, verified, pending, clean, cancelled, original, edited>>

Init == \/ Batch!BatchInit /\ Go!GoParked
        \/ Go!GoInit /\ Batch!BatchParked

IsGo == request = "go"

Next == \/ ~IsGo /\ Batch!BatchNext /\ UNCHANGED goOwn
        \/ IsGo /\ Go!GoNext /\ UNCHANGED batchOwn

Spec == Init /\ [][Next]_<<shared, batchOwn, goOwn>>

-----------------------------------------------------------------------------
TypeOK == IF IsGo THEN Go!GoTypeOK ELSE Batch!TypeOK

\* A client is told what happened, see MutationBatch; and a rename that was rolled
\* back put back every name that the user left alone.
OutcomeIsHonest ==
    IF IsGo THEN Go!RolledBackNamesAreBack ELSE Batch!OutcomeIsHonest

\* A request that leaves something of its own in the view leaves the view marked as
\* unsaved, or `bn close` discards it without a word.
ModifiedViewIsMarked ==
    IF IsGo THEN Go!LeftNamesAreMarked ELSE Batch!ModifiedViewIsMarked

\* A view with nothing of the request in it is not marked by it, except by a
\* deletion, which is marked before it is tried, by a rollback that says that it
\* failed, and where the user took away what the rename had given.
CleanViewIsNotMarked ==
    IF IsGo THEN Go!MarkHasReason ELSE Batch!CleanViewIsNotMarked

\* The dirty_after that the CLI works out from a reply is the mark that the bridge
\* has set for it.
DirtyAfterIsTheMark ==
    IF IsGo THEN Go!GoDone /\ result.kind = "reply" => (Go!GoDirtyAfter <=> marked)
            ELSE Batch!DirtyAfterIsTheMark

\* A name that the user gave while the rename ran is only ever overwritten by a
\* rollback, and only where the bridge had renamed the function first.
UserNamesSurvive == [][Go!KeepsUserNames]_name
=============================================================================
