---------------------------- MODULE MutationBatch ----------------------------
(***************************************************************************)
(* One mutating request against one view, under the write gate: a batch    *)
(* (_apply_batch, with the import outcome around it and the marking rules  *)
(* of BinaryNinjaBridge._mutation), or a standalone `function create`      *)
(* (create_comments._function_create).  Each exclusive scope of the code   *)
(* is one action; analysis runs between the scopes.  What an operation     *)
(* does to the view is reduced to whether its change is live.              *)
(*                                                                         *)
(*   rename, declare   journaled: the undo group takes them back           *)
(*   local, proto      not journaled: an explicit restore takes them back  *)
(*   autoProto         a prototype on a function that has no user type yet *)
(*                     pins has_user_type, which nothing can clear         *)
(*   create            removed by a restore that also repairs its hosts    *)
(*   delete            cannot be undone                                    *)
(***************************************************************************)
EXTENDS Naturals, Sequences, MutationReport

CONSTANTS MaxOps,      \* the longest batch
          Kinds,       \* the kinds of operations that requests may hold
          Faults       \* what may go wrong, see AllFaults

AllFaults == {"undo", "restore", "drift", "hosts", "analysis", "midAnalysis",
              "verify", "commit", "import", "collect", "createRollback"}

AllKinds == {"rename", "declare", "local", "proto", "autoProto", "create", "delete"}

BatchConstants == /\ MaxOps \in Nat \ {0}
                  /\ Kinds \subseteq AllKinds
                  /\ Faults \subseteq AllFaults

VARIABLES
    request,     \* "batch", or "create": a standalone function create
    batch,       \* the kind of each operation
    preview,
    at,          \* where the request stands
    next,        \* the operation to apply next: len(results) + 1
    rows,        \* the status of each operation's row
    live,        \* the operations whose change is in the view
    pinned,      \* the operations that pinned has_user_type
    drift,       \* whether aliased locals moved along with a retyped one
    imported,    \* whether a parse brought library types into the view
    restores,    \* the operations with a registered restore
    undo,        \* the undo group
    result,
    marked       \* whether the ledger says that the view has unsaved work

viewVars == <<live, pinned, drift, imported>>
planVars == <<request, batch, preview>>
batchVars == <<request, batch, preview, at, next, rows, live, pinned, drift,
               imported, restores, undo, result, marked>>

Ops == DOMAIN batch

Journaled(i) == batch[i] \in {"rename", "declare"}

\* _capture_local_var_snapshots: taken when an operation may move locals.
SnapshotsLocals == \E i \in Ops : batch[i] \in {"local", "proto", "autoProto"}

Deletes == \E i \in Ops : batch[i] = "delete"

\* _later_create_needs_ranges
LaterCreate(i) == batch[i] = "create" /\ \E j \in Ops : j > i /\ batch[j] = "create"

May(fault) == {FALSE} \union {fault \in Faults}

BatchInit ==
    /\ \E n \in 1..MaxOps : batch \in [1..n -> Kinds]
    /\ request \in {"batch"} \union {r \in {"create"} : batch = <<"create">>}
    /\ preview \in BOOLEAN
    /\ at = "preflight"
    /\ next = 1
    /\ rows = [i \in DOMAIN batch |-> "pending"]
    /\ live = {} /\ pinned = {} /\ drift = FALSE /\ imported = FALSE
    /\ restores = {}
    /\ undo = "none"
    /\ result = NoResult
    /\ marked = FALSE

\* Where the variables rest while a Go rename runs.
BatchParked ==
    /\ request = "go"
    /\ batch = << >> /\ next = 1 /\ rows = << >>
    /\ live = {} /\ pinned = {} /\ drift = FALSE /\ imported = FALSE
    /\ restores = {}
    /\ undo = "none"

-----------------------------------------------------------------------------
(***************************************************************************)
(* Preflight: everything before begin_undo_actions.                        *)
(***************************************************************************)

\* A preview that consists of first prototypes only is refused, and so is a
\* deletion that is previewed or combined with other operations.
MustRefuse ==
    \/ preview /\ \A i \in Ops : batch[i] = "autoProto"
    \/ Deletes /\ (preview \/ Len(batch) # 1)

Refuse ==
    /\ at = "preflight"
    /\ request = "batch"
    /\ imported' \in May("import")
    /\ IF imported' /\ ~Deletes
       THEN /\ \E blamed \in {{}} \union {{i} : i \in Ops} :
                  rows' = [i \in Ops |-> IF i \in blamed THEN "failed" ELSE "not_attempted"]
            /\ result' = Reply(preview, FALSE, "yes", FALSE, FALSE)
       ELSE /\ result' = Raised("refused", FALSE)
            /\ UNCHANGED rows
    /\ at' = "finish"
    /\ UNCHANGED <<planVars, next, live, pinned, drift, restores, undo, marked>>

BeginUndo ==
    /\ at = "preflight"
    /\ request = "batch"
    /\ ~MustRefuse
    /\ ~Deletes
    /\ undo' = "open"
    /\ at' = "loop"
    /\ UNCHANGED <<planVars, next, rows, viewVars, restores, result, marked>>

\* The view is marked before the call that cannot be undone; whatever happens
\* afterwards ends in a reply.
DeleteFunction ==
    /\ at = "preflight"
    /\ Deletes
    /\ ~MustRefuse
    /\ marked' = TRUE
    /\ live' \in SUBSET Ops
    /\ \E ok \in {TRUE} \union May("verify") \union May("analysis") :
          /\ rows' = [i \in Ops |-> IF ok /\ live' = Ops THEN "verified" ELSE "failed"]
          /\ result' = Reply(FALSE, TRUE, "no", ok /\ live' = Ops, FALSE)
    /\ at' = "mark"
    /\ UNCHANGED <<planVars, next, pinned, drift, imported, restores, undo>>

-----------------------------------------------------------------------------
(***************************************************************************)
(* The apply loop: one exclusive scope for each operation.                 *)
(***************************************************************************)

Row(status) == rows' = [rows EXCEPT ![next] = status]

\* A prototype that would pin is left out of a preview, and so is a local
\* that depends on one that was left out.
LeaveOut ==
    /\ at = "loop" /\ next \in Ops
    /\ preview
    /\ \/ batch[next] = "autoProto"
       \/ /\ batch[next] = "local"
          /\ \E i \in 1..(next - 1) : rows[i] = "not_previewed"
    /\ Row("not_previewed")
    /\ next' = next + 1
    /\ UNCHANGED <<planVars, at, viewVars, restores, undo, result, marked>>

AfterOp(i) == IF LaterCreate(i) THEN "midAnalysis" ELSE "loop"

ApplyOp ==
    /\ at = "loop" /\ next \in Ops
    /\ ~(preview /\ batch[next] = "autoProto")
    /\ Row("applied")
    /\ live' = live \union {next}
    /\ restores' = restores \union {i \in {next} : ~Journaled(i)}
    /\ pinned' = pinned \union {i \in {next} : batch[i] = "autoProto"}
    /\ drift' \in {drift} \union {batch[next] \in {"local", "proto", "autoProto"}}
    /\ imported' \in {imported} \union {batch[next] = "declare" /\ ~preview}
    /\ next' = next + 1
    /\ at' = AfterOp(next)
    /\ UNCHANGED <<planVars, undo, result, marked>>

\* The state that the operation asks for is there already.
ApplyNoop ==
    /\ at = "loop" /\ next \in Ops
    /\ ~(preview /\ batch[next] = "autoProto")
    /\ Row("noop")
    /\ next' = next + 1
    /\ at' = AfterOp(next)
    /\ UNCHANGED <<planVars, viewVars, restores, undo, result, marked>>

\* A rename chain is refused after the rename; a local's restore is registered
\* before it is changed.  Other operations fail before they change anything.
ApplyFails ==
    /\ at = "loop" /\ next \in Ops
    /\ Row("failed")
    /\ live' \in {live, live \union {i \in {next} : batch[i] \in {"rename", "local"}}}
    /\ restores' = restores \union {i \in {next} : batch[i] = "local"}
    /\ at' = "undoApply"
    /\ UNCHANGED <<planVars, next, pinned, drift, imported, undo, result, marked>>

\* update_analysis_and_wait between two creates.  The handler around the loop
\* catches OperationFailure only, so an error of the analysis leaves at once.
MidAnalysis ==
    /\ at = "midAnalysis"
    /\ \E raised \in May("midAnalysis") :
          /\ at' = IF raised THEN "finish" ELSE "loop"
          /\ result' = IF raised THEN Raised("raised", FALSE) ELSE result
    /\ UNCHANGED <<planVars, next, rows, viewVars, restores, undo, marked>>

EndLoop ==
    /\ at = "loop" /\ next \notin Ops
    /\ at' = "analyze"
    /\ UNCHANGED <<planVars, next, rows, viewVars, restores, undo, result, marked>>

-----------------------------------------------------------------------------
(***************************************************************************)
(* Reverting: the undo group, the restores, the drift repair and the check *)
(* of the split functions, all of them whatever the others say.  stuck are *)
(* the changes that remain: a journaled one only if the undo raised, one   *)
(* with a restore only if a restore failed.                                *)
(***************************************************************************)

Taken(i) == IF Journaled(i) THEN undo = "open" ELSE i \in restores

Steps == [undo : {TRUE} \union {~f : f \in May("undo")},
          restore : {TRUE} \union {~f : f \in May("restore")},
          drift : {TRUE} \union {~f : f \in May("drift")},
          hosts : {TRUE} \union {~f : f \in May("hosts")}]

\* What remains of the changes when the steps ended as ok says.
Remains(ok, stuck, strayed) ==
    /\ stuck \subseteq live
    /\ \A i \in live \ stuck : Taken(i)
    /\ ok.undo => \A i \in stuck : ~(Journaled(i) /\ Taken(i))
    /\ ok.restore => \A i \in stuck : Journaled(i) \/ ~Taken(i)
    /\ strayed => drift
    /\ (ok.drift /\ SnapshotsLocals) => ~strayed

ValuesRevertedNoRestores(ok) == ok.undo /\ ok.drift /\ ok.hosts

ValuesReverted(ok) == ok.undo /\ ok.restore /\ ok.drift /\ ok.hosts

\* _prototype_user_type_residue looks at the rows of the applied prototypes.
Residue == pinned # {}

Revert(ok) ==
    \E stuck \in SUBSET live, strayed \in BOOLEAN :
       /\ Remains(ok, stuck, strayed)
       /\ live' = stuck
       /\ drift' = strayed
       /\ undo' = "closed"
       /\ UNCHANGED <<pinned, imported>>

UnverifiedStatus(ok) == IF ValuesReverted(ok) /\ ~Residue THEN "reverted" ELSE "rollback_failed"

\* except OperationFailure: some operation could not be applied.
RevertApplied ==
    /\ at = "undoApply"
    /\ \E ok \in Steps :
          /\ Revert(ok)
          /\ rows' = [i \in Ops |-> CASE rows[i] = "applied" -> UnverifiedStatus(ok)
                                      [] rows[i] = "pending" -> "not_attempted"
                                      [] OTHER -> rows[i]]
          /\ result' = Reply(preview, FALSE, YesNo(ValuesReverted(ok) /\ ~Residue),
                             FALSE, Residue)
    /\ at' = "finish"
    /\ UNCHANGED <<planVars, next, restores, marked>>

\* The analysis after the last operation, under the gate alone.
Analyze ==
    /\ at = "analyze"
    /\ \E raised \in May("analysis") : at' = IF raised THEN "undoRaise" ELSE "verify"
    /\ imported' \in {imported} \union May("import")
    /\ UNCHANGED <<planVars, next, rows, live, pinned, drift, restores, undo, result, marked>>

\* What verification makes of the rows: bad ones fail, the others are
\* verified, and what never ran keeps its status.
Verified(bad) ==
    [i \in Ops |-> CASE rows[i] = "applied" -> IF i \in bad THEN "failed" ELSE "verified"
                     [] OTHER -> rows[i]]

Verifiable == {i \in Ops : rows[i] = "applied"}

Restamped(verdicts, ok) ==
    [i \in Ops |-> IF verdicts[i] \in SuccessClass
                   THEN IF ValuesReverted(ok) THEN "reverted" ELSE "rollback_failed"
                   ELSE verdicts[i]]

VerifyAndCommit ==
    /\ at = "verify"
    /\ ~preview
    /\ rows' = Verified({})
    /\ undo' = "closed"
    /\ result' = Reply(FALSE, TRUE, "no", TRUE, FALSE)
    /\ at' = "finish"
    /\ UNCHANGED <<planVars, next, viewVars, restores, marked>>

VerifyAndRevert ==
    /\ at = "verify"
    /\ \E bad \in IF "verify" \in Faults THEN SUBSET Verifiable ELSE {{}} :
          /\ preview \/ bad # {}
          /\ \E ok \in Steps :
                /\ Revert(ok)
                /\ rows' = IF bad = {} THEN Verified(bad) ELSE Restamped(Verified(bad), ok)
                /\ LET restored == ValuesReverted(ok) /\ ~Residue
                   IN  result' = Reply(preview, FALSE, YesNo(restored),
                                       bad = {} /\ restored, Residue)
    /\ at' = "finish"
    /\ UNCHANGED <<planVars, next, restores, marked>>

\* The snapshots, or commit_undo_actions, raise.
VerifyRaises ==
    /\ at = "verify"
    /\ Faults \intersect {"verify", "commit"} # {}
    /\ at' = "undoRaise"
    /\ UNCHANGED <<planVars, next, rows, viewVars, restores, undo, result, marked>>

RevertAndRaise ==
    /\ at = "undoRaise"
    /\ \E ok \in Steps :
          /\ Revert(ok)
          /\ result' = Raised(IF ValuesReverted(ok) THEN "raised" ELSE "rollback_failed", Residue)
    /\ at' = "finish"
    /\ UNCHANGED <<planVars, next, rows, restores, marked>>

-----------------------------------------------------------------------------
(***************************************************************************)
(* The end of the request: the import outcome, then the bridge's marking.  *)
(***************************************************************************)

\* A preview that kept a type fails, and its good rows are restamped.
FinishImports ==
    /\ at = "finish"
    /\ \E raised \in May("collect") :
          IF raised
          THEN /\ result' = Raised("raised", FALSE)
               /\ UNCHANGED rows
          ELSE IF result.kind = "reply" /\ imported
          THEN /\ result' = [result EXCEPT !.kept = preview \/ ~result.committed,
                                           !.success = @ /\ ~preview]
               /\ rows' \in IF preview
                            THEN {[i \in Ops |-> IF rows[i] \in SuccessClass
                                                 THEN IF result.rolledBack = "yes"
                                                      THEN "reverted" ELSE "rollback_failed"
                                                 ELSE rows[i]]}
                            ELSE {rows}
          ELSE /\ result' = [result EXCEPT !.kept = imported]
               /\ UNCHANGED rows
    /\ at' = IF request = "batch" THEN "mark" ELSE "done"
    /\ UNCHANGED <<planVars, next, viewVars, restores, undo, marked>>

CommittedChange == /\ result.kind = "reply" /\ result.committed /\ ~result.preview
                   /\ AnyRow(rows, {"verified"})

RollbackLeftVerified == /\ result.kind = "reply" /\ ~result.committed
                        /\ result.rolledBack = "no" /\ AnyRow(rows, {"verified"})

NotRolledBack == result.kind = "reply" /\ result.rolledBack = "no"

RollbackLeftState == result.kind = "reply" /\ ~result.committed /\ result.rolledBack = "no"

ErrorLeftState == result.kind = "error" /\ (result.status = "rollback_failed" \/ result.residue)

ResidueLeftState == result.kind = "reply" /\ result.residue

Mark ==
    /\ at = "mark"
    /\ marked' = (marked \/ CommittedChange \/ RollbackLeftState
                         \/ ResidueLeftState \/ ErrorLeftState)
    /\ at' = "done"
    /\ UNCHANGED <<planVars, next, rows, viewVars, restores, undo, result>>

-----------------------------------------------------------------------------
(***************************************************************************)
(* A standalone function create.  It bypasses the marking of _mutation and *)
(* marks the view itself.  Its change is the function, the cut of the host *)
(* functions included.                                                     *)
(***************************************************************************)

CreateRefuse ==
    /\ at = "preflight" /\ request = "create"
    /\ result' = Raised("refused", FALSE)
    /\ at' = "finish"
    /\ UNCHANGED <<planVars, next, rows, viewVars, restores, undo, marked>>

CreateExists ==
    /\ at = "preflight" /\ request = "create"
    /\ Row("noop")
    /\ result' = Reply(preview, FALSE, "absent", TRUE, FALSE)
    /\ at' = "finish"
    /\ UNCHANGED <<planVars, next, viewVars, restores, undo, marked>>

BeginCreate ==
    /\ at = "preflight" /\ request = "create"
    /\ undo' = "open"
    /\ at' = "create"
    /\ UNCHANGED <<planVars, next, rows, viewVars, restores, result, marked>>

CreateOne ==
    /\ at = "create"
    /\ \/ live' = Ops /\ at' = "createAnalyze"
       \/ live' \in SUBSET Ops /\ at' = "createRaise"
    /\ restores' = Ops
    /\ UNCHANGED <<planVars, next, rows, pinned, drift, imported, undo, result, marked>>

AnalyzeCreate ==
    /\ at = "createAnalyze"
    /\ \E raised \in May("analysis") : at' = IF raised THEN "createRaise" ELSE "created"
    /\ imported' \in May("import")
    /\ UNCHANGED <<planVars, next, rows, live, pinned, drift, restores, undo, result, marked>>

\* _remove_created_function and _revert_split_hosts put the view back.
FunctionGone(ok) == ok.restore /\ ok.hosts

Uncreate(ok) ==
    /\ live' \in {{}} \union {l \in {live} : ~FunctionGone(ok)}
    /\ undo' = "closed"
    /\ UNCHANGED <<pinned, drift, imported>>

\* The ways in which a rollback may end where its failure is not marked.
UnmarkedSteps ==
    IF "createRollback" \in Faults THEN Steps
    ELSE {ok \in Steps : ok.undo /\ FunctionGone(ok)}

CreateReply(status, committed, rolledBack, success) ==
    /\ Row(status)
    /\ result' = Reply(preview, committed, rolledBack, success, FALSE)
    /\ at' = "finish"
    /\ UNCHANGED <<planVars, next, restores>>

\* Analysis dropped the function: only the hosts are put back.
CreateMissing ==
    /\ at = "created"
    /\ \E ok \in UnmarkedSteps :
          /\ Uncreate([ok EXCEPT !.restore = TRUE])
          /\ CreateReply("failed", FALSE, YesNo(ok.undo /\ ok.hosts), FALSE)
    /\ UNCHANGED marked

\* The guard says that no code starts there.  The undo's outcome is ignored.
CreateJunk ==
    /\ at = "created"
    /\ \E ok \in UnmarkedSteps :
          /\ Uncreate(ok)
          /\ CreateReply("failed", FALSE, YesNo(FunctionGone(ok)), FALSE)
    /\ UNCHANGED marked

KeepCreated ==
    /\ at = "created" /\ ~preview
    /\ CreateReply("verified", TRUE, "absent", TRUE)
    /\ undo' = "closed"
    /\ marked' = TRUE
    /\ UNCHANGED viewVars

PreviewCreated ==
    /\ at = "created" /\ preview
    /\ \E ok \in {s \in Steps : s.undo} :
          /\ Uncreate(ok)
          /\ CreateReply(IF FunctionGone(ok) THEN "verified" ELSE "rollback_failed",
                         FALSE, YesNo(FunctionGone(ok)), FunctionGone(ok))
          /\ marked' = (marked \/ ~FunctionGone(ok))

\* The readback, the undo of a preview or the commit raises.
CreatedRaises ==
    /\ at = "created"
    /\ Faults \intersect {"verify", "commit", "undo"} # {}
    /\ at' = "createRaise"
    /\ UNCHANGED <<planVars, next, rows, viewVars, restores, undo, result, marked>>

CreateRaises ==
    /\ at = "createRaise"
    /\ \E ok \in UnmarkedSteps : Uncreate(ok)
    /\ result' = Raised("raised", FALSE)
    /\ at' = "finish"
    /\ UNCHANGED <<planVars, next, rows, restores, marked>>

CreateNext == \/ CreateRefuse \/ CreateExists \/ BeginCreate \/ CreateOne
              \/ AnalyzeCreate \/ CreateMissing \/ CreateJunk \/ KeepCreated
              \/ PreviewCreated \/ CreatedRaises \/ CreateRaises

BatchNext == \/ Refuse \/ BeginUndo \/ DeleteFunction
             \/ LeaveOut \/ ApplyOp \/ ApplyNoop \/ ApplyFails \/ MidAnalysis \/ EndLoop
             \/ RevertApplied \/ Analyze \/ VerifyAndCommit \/ VerifyAndRevert
             \/ VerifyRaises \/ RevertAndRaise \/ FinishImports \/ Mark
             \/ CreateNext

Spec == BatchInit /\ [][BatchNext]_batchVars

-----------------------------------------------------------------------------
Done == at = "done"

Untouched == live = {} /\ pinned = {} /\ ~drift

TypeOK ==
    /\ request \in {"batch", "create"}
    /\ batch \in UNION {[1..n -> Kinds] : n \in 1..MaxOps}
    /\ preview \in BOOLEAN
    /\ at \in {"preflight", "loop", "midAnalysis", "undoApply", "analyze", "verify",
               "undoRaise", "create", "createAnalyze", "created", "createRaise",
               "finish", "mark", "done"}
    /\ next \in 1..(Len(batch) + 1)
    /\ rows \in [Ops -> RowStatus]
    /\ live \subseteq Ops /\ pinned \subseteq Ops /\ restores \subseteq Ops
    /\ drift \in BOOLEAN /\ imported \in BOOLEAN /\ marked \in BOOLEAN
    /\ undo \in {"none", "open", "closed"}
    /\ result \in Results

\* What a client is told is what happened.  A rollback that is reported clean
\* left none of the batch's changes in the view and hid no kept type; a row that
\* is reported as reverted, as not attempted or as a noop left nothing; what a
\* commit reports as verified is there; and exit code 0 means that a preview
\* changed nothing and that a live request did all it was asked for
\* (_apply_batch's four ends, _finalize_import_outcome, cli.py).
OutcomeIsHonest ==
    Done =>
      /\ result.rolledBack = "yes" => Untouched /\ (imported => result.kept)
      /\ \A i \in live : rows[i] \notin {"reverted", "noop", "not_attempted", "not_previewed"}
      /\ result.committed => \A i \in Ops : rows[i] = "verified" => i \in live
      /\ ExitCode(result, rows) = 0 =>
            IF preview THEN Untouched /\ ~imported
            ELSE \A i \in Ops : i \in live \/ rows[i] = "noop"

\* A request that leaves a change in the view leaves it marked as unsaved, or
\* `bn close` would discard the change without a word (bridge._mutation,
\* _function_create).
ModifiedViewIsMarked == Done /\ ~Untouched => marked

\* A view that nothing changed is not marked, except by a deletion, which is
\* marked before it is tried, and by a rollback that says it may have failed.
CleanViewIsNotMarked ==
    Done /\ Untouched /\ marked => \/ Deletes
                                   \/ result.rolledBack = "no" /\ ~result.committed
                                   \/ result.status = "rollback_failed"

\* The dirty_after that the CLI works out from a reply is the mark that the
\* bridge has set for it (formatters._build_mutation_summary).
DirtyAfterIsTheMark ==
    Done /\ result.kind = "reply" =>
        (Summary(result, rows, Deletes).dirtyAfter <=> marked)
=============================================================================
