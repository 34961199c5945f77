--------------------------- MODULE MutationReport ---------------------------
(***************************************************************************)
(* What a client is told about a mutation: the result that the bridge      *)
(* returns or the error it raises, the rows of its operations, the compact *)
(* status that the CLI derives from both, and the exit code.               *)
(***************************************************************************)

RowStatus == {"pending", "applied", "verified", "noop", "failed", "reverted",
              "rollback_failed", "not_previewed", "not_attempted"}

\* FAILED_MUTATION_STATUSES; "failed" stands for the four of them that say
\* why an operation failed.
FailedStatuses == {"failed", "rollback_failed"}

SuccessClass == {"verified", "noop"}

NoResult == [kind |-> "none", preview |-> FALSE, committed |-> FALSE,
             rolledBack |-> "absent", success |-> FALSE, residue |-> FALSE,
             kept |-> FALSE, status |-> "none"]

Results == [kind : {"none", "reply", "error"}, preview : BOOLEAN,
            committed : BOOLEAN, rolledBack : {"absent", "yes", "no"},
            success : BOOLEAN, residue : BOOLEAN, kept : BOOLEAN,
            status : {"none", "refused", "raised", "rollback_failed"}]

Reply(preview, committed, rolledBack, success, residue) ==
    [NoResult EXCEPT !.kind = "reply", !.preview = preview,
                     !.committed = committed, !.rolledBack = rolledBack,
                     !.success = success, !.residue = residue]

Raised(status, residue) ==
    [NoResult EXCEPT !.kind = "error", !.status = status, !.residue = residue]

YesNo(b) == IF b THEN "yes" ELSE "no"

AnyRow(rows, statuses) == \E i \in DOMAIN rows : rows[i] \in statuses

SummaryOfAnyRollback(r, rows, irreversible) ==
    LET changed == \/ AnyRow(rows, {"verified"})
                   \/ irreversible /\ AnyRow(rows, FailedStatuses)
        revertFailed == r.rolledBack = "no"
    IN  [ok         |-> r.success /\ ~AnyRow(rows, FailedStatuses),
         changed    |-> IF revertFailed THEN "unknown" ELSE YesNo(changed),
         dirtyAfter |-> \/ r.committed /\ changed
                        \/ revertFailed
                        \/ r.residue]

\* The compact status.  changed counts the verified rows, and the failed rows
\* of an irreversible operation.
Summary(r, rows, irreversible) ==
    LET changed == \/ AnyRow(rows, {"verified"})
                   \/ irreversible /\ AnyRow(rows, FailedStatuses)
        revertFailed == r.rolledBack = "no" /\ ~r.committed
    IN  [ok         |-> r.success /\ ~AnyRow(rows, FailedStatuses),
         changed    |-> IF revertFailed THEN "unknown" ELSE YesNo(changed),
         dirtyAfter |-> \/ r.committed /\ changed
                        \/ revertFailed
                        \/ r.residue]

ExitCode(r, rows) ==
    CASE r.kind = "reply" ->
            IF AnyRow(rows, FailedStatuses) \/ ~r.success THEN 3 ELSE 0
      [] r.kind = "error" ->
            IF r.status \in {"rollback_failed", "refused"} THEN 3 ELSE 2
      [] OTHER -> 0
=============================================================================
