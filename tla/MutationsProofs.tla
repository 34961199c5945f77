--------------------------- MODULE MutationsProofs ---------------------------
(***************************************************************************)
(* Proofs about Mutations, for batches of any length and renames of any    *)
(* number of functions.  A batch and a create are followed from the step   *)
(* that ends the attempt (Attempt) through the import outcome (FinishIs)   *)
(* to the mark (MarkIs): what the reply says of the view is fixed by the   *)
(* first (Told), and the three properties of the mark are invariants over  *)
(* the three (Disclosed, Justified, Agreed).  A Go rename is one invariant *)
(* (GoInv) on the names, the functions of the user apart.                  *)
(***************************************************************************)
EXTENDS Mutations, Sequences, WellFoundedInduction, TLAPS

-----------------------------------------------------------------------------
(* A batch and a standalone create, by the place where they stand.           *)

Attempting == {"loop", "midAnalysis", "undoApply", "analyze", "verify", "undoRaise"}
Creating == {"create", "createAnalyze", "created", "createRaise"}
Ended == {"finish", "mark", "done"}

\* What no step has touched yet.
Pristine ==
    /\ Batch!Untouched /\ ~imported /\ ~marked
    /\ next = 1 /\ rows = [i \in DOMAIN batch |-> "pending"]
    /\ result = Batch!NoResult

\* Before the end of a batch its rows tell what is in the view, and all of it can be
\* taken back but a pinned type.
Applying ==
    /\ ~Batch!Deletes /\ ~marked /\ undo = "open" /\ result = Batch!NoResult
    /\ \A i \in DOMAIN batch :
          /\ i < next => rows[i] \in {"applied", "noop", "not_previewed"}
          /\ i >= next => rows[i] \in {"pending", "failed"}
          /\ rows[i] = "failed" => i = next /\ at = "undoApply"
          /\ rows[i] = "not_previewed" => preview
          /\ rows[i] = "applied" => i \in live
    /\ \A i \in live : rows[i] \in {"applied", "failed"} /\ Batch!Taken(i)
    /\ \A i \in pinned : rows[i] = "applied" /\ ~preview
    /\ drift => Batch!SnapshotsLocals /\ \E i \in live : rows[i] = "applied"
    /\ at \in {"analyze", "verify", "undoRaise"} => next = Len(batch) + 1

MakingOne ==
    /\ ~marked /\ pinned = {} /\ ~drift /\ next = 1
    /\ rows = [i \in DOMAIN batch |-> "pending"] /\ result = Batch!NoResult
    /\ at = "create" => live = {}
    /\ at \in {"createAnalyze", "created"} => live = DOMAIN batch

\* What the reply of an ended request says of the view, the mark aside.
Told ==
    /\ result.kind \in {"reply", "error"}
    /\ result.rolledBack = "yes" => Batch!Untouched /\ ~result.committed
    /\ result.kind = "error" => result.rolledBack = "absent" /\ ~result.committed
    /\ \A i \in live : rows[i] \notin {"reverted", "noop", "not_attempted", "not_previewed"}
    /\ result.committed =>
          /\ ~preview /\ ~result.preview
          /\ \A i \in DOMAIN batch : rows[i] = "verified" => i \in live
    /\ result.residue => pinned # {}
    /\ result.success /\ (\A i \in DOMAIN batch : rows[i] \notin Batch!FailedStatuses) =>
          IF preview THEN Batch!Untouched ELSE \A i \in DOMAIN batch : i \in live \/ rows[i] = "noop"
    /\ at # "finish" /\ result.kind = "reply" /\ imported =>
          /\ preview => ~result.success
          /\ result.rolledBack = "yes" => result.kept

BatchInv ==
    /\ Batch!TypeOK
    /\ request = "create" => batch = <<"create">> /\ at \in {"preflight", "finish", "done"} \cup Creating
    /\ request = "batch" => at \notin Creating
    /\ at = "preflight" => Pristine
    /\ at \in Attempting => Applying
    /\ at \in Creating => MakingOne
    /\ at \in Ended => Told

\* What Mark goes by.
LeftSomething == \/ Batch!CommittedChange \/ Batch!RollbackLeftState
                 \/ Batch!ResidueLeftState \/ Batch!ErrorLeftState

Disclosed ==
    /\ at \in {"finish", "mark"} /\ ~Batch!Untouched =>
          marked \/ (request = "batch" /\ LeftSomething)
    /\ Batch!ModifiedViewIsMarked

\* What a mark is set for, if it is not for a change.
Excused == \/ Batch!Deletes
           \/ result.rolledBack = "no" /\ ~result.committed
           \/ result.status = "rollback_failed"

Justified == at \in Ended /\ marked => Excused \/ ~Batch!Untouched

\* A create marks the view before its reply is complete, a batch after it, and only a
\* deletion has been marked by then.
DirtyAfter == Batch!Summary(result, rows, Batch!Deletes).dirtyAfter

Deleted == Batch!Deletes /\ result.kind = "reply" /\ result.committed

Agreed ==
    /\ request = "create" /\ at \in Ended /\ result.kind = "reply" => (DirtyAfter <=> marked)
    /\ request = "batch" /\ at = "finish" => ~marked /\ ~Deleted
    /\ request = "batch" /\ at = "mark" =>
          /\ marked <=> Deleted
          /\ marked => Batch!AnyRow(rows, {"verified", "failed"})
    /\ Batch!DirtyAfterIsTheMark

-----------------------------------------------------------------------------
(* A Go rename.                                                              *)
InGo == {"goSelect", "goChunk", "goApply"} \cup Go!RollbackPhases

\* The candidates had an automatic name when they were chosen, and what the bridge and
\* the user left alone has the name that it had.
Names ==
    /\ original \in [Go!Functions -> {"sub", "user", "go"}]
    /\ at \in {"goChunk", "goApply"} => todo \cap Go!Applied = {}
    /\ \A f \in todo \cup Go!Applied : original[f] = "sub"
    /\ verified \subseteq Go!Applied /\ pending \subseteq Go!Applied
    /\ \A f \in Go!Functions \ edited : before[f] \in {"none", original[f]}
    /\ \A f \in Go!Functions \ Go!Applied :
          \/ name[f] = original[f]
          \/ f \in edited /\ name[f] \in {"user", "gone", "nullsub"}

Renaming ==
    /\ at = "goSelect" => name = original /\ edited = {} /\ todo = {}
    /\ at \in {"goSelect", "goChunk", "goApply"} =>
          /\ Go!Applied = verified /\ clean
          /\ \A f \in verified \ edited : name[f] = "go"
    /\ at = "goApply" => todo # {} /\ inChunk < ChunkSize
    /\ at \in InGo => ~marked /\ result = Go!NoResult

RollingBack ==
    /\ at \in Go!RollbackPhases =>
        /\ clean => \A f \in Go!Applied \ pending :
              name[f] \notin {"go", "odd"} /\ (f \notin edited => name[f] = original[f])
        /\ ~clean => Go!Applied # {}
    /\ at = "goCancel" => cancelled

GoInv == /\ Go!GoTypeOK /\ at \in InGo \cup {"done"} /\ Names /\ Renaming /\ RollingBack
         /\ Go!MarkHasReason /\ (at = "done" /\ result.kind = "reply" => (Go!GoDirtyAfter <=> marked))

-----------------------------------------------------------------------------
(* The reports.                                                              *)

IsReply(q, p, c, r, s, d) ==
    /\ q \in Batch!Results /\ q.kind = "reply" /\ q.preview = p /\ q.committed = c
    /\ q.rolledBack = r /\ q.success = s /\ q.residue = d /\ ~q.kept /\ q.status = "none"

IsError(q, s, d) ==
    /\ q \in Batch!Results /\ q.kind = "error" /\ q.rolledBack = "absent"
    /\ ~q.preview /\ ~q.committed /\ ~q.success /\ q.residue = d /\ ~q.kept /\ q.status = s

LEMMA ReplyIs ==
    ASSUME NEW p \in BOOLEAN, NEW c \in BOOLEAN, NEW r \in {"absent", "yes", "no"},
           NEW s \in BOOLEAN, NEW d \in BOOLEAN
    PROVE  IsReply(Batch!Reply(p, c, r, s, d), p, c, r, s, d)
BY DEF IsReply, Batch!Reply, Batch!NoResult, Batch!Results

LEMMA RaisedIs ==
    ASSUME NEW s \in {"refused", "raised", "rollback_failed"}, NEW d \in BOOLEAN
    PROVE  IsError(Batch!Raised(s, d), s, d)
BY DEF IsError, Batch!Raised, Batch!NoResult, Batch!Results

LEMMA BatchIs ==
    ASSUME Batch!TypeOK
    PROVE  /\ Len(batch) \in Nat /\ Len(batch) > 0 /\ Batch!Ops = 1..Len(batch) /\ DOMAIN batch = 1..Len(batch)
           /\ batch \in [1..Len(batch) -> Kinds]
<1>1. PICK n \in 1..MaxOps : batch \in [1..n -> Kinds]
  BY DEF Batch!TypeOK
<1>2. n \in Nat /\ n > 0
  BY MutationsAssumption DEF Batch!BatchConstants
<1>3. batch \in Seq(Kinds) /\ Len(batch) = n
  BY <1>1, <1>2
<1> QED
  BY <1>1, <1>2, <1>3 DEF Batch!Ops

LEMMA MayIs == \A f : \A b \in Batch!May(f) : b \in BOOLEAN /\ (b => f \in Faults)
BY DEF Batch!May

\* When all the steps of a revert succeed, nothing is left but what it cannot reach.
LEMMA RevertClears ==
    ASSUME Batch!TypeOK, NEW ok \in Batch!Steps, Batch!Revert(ok),
           \A i \in live : Batch!Taken(i), drift => Batch!SnapshotsLocals
    PROVE  /\ live' \subseteq live /\ drift' \in BOOLEAN /\ (drift' => drift)
           /\ undo' = "closed" /\ pinned' = pinned /\ imported' = imported
           /\ Batch!ValuesReverted(ok) \in BOOLEAN
           /\ Batch!ValuesReverted(ok) => live' = {} /\ ~drift'
BY DEF Batch!TypeOK, Batch!Steps, Batch!Revert, Batch!Remains, Batch!ValuesReverted, Batch!May

LEMMA LoopStep ==
    ASSUME BatchInv, Batch!LeaveOut \/ Batch!ApplyOp \/ Batch!ApplyNoop \/ Batch!ApplyFails
    PROVE  BatchInv'
<1> USE DEF Batch!planVars, Batch!viewVars, Batch!Row, Batch!Ops
<1>0. Batch!TypeOK
  BY DEF BatchInv
<1>a. /\ Len(batch) \in Nat /\ Len(batch) > 0 /\ DOMAIN batch = 1..Len(batch)
  BY BatchIs, <1>0
<1>b. at = "loop" /\ next \in DOMAIN batch /\ UNCHANGED <<request, batch, preview, undo, result, marked>>
  BY DEF Batch!LeaveOut, Batch!ApplyOp, Batch!ApplyNoop, Batch!ApplyFails
<1>c. Applying /\ request = "batch"
  BY <1>0, <1>b DEF BatchInv, Attempting, Creating, Batch!TypeOK
<1>1. /\ at = "loop" /\ next \in 1..Len(batch) /\ Applying /\ request = "batch"
      /\ UNCHANGED <<request, batch, preview, undo, result, marked>> /\ Batch!TypeOK
      /\ DOMAIN rows = 1..Len(batch)
  BY <1>0, <1>a, <1>b, <1>c DEF Batch!TypeOK
<1>2. CASE Batch!LeaveOut
  <2>1. Batch!TypeOK'
    BY <1>1, <1>2, <1>a DEF Batch!TypeOK, Batch!LeaveOut, Batch!RowStatus
  <2>2. Applying'
    BY <1>1, <1>2, <1>a DEF Batch!TypeOK, Applying, Batch!LeaveOut, Batch!Deletes, Batch!Taken, Batch!Journaled, Batch!SnapshotsLocals
  <2> QED
    BY <1>1, <1>2, <2>1, <2>2 DEF BatchInv, Batch!LeaveOut, Attempting, Creating, Ended
<1>3. CASE Batch!ApplyOp
  <2>1. Batch!TypeOK'
    <3>1. rows' \in [Batch!Ops -> Batch!RowStatus] /\ next' \in 1..(Len(batch) + 1)
      BY <1>1, <1>3, <1>a DEF Batch!TypeOK, Batch!ApplyOp, Batch!RowStatus
    <3>2. live' \subseteq Batch!Ops /\ pinned' \subseteq Batch!Ops /\ restores' \subseteq Batch!Ops
      BY <1>1, <1>3, <1>a DEF Batch!TypeOK, Batch!ApplyOp
    <3>3. at' \in {"loop", "midAnalysis"}
      BY <1>1, <1>3 DEF Batch!ApplyOp, Batch!AfterOp
    <3>4. drift' \in BOOLEAN
      <4>1. drift' = drift \/ drift' = (batch[next] \in {"local", "proto", "autoProto"})
        BY <1>3, Zenon DEF Batch!ApplyOp
      <4>2. drift \in BOOLEAN
        BY <1>1 DEF Batch!TypeOK
      <4>3. (batch[next] \in {"local", "proto", "autoProto"}) \in BOOLEAN
        OBVIOUS
      <4> QED
        BY ONLY <4>1, <4>2, <4>3
    <3>5. imported' \in BOOLEAN
      <4>1. imported' = imported \/ imported' = (batch[next] = "declare" /\ ~preview)
        BY <1>3, Zenon DEF Batch!ApplyOp
      <4> QED
        BY <4>1, <1>1 DEF Batch!TypeOK
    <3> QED
      BY <1>1, <3>1, <3>2, <3>3, <3>4, <3>5 DEF Batch!TypeOK
  <2>2. Applying'
    BY <1>1, <1>3, <1>a DEF Batch!TypeOK, Applying, Batch!ApplyOp, Batch!Deletes, Batch!Taken, Batch!Journaled, Batch!SnapshotsLocals, Batch!AfterOp
  <2> QED
    BY <1>1, <1>3, <2>1, <2>2 DEF BatchInv, Batch!ApplyOp, Attempting, Creating, Ended, Batch!AfterOp
<1>4. CASE Batch!ApplyNoop
  <2>1. Batch!TypeOK'
    BY <1>1, <1>4, <1>a DEF Batch!TypeOK, Batch!ApplyNoop, Batch!RowStatus, Batch!AfterOp
  <2>2. Applying'
    BY <1>1, <1>4, <1>a DEF Batch!TypeOK, Applying, Batch!ApplyNoop, Batch!Deletes, Batch!Taken, Batch!Journaled, Batch!SnapshotsLocals, Batch!AfterOp
  <2> QED
    BY <1>1, <1>4, <2>1, <2>2 DEF BatchInv, Batch!ApplyNoop, Attempting, Creating, Ended, Batch!AfterOp
<1>5. CASE Batch!ApplyFails
  <2>1. Batch!TypeOK'
    BY <1>1, <1>5, <1>a DEF Batch!TypeOK, Batch!ApplyFails, Batch!RowStatus
  <2>2. Applying'
    BY <1>1, <1>5, <1>a DEF Batch!TypeOK, Applying, Batch!ApplyFails, Batch!Deletes, Batch!Taken, Batch!Journaled, Batch!SnapshotsLocals
  <2> QED
    BY <1>1, <1>5, <2>1, <2>2 DEF BatchInv, Batch!ApplyFails, Attempting, Creating, Ended
<1> QED
  BY <1>2, <1>3, <1>4, <1>5

\* The steps of a batch that change its place alone, or raise.
LEMMA MoveStep ==
    ASSUME BatchInv, Batch!MidAnalysis \/ Batch!EndLoop \/ Batch!Analyze \/ Batch!VerifyRaises
    PROVE  BatchInv'
<1> USE DEF Batch!planVars, Batch!viewVars, Batch!Ops
<1>1. Batch!TypeOK /\ Len(batch) \in Nat /\ DOMAIN batch = 1..Len(batch)
  BY BatchIs DEF BatchInv
<1>2. /\ at \in {"midAnalysis", "loop", "analyze", "verify"}
      /\ at' \in Attempting \cup {"finish"}
      /\ UNCHANGED <<request, batch, preview, next, rows, live, pinned, drift, restores, undo, marked>>
      /\ imported' \in BOOLEAN
      /\ at' = "finish" => result' = Batch!Raised("raised", FALSE)
      /\ at' # "finish" => result' = result
      /\ at' \in {"analyze", "verify", "undoRaise"} => next \notin DOMAIN batch \/ at \in {"analyze", "verify"}
      /\ at' # "undoApply"
  BY <1>1, MayIs DEF Batch!MidAnalysis, Batch!EndLoop, Batch!Analyze, Batch!VerifyRaises, Attempting, Batch!TypeOK
<1>3. Applying /\ request = "batch"
  BY <1>1, <1>2 DEF BatchInv, Attempting, Creating, Batch!TypeOK
<1>4. result' \in Batch!Results
  BY <1>1, <1>2, RaisedIs DEF IsError, Batch!TypeOK
<1>5. Batch!TypeOK'
  BY <1>1, <1>2, <1>4 DEF Batch!TypeOK, Attempting
<1>6. CASE at' = "finish"
  <2>1. /\ result'.kind = "error" /\ result'.rolledBack = "absent" /\ ~result'.committed
        /\ ~result'.residue /\ ~result'.success
    BY <1>6, <1>2, RaisedIs DEF IsError
  <2>2. Told'
    BY <1>2, <1>3, <1>6, <2>1 DEF Told, Applying
  <2> QED
    BY <1>2, <1>3, <1>5, <1>6, <2>2 DEF BatchInv, Attempting, Creating, Ended
<1>7. CASE at' # "finish"
  <2>1. Applying'
    BY <1>1, <1>2, <1>3, <1>7 DEF Applying, Batch!Deletes, Batch!Taken, Batch!Journaled, Batch!SnapshotsLocals, Batch!TypeOK
  <2> QED
    BY <1>2, <1>3, <1>5, <1>7, <2>1 DEF BatchInv, Attempting, Creating, Ended
<1> QED
  BY <1>6, <1>7

\* Before any of it was tried.
LEMMA PreflightStep ==
    ASSUME BatchInv, Batch!Refuse \/ Batch!BeginUndo \/ Batch!DeleteFunction
    PROVE  BatchInv'
<1> USE DEF Batch!planVars, Batch!viewVars, Batch!Ops
<1>1. Batch!TypeOK /\ Len(batch) \in Nat /\ Len(batch) > 0 /\ DOMAIN batch = 1..Len(batch)
  BY BatchIs DEF BatchInv
<1>2. at = "preflight" /\ Pristine
  BY DEF BatchInv, Batch!Refuse, Batch!BeginUndo, Batch!DeleteFunction
<1>3. CASE Batch!Refuse
  <2>1. PICK blamed \in {{}} \cup {{i} : i \in DOMAIN batch} :
           \/ /\ rows' = [i \in DOMAIN batch |-> IF i \in blamed THEN "failed" ELSE "not_attempted"]
              /\ result' = Batch!Reply(preview, FALSE, "yes", FALSE, FALSE)
           \/ rows' = rows /\ result' = Batch!Raised("refused", FALSE)
    BY <1>3 DEF Batch!Refuse
  <2>2. /\ result' \in Batch!Results /\ result'.kind \in {"reply", "error"} /\ ~result'.committed
        /\ ~result'.residue /\ ~result'.success
        /\ result'.kind = "error" => result'.rolledBack = "absent"
    <3>1. preview \in BOOLEAN
      BY <1>1 DEF Batch!TypeOK
    <3>2. CASE result' = Batch!Reply(preview, FALSE, "yes", FALSE, FALSE)
      <4>1. IsReply(result', preview, FALSE, "yes", FALSE, FALSE)
        BY <3>1, <3>2, ReplyIs
      <4> QED
        BY <4>1 DEF IsReply
    <3>3. CASE result' = Batch!Raised("refused", FALSE)
      BY <3>3, RaisedIs DEF IsError
    <3> QED
      BY <2>1, <3>2, <3>3
  <2>3. rows' \in [DOMAIN batch -> Batch!RowStatus]
    BY <2>1, <1>1 DEF Batch!TypeOK, Batch!RowStatus
  <2>4. at' = "finish" /\ request = "batch" /\ imported' \in BOOLEAN
        /\ UNCHANGED <<request, batch, preview, next, live, pinned, drift, restores, undo, marked>>
    BY <1>3, MayIs DEF Batch!Refuse
  <2>5. Batch!TypeOK'
    BY <1>1, <2>2, <2>3, <2>4 DEF Batch!TypeOK
  <2>6. Told'
    BY <1>2, <2>2, <2>4 DEF Told, Pristine, Batch!Untouched
  <2> QED
    BY <2>4, <2>5, <2>6 DEF BatchInv, Attempting, Creating
<1>4. CASE Batch!BeginUndo
  <2>1. Batch!TypeOK'
    BY <1>1, <1>4 DEF Batch!TypeOK, Batch!BeginUndo
  <2>2. Applying'
    BY <1>1, <1>2, <1>4 DEF Applying, Pristine, Batch!Untouched, Batch!BeginUndo, Batch!Deletes
  <2> QED
    BY <1>4, <2>1, <2>2 DEF BatchInv, Attempting, Creating, Ended, Batch!BeginUndo
<1>5. CASE Batch!DeleteFunction
  <2>1. PICK ok \in BOOLEAN :
          /\ rows' = [i \in DOMAIN batch |-> IF ok /\ live' = DOMAIN batch THEN "verified" ELSE "failed"]
          /\ result' = Batch!Reply(FALSE, TRUE, "no", ok /\ live' = DOMAIN batch, FALSE)
    BY <1>5, MayIs DEF Batch!DeleteFunction
  <2>2. /\ at' = "mark" /\ marked' = TRUE /\ live' \subseteq DOMAIN batch /\ ~preview
        /\ UNCHANGED <<request, batch, preview, next, pinned, drift, imported, restores, undo>>
    BY <1>5 DEF Batch!DeleteFunction, Batch!MustRefuse
  <2>3. /\ result' \in Batch!Results /\ result'.kind = "reply" /\ result'.committed /\ ~result'.preview
        /\ ~result'.residue /\ result'.rolledBack = "no" 
        /\ result'.success = (ok /\ live' = DOMAIN batch)
    <3>1. (ok /\ live' = DOMAIN batch) \in BOOLEAN
      OBVIOUS
    <3>2. IsReply(result', FALSE, TRUE, "no", ok /\ live' = DOMAIN batch, FALSE)
      BY <2>1, <3>1, ReplyIs
    <3> QED
      BY <3>2 DEF IsReply
  <2>4. Batch!TypeOK'
    BY <1>1, <2>1, <2>2, <2>3 DEF Batch!TypeOK, Batch!RowStatus
  <2>5. Told'
    BY <1>1, <1>2, <2>1, <2>2, <2>3 DEF Told, Pristine, Batch!FailedStatuses
  <2>6. request = "batch"
    BY <1>5, <1>1 DEF BatchInv, Batch!DeleteFunction, Batch!Deletes, Batch!TypeOK
  <2> QED
    BY <2>2, <2>4, <2>5, <2>6 DEF BatchInv, Attempting, Creating
<1> QED
  BY <1>3, <1>4, <1>5

\* Where a batch goes on to its end.
LEMMA AttemptIs ==
    ASSUME BatchInv, at \in Attempting
    PROVE  /\ Applying /\ request = "batch" /\ Batch!TypeOK /\ preview \in BOOLEAN
           /\ Len(batch) \in Nat /\ Len(batch) > 0 /\ DOMAIN batch = 1..Len(batch)
           /\ rows \in [DOMAIN batch -> Batch!RowStatus]
BY BatchIs DEF BatchInv, Attempting, Creating, Batch!TypeOK, Batch!Ops

\* Whatever reverts or raises leaves what the rows and the reply say.
LEMMA EndStep ==
    ASSUME BatchInv, at \in Attempting,
           Batch!TypeOK', at' = "finish", UNCHANGED <<request, batch, preview>>, Told'
    PROVE  BatchInv'
BY AttemptIs DEF BatchInv, Attempting, Creating, Ended

LEMMA RevertAppliedStep ==
    ASSUME BatchInv, Batch!RevertApplied
    PROVE  BatchInv'
<1> USE DEF Batch!planVars, Batch!viewVars, Batch!Ops
<1>1. at \in Attempting
  BY DEF Attempting, Batch!RevertApplied
<1>2. PICK ok \in Batch!Steps :
         /\ Batch!Revert(ok)
         /\ rows' = [i \in DOMAIN batch |-> CASE rows[i] = "applied" -> Batch!UnverifiedStatus(ok)
                                              [] rows[i] = "pending" -> "not_attempted"
                                              [] OTHER -> rows[i]]
         /\ result' = Batch!Reply(preview, FALSE, Batch!YesNo(Batch!ValuesReverted(ok) /\ ~Batch!Residue),
                                  FALSE, Batch!Residue)
  BY DEF Batch!RevertApplied
<1>3. /\ live' \subseteq live /\ drift' \in BOOLEAN /\ pinned' = pinned /\ imported' = imported
      /\ undo' = "closed"
      /\ Batch!ValuesReverted(ok) => live' = {} /\ ~drift'
  BY <1>1, <1>2, AttemptIs, RevertClears DEF Applying
<1>4. at' = "finish" /\ UNCHANGED <<request, batch, preview, next, restores, marked>>
  BY DEF Batch!RevertApplied
<1> DEFINE restored == Batch!ValuesReverted(ok) /\ ~Batch!Residue
<1>5. restored \in BOOLEAN /\ Batch!YesNo(restored) \in {"yes", "no"} /\ Batch!Residue \in BOOLEAN
      /\ (Batch!YesNo(restored) = "yes" <=> restored)
  BY DEF Batch!YesNo, Batch!Residue
<1>6. IsReply(result', preview, FALSE, Batch!YesNo(restored), FALSE, Batch!Residue)
  BY <1>1, <1>2, <1>5, AttemptIs, ReplyIs
<1>7. /\ rows' \in [DOMAIN batch -> Batch!RowStatus]
      /\ \A i \in DOMAIN batch : rows'[i] = "reverted" => restored
      /\ \A i \in DOMAIN batch : rows[i] \in {"applied", "failed"} => rows'[i] \in {"reverted", "rollback_failed", "failed"}
  <2>1. /\ Batch!UnverifiedStatus(ok) \in {"reverted", "rollback_failed"}
        /\ Batch!UnverifiedStatus(ok) = "reverted" => restored
    BY DEF Batch!UnverifiedStatus
  <2>2. \A i \in DOMAIN batch : rows[i] \in Batch!RowStatus /\ rows[i] # "reverted"
    BY <1>1, AttemptIs DEF Applying, Batch!TypeOK
  <2>3. \A i \in DOMAIN batch :
           /\ rows[i] = "applied" => rows'[i] = Batch!UnverifiedStatus(ok)
           /\ rows[i] = "pending" => rows'[i] = "not_attempted"
           /\ rows[i] \notin {"applied", "pending"} => rows'[i] = rows[i]
    BY <1>2
  <2>4. \A i \in DOMAIN batch : rows'[i] \in Batch!RowStatus
    BY <2>1, <2>2, <2>3 DEF Batch!RowStatus
  <2>5. rows' = [i \in DOMAIN batch |-> rows'[i]]
    BY <1>2
  <2> QED
    BY <2>1, <2>2, <2>3, <2>4, <2>5
<1>8. Batch!TypeOK'
  BY <1>1, <1>3, <1>4, <1>6, <1>7, AttemptIs DEF Batch!TypeOK, IsReply
<1>9. Told'
  <2>1. restored => Batch!Untouched'
    BY <1>3 DEF Batch!Untouched, Batch!Residue
  <2>2. \A i \in live' : rows'[i] \notin {"reverted", "noop", "not_attempted", "not_previewed"}
    BY <1>1, <1>3, <1>7, AttemptIs DEF Applying, Batch!TypeOK
  <2> QED
    BY <1>3, <1>4, <1>5, <1>6, <2>1, <2>2 DEF Told, IsReply, Batch!Residue
<1> QED
  BY <1>1, <1>4, <1>8, <1>9, EndStep

LEMMA CommitStep ==
    ASSUME BatchInv, Batch!VerifyAndCommit
    PROVE  BatchInv'
<1> USE DEF Batch!planVars, Batch!viewVars, Batch!Ops
<1>1. at \in Attempting /\ at = "verify"
  BY DEF Attempting, Batch!VerifyAndCommit
<1>2. /\ at' = "finish" /\ UNCHANGED <<request, batch, preview, next, restores, marked, live, pinned, drift, imported>>
      /\ undo' = "closed" /\ ~preview
      /\ rows' = [i \in DOMAIN batch |-> IF rows[i] = "applied" THEN "verified" ELSE rows[i]]
  BY DEF Batch!VerifyAndCommit, Batch!Verified
<1>3. IsReply(result', FALSE, TRUE, "no", TRUE, FALSE)
  BY ReplyIs DEF Batch!VerifyAndCommit
<1>4. Batch!TypeOK'
  BY <1>1, <1>2, <1>3, AttemptIs DEF Batch!TypeOK, Batch!RowStatus, IsReply
<1>5. Told'
  BY <1>1, <1>2, <1>3, AttemptIs DEF Applying, Told, Batch!TypeOK, IsReply, Batch!FailedStatuses
<1> QED
  BY <1>1, <1>2, <1>4, <1>5, EndStep

LEMMA RevertStep ==
    ASSUME BatchInv, Batch!VerifyAndRevert
    PROVE  BatchInv'
<1> USE DEF Batch!planVars, Batch!viewVars, Batch!Ops
<1>1. at \in Attempting /\ at = "verify"
  BY DEF Attempting, Batch!VerifyAndRevert
<1>2. PICK bad \in {{}} \cup SUBSET Batch!Verifiable, ok \in Batch!Steps :
         /\ preview \/ bad # {}
         /\ Batch!Revert(ok)
         /\ rows' = IF bad = {} THEN Batch!Verified(bad) ELSE Batch!Restamped(Batch!Verified(bad), ok)
         /\ result' = Batch!Reply(preview, FALSE, Batch!YesNo(Batch!ValuesReverted(ok) /\ ~Batch!Residue),
                                  bad = {} /\ Batch!ValuesReverted(ok) /\ ~Batch!Residue, Batch!Residue)
  BY DEF Batch!VerifyAndRevert
<1>3. /\ live' \subseteq live /\ drift' \in BOOLEAN /\ pinned' = pinned /\ imported' = imported
      /\ undo' = "closed"
      /\ Batch!ValuesReverted(ok) => live' = {} /\ ~drift'
  BY <1>1, <1>2, AttemptIs, RevertClears DEF Applying
<1>4. at' = "finish" /\ UNCHANGED <<request, batch, preview, next, restores, marked>>
  BY DEF Batch!VerifyAndRevert
<1> DEFINE restored == Batch!ValuesReverted(ok) /\ ~Batch!Residue
<1>5. restored \in BOOLEAN /\ Batch!YesNo(restored) \in {"yes", "no"} /\ Batch!Residue \in BOOLEAN
      /\ (Batch!YesNo(restored) = "yes" <=> restored) /\ (bad = {} /\ restored) \in BOOLEAN
  BY DEF Batch!YesNo, Batch!Residue
<1>6. IsReply(result', preview, FALSE, Batch!YesNo(restored), bad = {} /\ restored, Batch!Residue)
  BY <1>1, <1>2, <1>5, AttemptIs, ReplyIs
<1> DEFINE verdicts == Batch!Verified(bad)
<1>7. /\ verdicts \in [DOMAIN batch -> {"verified", "failed", "noop", "not_previewed"}]
      /\ \A i \in DOMAIN batch : verdicts[i] \in {"verified", "failed"} <=> rows[i] = "applied"
      /\ \A i \in DOMAIN batch : verdicts[i] = "failed" => bad # {}
  BY <1>1, AttemptIs DEF Batch!Verified, Applying, Batch!TypeOK
<1>8. /\ rows' \in [DOMAIN batch -> Batch!RowStatus]
      /\ \A i \in DOMAIN batch : rows'[i] = "reverted" => Batch!ValuesReverted(ok)
      /\ \A i \in DOMAIN batch : rows[i] = "applied" => rows'[i] \notin {"noop", "not_previewed", "not_attempted"}
  BY <1>2, <1>7 DEF Batch!RowStatus, Batch!Restamped, Batch!SuccessClass
<1>9. Batch!TypeOK'
  BY <1>1, <1>3, <1>4, <1>6, <1>8, AttemptIs DEF Batch!TypeOK, IsReply
<1>10. Told'
  <2>1. restored => Batch!Untouched'
    BY <1>3 DEF Batch!Untouched, Batch!Residue
  <2>2. \A i \in live : i \in DOMAIN batch /\ rows[i] = "applied"
    BY <1>1, AttemptIs DEF Applying, Batch!TypeOK
  <2>3. \A i \in live' : rows'[i] \notin {"reverted", "noop", "not_attempted", "not_previewed"}
    BY <2>2, <1>3, <1>8
  <2> QED
    BY <1>2, <1>3, <1>4, <1>5, <1>6, <2>1, <2>3 DEF Told, IsReply, Batch!Residue
<1> QED
  BY <1>1, <1>4, <1>9, <1>10, EndStep

LEMMA RaiseStep ==
    ASSUME BatchInv, Batch!RevertAndRaise
    PROVE  BatchInv'
<1> USE DEF Batch!planVars, Batch!viewVars, Batch!Ops
<1>1. at \in Attempting
  BY DEF Attempting, Batch!RevertAndRaise
<1>2. PICK ok \in Batch!Steps :
         /\ Batch!Revert(ok)
         /\ result' = Batch!Raised(IF Batch!ValuesReverted(ok) THEN "raised" ELSE "rollback_failed", Batch!Residue)
  BY DEF Batch!RevertAndRaise
<1>3. /\ live' \subseteq live /\ drift' \in BOOLEAN /\ pinned' = pinned /\ imported' = imported
      /\ undo' = "closed"
  BY <1>1, <1>2, AttemptIs, RevertClears DEF Applying
<1>4. at' = "finish" /\ UNCHANGED <<request, batch, preview, next, rows, restores, marked>>
  BY DEF Batch!RevertAndRaise
<1>5. Batch!Residue \in BOOLEAN
  BY DEF Batch!Residue
<1>6. \E s \in {"raised", "rollback_failed"} : IsError(result', s, Batch!Residue)
  BY <1>2, <1>5, RaisedIs
<1>7. Batch!TypeOK'
  BY <1>1, <1>3, <1>4, <1>6, AttemptIs DEF Batch!TypeOK, IsError
<1>8. Told'
  BY <1>1, <1>3, <1>4, <1>6, AttemptIs DEF Applying, Told, IsError, Batch!Residue
<1> QED
  BY <1>1, <1>4, <1>7, <1>8, EndStep

\* The end: imports are told, and the mark is set.
LEMMA FinishStep ==
    ASSUME BatchInv, Batch!FinishImports \/ Batch!Mark
    PROVE  BatchInv'
<1> USE DEF Batch!planVars, Batch!viewVars, Batch!Ops
<1>1. Batch!TypeOK /\ Told /\ at \in {"finish", "mark"} /\ (at = "mark" => request = "batch")
  BY DEF BatchInv, Batch!FinishImports, Batch!Mark, Ended, Batch!TypeOK, Creating
<1>2. CASE Batch!Mark
  <2>1. /\ at = "mark" /\ at' = "done" /\ marked' \in BOOLEAN
        /\ UNCHANGED <<request, batch, preview, next, rows, live, pinned, drift, imported,
                       restores, undo, result>>
    BY <1>2 DEF Batch!Mark
  <2>2. Batch!TypeOK'
    BY <1>1, <2>1 DEF Batch!TypeOK
  <2>3. Told'
    BY <1>1, <2>1 DEF Told, Batch!Untouched
  <2> QED
    BY <1>1, <2>1, <2>2, <2>3 DEF BatchInv, Attempting, Creating
<1>3. CASE Batch!FinishImports
  <2>1. /\ at = "finish" /\ at' \in {"mark", "done"} /\ (request = "create" => at' = "done")
        /\ UNCHANGED <<request, batch, preview, next, live, pinned, drift, imported,
                       restores, undo, marked>>
    BY <1>3 DEF Batch!FinishImports
  <2>2. CASE result' = Batch!Raised("raised", FALSE) /\ rows' = rows
    <3>1. IsError(result', "raised", FALSE)
      BY <2>2, RaisedIs
    <3> QED
      BY <1>1, <2>1, <2>2, <3>1 DEF BatchInv, Told, Batch!TypeOK, IsError, Attempting, Creating, Batch!Untouched
  <2>3. CASE /\ result.kind = "reply" /\ imported
             /\ result' = [result EXCEPT !.kept = preview \/ ~result.committed,
                                         !.success = @ /\ ~preview]
             /\ rows' \in IF preview
                          THEN {[i \in DOMAIN batch |-> IF rows[i] \in Batch!SuccessClass
                                               THEN IF result.rolledBack = "yes"
                                                    THEN "reverted" ELSE "rollback_failed"
                                               ELSE rows[i]]}
                          ELSE {rows}
    <3>1. /\ result' \in Batch!Results
          /\ result'.kind = result.kind /\ result'.preview = result.preview
          /\ result'.committed = result.committed /\ result'.rolledBack = result.rolledBack
          /\ result'.residue = result.residue /\ result'.status = result.status
          /\ result'.kept = (preview \/ ~result.committed) /\ result'.success = (result.success /\ ~preview)
      BY <1>1, <2>3 DEF Batch!TypeOK, Batch!Results
    <3>2. /\ rows' \in [DOMAIN batch -> Batch!RowStatus]
          /\ \A i \in DOMAIN batch : \/ rows'[i] \in {rows[i], "rollback_failed"}
                                     \/ rows'[i] = "reverted" /\ result.rolledBack = "yes"
          /\ ~preview => rows' = rows
      <4>1. CASE preview
        <5>1. rows' = [i \in DOMAIN batch |-> IF rows[i] \in Batch!SuccessClass
                                               THEN IF result.rolledBack = "yes"
                                                    THEN "reverted" ELSE "rollback_failed"
                                               ELSE rows[i]]
          BY <2>3, <4>1
        <5> QED
          BY <1>1, <4>1, <5>1 DEF Batch!TypeOK, Batch!RowStatus
      <4>2. CASE ~preview
        BY <1>1, <2>3, <4>2 DEF Batch!TypeOK
      <4> QED
        BY <4>1, <4>2
    <3>3. Batch!TypeOK'
      BY <1>1, <2>1, <3>1, <3>2 DEF Batch!TypeOK
    <3>4. Told'
      <4>1. CASE ~preview
        <5>1. /\ result'.success <=> result.success
              /\ result'.kept <=> ~result.committed
              /\ rows' = rows
          BY <3>1, <3>2, <4>1
        <5>2. result.rolledBack = "yes" => result'.kept
          BY <1>1, <5>1 DEF Told
        <5> QED
          BY <1>1, <2>1, <3>1, <4>1, <5>1, <5>2 DEF Told, Batch!Untouched
      <4>2. CASE preview
        <5>1. ~result.committed /\ ~result'.committed /\ ~result'.success /\ result'.kept
          BY <1>1, <3>1, <4>2 DEF Told
        <5>2. \A i \in live' : rows'[i] \notin {"reverted", "noop", "not_attempted", "not_previewed"}
          <6>1. \A i \in live : i \in DOMAIN batch
            BY <1>1 DEF Batch!TypeOK
          <6> QED
            BY <1>1, <2>1, <3>2, <6>1 DEF Told, Batch!Untouched
        <5> QED
          BY <1>1, <2>1, <3>1, <5>1, <5>2 DEF Told, Batch!Untouched
      <4> QED
        BY <4>1, <4>2
    <3> QED
      BY <1>1, <2>1, <3>3, <3>4 DEF BatchInv, Attempting, Creating
  <2>4. CASE ~(result.kind = "reply" /\ imported) /\ result' = [result EXCEPT !.kept = imported] /\ rows' = rows
    <3>1. /\ result' \in Batch!Results
          /\ result'.kind = result.kind /\ result'.preview = result.preview
          /\ result'.committed = result.committed /\ result'.rolledBack = result.rolledBack
          /\ result'.residue = result.residue /\ result'.status = result.status
          /\ result'.success = result.success
      BY <1>1, <2>4 DEF Batch!TypeOK, Batch!Results
    <3>3. Batch!TypeOK'
      BY <1>1, <2>1, <2>4, <3>1 DEF Batch!TypeOK
    <3>4. Told'
      BY <1>1, <2>1, <2>4, <3>1 DEF Told, Batch!TypeOK, Batch!Untouched
    <3> QED
      BY <1>1, <2>1, <3>3, <3>4 DEF BatchInv, Attempting, Creating
  <2> QED
    BY <1>3, <2>2, <2>3, <2>4 DEF Batch!FinishImports
<1> QED
  BY <1>2, <1>3

\* A standalone create is one operation, and nothing but it is ever in the view.
LEMMA CreateIs ==
    ASSUME BatchInv, request = "create", at = "preflight" \/ at \in Creating
    PROVE  /\ Batch!TypeOK /\ DOMAIN batch = {1} /\ Len(batch) = 1 /\ next = 1
           /\ rows \in [{1} -> Batch!RowStatus] /\ rows[1] = "pending"
           /\ live \subseteq {1} /\ pinned = {} /\ ~drift /\ ~marked /\ preview \in BOOLEAN
           /\ result = Batch!NoResult /\ result.kind = "none"
           /\ at = "preflight" => live = {} /\ ~imported
<1>1. Batch!TypeOK /\ DOMAIN batch = 1..Len(batch)
  BY BatchIs DEF BatchInv
<1>2. batch = <<"create">>
  BY DEF BatchInv
<1>3. Len(batch) = 1 /\ DOMAIN batch = {1}
  BY <1>1, <1>2
<1>4. Pristine \/ MakingOne
  BY DEF BatchInv
<1>5. next = 1 /\ rows = [i \in DOMAIN batch |-> "pending"] /\ result = Batch!NoResult
      /\ pinned = {} /\ ~drift /\ ~marked
  BY <1>4 DEF Pristine, MakingOne, Batch!Untouched
<1>6. at = "preflight" => live = {} /\ ~imported
  BY DEF BatchInv, Pristine, Batch!Untouched
<1> QED
  BY <1>1, <1>3, <1>5, <1>6 DEF Batch!TypeOK, Batch!Ops, Batch!RowStatus, Batch!NoResult

\* A reply to it is true if these things hold of it.
LEMMA CreateReplyStep ==
    ASSUME BatchInv, request = "create", at = "preflight" \/ at \in Creating,
           NEW status \in {"noop", "failed", "verified", "rollback_failed"},
           NEW committed \in BOOLEAN, NEW rolledBack \in {"absent", "yes", "no"}, NEW success \in BOOLEAN,
           Batch!CreateReply(status, committed, rolledBack, success),
           live' \subseteq {1}, UNCHANGED <<pinned, drift, imported>>,
           undo' \in {"none", "open", "closed"}, marked' \in BOOLEAN,
           rolledBack = "yes" => live' = {} /\ ~committed,
           committed => ~preview /\ (status = "verified" => live' = {1}),
           live' # {} => status # "noop",
           success => IF preview THEN live' = {} ELSE live' = {1} \/ status = "noop"
    PROVE  BatchInv'
<1>1. /\ rows' = [rows EXCEPT ![next] = status] /\ at' = "finish"
      /\ result' = Batch!Reply(preview, committed, rolledBack, success, FALSE)
      /\ UNCHANGED <<request, batch, preview, next, restores>>
  BY DEF Batch!CreateReply, Batch!Row, Batch!planVars
<1>2. IsReply(result', preview, committed, rolledBack, success, FALSE)
  BY <1>1, ReplyIs, CreateIs
<1>3. rows' \in [{1} -> Batch!RowStatus] /\ rows'[1] = status
  BY <1>1, CreateIs DEF Batch!RowStatus
<1>4. Batch!TypeOK'
  BY <1>1, <1>2, <1>3, CreateIs DEF Batch!TypeOK, Batch!Ops, IsReply
<1>5. Told'
  BY <1>1, <1>2, <1>3, CreateIs DEF Told, IsReply, Batch!Untouched
<1> QED
  BY <1>1, <1>4, <1>5 DEF BatchInv, Attempting, Creating

\* An error tells nothing.
LEMMA CreateErrorStep ==
    ASSUME BatchInv, request = "create", at = "preflight" \/ at \in Creating,
           NEW status \in {"refused", "raised"}, result' = Batch!Raised(status, FALSE), at' = "finish",
           UNCHANGED <<request, batch, preview, next, rows, restores, pinned, drift, imported, marked>>,
           live' \subseteq {1}, undo' \in {"none", "open", "closed"}
    PROVE  BatchInv'
<1>1. IsError(result', status, FALSE)
  BY RaisedIs
<1>2. Batch!TypeOK'
  BY <1>1, CreateIs DEF Batch!TypeOK, Batch!Ops, IsError
<1>3. Told'
  BY <1>1, CreateIs DEF Told, IsError
<1> QED
  BY <1>2, <1>3 DEF BatchInv, Attempting, Creating

\* And its steps before the end change its place and what is in the view.
LEMMA CreateMoveStep ==
    ASSUME BatchInv, Batch!BeginCreate \/ Batch!CreateOne \/ Batch!AnalyzeCreate \/ Batch!CreatedRaises
    PROVE  BatchInv' /\ marked' = marked
<1>1. /\ request = "create" /\ (at = "preflight" \/ at \in Creating)
      /\ at' \in Creating
      /\ UNCHANGED <<request, batch, preview, next, rows, pinned, drift, result, marked>>
      /\ undo' \in {undo, "open"} /\ imported' \in BOOLEAN
      /\ restores' \in {restores, DOMAIN batch}
      /\ live' = live \/ live' \subseteq DOMAIN batch
      /\ at' = "create" => live' = live /\ at = "preflight"
      /\ at' = "createAnalyze" => live' = DOMAIN batch
      /\ at' = "created" => live' = live /\ at = "createAnalyze"
  BY MayIs DEF BatchInv, Creating, Attempting, Batch!BeginCreate, Batch!CreateOne, Batch!AnalyzeCreate,
        Batch!CreatedRaises, Batch!planVars, Batch!viewVars, Batch!Ops, Batch!TypeOK
<1>2. Batch!TypeOK'
  <2>1. undo' \in {"none", "open", "closed"} /\ restores' \subseteq DOMAIN batch /\ live' \subseteq DOMAIN batch
    BY <1>1, CreateIs DEF Batch!TypeOK, Batch!Ops
  <2> QED
    BY <1>1, <2>1, CreateIs DEF Batch!TypeOK, Batch!Ops, Creating
<1>3. MakingOne'
  BY <1>1, CreateIs DEF MakingOne, BatchInv, Creating
<1> QED
  BY <1>1, <1>2, <1>3 DEF BatchInv, Attempting, Creating, Ended

LEMMA StepsAre ==
    ASSUME NEW ok \in Batch!Steps
    PROVE  /\ ok.undo \in BOOLEAN /\ ok.restore \in BOOLEAN /\ ok.hosts \in BOOLEAN /\ ok.drift \in BOOLEAN
           /\ Batch!FunctionGone(ok) \in BOOLEAN
BY MayIs DEF Batch!Steps, Batch!FunctionGone

LEMMA CreateRequest ==
    ASSUME BatchInv, at \in Creating
    PROVE  request = "create"
BY DEF BatchInv, Batch!TypeOK

LEMMA UncreateIs ==
    ASSUME BatchInv, at \in Creating, NEW ok, Batch!Uncreate(ok)
    PROVE  /\ live' \subseteq live /\ live' \subseteq {1} /\ undo' = "closed"
           /\ UNCHANGED <<pinned, drift, imported>>
           /\ Batch!FunctionGone(ok) => live' = {}
BY CreateRequest, CreateIs DEF Batch!Uncreate

LEMMA CreateEndStep ==
    ASSUME BatchInv,
           \/ Batch!CreateRefuse \/ Batch!CreateExists \/ Batch!CreateMissing \/ Batch!CreateJunk
           \/ Batch!KeepCreated \/ Batch!PreviewCreated \/ Batch!CreateRaises
    PROVE  BatchInv'
<1> USE DEF Batch!planVars, Batch!viewVars
<1>1. request = "create" /\ (at = "preflight" \/ at \in Creating) /\ preview \in BOOLEAN
      /\ marked \in BOOLEAN /\ undo \in {"none", "open", "closed"}
  <2>1. request = "create" /\ (at = "preflight" \/ at \in Creating)
    BY CreateRequest DEF Creating, Batch!CreateRefuse, Batch!CreateExists, Batch!CreateMissing,
          Batch!CreateJunk, Batch!KeepCreated, Batch!PreviewCreated, Batch!CreateRaises
  <2> QED
    BY <2>1 DEF BatchInv, Batch!TypeOK
<1>2. CASE Batch!CreateRefuse
  <2>1. live' \subseteq {1} /\ undo' = undo
    BY <1>1, <1>2, CreateIs DEF Batch!CreateRefuse
  <2> QED
    BY <1>1, <1>2, <2>1, CreateErrorStep DEF Batch!CreateRefuse
<1>3. CASE Batch!CreateExists
  <2>1. live' = {} /\ undo' = undo /\ marked' = marked /\ UNCHANGED <<pinned, drift, imported>>
    BY <1>1, <1>3, CreateIs DEF Batch!CreateExists
  <2>2. Batch!CreateReply("noop", FALSE, "absent", TRUE)
    BY <1>3 DEF Batch!CreateExists, Batch!CreateReply
  <2> QED
    BY <1>1, <2>1, <2>2, CreateReplyStep
<1>4. CASE Batch!CreateMissing
  <2>1. at \in Creating /\ marked' = marked
    BY <1>4 DEF Creating, Batch!CreateMissing
  <2>2. PICK ok \in Batch!UnmarkedSteps :
           /\ Batch!Uncreate([ok EXCEPT !.restore = TRUE])
           /\ Batch!CreateReply("failed", FALSE, Batch!YesNo(ok.undo /\ ok.hosts), FALSE)
    BY <1>4 DEF Batch!CreateMissing
  <2>3. ok \in Batch!Steps /\ (ok.undo /\ ok.hosts) \in BOOLEAN
    BY StepsAre DEF Batch!UnmarkedSteps
  <2>4. ok.hosts => Batch!FunctionGone([ok EXCEPT !.restore = TRUE])
    BY <2>3 DEF Batch!FunctionGone, Batch!Steps
  <2>5. /\ live' \subseteq {1} /\ undo' = "closed" /\ UNCHANGED <<pinned, drift, imported>>
        /\ ok.hosts => live' = {}
    BY <2>1, <2>2, <2>4, UncreateIs
  <2>6. /\ Batch!YesNo(ok.undo /\ ok.hosts) \in {"absent", "yes", "no"}
        /\ Batch!YesNo(ok.undo /\ ok.hosts) = "yes" => live' = {}
    BY <2>3, <2>5 DEF Batch!YesNo
  <2> QED
    BY <1>1, <2>1, <2>2, <2>5, <2>6, CreateReplyStep
<1>5. CASE Batch!CreateJunk
  <2>1. at \in Creating /\ marked' = marked
    BY <1>5 DEF Creating, Batch!CreateJunk
  <2>2. PICK ok \in Batch!UnmarkedSteps :
           /\ Batch!Uncreate(ok)
           /\ Batch!CreateReply("failed", FALSE, Batch!YesNo(Batch!FunctionGone(ok)), FALSE)
    BY <1>5 DEF Batch!CreateJunk
  <2>3. Batch!FunctionGone(ok) \in BOOLEAN
    BY StepsAre DEF Batch!UnmarkedSteps
  <2>4. /\ live' \subseteq {1} /\ undo' = "closed" /\ UNCHANGED <<pinned, drift, imported>>
        /\ Batch!FunctionGone(ok) => live' = {}
    BY <2>1, <2>2, UncreateIs
  <2>5. /\ Batch!YesNo(Batch!FunctionGone(ok)) \in {"absent", "yes", "no"}
        /\ Batch!YesNo(Batch!FunctionGone(ok)) = "yes" => live' = {}
    BY <2>3, <2>4 DEF Batch!YesNo
  <2> QED
    BY <1>1, <2>1, <2>2, <2>4, <2>5, CreateReplyStep
<1>6. CASE Batch!KeepCreated
  <2>1. /\ ~preview /\ Batch!CreateReply("verified", TRUE, "absent", TRUE)
        /\ undo' = "closed" /\ marked' = TRUE /\ UNCHANGED <<live, pinned, drift, imported>>
    BY <1>6 DEF Batch!KeepCreated
  <2>2. live = {1}
    BY <1>1, <1>6, CreateIs DEF Batch!KeepCreated, Creating, BatchInv, MakingOne
  <2> QED
    BY <1>1, <2>1, <2>2, CreateReplyStep
<1>7. CASE Batch!PreviewCreated
  <2>1. at \in Creating /\ preview
    BY <1>7 DEF Creating, Batch!PreviewCreated
  <2>2. PICK ok \in Batch!Steps :
           /\ Batch!Uncreate(ok)
           /\ Batch!CreateReply(IF Batch!FunctionGone(ok) THEN "verified" ELSE "rollback_failed",
                                FALSE, Batch!YesNo(Batch!FunctionGone(ok)), Batch!FunctionGone(ok))
           /\ marked' = (marked \/ ~Batch!FunctionGone(ok))
    BY <1>7 DEF Batch!PreviewCreated
  <2>3. Batch!FunctionGone(ok) \in BOOLEAN
    BY StepsAre
  <2>4. /\ live' \subseteq {1} /\ undo' = "closed" /\ UNCHANGED <<pinned, drift, imported>>
        /\ Batch!FunctionGone(ok) => live' = {}
    BY <2>1, <2>2, UncreateIs
  <2>5. marked' \in BOOLEAN
    BY <1>1, <2>2, <2>3
  <2>6. CASE Batch!FunctionGone(ok)
    <3>1. Batch!CreateReply("verified", FALSE, "yes", TRUE)
      BY <2>2, <2>6 DEF Batch!YesNo, Batch!CreateReply
    <3> QED
      BY <1>1, <2>1, <2>4, <2>5, <2>6, <3>1, CreateReplyStep
  <2>7. CASE ~Batch!FunctionGone(ok)
    <3>1. Batch!CreateReply("rollback_failed", FALSE, "no", FALSE)
      BY <2>2, <2>3, <2>7 DEF Batch!YesNo, Batch!CreateReply
    <3> QED
      BY <1>1, <2>1, <2>4, <2>5, <2>7, <3>1, CreateReplyStep
  <2> QED
    BY <2>6, <2>7
<1>8. CASE Batch!CreateRaises
  <2>1. at \in Creating
    BY <1>8 DEF Creating, Batch!CreateRaises
  <2>2. PICK ok \in Batch!UnmarkedSteps : Batch!Uncreate(ok)
    BY <1>8 DEF Batch!CreateRaises
  <2>3. live' \subseteq {1} /\ undo' = "closed" /\ UNCHANGED <<pinned, drift, imported>>
    BY <2>1, <2>2, UncreateIs
  <2> QED
    BY <1>1, <1>8, <2>1, <2>3, CreateErrorStep DEF Batch!CreateRaises
<1> QED
  BY <1>2, <1>3, <1>4, <1>5, <1>6, <1>7, <1>8

LEMMA BatchStep ==
    ASSUME BatchInv, Batch!BatchNext
    PROVE  BatchInv' /\ request' = request
<1>1. BatchInv'
  BY LoopStep, MoveStep, PreflightStep, RevertAppliedStep, CommitStep, RevertStep, RaiseStep,
     FinishStep, CreateMoveStep, CreateEndStep DEF Batch!BatchNext, Batch!CreateNext
<1>2. request' = request
  BY DEF Batch!BatchNext, Batch!CreateNext, Batch!planVars,
     Batch!Refuse, Batch!BeginUndo, Batch!DeleteFunction, Batch!LeaveOut, Batch!ApplyOp, Batch!ApplyNoop,
     Batch!ApplyFails, Batch!MidAnalysis, Batch!EndLoop, Batch!RevertApplied, Batch!Analyze,
     Batch!VerifyAndCommit, Batch!VerifyAndRevert, Batch!VerifyRaises, Batch!RevertAndRaise,
     Batch!FinishImports, Batch!Mark, Batch!CreateReply, Batch!CreateRefuse, Batch!CreateExists,
     Batch!BeginCreate, Batch!CreateOne, Batch!AnalyzeCreate, Batch!CreateMissing, Batch!CreateJunk,
     Batch!KeepCreated, Batch!PreviewCreated, Batch!CreatedRaises, Batch!CreateRaises
<1> QED
  BY <1>1, <1>2

LEMMA BatchStart ==
    ASSUME Batch!BatchInit
    PROVE  BatchInv
<1>1. PICK n \in 1..MaxOps : batch \in [1..n -> Kinds]
  BY DEF Batch!BatchInit
<1>2. n \in Nat /\ n > 0 /\ DOMAIN batch = 1..n
  BY <1>1, MutationsAssumption DEF Batch!BatchConstants
<1>3. batch \in Seq(Kinds) /\ Len(batch) = n
  BY <1>1, <1>2
<1>4. rows \in [DOMAIN batch -> Batch!RowStatus] /\ next \in 1..(Len(batch) + 1)
  BY <1>2, <1>3 DEF Batch!BatchInit, Batch!RowStatus
<1>5. result \in Batch!Results
  BY DEF Batch!BatchInit, Batch!NoResult, Batch!Results
<1>6. request \in {"batch", "create"} /\ (request = "create" => batch = <<"create">>)
  BY DEF Batch!BatchInit
<1>7. Batch!TypeOK
  BY <1>1, <1>4, <1>5, <1>6 DEF Batch!TypeOK, Batch!Ops, Batch!BatchInit
<1>8. Pristine
  BY DEF Pristine, Batch!BatchInit, Batch!Untouched
<1> QED
  BY <1>6, <1>7, <1>8 DEF BatchInv, Batch!BatchInit, Attempting, Creating, Ended

-----------------------------------------------------------------------------
(* How an attempt ends: what the reply and the mark have to do with the view. *)

EndRefused == /\ request' = "batch" /\ at' = "finish" /\ ~marked'
              /\ Batch!Untouched' /\ ~result'.committed

EndDeleted == /\ request' = "batch" /\ at' = "mark" /\ marked'
              /\ Deleted' /\ Batch!AnyRow(rows', {"verified", "failed"})

EndReverted == /\ request' = "batch" /\ at' = "finish" /\ ~marked'
               /\ result'.kind = "reply" /\ ~result'.committed /\ result'.rolledBack \in {"yes", "no"}

EndCommitted == /\ request' = "batch" /\ at' = "finish" /\ ~marked'
                /\ ~Deleted' /\ result'.kind = "reply" /\ result'.committed /\ ~result'.preview
                /\ Batch!Untouched' \/ Batch!AnyRow(rows', {"verified"})

EndRaised == /\ request' = "batch" /\ at' = "finish" /\ ~marked'
             /\ result'.kind = "error" /\ ~result'.committed
             /\ \/ Batch!Untouched' \/ result'.status = "rollback_failed" \/ result'.residue
                \/ "midAnalysis" \in Faults

EndCreated == /\ request' = "create" /\ at' = "finish"
              /\ result'.kind = "reply" => (DirtyAfter <=> marked)' \/ "createRollback" \in Faults
              /\ ~Batch!Untouched' => marked' \/ "createRollback" \in Faults
              /\ marked' => ~Batch!Untouched' \/ (result'.rolledBack = "no" /\ ~result'.committed)

Attempt == \/ at' \notin Ended \/ EndRefused \/ EndDeleted \/ EndReverted
           \/ EndCommitted \/ EndRaised \/ EndCreated

LEMMA RefusedEnds ==
    ASSUME BatchInv, Batch!Refuse
    PROVE  Attempt
<1>1. Pristine /\ at' = "finish" /\ UNCHANGED <<request, marked, live, pinned, drift>> /\ request = "batch"
  BY DEF BatchInv, Batch!Refuse, Batch!planVars
<1>2. preview \in BOOLEAN
  BY DEF BatchInv, Batch!TypeOK
<1>3. result' = Batch!Reply(preview, FALSE, "yes", FALSE, FALSE) \/ result' = Batch!Raised("refused", FALSE)
  BY DEF Batch!Refuse
<1>4. ~result'.committed
  <2>1. IsReply(Batch!Reply(preview, FALSE, "yes", FALSE, FALSE), preview, FALSE, "yes", FALSE, FALSE)
    BY <1>2, ReplyIs
  <2>2. IsError(Batch!Raised("refused", FALSE), "refused", FALSE)
    BY RaisedIs
  <2> QED
    BY <1>3, <2>1, <2>2 DEF IsReply, IsError
<1> QED
  BY <1>1, <1>4 DEF Attempt, EndRefused, Pristine, Batch!Untouched

LEMMA DeletedEnds ==
    ASSUME BatchInv, Batch!DeleteFunction
    PROVE  Attempt
<1>1. Batch!TypeOK /\ Len(batch) \in Nat /\ Len(batch) > 0 /\ DOMAIN batch = 1..Len(batch)
  BY BatchIs DEF BatchInv
<1>2. PICK ok \in BOOLEAN :
         /\ rows' = [i \in DOMAIN batch |-> IF ok /\ live' = DOMAIN batch THEN "verified" ELSE "failed"]
         /\ result' = Batch!Reply(FALSE, TRUE, "no", ok /\ live' = DOMAIN batch, FALSE)
  BY MayIs DEF Batch!DeleteFunction, Batch!Ops
<1>3. at' = "mark" /\ marked' = TRUE /\ Batch!Deletes /\ UNCHANGED <<request, batch>>
  BY DEF Batch!DeleteFunction, Batch!planVars
<1>4. request = "batch"
  BY <1>1, <1>3 DEF BatchInv, Batch!Deletes, Batch!TypeOK, Batch!Ops
<1>5. result'.kind = "reply" /\ result'.committed
  <2>1. (ok /\ live' = DOMAIN batch) \in BOOLEAN
    OBVIOUS
  <2>2. IsReply(result', FALSE, TRUE, "no", ok /\ live' = DOMAIN batch, FALSE)
    BY <1>2, <2>1, ReplyIs
  <2> QED
    BY <2>2 DEF IsReply
<1>6. 1 \in DOMAIN rows' /\ rows'[1] \in {"verified", "failed"}
  BY <1>1, <1>2
<1>7. Batch!Deletes'
  BY <1>3 DEF Batch!Deletes, Batch!Ops
<1> QED
  BY <1>3, <1>4, <1>5, <1>6, <1>7 DEF Attempt, EndDeleted, Deleted, Batch!AnyRow

LEMMA RevertedEnds ==
    ASSUME BatchInv, Batch!RevertApplied \/ Batch!VerifyAndRevert
    PROVE  Attempt
<1>1. at \in Attempting /\ at' = "finish" /\ UNCHANGED <<request, marked>>
  BY DEF Attempting, Batch!RevertApplied, Batch!VerifyAndRevert, Batch!planVars
<1>2. PICK restored \in BOOLEAN, success \in BOOLEAN, residue \in BOOLEAN :
         result' = Batch!Reply(preview, FALSE, Batch!YesNo(restored), success, residue)
  <2>1. PICK ok \in Batch!Steps, bad \in SUBSET Batch!Verifiable \cup {{}} :
           \/ result' = Batch!Reply(preview, FALSE, Batch!YesNo(Batch!ValuesReverted(ok) /\ ~Batch!Residue),
                                    FALSE, Batch!Residue)
           \/ result' = Batch!Reply(preview, FALSE, Batch!YesNo(Batch!ValuesReverted(ok) /\ ~Batch!Residue),
                                    bad = {} /\ Batch!ValuesReverted(ok) /\ ~Batch!Residue, Batch!Residue)
    BY DEF Batch!RevertApplied, Batch!VerifyAndRevert
  <2> DEFINE restored == Batch!ValuesReverted(ok) /\ ~Batch!Residue
  <2>2. restored \in BOOLEAN /\ (bad = {} /\ restored) \in BOOLEAN /\ Batch!Residue \in BOOLEAN
    BY DEF Batch!Residue
  <2>3. \/ result' = Batch!Reply(preview, FALSE, Batch!YesNo(restored), FALSE, Batch!Residue)
        \/ result' = Batch!Reply(preview, FALSE, Batch!YesNo(restored), bad = {} /\ restored, Batch!Residue)
    BY <2>1
  <2> QED
    BY <2>2, <2>3, Zenon
<1>3. Batch!YesNo(restored) \in {"yes", "no"}
  BY DEF Batch!YesNo
<1>4. IsReply(result', preview, FALSE, Batch!YesNo(restored), success, residue)
  BY <1>1, <1>2, <1>3, AttemptIs, ReplyIs
<1>5. request = "batch" /\ ~marked
  BY <1>1, AttemptIs DEF Applying
<1> QED
  BY <1>1, <1>3, <1>4, <1>5 DEF Attempt, EndReverted, IsReply

LEMMA CommittedEnds ==
    ASSUME BatchInv, Batch!VerifyAndCommit
    PROVE  Attempt
<1>1. at \in Attempting /\ at' = "finish" /\ UNCHANGED <<request, batch, marked, live, pinned, drift>>
      /\ rows' = [i \in DOMAIN batch |-> IF rows[i] = "applied" THEN "verified" ELSE rows[i]]
      /\ at = "verify" /\ ~preview
  BY DEF Attempting, Batch!VerifyAndCommit, Batch!planVars, Batch!viewVars, Batch!Verified, Batch!Ops
<1>2. Applying /\ request = "batch" /\ live \subseteq DOMAIN batch /\ pinned \subseteq DOMAIN batch
  BY <1>1, AttemptIs DEF Batch!TypeOK, Batch!Ops
<1>3. IsReply(result', FALSE, TRUE, "no", TRUE, FALSE)
  BY ReplyIs DEF Batch!VerifyAndCommit
<1>4. Batch!Untouched \/ \E i \in DOMAIN batch : rows[i] = "applied"
  BY <1>1, <1>2 DEF Applying, Batch!Untouched
<1>5. Batch!Untouched' \/ Batch!AnyRow(rows', {"verified"})
  BY <1>1, <1>4 DEF Batch!Untouched, Batch!AnyRow
<1>6. ~Deleted'
  BY <1>1, <1>2 DEF Deleted, Applying, Batch!Deletes, Batch!Ops
<1> QED
  BY <1>1, <1>2, <1>3, <1>5, <1>6 DEF Attempt, EndCommitted, IsReply, Applying

LEMMA RaisedEnds ==
    ASSUME BatchInv, Batch!RevertAndRaise \/ Batch!MidAnalysis
    PROVE  Attempt
<1>1. at \in Attempting /\ UNCHANGED <<request, marked>>
  BY DEF Attempting, Batch!RevertAndRaise, Batch!MidAnalysis, Batch!planVars
<1>2. Applying /\ request = "batch"
  BY <1>1, AttemptIs
<1>3. CASE Batch!RevertAndRaise
  <2>1. PICK ok \in Batch!Steps :
           /\ Batch!Revert(ok)
           /\ result' = Batch!Raised(IF Batch!ValuesReverted(ok) THEN "raised" ELSE "rollback_failed", Batch!Residue)
    BY <1>3 DEF Batch!RevertAndRaise
  <2>2. pinned' = pinned /\ (Batch!ValuesReverted(ok) => live' = {} /\ ~drift')
    BY <1>1, <1>2, <2>1, AttemptIs, RevertClears DEF Applying
  <2>3. Batch!Residue \in BOOLEAN
    BY DEF Batch!Residue
  <2>4. IsError(result', IF Batch!ValuesReverted(ok) THEN "raised" ELSE "rollback_failed", Batch!Residue)
    BY <2>1, <2>3, RaisedIs
  <2>5. result'.kind = "error" /\ ~result'.committed /\ result'.residue = Batch!Residue
        /\ (~Batch!ValuesReverted(ok) => result'.status = "rollback_failed")
    BY <2>4 DEF IsError
  <2>6. \/ Batch!Untouched' \/ result'.status = "rollback_failed" \/ result'.residue
    BY <2>2, <2>3, <2>5 DEF Batch!Residue, Batch!Untouched
  <2>7. at' = "finish" /\ request' = "batch" /\ ~marked'
    BY <1>1, <1>2, <1>3 DEF Applying, Batch!RevertAndRaise
  <2> QED
    BY <2>5, <2>6, <2>7 DEF Attempt, EndRaised
<1>4. CASE Batch!MidAnalysis
  <2>1. CASE at' = "loop"
    BY <2>1 DEF Attempt, Ended
  <2>2. CASE at' # "loop"
    <3>1. at' = "finish" /\ "midAnalysis" \in Faults /\ result' = Batch!Raised("raised", FALSE)
      BY <1>4, <2>2, MayIs DEF Batch!MidAnalysis
    <3>2. IsError(result', "raised", FALSE)
      BY <3>1, RaisedIs
    <3> QED
      BY <1>1, <1>2, <3>1, <3>2 DEF Attempt, EndRaised, IsError, Applying
  <2> QED
    BY <2>1, <2>2
<1> QED
  BY <1>3, <1>4

SaysDirty(r, done, tried) ==
    \/ r.committed /\ (done \/ tried)
    \/ r.rolledBack = "no" /\ ~r.committed
    \/ r.residue

LEMMA SummaryIs ==
    ASSUME NEW r, NEW table, NEW irreversible
    PROVE  Batch!Summary(r, table, irreversible).dirtyAfter =
              SaysDirty(r, Batch!AnyRow(table, {"verified"}),
                        irreversible /\ Batch!AnyRow(table, Batch!FailedStatuses))
BY DEF Batch!Summary, SaysDirty

\* A create's reply says that the view is dirty if it committed, or failed to roll back.
LEMMA CreateReplyEnds ==
    ASSUME BatchInv, request = "create", at = "preflight" \/ at \in Creating,
           NEW status \in {"noop", "failed", "verified", "rollback_failed"},
           NEW committed \in BOOLEAN, NEW rolledBack \in {"absent", "yes", "no"}, NEW success \in BOOLEAN,
           Batch!CreateReply(status, committed, rolledBack, success)
    PROVE  /\ request' = "create" /\ at' = "finish"
           /\ result'.committed = committed /\ result'.rolledBack = rolledBack
           /\ DirtyAfter' <=> \/ committed /\ status = "verified"
                              \/ rolledBack = "no" /\ ~committed
<1>1. /\ rows' = [rows EXCEPT ![next] = status] /\ at' = "finish" /\ UNCHANGED <<request, batch>>
      /\ result' = Batch!Reply(preview, committed, rolledBack, success, FALSE)
  BY DEF Batch!CreateReply, Batch!Row, Batch!planVars
<1>2. IsReply(result', preview, committed, rolledBack, success, FALSE)
  BY <1>1, ReplyIs, CreateIs
<1>3. DOMAIN rows' = {1} /\ rows'[1] = status
  BY <1>1, CreateIs
<1>4. Batch!AnyRow(rows', {"verified"}) <=> status = "verified"
  BY <1>3 DEF Batch!AnyRow
<1>5. ~Batch!Deletes'
  <2>1. batch' = <<"create">>
    BY <1>1 DEF BatchInv
  <2>2. \A i \in DOMAIN batch' : batch'[i] = "create"
    BY <1>1, <2>1, CreateIs
  <2> QED
    BY <2>2 DEF Batch!Deletes, Batch!Ops
<1>6. DirtyAfter' = SaysDirty(result', Batch!AnyRow(rows', {"verified"}),
                              Batch!Deletes' /\ Batch!AnyRow(rows', Batch!FailedStatuses))
  BY SummaryIs DEF DirtyAfter
<1> QED
  BY <1>1, <1>2, <1>4, <1>5, <1>6 DEF IsReply, SaysDirty

LEMMA CreatedEnds ==
    ASSUME BatchInv,
           \/ Batch!CreateRefuse \/ Batch!CreateExists \/ Batch!CreateMissing \/ Batch!CreateJunk
           \/ Batch!KeepCreated \/ Batch!PreviewCreated \/ Batch!CreateRaises
    PROVE  Attempt
<1> USE DEF Batch!planVars, Batch!viewVars
<1>1. request = "create" /\ (at = "preflight" \/ at \in Creating) /\ preview \in BOOLEAN
  <2>1. request = "create" /\ (at = "preflight" \/ at \in Creating)
    BY CreateRequest DEF Creating, Batch!CreateRefuse, Batch!CreateExists, Batch!CreateMissing,
          Batch!CreateJunk, Batch!KeepCreated, Batch!PreviewCreated, Batch!CreateRaises
  <2> QED
    BY <2>1 DEF BatchInv, Batch!TypeOK
<1>2. ~marked /\ pinned = {} /\ ~drift /\ live \subseteq {1} /\ (at = "preflight" => Batch!Untouched)
  BY <1>1, CreateIs DEF Batch!Untouched
<1>3. CASE Batch!CreateRefuse
  <2>1. IsError(result', "refused", FALSE)
    BY <1>3, RaisedIs DEF Batch!CreateRefuse
  <2> QED
    BY <1>1, <1>2, <1>3, <2>1 DEF Attempt, EndCreated, IsError, Batch!CreateRefuse, Batch!Untouched
<1>4. CASE Batch!CreateExists
  <2>1. Batch!CreateReply("noop", FALSE, "absent", TRUE)
    BY <1>4 DEF Batch!CreateExists, Batch!CreateReply
  <2>2. request' = "create" /\ at' = "finish" /\ ~DirtyAfter'
    BY <1>1, <2>1, CreateReplyEnds
  <2>3. marked' = marked /\ Batch!Untouched'
    BY <1>2, <1>4 DEF Batch!CreateExists, Batch!Untouched
  <2> QED
    BY <1>2, <2>2, <2>3 DEF Attempt, EndCreated
<1>5. CASE Batch!CreateMissing
  <2>1. at \in Creating /\ marked' = marked
    BY <1>5 DEF Creating, Batch!CreateMissing
  <2>2. PICK ok \in Batch!UnmarkedSteps :
           /\ Batch!Uncreate([ok EXCEPT !.restore = TRUE])
           /\ Batch!CreateReply("failed", FALSE, Batch!YesNo(ok.undo /\ ok.hosts), FALSE)
    BY <1>5 DEF Batch!CreateMissing
  <2>3. ok \in Batch!Steps /\ (ok.undo /\ ok.hosts) \in BOOLEAN
        /\ ("createRollback" \notin Faults => ok.undo /\ ok.hosts)
    BY StepsAre DEF Batch!UnmarkedSteps, Batch!FunctionGone
  <2>4. ok.hosts => Batch!FunctionGone([ok EXCEPT !.restore = TRUE])
    BY <2>3 DEF Batch!FunctionGone, Batch!Steps
  <2>5. UNCHANGED <<pinned, drift>> /\ (ok.hosts => live' = {})
    BY <2>1, <2>2, <2>4, UncreateIs
  <2>6. /\ Batch!YesNo(ok.undo /\ ok.hosts) \in {"absent", "yes", "no"}
        /\ Batch!YesNo(ok.undo /\ ok.hosts) = "no" => ~(ok.undo /\ ok.hosts)
    BY <2>3 DEF Batch!YesNo
  <2>7. request' = "create" /\ at' = "finish" /\ (DirtyAfter' => ~(ok.undo /\ ok.hosts))
    BY <1>1, <2>2, <2>6, CreateReplyEnds
  <2> QED
    BY <1>2, <2>1, <2>3, <2>5, <2>7 DEF Attempt, EndCreated, Batch!Untouched
<1>6. CASE Batch!CreateJunk
  <2>1. at \in Creating /\ marked' = marked
    BY <1>6 DEF Creating, Batch!CreateJunk
  <2>2. PICK ok \in Batch!UnmarkedSteps :
           /\ Batch!Uncreate(ok)
           /\ Batch!CreateReply("failed", FALSE, Batch!YesNo(Batch!FunctionGone(ok)), FALSE)
    BY <1>6 DEF Batch!CreateJunk
  <2>3. Batch!FunctionGone(ok) \in BOOLEAN /\ ("createRollback" \notin Faults => Batch!FunctionGone(ok))
    BY StepsAre DEF Batch!UnmarkedSteps
  <2>4. UNCHANGED <<pinned, drift>> /\ (Batch!FunctionGone(ok) => live' = {})
    BY <2>1, <2>2, UncreateIs
  <2>5. /\ Batch!YesNo(Batch!FunctionGone(ok)) \in {"absent", "yes", "no"}
        /\ Batch!YesNo(Batch!FunctionGone(ok)) = "no" => ~Batch!FunctionGone(ok)
    BY <2>3 DEF Batch!YesNo
  <2>6. request' = "create" /\ at' = "finish" /\ (DirtyAfter' => ~Batch!FunctionGone(ok))
    BY <1>1, <2>2, <2>5, CreateReplyEnds
  <2> QED
    BY <1>2, <2>1, <2>3, <2>4, <2>6 DEF Attempt, EndCreated, Batch!Untouched
<1>7. CASE Batch!KeepCreated
  <2>1. /\ Batch!CreateReply("verified", TRUE, "absent", TRUE)
        /\ marked' = TRUE /\ UNCHANGED live
    BY <1>7 DEF Batch!KeepCreated
  <2>2. live = {1}
    BY <1>1, <1>7, CreateIs DEF Batch!KeepCreated, Creating, BatchInv, MakingOne
  <2>3. request' = "create" /\ at' = "finish" /\ DirtyAfter'
    BY <1>1, <2>1, CreateReplyEnds
  <2> QED
    BY <2>1, <2>2, <2>3 DEF Attempt, EndCreated, Batch!Untouched
<1>8. CASE Batch!PreviewCreated
  <2>1. at \in Creating
    BY <1>8 DEF Creating, Batch!PreviewCreated
  <2>2. PICK ok \in Batch!Steps :
           /\ Batch!Uncreate(ok)
           /\ Batch!CreateReply(IF Batch!FunctionGone(ok) THEN "verified" ELSE "rollback_failed",
                                FALSE, Batch!YesNo(Batch!FunctionGone(ok)), Batch!FunctionGone(ok))
           /\ marked' = (marked \/ ~Batch!FunctionGone(ok))
    BY <1>8 DEF Batch!PreviewCreated
  <2>3. Batch!FunctionGone(ok) \in BOOLEAN
    BY StepsAre
  <2>4. UNCHANGED <<pinned, drift>> /\ (Batch!FunctionGone(ok) => live' = {})
    BY <2>1, <2>2, UncreateIs
  <2>5. CASE Batch!FunctionGone(ok)
    <3>1. Batch!CreateReply("verified", FALSE, "yes", TRUE)
      BY <2>2, <2>5 DEF Batch!YesNo, Batch!CreateReply
    <3>2. request' = "create" /\ at' = "finish" /\ ~DirtyAfter'
      BY <1>1, <3>1, CreateReplyEnds
    <3> QED
      BY <1>2, <2>2, <2>4, <2>5, <3>2 DEF Attempt, EndCreated, Batch!Untouched
  <2>6. CASE ~Batch!FunctionGone(ok)
    <3>1. Batch!CreateReply("rollback_failed", FALSE, "no", FALSE)
      BY <2>2, <2>3, <2>6 DEF Batch!YesNo, Batch!CreateReply
    <3>2. request' = "create" /\ at' = "finish" /\ DirtyAfter' /\ result'.rolledBack = "no" /\ ~result'.committed
      BY <1>1, <3>1, CreateReplyEnds
    <3> QED
      BY <1>2, <2>2, <2>6, <3>2 DEF Attempt, EndCreated
  <2> QED
    BY <2>5, <2>6
<1>9. CASE Batch!CreateRaises
  <2>1. at \in Creating /\ IsError(result', "raised", FALSE) /\ at' = "finish" /\ UNCHANGED <<request, marked>>
    BY <1>9, RaisedIs DEF Creating, Batch!CreateRaises
  <2>2. PICK ok \in Batch!UnmarkedSteps : Batch!Uncreate(ok)
    BY <1>9 DEF Batch!CreateRaises
  <2>3. "createRollback" \notin Faults => Batch!FunctionGone(ok)
    BY DEF Batch!UnmarkedSteps
  <2>4. UNCHANGED <<pinned, drift>> /\ (Batch!FunctionGone(ok) => live' = {})
    BY <2>1, <2>2, UncreateIs
  <2> QED
    BY <1>1, <1>2, <2>1, <2>3, <2>4 DEF Attempt, EndCreated, IsError, Batch!Untouched
<1> QED
  BY <1>3, <1>4, <1>5, <1>6, <1>7, <1>8, <1>9

\* Every step is the end of an attempt, or comes after it, or goes on with it.
LEMMA AttemptStep ==
    ASSUME BatchInv, Batch!BatchNext, ~Batch!FinishImports, ~Batch!Mark
    PROVE  Attempt
<1>1. \/ Batch!Refuse \/ Batch!DeleteFunction \/ Batch!RevertApplied \/ Batch!VerifyAndRevert
      \/ Batch!VerifyAndCommit \/ Batch!RevertAndRaise \/ Batch!MidAnalysis
      \/ Batch!CreateRefuse \/ Batch!CreateExists \/ Batch!CreateMissing \/ Batch!CreateJunk
      \/ Batch!KeepCreated \/ Batch!PreviewCreated \/ Batch!CreateRaises
      \/ at' \notin Ended
  <2>1. CASE Batch!LeaveOut \/ Batch!ApplyOp \/ Batch!ApplyNoop \/ Batch!ApplyFails
    BY <2>1 DEF Ended, Batch!LeaveOut, Batch!ApplyOp, Batch!ApplyNoop, Batch!ApplyFails, Batch!AfterOp
  <2>2. CASE Batch!BeginUndo \/ Batch!EndLoop \/ Batch!Analyze \/ Batch!VerifyRaises
    BY <2>2 DEF Ended, Batch!BeginUndo, Batch!EndLoop, Batch!Analyze, Batch!VerifyRaises
  <2>3. CASE Batch!BeginCreate \/ Batch!CreateOne \/ Batch!AnalyzeCreate \/ Batch!CreatedRaises
    BY <2>3 DEF Ended, Batch!BeginCreate, Batch!CreateOne, Batch!AnalyzeCreate, Batch!CreatedRaises
  <2> QED
    BY <2>1, <2>2, <2>3 DEF Batch!BatchNext, Batch!CreateNext
<1> QED
  BY <1>1, RefusedEnds, DeletedEnds, RevertedEnds, CommittedEnds, RaisedEnds, CreatedEnds DEF Attempt

-----------------------------------------------------------------------------
(* The mark, through the end of a request.                                   *)

LEMMA FinishIs ==
    ASSUME BatchInv, Batch!FinishImports
    PROVE  /\ Told /\ at = "finish" /\ at' = (IF request = "batch" THEN "mark" ELSE "done")
           /\ request \in {"batch", "create"}
           /\ UNCHANGED <<request, batch, preview, live, pinned, drift, marked>>
           /\ \/ "collect" \in Faults /\ result'.kind = "error"
              \/ /\ result'.kind = result.kind /\ result'.preview = result.preview
                 /\ result'.committed = result.committed /\ result'.rolledBack = result.rolledBack
                 /\ result'.residue = result.residue /\ result'.status = result.status
                 /\ result.committed => rows' = rows
<1>1. Batch!TypeOK /\ Told /\ at = "finish"
  BY DEF BatchInv, Batch!FinishImports, Ended
<1>2. /\ at' = (IF request = "batch" THEN "mark" ELSE "done") /\ request \in {"batch", "create"}
      /\ UNCHANGED <<request, batch, preview, live, pinned, drift, marked>>
  BY <1>1 DEF Batch!FinishImports, Batch!planVars, Batch!viewVars, Batch!TypeOK
<1>3. CASE "collect" \in Faults /\ result' = Batch!Raised("raised", FALSE)
  <2>1. IsError(result', "raised", FALSE)
    BY <1>3, RaisedIs
  <2> QED
    BY <1>1, <1>2, <1>3, <2>1 DEF IsError
<1>4. CASE /\ result' = [result EXCEPT !.kept = preview \/ ~result.committed, !.success = @ /\ ~preview]
           /\ ~preview => rows' = rows
  <2>1. /\ result'.kind = result.kind /\ result'.preview = result.preview
        /\ result'.committed = result.committed /\ result'.rolledBack = result.rolledBack
        /\ result'.residue = result.residue /\ result'.status = result.status
    BY <1>1, <1>4 DEF Batch!TypeOK, Batch!Results
  <2> QED
    BY <1>1, <1>2, <1>4, <2>1 DEF Told
<1>5. CASE result' = [result EXCEPT !.kept = imported] /\ rows' = rows
  <2>1. /\ result'.kind = result.kind /\ result'.preview = result.preview
        /\ result'.committed = result.committed /\ result'.rolledBack = result.rolledBack
        /\ result'.residue = result.residue /\ result'.status = result.status
    BY <1>1, <1>5 DEF Batch!TypeOK, Batch!Results
  <2> QED
    BY <1>1, <1>2, <1>5, <2>1
<1> QED
  BY <1>3, <1>4, <1>5, MayIs DEF Batch!FinishImports

LEMMA MarkIs ==
    ASSUME BatchInv, Batch!Mark
    PROVE  /\ Told /\ at = "mark" /\ at' = "done" /\ request = "batch"
           /\ UNCHANGED <<request, batch, preview, rows, live, pinned, drift, imported, result>>
           /\ marked' = (marked \/ LeftSomething)
<1>1. Told /\ at = "mark" /\ request = "batch"
  BY DEF BatchInv, Batch!Mark, Ended, Batch!TypeOK, Creating
<1>2. marked' = (marked \/ LeftSomething)
  BY Zenon DEF Batch!Mark, LeftSomething
<1> QED
  BY <1>1, <1>2 DEF Batch!Mark, Batch!planVars, Batch!viewVars

\* Nothing else leaves the end, and where a request is done it stays.
LEMMA DisclosedStep ==
    ASSUME BatchInv, Disclosed, Batch!BatchNext,
           Faults \cap {"midAnalysis", "collect", "createRollback"} = {}
    PROVE  Disclosed'
<1>0. BatchInv'
  BY BatchStep
<1>1. CASE Batch!FinishImports
  <2>1. CASE request = "create"
    BY <1>1, <2>1, FinishIs DEF Disclosed, Batch!ModifiedViewIsMarked, Batch!Done, Batch!Untouched
  <2>2. CASE request = "batch"
    <3>1. LeftSomething => LeftSomething'
      BY <1>1, FinishIs DEF LeftSomething, Batch!CommittedChange, Batch!RollbackLeftState,
            Batch!ResidueLeftState, Batch!ErrorLeftState
    <3> QED
      BY <1>1, <2>2, <3>1, FinishIs DEF Disclosed, Batch!ModifiedViewIsMarked, Batch!Done, Batch!Untouched
  <2> QED
    BY <1>1, <2>1, <2>2, FinishIs
<1>2. CASE Batch!Mark
  <2>1. ~Batch!Untouched => marked \/ LeftSomething
    BY <1>2, MarkIs DEF Disclosed
  <2>2. ~Batch!Untouched' => marked'
    <3>1. Batch!Untouched' <=> Batch!Untouched
      BY <1>2, MarkIs DEF Batch!Untouched
    <3>2. marked' = (marked \/ LeftSomething)
      BY <1>2, MarkIs
    <3> QED
      BY ONLY <2>1, <3>1, <3>2
  <2> QED
    BY <1>2, <2>2, MarkIs DEF Disclosed, Batch!ModifiedViewIsMarked
<1>3. CASE ~Batch!FinishImports /\ ~Batch!Mark
  <2>1. Attempt
    BY <1>3, AttemptStep
  <2>2. at' # "done"
    BY <2>1 DEF Attempt, Ended, EndRefused, EndDeleted, EndReverted, EndCommitted, EndRaised, EndCreated
  <2>3. ASSUME at' \in {"finish", "mark"}, ~Batch!Untouched'
        PROVE  marked' \/ (request' = "batch" /\ LeftSomething')
    <3>1. CASE EndRefused \/ EndDeleted \/ EndCreated
      BY <2>3, <3>1 DEF EndRefused, EndDeleted, EndCreated
    <3>2. CASE EndReverted
      <4>1. result'.rolledBack = "no"
        BY <1>0, <2>3, <3>2 DEF EndReverted, BatchInv, Ended, Told
      <4> QED
        BY <3>2, <4>1 DEF EndReverted, LeftSomething, Batch!RollbackLeftState
    <3>3. CASE EndCommitted
      BY <2>3, <3>3 DEF EndCommitted, LeftSomething, Batch!CommittedChange
    <3>4. CASE EndRaised
      BY <2>3, <3>4 DEF EndRaised, LeftSomething, Batch!ErrorLeftState
    <3> QED
      BY <2>1, <2>3, <3>1, <3>2, <3>3, <3>4 DEF Attempt, Ended
  <2> QED
    BY <2>2, <2>3 DEF Disclosed, Batch!ModifiedViewIsMarked, Batch!Done
<1> QED
  BY <1>1, <1>2, <1>3

LEMMA JustifiedStep ==
    ASSUME BatchInv, Justified, Batch!BatchNext, "collect" \notin Faults
    PROVE  Justified'
<1>1. CASE Batch!FinishImports
  BY <1>1, FinishIs DEF Justified, Excused, Ended, Batch!Untouched, Batch!Deletes, Batch!Ops
<1>2. CASE Batch!Mark
  <2>1. ASSUME LeftSomething
        PROVE  Excused \/ ~Batch!Untouched
    <3>1. Told /\ DOMAIN rows = DOMAIN batch
      BY <1>2, MarkIs DEF BatchInv, Batch!TypeOK, Batch!Ops
    <3>2. CASE Batch!CommittedChange
      <4>1. PICK i \in DOMAIN batch : rows[i] = "verified"
        BY <3>1, <3>2 DEF Batch!CommittedChange, Batch!AnyRow
      <4>2. i \in live
        BY <3>1, <3>2, <4>1 DEF Told, Batch!CommittedChange
      <4> QED
        BY <4>2 DEF Batch!Untouched
    <3>3. CASE Batch!RollbackLeftState
      BY <3>3 DEF Batch!RollbackLeftState, Excused
    <3>4. CASE Batch!ResidueLeftState \/ Batch!ErrorLeftState
      BY <3>1, <3>4 DEF Batch!ResidueLeftState, Batch!ErrorLeftState, Told, Excused, Batch!Untouched
    <3> QED
      BY <2>1, <3>2, <3>3, <3>4 DEF LeftSomething
  <2>2. marked => Excused \/ ~Batch!Untouched
    BY <1>2, MarkIs DEF Justified, Ended
  <2>3. marked' => Excused \/ ~Batch!Untouched
    BY <1>2, <2>1, <2>2, MarkIs
  <2> QED
    BY <1>2, <2>3, MarkIs DEF Justified, Excused, Batch!Untouched, Batch!Deletes, Batch!Ops
<1>3. CASE ~Batch!FinishImports /\ ~Batch!Mark
  <2>1. Attempt
    BY <1>3, AttemptStep
  <2> QED
    BY <2>1 DEF Attempt, EndRefused, EndDeleted, EndReverted, EndCommitted, EndRaised, EndCreated,
                Justified, Excused, Deleted
<1> QED
  BY <1>1, <1>2, <1>3

LEMMA AgreedStep ==
    ASSUME BatchInv, Agreed, Batch!BatchNext, "createRollback" \notin Faults
    PROVE  Agreed'
<1>1. CASE Batch!FinishImports
  <2>1. Told /\ Batch!Deletes' = Batch!Deletes
    BY <1>1, FinishIs DEF Batch!Deletes, Batch!Ops
  <2>2. result'.kind = "reply" =>
          /\ result.kind = "reply" /\ (DirtyAfter' <=> DirtyAfter) /\ (Deleted' <=> Deleted)
    <3>1. result'.kind = "reply" => result.kind = "reply" /\ (Deleted' <=> Deleted)
      BY <1>1, <2>1, FinishIs DEF Deleted
    <3>2. result'.kind = "reply" => 
            (SaysDirty(result', Batch!AnyRow(rows', {"verified"}),
                       Batch!Deletes' /\ Batch!AnyRow(rows', Batch!FailedStatuses))
             <=> SaysDirty(result, Batch!AnyRow(rows, {"verified"}),
                           Batch!Deletes /\ Batch!AnyRow(rows, Batch!FailedStatuses)))
      BY <1>1, <2>1, FinishIs DEF SaysDirty
    <3> QED
      BY <3>1, <3>2, SummaryIs DEF DirtyAfter
  <2>3. CASE request = "create"
    BY <1>1, <2>2, <2>3, FinishIs DEF Agreed, Ended, Batch!DirtyAfterIsTheMark, Batch!Done, DirtyAfter
  <2>4. CASE request = "batch"
    <3>1. ~marked' /\ ~Deleted'
      BY <1>1, <2>2, <2>4, FinishIs DEF Agreed, Deleted
    <3> QED
      BY <1>1, <2>4, <3>1, FinishIs DEF Agreed, Batch!DirtyAfterIsTheMark, Batch!Done
  <2> QED
    BY <1>1, <2>3, <2>4, FinishIs
<1>2. CASE Batch!Mark
  <2>1. at = "mark" /\ at' = "done" /\ request' = "batch" /\ Told /\ (marked <=> Deleted)
        /\ (marked => Batch!AnyRow(rows, {"verified", "failed"}))
        /\ result' = result /\ rows' = rows /\ Batch!Deletes' = Batch!Deletes
        /\ marked' = (marked \/ LeftSomething)
    BY <1>2, MarkIs DEF Agreed, Batch!Deletes, Batch!Ops
  <2>2. ASSUME result.kind = "reply"
        PROVE  SaysDirty(result, Batch!AnyRow(rows, {"verified"}),
                         Batch!Deletes /\ Batch!AnyRow(rows, Batch!FailedStatuses)) <=> marked'
    <3>1. marked => result.committed /\ \/ Batch!AnyRow(rows, {"verified"})
                                        \/ Batch!Deletes /\ Batch!AnyRow(rows, Batch!FailedStatuses)
      BY <2>1 DEF Deleted, Batch!AnyRow, Batch!FailedStatuses
    <3>2. LeftSomething <=> \/ result.committed /\ Batch!AnyRow(rows, {"verified"})
                            \/ ~result.committed /\ result.rolledBack = "no"
                            \/ result.residue
      BY <2>1, <2>2 DEF LeftSomething, Told, Batch!CommittedChange, Batch!RollbackLeftState,
            Batch!ResidueLeftState, Batch!ErrorLeftState
    <3>3. result.committed /\ Batch!Deletes => marked
      BY <2>1, <2>2 DEF Deleted
    <3> QED
      BY <2>1, <3>1, <3>2, <3>3 DEF SaysDirty
  <2>3. result'.kind = "reply" => (DirtyAfter' <=> marked')
    BY <2>1, <2>2, SummaryIs DEF DirtyAfter
  <2> QED
    BY <2>1, <2>3 DEF Agreed, Batch!DirtyAfterIsTheMark, Batch!Done, DirtyAfter
<1>3. CASE ~Batch!FinishImports /\ ~Batch!Mark
  <2>1. Attempt
    BY <1>3, AttemptStep
  <2>2. CASE at' \notin Ended
    BY <2>2 DEF Agreed, Ended, Batch!DirtyAfterIsTheMark, Batch!Done
  <2>3. CASE EndCreated
    BY <2>3 DEF EndCreated, Agreed, Batch!DirtyAfterIsTheMark, Batch!Done
  <2>4. CASE EndRefused \/ EndReverted \/ EndCommitted \/ EndRaised
    BY <2>4 DEF EndRefused, EndReverted, EndCommitted, EndRaised, Agreed, Deleted,
                Batch!DirtyAfterIsTheMark, Batch!Done
  <2>5. CASE EndDeleted
    BY <2>5 DEF EndDeleted, Agreed, Batch!DirtyAfterIsTheMark, Batch!Done
  <2> QED
    BY <2>1, <2>2, <2>3, <2>4, <2>5 DEF Attempt
<1> QED
  BY <1>1, <1>2, <1>3

LEMMA MarksStart ==
    ASSUME Batch!BatchInit
    PROVE  Disclosed /\ Justified /\ Agreed
BY DEF Batch!BatchInit, Disclosed, Justified, Agreed, Ended, Batch!ModifiedViewIsMarked,
       Batch!DirtyAfterIsTheMark, Batch!Done

\* What the invariants say of a request that is done.
LEMMA ToldIsHonest ==
    ASSUME BatchInv
    PROVE  Batch!OutcomeIsHonest
<1> SUFFICES ASSUME at = "done" PROVE Batch!OutcomeIsHonest
  BY DEF Batch!OutcomeIsHonest, Batch!Done
<1>1. Told /\ Batch!TypeOK /\ DOMAIN rows = DOMAIN batch
  BY DEF BatchInv, Ended, Batch!TypeOK, Batch!Ops
<1>2. result.kind = "reply" /\ imported => (preview => ~result.success) /\ (result.rolledBack = "yes" => result.kept)
  BY <1>1 DEF Told
<1>3. Batch!ExitCode(result, rows) = 0 => result.kind = "reply" /\ result.success
                                         /\ \A i \in DOMAIN batch : rows[i] \notin Batch!FailedStatuses
  BY <1>1 DEF Told, Batch!ExitCode, Batch!AnyRow, Batch!TypeOK, Batch!Results
<1> QED
  BY <1>1, <1>2, <1>3 DEF Batch!OutcomeIsHonest, Told, Batch!Ops

-----------------------------------------------------------------------------
(* A Go rename: the candidates are taken in order, the rollback goes back.   *)

LEMMA LeastNumber ==
    ASSUME NEW T, T \subseteq Nat, T # {}
    PROVE  \E x \in T : \A y \in T : x <= y
<1>1. \E x \in T : \A y \in T : ~ (<<y, x>> \in OpToRel(<, Nat))
  BY NatLessThanWellFounded, WFMin
<1>2. PICK x \in T : \A y \in T : ~ (<<y, x>> \in OpToRel(<, Nat))
  BY <1>1
<1>3. ASSUME NEW y \in T PROVE x <= y
  <2>1. x \in Nat /\ y \in Nat
    OBVIOUS
  <2>2. ~ (<<y, x>> \in OpToRel(<, Nat))
    BY <1>2
  <2>3. ~ (y < x)
    BY <2>1, <2>2 DEF OpToRel
  <2> QED
    BY <2>1, <2>3
<1> QED
  BY <1>3

LEMMA FunctionsAre == Go!Functions = 1..NFunctions /\ NFunctions \in Nat /\ ChunkSize \in Nat \ {0}
BY MutationsAssumption DEF Go!GoConstants, Go!Functions

LEMMA LowestIs ==
    ASSUME NEW S, S \subseteq Go!Functions, S # {}
    PROVE  Go!Lowest(S) \in S
<1>1. S \subseteq Nat
  BY FunctionsAre
<1>2. \E f \in S : \A g \in S : f <= g
  BY <1>1, LeastNumber
<1> QED
  BY <1>2 DEF Go!Lowest

LEMMA HighestIs ==
    ASSUME NEW S, S \subseteq Go!Functions, S # {}
    PROVE  Go!Highest(S) \in S
<1> DEFINE T == {NFunctions - f : f \in S}
<1>1. T \subseteq Nat
  BY FunctionsAre
<1>2. T # {}
  <2>1. PICK f : f \in S
    OBVIOUS
  <2>2. NFunctions - f \in T
    BY <2>1
  <2> QED
    BY <2>2
<1>3. PICK x \in T : \A y \in T : x <= y
  BY <1>1, <1>2, LeastNumber
<1>4. PICK f \in S : x = NFunctions - f
  OBVIOUS
<1>5. \A g \in S : f >= g
  <2> TAKE g \in S
  <2>1. NFunctions - f \in T /\ NFunctions - g \in T /\ NFunctions - f <= NFunctions - g
    BY <1>3, <1>4
  <2>2. f \in Nat /\ g \in Nat
    BY FunctionsAre
  <2> QED
    BY <2>1, <2>2, FunctionsAre
<1> QED
  BY <1>5 DEF Go!Highest

LEMMA GoStart ==
    ASSUME Go!GoInit
    PROVE  GoInv /\ Go!RolledBackNamesAreBack /\ Go!LeftNamesAreMarked
<1>0. 0 \in 0..ChunkSize
  BY FunctionsAre
<1>1. Go!GoTypeOK
  BY <1>0 DEF Go!GoInit, Go!GoTypeOK, Go!Names, Go!Auto
<1>2. Go!Applied = {} /\ at = "goSelect" /\ name = original /\ original \in [Go!Functions -> {"sub", "user", "go"}]
  BY DEF Go!GoInit, Go!Applied
<1>3. Names
  BY <1>2 DEF Names, Go!GoInit
<1>4. Renaming /\ RollingBack
  BY <1>2 DEF Renaming, RollingBack, Go!GoInit, Go!RollbackPhases
<1> QED
  BY <1>1, <1>2, <1>3, <1>4 DEF GoInv, InGo, Go!MarkHasReason, Go!GoDone, Go!RolledBackNamesAreBack, Go!LeftNamesAreMarked

\* A step that does not end the rename.
LEMMA GoesOn ==
    ASSUME Go!GoTypeOK', at' \in InGo, Names', Renaming', RollingBack'
    PROVE  GoInv' /\ Go!RolledBackNamesAreBack' /\ Go!LeftNamesAreMarked'
BY DEF GoInv, InGo, Go!RollbackPhases, Go!MarkHasReason, Go!GoDone, Go!RolledBackNamesAreBack, Go!LeftNamesAreMarked

LEMMA SelectStep ==
    ASSUME GoInv, Go!GoSelect, todo' # {}
    PROVE  GoInv' /\ Go!RolledBackNamesAreBack' /\ Go!LeftNamesAreMarked'
<1>1. /\ at = "goSelect" /\ at' = "goChunk" /\ todo' = {f \in Go!Functions : name[f] = "sub"}
      /\ UNCHANGED <<result, marked, name, inChunk, before, verified, pending, clean, cancelled, original, edited>>
      /\ Go!GoTypeOK /\ Names /\ Renaming
  BY DEF Go!GoSelect, GoInv
<1>2. name = original /\ edited = {} /\ ~marked /\ result = Go!NoResult
  BY <1>1 DEF Renaming, InGo
<1>3. Go!Applied' = Go!Applied
  BY <1>1 DEF Go!Applied
<1>4. Go!GoTypeOK'
  BY <1>1 DEF Go!GoTypeOK
<1>5. todo' \cap Go!Applied = {}
  <2>1. Go!Applied = verified /\ \A f \in verified \ edited : name[f] = "go"
    BY <1>1 DEF Renaming
  <2> QED
    BY <1>1, <1>2, <2>1
<1>6. Names'
  BY <1>1, <1>2, <1>3, <1>5 DEF Names
<1>7. Renaming' /\ RollingBack'
  BY <1>1, <1>2, <1>3 DEF Renaming, RollingBack, Go!RollbackPhases
<1> QED
  BY <1>1, <1>4, <1>6, <1>7, GoesOn DEF InGo

\* A chunk begins, or a rollback does.
LEMMA BeginStep ==
    ASSUME GoInv, Go!BeginChunk \/ Go!GoCancelled \/ Go!EndPreview
    PROVE  GoInv' /\ Go!RolledBackNamesAreBack' /\ Go!LeftNamesAreMarked'
<1>1. /\ at = "goChunk" /\ at' \in {"goApply", "goCancel", "goPreview"}
      /\ UNCHANGED <<result, marked, name, todo, before, verified, cancelled, original, edited>>
      /\ at' = "goApply" => todo # {} /\ inChunk' = 0 /\ UNCHANGED <<pending, clean>>
      /\ at' # "goApply" => pending' = Go!Applied /\ clean' = TRUE /\ inChunk' = inChunk
      /\ at' = "goCancel" => cancelled
      /\ Go!GoTypeOK /\ Names /\ Renaming
  BY DEF Go!BeginChunk, Go!GoCancelled, Go!EndPreview, Go!BeginRollback, GoInv
<1>2. Go!Applied' = Go!Applied /\ Go!Applied \subseteq Go!Functions
  BY <1>1 DEF Go!Applied
<1>0. 0 \in 0..ChunkSize /\ 0 < ChunkSize
  BY FunctionsAre
<1>3. Go!GoTypeOK'
  BY <1>0, <1>1, <1>2 DEF Go!GoTypeOK
<1>4. Names'
  BY <1>1, <1>2 DEF Names
<1>5. Renaming'
  <2>1. Go!Applied = verified /\ clean /\ ~marked /\ result = Go!NoResult
        /\ \A f \in verified \ edited : name[f] = "go"
    BY <1>1 DEF Renaming, InGo
  <2>2. CASE at' = "goApply"
    <3>1. inChunk' < ChunkSize /\ todo' # {} /\ clean'
      BY <1>0, <1>1, <2>1, <2>2
    <3> QED
      BY <1>1, <1>2, <2>1, <2>2, <3>1 DEF Renaming
  <2>3. CASE at' # "goApply"
    BY <1>1, <2>1, <2>3 DEF Renaming
  <2> QED
    BY <2>2, <2>3
<1>6. RollingBack'
  BY <1>1, <1>2 DEF RollingBack, Go!RollbackPhases
<1> QED
  BY <1>1, <1>3, <1>4, <1>5, <1>6, GoesOn DEF InGo, Go!RollbackPhases

\* Where a chunk takes its next candidate.
LEMMA CandidateIs ==
    ASSUME GoInv, at = "goApply"
    PROVE  /\ Go!Candidate \in todo /\ Go!Candidate \in Go!Functions /\ Go!Candidate \notin Go!Applied
           /\ Go!GoTypeOK /\ Names /\ Renaming /\ inChunk < ChunkSize /\ inChunk \in Nat /\ Go!Applied = verified
           /\ original[Go!Candidate] = "sub"
           /\ \/ name[Go!Candidate] = "sub"
              \/ Go!Candidate \in edited /\ name[Go!Candidate] \in {"user", "gone", "nullsub"}
<1>1. Go!GoTypeOK /\ Names /\ Renaming
  BY DEF GoInv
<1>2. Go!Candidate \in todo
  BY <1>1, LowestIs DEF Go!Candidate, Renaming, Go!GoTypeOK
<1>3. Go!Candidate \in Go!Functions /\ inChunk \in Nat
  BY <1>1, <1>2, FunctionsAre DEF Go!GoTypeOK
<1>4. Go!Candidate \notin Go!Applied /\ original[Go!Candidate] = "sub"
  BY <1>1, <1>2 DEF Names
<1> QED
  BY <1>1, <1>2, <1>3, <1>4 DEF Names, Renaming

LEMMA ChunkStep ==
    ASSUME GoInv, at = "goApply", Go!LeaveName \/ Go!SetName
    PROVE  GoInv' /\ Go!RolledBackNamesAreBack' /\ Go!LeftNamesAreMarked'
<1> DEFINE c == Go!Candidate
<1>1. /\ todo' = todo \ {c} /\ inChunk' = inChunk + 1 /\ at' \in {"goChunk", "goApply"}
      /\ at' = "goApply" => inChunk' # ChunkSize /\ todo' # {}
      /\ UNCHANGED <<result, marked, pending, clean, cancelled, original, edited>>
  BY DEF Go!LeaveName, Go!SetName, Go!NextCandidate
<1>2. inChunk' \in 0..ChunkSize /\ (at' = "goApply" => inChunk' < ChunkSize)
  BY <1>1, CandidateIs, FunctionsAre
<1>3. CASE Go!LeaveName
  <2>1. UNCHANGED <<name, before, verified>>
    BY <1>3 DEF Go!LeaveName
  <2>2. Go!Applied' = Go!Applied
    BY <2>1 DEF Go!Applied
  <2>3. Go!GoTypeOK'
    BY <1>1, <1>2, <2>1, CandidateIs DEF Go!GoTypeOK
  <2>4. Names'
    BY <1>1, <2>1, <2>2, CandidateIs DEF Names
  <2>5. Renaming' /\ RollingBack'
    BY <1>1, <1>2, <2>1, <2>2, CandidateIs DEF Renaming, RollingBack, InGo, Go!RollbackPhases
  <2> QED
    BY <1>1, <2>3, <2>4, <2>5, GoesOn DEF InGo
<1>4. CASE Go!SetName
  <2>1. /\ before' = [before EXCEPT ![c] = name[c]] /\ name' = [name EXCEPT ![c] = "go"]
        /\ verified' = verified \cup {c} /\ name[c] \in {"sub", "nullsub"}
    BY <1>4 DEF Go!SetName, Go!Auto
  <2>2. Go!GoTypeOK'
    BY <1>1, <1>2, <2>1, CandidateIs DEF Go!GoTypeOK, Go!Names, Go!Auto
  <2>3. Go!Applied' = Go!Applied \cup {c}
    BY <2>1, CandidateIs DEF Go!Applied, Go!GoTypeOK
  <2>4. Names'
    BY <1>1, <2>1, <2>3, CandidateIs DEF Names, Go!GoTypeOK
  <2>5. Renaming' /\ RollingBack'
    BY <1>1, <1>2, <2>1, <2>3, CandidateIs DEF Renaming, RollingBack, InGo, Go!RollbackPhases, Go!GoTypeOK
  <2> QED
    BY <1>1, <2>2, <2>4, <2>5, GoesOn DEF InGo
<1> QED
  BY <1>3, <1>4

LEMMA FailStep ==
    ASSUME GoInv, at = "goApply", Go!SetNameFails
    PROVE  GoInv' /\ Go!RolledBackNamesAreBack' /\ Go!LeftNamesAreMarked'
<1> DEFINE c == Go!Candidate
<1>1. /\ at' = "goFailed" /\ clean' = TRUE
      /\ UNCHANGED <<result, marked, todo, inChunk, verified, cancelled, original, edited>>
  BY DEF Go!SetNameFails
<1>2. CASE UNCHANGED <<name, before>> /\ pending' = Go!Applied
  <2>1. Go!Applied' = Go!Applied /\ Go!Applied \subseteq Go!Functions
    BY <1>2 DEF Go!Applied
  <2>2. Go!GoTypeOK'
    BY <1>1, <1>2, <2>1, CandidateIs DEF Go!GoTypeOK
  <2>3. Names'
    BY <1>1, <1>2, <2>1, CandidateIs DEF Names
  <2>4. Renaming' /\ RollingBack'
    BY <1>1, <1>2, <2>1, CandidateIs DEF Renaming, RollingBack, InGo, Go!RollbackPhases
  <2> QED
    BY <1>1, <2>2, <2>3, <2>4, GoesOn DEF InGo, Go!RollbackPhases
<1>3. CASE /\ name[c] \in Go!Auto
           /\ before' = [before EXCEPT ![c] = name[c]]
           /\ \E n \in {name[c], "go", "odd"} : name' = [name EXCEPT ![c] = n]
           /\ pending' = Go!Applied \cup {c}
  <2>1. PICK n \in {name[c], "go", "odd"} : name' = [name EXCEPT ![c] = n]
    BY <1>3
  <2>2. name[c] \in {"sub", "nullsub"}
    BY <1>3 DEF Go!Auto
  <2>3. Go!Applied' = Go!Applied \cup {c} /\ Go!Applied \subseteq Go!Functions
    BY <1>3, <2>2, CandidateIs DEF Go!Applied, Go!GoTypeOK
  <2>4. Go!GoTypeOK'
    BY <1>1, <1>3, <2>1, <2>2, <2>3, CandidateIs DEF Go!GoTypeOK, Go!Names, Go!Auto
  <2>5. Names'
    BY <1>1, <1>3, <2>1, <2>2, <2>3, CandidateIs DEF Names, Go!GoTypeOK
  <2>6. Renaming' /\ RollingBack'
    BY <1>1, <1>3, <2>1, <2>3, CandidateIs DEF Renaming, RollingBack, InGo, Go!RollbackPhases
  <2> QED
    BY <1>1, <2>4, <2>5, <2>6, GoesOn DEF InGo, Go!RollbackPhases
<1> QED
  BY <1>2, <1>3 DEF Go!SetNameFails

\* One name goes back.
LEMMA RestoreStep ==
    ASSUME GoInv, at \in Go!RollbackPhases, pending # {}, Go!RestoreName(Go!Highest(pending))
    PROVE  GoInv' /\ Go!RolledBackNamesAreBack' /\ Go!LeftNamesAreMarked'
<1> DEFINE f == Go!Highest(pending)
<1>1. Go!GoTypeOK /\ Names /\ Renaming /\ RollingBack
  BY DEF GoInv
<1>2. f \in pending /\ f \in Go!Functions /\ f \in Go!Applied
  BY <1>1, HighestIs DEF Go!GoTypeOK, Names
<1>3. /\ pending' = pending \ {f}
      /\ \/ clean' = FALSE /\ name' = name
         \/ clean' = clean /\ name' = [name EXCEPT ![f] = before[f]]
      /\ UNCHANGED <<at, result, marked, todo, inChunk, before, verified, cancelled, original, edited>>
  BY DEF Go!RestoreName
<1>4. Go!Applied' = Go!Applied /\ before[f] \in {"sub", "nullsub"}
  BY <1>1, <1>2, <1>3 DEF Go!Applied, Go!GoTypeOK, Go!Auto
<1>5. Go!GoTypeOK'
  BY <1>1, <1>3, <1>4 DEF Go!GoTypeOK, Go!Names, Go!Auto
<1>6. Names'
  BY <1>1, <1>2, <1>3, <1>4 DEF Names, Go!GoTypeOK, Go!RollbackPhases
<1>7. Renaming'
  BY <1>1, <1>3 DEF Renaming, InGo, Go!RollbackPhases
<1>8. RollingBack'
  <2>1. CASE clean' = FALSE
    BY <1>1, <1>2, <1>3, <1>4, <2>1 DEF RollingBack
  <2>2. CASE clean' = clean /\ name' = [name EXCEPT ![f] = before[f]]
    <3>1. f \notin edited => before[f] = original[f]
      BY <1>1, <1>2, <1>4 DEF Names
    <3>2. name'[f] = before[f] /\ \A g \in Go!Functions \ {f} : name'[g] = name[g]
      BY <1>1, <1>2, <2>2 DEF Go!GoTypeOK
    <3>3. \A g \in Go!Applied \ pending' : g = f \/ g \in Go!Applied \ pending
      BY <1>3
    <3>4. Go!Applied \subseteq Go!Functions
      BY DEF Go!Applied
    <3> QED
      BY <1>1, <1>3, <1>4, <2>2, <3>1, <3>2, <3>3, <3>4 DEF RollingBack
  <2> QED
    BY <1>3, <2>1, <2>2
<1> QED
  BY <1>3, <1>5, <1>6, <1>7, <1>8, GoesOn DEF InGo

\* The user of the GUI, and a cancellation.
LEMMA OutsideStep ==
    ASSUME GoInv, Go!GuiEdit \/ Go!AskCancel
    PROVE  GoInv' /\ Go!RolledBackNamesAreBack' /\ Go!LeftNamesAreMarked'
<1>1. Go!GoTypeOK /\ Names /\ Renaming /\ RollingBack /\ at \in InGo /\ at # "goSelect"
  BY DEF GoInv, Go!GuiEdit, Go!AskCancel
<1>2. /\ UNCHANGED <<at, result, marked, todo, inChunk, before, verified, pending, clean, original>>
      /\ cancelled' \in {cancelled, TRUE}
  BY DEF Go!GuiEdit, Go!AskCancel
<1>3. Go!Applied' = Go!Applied /\ Go!Applied \subseteq Go!Functions
  BY <1>2 DEF Go!Applied
<1>4. CASE Go!AskCancel
  <2>1. UNCHANGED <<name, edited>>
    BY <1>4 DEF Go!AskCancel
  <2>2. Go!GoTypeOK'
    BY <1>1, <1>2, <2>1 DEF Go!GoTypeOK
  <2>3. Names' /\ Renaming' /\ RollingBack'
    BY <1>1, <1>2, <1>3, <1>4, <2>1 DEF Names, Renaming, RollingBack, Go!AskCancel
  <2> QED
    BY <1>1, <1>2, <2>2, <2>3, GoesOn
<1>5. CASE Go!GuiEdit
  <2>1. PICK f \in Go!Functions \ edited, n \in {"user", "gone", "nullsub"} :
           name' = [name EXCEPT ![f] = n] /\ edited' = edited \cup {f}
    BY <1>5 DEF Go!GuiEdit
  <2>2. cancelled' = cancelled
    BY <1>5 DEF Go!GuiEdit
  <2>3. name'[f] = n /\ \A g \in Go!Functions \ {f} : name'[g] = name[g]
    BY <1>1, <2>1 DEF Go!GoTypeOK
  <2>4. Go!GoTypeOK'
    BY <1>1, <1>2, <2>1, <2>2 DEF Go!GoTypeOK, Go!Names, Go!Auto
  <2>5. Names'
    BY <1>1, <1>2, <1>3, <2>1, <2>3 DEF Names
  <2>6. Renaming'
    BY <1>1, <1>2, <1>3, <2>1, <2>3 DEF Renaming, Go!GoTypeOK
  <2>7. RollingBack'
    <3>1. \A g \in Go!Applied \ pending : name'[g] \in {n, name[g]} /\ (g \notin edited' => name'[g] = name[g])
      BY <1>3, <2>1, <2>3
    <3> QED
      BY <1>1, <1>2, <1>3, <2>1, <2>2, <3>1 DEF RollingBack
  <2> QED
    BY <1>1, <1>2, <2>4, <2>5, <2>6, <2>7, GoesOn
<1> QED
  BY <1>4, <1>5

\* A rename that has ended: the reply says dirty exactly where the view is marked.
LEMMA GoOver ==
    ASSUME GoInv, at \in InGo, at' = "done",
           UNCHANGED <<name, inChunk, before, verified, pending, clean, cancelled, original, edited>>,
           todo' \in {todo, {}}, Go!MarkHasReason', result'.kind = "reply" => (Go!GoDirtyAfter <=> marked)'
    PROVE  GoInv'
<1>1. Go!GoTypeOK /\ Names /\ Go!Applied' = Go!Applied
  BY DEF GoInv, Go!Applied
<1>2. Go!GoTypeOK'
  BY <1>1 DEF Go!GoTypeOK
<1>3. Names'
  BY <1>1 DEF Names
<1>4. Renaming' /\ RollingBack'
  BY DEF Renaming, RollingBack, InGo, Go!RollbackPhases
<1> QED
  BY <1>2, <1>3, <1>4 DEF GoInv

LEMMA GoErrorStep ==
    ASSUME GoInv, at \in InGo, NEW status \in {"refused", "raised"}, Go!GoError(status),
           UNCHANGED <<preview, marked, Go!goOwnVars>>
    PROVE  GoInv' /\ result'.kind = "error" /\ result'.rolledBack = "absent" /\ ~marked' /\ name' = name
           /\ at' = "done"
<1>1. at' = "done" /\ IsError(result', status, FALSE)
  BY RaisedIs DEF Go!GoError, Go!Raised, Batch!Raised, Go!NoResult, Batch!NoResult
<1>2. ~marked'
  BY DEF GoInv, Renaming
<1>3. UNCHANGED <<name, todo, inChunk, before, verified, pending, clean, cancelled, original, edited>>
  BY DEF Go!goOwnVars
<1> QED
  BY <1>1, <1>2, <1>3, GoOver DEF IsError, Go!MarkHasReason

LEMMA GoReplyIs ==
    ASSUME NEW committed \in BOOLEAN, NEW rolledBack \in {"absent", "yes", "no"}, NEW success \in BOOLEAN,
           preview \in BOOLEAN, Go!GoReply(committed, rolledBack, success)
    PROVE  /\ at' = "done" /\ result'.kind = "reply"
           /\ result'.committed = committed /\ result'.rolledBack = rolledBack
<1>1. result' = Batch!Reply(preview, committed, rolledBack, success, FALSE) /\ at' = "done"
  BY DEF Go!GoReply, Go!Reply, Batch!Reply, Go!NoResult, Batch!NoResult
<1>2. IsReply(Batch!Reply(preview, committed, rolledBack, success, FALSE),
              preview, committed, rolledBack, success, FALSE)
  BY ReplyIs
<1>3. IsReply(result', preview, committed, rolledBack, success, FALSE)
  BY <1>1, <1>2
<1> QED
  BY <1>1, <1>3 DEF IsReply

\* Before anything was renamed.
LEMMA NothingToDoStep ==
    ASSUME GoInv, preview \in BOOLEAN, Go!GoRefuse \/ (Go!GoSelect /\ todo' = {})
    PROVE  GoInv' /\ Go!RolledBackNamesAreBack' /\ Go!LeftNamesAreMarked'
<1>1. at = "goSelect" /\ at \in InGo /\ name = original /\ edited = {} /\ ~marked
  BY DEF Go!GoRefuse, Go!GoSelect, GoInv, Renaming, InGo
<1>2. CASE Go!GoRefuse
  <2>1. GoInv' /\ name' = name
    BY <1>1, <1>2, GoErrorStep DEF Go!GoRefuse
  <2>2. original' = original
    BY <1>2 DEF Go!GoRefuse, Go!goOwnVars
  <2> QED
    BY <1>1, <2>1, <2>2 DEF Go!RolledBackNamesAreBack, Go!LeftNamesAreMarked, Go!Left
<1>3. CASE Go!GoSelect /\ todo' = {}
  <2>1. Go!GoReply(FALSE, "absent", TRUE)
    BY <1>3 DEF Go!GoSelect
  <2>2. at' = "done" /\ result'.kind = "reply" /\ ~result'.committed /\ result'.rolledBack = "absent"
    BY <2>1, GoReplyIs
  <2>3. UNCHANGED <<marked, name, inChunk, before, verified, pending, clean, cancelled, original, edited>>
    BY <1>3 DEF Go!GoSelect
  <2>4. GoInv'
    BY <1>1, <1>3, <2>2, <2>3, GoOver DEF Go!MarkHasReason, Go!GoDirtyAfter
  <2> QED
    BY <1>1, <2>2, <2>3, <2>4 DEF Go!RolledBackNamesAreBack, Go!LeftNamesAreMarked, Go!Left
<1> QED
  BY <1>2, <1>3

\* Every name was given, and the user may have taken some of them away.
LEMMA CommitNamesStep ==
    ASSUME GoInv, preview \in BOOLEAN, Go!CommitNames
    PROVE  GoInv' /\ Go!RolledBackNamesAreBack' /\ Go!LeftNamesAreMarked'
<1>1. /\ at = "goChunk" /\ Go!GoReply(TRUE, "absent", TRUE) /\ marked' = (marked \/ verified # {})
      /\ UNCHANGED <<name, todo, inChunk, before, verified, pending, clean, cancelled, original, edited>>
  BY DEF Go!CommitNames, Go!goOwnVars
<1>2. at' = "done" /\ result'.kind = "reply" /\ result'.committed /\ result'.rolledBack = "absent"
  BY <1>1, GoReplyIs
<1>3. /\ Names /\ Go!Applied = verified /\ ~marked /\ at \in InGo
      /\ \A f \in verified \ edited : name[f] = "go"
  BY <1>1 DEF GoInv, Renaming, InGo
<1>4. marked' <=> verified # {}
  BY <1>1, <1>3
<1>5. Go!Applied \subseteq Go!Functions /\ Go!Applied' = Go!Applied /\ Go!Left' = Go!Left
  BY <1>1 DEF Go!Applied, Go!Left
<1>6. marked' => Go!Left # {} \/ Go!Applied \cap edited # {}
  <2>1. SUFFICES ASSUME NEW f \in verified, f \notin edited PROVE Go!Left # {}
    BY <1>3, <1>4
  <2>2. name[f] = "go" /\ original[f] = "sub" /\ f \in Go!Functions
    BY <1>3, <1>5, <2>1 DEF Names
  <2> QED
    BY <2>2 DEF Go!Left
<1>7. Go!Left # {} => marked'
  <2>1. SUFFICES ASSUME NEW f \in Go!Functions, name[f] \in {"go", "odd"}, name[f] # original[f]
                 PROVE  verified # {}
    BY <1>4 DEF Go!Left
  <2> QED
    BY <1>3, <2>1 DEF Names
<1>8. GoInv'
  BY <1>1, <1>2, <1>3, <1>4, <1>5, <1>6, GoOver DEF Go!MarkHasReason, Go!GoDirtyAfter
<1> QED
  BY <1>2, <1>5, <1>7, <1>8 DEF Go!RolledBackNamesAreBack, Go!LeftNamesAreMarked

\* A rollback has come to its end.
LEMMA EndRollbackStep ==
    ASSUME GoInv, preview \in BOOLEAN, Go!EndRollback
    PROVE  GoInv' /\ Go!RolledBackNamesAreBack' /\ Go!LeftNamesAreMarked'
<1>1. /\ pending = {} /\ at \in Go!RollbackPhases
      /\ UNCHANGED <<name, todo, inChunk, before, verified, pending, clean, cancelled, original, edited>>
      /\ marked' = (marked \/ (Go!Applied # {} /\ ~clean))
  BY DEF Go!EndRollback, Go!MarkRollback, Go!goOwnVars, Go!RollbackPhases
<1>2. Names /\ RollingBack /\ ~marked /\ at \in InGo /\ clean \in BOOLEAN
  BY <1>1 DEF GoInv, Renaming, InGo, Go!GoTypeOK
<1>3. marked' <=> ~clean
  BY <1>1, <1>2 DEF RollingBack
<1>4. Go!YesNo(clean) \in {"yes", "no"} /\ (Go!YesNo(clean) = "yes" <=> clean)
  BY <1>2 DEF Go!YesNo
<1>5. /\ at' = "done"
      /\ \/ result'.kind = "reply" /\ ~result'.committed /\ result'.rolledBack = Go!YesNo(clean)
         \/ result'.kind = "error" /\ result'.rolledBack = "absent" /\ cancelled
  <2>1. CASE at \in {"goPreview", "goFailed"}
    <3>1. \E success \in BOOLEAN : Go!GoReply(FALSE, Go!YesNo(clean), success)
      BY <1>2, <2>1 DEF Go!EndRollback
    <3> QED
      BY <1>4, <3>1, GoReplyIs
  <2>2. CASE at = "goCancel"
    <3>1. at' = "done" /\ result' = Batch!Raised("raised", FALSE)
      BY <2>2 DEF Go!EndRollback, Go!GoError, Go!Raised, Batch!Raised, Go!NoResult, Batch!NoResult
    <3>2. IsError(result', "raised", FALSE)
      BY <3>1, RaisedIs
    <3>3. cancelled
      BY <1>2, <2>2 DEF RollingBack
    <3> QED
      BY <3>1, <3>2, <3>3 DEF IsError
  <2> QED
    BY <1>1, <2>1, <2>2 DEF Go!RollbackPhases
<1>6. clean => \A f \in Go!Functions : name[f] \in {"go", "odd"} \/ f \notin edited => name[f] = original[f]
  <2>1. SUFFICES ASSUME clean, NEW f \in Go!Functions
                 PROVE  name[f] \in {"go", "odd"} \/ f \notin edited => name[f] = original[f]
    OBVIOUS
  <2>2. CASE f \in Go!Applied
    BY <1>1, <1>2, <2>1, <2>2 DEF RollingBack
  <2>3. CASE f \notin Go!Applied
    BY <1>2, <2>1, <2>3 DEF Names
  <2> QED
    BY <2>2, <2>3
<1>7. GoInv'
  BY <1>1, <1>2, <1>3, <1>4, <1>5, GoOver DEF Go!MarkHasReason, Go!GoDirtyAfter
<1>8. Go!RolledBackNamesAreBack'
  BY <1>1, <1>3, <1>4, <1>5, <1>6 DEF Go!RolledBackNamesAreBack
<1>9. Go!LeftNamesAreMarked'
  BY <1>1, <1>3, <1>6 DEF Go!LeftNamesAreMarked, Go!Left
<1> QED
  BY <1>7, <1>8, <1>9

LEMMA GoMayIs == \A f : \A b \in Go!GoMay(f) : b \in BOOLEAN /\ (b => f \in GoFaults)
BY DEF Go!GoMay

\* Every step of a rename keeps the invariant; what is promised of the names needs that
\* no lookup raises, and no setter in a rollback.
LEMMA GoStep ==
    ASSUME GoInv, preview \in BOOLEAN, Go!GoNext
    PROVE  /\ GoInv'
           /\ GoFaults \cap {"lookup", "restoreRaises"} = {} =>
                 Go!RolledBackNamesAreBack' /\ Go!LeftNamesAreMarked'
<1>1. CASE Go!GoRefuse \/ Go!GoSelect
  BY <1>1, NothingToDoStep, SelectStep
<1>2. CASE Go!GoCancelled \/ Go!BeginChunk \/ Go!EndPreview
  BY <1>2, BeginStep
<1>3. CASE Go!ApplyCandidate
  <2>1. PICK raised \in Go!GoMay("lookup") :
           IF raised THEN Go!GoError("raised") /\ UNCHANGED <<preview, marked, Go!goOwnVars>>
                     ELSE Go!LeaveName \/ Go!SetName \/ Go!SetNameFails
    BY <1>3 DEF Go!ApplyCandidate
  <2>2. at = "goApply" /\ at \in InGo
    BY <1>3 DEF Go!ApplyCandidate, InGo
  <2>3. CASE ~raised
    BY <2>1, <2>2, <2>3, ChunkStep, FailStep
  <2>4. CASE raised
    BY <2>1, <2>2, <2>4, GoErrorStep, GoMayIs
  <2> QED
    BY <2>1, <2>3, <2>4, GoMayIs
<1>4. CASE Go!CommitNames
  BY <1>4, CommitNamesStep
<1>5. CASE Go!RollbackStep
  <2>1. PICK raised \in Go!GoMay("restoreRaises") :
           IF raised THEN Go!GoError("raised") /\ UNCHANGED <<preview, marked, Go!goOwnVars>>
                     ELSE Go!RestoreName(Go!Highest(pending))
    BY <1>5 DEF Go!RollbackStep
  <2>2. at \in Go!RollbackPhases /\ at \in InGo /\ pending # {}
    BY <1>5 DEF Go!RollbackStep, InGo
  <2>3. CASE ~raised
    BY <2>1, <2>2, <2>3, RestoreStep
  <2>4. CASE raised
    BY <2>1, <2>2, <2>4, GoErrorStep, GoMayIs
  <2> QED
    BY <2>1, <2>3, <2>4, GoMayIs
<1>6. CASE Go!EndRollback
  BY <1>6, EndRollbackStep
<1>7. CASE Go!GuiEdit \/ Go!AskCancel
  BY <1>7, OutsideStep
<1> QED
  BY <1>1, <1>2, <1>3, <1>4, <1>5, <1>6, <1>7 DEF Go!GoNext

\* No step of a chunk overwrites a name that the user gave.
LEMMA NamesKept ==
    ASSUME GoInv, Go!GoNext
    PROVE  Go!KeepsUserNames
<1>1. Go!GoTypeOK /\ Names
  BY DEF GoInv
<1> SUFFICES ASSUME NEW f \in Go!Functions, name[f] = "user", name'[f] \notin {"user", "gone"}
             PROVE  at \in Go!RollbackPhases /\ f \in Go!Applied
  BY DEF Go!KeepsUserNames
<1>2. CASE Go!ApplyCandidate
  <2>1. PICK raised \in Go!GoMay("lookup") :
           IF raised THEN Go!GoError("raised") /\ UNCHANGED <<preview, marked, Go!goOwnVars>>
                     ELSE Go!LeaveName \/ Go!SetName \/ Go!SetNameFails
    BY <1>2 DEF Go!ApplyCandidate
  <2>2. name' = name \/ (name[Go!Candidate] \in Go!Auto /\ \E n : name' = [name EXCEPT ![Go!Candidate] = n])
    BY <2>1 DEF Go!goOwnVars, Go!LeaveName, Go!SetName, Go!SetNameFails
  <2>3. f # Go!Candidate \/ name[Go!Candidate] \notin Go!Auto
    BY DEF Go!Auto
  <2>4. name'[f] = name[f]
    BY <1>1, <2>2, <2>3 DEF Go!GoTypeOK
  <2> QED
    BY <2>4
<1>3. CASE Go!RollbackStep
  <2>1. PICK raised \in Go!GoMay("restoreRaises") :
           IF raised THEN Go!GoError("raised") /\ UNCHANGED <<preview, marked, Go!goOwnVars>>
                     ELSE Go!RestoreName(Go!Highest(pending))
    BY <1>3 DEF Go!RollbackStep
  <2>2. at \in Go!RollbackPhases /\ Go!Highest(pending) \in Go!Applied
    BY <1>1, <1>3, HighestIs DEF Go!RollbackStep, Go!GoTypeOK, Names
  <2>3. name' = name \/ name' = [name EXCEPT ![Go!Highest(pending)] = before[Go!Highest(pending)]]
    BY <2>1 DEF Go!goOwnVars, Go!RestoreName
  <2>4. f = Go!Highest(pending)
    BY <1>1, <2>3 DEF Go!GoTypeOK
  <2> QED
    BY <2>2, <2>4
<1>4. CASE Go!GuiEdit
  <2>1. PICK g \in Go!Functions :
           \/ name' = [name EXCEPT ![g] = "user"]
           \/ name' = [name EXCEPT ![g] = "gone"]
           \/ name[g] = "sub" /\ name' = [name EXCEPT ![g] = "nullsub"]
    BY <1>4 DEF Go!GuiEdit
  <2> QED
    BY <1>1, <2>1 DEF Go!GoTypeOK
<1>5. CASE Go!GoRefuse \/ Go!GoSelect \/ Go!GoCancelled \/ Go!BeginChunk \/ Go!EndPreview \/ Go!CommitNames
           \/ Go!EndRollback \/ Go!AskCancel
  <2>1. name' = name
    BY <1>5 DEF Go!GoRefuse, Go!GoSelect, Go!GoCancelled, Go!BeginChunk, Go!EndPreview, Go!CommitNames,
          Go!EndRollback, Go!AskCancel, Go!goOwnVars
  <2> QED
    BY <2>1
<1> QED
  BY <1>2, <1>3, <1>4, <1>5 DEF Go!GoNext

-----------------------------------------------------------------------------
(* A request of either kind.                                                 *)

vars == <<shared, batchOwn, goOwn>>

Inv == IF IsGo THEN GoInv /\ preview \in BOOLEAN ELSE BatchInv

LEMMA InvStart == ASSUME Init PROVE Inv
<1>1. CASE Batch!BatchInit
  <2>1. ~IsGo
    BY <1>1 DEF IsGo, Batch!BatchInit
  <2> QED
    BY <1>1, <2>1, BatchStart DEF Inv
<1>2. CASE Go!GoInit /\ Batch!BatchParked
  BY <1>2, GoStart DEF Inv, IsGo, Go!GoInit, Batch!BatchParked
<1> QED
  BY <1>1, <1>2 DEF Init

LEMMA GoPreviewStays == ASSUME Go!GoNext PROVE preview' = preview
BY DEF Go!GoNext, Go!GoRefuse, Go!GoSelect, Go!GoCancelled, Go!BeginChunk, Go!ApplyCandidate, Go!EndPreview,
       Go!CommitNames, Go!RollbackStep, Go!EndRollback, Go!GuiEdit, Go!AskCancel, Go!LeaveName, Go!SetName,
       Go!NextCandidate, Go!SetNameFails, Go!RestoreName

LEMMA InvStep == ASSUME Inv, [Next]_vars PROVE Inv' /\ IsGo' = IsGo
<1>1. CASE ~IsGo /\ Batch!BatchNext
  BY <1>1, BatchStep DEF Inv, IsGo
<1>2. CASE IsGo /\ Go!GoNext /\ UNCHANGED batchOwn
  <2>1. IsGo' = IsGo
    BY <1>2 DEF IsGo, batchOwn
  <2> QED
    BY <1>2, <2>1, GoStep, GoPreviewStays DEF Inv
<1>3. CASE UNCHANGED vars
  <2>1. UNCHANGED <<preview, at, result, marked, request, batch, next, rows, live, pinned, drift, imported,
                    restores, undo, name, todo, inChunk, before, verified, pending, clean, cancelled,
                    original, edited>>
    BY <1>3 DEF vars, shared, batchOwn, goOwn
  <2>2. BatchInv => BatchInv'
    BY <2>1 DEF BatchInv, Batch!TypeOK, Batch!Ops, Pristine, Applying, MakingOne, Told, Batch!Deletes,
          Batch!Untouched, Batch!SnapshotsLocals, Batch!Taken, Batch!Journaled
  <2>3. GoInv => GoInv'
    BY <2>1 DEF GoInv, Go!GoTypeOK, Names, Renaming, RollingBack, Go!Applied, Go!MarkHasReason, Go!GoDone,
          Go!Left, Go!GoDirtyAfter
  <2> QED
    BY <2>1, <2>2, <2>3 DEF Inv, IsGo
<1> QED
  BY <1>1, <1>2, <1>3 DEF Next

\* The steps of the requests keep what each property needs beside the invariant.
LEMMA PromisesStart ==
    ASSUME Init
    PROVE  IF IsGo THEN Go!RolledBackNamesAreBack /\ Go!LeftNamesAreMarked
                   ELSE Disclosed /\ Justified /\ Agreed
<1>1. CASE Batch!BatchInit
  BY <1>1, MarksStart DEF IsGo, Batch!BatchInit
<1>2. CASE Go!GoInit /\ Batch!BatchParked
  BY <1>2, GoStart DEF IsGo, Batch!BatchParked
<1> QED
  BY <1>1, <1>2 DEF Init

\* The rows, the mark, the reply and the view agree at every point of every request,
\* whatever goes wrong: a batch, a standalone create, a Go rename.
THEOREM RequestsKeepTheirBooks == Spec => []Inv
<1>1. Init => Inv
  BY InvStart
<1>2. Inv /\ [Next]_vars => Inv'
  BY InvStep
<1> QED
  BY <1>1, <1>2, PTL DEF Spec, vars

\* What a client is told of a mutation is what happened (_apply_batch,
\* _finalize_import_outcome, _go_rename, cli.py): for batches of any length and renames
\* of any size, whatever fails, except that a Go rename promises nothing about its names
\* when get_function_at or a setter of its rollback raises.
THEOREM MutationOutcomesAreHonest ==
    ASSUME GoFaults \cap {"lookup", "restoreRaises"} = {}
    PROVE  Spec => []OutcomeIsHonest
<1> DEFINE GoNow == IsGo => Go!RolledBackNamesAreBack
<1>1. Init => Inv /\ GoNow
  BY InvStart, PromisesStart
<1>2. Inv /\ GoNow /\ [Next]_vars => (Inv /\ GoNow)'
  <2> SUFFICES ASSUME Inv, GoNow, [Next]_vars PROVE (Inv /\ GoNow)'
    OBVIOUS
  <2>1. Inv' /\ IsGo' = IsGo
    BY InvStep
  <2>2. CASE IsGo /\ Go!GoNext
    BY <2>1, <2>2, GoStep DEF Inv
  <2>3. CASE ~IsGo
    BY <2>1, <2>3
  <2>4. CASE IsGo /\ UNCHANGED vars
    <3>1. UNCHANGED <<at, result, marked, name, original, edited>>
      BY <2>4 DEF vars, shared, goOwn
    <3> QED
      BY <2>1, <2>4, <3>1 DEF Go!RolledBackNamesAreBack, Go!GoDone
  <2> QED
    BY <2>2, <2>3, <2>4 DEF Next
<1>3. Inv /\ GoNow => OutcomeIsHonest
  BY ToldIsHonest DEF Inv, OutcomeIsHonest
<1> QED
  BY <1>1, <1>2, <1>3, PTL DEF Spec, vars

\* A request that leaves something of its own in the view leaves it marked as unsaved, or
\* `bn close` would discard it (bridge._mutation, _function_create, _go_rename).  The
\* faults left out are those that no handler turns into a mark: in the analysis between
\* two creates, in collecting the imports, in a create's rollback, in a Go rename's calls.
THEOREM ModifiedViewsAreMarked ==
    ASSUME Faults \cap {"midAnalysis", "collect", "createRollback"} = {},
           GoFaults \cap {"lookup", "restoreRaises"} = {}
    PROVE  Spec => []ModifiedViewIsMarked
<1> DEFINE Now == IF IsGo THEN Go!LeftNamesAreMarked ELSE Disclosed
<1>1. Init => Inv /\ Now
  BY InvStart, PromisesStart
<1>2. Inv /\ Now /\ [Next]_vars => (Inv /\ Now)'
  <2> SUFFICES ASSUME Inv, Now, [Next]_vars PROVE (Inv /\ Now)'
    OBVIOUS
  <2>1. Inv' /\ IsGo' = IsGo
    BY InvStep
  <2>2. CASE IsGo /\ Go!GoNext
    BY <2>1, <2>2, GoStep DEF Inv
  <2>3. CASE ~IsGo /\ Batch!BatchNext
    BY <2>1, <2>3, DisclosedStep DEF Inv
  <2>4. CASE UNCHANGED vars
    <3>1. UNCHANGED <<at, request, preview, rows, live, pinned, drift, result, marked, name, original>>
      BY <2>4 DEF vars, shared, batchOwn, goOwn
    <3>2. Disclosed => Disclosed'
      BY <3>1 DEF Disclosed, LeftSomething, Batch!CommittedChange, Batch!RollbackLeftState,
            Batch!ResidueLeftState, Batch!ErrorLeftState, Batch!Untouched, Batch!ModifiedViewIsMarked, Batch!Done
    <3>3. Go!LeftNamesAreMarked => Go!LeftNamesAreMarked'
      BY <3>1 DEF Go!LeftNamesAreMarked, Go!Left, Go!GoDone
    <3> QED
      BY <2>1, <3>2, <3>3
  <2> QED
    BY <2>2, <2>3, <2>4 DEF Next
<1>3. Now => ModifiedViewIsMarked
  BY DEF Disclosed, ModifiedViewIsMarked
<1> QED
  BY <1>1, <1>2, <1>3, PTL DEF Spec, vars

\* A view with nothing of the request in it is not marked, but by a deletion, by a
\* rollback that says that it failed, or where the user took the names away; unless the
\* error of collecting the imports takes the place of the reply that says so.
THEOREM CleanViewsAreNotMarked ==
    ASSUME "collect" \notin Faults
    PROVE  Spec => []CleanViewIsNotMarked
<1> DEFINE Now == ~IsGo => Justified
<1>1. Init => Inv /\ Now
  BY InvStart, PromisesStart
<1>2. Inv /\ Now /\ [Next]_vars => (Inv /\ Now)'
  <2> SUFFICES ASSUME Inv, Now, [Next]_vars PROVE (Inv /\ Now)'
    OBVIOUS
  <2>1. Inv' /\ IsGo' = IsGo
    BY InvStep
  <2>2. CASE IsGo
    BY <2>1, <2>2
  <2>3. CASE ~IsGo /\ Batch!BatchNext
    BY <2>1, <2>3, JustifiedStep DEF Inv
  <2>4. CASE ~IsGo /\ UNCHANGED vars
    <3>1. UNCHANGED <<at, batch, live, pinned, drift, result, marked>>
      BY <2>4 DEF vars, shared, batchOwn
    <3> QED
      BY <2>1, <2>4, <3>1 DEF Justified, Excused, Batch!Deletes, Batch!Ops, Batch!Untouched
  <2> QED
    BY <2>2, <2>3, <2>4 DEF Next
<1>3. Inv /\ Now => CleanViewIsNotMarked
  BY DEF Inv, GoInv, Justified, Excused, Ended, CleanViewIsNotMarked, Batch!CleanViewIsNotMarked, Batch!Done
<1> QED
  BY <1>1, <1>2, <1>3, PTL DEF Spec, vars

\* The dirty_after that the CLI works out from a reply is the mark that the bridge has set
\* (formatters._build_mutation_summary), unless a create's rollback fails unmarked.
THEOREM DirtyAfterIsTheBridgesMark ==
    ASSUME "createRollback" \notin Faults
    PROVE  Spec => []DirtyAfterIsTheMark
<1> DEFINE Now == ~IsGo => Agreed
<1>1. Init => Inv /\ Now
  BY InvStart, PromisesStart
<1>2. Inv /\ Now /\ [Next]_vars => (Inv /\ Now)'
  <2> SUFFICES ASSUME Inv, Now, [Next]_vars PROVE (Inv /\ Now)'
    OBVIOUS
  <2>1. Inv' /\ IsGo' = IsGo
    BY InvStep
  <2>2. CASE IsGo
    BY <2>1, <2>2
  <2>3. CASE ~IsGo /\ Batch!BatchNext
    BY <2>1, <2>3, AgreedStep DEF Inv
  <2>4. CASE ~IsGo /\ UNCHANGED vars
    <3>1. UNCHANGED <<at, request, batch, rows, result, marked>>
      BY <2>4 DEF vars, shared, batchOwn
    <3>2. Batch!Deletes' = Batch!Deletes
      BY <3>1 DEF Batch!Deletes, Batch!Ops
    <3> QED
      BY <2>1, <2>4, <3>1, <3>2 DEF Agreed, Deleted, DirtyAfter, Batch!DirtyAfterIsTheMark, Batch!Done
  <2> QED
    BY <2>2, <2>3, <2>4 DEF Next
<1>3. Inv /\ Now => DirtyAfterIsTheMark
  BY DEF Inv, GoInv, Agreed, DirtyAfterIsTheMark, Go!GoDone
<1> QED
  BY <1>1, <1>2, <1>3, PTL DEF Spec, vars

\* A name that the user gave while a Go rename ran is only ever overwritten by a rollback,
\* and only where the bridge had renamed the function first (_go_rename reads each name
\* again before it sets it), whatever fails.
THEOREM GoRenamesSpareUserNames == Spec => UserNamesSurvive
<1>1. Init => Inv
  BY InvStart
<1>2. Inv /\ [Next]_vars => Inv'
  BY InvStep
<1>3. Inv /\ [Next]_vars => [Go!KeepsUserNames]_name
  <2> SUFFICES ASSUME Inv, Next PROVE Go!KeepsUserNames \/ name' = name
    BY DEF vars, goOwn
  <2>1. CASE ~IsGo
    BY <2>1 DEF Next, goOwn
  <2>2. CASE IsGo
    BY <2>2, NamesKept DEF Next, Inv
  <2> QED
    BY <2>1, <2>2
<1> QED
  BY <1>1, <1>2, <1>3, PTL DEF Spec, vars, UserNamesSurvive

=============================================================================
