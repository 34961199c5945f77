------------------------------- MODULE GoRename -------------------------------
(***************************************************************************)
(* `bn go rename` (BinaryNinjaBridge._go_rename): the functions that still *)
(* have an automatic name take the name that .gopclntab gives them, chunk  *)
(* by chunk, under the write gate.  The exclusive lock is held for a chunk *)
(* only, and the user of the GUI takes no lock at all: the user may rename *)
(* or delete a function between any two steps.  The request may also be    *)
(* cancelled while it runs.                                                *)
(***************************************************************************)
EXTENDS Naturals, FiniteSets, MutationReport

CONSTANTS NFunctions,   \* the functions that the recovered table defines
          ChunkSize,    \* GO_RENAME_CHUNK_SIZE
          GuiEdits,     \* bound on the edits that the user makes
          GoFaults      \* what may go wrong, see AllGoFaults

AllGoFaults == {"set", "restore", "lookup", "restoreRaises"}

GoConstants == /\ NFunctions \in Nat /\ GuiEdits \in Nat
               /\ ChunkSize \in Nat \ {0}
               /\ GoFaults \subseteq AllGoFaults

VARIABLES
    preview,
    at,          \* where the request stands
    result,
    marked,      \* whether the ledger says that the view has unsaved work
    name,        \* the name of each function, or "gone"
    todo,        \* the candidates that the chunks have not reached
    inChunk,     \* how many candidates of this chunk are done
    before,      \* the applied candidates' names before the rename, or "none"
    verified,    \* the candidates whose new name was read back
    pending,     \* the applied candidates that the rollback has not reached
    clean,       \* rolled_back, as far as the rollback has come
    cancelled,   \* the client asked for cancellation
    original,    \* history: the names before the request
    edited       \* the functions that the user edited

goOwnVars == <<name, todo, inChunk, before, verified, pending, clean, cancelled,
              original, edited>>
goVars == <<preview, at, result, marked, goOwnVars>>

Functions == 1..NFunctions

\* _is_go_rename_auto_name: sub_<address>, or nullsub_<n>.
Auto == {"sub", "nullsub"}
Names == Auto \union {"go", "odd", "user", "gone"}

Applied == {f \in Functions : before[f] # "none"}

Lowest(S) == CHOOSE f \in S : \A g \in S : f <= g
Highest(S) == CHOOSE f \in S : \A g \in S : f >= g

GoParked == /\ name = [f \in Functions |-> "sub"]
            /\ todo = {} /\ inChunk = 0
            /\ before = [f \in Functions |-> "none"]
            /\ verified = {} /\ pending = {} /\ clean = TRUE
            /\ cancelled = FALSE /\ original = name /\ edited = {}

GoInit == /\ preview \in BOOLEAN
          /\ at = "goSelect"
          /\ result = NoResult
          /\ marked = FALSE
          /\ name \in [Functions -> {"sub", "user", "go"}]
          /\ todo = {} /\ inChunk = 0
          /\ before = [f \in Functions |-> "none"]
          /\ verified = {} /\ pending = {} /\ clean = TRUE
          /\ cancelled = FALSE /\ original = name /\ edited = {}

GoReply(committed, rolledBack, success) ==
    /\ result' = Reply(preview, committed, rolledBack, success, FALSE)
    /\ at' = "done"

GoError(status) == result' = Raised(status, FALSE) /\ at' = "done"

-----------------------------------------------------------------------------
\* A quick view, or a table that cannot be read.
GoRefuse ==
    /\ at = "goSelect"
    /\ \E status \in {"refused", "raised"} : GoError(status)
    /\ UNCHANGED <<preview, marked, goOwnVars>>

GoSelect ==
    /\ at = "goSelect"
    /\ todo' = {f \in Functions : name[f] = "sub"}
    /\ IF todo' = {} THEN GoReply(FALSE, "absent", TRUE)
                     ELSE at' = "goChunk" /\ UNCHANGED result
    /\ UNCHANGED <<preview, marked, name, inChunk, before, verified, pending,
                   clean, cancelled, original, edited>>

BeginRollback(phase) == /\ at' = phase
                        /\ pending' = Applied
                        /\ clean' = TRUE

\* The cancellation is looked at between two chunks.
GoCancelled ==
    /\ at = "goChunk" /\ todo # {}
    /\ cancelled
    /\ BeginRollback("goCancel")
    /\ UNCHANGED <<preview, result, marked, name, todo, inChunk, before, verified,
                   cancelled, original, edited>>

BeginChunk ==
    /\ at = "goChunk" /\ todo # {}
    /\ ~cancelled
    /\ at' = "goApply"
    /\ inChunk' = 0
    /\ UNCHANGED <<preview, result, marked, name, todo, before, verified, pending,
                   clean, cancelled, original, edited>>

\* The next candidate of the chunk; its name is read again before it is set.
Candidate == Lowest(todo)

NextCandidate ==
    /\ todo' = todo \ {Candidate}
    /\ inChunk' = inChunk + 1
    /\ at' = IF inChunk' = ChunkSize \/ todo' = {} THEN "goChunk" ELSE "goApply"
    /\ UNCHANGED <<preview, result, marked, pending, clean, cancelled, original, edited>>

LeaveName ==
    /\ name[Candidate] \in {"go", "odd", "user"}
    /\ NextCandidate
    /\ UNCHANGED <<name, before, verified>>

SetNameStale ==
    /\ name[Candidate] \in Auto \union {"user"}
    /\ before' = [before EXCEPT ![Candidate] = "sub"]
    /\ name' = [name EXCEPT ![Candidate] = "go"]
    /\ verified' = verified \union {Candidate}
    /\ NextCandidate

SetName ==
    /\ name[Candidate] \in Auto
    /\ before' = [before EXCEPT ![Candidate] = name[Candidate]]
    /\ name' = [name EXCEPT ![Candidate] = "go"]
    /\ verified' = verified \union {Candidate}
    /\ NextCandidate

\* The function is gone, the setter raises, or another name is read back.
SetNameFails ==
    /\ \/ /\ name[Candidate] = "gone"
          /\ UNCHANGED <<name, before>>
          /\ pending' = Applied
       \/ /\ name[Candidate] \in Auto
          /\ "set" \in GoFaults
          /\ before' = [before EXCEPT ![Candidate] = name[Candidate]]
          /\ \E n \in {name[Candidate], "go", "odd"} : name' = [name EXCEPT ![Candidate] = n]
          /\ pending' = Applied \union {Candidate}
    /\ at' = "goFailed"
    /\ clean' = TRUE
    /\ UNCHANGED <<preview, result, marked, todo, inChunk, verified, cancelled, original, edited>>

GoMay(fault) == {FALSE} \union {fault \in GoFaults}

\* get_function_at may raise: nothing catches it.
ApplyCandidate ==
    /\ at = "goApply"
    /\ \E raised \in GoMay("lookup") :
          IF raised THEN GoError("raised") /\ UNCHANGED <<preview, marked, goOwnVars>>
                    ELSE LeaveName \/ SetName \/ SetNameFails

EndPreview ==
    /\ at = "goChunk" /\ todo = {} /\ preview
    /\ BeginRollback("goPreview")
    /\ UNCHANGED <<preview, result, marked, name, todo, inChunk, before, verified,
                   cancelled, original, edited>>

CommitNames ==
    /\ at = "goChunk" /\ todo = {} /\ ~preview
    /\ GoReply(TRUE, "absent", TRUE)
    /\ marked' = (marked \/ verified # {})
    /\ UNCHANGED <<preview, goOwnVars>>

-----------------------------------------------------------------------------
(***************************************************************************)
(* _rollback_go_renames: the applied candidates in reverse.  A name that   *)
(* is not the one before the rename is set to it, whoever gave it.         *)
(***************************************************************************)

RollbackPhases == {"goPreview", "goFailed", "goCancel"}

RestoreName(f) ==
    /\ pending' = pending \ {f}
    /\ \/ /\ name[f] = "gone"
          /\ clean' = FALSE
          /\ UNCHANGED name
       \/ /\ name[f] # "gone"
          /\ name' = [name EXCEPT ![f] = before[f]]
          /\ UNCHANGED clean
       \/ /\ name[f] \notin {"gone", before[f]}
          /\ "restore" \in GoFaults
          /\ clean' = FALSE
          /\ UNCHANGED name
    /\ UNCHANGED <<preview, at, result, marked, todo, inChunk, before, verified,
                   cancelled, original, edited>>

\* The setter may raise here too, and nothing catches it.
RollbackStep ==
    /\ at \in RollbackPhases /\ pending # {}
    /\ \E raised \in GoMay("restoreRaises") :
          IF raised THEN GoError("raised") /\ UNCHANGED <<preview, marked, goOwnVars>>
                    ELSE RestoreName(Highest(pending))

MarkRollback == marked' = (marked \/ (Applied # {} /\ ~clean))

EndRollback ==
    /\ pending = {}
    /\ \/ at = "goPreview" /\ GoReply(FALSE, YesNo(clean), clean)
       \/ at = "goFailed" /\ GoReply(FALSE, YesNo(clean), FALSE)
       \/ at = "goCancel" /\ GoError("raised")
    /\ MarkRollback
    /\ UNCHANGED <<preview, goOwnVars>>

-----------------------------------------------------------------------------
\* The user renames or deletes a function, or analysis finds it to be empty.
GuiEdit ==
    /\ at \notin {"goSelect", "done"}
    /\ Cardinality(edited) < GuiEdits
    /\ \E f \in Functions \ edited :
          /\ \/ name' = [name EXCEPT ![f] = "user"]
             \/ name' = [name EXCEPT ![f] = "gone"]
             \/ name[f] = "sub" /\ name' = [name EXCEPT ![f] = "nullsub"]
          /\ edited' = edited \union {f}
    /\ UNCHANGED <<preview, at, result, marked, todo, inChunk, before, verified,
                   pending, clean, cancelled, original>>

AskCancel ==
    /\ at \notin {"goSelect", "done"}
    /\ ~cancelled
    /\ cancelled' = TRUE
    /\ UNCHANGED <<preview, at, result, marked, name, todo, inChunk, before, verified,
                   pending, clean, original, edited>>

GoNext == \/ GoRefuse \/ GoSelect \/ GoCancelled \/ BeginChunk
          \/ ApplyCandidate \/ EndPreview \/ CommitNames
          \/ RollbackStep \/ EndRollback
          \/ GuiEdit \/ AskCancel

GoSpec == GoInit /\ [][GoNext]_goVars

-----------------------------------------------------------------------------
GoDone == at = "done"

GoTypeOK ==
    /\ name \in [Functions -> Names]
    /\ before \in [Functions -> Auto \union {"none"}]
    /\ todo \subseteq Functions /\ verified \subseteq Functions
    /\ pending \subseteq Functions /\ edited \subseteq Functions
    /\ inChunk \in 0..ChunkSize
    /\ clean \in BOOLEAN /\ cancelled \in BOOLEAN

\* The names that the bridge gave and that are still there.
Left == {f \in Functions : name[f] \in {"go", "odd"} /\ name[f] # original[f]}

\* The bridge's own counters: _go_rename_summary.
GoDirtyAfter == \/ result.committed /\ verified # {}
                \/ ~result.committed /\ result.rolledBack = "no"

\* A name that a rename left in the view is marked as unsaved work.
LeftNamesAreMarked == GoDone /\ Left # {} => marked

\* A view is marked for names that were given, or for a rollback that says it failed.
MarkHasReason ==
    GoDone /\ marked => \/ Left # {}
                        \/ Applied \intersect edited # {}
                        \/ result.rolledBack = "no"
                        \/ cancelled /\ ~clean

\* A rollback that is reported clean, and the silent one of a cancelled request,
\* put back the name of every function that the user left alone.
RolledBackNamesAreBack ==
    (GoDone /\ (result.rolledBack = "yes" \/ (result.kind = "error" /\ ~marked))) =>
        \A f \in Functions \ edited : name[f] = original[f]

\* The names of the user survive: a chunk checks each name again and leaves alone
\* what the user renamed since the candidates were chosen.  Only a rollback may
\* overwrite a name, one that the user gave after the bridge's own.
KeepsUserNames ==
    \A f \in Functions :
       name[f] = "user" /\ name'[f] \notin {"user", "gone"}
           => at \in RollbackPhases /\ f \in Applied

UserNamesSurvive == [][KeepsUserNames]_goVars
===============================================================================
