--------------------------- MODULE TargetLedger ----------------------------
(* The bridge's per-view ledger (TargetManager, bridge.py): which open view  *)
(* has which stable id, and which views hold committed work that no database *)
(* has yet.  The ledger is rebuilt by refresh() from a snapshot of the open  *)
(* views that is taken BEFORE the manager's lock, so requests that refresh   *)
(* interleave with others that open, change, save and close views; a GUI     *)
(* user opens and closes tabs meanwhile, a UI walk can miss tabs, and        *)
(* "Restart Bridge" hands the ledger to a second manager while requests of   *)
(* the first are still in flight.                                            *)
(*                                                                           *)
(* Requests hold the bridge's locks as BridgeLocks has it, with ViewAccess   *)
(* in place of the lock's mechanics.                                         *)
EXTENDS Naturals, FiniteSets

CONSTANTS Views,          \* a view is a handle: reopening a file is a new one
          Requests,       \* request threads
          Nothing,
          Surprises,      \* what the environment may do to a mark, see below
          MaxId           \* bound: ids a manager hands out

\* Five events the code does not defend a marker against.  A run says which of
\* them can happen; everything else always can.
\*   "focus"      the user changes tab under a mutation that named "active"
\*   "lossyMark"  the UI cuts short the walk that looks for the view to mark
\*   "stalePin", "staleRegistry"
\*                a refresh that holds no lock, of pin_destructive_target or of
\*                _write_registry, forgets a view that was opened after its walk
\*                and is being changed, or has been (OnTime)
\*   "lateView"   a request of the old bridge works on a view the new bridge
\*                has never listed
AllSurprises == {"focus", "lossyMark", "stalePin", "staleRegistry", "lateView"}

ASSUME LedgerAssumption ==
    /\ IsFiniteSet(Views)
    /\ Nothing \notin Views \cup Requests
    /\ Views \cap Nat = {}
    /\ Surprises \subseteq AllSurprises
    /\ MaxId \in Nat

Managers == {1, 2}  \* the bridge's, and its GUI successor's

VARIABLES
    open,       \* views open in Binary Ninja
    opened,     \* views that ever were
    unsaved,    \* views with committed work that no database has: the truth
    current,    \* the manager that answers new requests
    ids,        \* _ids_by_object of each manager; 0 stands for no id
    nextId,     \* _next_id
    dirty,      \* _dirty_view_ids
    op, at,     \* what a request does and where it is
    manager,    \* the manager of the bridge that admitted it
    selector, target,
    snap,       \* the snapshot its refresh() works from
    gate, exclusive, shared  \* who holds the bridge's locks

ledger == <<ids, nextId, dirty>>
world == <<open, opened, unsaved>>
locks == <<gate, exclusive, shared>>
vars == <<world, current, ledger, op, at, manager, selector, target, snap, locks>>

\* "read" stands for whatever refreshes under the shared lock.  "go_rename" is
\* any mutation that marks the view it holds, function_create too; "mutation" is
\* one that looks the view up again.  "start" is a bridge's own start.
Mutations == {"mutation", "go_rename"}
Ops == {"start", "read", "refresh", "load_binary", "save_database", "close_binary"}
       \cup Mutations
Ats == {"idle", "admitted", "pinWalk", "pinApply", "pinned", "walk", "apply",
        "commit", "markWalk", "markApply", "mark", "save", "close", "forward",
        "registerWalk", "registerApply"}
Active == 0  \* the selector "active", or none; a number above it is a pinned id
Snapshots == [views : SUBSET Views, complete : BOOLEAN]
NoSnapshot == [views |-> {}, complete |-> FALSE]

TypeOK ==
    /\ open \subseteq opened
    /\ opened \subseteq Views
    /\ unsaved \subseteq open
    /\ current \in Managers
    /\ ids \in [Managers -> [Views -> 0 .. MaxId]]
    /\ nextId \in [Managers -> 1 .. MaxId + 1]
    /\ dirty \in [Managers -> SUBSET (1 .. MaxId)]
    /\ op \in [Requests -> Ops]
    /\ at \in [Requests -> Ats]
    /\ manager \in [Requests -> Managers]
    /\ selector \in [Requests -> Views \cup 0 .. MaxId]
    /\ target \in [Requests -> Views \cup {Nothing}]
    /\ snap \in [Requests -> Snapshots]
    /\ gate \in Requests \cup {Nothing}
    /\ exclusive \in Requests \cup {Nothing}
    /\ shared \subseteq Requests

Init ==
    /\ open = {} /\ opened = {} /\ unsaved = {}
    /\ current = 1
    /\ ids = [m \in Managers |-> [v \in Views |-> 0]]
    /\ nextId = [m \in Managers |-> 1]
    /\ dirty = [m \in Managers |-> {}]
    /\ \E starter \in Requests :
          /\ op = [r \in Requests |-> IF r = starter THEN "start" ELSE "read"]
          /\ at = [r \in Requests |-> IF r = starter THEN "registerWalk" ELSE "idle"]
    /\ manager = [r \in Requests |-> 1]
    /\ selector = [r \in Requests |-> Active]
    /\ target = [r \in Requests |-> Nothing]
    /\ snap = [r \in Requests |-> NoSnapshot]
    /\ gate = Nothing /\ exclusive = Nothing /\ shared = {}

MoveTo(r, where) == at' = [at EXCEPT ![r] = where]

-----------------------------------------------------------------------------
(* The ledger's operations, on manager m.                                    *)

KnownIds(m, S) == {ids[m][v] : v \in S} \ {0}

\* refresh(), under the manager's lock, from snapshot s: ids and markers of
\* views that left are dropped when the snapshot is whole, and every view in
\* it has an id afterwards.
KeptAlways(m, s) == s.views
Kept(m, s) == IF s.complete THEN s.views ELSE Views
PrunedAlways(m, s) == dirty[m] \cap KnownIds(m, s.views)
Pruned(m, s) == IF s.complete THEN dirty[m] \cap KnownIds(m, s.views) ELSE dirty[m]
RefreshLedger(m, s) ==
    LET keep == Kept(m, s)
        new == {v \in s.views : ids[m][v] = 0}
    IN  /\ nextId[m] + Cardinality(new) <= MaxId + 1
        /\ \E number \in [new -> nextId[m] .. nextId[m] + Cardinality(new) - 1] :
              /\ \A v, w \in new : number[v] = number[w] => v = w
              /\ ids' = [ids EXCEPT ![m] = [v \in Views |->
                            IF v \in new THEN number[v]
                            ELSE IF v \in keep THEN ids[m][v] ELSE 0]]
        /\ nextId' = [nextId EXCEPT ![m] = @ + Cardinality(new)]
        /\ dirty' = [dirty EXCEPT ![m] = Pruned(m, s)]

MarkDirty(m, v) ==
    dirty' = [dirty EXCEPT ![m] = @ \cup KnownIds(m, {v})] /\ UNCHANGED <<ids, nextId>>

ClearDirty(m, v) ==
    dirty' = [dirty EXCEPT ![m] = @ \ KnownIds(m, {v})] /\ UNCHANGED <<ids, nextId>>

Forget(m, v) ==
    /\ dirty' = [dirty EXCEPT ![m] = @ \ KnownIds(m, {v})]
    /\ ids' = [ids EXCEPT ![m][v] = 0]
    /\ UNCHANGED nextId

\* What each ledger change does in its own manager and, after it, in the
\* successor's.
ChangeLedger(r, m) ==
    \/ op[r] \in Mutations /\ MarkDirty(m, target[r])
    \/ op[r] = "save_database" /\ ClearDirty(m, target[r])
    \/ op[r] = "close_binary" /\ Forget(m, target[r])

HasNoSuccessor(m) == FALSE
HasSuccessor(m) == m # current

\* max(self._next_id, predecessor._next_id), for a manager that handed out none.
FreshNextId == 1
CarriedNextId == nextId[1]

\* succeed(): "Restart Bridge" copies the ledger under both locks, and goes on
\* to start the new bridge: requests arrive from then on, and the starting thread
\* has its registry still to write.
Restart(r) ==
    /\ current = 1
    /\ current' = 2
    /\ at[r] = "idle" /\ \A q \in Requests : op[q] # "start"
    /\ op' = [op EXCEPT ![r] = "start"]
    /\ manager' = [manager EXCEPT ![r] = 2]
    /\ MoveTo(r, "registerWalk")
    /\ ids' = [ids EXCEPT ![2] = ids[1]]
    /\ nextId' = [nextId EXCEPT ![2] = CarriedNextId]
    /\ dirty' = [dirty EXCEPT ![2] = dirty[1]]
    /\ UNCHANGED <<world, selector, target, snap, locks>>

-----------------------------------------------------------------------------
(* Requests.                                                                 *)

\* Taking the locks the operation starts with.
TakeLocks(r, o) ==
    \/ /\ o = "read"
       /\ exclusive = Nothing
       /\ shared' = shared \cup {r} /\ UNCHANGED <<gate, exclusive>>
    \/ /\ o = "refresh"
       /\ gate = Nothing
       /\ gate' = r /\ UNCHANGED <<exclusive, shared>>
    \/ /\ o = "load_binary"
       /\ exclusive = Nothing /\ shared = {}
       /\ exclusive' = r /\ UNCHANGED <<gate, shared>>
    \/ /\ o \in Mutations \cup {"save_database", "close_binary"}
       /\ gate = Nothing /\ exclusive = Nothing /\ shared = {}
       /\ gate' = r /\ exclusive' = r /\ UNCHANGED shared

\* A view appears: a load publishes it, or the user opens a tab.
Appear(v) ==
    /\ v \notin opened
    /\ open' = open \cup {v} /\ opened' = opened \cup {v}
    /\ UNCHANGED unsaved

\* The bridge that answers admits a request, and it is that bridge's from then
\* on: a restart may come while it waits for its locks.
Admit(r) ==
    /\ at[r] = "idle"
    /\ manager' = [manager EXCEPT ![r] = current]
    /\ MoveTo(r, "admitted")
    /\ UNCHANGED <<world, current, ledger, op, selector, target, snap, locks>>

\* It starts with its locks in hand.  A load finds its view open already, or
\* publishes it.  A save, close or py_exec without a concrete selector counts
\* the open views under these locks: a read before one that names the view.
Begin(r, o) ==
    /\ at[r] = "admitted"
    /\ op' = [op EXCEPT ![r] = o]
    /\ TakeLocks(r, o)
    /\ \/ UNCHANGED world
       \/ o = "load_binary" /\ \E v \in Views : Appear(v)
    /\ IF o \in {"read", "refresh", "load_binary"} THEN UNCHANGED selector
       ELSE \/ \E v \in Views : selector' = [selector EXCEPT ![r] = v]
            \/ o = "mutation" /\ "focus" \in Surprises /\ UNCHANGED selector
    /\ MoveTo(r, "walk")
    /\ UNCHANGED <<current, ledger, manager, target, snap>>

\* go_rename, function_delete and batch_apply without a concrete selector are
\* first bound to the sole open view by dispatch, which holds no lock for them
\* (pin_destructive_target).
BeginUnpinned(r, o) ==
    /\ at[r] = "admitted" /\ o \in Mutations
    /\ op' = [op EXCEPT ![r] = o]
    /\ MoveTo(r, "pinWalk")
    /\ UNCHANGED <<world, current, ledger, manager, selector, target, snap, locks>>

BeginPinned(r) ==
    /\ at[r] = "pinned"
    /\ TakeLocks(r, op[r])
    /\ MoveTo(r, "walk")
    /\ UNCHANGED <<world, current, ledger, op, manager, selector, target, snap>>

\* _collect_open_views_state, before the lock: all open views, or fewer and
\* known to be incomplete.
Walks(mayLose) == {s \in Snapshots :
    /\ s.views \subseteq open
    /\ s.complete => s.views = open
    /\ ~s.complete => mayLose}

TakeSnapshot(r) ==
    /\ \/ /\ at[r] = "pinWalk" /\ MoveTo(r, "pinApply")
          /\ \E s \in Walks(FALSE) : snap' = [snap EXCEPT ![r] = s]
       \/ /\ at[r] = "walk" /\ MoveTo(r, "apply")
          /\ \E s \in Walks(TRUE) : snap' = [snap EXCEPT ![r] = s]
       \/ /\ at[r] = "markWalk" /\ MoveTo(r, "markApply")
          /\ \E s \in Walks("lossyMark" \in Surprises) : snap' = [snap EXCEPT ![r] = s]
       \/ /\ at[r] = "registerWalk" /\ MoveTo(r, "registerApply")
          /\ \E s \in Walks(TRUE) : snap' = [snap EXCEPT ![r] = s]
    /\ UNCHANGED <<world, current, ledger, op, manager, selector, target, locks>>

\* A snapshot taken and applied without any lock can be as old as it likes.
\* Unless that surprise may happen, none is applied that forgets a view in use.
InUse == unsaved \cup {target[q] : q \in {q \in Requests : op[q] \in Mutations}}
OnTime(r) ==
    \/ at[r] = "pinApply" /\ "stalePin" \in Surprises
    \/ at[r] = "registerApply" /\ "staleRegistry" \in Surprises
    \/ snap[r].complete => open \cap InUse \subseteq snap[r].views

\* The views a selector may name in a snapshot: "active" is whichever of them
\* has the focus as the walk ends, a pin only the view with that very id.
Meant(r) == {v \in snap[r].views :
    selector[r] \in {Active, v} \/ ids[manager[r]][v] = selector[r]}

\* ... less what the run keeps away from requests of the old bridge.
Reachable(r) == {v \in Meant(r) :
    \/ manager[r] = current
    \/ ids[current][v] # 0
    \/ "lateView" \in Surprises}

Free(r) ==
    /\ gate' = IF gate = r THEN Nothing ELSE gate
    /\ exclusive' = IF exclusive = r THEN Nothing ELSE exclusive
    /\ shared' = shared \ {r}

Done(r) ==
    /\ MoveTo(r, "idle")
    /\ op' = [op EXCEPT ![r] = "read"]
    /\ manager' = [manager EXCEPT ![r] = 1]
    /\ selector' = [selector EXCEPT ![r] = Active]
    /\ target' = [target EXCEPT ![r] = Nothing]
    /\ Free(r)

\* The walk of pin_destructive_target is strict, so its snapshot is whole; it
\* refuses unless exactly one view is open.
Pin(r) ==
    /\ at[r] = "pinApply"
    /\ OnTime(r)
    /\ RefreshLedger(manager[r], snap[r])
    /\ snap' = [snap EXCEPT ![r] = NoSnapshot]
    /\ \/ \E v \in Views :
             /\ snap[r].views = {v}
             /\ selector' = [selector EXCEPT ![r] = ids'[manager[r]][v]]
             /\ MoveTo(r, "pinned")
             /\ UNCHANGED <<op, manager, target, locks>>
       \/ Cardinality(snap[r].views) # 1 /\ Done(r)
    /\ UNCHANGED <<world, current>>

\* The first refresh under the locks: a listing is answered, anything else goes
\* on with the view it names, or fails.  A go_rename looks its view up in an
\* exclusive scope of its own (_import_outcome).
AfterResolve == [mutation |-> "commit", go_rename |-> "commit",
                 save_database |-> "save", close_binary |-> "close"]
ApplySnapshot(r) ==
    /\ at[r] = "apply"
    /\ RefreshLedger(manager[r], snap[r])
    /\ snap' = [snap EXCEPT ![r] = NoSnapshot]
    /\ \/ op[r] \in {"read", "refresh"} /\ Done(r)
       \/ /\ op[r] = "load_binary"
          /\ MoveTo(r, "registerWalk")
          /\ exclusive' = Nothing
          /\ UNCHANGED <<op, manager, selector, target, gate, shared>>
       \/ op[r] \in DOMAIN AfterResolve /\ Reachable(r) = {} /\ Done(r)
       \/ /\ op[r] \in DOMAIN AfterResolve
          /\ \E v \in Reachable(r) : target' = [target EXCEPT ![r] = v]
          /\ MoveTo(r, AfterResolve[op[r]])
          /\ exclusive' = IF op[r] = "go_rename" THEN Nothing ELSE exclusive
          /\ UNCHANGED <<op, manager, selector, gate, shared>>
    /\ UNCHANGED <<world, current>>

\* The engine commits under the exclusive lock and lets go of it; the gate
\* stays held while the ledger is brought up to date.  A go_rename takes the lock
\* once more for each chunk, of which the last is the commit.
AfterCommit == [mutation |-> "markWalk", go_rename |-> "mark"]
Commit(r) ==
    /\ at[r] = "commit"
    /\ op[r] = "go_rename" => exclusive = Nothing /\ shared = {}
    /\ unsaved' = unsaved \cup ({target[r]} \cap open)
    /\ exclusive' = Nothing
    /\ MoveTo(r, AfterCommit[op[r]])
    /\ UNCHANGED <<open, opened, current, ledger, op, manager, selector,
                   target, snap, gate, shared>>

\* Nothing to change, a clean rollback, a save or close that raises, or a strict
\* walk that is cut short.
Abandon(r) ==
    /\ at[r] \in {"pinWalk", "commit", "save", "close"}
    /\ Done(r)
    /\ UNCHANGED <<world, current, ledger, snap>>

\* _mutation resolves its selector a second time to find the view to mark; a
\* selector that no longer resolves is swallowed.
ResolveForMark(r) ==
    /\ at[r] = "markApply"
    /\ RefreshLedger(manager[r], snap[r])
    /\ snap' = [snap EXCEPT ![r] = NoSnapshot]
    /\ \/ Meant(r) = {} /\ Done(r)
       \/ /\ \E v \in Meant(r) : target' = [target EXCEPT ![r] = v]
          /\ MoveTo(r, "mark")
          /\ UNCHANGED <<op, manager, selector, locks>>
    /\ UNCHANGED <<world, current>>

\* create_database and close run under the exclusive lock, then the ledger of
\* the request's own manager follows.
SaveView(r) == unsaved' = unsaved \ {target[r]} /\ UNCHANGED <<open, opened>>
CloseOpenView(r) ==
    /\ open' = open \ {target[r]}
    /\ unsaved' = unsaved \ {target[r]}
    /\ UNCHANGED opened

\* A close goes on to rewrite the registry, its locks still held.
AfterLedger(r) ==
    IF op[r] = "close_binary"
    THEN MoveTo(r, "registerWalk") /\ UNCHANGED <<op, manager, selector, target, locks>>
    ELSE Done(r)

UpdateLedger(r) ==
    /\ \/ at[r] = "mark" /\ UNCHANGED world
       \/ at[r] = "save" /\ SaveView(r)
       \/ at[r] = "close" /\ CloseOpenView(r)
    /\ ChangeLedger(r, manager[r])
    /\ IF HasSuccessor(manager[r])
       THEN MoveTo(r, "forward") /\ UNCHANGED <<op, manager, selector, target, locks>>
       ELSE AfterLedger(r)
    /\ UNCHANGED <<current, snap>>

\* ... and then the successor's, outside the first manager's lock.
ForwardToSuccessor(r) ==
    /\ at[r] = "forward"
    /\ ChangeLedger(r, current)
    /\ AfterLedger(r)
    /\ UNCHANGED <<world, current, snap>>

\* _write_registry refreshes once more: after a load or a start, holding no lock,
\* and at the end of a close.
Register(r) ==
    /\ at[r] = "registerApply"
    /\ op[r] \in {"start", "load_binary"} => OnTime(r)
    /\ RefreshLedger(manager[r], snap[r])
    /\ snap' = [snap EXCEPT ![r] = NoSnapshot]
    /\ Done(r)
    /\ UNCHANGED <<world, current>>

\* The GUI user opens or closes a tab.
OpenTab(v) ==
    /\ Appear(v)
    /\ UNCHANGED <<current, ledger, op, at, manager, selector, target, snap, locks>>

CloseTab(v) ==
    /\ v \in open
    /\ open' = open \ {v} /\ unsaved' = unsaved \ {v}
    /\ UNCHANGED <<opened, current, ledger, op, at, manager, selector, target,
                   snap, locks>>

Next ==
    \/ \E v \in Views : OpenTab(v) \/ CloseTab(v)
    \/ \E r \in Requests :
          \/ Restart(r) \/ Admit(r)
          \/ \E o \in Ops : Begin(r, o) \/ BeginUnpinned(r, o)
          \/ TakeSnapshot(r) \/ Pin(r) \/ BeginPinned(r) \/ ApplySnapshot(r)
          \/ Commit(r) \/ Abandon(r) \/ ResolveForMark(r) \/ UpdateLedger(r)
          \/ ForwardToSuccessor(r) \/ Register(r)

Spec == Init /\ [][Next]_vars

-----------------------------------------------------------------------------
Marked(v) == ids[current][v] \in dirty[current]

\* A request between changing a view and having said so in the ledger.
MarkPending(v) == \E r \in Requests :
    target[r] = v /\ op[r] \in Mutations /\ at[r] \in {"markWalk", "markApply", "mark", "forward"}
ClearPending(v) == \E r \in Requests :
    target[r] = v /\ op[r] \in {"save_database", "close_binary"} /\ at[r] = "forward"

\* Committed work that no database has is reported unsaved for as long as the
\* view is open -- whatever refreshes, lossy walks, restarts or other requests
\* come between (#606, #713, #733, #953).
UnsavedWorkIsMarked == \A v \in open \cap unsaved : Marked(v) \/ MarkPending(v)

\* And only such work is: once a save is over, the view reads clean.
CleanViewIsNotMarked == \A v \in open \ unsaved :
    Marked(v) => MarkPending(v) \/ ClearPending(v)

\* No two views of one manager ever share a stable id, across a restart too.
IdsIdentifyViews == \A m \in Managers : \A v, w \in Views :
    (v # w /\ ids[m][v] # 0) => ids[m][v] # ids[m][w]

\* A view with unsaved work keeps its stable id, across a restart too: the id
\* a client was given goes on naming the view it must not lose.
UnsavedIdIsStable == [][\A v \in (open \cap unsaved) \cap (open' \cap unsaved') :
                    ids[current][v] # 0 => ids'[current'][v] = ids[current][v]]_vars
=============================================================================
