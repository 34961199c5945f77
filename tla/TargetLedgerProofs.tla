------------------------- MODULE TargetLedgerProofs -------------------------
(***************************************************************************)
(* The ledger's promises, for any number of views, requests and ids:       *)
(* stable ids identify views whatever happens; a clean view reads clean    *)
(* unless the user changes tab under a mutation; and unsaved work stays    *)
(* marked, under the same id, unless one of the five Surprises happens.    *)
(*                                                                         *)
(* A refresh works from a snapshot that is older than the ledger, so what  *)
(* matters is what every pending snapshot still shows (Covered): whoever   *)
(* has one under a lock keeps commits away with it, and a view that is     *)
(* being changed or marked was open before any of them was taken.  Of a    *)
(* snapshot that was taken without a lock nothing is known but that it is  *)
(* applied in time (OnTime), which is the hypothesis on the surprises.     *)
(***************************************************************************)
EXTENDS TargetLedger, FiniteSetTheorems, TLAPS

Typed ==
    /\ open \subseteq opened /\ opened \subseteq Views /\ unsaved \subseteq open
    /\ current \in Managers
    /\ ids \in [Managers -> [Views -> Nat]]
    /\ nextId \in [Managers -> Nat]
    /\ dirty \in [Managers -> SUBSET Nat]
    /\ op \in [Requests -> Ops]
    /\ at \in [Requests -> Ats]
    /\ manager \in [Requests -> Managers]
    /\ selector \in [Requests -> Views \cup Nat]
    /\ target \in [Requests -> Views \cup {Nothing}]
    /\ snap \in [Requests -> Snapshots]
    /\ gate \in Requests \cup {Nothing}
    /\ exclusive \in Requests \cup {Nothing}
    /\ shared \subseteq Requests

\* A manager's ids are below the next one, each belongs to a view that was opened,
\* and no two views share one.
Numbering(m) ==
    /\ nextId[m] > 0
    /\ \A v \in Views : ids[m][v] < nextId[m] /\ (ids[m][v] # 0 => v \in opened)
    /\ \A v, w \in Views : v # w /\ ids[m][v] # 0 => ids[m][v] # ids[m][w]
    /\ \A n \in dirty[m] : 0 < n /\ n < nextId[m]

Pinning == {"pinWalk", "pinApply", "pinned"}
Chosen == {"commit", "markWalk", "markApply", "mark", "save", "close", "forward"}
Marking == {"markWalk", "markApply", "mark", "forward"}
Registering == {"registerWalk", "registerApply"}
Pending == {"pinApply", "apply", "markApply", "registerApply"}

PlacesOf(o) ==
    CASE o = "read" -> {"idle", "admitted", "walk", "apply"}
      [] o = "refresh" -> {"walk", "apply"}
      [] o = "start" -> Registering
      [] o = "load_binary" -> {"walk", "apply"} \cup Registering
      [] o = "mutation" -> Pinning \cup {"walk", "apply", "commit"} \cup Marking
      [] o = "go_rename" -> Pinning \cup {"walk", "apply", "commit", "mark", "forward"}
      [] o = "save_database" -> {"walk", "apply", "save", "forward"}
      [] o = "close_binary" -> {"walk", "apply", "close", "forward"} \cup Registering

Gated(r) ==
    /\ op[r] \in {"refresh", "save_database", "close_binary"} \cup Mutations
    /\ at[r] \notin Pinning

\* A request whose snapshot was taken without a lock.
Unlocked(r) ==
    \/ at[r] = "pinApply"
    \/ at[r] = "registerApply" /\ op[r] # "close_binary"

\* Where a request may be, and the locks that it has there.
Doing(r) ==
    /\ at[r] \in PlacesOf(op[r])
    /\ gate = r <=> Gated(r)
    /\ exclusive = r <=> \/ op[r] \in {"save_database", "close_binary"}
                         \/ op[r] \in {"load_binary", "go_rename"} /\ at[r] \in {"walk", "apply"}
                         \/ op[r] = "mutation" /\ at[r] \in {"walk", "apply", "commit"}
    /\ r \in shared <=> op[r] = "read" /\ at[r] \notin {"idle", "admitted"}
    /\ at[r] \in Chosen => target[r] \in opened
    /\ snap[r].views \subseteq opened
    /\ manager[r] <= current

\* What a request under the gate knows of its view.
Working(r) ==
    /\ op[r] = "save_database" /\ at[r] = "forward" => target[r] \notin unsaved
    /\ op[r] = "close_binary" /\ at[r] \in {"forward"} \cup Registering =>
           target[r] \in opened \ open

Base ==
    /\ Typed
    /\ exclusive # Nothing => shared = {}
    /\ \A m \in Managers : Numbering(m)
    /\ \A r \in Requests : Doing(r) /\ Working(r)

\* Unless the user changes tab: a mutation marks the view that it changed, since no
\* other view answers to its selector.
Faithful(r) ==
    op[r] \in Mutations =>
        /\ selector[r] = Active => at[r] \in {"pinWalk", "pinApply"}
        /\ at[r] \in Chosen /\ selector[r] \in Views => target[r] = selector[r]
        /\ at[r] \in Chosen /\ selector[r] \notin Views =>
              /\ selector[r] < nextId[manager[r]]
              /\ \A v \in Views : ids[manager[r]][v] = selector[r] => v = target[r]
        /\ at[r] \in Marking /\ target[r] \in open => target[r] \in unsaved

Cleaning == (\A r \in Requests : Faithful(r)) /\ CleanViewIsNotMarked

\* What is unsaved is in every snapshot that a refresh with a lock is about to apply.
Covering ==
    \A r \in Requests :
       at[r] \in Pending /\ ~Unlocked(r) /\ snap[r].complete => unsaved \subseteq snap[r].views

\* The view of a mutation has an id, the one that it was pinned to, and is in every
\* such snapshot.
Covered(r) ==
    /\ at[r] = "markApply" => snap[r].complete
    /\ op[r] \in Mutations /\ at[r] \in Chosen /\ target[r] \in open =>
          /\ ids[current][target[r]] # 0
          /\ selector[r] \notin Views => ids[manager[r]][target[r]] = selector[r]
          /\ \A q \in Requests : at[q] \in Pending /\ ~Unlocked(q) /\ snap[q].complete =>
                target[r] \in snap[q].views

Keeping == (\A r \in Requests : Covered(r)) /\ UnsavedWorkIsMarked

-----------------------------------------------------------------------------
(* The ledger's operations, on one manager.                                  *)

\* Nothing but the ledger of manager m changes in the ledgers.
Only(m) == \A n \in Managers \ {m} :
              ids'[n] = ids[n] /\ nextId'[n] = nextId[n] /\ dirty'[n] = dirty[n]

LedgerTyped ==
    /\ ids \in [Managers -> [Views -> Nat]]
    /\ nextId \in [Managers -> Nat]
    /\ dirty \in [Managers -> SUBSET Nat]

LEMMA SnapshotFinite ==
    ASSUME NEW S \in SUBSET Views
    PROVE  IsFiniteSet(S) /\ Cardinality(S) \in Nat
BY LedgerAssumption, FS_Subset, FS_CardinalityType

\* A refresh keeps the ids of the views that it may not forget, gives every view of its
\* snapshot one, and marks nothing.
LEMMA Refreshes ==
    ASSUME LedgerTyped, NEW m \in Managers, Numbering(m),
           NEW s \in Snapshots, s.views \subseteq opened, opened \subseteq Views,
           opened' = opened, RefreshLedger(m, s)
    PROVE  /\ LedgerTyped' /\ Numbering(m)' /\ Only(m)
           /\ \A v \in Views :
                 /\ ids[m][v] # 0 /\ (s.complete => v \in s.views) => ids'[m][v] = ids[m][v]
                 /\ v \in s.views => ids'[m][v] # 0
                 /\ ids'[m][v] \in dirty'[m] => ids[m][v] \in dirty[m]
                 /\ ids[m][v] \in dirty[m] /\ (s.complete => v \in s.views) =>
                        ids'[m][v] \in dirty'[m]
                 /\ ids'[m][v] \in {0, ids[m][v]} \/ ids'[m][v] >= nextId[m]
           /\ nextId'[m] >= nextId[m]
<1> DEFINE new == {v \in s.views : ids[m][v] = 0}
           first == nextId[m]
           N == Cardinality(new)
<1>1. s.views \subseteq Views /\ s.complete \in BOOLEAN
  BY DEF Snapshots
<1>2. N \in Nat /\ new \subseteq Views
  <2>1. new \in SUBSET Views
    BY <1>1
  <2> QED
    BY <2>1, SnapshotFinite
<1>3. PICK number \in [new -> first .. first + N - 1] :
         /\ \A v, w \in new : number[v] = number[w] => v = w
         /\ ids' = [ids EXCEPT ![m] = [v \in Views |->
                       IF v \in new THEN number[v]
                       ELSE IF v \in Kept(m, s) THEN ids[m][v] ELSE 0]]
  BY DEF RefreshLedger
<1>4. /\ nextId' = [nextId EXCEPT ![m] = first + N]
      /\ dirty' = [dirty EXCEPT ![m] = Pruned(m, s)]
  BY DEF RefreshLedger
<1> HIDE DEF new, N
<1>5. first \in Nat /\ first > 0
  BY DEF LedgerTyped, Numbering
<1>6. \A v \in new : number[v] \in Nat /\ first <= number[v] /\ number[v] < first + N
  BY <1>2, <1>3, <1>5
<1>7. \A v \in Views : ids'[m][v] = IF v \in new THEN number[v]
                                    ELSE IF v \in Kept(m, s) THEN ids[m][v] ELSE 0
  BY <1>3 DEF LedgerTyped
<1>8. LedgerTyped' /\ Only(m)
  <2>1. \A v \in Views : ids'[m][v] \in Nat
    BY <1>6, <1>7 DEF LedgerTyped
  <2>2. Pruned(m, s) \subseteq dirty[m]
    BY DEF Pruned
  <2>3. nextId' \in [Managers -> Nat] /\ dirty' \in [Managers -> SUBSET Nat]
    BY <1>2, <1>4, <1>5, <2>2 DEF LedgerTyped
  <2>4. [v \in Views |-> IF v \in new THEN number[v]
                         ELSE IF v \in Kept(m, s) THEN ids[m][v] ELSE 0] \in [Views -> Nat]
    BY <1>6 DEF LedgerTyped
  <2>5. ids' \in [Managers -> [Views -> Nat]]
    BY <1>3, <2>4 DEF LedgerTyped
  <2>6. Only(m)
    BY <1>3, <1>4 DEF LedgerTyped, Only
  <2> QED
    BY <2>3, <2>5, <2>6 DEF LedgerTyped
<1>9. nextId'[m] = first + N /\ dirty'[m] = Pruned(m, s) /\ Pruned(m, s) \subseteq dirty[m]
  BY <1>4 DEF LedgerTyped, Pruned
<1>10. \A v \in new : v \in Views /\ v \in s.views /\ ids[m][v] = 0
  BY <1>1 DEF new
<1>11. \A v \in Views : v \in s.views => v \in new \/ ids[m][v] # 0
  BY DEF new
<1>12. \A v \in s.views : v \in Kept(m, s)
  BY <1>1 DEF Kept
<1>13. \A v \in Views : (s.complete => v \in s.views) => v \in Kept(m, s)
  BY DEF Kept
<1>14. \A v \in Views : ids[m][v] \in Nat /\ ids[m][v] < first
  BY DEF LedgerTyped, Numbering
<1>15. Numbering(m)'
  <2>1. nextId'[m] > 0
    BY <1>2, <1>5, <1>9
  <2>2. ASSUME NEW v \in Views PROVE ids'[m][v] < nextId'[m] /\ (ids'[m][v] # 0 => v \in opened')
    BY <1>2, <1>5, <1>6, <1>7, <1>9, <1>10, <1>14 DEF Numbering
  <2>3. ASSUME NEW v \in Views, NEW w \in Views, v # w, ids'[m][v] # 0
        PROVE  ids'[m][v] # ids'[m][w]
    <3>1. CASE v \in new /\ w \in new
      BY <2>3, <3>1, <1>3, <1>7
    <3>2. CASE v \in new /\ w \notin new
      BY <3>2, <1>5, <1>6, <1>7, <1>14
    <3>3. CASE v \notin new /\ w \in new
      BY <3>3, <1>5, <1>6, <1>7, <1>14
    <3>4. CASE v \notin new /\ w \notin new
      BY <2>3, <3>4, <1>7 DEF Numbering
    <3> QED
      BY <3>1, <3>2, <3>3, <3>4
  <2>4. \A n \in dirty'[m] : 0 < n /\ n < nextId'[m]
    BY <1>2, <1>5, <1>9 DEF Numbering, LedgerTyped
  <2> QED
    BY <2>1, <2>2, <2>3, <2>4 DEF Numbering
<1>16. ASSUME NEW v \in Views
       PROVE  /\ ids[m][v] # 0 /\ (s.complete => v \in s.views) => ids'[m][v] = ids[m][v]
              /\ v \in s.views => ids'[m][v] # 0
              /\ ids'[m][v] \in dirty'[m] => ids[m][v] \in dirty[m]
              /\ ids[m][v] \in dirty[m] /\ (s.complete => v \in s.views) =>
                     ids'[m][v] \in dirty'[m]
              /\ ids'[m][v] \in {0, ids[m][v]} \/ ids'[m][v] >= nextId[m]
  <2>1. ids[m][v] # 0 /\ (s.complete => v \in s.views) => ids'[m][v] = ids[m][v]
    BY <1>7, <1>10, <1>13
  <2>2. v \in s.views => ids'[m][v] # 0
    BY <1>5, <1>6, <1>7, <1>11, <1>12
  <2>3. ids'[m][v] \in dirty'[m] => ids[m][v] \in dirty[m]
    <3>1. \A n \in dirty'[m] : 0 < n /\ n < first
      BY <1>9 DEF Numbering
    <3>2. ASSUME ids'[m][v] \in dirty'[m] PROVE ids'[m][v] = ids[m][v]
      BY <3>1, <3>2, <1>5, <1>6, <1>7
    <3> QED
      BY <3>2, <1>9
  <2>4. ids[m][v] \in dirty[m] /\ (s.complete => v \in s.views) => ids'[m][v] \in dirty'[m]
    <3> SUFFICES ASSUME ids[m][v] \in dirty[m], s.complete => v \in s.views
                 PROVE  ids'[m][v] \in dirty'[m]
      OBVIOUS
    <3>1. ids[m][v] # 0 /\ ids'[m][v] = ids[m][v]
      BY <2>1 DEF Numbering
    <3>2. ids[m][v] \in Pruned(m, s)
      BY <3>1, <1>1 DEF Pruned, KnownIds
    <3> QED
      BY <3>1, <3>2, <1>9
  <2>5. ids'[m][v] \in {0, ids[m][v]} \/ ids'[m][v] >= nextId[m]
    BY <1>5, <1>6, <1>7
  <2> QED
    BY <2>1, <2>2, <2>3, <2>4, <2>5
<1>17. nextId'[m] >= nextId[m]
  BY <1>2, <1>5, <1>9
<1> QED
  BY <1>8, <1>15, <1>16, <1>17

LEMMA Marks ==
    ASSUME LedgerTyped, NEW m \in Managers, Numbering(m), NEW v \in Views, opened' = opened,
           MarkDirty(m, v)
    PROVE  /\ LedgerTyped' /\ Numbering(m)' /\ Only(m) /\ ids' = ids /\ nextId' = nextId
           /\ \A n \in dirty[m] : n \in dirty'[m]
           /\ ids[m][v] # 0 => ids[m][v] \in dirty'[m]
           /\ \A w \in Views \ {v} : ids[m][w] \in dirty'[m] => ids[m][w] \in dirty[m]
<1>1. dirty' = [dirty EXCEPT ![m] = dirty[m] \cup KnownIds(m, {v})] /\ UNCHANGED <<ids, nextId>>
  BY DEF MarkDirty
<1>2. KnownIds(m, {v}) = {ids[m][v]} \ {0}
  BY DEF KnownIds
<1>3. dirty'[m] = dirty[m] \cup ({ids[m][v]} \ {0})
  BY <1>1, <1>2 DEF LedgerTyped
<1>4. LedgerTyped' /\ Only(m)
  <2>1. {ids[m][v]} \subseteq Nat
    BY DEF LedgerTyped
  <2> QED
    BY <1>1, <1>2, <2>1 DEF LedgerTyped, Only
<1>5. Numbering(m)'
  <2>1. ids[m][v] \in Nat /\ ids[m][v] < nextId[m]
    BY DEF LedgerTyped, Numbering
  <2>2. ASSUME NEW n \in dirty'[m] PROVE 0 < n /\ n < nextId[m]
    BY <2>1, <2>2, <1>3 DEF Numbering
  <2> QED
    BY <2>2, <1>1 DEF Numbering
<1> QED
  BY <1>1, <1>3, <1>4, <1>5 DEF Numbering

LEMMA Clears ==
    ASSUME LedgerTyped, NEW m \in Managers, Numbering(m), NEW v \in Views, opened' = opened,
           ClearDirty(m, v) \/ Forget(m, v)
    PROVE  /\ LedgerTyped' /\ Numbering(m)' /\ Only(m) /\ nextId' = nextId
           /\ ids'[m][v] \in {0, ids[m][v]} /\ ids'[m][v] \notin dirty'[m]
           /\ ClearDirty(m, v) => ids' = ids
           /\ \A w \in Views \ {v} : /\ ids'[m][w] = ids[m][w]
                                     /\ ids'[m][w] \in dirty'[m] <=> ids[m][w] \in dirty[m]
<1>1. /\ dirty' = [dirty EXCEPT ![m] = dirty[m] \ KnownIds(m, {v})] /\ UNCHANGED nextId
      /\ ids' = ids \/ ids' = [ids EXCEPT ![m][v] = 0]
      /\ ClearDirty(m, v) => ids' = ids
  BY DEF ClearDirty, Forget
<1>2. KnownIds(m, {v}) = {ids[m][v]} \ {0}
  BY DEF KnownIds
<1>3. dirty'[m] = dirty[m] \ ({ids[m][v]} \ {0})
  BY <1>1, <1>2 DEF LedgerTyped
<1>4. ids'[m][v] \in {ids[m][v], 0} /\ \A w \in Views \ {v} : ids'[m][w] = ids[m][w]
  BY <1>1 DEF LedgerTyped
<1>5. LedgerTyped' /\ Only(m)
  BY <1>1 DEF LedgerTyped, Only
<1>6. 0 \notin dirty[m]
  BY DEF Numbering
<1>7. Numbering(m)'
  BY <1>1, <1>3, <1>4 DEF Numbering, LedgerTyped
<1> QED
  BY <1>1, <1>3, <1>4, <1>5, <1>6, <1>7 DEF Numbering

-----------------------------------------------------------------------------
(* The steps of a request.                                                   *)

Acts(r) ==
    \/ Admit(r)
    \/ \E o \in Ops : Begin(r, o) \/ BeginUnpinned(r, o)
    \/ TakeSnapshot(r) \/ Pin(r) \/ BeginPinned(r) \/ ApplySnapshot(r)
    \/ Commit(r) \/ Abandon(r) \/ ResolveForMark(r) \/ UpdateLedger(r)
    \/ ForwardToSuccessor(r) \/ Register(r)

Restarting == \E r \in Requests : Restart(r)
Tabs == \E v \in Views : OpenTab(v) \/ CloseTab(v)

LEMMA Steps ==
    ASSUME Next
    PROVE  Restarting \/ Tabs \/ \E r \in Requests : Acts(r)
BY DEF Next, Acts, Restarting, Tabs

Requesting == <<op, at, manager, selector, target, snap, locks>>

RequestsTyped ==
    /\ op \in [Requests -> Ops]
    /\ at \in [Requests -> Ats]
    /\ manager \in [Requests -> Managers]
    /\ selector \in [Requests -> Views \cup Nat]
    /\ target \in [Requests -> Views \cup {Nothing}]
    /\ snap \in [Requests -> Snapshots]
    /\ gate \in Requests \cup {Nothing}
    /\ exclusive \in Requests \cup {Nothing}
    /\ shared \subseteq Requests

WorldTyped ==
    open \subseteq opened /\ opened \subseteq Views /\ unsaved \subseteq open /\ current \in Managers

LEMMA TypedParts == Typed <=> LedgerTyped /\ RequestsTyped /\ WorldTyped
BY DEF Typed, LedgerTyped, RequestsTyped, WorldTyped

LEMMA SnapshotTypes ==
    /\ NoSnapshot \in Snapshots /\ NoSnapshot.views = {} /\ ~NoSnapshot.complete
    /\ \A b : \A s \in Walks(b) : /\ s \in Snapshots /\ s.views \subseteq open
                                  /\ s.complete => s.views = open
                                  /\ ~s.complete => b
BY DEF NoSnapshot, Snapshots, Walks

\* How requests change the ledgers.
LEMMA LedgerActs ==
    ASSUME Typed, NEW r \in Requests, Doing(r), Acts(r)
    PROVE  \/ UNCHANGED ledger
           \/ /\ UNCHANGED <<world, current>> /\ at[r] \in Pending
              /\ RefreshLedger(manager[r], snap[r])
              /\ Unlocked(r) => OnTime(r)
           \/ /\ at[r] \in {"mark", "save", "close"} /\ ChangeLedger(r, manager[r])
              /\ UNCHANGED <<opened, current>>
           \/ /\ at[r] = "forward" /\ ChangeLedger(r, current)
              /\ UNCHANGED <<world, current>>
<1>1. CASE ApplySnapshot(r) \/ ResolveForMark(r) \/ Pin(r)
  BY <1>1 DEF ApplySnapshot, ResolveForMark, Pin, Pending, Unlocked
<1>2. CASE Register(r)
  <2>1. at[r] = "registerApply" => op[r] \in {"start", "load_binary", "close_binary"}
    BY DEF Doing, PlacesOf, Typed, Ops, Mutations, Pinning, Marking
  <2> QED
    BY <1>2, <2>1 DEF Register, Pending, Unlocked
<1>3. CASE UpdateLedger(r) \/ ForwardToSuccessor(r)
  BY <1>3 DEF UpdateLedger, ForwardToSuccessor, SaveView, CloseOpenView, world
<1>4. CASE Admit(r) \/ (\E o \in Ops : Begin(r, o) \/ BeginUnpinned(r, o)) \/ BeginPinned(r)
           \/ TakeSnapshot(r) \/ Commit(r) \/ Abandon(r)
  BY <1>4 DEF Admit, Begin, BeginUnpinned, BeginPinned, TakeSnapshot, Commit, Abandon
<1> QED
  BY <1>1, <1>2, <1>3, <1>4 DEF Acts

\* How they change the views.
LEMMA WorldActs ==
    ASSUME Typed, NEW r \in Requests, Acts(r)
    PROVE  /\ current' = current
           /\ \/ UNCHANGED world
              \/ at[r] = "admitted" /\ UNCHANGED ledger /\ \E v \in Views : Appear(v)
              \/ Commit(r)
              \/ at[r] = "save" /\ SaveView(r) /\ UpdateLedger(r)
              \/ at[r] = "close" /\ CloseOpenView(r) /\ UpdateLedger(r)
<1>1. CASE \E o \in Ops : Begin(r, o)
  BY <1>1 DEF Begin
<1>2. CASE \/ Admit(r) \/ (\E o \in Ops : BeginUnpinned(r, o)) \/ BeginPinned(r)
           \/ TakeSnapshot(r) \/ Pin(r) \/ ApplySnapshot(r) \/ Abandon(r) \/ ResolveForMark(r)
           \/ ForwardToSuccessor(r) \/ Register(r)
  BY <1>2 DEF Admit, BeginUnpinned, BeginPinned, TakeSnapshot, Pin, ApplySnapshot, Abandon,
              ResolveForMark, ForwardToSuccessor, Register
<1>3. CASE Commit(r)
  BY <1>3 DEF Commit
<1>4. CASE UpdateLedger(r)
  BY <1>4 DEF UpdateLedger
<1> QED
  BY <1>1, <1>2, <1>3, <1>4 DEF Acts

LEMMA WorldStep ==
    ASSUME Typed, Next
    PROVE  WorldTyped' /\ opened \subseteq opened' /\ current <= current'
<1>1. WorldTyped
  BY TypedParts
<1>2. ASSUME NEW v \in Views, Appear(v), current' = current PROVE WorldTyped' /\ opened \subseteq opened'
  BY <1>1, <1>2 DEF Appear, WorldTyped
<1>3. CASE Restarting
  BY <1>1, <1>3 DEF Restarting, Restart, WorldTyped, world, Managers
<1>4. CASE Tabs
  BY <1>1, <1>2, <1>4 DEF Tabs, OpenTab, CloseTab, WorldTyped, Managers
<1>5. ASSUME NEW r \in Requests, Acts(r) PROVE WorldTyped' /\ opened \subseteq opened' /\ current' = current
  <2>1. current' = current
    BY <1>5, WorldActs
  <2> QED
    BY <1>1, <1>2, <1>5, <2>1, WorldActs DEF Commit, SaveView, CloseOpenView, WorldTyped, world
<1> QED
  BY <1>1, <1>3, <1>4, <1>5, Steps DEF WorldTyped, Managers

LEMMA ChangesAre ==
    ASSUME NEW r \in Requests, NEW m, ChangeLedger(r, m)
    PROVE  \/ op[r] \in Mutations /\ MarkDirty(m, target[r])
           \/ op[r] = "save_database" /\ ClearDirty(m, target[r])
           \/ op[r] = "close_binary" /\ Forget(m, target[r])
BY DEF ChangeLedger

\* An id that a manager has given is never given to another view.
IdsMove(m) ==
    /\ nextId'[m] >= nextId[m]
    /\ \A v \in Views : ids'[m][v] \in {0, ids[m][v]} \/ ids'[m][v] >= nextId[m]

LEMMA NumberingStep ==
    ASSUME Typed, \A m \in Managers : Numbering(m), \A r \in Requests : Doing(r), Next
    PROVE  /\ LedgerTyped' /\ \A m \in Managers : Numbering(m)'
           /\ \A m \in 1 .. current : IdsMove(m)
<1> DEFINE Good == LedgerTyped' /\ \A n \in Managers : Numbering(n)' /\ IdsMove(n)
<1>1. LedgerTyped /\ WorldTyped /\ RequestsTyped
  BY TypedParts
<1>2. opened \subseteq opened'
  BY WorldStep
<1>3. ASSUME UNCHANGED ledger PROVE Good
  BY <1>1, <1>2, <1>3 DEF ledger, LedgerTyped, Numbering, IdsMove
<1>4. ASSUME NEW m \in Managers, LedgerTyped', Numbering(m)', Only(m), IdsMove(m), opened' = opened
      PROVE  Good
  <2> SUFFICES ASSUME NEW n \in Managers, n # m PROVE Numbering(n)' /\ IdsMove(n)
    BY <1>4
  <2>1. ids'[n] = ids[n] /\ nextId'[n] = nextId[n] /\ dirty'[n] = dirty[n]
    BY <1>4 DEF Only
  <2>2. nextId[n] \in Nat
    BY <1>1 DEF LedgerTyped
  <2> QED
    BY <1>4, <2>1, <2>2 DEF Numbering, IdsMove
<1>5. CASE Restarting
  <2>1. /\ UNCHANGED world /\ current = 1
        /\ ids' = [ids EXCEPT ![2] = ids[1]] /\ nextId' = [nextId EXCEPT ![2] = nextId[1]]
        /\ dirty' = [dirty EXCEPT ![2] = dirty[1]]
    BY <1>5 DEF Restarting, Restart, CarriedNextId
  <2>2. LedgerTyped' /\ \A m \in Managers : Numbering(m)'
    BY <1>1, <2>1 DEF world, LedgerTyped, Numbering, Managers
  <2>3. IdsMove(1)
    BY <1>1, <2>1 DEF LedgerTyped, IdsMove, Managers
  <2> QED
    BY <2>1, <2>2, <2>3
<1>6. CASE Tabs
  BY <1>1, <1>3, <1>6 DEF Tabs, OpenTab, CloseTab, WorldTyped, Managers
<1>7. ASSUME NEW r \in Requests, Acts(r) PROVE Good
  <2>1. manager[r] \in Managers /\ current \in Managers /\ (at[r] \in Chosen => target[r] \in Views)
        /\ snap[r].views \subseteq opened /\ snap[r] \in Snapshots
    BY DEF Typed, Doing
  <2>2. CASE UNCHANGED <<world, current>> /\ RefreshLedger(manager[r], snap[r])
    <3>1. opened' = opened /\ opened \subseteq Views
      BY <2>2, <1>1 DEF WorldTyped, world
    <3> QED
      BY <1>1, <1>4, <2>1, <2>2, <3>1, Refreshes DEF IdsMove
  <2>3. ASSUME NEW m \in Managers, at[r] \in Chosen, ChangeLedger(r, m), opened' = opened
        PROVE  Good
    <3>1. LedgerTyped' /\ Numbering(m)' /\ Only(m)
      BY <1>1, <2>1, <2>3, ChangesAre, Marks, Clears
    <3>2. IdsMove(m)
      <4>1. CASE MarkDirty(m, target[r])
        BY <1>1, <2>1, <2>3, <4>1, Marks DEF IdsMove, LedgerTyped
      <4>2. CASE ClearDirty(m, target[r]) \/ Forget(m, target[r])
        BY <1>1, <2>1, <2>3, <4>2, Clears DEF IdsMove, LedgerTyped
      <4> QED
        BY <2>3, <4>1, <4>2, ChangesAre
    <3> QED
      BY <1>4, <2>3, <3>1, <3>2
  <2>4. CASE UNCHANGED ledger
    BY <1>3, <2>4
  <2> QED
    BY <1>7, <2>1, <2>2, <2>3, <2>4, LedgerActs DEF Chosen, world
<1>8. 1 .. current \subseteq Managers
  BY <1>1 DEF WorldTyped, Managers
<1> QED
  BY <1>5, <1>6, <1>7, <1>8, Steps

\* Where a request is tells what it does.
LEMMA PlacesTell ==
    ASSUME NEW o \in Ops, NEW p \in PlacesOf(o)
    PROVE  /\ p \in {"idle", "admitted"} => o = "read"
           /\ p \in Pinning \cup {"commit", "mark"} => o \in Mutations
           /\ p \in {"markWalk", "markApply"} => o = "mutation"
           /\ p = "save" => o = "save_database"
           /\ p = "close" => o = "close_binary"
           /\ p = "forward" => o \in Mutations \cup {"save_database", "close_binary"}
           /\ p \in Registering => o \in {"start", "load_binary", "close_binary"}
BY DEF PlacesOf, Ops, Mutations, Pinning, Registering, Marking

\* A request's step leaves the others where they are, with the locks they hold.
LEMMA OthersStay ==
    ASSUME RequestsTyped, NEW r \in Requests, Doing(r), Acts(r), NEW q \in Requests \ {r}
    PROVE  /\ op'[q] = op[q] /\ at'[q] = at[q] /\ manager'[q] = manager[q]
           /\ selector'[q] = selector[q] /\ target'[q] = target[q] /\ snap'[q] = snap[q]
           /\ gate' = q <=> gate = q
           /\ exclusive' = q <=> exclusive = q
           /\ q \in shared' <=> q \in shared
<1>1. q # Nothing
  BY LedgerAssumption
<1>2. CASE Done(r) /\ (snap' = snap \/ snap' = [snap EXCEPT ![r] = NoSnapshot])
  BY <1>1, <1>2 DEF Done, MoveTo, Free, RequestsTyped
<1>3. CASE Admit(r) \/ BeginPinned(r) \/ \E o \in Ops : Begin(r, o) \/ BeginUnpinned(r, o)
  <2>1. TakeLocks(r, op[r]) \/ (\E o \in Ops : TakeLocks(r, o)) \/ UNCHANGED locks
    BY <1>3 DEF Admit, Begin, BeginUnpinned, BeginPinned
  <2>2. /\ gate' = q <=> gate = q
        /\ exclusive' = q <=> exclusive = q
        /\ q \in shared' <=> q \in shared
    BY <1>1, <2>1 DEF TakeLocks, locks
  <2>3. /\ \E p : at' = [at EXCEPT ![r] = p]
        /\ op' = op \/ \E o : op' = [op EXCEPT ![r] = o]
        /\ manager' = manager \/ \E m : manager' = [manager EXCEPT ![r] = m]
        /\ selector' = selector \/ \E v : selector' = [selector EXCEPT ![r] = v]
        /\ target' = target /\ snap' = snap
    BY <1>3 DEF Admit, Begin, BeginUnpinned, BeginPinned, MoveTo
  <2> QED
    BY <2>2, <2>3 DEF RequestsTyped
<1>4. CASE TakeSnapshot(r) \/ (Pin(r) /\ ~Done(r))
  BY <1>4 DEF TakeSnapshot, Pin, MoveTo, locks, RequestsTyped
<1>5. CASE ApplySnapshot(r)
  <2>1. snap' = [snap EXCEPT ![r] = NoSnapshot]
    BY <1>5 DEF ApplySnapshot
  <2>2. CASE Done(r)
    BY <1>2, <2>1, <2>2
  <2>3. CASE ~Done(r)
    <3>1. /\ UNCHANGED <<op, manager, selector, gate, shared>>
          /\ exclusive' = exclusive \/ (exclusive' = Nothing /\ exclusive = r)
          /\ target' = target \/ \E v : target' = [target EXCEPT ![r] = v]
      BY <1>5, <2>3 DEF ApplySnapshot, locks, Doing
    <3>2. \E p : at' = [at EXCEPT ![r] = p]
      BY <1>5, <2>3 DEF ApplySnapshot, MoveTo
    <3> QED
      BY <1>1, <2>1, <3>1, <3>2 DEF RequestsTyped
  <2> QED
    BY <2>2, <2>3
<1>6. CASE Commit(r) \/ Abandon(r)
  <2>1. Commit(r) => exclusive \in {r, Nothing}
    BY PlacesTell DEF Commit, Doing, RequestsTyped, Mutations
  <2> QED
    BY <1>1, <1>2, <1>6, <2>1 DEF Commit, Abandon, MoveTo, RequestsTyped
<1>7. CASE ResolveForMark(r) \/ Register(r) \/ (Pin(r) /\ Done(r))
  BY <1>2, <1>7 DEF ResolveForMark, Register, Pin, MoveTo, locks, RequestsTyped
<1>8. CASE UpdateLedger(r) \/ ForwardToSuccessor(r)
  BY <1>2, <1>8 DEF UpdateLedger, ForwardToSuccessor, AfterLedger, MoveTo, locks, RequestsTyped
<1> QED
  BY <1>3, <1>4, <1>5, <1>6, <1>7, <1>8 DEF Acts

LEMMA DoneIsIdle ==
    ASSUME RequestsTyped, NEW r \in Requests, Done(r),
           snap' = snap \/ snap' = [snap EXCEPT ![r] = NoSnapshot],
           snap[r].views \subseteq opened, opened \subseteq opened', WorldTyped'
    PROVE  RequestsTyped' /\ Doing(r)' /\ Working(r)'
<1>1. r # Nothing
  BY LedgerAssumption
<1>2. RequestsTyped'
  BY <1>1, SnapshotTypes DEF Done, MoveTo, Free, RequestsTyped, Ops, Ats, Managers, Active
<1>3. op'[r] = "read" /\ at'[r] = "idle" /\ gate' # r /\ exclusive' # r /\ r \notin shared'
      /\ manager'[r] <= current'
  BY <1>1 DEF Done, MoveTo, Free, RequestsTyped, WorldTyped, Managers
<1>4. snap'[r].views \subseteq opened'
  BY SnapshotTypes DEF RequestsTyped
<1> QED
  BY <1>2, <1>3, <1>4 DEF Doing, Working, PlacesOf, Gated, Chosen, Mutations

LEMMA RequestStep ==
    ASSUME RequestsTyped, WorldTyped, NEW r \in Requests, Doing(r), Working(r), Acts(r),
           opened \subseteq opened', WorldTyped', LedgerTyped', current' = current
    PROVE  RequestsTyped' /\ Doing(r)' /\ Working(r)'
<1>1. r # Nothing
  BY LedgerAssumption
<1>2. CASE Done(r) /\ (snap' = snap \/ snap' = [snap EXCEPT ![r] = NoSnapshot])
  BY <1>2, DoneIsIdle DEF Doing
<1>3. CASE Admit(r) \/ \E o \in Ops : BeginUnpinned(r, o)
  <2>1. /\ at[r] \in {"idle", "admitted"} /\ op[r] = "read" /\ snap' = snap /\ target' = target
        /\ selector' = selector /\ UNCHANGED <<gate, exclusive, shared>>
        /\ \/ /\ at'[r] = "admitted" /\ op' = op
              /\ manager' = [manager EXCEPT ![r] = current]
           \/ /\ at'[r] = "pinWalk" /\ op'[r] \in Mutations
              /\ manager' = manager
    BY <1>3, PlacesTell DEF Admit, BeginUnpinned, MoveTo, RequestsTyped, Doing, locks
  <2>2. gate # r /\ exclusive # r /\ r \notin shared
    BY <2>1 DEF Doing, Gated, Mutations
  <2>3. RequestsTyped'
    <3>1. op' \in [Requests -> Ops] /\ at' \in [Requests -> Ats]
      BY <1>3 DEF Admit, BeginUnpinned, MoveTo, RequestsTyped, Ats
    <3>2. manager' \in [Requests -> Managers]
      BY <2>1 DEF RequestsTyped, WorldTyped
    <3> QED
      BY <2>1, <3>1, <3>2 DEF RequestsTyped
  <2>4. manager'[r] <= current'
    BY <2>1 DEF RequestsTyped, Doing, WorldTyped, Managers
  <2> QED
    BY <2>1, <2>2, <2>3, <2>4 DEF Doing, Working, PlacesOf, Pinning, Gated, Mutations, Chosen
<1>4. ASSUME NEW o \in Ops, Begin(r, o) \/ (BeginPinned(r) /\ o = op[r])
      PROVE  RequestsTyped' /\ Doing(r)' /\ Working(r)'
  <2>1. /\ op'[r] = o /\ at' = [at EXCEPT ![r] = "walk"] /\ snap' = snap /\ target' = target
        /\ manager' = manager /\ TakeLocks(r, o) /\ at[r] \in {"admitted", "pinned"}
    BY <1>4 DEF Begin, BeginPinned, MoveTo, RequestsTyped
  <2>2. gate # r /\ exclusive # r /\ r \notin shared
    <3>1. at[r] = "admitted" => op[r] = "read"
      BY PlacesTell DEF Doing, RequestsTyped
    <3>2. at[r] = "pinned" => op[r] \in Mutations
      BY PlacesTell DEF Doing, RequestsTyped, Pinning
    <3> QED
      BY <2>1, <3>1, <3>2 DEF Doing, Gated, Mutations, Pinning
  <2>3. RequestsTyped'
    <3>1. op' \in [Requests -> Ops] /\ at' \in [Requests -> Ats]
      BY <1>4, <2>1 DEF Begin, BeginPinned, RequestsTyped, Ats
    <3>2. selector' \in [Requests -> Views \cup Nat]
      BY <1>4 DEF Begin, BeginPinned, RequestsTyped
    <3>3. gate' \in Requests \cup {Nothing} /\ exclusive' \in Requests \cup {Nothing} /\ shared' \subseteq Requests
      BY <2>1 DEF TakeLocks, RequestsTyped
    <3> QED
      BY <2>1, <3>1, <3>2, <3>3 DEF RequestsTyped
  <2>4. /\ o # "start"
        /\ gate' = r <=> o \in {"refresh", "save_database", "close_binary"} \cup Mutations
        /\ exclusive' = r <=> o \notin {"read", "refresh"}
        /\ r \in shared' <=> o = "read"
    BY <1>1, <2>1, <2>2 DEF TakeLocks, Ops, Mutations
  <2>5. at'[r] = "walk" /\ manager'[r] <= current'
    BY <2>1 DEF RequestsTyped, Doing
  <2>6. /\ at'[r] \in PlacesOf(op'[r])
        /\ gate' = r <=> Gated(r)'
        /\ exclusive' = r <=> \/ o \in {"save_database", "close_binary"}
                              \/ o \in {"load_binary", "go_rename"}
                              \/ o = "mutation"
    BY <2>1, <2>4, <2>5 DEF PlacesOf, Ops, Gated, Mutations, Pinning
  <2> QED
    BY <2>1, <2>3, <2>4, <2>5, <2>6 DEF Doing, Working, Chosen, Registering
<1>5. CASE TakeSnapshot(r)
  <2>1. /\ \E s \in Snapshots : s.views \subseteq open /\ snap' = [snap EXCEPT ![r] = s]
        /\ UNCHANGED <<world, current, op, manager, selector, target, gate, exclusive, shared>>
        /\ \/ at[r] = "pinWalk" /\ at' = [at EXCEPT ![r] = "pinApply"]
           \/ at[r] = "walk" /\ at' = [at EXCEPT ![r] = "apply"]
           \/ at[r] = "markWalk" /\ at' = [at EXCEPT ![r] = "markApply"]
           \/ at[r] = "registerWalk" /\ at' = [at EXCEPT ![r] = "registerApply"]
    BY <1>5, SnapshotTypes DEF TakeSnapshot, MoveTo, locks
  <2>2. RequestsTyped' /\ snap'[r].views \subseteq open
    BY <2>1, SnapshotTypes DEF RequestsTyped, Ats
  <2>3. Doing(r)'
    BY <2>1, <2>2, PlacesTell DEF Doing, RequestsTyped, PlacesOf, Ops, Mutations, Pinning, Registering,
       Marking, Gated, Chosen, WorldTyped, world
  <2> QED
    BY <2>1, <2>2, <2>3 DEF Working, RequestsTyped, Registering, world
<1>6. CASE Pin(r) /\ ~Done(r)
  <2>1. /\ at[r] = "pinApply" /\ at' = [at EXCEPT ![r] = "pinned"]
        /\ UNCHANGED <<world, op, manager, target, gate, exclusive, shared>>
        /\ snap' = [snap EXCEPT ![r] = NoSnapshot]
        /\ \E v \in Views : selector' = [selector EXCEPT ![r] = ids'[manager[r]][v]]
    BY <1>6 DEF Pin, MoveTo, locks
  <2>2. RequestsTyped'
    BY <2>1, SnapshotTypes DEF RequestsTyped, LedgerTyped, Ats
  <2>3. op[r] \in Mutations /\ at'[r] = "pinned"
    BY <2>1, PlacesTell DEF Doing, RequestsTyped, Pinning
  <2> QED
    BY <2>1, <2>2, <2>3, SnapshotTypes DEF RequestsTyped, Doing, Working, PlacesOf, Mutations, Pinning, Gated, Chosen
<1>7. CASE ApplySnapshot(r) /\ ~Done(r)
  <2>1. snap' = [snap EXCEPT ![r] = NoSnapshot] /\ at[r] = "apply" /\ UNCHANGED world
    BY <1>7 DEF ApplySnapshot
  <2>2. CASE /\ op[r] = "load_binary"
             /\ MoveTo(r, "registerWalk")
             /\ exclusive' = Nothing
             /\ UNCHANGED <<op, manager, selector, target, gate, shared>>
    <3>1. RequestsTyped'
      BY <2>1, <2>2, SnapshotTypes DEF RequestsTyped, MoveTo, Ats
    <3> QED
      BY <1>1, <2>1, <2>2, <3>1, SnapshotTypes DEF RequestsTyped, Doing, Working, MoveTo, PlacesOf,
         Registering, Mutations, Gated, Chosen
  <2>3. CASE /\ op[r] \in DOMAIN AfterResolve
             /\ \E v \in Reachable(r) : target' = [target EXCEPT ![r] = v]
             /\ MoveTo(r, AfterResolve[op[r]])
             /\ exclusive' = IF op[r] = "go_rename" THEN Nothing ELSE exclusive
             /\ UNCHANGED <<op, manager, selector, gate, shared>>
    <3>1. /\ op[r] \in {"save_database", "close_binary"} \cup Mutations
          /\ op[r] \in Mutations => AfterResolve[op[r]] = "commit"
          /\ op[r] = "save_database" => AfterResolve[op[r]] = "save"
          /\ op[r] = "close_binary" => AfterResolve[op[r]] = "close"
      BY <2>3 DEF AfterResolve, Mutations
    <3>2. \A v \in Reachable(r) : v \in opened /\ v \in Views
      BY DEF Reachable, Meant, Doing, WorldTyped
    <3>3. at'[r] = AfterResolve[op[r]] /\ target'[r] \in opened
      BY <2>3, <3>2 DEF RequestsTyped, MoveTo
    <3>4. RequestsTyped'
      BY <2>1, <2>3, <3>1, <3>2, SnapshotTypes DEF RequestsTyped, MoveTo, Ats, Mutations
    <3>5. at'[r] \in PlacesOf(op'[r]) /\ at'[r] \in {"commit", "save", "close"}
      BY <2>3, <3>1, <3>3 DEF PlacesOf, Mutations
    <3>6. /\ gate' = r <=> Gated(r)'
          /\ r \notin shared' /\ op'[r] # "read"
      BY <2>1, <2>3, <3>1, <3>5 DEF Doing, Gated, Mutations, Pinning
    <3>7. exclusive' = r <=> \/ op[r] \in {"save_database", "close_binary"}
                            \/ op[r] = "mutation"
      BY <1>1, <2>1, <2>3, <3>1 DEF Doing, Mutations
    <3>8. snap'[r].views \subseteq opened' /\ opened' = opened /\ manager'[r] <= current'
      BY <2>1, <2>3, SnapshotTypes DEF RequestsTyped, Doing, world
    <3>9. op[r] = "mutation" => at'[r] = "commit"
      BY <3>1, <3>3 DEF Mutations
    <3> QED
      BY <2>3, <3>3, <3>4, <3>5, <3>6, <3>7, <3>8, <3>9 DEF Doing, Working, Registering
  <2> QED
    BY <1>7, <2>2, <2>3 DEF ApplySnapshot
<1>8. CASE Commit(r)
  <2>1. op[r] \in Mutations
    BY <1>8, PlacesTell DEF Commit, Doing, RequestsTyped
  <2>2. at[r] = "commit" /\ exclusive' = Nothing /\ at'[r] = AfterCommit[op[r]] /\ AfterCommit[op[r]] \in Ats
        /\ AfterCommit["mutation"] = "markWalk" /\ AfterCommit["go_rename"] = "mark"
    BY <1>8, <2>1 DEF Commit, MoveTo, RequestsTyped, AfterCommit, Mutations, Ats
  <2>3. RequestsTyped'
    BY <1>8, <2>2 DEF Commit, MoveTo, RequestsTyped
  <2> QED
    BY <1>1, <1>8, <2>1, <2>2, <2>3 DEF Commit, RequestsTyped, Doing, Working, PlacesOf, Mutations,
       Pinning, Gated, Chosen, Marking
<1>9. CASE ResolveForMark(r) /\ ~Done(r)
  <2>1. /\ op[r] = "mutation" /\ at[r] = "markApply" /\ at' = [at EXCEPT ![r] = "mark"]
        /\ \E v \in Meant(r) : target' = [target EXCEPT ![r] = v]
        /\ snap' = [snap EXCEPT ![r] = NoSnapshot]
        /\ UNCHANGED <<world, op, manager, selector, gate, exclusive, shared>>
    BY <1>9, PlacesTell DEF ResolveForMark, MoveTo, Doing, RequestsTyped, locks
  <2>2. \A v \in Meant(r) : v \in opened /\ v \in Views
    BY DEF Meant, Doing, WorldTyped
  <2>3. RequestsTyped' /\ target'[r] \in opened
    BY <2>1, <2>2, SnapshotTypes DEF RequestsTyped, Ats
  <2> QED
    BY <2>1, <2>3, SnapshotTypes DEF RequestsTyped, Doing, Working, PlacesOf, Mutations, Pinning, Gated,
       Chosen, Marking
<1>10. CASE ~Done(r) /\ (UpdateLedger(r) \/ ForwardToSuccessor(r))
  <2>1. /\ at[r] \in {"mark", "save", "close", "forward"}
        /\ UNCHANGED <<snap, op, manager, selector, target, gate, exclusive, shared>>
        /\ \/ MoveTo(r, "forward") /\ at[r] # "forward"
           \/ MoveTo(r, "registerWalk") /\ op[r] = "close_binary"
    BY <1>10 DEF UpdateLedger, ForwardToSuccessor, AfterLedger, locks
  <2>2. RequestsTyped' /\ op[r] \in {"save_database", "close_binary"} \cup Mutations /\ target[r] \in opened
    BY <2>1, PlacesTell DEF RequestsTyped, MoveTo, Ats, Doing, Chosen
  <2>3. Doing(r)'
    BY <2>1, <2>2, PlacesTell DEF RequestsTyped, MoveTo, Doing, PlacesOf, Mutations, Pinning, Registering,
       Gated, Chosen, Marking
  <2>4. /\ op[r] = "save_database" => at[r] \in {"save", "forward"}
        /\ op[r] = "close_binary" => at[r] \in {"close", "forward"}
    BY <2>1 DEF Doing, PlacesOf, Registering
  <2>5. /\ op[r] = "save_database" => target[r] \notin unsaved'
        /\ op[r] = "close_binary" => target[r] \in opened' \ open'
    BY <1>10, <2>2, <2>4 DEF UpdateLedger, ForwardToSuccessor, SaveView, CloseOpenView, Working, world
  <2> QED
    BY <2>1, <2>2, <2>3, <2>5 DEF Working
<1> QED
  BY <1>2, <1>3, <1>4, <1>5, <1>6, <1>7, <1>8, <1>9, <1>10
     DEF Acts, Pin, ApplySnapshot, Abandon, ResolveForMark, UpdateLedger, ForwardToSuccessor, Register,
         RequestsTyped

LEMMA OneGate ==
    ASSUME NEW r \in Requests, NEW q \in Requests \ {r}, Doing(r), Doing(q)
    PROVE  Gated(r) => ~Gated(q)
BY DEF Doing

LEMMA CommitsMove ==
    ASSUME RequestsTyped, NEW r \in Requests, Doing(r), Commit(r)
    PROVE  /\ op[r] \in Mutations /\ Gated(r) /\ at[r] = "commit"
           /\ at'[r] = IF op[r] = "mutation" THEN "markWalk" ELSE "mark"
<1>1. op[r] \in Mutations /\ at[r] = "commit"
  BY PlacesTell DEF Commit, Doing, RequestsTyped
<1> QED
  BY <1>1 DEF Commit, MoveTo, RequestsTyped, AfterCommit, Mutations, Gated, Pinning

\* Opened views do not come back, and only a commit leaves unsaved work.
LEMMA ViewsOnlyLeave ==
    ASSUME Typed, Next
    PROVE  /\ \A v \in opened : v \in open' => v \in open
           /\ \A v \in unsaved' : \/ v \in unsaved
                                  \/ \E r \in Requests : Commit(r) /\ v = target[r] /\ v \in open
<1>1. ASSUME NEW v, Appear(v) PROVE unsaved' = unsaved /\ \A w \in opened : w \in open' => w \in open
  BY <1>1 DEF Appear
<1>2. CASE Restarting
  BY <1>2 DEF Restarting, Restart, world
<1>3. CASE Tabs
  BY <1>1, <1>3 DEF Tabs, OpenTab, CloseTab
<1>4. ASSUME NEW r \in Requests, Acts(r)
      PROVE  /\ \A v \in opened : v \in open' => v \in open
             /\ \A v \in unsaved' : v \in unsaved \/ (Commit(r) /\ v = target[r] /\ v \in open)
  BY <1>1, <1>4, WorldActs DEF Commit, SaveView, CloseOpenView, world
<1> QED
  BY <1>2, <1>3, <1>4, Steps

LEMMA LocksExclude ==
    ASSUME RequestsTyped, NEW r \in Requests, Doing(r), Acts(r), exclusive # Nothing => shared = {}
    PROVE  exclusive' # Nothing => shared' = {}
<1>1. CASE BeginPinned(r) \/ \E o \in Ops : Begin(r, o)
  BY <1>1 DEF BeginPinned, Begin, TakeLocks
<1>2. CASE UNCHANGED <<exclusive, shared>> \/ (exclusive' = Nothing) \/ Done(r)
  BY <1>2 DEF Done, Free
<1>3. CASE ApplySnapshot(r)
  BY <1>2, <1>3 DEF ApplySnapshot
<1> QED
  BY <1>1, <1>2, <1>3 DEF Acts, Admit, BeginUnpinned, TakeSnapshot, Pin, Commit, Abandon, ResolveForMark,
                    UpdateLedger, ForwardToSuccessor, AfterLedger, Register, locks

LEMMA BaseInit ==
    ASSUME Init
    PROVE  Base
<1>1. Typed /\ \A m \in Managers : Numbering(m)
  BY SnapshotTypes DEF Init, Typed, Numbering, Managers, Ops, Ats, Active
<1>2. ASSUME NEW r \in Requests PROVE Doing(r) /\ Working(r)
  BY <1>2, SnapshotTypes, LedgerAssumption DEF Init, Doing, Working, PlacesOf, Gated, Mutations, Chosen,
     Registering
<1> QED
  BY <1>1, <1>2 DEF Base, Init

LEMMA BaseStep ==
    ASSUME Base, Next
    PROVE  Base'
<1>1. Typed /\ LedgerTyped /\ RequestsTyped /\ WorldTyped
  BY TypedParts DEF Base
<1>2. WorldTyped' /\ opened \subseteq opened' /\ current <= current'
  BY <1>1, WorldStep
<1>3. LedgerTyped' /\ \A m \in Managers : Numbering(m)'
  BY <1>1, NumberingStep DEF Base
<1>4. SUFFICES /\ RequestsTyped' /\ (exclusive' # Nothing => shared' = {})
               /\ \A r \in Requests : Doing(r)' /\ Working(r)'
  <2>1. (RequestsTyped /\ WorldTyped /\ LedgerTyped)' => Typed'
    BY DEF Typed, LedgerTyped, RequestsTyped, WorldTyped
  <2> QED
    BY <1>2, <1>3, <1>4, <2>1 DEF Base
<1>5. \A r \in Requests : Doing(r) /\ Working(r)
  BY DEF Base
<1>6. /\ \A v \in opened : v \in open' => v \in open
      /\ \A v \in unsaved' : \/ v \in unsaved
                             \/ \E r \in Requests : Commit(r) /\ v = target[r] /\ v \in open
  BY <1>1, ViewsOnlyLeave
<1>11. ASSUME NEW q \in Requests PROVE manager[q] <= current'
  <2>1. manager[q] \in Nat /\ current \in Nat /\ current' \in Nat
    BY <1>1, <1>2 DEF RequestsTyped, WorldTyped, Managers
  <2>2. manager[q] <= current
    BY <1>5 DEF Doing
  <2> QED
    BY <1>2, <2>1, <2>2
<1>7. CASE UNCHANGED Requesting /\ \A r \in Requests : ~Commit(r)
  <2>1. UNCHANGED <<op, at, manager, selector, target, snap, gate, exclusive, shared>>
    BY <1>7 DEF Requesting, locks
  <2>2. ASSUME NEW r \in Requests PROVE Doing(r)' /\ Working(r)'
    <3>1. Gated(r)' <=> Gated(r)
      BY <2>1 DEF Gated
    <3>2. Doing(r)'
      BY <1>2, <1>5, <1>11, <2>1, <3>1 DEF Doing
    <3> QED
      BY <1>2, <1>5, <1>6, <1>7, <2>1, <3>2 DEF Doing, Working, Chosen
  <2> QED
    BY <1>1, <2>1, <2>2 DEF RequestsTyped, Base
<1>8. CASE Tabs
  <2>1. UNCHANGED Requesting
    BY <1>8 DEF Tabs, OpenTab, CloseTab, Requesting
  <2>2. \A r \in Requests : ~Commit(r)
    BY <1>1, <1>5, <2>1, CommitsMove DEF Requesting
  <2> QED
    BY <1>7, <2>1, <2>2
<1>10. ASSUME NEW r \in Requests, Restart(r)
       PROVE  /\ RequestsTyped' /\ (exclusive' # Nothing => shared' = {})
              /\ \A q \in Requests : Doing(q)' /\ Working(q)'
  <2>1. /\ at[r] = "idle" /\ at' = [at EXCEPT ![r] = "registerWalk"] /\ op' = [op EXCEPT ![r] = "start"]
        /\ manager' = [manager EXCEPT ![r] = 2] /\ current = 1 /\ current' = 2
        /\ UNCHANGED <<open, opened, unsaved, selector, target, snap, gate, exclusive, shared>>
    BY <1>10 DEF Restart, MoveTo, world, locks
  <2>2. RequestsTyped'
    BY <1>1, <2>1 DEF RequestsTyped, Ats, Ops, Managers
  <2>3. op'[r] = "start" /\ at'[r] = "registerWalk" /\ manager'[r] = 2
    BY <1>1, <2>1 DEF RequestsTyped
  <2>4. op[r] = "read" /\ gate # r /\ exclusive # r /\ r \notin shared
    BY <1>1, <1>5, <2>1, PlacesTell DEF Doing, RequestsTyped, Gated, Mutations
  <2>5. Doing(r)' /\ Working(r)'
    BY <1>5, <2>1, <2>3, <2>4 DEF Doing, Working, PlacesOf, Registering, Gated, Mutations, Chosen
  <2>6. ASSUME NEW q \in Requests \ {r} PROVE Doing(q)' /\ Working(q)'
    <3>1. op'[q] = op[q] /\ at'[q] = at[q] /\ manager'[q] = manager[q]
      BY <1>1, <2>1 DEF RequestsTyped
    <3>2. Gated(q)' <=> Gated(q)
      BY <3>1 DEF Gated
    <3> QED
      BY <1>5, <1>11, <2>1, <3>1, <3>2 DEF Doing, Working
  <2> QED
    BY <2>1, <2>2, <2>5, <2>6 DEF Base
<1>9. ASSUME NEW r \in Requests, Acts(r)
      PROVE  /\ RequestsTyped' /\ (exclusive' # Nothing => shared' = {})
             /\ \A q \in Requests : Doing(q)' /\ Working(q)'
  <2>1. RequestsTyped' /\ Doing(r)' /\ Working(r)'
    <3>1. current' = current
      BY <1>1, <1>9, WorldActs
    <3> QED
      BY <1>1, <1>2, <1>3, <1>5, <1>9, <3>1, RequestStep
  <2>2. exclusive' # Nothing => shared' = {}
    BY <1>1, <1>5, <1>9, LocksExclude DEF Base
  <2>3. ASSUME NEW q \in Requests \ {r} PROVE Doing(q)' /\ Working(q)'
    <3>1. /\ op'[q] = op[q] /\ at'[q] = at[q] /\ manager'[q] = manager[q]
          /\ selector'[q] = selector[q] /\ target'[q] = target[q] /\ snap'[q] = snap[q]
          /\ gate' = q <=> gate = q
          /\ exclusive' = q <=> exclusive = q
          /\ q \in shared' <=> q \in shared
      BY <1>1, <1>5, <1>9, OthersStay
    <3>2. Doing(q)'
      <4>1. Gated(q)' <=> Gated(q)
        BY <3>1 DEF Gated
      <4> QED
        BY <1>2, <1>5, <1>11, <3>1, <4>1 DEF Doing
    <3>3. ASSUME op[q] = "save_database", at[q] = "forward" PROVE target[q] \in unsaved' => target[q] \in unsaved
      <4>1. Commit(r) => Gated(r)
        BY <1>1, <1>5, CommitsMove
      <4>2. \A p \in Requests : Commit(p) => p = r
        BY <1>1, <1>5, <1>9, OthersStay, CommitsMove
      <4> QED
        BY <1>5, <1>6, <3>3, <4>1, <4>2, OneGate DEF Gated, Pinning
    <3>4. Working(q)'
      BY <1>2, <1>5, <1>6, <3>1, <3>3 DEF Working
    <3> QED
      BY <3>2, <3>4
  <2> QED
    BY <2>1, <2>2, <2>3
<1> QED
  BY <1>8, <1>9, <1>10, Steps DEF Restarting

LEMMA BaseStutters ==
    ASSUME Base, UNCHANGED vars
    PROVE  Base'
BY DEF vars, world, ledger, locks, Base, Typed, Numbering, Doing, Working, Gated

\* Types, numbering, and where every request is with which locks.
THEOREM BaseInvariant == Spec => []Base
<1>1. Base /\ [Next]_vars => Base'
  <2> SUFFICES ASSUME Base, [Next]_vars PROVE Base'
    OBVIOUS
  <2>1. CASE Next
    BY <2>1, BaseStep
  <2>2. CASE UNCHANGED vars
    BY <2>2, BaseStutters
  <2> QED
    BY <2>1, <2>2
<1> QED
  BY <1>1, BaseInit, PTL DEF Spec

\* No two views of one manager share a stable id, whatever refreshes, restarts, lossy
\* walks and late requests do (bridge.py, TargetManager.refresh and succeed).
THEOREM IdsAreUnique == Spec => []IdsIdentifyViews
<1>1. Base => IdsIdentifyViews
  BY DEF Base, Numbering, IdsIdentifyViews
<1> QED
  BY <1>1, BaseInvariant, PTL

-----------------------------------------------------------------------------
(* A clean view reads clean, when the user leaves mutations their tab.       *)

\* While a view is open, only a save makes it clean.
LEMMA OnlySavesClean ==
    ASSUME Typed, Next, NEW v \in unsaved, v \in open', v \notin unsaved'
    PROVE  \E r \in Requests : /\ Acts(r) /\ at[r] = "save" /\ UpdateLedger(r)
                               /\ v = target[r]
<1>1. CASE Restarting
  BY <1>1 DEF Restarting, Restart, world
<1>2. CASE Tabs
  BY <1>2 DEF Tabs, OpenTab, CloseTab, Appear
<1>3. ASSUME NEW r \in Requests, Acts(r) PROVE at[r] = "save" /\ UpdateLedger(r) /\ v = target[r]
  BY <1>3, WorldActs DEF Commit, Appear, SaveView, CloseOpenView, world
<1> QED
  BY <1>1, <1>2, <1>3, Steps

\* What a selector means when it is not "active".
LEMMA SelectorsMean ==
    ASSUME RequestsTyped, LedgerTyped, WorldTyped, NEW r \in Requests, Doing(r), selector[r] # Active,
           NEW v \in Meant(r)
    PROVE  /\ v \in Views /\ v \in snap[r].views
           /\ selector[r] \in Views => v = selector[r]
           /\ selector[r] \notin Views =>
                 selector[r] \in Nat /\ selector[r] # 0 /\ ids[manager[r]][v] = selector[r]
<1>1. v \in snap[r].views /\ v \in Views /\ (v = selector[r] \/ ids[manager[r]][v] = selector[r])
  BY DEF Meant, Doing, WorldTyped
<1>2. ids[manager[r]][v] \in Nat /\ selector[r] \in Views \cup Nat /\ Views \cap Nat = {}
  BY <1>1, LedgerAssumption DEF LedgerTyped, RequestsTyped
<1> QED
  BY <1>1, <1>2 DEF Active

\* An id that one view answers to is never given to another one.
LEMMA PinsHold ==
    ASSUME RequestsTyped, LedgerTyped, LedgerTyped', NEW r \in Requests, NEW w \in Views, selector[r] # Active,
           selector[r] \notin Views, selector[r] < nextId[manager[r]], IdsMove(manager[r]),
           \A v \in Views : ids[manager[r]][v] = selector[r] => v = w
    PROVE  /\ selector[r] < nextId'[manager[r]]
           /\ \A v \in Views : ids'[manager[r]][v] = selector[r] => v = w
<1>1. /\ selector[r] \in Nat /\ selector[r] # 0 /\ manager[r] \in Managers
      /\ nextId[manager[r]] \in Nat /\ nextId'[manager[r]] \in Nat
  BY DEF RequestsTyped, LedgerTyped, Active
<1>2. selector[r] < nextId'[manager[r]]
  BY <1>1 DEF IdsMove
<1>3. ASSUME NEW v \in Views, ids'[manager[r]][v] = selector[r] PROVE v = w
  <2>1. ~(ids'[manager[r]][v] >= nextId[manager[r]])
    BY <1>1, <1>3
  <2> QED
    BY <1>1, <1>3, <2>1 DEF IdsMove
<1> QED
  BY <1>2, <1>3

\* What a mutation knows of its selector when a step leaves it its view.
LEMMA FaithfulKept ==
    ASSUME RequestsTyped, LedgerTyped, LedgerTyped', WorldTyped, NEW r \in Requests, Faithful(r), Doing(r),
           op[r] \in Mutations, IdsMove(manager[r]), manager'[r] = manager[r],
           selector'[r] = selector[r], target'[r] = target[r], at[r] \in Chosen, at'[r] \in Chosen,
           at'[r] \in Marking /\ target[r] \in open' => target[r] \in unsaved'
    PROVE  Faithful(r)'
<1>1. target[r] \in Views /\ selector[r] # Active
  BY DEF Doing, WorldTyped, Faithful, Chosen
<1>2. selector[r] \notin Views =>
         /\ selector[r] < nextId'[manager[r]]
         /\ \A v \in Views : ids'[manager[r]][v] = selector[r] => v = target[r]
  BY <1>1, PinsHold DEF Faithful
<1> QED
  BY <1>1, <1>2 DEF Faithful

LEMMA FaithfulOwn ==
    ASSUME "focus" \notin Surprises, Base, Next, NEW r \in Requests, Faithful(r), Acts(r)
    PROVE  Faithful(r)'
<1>1. /\ Typed /\ RequestsTyped /\ LedgerTyped /\ WorldTyped /\ Doing(r)
      /\ \A m \in Managers : Numbering(m)
  BY TypedParts DEF Base
<1>2. /\ LedgerTyped' /\ manager[r] \in Managers /\ IdsMove(manager[r])
  <2>1. manager[r] \in Managers /\ current \in Managers /\ manager[r] <= current
    BY <1>1 DEF RequestsTyped, WorldTyped, Doing
  <2>2. manager[r] \in 1 .. current
    BY <2>1 DEF Managers
  <2> QED
    BY <1>1, <2>1, <2>2, NumberingStep DEF Base
<1>3. Active \notin Views /\ Views \cap Nat = {}
  BY LedgerAssumption DEF Active
<1>4. CASE Done(r)
  BY <1>1, <1>4 DEF Done, Faithful, RequestsTyped, Mutations
<1>5. CASE Admit(r) \/ \E o \in Ops : BeginUnpinned(r, o)
  <2>1. \/ op'[r] = "read"
        \/ at'[r] = "pinWalk"
    BY <1>1, <1>5, PlacesTell DEF Admit, BeginUnpinned, MoveTo, RequestsTyped, Doing
  <2> QED
    BY <2>1 DEF Faithful, Mutations, Chosen, Marking
<1>6. ASSUME NEW o \in Ops, Begin(r, o) PROVE Faithful(r)'
  <2>1. op'[r] = o /\ at'[r] = "walk" /\ (o \in Mutations => selector'[r] \in Views)
    BY <1>1, <1>6 DEF Begin, MoveTo, RequestsTyped, Mutations
  <2> QED
    BY <1>3, <2>1 DEF Faithful, Chosen, Marking
<1>7. CASE BeginPinned(r)
  <2>1. op' = op /\ selector' = selector /\ at[r] = "pinned" /\ at'[r] = "walk"
    BY <1>1, <1>7 DEF BeginPinned, MoveTo, RequestsTyped
  <2> QED
    BY <2>1 DEF Faithful, Chosen, Marking
<1>8. CASE TakeSnapshot(r)
  <2>1. /\ UNCHANGED <<world, op, manager, selector, target>>
        /\ \/ at[r] = "pinWalk" /\ at'[r] = "pinApply"
           \/ at[r] = "walk" /\ at'[r] = "apply"
           \/ at[r] = "markWalk" /\ at'[r] = "markApply"
           \/ at[r] = "registerWalk" /\ at'[r] = "registerApply"
    BY <1>1, <1>8 DEF TakeSnapshot, MoveTo, RequestsTyped
  <2>2. CASE at[r] \in Chosen /\ op[r] \in Mutations
    BY <1>1, <1>2, <2>1, <2>2, FaithfulKept DEF Faithful, Marking, Chosen, world
  <2>3. CASE op[r] \notin Mutations
    BY <2>1, <2>3 DEF Faithful
  <2>4. CASE at[r] \notin Chosen
    BY <2>1, <2>4 DEF Faithful, Chosen, Marking
  <2> QED
    BY <2>2, <2>3, <2>4
<1>9. CASE Pin(r) /\ ~Done(r)
  <2>1. PICK v \in Views : /\ snap[r].views = {v}
                           /\ selector' = [selector EXCEPT ![r] = ids'[manager[r]][v]]
    BY <1>9 DEF Pin
  <2>2. RefreshLedger(manager[r], snap[r]) /\ opened' = opened /\ at'[r] = "pinned" /\ op' = op
    BY <1>1, <1>9 DEF Pin, MoveTo, RequestsTyped, world
  <2>3. snap[r] \in Snapshots /\ snap[r].views \subseteq opened /\ opened \subseteq Views
    BY <1>1 DEF RequestsTyped, Doing, WorldTyped
  <2>4. ids'[manager[r]][v] # 0
    BY <1>1, <1>2, <2>1, <2>2, <2>3, Refreshes
  <2>5. selector'[r] # Active
    BY <1>1, <2>1, <2>4 DEF RequestsTyped, Active
  <2> QED
    BY <2>2, <2>5 DEF Faithful, Chosen, Marking
<1>10. CASE ApplySnapshot(r) /\ ~Done(r)
  <2> SUFFICES ASSUME op'[r] \in Mutations PROVE Faithful(r)'
    BY DEF Faithful
  <2>1. op' = op /\ selector' = selector /\ manager' = manager /\ at[r] = "apply"
    BY <1>10 DEF ApplySnapshot
  <2>2. op[r] \in Mutations /\ selector[r] # Active
    BY <2>1 DEF Faithful
  <2>3. MoveTo(r, "commit") /\ \E v \in Reachable(r) : target' = [target EXCEPT ![r] = v]
    BY <1>10, <2>2 DEF ApplySnapshot, AfterResolve, Mutations
  <2>4. target'[r] \in Meant(r) /\ at'[r] = "commit"
    BY <1>1, <2>3 DEF MoveTo, RequestsTyped, Reachable
  <2>5. /\ target'[r] \in Views
        /\ selector[r] \in Views => target'[r] = selector[r]
        /\ selector[r] \notin Views =>
              selector[r] \in Nat /\ selector[r] # 0 /\ ids[manager[r]][target'[r]] = selector[r]
    BY <1>1, <2>2, <2>4, SelectorsMean
  <2>6. ASSUME selector[r] \notin Views
        PROVE  /\ selector[r] < nextId'[manager[r]]
               /\ \A v \in Views : ids'[manager[r]][v] = selector[r] => v = target'[r]
    <3>1. selector[r] < nextId[manager[r]]
      BY <1>1, <1>2, <2>5, <2>6 DEF Numbering
    <3>2. \A v \in Views : ids[manager[r]][v] = selector[r] => v = target'[r]
      BY <1>1, <1>2, <2>5, <2>6 DEF Numbering
    <3> QED
      BY <1>1, <1>2, <2>2, <2>5, <2>6, <3>1, <3>2, PinsHold
  <2> QED
    BY <2>1, <2>2, <2>4, <2>5, <2>6 DEF Faithful, Marking
<1>11. CASE Commit(r)
  <2>1. /\ op[r] \in Mutations /\ at[r] = "commit" /\ at'[r] \in {"markWalk", "mark"}
        /\ UNCHANGED <<open, op, manager, selector, target>>
        /\ unsaved' = unsaved \cup ({target[r]} \cap open)
    BY <1>1, <1>11, CommitsMove DEF Commit
  <2> QED
    BY <1>1, <1>2, <2>1, FaithfulKept DEF Chosen
<1>12. CASE ResolveForMark(r) /\ ~Done(r)
  <2>1. /\ UNCHANGED <<world, op, manager, selector>> /\ at[r] = "markApply" /\ op[r] = "mutation"
        /\ MoveTo(r, "mark") /\ \E v \in Meant(r) : target' = [target EXCEPT ![r] = v]
    BY <1>1, <1>12, PlacesTell DEF ResolveForMark, Doing, RequestsTyped
  <2>2. selector[r] # Active /\ target'[r] \in Meant(r) /\ at'[r] = "mark"
    BY <1>1, <2>1 DEF Faithful, MoveTo, RequestsTyped, Mutations
  <2>3. target'[r] = target[r]
    BY <1>1, <2>1, <2>2, SelectorsMean DEF Faithful, Mutations, Chosen
  <2> QED
    BY <1>1, <1>2, <2>1, <2>2, <2>3, FaithfulKept DEF Faithful, Mutations, Chosen, Marking, world
<1>13. CASE ~Done(r) /\ (UpdateLedger(r) \/ ForwardToSuccessor(r))
  <2>1. /\ at[r] \in {"mark", "save", "close", "forward"} /\ UNCHANGED <<op, manager, selector, target>>
        /\ at'[r] = "forward" \/ op[r] = "close_binary"
        /\ at[r] \in {"mark", "forward"} => UNCHANGED world
    BY <1>1, <1>13 DEF UpdateLedger, ForwardToSuccessor, AfterLedger, MoveTo, RequestsTyped, locks
  <2>2. op[r] \in Mutations => at[r] \in {"mark", "forward"} /\ at'[r] = "forward"
    BY <1>1, <2>1, PlacesTell DEF Doing, RequestsTyped, Mutations
  <2>3. CASE op[r] \in Mutations
    BY <1>1, <1>2, <2>1, <2>2, <2>3, FaithfulKept DEF Faithful, Chosen, Marking, world
  <2> QED
    BY <2>1, <2>3 DEF Faithful
<1> QED
  BY <1>4, <1>5, <1>6, <1>7, <1>8, <1>9, <1>10, <1>11, <1>12, <1>13
     DEF Acts, Abandon, Register

LEMMA FaithfulStep ==
    ASSUME "focus" \notin Surprises, Base, Next, \A r \in Requests : Faithful(r)
    PROVE  \A r \in Requests : Faithful(r)'
<1>1. Typed /\ RequestsTyped /\ LedgerTyped /\ WorldTyped /\ \A r \in Requests : Doing(r)
  BY TypedParts DEF Base
<1>2. \A v \in opened : v \in open' => v \in open
  BY <1>1, ViewsOnlyLeave
<1>3. ASSUME NEW q \in Requests, op'[q] = op[q], at'[q] = at[q], selector'[q] = selector[q],
             target'[q] = target[q], manager'[q] = manager[q]
      PROVE  Faithful(q)'
  <2>1. CASE op[q] \in Mutations /\ at[q] \in Chosen
    <3>1. ASSUME at[q] \in Marking, target[q] \in open' PROVE target[q] \in unsaved'
      <4>1. target[q] \in opened /\ Gated(q)
        BY <1>1, <2>1 DEF Doing, Chosen, Gated, Pinning
      <4>2. target[q] \in unsaved
        BY <1>2, <2>1, <3>1, <4>1 DEF Faithful
      <4>3. ASSUME NEW r \in Requests, at[r] = "save", UpdateLedger(r) PROVE FALSE
        <5>1. op[r] = "save_database"
          BY <1>1, <4>3, PlacesTell DEF Doing, RequestsTyped
        <5>2. Gated(r) /\ r # q
          BY <2>1, <4>3, <5>1 DEF Gated, Pinning, Mutations
        <5> QED
          BY <1>1, <4>1, <5>2, OneGate
      <4> QED
        BY <1>1, <3>1, <4>2, <4>3, OnlySavesClean
    <3>2. LedgerTyped' /\ IdsMove(manager[q])
      <4>1. manager[q] \in Managers /\ current \in Managers /\ manager[q] <= current
        BY <1>1 DEF RequestsTyped, WorldTyped, Doing
      <4>2. manager[q] \in 1 .. current
        BY <4>1 DEF Managers
      <4> QED
        BY <1>1, <4>2, NumberingStep DEF Base
    <3> QED
      BY <1>1, <1>3, <2>1, <3>1, <3>2, FaithfulKept
  <2>2. CASE op[q] \notin Mutations \/ at[q] \notin Chosen
    BY <1>3, <2>2 DEF Faithful, Chosen, Marking
  <2> QED
    BY <2>1, <2>2
<1>4. CASE Tabs
  BY <1>3, <1>4 DEF Tabs, OpenTab, CloseTab
<1>5. ASSUME NEW r \in Requests, Restart(r), NEW q \in Requests PROVE Faithful(q)'
  <2>1. CASE q = r
    BY <1>1, <1>5, <2>1 DEF Restart, RequestsTyped, Faithful, Mutations
  <2>2. CASE q # r
    BY <1>1, <1>3, <1>5, <2>2 DEF Restart, MoveTo, RequestsTyped
  <2> QED
    BY <2>1, <2>2
<1>6. ASSUME NEW r \in Requests, Acts(r), NEW q \in Requests PROVE Faithful(q)'
  <2>1. CASE q = r
    BY <1>6, <2>1, FaithfulOwn
  <2>2. CASE q # r
    BY <1>1, <1>3, <1>6, <2>2, OthersStay
  <2> QED
    BY <2>1, <2>2
<1> QED
  BY <1>4, <1>5, <1>6, Steps DEF Restarting

\* A save or a close that is to be forwarded stays so until it is.
LEMMA ClearsWait ==
    ASSUME Base, Next, NEW v \in Views, ClearPending(v)
    PROVE  ClearPending(v)' \/ (v \in open' => ~Marked(v)')
<1>1. Typed /\ RequestsTyped /\ LedgerTyped /\ (\A r \in Requests : Doing(r)) /\ \A m \in Managers : Numbering(m)
  BY TypedParts DEF Base
<1>2. PICK q \in Requests : target[q] = v /\ op[q] \in {"save_database", "close_binary"} /\ at[q] = "forward"
  BY DEF ClearPending
<1>3. CASE target'[q] = target[q] /\ op'[q] = op[q] /\ at'[q] = at[q]
  BY <1>2, <1>3 DEF ClearPending
<1>4. CASE Restarting \/ Tabs
  BY <1>1, <1>2, <1>3, <1>4 DEF Restarting, Restart, MoveTo, RequestsTyped, Tabs, OpenTab, CloseTab
<1>5. ASSUME NEW r \in Requests, Acts(r)
      PROVE  ClearPending(v)' \/ (v \in open' => ~Marked(v)')
  <2>1. CASE r # q
    BY <1>1, <1>3, <1>5, <2>1, OthersStay
  <2>2. CASE r = q
    <3>1. ForwardToSuccessor(r)
      BY <1>2, <1>5, <2>2 DEF Acts, Admit, Begin, BeginUnpinned, TakeSnapshot, Pin, BeginPinned,
            ApplySnapshot, Commit, Abandon, ResolveForMark, UpdateLedger, Register
    <3>2. (ClearDirty(current, v) \/ Forget(current, v)) /\ UNCHANGED <<world, current>>
      BY <1>2, <2>2, <3>1, ChangesAre DEF ForwardToSuccessor, Mutations
    <3>3. current \in Managers /\ opened' = opened
      BY <1>1, <3>2 DEF Typed, world
    <3>4. ids'[current][v] \notin dirty'[current]
      BY <1>1, <3>2, <3>3, Clears
    <3> QED
      BY <3>2, <3>4 DEF Marked
  <2> QED
    BY <2>1, <2>2
<1> QED
  BY <1>4, <1>5, Steps

LEMMA CleanStep ==
    ASSUME "focus" \notin Surprises, Base, Cleaning, Next
    PROVE  CleanViewIsNotMarked'
<1>1. /\ Typed /\ RequestsTyped /\ LedgerTyped /\ WorldTyped
      /\ (\A r \in Requests : Doing(r) /\ Faithful(r)) /\ \A m \in Managers : Numbering(m)
  BY TypedParts DEF Base, Cleaning
<1>2. SUFFICES ASSUME NEW v \in Views, v \in open', v \notin unsaved', Marked(v)'
               PROVE  ClearPending(v)'
  <2>1. open' \subseteq Views
    BY <1>1, WorldStep DEF WorldTyped
  <2> QED
    BY <1>2, <2>1 DEF CleanViewIsNotMarked
<1>3. SUFFICES ASSUME ~ClearPending(v) PROVE ClearPending(v)'
  BY <1>2, ClearsWait DEF Base
<1>4. ~MarkPending(v) \/ v \notin open \/ v \in unsaved
  BY <1>1 DEF MarkPending, Faithful, Marking
<1>5. ASSUME v \in opened PROVE v \in open /\ (v \in unsaved \/ ~Marked(v))
  <2>1. v \in open
    BY <1>1, <1>2, <1>5, ViewsOnlyLeave
  <2> QED
    BY <1>3, <1>4, <2>1 DEF Cleaning, CleanViewIsNotMarked
<1>6. ASSUME v \notin opened PROVE ids[current][v] = 0 /\ ~Marked(v)
  BY <1>1, <1>6 DEF Numbering, Marked, Typed
<1>7. ASSUME UNCHANGED ledger, current' = current, v \in unsaved => v \in unsaved' PROVE FALSE
  BY <1>2, <1>5, <1>6, <1>7 DEF Marked, ledger
<1>8. CASE Restarting
  <2>1. UNCHANGED world /\ current = 1 /\ current' = 2 /\ ids'[2] = ids[1] /\ dirty'[2] = dirty[1]
    BY <1>1, <1>8 DEF Restarting, Restart, LedgerTyped, Managers
  <2> QED
    BY <1>2, <1>5, <1>6, <2>1 DEF Marked, world
<1>9. CASE Tabs
  BY <1>2, <1>7, <1>9 DEF Tabs, OpenTab, CloseTab, Appear
<1>10. ASSUME NEW r \in Requests, Acts(r) PROVE ClearPending(v)'
  <2>1. current' = current /\ current \in Managers /\ manager[r] \in Managers
    BY <1>1, <1>10, WorldActs DEF Typed
  <2>2. CASE v \in unsaved
    <3>1. UpdateLedger(r) /\ at[r] = "save" /\ v = target[r]
      <4>1. PICK q \in Requests : Acts(q) /\ at[q] = "save" /\ UpdateLedger(q) /\ v = target[q]
        BY <1>1, <1>2, <2>2, OnlySavesClean
      <4>2. at'[q] # at[q]
        BY <1>1, <4>1 DEF UpdateLedger, AfterLedger, Done, MoveTo, RequestsTyped
      <4>3. q = r
        BY <1>1, <1>10, <4>2, OthersStay
      <4> QED
        BY <4>1, <4>3
    <3>2. op[r] = "save_database"
      BY <1>1, <3>1, PlacesTell DEF Doing, RequestsTyped
    <3>3. CASE HasSuccessor(manager[r])
      <4>1. op'[r] = op[r] /\ target'[r] = target[r] /\ at'[r] = "forward"
        BY <1>1, <3>1, <3>3 DEF UpdateLedger, MoveTo, RequestsTyped
      <4> QED
        BY <3>1, <3>2, <4>1 DEF ClearPending
    <3>4. CASE ~HasSuccessor(manager[r])
      <4>1. (ClearDirty(current, v) \/ Forget(current, v)) /\ opened' = opened
        BY <3>1, <3>2, <3>4, ChangesAre DEF UpdateLedger, HasSuccessor, SaveView, Mutations
      <4>2. ids'[current][v] \notin dirty'[current]
        BY <1>1, <2>1, <4>1, Clears
      <4> QED
        BY <1>2, <2>1, <4>2 DEF Marked
    <3> QED
      BY <3>3, <3>4
  <2>3. CASE v \notin unsaved
    <3>1. ~Marked(v)
      BY <1>5, <1>6, <2>3
    <3>2. CASE UNCHANGED ledger
      BY <1>7, <2>1, <2>3, <3>2
    <3>3. CASE UNCHANGED <<world, current>> /\ RefreshLedger(manager[r], snap[r])
      <4>1. snap[r] \in Snapshots /\ snap[r].views \subseteq opened /\ opened' = opened /\ opened \subseteq Views
        BY <1>1, <3>3 DEF WorldTyped, world, Doing, RequestsTyped
      <4>2. Only(manager[r]) /\ (ids'[manager[r]][v] \in dirty'[manager[r]] => ids[manager[r]][v] \in dirty[manager[r]])
        BY <1>1, <2>1, <3>3, <4>1, Refreshes
      <4> QED
        BY <1>2, <2>1, <3>1, <4>2 DEF Marked, Only
    <3>4. ASSUME NEW m \in Managers, at[r] \in {"mark", "save", "close", "forward"}, ChangeLedger(r, m),
                 opened' = opened, at[r] \in {"mark", "forward"} => UNCHANGED world
          PROVE  FALSE
      <4>1. target[r] \in Views
        BY <1>1, <3>4 DEF Doing, WorldTyped, Chosen
      <4>2. CASE op[r] \in Mutations /\ MarkDirty(m, target[r])
        <5>1. at[r] \in {"mark", "forward"}
          BY <1>1, <3>4, <4>2, PlacesTell DEF Doing, RequestsTyped, Mutations
        <5>2. v = target[r] => v \in unsaved
          BY <1>1, <1>2, <3>4, <4>2, <5>1 DEF Faithful, Marking, world
        <5>3. Only(m) /\ ids' = ids /\ (v # target[r] /\ ids[m][v] \in dirty'[m] => ids[m][v] \in dirty[m])
          BY <1>1, <3>4, <4>1, <4>2, Marks
        <5> QED
          BY <1>2, <2>1, <2>3, <3>1, <5>2, <5>3 DEF Marked, Only
      <4>3. CASE ClearDirty(m, target[r]) \/ Forget(m, target[r])
        <5>1. /\ Only(m)
              /\ v = target[r] => ids'[m][v] \notin dirty'[m]
              /\ v # target[r] => (ids'[m][v] \in dirty'[m] <=> ids[m][v] \in dirty[m])
          BY <1>1, <3>4, <4>1, <4>3, Clears
        <5> QED
          BY <1>2, <2>1, <3>1, <5>1 DEF Marked, Only
      <4> QED
        BY <3>4, <4>2, <4>3, ChangesAre
    <3>5. at[r] = "mark" => UNCHANGED world
      BY <1>10 DEF Acts, Admit, Begin, BeginUnpinned, TakeSnapshot, Pin, BeginPinned, ApplySnapshot,
           Commit, Abandon, ResolveForMark, UpdateLedger, ForwardToSuccessor, Register
    <3> QED
      BY <1>1, <1>10, <2>1, <3>2, <3>3, <3>4, <3>5, LedgerActs DEF world
  <2> QED
    BY <2>2, <2>3
<1> QED
  BY <1>8, <1>9, <1>10, Steps

\* As long as the user changes no tab under a mutation that named "active", a view that
\* has no unsaved work reads clean, or a request is about to say so (bridge.py,
\* TargetManager.clear_dirty and forget_view).
THEOREM CleanViewsReadClean ==
    ASSUME "focus" \notin Surprises
    PROVE  Spec => []CleanViewIsNotMarked
<1>1. Init => Base /\ Cleaning
  <2> SUFFICES ASSUME Init PROVE Base /\ Cleaning
    OBVIOUS
  <2>1. Cleaning
    BY DEF Init, Cleaning, Faithful, Mutations, CleanViewIsNotMarked
  <2> QED
    BY <2>1, BaseInit
<1>2. Base /\ Cleaning /\ [Next]_vars => (Base /\ Cleaning)'
  <2> SUFFICES ASSUME Base, Cleaning, [Next]_vars PROVE (Base /\ Cleaning)'
    OBVIOUS
  <2>1. CASE Next
    <3>1. \A r \in Requests : Faithful(r)'
      BY <2>1, FaithfulStep DEF Cleaning
    <3> QED
      BY <2>1, <3>1, BaseStep, CleanStep DEF Cleaning
  <2>2. CASE UNCHANGED vars
    <3>1. Base'
      BY <2>2, BaseStutters
    <3>2. Cleaning'
      BY <2>2 DEF vars, world, ledger, locks, Cleaning, Faithful, CleanViewIsNotMarked, Marked,
                  MarkPending, ClearPending
    <3> QED
      BY <3>1, <3>2
  <2> QED
    BY <2>1, <2>2
<1>3. Cleaning => CleanViewIsNotMarked
  BY DEF Cleaning
<1> QED
  BY <1>1, <1>2, <1>3, PTL DEF Spec

-----------------------------------------------------------------------------
(* The id of a view with unsaved work, when no refresh without a lock        *)
(* forgets a view in use.                                                    *)

\* Whoever commits keeps every other refresh with a snapshot away.
LEMMA CommitsSeeNoSnapshot ==
    ASSUME Base, NEW r \in Requests, Commit(r), NEW q \in Requests, at[q] \in Pending, ~Unlocked(q)
    PROVE  FALSE
<1>1. RequestsTyped /\ Doing(r) /\ Doing(q)
  BY TypedParts DEF Base
<1>2. op[r] \in Mutations /\ Gated(r) /\ at[r] = "commit"
  BY <1>1, CommitsMove
<1>3. exclusive \in {r, Nothing} /\ shared = {}
  BY <1>1, <1>2, LedgerAssumption DEF Base, Commit, Doing, Mutations
<1>4. q # r /\ ~Gated(q) /\ exclusive # q /\ q \notin shared
  BY <1>1, <1>2, <1>3, OneGate, LedgerAssumption DEF Pending
<1>5. op[q] \in {"start", "read", "load_binary"}
  BY <1>1, <1>4 DEF Gated, Unlocked, Pending, Pinning, RequestsTyped, Ops
<1>6. at[q] \notin {"pinApply", "markApply", "registerApply"}
  BY <1>1, <1>5, PlacesTell DEF Doing, Unlocked, RequestsTyped, Mutations
<1> QED
  BY <1>1, <1>4, <1>5, <1>6 DEF Doing, Pending, PlacesOf, Registering

\* Only a walk leaves a request with a snapshot.
LEMMA OnlyWalksPend ==
    ASSUME RequestsTyped, NEW r \in Requests, Doing(r), Acts(r), ~TakeSnapshot(r)
    PROVE  at'[r] \notin Pending
<1>1. ASSUME NEW p, MoveTo(r, p), p \notin Pending PROVE at'[r] \notin Pending
  BY <1>1 DEF MoveTo, RequestsTyped
<1>2. CASE Done(r)
  BY <1>1, <1>2 DEF Done, Pending
<1>3. CASE Admit(r) \/ BeginPinned(r) \/ \E o \in Ops : Begin(r, o) \/ BeginUnpinned(r, o)
  BY <1>1, <1>3 DEF Admit, Begin, BeginUnpinned, BeginPinned, Pending
<1>4. CASE ApplySnapshot(r)
  <2>1. \A o \in DOMAIN AfterResolve : AfterResolve[o] \notin Pending
    BY DEF AfterResolve, Pending
  <2>2. "registerWalk" \notin Pending
    BY DEF Pending
  <2> QED
    BY <1>1, <1>2, <1>4, <2>1, <2>2 DEF ApplySnapshot
<1>5. CASE Commit(r)
  BY <1>5, CommitsMove DEF Pending
<1>6. CASE Pin(r) \/ Abandon(r) \/ ResolveForMark(r) \/ Register(r)
  BY <1>1, <1>2, <1>6 DEF Pin, Abandon, ResolveForMark, Register, Pending
<1>7. CASE UpdateLedger(r) \/ ForwardToSuccessor(r)
  BY <1>1, <1>2, <1>7 DEF UpdateLedger, ForwardToSuccessor, AfterLedger, Pending
<1> QED
  BY <1>3, <1>4, <1>5, <1>6, <1>7 DEF Acts

LEMMA CoveringStep ==
    ASSUME Base, Covering, Next
    PROVE  Covering'
<1>1. Typed /\ RequestsTyped /\ \A r \in Requests : Doing(r)
  BY TypedParts DEF Base
<1> DEFINE Covers(q) == at[q] \in Pending /\ ~Unlocked(q) /\ snap[q].complete => unsaved \subseteq snap[q].views
<1>2. SUFFICES ASSUME NEW q \in Requests PROVE Covers(q)'
  BY DEF Covering
<1>3. ASSUME op'[q] = op[q], at'[q] = at[q], snap'[q] = snap[q] PROVE Covers(q)'
  <2>1. at[q] \in Pending /\ ~Unlocked(q) => unsaved' \subseteq unsaved
    BY <1>1, ViewsOnlyLeave, CommitsSeeNoSnapshot
  <2>2. Unlocked(q)' <=> Unlocked(q)
    BY <1>3 DEF Unlocked
  <2> QED
    BY <1>3, <2>1, <2>2 DEF Covering
<1>4. CASE Tabs
  BY <1>3, <1>4 DEF Tabs, OpenTab, CloseTab
<1>5. ASSUME NEW r \in Requests, Restart(r) PROVE Covers(q)'
  <2>1. CASE q = r
    BY <1>1, <1>5, <2>1 DEF Restart, MoveTo, RequestsTyped, Pending
  <2>2. CASE q # r
    BY <1>1, <1>3, <1>5, <2>2 DEF Restart, MoveTo, RequestsTyped
  <2> QED
    BY <2>1, <2>2
<1>6. ASSUME NEW r \in Requests, Acts(r) PROVE Covers(q)'
  <2>1. CASE q # r
    BY <1>1, <1>3, <1>6, <2>1, OthersStay
  <2>2. CASE q = r
    <3>1. CASE TakeSnapshot(r)
      <4>1. /\ \E s \in Snapshots : (s.complete => s.views = open) /\ snap' = [snap EXCEPT ![r] = s]
            /\ UNCHANGED world
        BY <3>1, SnapshotTypes DEF TakeSnapshot
      <4>2. snap'[r].complete => snap'[r].views = open
        BY <1>1, <4>1 DEF RequestsTyped
      <4> QED
        BY <1>1, <2>2, <4>1, <4>2 DEF world, Typed
    <3>2. CASE ~TakeSnapshot(r)
      <4>1. at'[r] \notin Pending
        BY <1>1, <1>6, <3>2, OnlyWalksPend
      <4> QED
        BY <2>2, <4>1
    <3> QED
      BY <3>1, <3>2
  <2> QED
    BY <2>1, <2>2
<1> QED
  BY <1>4, <1>5, <1>6, Steps DEF Restarting

LEMMA CoveringStutters ==
    ASSUME Covering, UNCHANGED vars
    PROVE  Covering'
BY DEF Covering, Unlocked, vars, world, locks

\* What a step leaves of the ids and the mark of an open view in use that is in every
\* snapshot taken under a lock.
LEMMA LedgerKeeps ==
    ASSUME "stalePin" \notin Surprises, "staleRegistry" \notin Surprises, Base, Next,
           NEW v \in open, v \in open', v \in InUse,
           \A q \in Requests : at[q] \in Pending /\ ~Unlocked(q) /\ snap[q].complete => v \in snap[q].views
    PROVE  /\ \A m \in 1 .. current : ids[m][v] # 0 => ids'[m][v] = ids[m][v]
           /\ ids[current][v] # 0 => ids'[current'][v] = ids[current][v]
           /\ Marked(v) /\ v \in unsaved /\ v \in unsaved' => Marked(v)'
<1>1. /\ Typed /\ RequestsTyped /\ LedgerTyped /\ WorldTyped
      /\ (\A r \in Requests : Doing(r) /\ Working(r)) /\ \A m \in Managers : Numbering(m)
  BY TypedParts DEF Base
<1>2. v \in Views /\ current \in 1 .. current /\ 1 .. current \subseteq Managers
  BY <1>1 DEF WorldTyped, Managers
<1> DEFINE Stays == /\ \A m \in 1 .. current : ids[m][v] # 0 => ids'[m][v] = ids[m][v]
                    /\ ids[current][v] # 0 => ids'[current'][v] = ids[current][v]
                    /\ Marked(v) /\ v \in unsaved /\ v \in unsaved' => Marked(v)'
<1>3. CASE Restarting
  <2>1. /\ current = 1 /\ current' = 2
        /\ ids' = [ids EXCEPT ![2] = ids[1]] /\ dirty' = [dirty EXCEPT ![2] = dirty[1]]
    BY <1>3 DEF Restarting, Restart
  <2>2. ids'[1] = ids[1] /\ ids'[2] = ids[1] /\ dirty'[2] = dirty[1]
    BY <1>1, <2>1 DEF LedgerTyped, Managers
  <2> QED
    BY <2>1, <2>2 DEF Marked
<1>4. ASSUME UNCHANGED ledger, current' = current PROVE Stays
  BY <1>4 DEF ledger, Marked
<1>5. CASE Tabs
  BY <1>4, <1>5 DEF Tabs, OpenTab, CloseTab
<1>6. ASSUME NEW r \in Requests, Acts(r) PROVE Stays
  <2>1. current' = current /\ current \in Managers /\ manager[r] \in Managers
    BY <1>1, <1>6, WorldActs DEF Typed
  <2>2. ASSUME NEW m \in Managers, Only(m), ids[m][v] # 0 => ids'[m][v] = ids[m][v],
               ids[m][v] \in dirty[m] /\ v \in unsaved /\ v \in unsaved' => ids'[m][v] \in dirty'[m]
        PROVE  Stays
    <3>1. \A n \in Managers : ids[n][v] # 0 => ids'[n][v] = ids[n][v]
      BY <2>2 DEF Only
    <3>2. Marked(v) /\ v \in unsaved /\ v \in unsaved' => Marked(v)'
      BY <2>1, <2>2 DEF Only, Marked
    <3> QED
      BY <1>2, <2>1, <3>1, <3>2
  <2>4. ASSUME UNCHANGED <<world, current>>, RefreshLedger(manager[r], snap[r]), at[r] \in Pending,
               Unlocked(r) => OnTime(r)
        PROVE  Stays
    <3>1. /\ snap[r].views \subseteq opened /\ opened' = opened /\ opened \subseteq Views
          /\ snap[r] \in Snapshots
      BY <1>1, <2>4 DEF WorldTyped, world, Doing, RequestsTyped
    <3>2. snap[r].complete => v \in snap[r].views
      BY <2>4 DEF OnTime
    <3>3. /\ Only(manager[r])
          /\ ids[manager[r]][v] # 0 => ids'[manager[r]][v] = ids[manager[r]][v]
          /\ ids[manager[r]][v] \in dirty[manager[r]] => ids'[manager[r]][v] \in dirty'[manager[r]]
      BY <1>1, <1>2, <2>1, <2>4, <3>1, <3>2, Refreshes
    <3> QED
      BY <2>1, <2>2, <3>3
  <2>5. ASSUME NEW m \in Managers, at[r] \in {"mark", "save", "close", "forward"}, ChangeLedger(r, m),
               opened' = opened, op[r] = "close_binary" => v # target[r],
               op[r] = "save_database" => v # target[r] \/ v \notin unsaved \/ v \notin unsaved'
        PROVE  Stays
    <3>1. target[r] \in Views
      BY <1>1, <2>5 DEF Doing, WorldTyped, Chosen
    <3>2. CASE op[r] \in Mutations
      <4>1. MarkDirty(m, target[r])
        BY <2>5, <3>2, ChangesAre DEF Mutations
      <4>2. Only(m) /\ ids' = ids /\ \A n \in dirty[m] : n \in dirty'[m]
        BY <1>1, <2>5, <3>1, <4>1, Marks
      <4> QED
        BY <2>2, <4>2
    <3>3. CASE op[r] \notin Mutations
      <4>1. ClearDirty(m, target[r]) \/ Forget(m, target[r])
        BY <2>5, <3>3, ChangesAre
      <4>2. /\ Only(m) /\ (ClearDirty(m, target[r]) => ids' = ids)
            /\ v # target[r] => /\ ids'[m][v] = ids[m][v]
                                /\ ids'[m][v] \in dirty'[m] <=> ids[m][v] \in dirty[m]
        BY <1>1, <1>2, <2>5, <3>1, <4>1, Clears
      <4>3. CASE v # target[r]
        BY <2>2, <4>2, <4>3
      <4>4. CASE v = target[r]
        <5>1. ClearDirty(m, target[r]) /\ (v \notin unsaved \/ v \notin unsaved')
          BY <2>5, <3>3, <4>4 DEF ChangeLedger
        <5> QED
          BY <2>2, <4>2, <5>1
      <4> QED
        BY <4>3, <4>4
    <3> QED
      BY <3>2, <3>3
  <2>6. at[r] \in {"close", "save"} => (v # target[r] \/ v \notin unsaved' \/ UNCHANGED ledger)
    BY <1>6 DEF Acts, Admit, Begin, BeginUnpinned, TakeSnapshot, Pin, BeginPinned, ApplySnapshot, Commit,
         Abandon, ResolveForMark, UpdateLedger, ForwardToSuccessor, Register, CloseOpenView, SaveView
  <2>7. at[r] = "close" => (v # target[r] \/ UNCHANGED ledger)
    BY <1>6 DEF Acts, Admit, Begin, BeginUnpinned, TakeSnapshot, Pin, BeginPinned, ApplySnapshot, Commit,
         Abandon, ResolveForMark, UpdateLedger, ForwardToSuccessor, Register, CloseOpenView
  <2>8. /\ at[r] = "mark" => op[r] \in Mutations
        /\ at[r] = "save" => op[r] = "save_database"
        /\ at[r] = "close" => op[r] = "close_binary"
    BY <1>1, PlacesTell DEF Doing, RequestsTyped
  <2>9. at[r] = "forward" => /\ op[r] = "close_binary" => v # target[r]
                             /\ op[r] = "save_database" => v # target[r] \/ v \notin unsaved
    BY <1>1 DEF Working
  <2>10. CASE UNCHANGED ledger
    BY <1>4, <2>1, <2>10
  <2>11. ASSUME NEW m \in Managers, at[r] \in {"mark", "save", "close", "forward"}, ChangeLedger(r, m),
                opened' = opened, ~UNCHANGED ledger
         PROVE  Stays
    BY <2>5, <2>6, <2>7, <2>8, <2>9, <2>11 DEF Mutations
  <2> QED
    BY <1>1, <1>6, <2>1, <2>4, <2>10, <2>11, LedgerActs DEF world
<1> QED
  BY <1>3, <1>5, <1>6, Steps

LEMMA IdStep ==
    ASSUME "stalePin" \notin Surprises, "staleRegistry" \notin Surprises, Base, Covering, Next,
           NEW v \in unsaved, v \in open', ids[current][v] # 0
    PROVE  ids'[current'][v] = ids[current][v]
<1>1. v \in open /\ v \in InUse
  BY DEF Base, Typed, InUse
<1> QED
  BY <1>1, LedgerKeeps DEF Covering

\* As long as no refresh that holds no lock forgets a view in use, a view with unsaved work
\* keeps its stable id, whatever the refreshes with a lock, other requests and a restart do
\* (bridge.py, TargetManager.refresh and succeed).
THEOREM UnsavedIdsAreStable ==
    ASSUME "stalePin" \notin Surprises, "staleRegistry" \notin Surprises
    PROVE  Spec => UnsavedIdIsStable
<1>1. Init => Base /\ Covering
  <2> SUFFICES ASSUME Init PROVE Base /\ Covering
    OBVIOUS
  <2>1. Covering
    BY DEF Init, Covering, Pending
  <2> QED
    BY <2>1, BaseInit
<1>2. Base /\ Covering /\ [Next]_vars => (Base /\ Covering)'
  BY BaseStep, BaseStutters, CoveringStep, CoveringStutters
<1>3. Base /\ Covering /\ [Next]_vars =>
         [\A v \in (open \cap unsaved) \cap (open' \cap unsaved') :
             ids[current][v] # 0 => ids'[current'][v] = ids[current][v]]_vars
  BY IdStep
<1> QED
  BY <1>1, <1>2, <1>3, PTL DEF Spec, UnsavedIdIsStable

-----------------------------------------------------------------------------
(* Unsaved work stays marked, when none of the surprises happens.            *)

AllTold == Base /\ Cleaning /\ Covering /\ Keeping

\* A mutation that is about to look its view up is alone with its snapshot, those that
\* were taken without a lock aside.
LEMMA NobodyElsePends ==
    ASSUME Base, NEW r \in Requests, Gated(r), exclusive = r, NEW q \in Requests \ {r}
    PROVE  at[q] \in Pending => Unlocked(q)
<1>1. RequestsTyped /\ Doing(r) /\ Doing(q)
  BY TypedParts DEF Base
<1>2. SUFFICES ASSUME at[q] \in Pending, ~Unlocked(q) PROVE FALSE
  OBVIOUS
<1>3. ~Gated(q) /\ exclusive # q /\ q \notin shared
  BY <1>1, OneGate, LedgerAssumption DEF Base
<1>4. op[q] \in {"start", "read", "load_binary"}
  BY <1>1, <1>2, <1>3 DEF Gated, Unlocked, Pending, Pinning, RequestsTyped, Ops
<1>5. at[q] \notin {"pinApply", "markApply", "registerApply"}
  BY <1>1, <1>2, <1>4, PlacesTell DEF Doing, Unlocked, RequestsTyped, Mutations
<1> QED
  BY <1>1, <1>2, <1>3, <1>4, <1>5 DEF Doing, Pending, PlacesOf, Registering

\* The view of a mutation keeps what it has, whoever else works.
LEMMA CoveredStays ==
    ASSUME Surprises = {}, Base, AllTold, Next, NEW r \in Requests, op[r] \in Mutations, at[r] \in Chosen,
           target[r] \in open', RequestsTyped'
    PROVE  /\ target[r] \in open /\ target[r] \in Views
           /\ ids'[current'][target[r]] # 0
           /\ selector[r] \notin Views => ids'[manager[r]][target[r]] = selector[r]
           /\ \A q \in Requests : at'[q] \in Pending /\ ~Unlocked(q)' /\ snap'[q].complete =>
                 target[r] \in snap'[q].views
<1>1. Typed /\ RequestsTyped /\ WorldTyped /\ \A q \in Requests : Doing(q)
  BY TypedParts DEF Base
<1>2. target[r] \in opened /\ target[r] \in open /\ target[r] \in Views /\ target[r] \in InUse
  BY <1>1, ViewsOnlyLeave DEF Doing, WorldTyped, InUse
<1>3. /\ ids[current][target[r]] # 0
      /\ selector[r] \notin Views => ids[manager[r]][target[r]] = selector[r]
      /\ \A q \in Requests : at[q] \in Pending /\ ~Unlocked(q) /\ snap[q].complete => target[r] \in snap[q].views
  BY <1>2 DEF AllTold, Keeping, Covered
<1>4. /\ ids'[current'][target[r]] # 0
      /\ \A m \in 1 .. current : ids[m][target[r]] # 0 => ids'[m][target[r]] = ids[m][target[r]]
  BY <1>2, <1>3, LedgerKeeps
<1>5. selector[r] \notin Views => ids'[manager[r]][target[r]] = selector[r]
  <2>1. selector[r] # 0
    BY DEF AllTold, Cleaning, Faithful, Active, Chosen
  <2>2. manager[r] \in 1 .. current
    BY <1>1 DEF RequestsTyped, WorldTyped, Managers, Doing
  <2> QED
    BY <1>3, <1>4, <2>1, <2>2
<1>6. ASSUME NEW q \in Requests, at'[q] \in Pending, ~Unlocked(q)', snap'[q].complete
      PROVE  target[r] \in snap'[q].views
  <2>1. CASE at'[q] = at[q] /\ op'[q] = op[q] /\ snap'[q] = snap[q]
    <3>1. ~Unlocked(q)
      BY <1>6, <2>1 DEF Unlocked
    <3> QED
      BY <1>3, <1>6, <2>1, <3>1
  <2>2. CASE Tabs
    BY <2>1, <2>2 DEF Tabs, OpenTab, CloseTab
  <2>3. ASSUME NEW p \in Requests, Restart(p) PROVE target[r] \in snap'[q].views
    <3>1. at'[p] = "registerWalk" /\ (p # q => at'[q] = at[q] /\ op'[q] = op[q] /\ snap'[q] = snap[q])
      BY <1>1, <2>3 DEF Restart, MoveTo, RequestsTyped
    <3> QED
      BY <1>6, <2>1, <3>1 DEF Pending
  <2>4. ASSUME NEW p \in Requests, Acts(p) PROVE target[r] \in snap'[q].views
    <3>1. CASE p # q
      BY <1>1, <2>1, <2>4, <3>1, OthersStay
    <3>2. CASE p = q
      <4>1. TakeSnapshot(q)
        BY <1>1, <1>6, <2>4, <3>2, OnlyWalksPend
      <4>2. \E s \in Snapshots : (s.complete => s.views = open) /\ snap' = [snap EXCEPT ![q] = s]
        BY <4>1, SnapshotTypes DEF TakeSnapshot
      <4> QED
        BY <1>1, <1>2, <1>6, <4>2 DEF RequestsTyped
    <3> QED
      BY <3>1, <3>2
  <2> QED
    BY <2>2, <2>3, <2>4, Steps DEF Restarting
<1> QED
  BY <1>2, <1>4, <1>5, <1>6

\* A mutation that picks its view picks one with an id, the one it was pinned to.
LEMMA CoveredStarts ==
    ASSUME Surprises = {}, Base, AllTold, NEW r \in Requests, ApplySnapshot(r), ~Done(r),
           op[r] \in Mutations
    PROVE  /\ target'[r] \in Views /\ ids'[current][target'[r]] # 0 /\ at'[r] = "commit"
           /\ selector[r] \notin Views => ids'[manager[r]][target'[r]] = selector[r]
           /\ UNCHANGED <<op, selector, manager>>
           /\ \A q \in Requests : at'[q] \in Pending => Unlocked(q)'
<1>1. Typed /\ LedgerTyped /\ RequestsTyped /\ WorldTyped /\ (\A q \in Requests : Doing(q))
      /\ \A m \in Managers : Numbering(m)
  BY TypedParts DEF Base
<1>2. PICK v \in Reachable(r) : target' = [target EXCEPT ![r] = v]
  BY DEF ApplySnapshot, Mutations
<1>3. /\ MoveTo(r, "commit") /\ at[r] = "apply" /\ RefreshLedger(manager[r], snap[r]) /\ UNCHANGED world
      /\ UNCHANGED <<op, selector, manager>>
  BY DEF ApplySnapshot, AfterResolve, Mutations
<1>4. /\ v \in snap[r].views /\ v \in Views
      /\ manager[r] = current \/ ids[current][v] # 0
      /\ selector[r] \notin Views => selector[r] # 0 /\ ids[manager[r]][v] = selector[r]
  <2>1. selector[r] # Active
    BY <1>3 DEF AllTold, Cleaning, Faithful
  <2>2. v \in Meant(r) /\ (manager[r] = current \/ ids[current][v] # 0)
    BY DEF Reachable
  <2> QED
    BY <1>1, <2>1, <2>2, SelectorsMean
<1>5. /\ Only(manager[r]) /\ ids'[manager[r]][v] # 0
      /\ ids[manager[r]][v] # 0 => ids'[manager[r]][v] = ids[manager[r]][v]
  <2>1. snap[r] \in Snapshots /\ manager[r] \in Managers /\ snap[r].views \subseteq opened
        /\ opened \subseteq Views /\ opened' = opened
    BY <1>1, <1>3 DEF RequestsTyped, WorldTyped, Doing, world
  <2> QED
    BY <1>1, <1>3, <1>4, <2>1, Refreshes
<1>6. ids'[current][v] # 0
  BY <1>1, <1>4, <1>5 DEF Only, Typed
<1>7. exclusive = r /\ Gated(r)
  BY <1>1, <1>3 DEF Doing, Mutations, Gated, Pinning
<1>8. ASSUME NEW q \in Requests PROVE at'[q] \in Pending => Unlocked(q)'
  <2>1. CASE q = r
    BY <1>1, <1>3, <2>1 DEF MoveTo, RequestsTyped, Pending
  <2>2. CASE q # r
    <3>1. at'[q] = at[q] /\ op'[q] = op[q]
      BY <1>1, <1>3, <2>2 DEF MoveTo, RequestsTyped
    <3>2. at[q] \in Pending => Unlocked(q)
      BY <1>7, <2>2, NobodyElsePends
    <3> QED
      BY <3>1, <3>2 DEF Unlocked
  <2> QED
    BY <2>1, <2>2
<1>9. target'[r] = v /\ at'[r] = "commit"
  BY <1>1, <1>2, <1>3 DEF MoveTo, RequestsTyped
<1> QED
  BY <1>3, <1>4, <1>5, <1>6, <1>8, <1>9

\* Elsewhere a mutation keeps the view that it picked.
LEMMA TargetsStay ==
    ASSUME "focus" \notin Surprises, AllTold, Next, NEW r \in Requests, Acts(r), ~Done(r),
           op'[r] \in Mutations, at'[r] \in Chosen
    PROVE  /\ op[r] \in Mutations
           /\ at[r] \in Chosen => target'[r] = target[r] /\ selector' = selector /\ manager' = manager
           /\ at[r] \notin Chosen => ApplySnapshot(r)
<1>1. RequestsTyped /\ LedgerTyped /\ WorldTyped /\ Doing(r) /\ Faithful(r)
  BY TypedParts DEF AllTold, Base, Cleaning
<1>2. at'[r] \notin {"admitted", "pinWalk", "pinApply", "pinned", "walk", "apply"}
  BY DEF Chosen
<1>3. ~Admit(r) /\ ~BeginPinned(r) /\ \A o \in Ops : ~Begin(r, o) /\ ~BeginUnpinned(r, o)
  BY <1>1, <1>2 DEF Admit, Begin, BeginUnpinned, BeginPinned, MoveTo, RequestsTyped
<1>4. ~Pin(r)
  BY <1>1, <1>2 DEF Pin, MoveTo, RequestsTyped
<1>5. op' = op /\ selector' = selector /\ manager' = manager
  BY <1>3, <1>4 DEF Acts, TakeSnapshot, ApplySnapshot, Commit, Abandon, ResolveForMark, UpdateLedger,
        ForwardToSuccessor, AfterLedger, Register
<1>6. at[r] \in Chosen => target'[r] = target[r]
  <2>1. CASE ResolveForMark(r)
    <3>1. PICK v \in Meant(r) : target' = [target EXCEPT ![r] = v]
      BY <2>1 DEF ResolveForMark
    <3>2. target'[r] = v
      BY <1>1, <3>1 DEF RequestsTyped
    <3>3. op[r] \in Mutations /\ at[r] \in Chosen
      BY <1>5, <2>1 DEF ResolveForMark, Chosen
    <3>4. selector[r] # Active
      BY <1>1, <3>3 DEF Faithful, Chosen
    <3> QED
      BY <1>1, <3>1, <3>2, <3>3, <3>4, SelectorsMean DEF Faithful
  <2>2. CASE ~ResolveForMark(r)
    BY <1>3, <1>4, <2>2 DEF Acts, TakeSnapshot, ApplySnapshot, Commit, Abandon, UpdateLedger,
        ForwardToSuccessor, AfterLedger, Register, Chosen
  <2> QED
    BY <2>1, <2>2
<1>7. at[r] \notin Chosen => ApplySnapshot(r)
  <2>1. TakeSnapshot(r) => at[r] = "markWalk"
    BY <1>1, <1>2 DEF TakeSnapshot, MoveTo, RequestsTyped, Chosen
  <2>2. Abandon(r) => Done(r)
    BY DEF Abandon
  <2>3. Register(r) => Done(r)
    BY DEF Register
  <2> QED
    BY <1>3, <1>4, <2>1, <2>2, <2>3 DEF Acts, Commit, ResolveForMark, UpdateLedger, ForwardToSuccessor, Chosen
<1> QED
  BY <1>5, <1>6, <1>7

LEMMA CoveredStep ==
    ASSUME Surprises = {}, AllTold, Next
    PROVE  \A r \in Requests : Covered(r)'
<1>1. Typed /\ RequestsTyped /\ (\A r \in Requests : Doing(r)) /\ Base /\ RequestsTyped'
      /\ \A r \in Requests : Covered(r)
  <2>1. Base' => RequestsTyped'
    BY DEF Base, Typed, RequestsTyped
  <2> QED
    BY <2>1, TypedParts, BaseStep DEF Base, AllTold, Keeping
<1>2. SUFFICES ASSUME NEW r \in Requests
               PROVE  Covered(r)'
  OBVIOUS
<1>3. ASSUME op'[r] = op[r], at'[r] = at[r], target'[r] = target[r], snap'[r] = snap[r],
             selector'[r] = selector[r], manager'[r] = manager[r]
      PROVE  Covered(r)'
  BY <1>1, <1>3, CoveredStays DEF Covered
<1>4. CASE Tabs
  BY <1>3, <1>4 DEF Tabs, OpenTab, CloseTab
<1>5. ASSUME NEW p \in Requests, Restart(p) PROVE Covered(r)'
  <2>1. CASE p # r
    BY <1>1, <1>3, <1>5, <2>1 DEF Restart, MoveTo, RequestsTyped
  <2>2. CASE p = r
    BY <1>1, <1>5, <2>2 DEF Restart, MoveTo, RequestsTyped, Covered, Mutations
  <2> QED
    BY <2>1, <2>2
<1>6. ASSUME NEW p \in Requests, Acts(p) PROVE Covered(r)'
  <2>1. CASE p # r
    BY <1>1, <1>3, <1>6, <2>1, OthersStay
  <2>2. CASE p = r
    <3>1. at'[r] = "markApply" => snap'[r].complete
      <4>1. at'[r] = "markApply" => TakeSnapshot(r)
        BY <1>1, <1>6, <2>2, OnlyWalksPend DEF Pending
      <4>2. ASSUME TakeSnapshot(r), at'[r] = "markApply" PROVE snap'[r].complete
        <5>1. at[r] = "markWalk" /\ \E s \in Walks("lossyMark" \in Surprises) :
                                       snap' = [snap EXCEPT ![r] = s]
          BY <1>1, <4>2 DEF TakeSnapshot, MoveTo, RequestsTyped
        <5> QED
          BY <1>1, <5>1 DEF RequestsTyped, Walks
      <4> QED
        BY <4>1, <4>2
    <3>2. ASSUME op'[r] \in Mutations, at'[r] \in Chosen, target'[r] \in open'
          PROVE  /\ ids'[current'][target'[r]] # 0
                 /\ selector'[r] \notin Views => ids'[manager'[r]][target'[r]] = selector'[r]
                 /\ \A q \in Requests : at'[q] \in Pending /\ ~Unlocked(q)' /\ snap'[q].complete =>
                       target'[r] \in snap'[q].views
      <4>1. ~Done(r)
        BY <1>1, <3>2 DEF Done, RequestsTyped, Mutations
      <4>2. /\ op[r] \in Mutations
            /\ at[r] \in Chosen => target'[r] = target[r] /\ selector' = selector /\ manager' = manager
            /\ at[r] \notin Chosen => ApplySnapshot(r)
        BY <1>6, <2>2, <3>2, <4>1, TargetsStay
      <4>3. CASE at[r] \in Chosen
        BY <1>1, <3>2, <4>2, <4>3, CoveredStays
      <4>4. CASE at[r] \notin Chosen
        BY <1>1, <4>1, <4>2, <4>4, CoveredStarts DEF ApplySnapshot
      <4> QED
        BY <4>3, <4>4
    <3> QED
      BY <3>1, <3>2 DEF Covered
  <2> QED
    BY <2>1, <2>2
<1> QED
  BY <1>4, <1>5, <1>6, Steps DEF Restarting

\* A mutation says in the ledger that it changed its view.
LEMMA MarksWait ==
    ASSUME Surprises = {}, AllTold, Next, NEW v \in open, v \in open', MarkPending(v)
    PROVE  MarkPending(v)' \/ Marked(v)'
<1>1. /\ Typed /\ RequestsTyped /\ LedgerTyped /\ WorldTyped /\ (\A r \in Requests : Doing(r)) /\ Base
      /\ (\A m \in Managers : Numbering(m)) /\ RequestsTyped'
      /\ \A r \in Requests : Faithful(r) /\ Covered(r)
  <2>1. Base' => RequestsTyped'
    BY DEF Base, Typed, RequestsTyped
  <2> QED
    BY <2>1, TypedParts, BaseStep DEF Base, AllTold, Keeping, Cleaning
<1>2. PICK q \in Requests : target[q] = v /\ op[q] \in Mutations /\ at[q] \in Marking
  BY DEF MarkPending, Marking
<1>3. ASSUME target'[q] = v, op'[q] \in Mutations, at'[q] \in Marking PROVE MarkPending(v)'
  BY <1>3 DEF MarkPending, Marking
<1>4. CASE target'[q] = target[q] /\ op'[q] = op[q] /\ at'[q] = at[q]
  BY <1>2, <1>3, <1>4
<1>5. CASE Restarting \/ Tabs
  BY <1>1, <1>2, <1>4, <1>5 DEF Restarting, Restart, MoveTo, RequestsTyped, Marking, Tabs, OpenTab, CloseTab
<1>6. at[q] \in Chosen /\ v \in Views /\ ids[current][v] # 0
  BY <1>1, <1>2 DEF Covered, Marking, Chosen, WorldTyped
<1>7. ASSUME NEW r \in Requests, Acts(r) PROVE MarkPending(v)' \/ Marked(v)'
  <2>1. CASE r # q
    BY <1>1, <1>4, <1>7, <2>1, OthersStay
  <2>2. CASE r = q
    <3>1. \/ TakeSnapshot(q) /\ at[q] = "markWalk"
          \/ ResolveForMark(q) /\ at[q] = "markApply"
          \/ UpdateLedger(q) /\ at[q] = "mark"
          \/ ForwardToSuccessor(q) /\ at[q] = "forward"
      BY <1>2, <1>7, <2>2 DEF Acts, Admit, Begin, BeginUnpinned, TakeSnapshot, Pin, BeginPinned, ApplySnapshot,
          Commit, Abandon, ResolveForMark, UpdateLedger, ForwardToSuccessor, Register, Marking
    <3>2. CASE TakeSnapshot(q) /\ at[q] = "markWalk"
      BY <1>1, <1>2, <1>3, <3>2 DEF TakeSnapshot, MoveTo, RequestsTyped, Marking
    <3>3. CASE ResolveForMark(q) /\ at[q] = "markApply"
      <4>1. v \in snap[q].views
        BY <1>1, <1>2, <1>6, <3>3 DEF Covered, Pending, Unlocked
      <4>2. selector[q] # Active
        BY <1>1, <1>2, <3>3 DEF Faithful
      <4>3. /\ selector[q] \in Views => v = selector[q]
            /\ selector[q] \notin Views => /\ ids[manager[q]][v] = selector[q]
                                           /\ \A w \in Views : ids[manager[q]][w] = selector[q] => w = v
        BY <1>1, <1>2, <1>6 DEF Covered, Faithful
      <4>4. ASSUME NEW w \in Meant(q) PROVE w = v
        BY <1>1, <4>2, <4>3, <4>4, SelectorsMean
      <4>5. v \in Meant(q)
        BY <4>1, <4>3 DEF Meant
      <4>6. MoveTo(q, "mark") /\ target' = [target EXCEPT ![q] = v] /\ op' = op
        BY <3>3, <4>4, <4>5 DEF ResolveForMark
      <4> QED
        BY <1>1, <1>2, <1>3, <4>6 DEF MoveTo, RequestsTyped, Marking
    <3>4. ASSUME NEW m \in Managers, m = current, ChangeLedger(q, m), UNCHANGED <<world, current>>
          PROVE  Marked(v)'
      <4>1. MarkDirty(m, v) /\ opened' = opened
        BY <1>2, <3>4, ChangesAre DEF world, Mutations
      <4>2. ids' = ids /\ ids[m][v] \in dirty'[m]
        BY <1>1, <1>6, <3>4, <4>1, Marks
      <4> QED
        BY <3>4, <4>2 DEF Marked
    <3>5. CASE UpdateLedger(q) /\ at[q] = "mark"
      <4>1. CASE HasSuccessor(manager[q])
        BY <1>1, <1>2, <1>3, <3>5, <4>1 DEF UpdateLedger, MoveTo, RequestsTyped, Marking
      <4>2. CASE ~HasSuccessor(manager[q])
        BY <1>1, <3>4, <3>5, <4>2 DEF UpdateLedger, HasSuccessor, Typed
      <4> QED
        BY <4>1, <4>2
    <3>6. CASE ForwardToSuccessor(q) /\ at[q] = "forward"
      BY <1>1, <3>4, <3>6 DEF ForwardToSuccessor, Typed
    <3> QED
      BY <3>1, <3>2, <3>3, <3>5, <3>6
  <2> QED
    BY <2>1, <2>2
<1> QED
  BY <1>5, <1>7, Steps

LEMMA KeepingStep ==
    ASSUME Surprises = {}, AllTold, Next
    PROVE  Keeping'
<1>1. Typed /\ RequestsTyped /\ WorldTyped /\ (\A r \in Requests : Doing(r)) /\ Base
      /\ \A m \in Managers : Numbering(m)
  BY TypedParts DEF Base, AllTold
<1>2. ASSUME NEW v \in open', v \in unsaved' PROVE Marked(v)' \/ MarkPending(v)'
  <2>1. CASE v \in unsaved
    <3>1. v \in open /\ v \in Views /\ (Marked(v) \/ MarkPending(v)) /\ v \in InUse
      BY <1>1, <2>1 DEF Typed, AllTold, Keeping, UnsavedWorkIsMarked, InUse
    <3>2. CASE Marked(v)
      BY <1>1, <1>2, <2>1, <3>1, <3>2, LedgerKeeps DEF AllTold, Covering
    <3> QED
      BY <1>2, <3>1, <3>2, MarksWait
  <2>2. CASE v \notin unsaved
    <3>1. PICK r \in Requests : Commit(r) /\ v = target[r]
      BY <1>1, <1>2, <2>2, ViewsOnlyLeave
    <3>2. op[r] \in Mutations /\ at'[r] \in {"markWalk", "mark"}
      BY <1>1, <3>1, CommitsMove
    <3>3. target'[r] = v /\ op'[r] = op[r]
      BY <3>1 DEF Commit
    <3> QED
      BY <3>2, <3>3 DEF MarkPending
  <2> QED
    BY <2>1, <2>2
<1> QED
  BY <1>2, CoveredStep DEF Keeping, UnsavedWorkIsMarked

\* As long as none of the five surprises happens, committed work that no database has is
\* marked for as long as its view is open, or a request is about to mark it -- whatever the
\* refreshes with a lock, lossy walks, restarts and other requests do (bridge.py,
\* TargetManager.refresh, mark_dirty and succeed).
THEOREM UnsavedWorkStaysMarked ==
    ASSUME Surprises = {}
    PROVE  Spec => []UnsavedWorkIsMarked
<1>1. Init => AllTold
  <2> SUFFICES ASSUME Init PROVE AllTold
    OBVIOUS
  <2>1. Cleaning /\ Covering /\ Keeping
    BY DEF Init, Cleaning, Faithful, Mutations, CleanViewIsNotMarked, Covering, Pending, Keeping, Covered,
           UnsavedWorkIsMarked
  <2> QED
    BY <2>1, BaseInit DEF AllTold
<1>2. AllTold /\ [Next]_vars => AllTold'
  <2> SUFFICES ASSUME AllTold, [Next]_vars PROVE AllTold'
    OBVIOUS
  <2>1. CASE Next
    <3>1. Cleaning'
      BY <2>1, FaithfulStep, CleanStep DEF Cleaning, AllTold
    <3> QED
      BY <2>1, <3>1, BaseStep, CoveringStep, KeepingStep DEF AllTold
  <2>2. CASE UNCHANGED vars
    <3>1. Base' /\ Covering'
      BY <2>2, BaseStutters, CoveringStutters DEF AllTold
    <3>2. Cleaning' /\ Keeping'
      BY <2>2 DEF vars, world, ledger, locks, AllTold, Cleaning, Faithful, CleanViewIsNotMarked, Marked,
                  MarkPending, ClearPending, Keeping, Covered, Unlocked, UnsavedWorkIsMarked
    <3> QED
      BY <3>1, <3>2 DEF AllTold
  <2> QED
    BY <2>1, <2>2
<1>3. AllTold => UnsavedWorkIsMarked
  BY DEF AllTold, Keeping
<1> QED
  BY <1>1, <1>2, <1>3, PTL DEF Spec

=============================================================================
