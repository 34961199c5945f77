---------------------------- MODULE BridgeLocks ----------------------------
(* Every request of the bridge over the two locks of ReadWriteLock and       *)
(* WriteGate.  An operation is a graph of PHASES: stretches of its handler   *)
(* between two lock operations.  A phase has a footprint -- whether it runs  *)
(* inside the write gate, and whether it holds the target lock shared,       *)
(* exclusive or not at all -- and between two phases the handler gives up    *)
(* and takes what the next footprint asks for, in the order of its `with`    *)
(* blocks: reservation, gate, target lock.                                   *)
(*                                                                           *)
(* Threads of a bridge and of its GUI successor are alike here: succeed()    *)
(* hands the successor the very same lock objects.                           *)
EXTENDS ReadWriteLock, WriteGate

CONSTANTS Views,       \* identities an open view can have
          Ops,         \* the operations the run's clients send
          WriteBudget  \* bound: how many requests other than reads arrive

AllOps == {"read", "py_exec", "close_binary", "mutation", "class_apply_types",
           "function_create", "go_rename", "refresh", "load_binary"}

ASSUME ConstantsAssumption ==
    /\ Ops \subseteq AllOps
    /\ WriteBudget \in Nat
    /\ None \notin Views

Phases == {"read", "exclusive", "close", "baseline", "plan", "begin", "apply",
           "analyze", "settle", "revert", "collect", "chunk1", "chunk2",
           "unrename", "resolve", "refreshing", "flags", "reply",
           "open", "loading", "publish", "end"}

\* Footprints.
GatedPhasesButClose == {"exclusive", "baseline", "plan", "begin", "apply",
                        "analyze", "settle", "revert", "collect", "chunk1",
                        "chunk2", "unrename", "resolve", "refreshing", "flags"}
GatedPhases == {"exclusive", "close", "baseline", "plan", "begin", "apply",
                "analyze", "settle", "revert", "collect", "chunk1", "chunk2",
                "unrename", "resolve", "refreshing", "flags"}
ReservedPhases == {"resolve", "refreshing", "flags"}
SharedPhases == {"read", "plan", "reply"}
ExclusivePhases == {"exclusive", "close", "baseline", "begin", "apply", "settle",
                    "revert", "collect", "chunk1", "chunk2", "unrename",
                    "flags", "open", "publish"}

\* Reads a no_wait request may be refused at: `reply` passes may_refuse=False.
RefusableAtReply == SharedPhases
RefusableReads == {"read", "plan"}

\* Phases that fix the view the request works on, and those that change
\* something a client could see (an analysis included).
ResolvingPhases == {"baseline", "begin", "resolve"}
WorkingPhases == {"exclusive", "close", "apply", "analyze", "settle", "revert",
                  "chunk1", "chunk2", "unrename", "refreshing", "flags",
                  "open", "loading", "publish"}

FirstPhase == [read |-> "read", py_exec |-> "exclusive",
               close_binary |-> "close", mutation |-> "begin",
               class_apply_types |-> "baseline", function_create |-> "baseline",
               go_rename |-> "baseline", refresh |-> "resolve",
               load_binary |-> "open"]

\* Where a phase may lead, by returning or by raising.
DispatchGraph == {<<"read", "end">>, <<"exclusive", "end">>, <<"close", "end">>}

\* Every operation of a batch is a scope of its own, with an analysis between
\* two creates.
MutationGraph == {
    <<"begin", "apply">>, <<"begin", "collect">>, <<"begin", "end">>,
    <<"apply", "apply">>, <<"apply", "analyze">>, <<"apply", "revert">>,
    <<"analyze", "apply">>, <<"analyze", "settle">>, <<"analyze", "revert">>,
    <<"settle", "collect">>, <<"settle", "revert">>,
    <<"revert", "collect">>, <<"collect", "end">>}

ClassApplyTypesGraph == MutationGraph \cup {
    <<"baseline", "plan">>, <<"baseline", "end">>,
    <<"plan", "begin">>, <<"plan", "collect">>}

FunctionCreateGraph == MutationGraph \cup {
    <<"baseline", "apply">>, <<"baseline", "collect">>, <<"baseline", "end">>}

GoRenameGraph == {
    <<"baseline", "plan">>, <<"baseline", "end">>,
    <<"plan", "chunk1">>, <<"plan", "collect">>,
    <<"chunk1", "chunk2">>, <<"chunk1", "unrename">>,
    <<"chunk2", "unrename">>, <<"chunk2", "collect">>,
    <<"unrename", "collect">>, <<"collect", "end">>}

RefreshGraph == {
    <<"resolve", "refreshing">>, <<"resolve", "end">>,
    <<"refreshing", "flags">>, <<"refreshing", "end">>,
    <<"flags", "reply">>, <<"reply", "end">>}

LoadBinaryGraph == {
    <<"open", "loading">>, <<"open", "end">>,
    <<"loading", "publish">>, <<"loading", "end">>, <<"publish", "end">>}

Flow == [
    read |-> DispatchGraph, py_exec |-> DispatchGraph, close_binary |-> DispatchGraph,
    mutation |-> MutationGraph, class_apply_types |-> ClassApplyTypesGraph,
    function_create |-> FunctionCreateGraph, go_rename |-> GoRenameGraph,
    refresh |-> RefreshGraph, load_binary |-> LoadBinaryGraph]

Successors(o, p) == {q \in Phases : <<p, q>> \in Flow[o]}

\* Where a refusal at a planning read unwinds to: _import_outcome still takes
\* the target lock to collect what the request imported.
AfterRefusal(p) == IF p = "plan" THEN "collect" ELSE "end"

VARIABLES at,         \* where the thread is between two phases, or "in" one
          op, phase, noWait,
          view,       \* the view the request resolved or opened
          worked,     \* it changed something
          refused,    \* it was refused with `busy`
          openViews,
          writesLeft  \* bound on arrivals

reqVars == <<at, op, phase, noWait, view, worked, refused, openViews, writesLeft>>
vars == <<rwVars, gateVars, reqVars>>

Ats == {"idle", "enter", "gateWait", "gateTaken", "gateLeft",
        "readWait", "writeWait", "in"}

TypeOK ==
    /\ readers \in Nat
    /\ writer \in BOOLEAN
    /\ holder \in Threads \cup {None}
    /\ queuedWriters \subseteq Threads
    /\ readWaiters \subseteq Threads
    /\ parked \subseteq Threads
    /\ gateLock \in Threads \cup {None}
    /\ gateHolder \in Threads \cup {None}
    /\ gateWaiters \subseteq Threads
    /\ reservation \in Threads \cup {None}
    /\ at \in [Threads -> Ats]
    /\ op \in [Threads -> AllOps]
    /\ phase \in [Threads -> Phases]
    /\ noWait \in [Threads -> BOOLEAN]
    /\ view \in [Threads -> Views \cup {None}]
    /\ worked \in [Threads -> BOOLEAN]
    /\ refused \in [Threads -> BOOLEAN]
    /\ openViews \subseteq Views
    /\ writesLeft \in Nat

Init ==
    /\ RWInit
    /\ GateInit
    /\ at = [t \in Threads |-> "idle"]
    /\ op = [t \in Threads |-> "read"]
    /\ phase = [t \in Threads |-> "end"]
    /\ noWait = [t \in Threads |-> FALSE]
    /\ view = [t \in Threads |-> None]
    /\ worked = [t \in Threads |-> FALSE]
    /\ refused = [t \in Threads |-> FALSE]
    /\ openViews \in SUBSET Views
    /\ writesLeft = WriteBudget

-----------------------------------------------------------------------------
\* What the next phase asks for, next to what the thread has.
NeedsGate(t) == phase[t] \in GatedPhases
NeedsReservation(t) == phase[t] \in ReservedPhases
HasGate(t) == gateLock = t
HasReservation(t) == reservation = t
GateSettled(t) == NeedsGate(t) <=> HasGate(t)
ReservationSettled(t) == NeedsReservation(t) <=> HasReservation(t)

MoveTo(t, where) == at' = [at EXCEPT ![t] = where]

\* dispatch: a thread starts serving a request.
Arrive(t, o, nw) ==
    /\ at[t] = "idle"
    /\ o # "read" => writesLeft > 0
    /\ MoveTo(t, "enter")
    /\ op' = [op EXCEPT ![t] = o]
    /\ phase' = [phase EXCEPT ![t] = FirstPhase[o]]
    /\ noWait' = [noWait EXCEPT ![t] = nw]
    /\ writesLeft' = IF o = "read" THEN writesLeft ELSE writesLeft - 1
    /\ UNCHANGED <<view, worked, refused, openViews, rwVars, gateVars>>

\* _WriteGate.refresh(): reserve, or be refused at once.
ReserveRefresh(t) ==
    /\ at[t] = "enter"
    /\ NeedsReservation(t) /\ ~HasReservation(t)
    /\ IF reservation = None
       THEN Reserve(t) /\ UNCHANGED phase
       ELSE phase' = [phase EXCEPT ![t] = "end"] /\ UNCHANGED gateVars
    /\ UNCHANGED <<at, op, noWait, view, worked, refused, openViews,
                   writesLeft, rwVars>>

\* _WriteGate.__enter__ up to the mutex.
EnterGate(t) ==
    /\ at[t] = "enter"
    /\ NeedsGate(t) /\ ~HasGate(t)
    /\ ReservationSettled(t)
    /\ \/ GateAcquire(t) /\ MoveTo(t, "gateTaken") /\ UNCHANGED <<phase, refused>>
       \/ /\ gateLock # None /\ ~noWait[t]
          /\ GateQueue(t) /\ MoveTo(t, "gateWait") /\ UNCHANGED <<phase, refused>>
       \/ /\ gateLock # None /\ noWait[t]
          /\ phase' = [phase EXCEPT ![t] = "end"]
          /\ refused' = [refused EXCEPT ![t] = TRUE]
          /\ UNCHANGED <<at, gateVars>>
    /\ UNCHANGED <<op, noWait, view, worked, openViews, writesLeft, rwVars>>

GateFrame(t) ==
    UNCHANGED <<op, phase, noWait, view, worked, refused, openViews,
                writesLeft, rwVars>>

WaitedGate(t) ==
    /\ at[t] = "gateWait"
    /\ GateAcquire(t)
    /\ MoveTo(t, "gateTaken")
    /\ GateFrame(t)

RecordGateHolder(t) ==
    /\ at[t] = "gateTaken"
    /\ GateRecord(t)
    /\ MoveTo(t, "enter")
    /\ GateFrame(t)

\* _WriteGate.__exit__, in its two steps.
GateExitReleaseFirst(step) == IF step = 1 THEN GateRelease ELSE GateClear
GateExit(step) == IF step = 1 THEN GateClear ELSE GateRelease

LeaveGate(t) ==
    /\ at[t] = "enter"
    /\ ~NeedsGate(t) /\ HasGate(t)
    /\ GateExit(1)
    /\ MoveTo(t, "gateLeft")
    /\ GateFrame(t)

LeftGate(t) ==
    /\ at[t] = "gateLeft"
    /\ GateExit(2)
    /\ MoveTo(t, "enter")
    /\ GateFrame(t)

\* The reservation is the outer `with`, so it goes after the gate.
ReservationInnermost(t) == TRUE
MayDropReservation(t) == ~NeedsGate(t) => ~HasGate(t)
DropReservation(t) ==
    /\ at[t] = "enter"
    /\ ~NeedsReservation(t) /\ HasReservation(t)
    /\ MayDropReservation(t)
    /\ Unreserve
    /\ GateFrame(t)
    /\ UNCHANGED at

Settled(t) == GateSettled(t) /\ ReservationSettled(t)

\* _ReadWriteLock.read()
ReadFrame == UNCHANGED <<op, noWait, view, worked, openViews, writesLeft, gateVars>>

EnterShared(t) ==
    /\ at[t] = "enter" /\ Settled(t)
    /\ phase[t] \in SharedPhases
    /\ \/ ReadGrant(t) /\ MoveTo(t, "in") /\ UNCHANGED <<phase, refused>>
       \/ /\ ReadBlocked
          /\ noWait[t] /\ phase[t] \in RefusableReads
          /\ phase' = [phase EXCEPT ![t] = AfterRefusal(phase[t])]
          /\ refused' = [refused EXCEPT ![t] = TRUE]
          /\ UNCHANGED <<at, rwVars>>
       \/ /\ ~(noWait[t] /\ phase[t] \in RefusableReads)
          /\ ReadPark(t) /\ MoveTo(t, "readWait") /\ UNCHANGED <<phase, refused>>
    /\ ReadFrame

WakeShared(t) ==
    /\ at[t] = "readWait"
    /\ \/ ReadGrant(t) /\ MoveTo(t, "in")
       \/ ReadPark(t) /\ UNCHANGED at
    /\ UNCHANGED <<phase, refused>>
    /\ ReadFrame

\* _ReadWriteLock.write(); it never refuses.
EnterExclusive(t) ==
    /\ \/ at[t] = "enter" /\ Settled(t) /\ phase[t] \in ExclusivePhases
       \/ at[t] = "writeWait"
    /\ \/ WriteGrant(t) /\ MoveTo(t, "in")
       \/ WritePark(t) /\ MoveTo(t, "writeWait")
    /\ UNCHANGED <<phase, refused>>
    /\ ReadFrame

\* A phase without the target lock.
EnterUnlocked(t) ==
    /\ at[t] = "enter" /\ Settled(t)
    /\ phase[t] \notin SharedPhases \cup ExclusivePhases \cup {"end"}
    /\ MoveTo(t, "in")
    /\ UNCHANGED <<phase, refused, rwVars>>
    /\ ReadFrame

\* What a phase does to the open views and to the request's own view.  Every
\* load opens an identity of its own; resolving fails when nothing is open.
Fails(t) == phase'[t] = "end" /\ UNCHANGED <<view, openViews>>
Adopt(t, v) == view' = [view EXCEPT ![t] = v] /\ UNCHANGED openViews

CloseView(t) ==
    /\ \/ \E v \in openViews : openViews' = openViews \ {v}
       \/ openViews = {} /\ UNCHANGED openViews
    /\ UNCHANGED view

OpenView(t) ==
    \/ Fails(t)
    \/ \E v \in Views \ openViews :
           (\A u \in Threads \ {t} : view[u] # v) /\ Adopt(t, v)

PublishView(t) == openViews' = openViews \cup {view[t]} /\ UNCHANGED view

ResolveView(t) == Fails(t) \/ \E v \in openViews : Adopt(t, v)

Effect(t) ==
    \/ phase[t] = "close" /\ CloseView(t)
    \/ phase[t] = "open" /\ OpenView(t)
    \/ phase[t] = "publish" /\ PublishView(t)
    \/ phase[t] \in ResolvingPhases /\ ResolveView(t)
    \/ /\ phase[t] \notin ResolvingPhases \cup {"close", "open", "publish"}
       /\ UNCHANGED <<view, openViews>>

LeaveTargetLock(t) ==
    \/ phase[t] \in SharedPhases /\ ReadExit
    \/ phase[t] \in ExclusivePhases /\ WriteExit
    \/ phase[t] \notin SharedPhases \cup ExclusivePhases /\ UNCHANGED rwVars

\* The phase ends, the target lock goes, and the handler moves on.
EndPhase(t) ==
    /\ at[t] = "in"
    /\ \E q \in Successors(op[t], phase[t]) : phase' = [phase EXCEPT ![t] = q]
    /\ Effect(t)
    /\ worked' = [worked EXCEPT ![t] = @ \/ phase[t] \in WorkingPhases]
    /\ MoveTo(t, "enter")
    /\ LeaveTargetLock(t)
    /\ UNCHANGED <<op, noWait, refused, writesLeft, gateVars>>

\* The response leaves; the thread is free for the next request.
Reply(t) ==
    /\ at[t] = "enter" /\ phase[t] = "end" /\ Settled(t)
    /\ MoveTo(t, "idle")
    /\ op' = [op EXCEPT ![t] = "read"]
    /\ noWait' = [noWait EXCEPT ![t] = FALSE]
    /\ view' = [view EXCEPT ![t] = None]
    /\ worked' = [worked EXCEPT ![t] = FALSE]
    /\ refused' = [refused EXCEPT ![t] = FALSE]
    /\ UNCHANGED <<phase, openViews, writesLeft, rwVars, gateVars>>

Serve(t) ==
    \/ ReserveRefresh(t) \/ EnterGate(t) \/ WaitedGate(t) \/ RecordGateHolder(t)
    \/ LeaveGate(t) \/ LeftGate(t) \/ DropReservation(t)
    \/ EnterShared(t) \/ WakeShared(t) \/ EnterExclusive(t) \/ EnterUnlocked(t)
    \/ EndPhase(t) \/ Reply(t)

Next == \E t \in Threads :
    \/ \E o \in Ops, nw \in BOOLEAN : Arrive(t, o, nw)
    \/ Serve(t)

Spec == Init /\ [][Next]_vars

\* The scheduler runs every thread that can run; no client has to send.
FairSpec == Spec /\ \A t \in Threads : WF_vars(Serve(t))
-----------------------------------------------------------------------------
Reading == {t \in Threads : at[t] = "in" /\ phase[t] \in SharedPhases}
Writing == {t \in Threads : at[t] = "in" /\ phase[t] \in ExclusivePhases}

\* Every thread asleep on the condition is asleep for a reason that still
\* holds, and whoever ends that reason will wake it: no wake-up is lost
\* (notify_all in read() and write(), with the condition tested in a loop).
NoLostWakeup == \A t \in parked :
    \/ at[t] = "readWait" /\ ReadBlocked
    \/ at[t] = "writeWait" /\ WriteBlocked

\* The counters and records of the target lock agree with what the requests
\* are doing: shared and exclusive holders never overlap, a flag or a count is
\* never left behind by a request that has moved on, and no wake-up is lost.
TargetLockInv ==
    /\ readers = Cardinality(Reading)
    /\ writer <=> Writing # {}
    /\ \A t, u \in Writing : t = u
    /\ writer => Reading = {}
    /\ holder = None <=> ~writer
    /\ writer => holder \in Writing
    /\ queuedWriters = {t \in Threads : at[t] = "writeWait"}
    /\ readWaiters = {t \in Threads : at[t] = "readWait"}
    /\ \A t \in Threads : at[t] = "readWait" => phase[t] \in SharedPhases
    /\ \A t \in Threads : at[t] = "writeWait" => phase[t] \in ExclusivePhases
    /\ NoLostWakeup

\* The gate and the reservation belong to a request exactly while its phase
\* asks for them, and the gate's record is its owner's.
GateInv ==
    /\ \A t \in Threads : at[t] \in {"in", "readWait", "writeWait"} => Settled(t)
    /\ \A t \in Threads : at[t] = "gateTaken" => HasGate(t) /\ NeedsGate(t)
    /\ \A t \in Threads : at[t] = "gateWait" => ~HasGate(t) /\ NeedsGate(t)
    /\ \A t \in Threads : at[t] \in {"gateTaken", "gateWait"} => ReservationSettled(t)
    /\ \A t \in Threads : at[t] = "gateLeft" => HasGate(t) /\ ~NeedsGate(t)
    /\ \A t \in Threads : at[t] = "idle" => ~HasGate(t) /\ ~HasReservation(t)
    /\ \A t \in Threads :
           gateHolder = t <=> HasGate(t) /\ at[t] \notin {"gateTaken", "gateLeft"}

\* A load past its open has a view to publish.
LoadInv == \A t \in Threads : phase[t] \in {"loading", "publish"} => view[t] \in Views

LocksInv == TargetLockInv /\ GateInv /\ LoadInv

\* A read that waits for the views is reported as waiting, and the report
\* names somebody it waits on (_ReadWriteLock.read_status, #992).
BlockedReadIsReported == \A t \in Threads :
    (at[t] = "readWait" /\ t \in parked) =>
        t \in readWaiters /\ BlockingHolders # {}

\* While a request works inside the gate, a status reply names that request
\* and no other (_WriteGate.status, #976): neither the record of an earlier
\* holder nor its late removal may replace it.
GateHolderNamed == \A t \in Threads :
    (gateLock = t /\ at[t] \in {"in", "readWait", "writeWait"}) => gateHolder = t

\* A second refresh is refused at once instead of queueing behind the first,
\* "even if the first refresh is still queued behind another write".
RefreshNeverQueuesBehindRefresh == \A t, u \in Threads :
    (op[t] = "refresh" /\ at[t] = "gateWait" /\ gateLock = u) => op[u] # "refresh"

\* The view a gated request resolved stays open for as long as the request is
\* inside the gate, its analysis without the target lock included (#522).
SessionViewStaysOpen == \A t \in Threads :
    (gateLock = t /\ at[t] # "gateLeft" /\ op[t] # "load_binary" /\ view[t] # None)
        => view[t] \in openViews

\* BN_NO_WAIT refuses before anything is done, never afterwards: a request
\* that was refused has changed nothing (#992).
RefusedBeforeWorking == \A t \in Threads : refused[t] => ~worked[t]

\* Every request is answered: no reader stream starves a writer, and nobody
\* waits for ever at the gate or on the condition.
EveryRequestAnswered == \A t \in Threads : (at[t] # "idle") ~> (at[t] = "idle")

\* The locks implement the abstract access discipline.
Access == INSTANCE ViewAccess WITH
              session <- gateLock, reading <- Reading, writing <- Writing
AccessSpec == Access!Spec
=============================================================================
