------------------------- MODULE BridgeLocksProofs -------------------------
(* Proofs about BridgeLocks for every set of threads, every set of           *)
(* operations and any number of requests.                                    *)
EXTENDS BridgeLocks, FiniteSetTheorems, TLAPS

-----------------------------------------------------------------------------
(* Facts about the phase graph.                                              *)

\* Every operation starts in a phase, and a refusal unwinds to one.
LEMMA PhasesClosed ==
    /\ \A o \in AllOps : FirstPhase[o] \in Phases
    /\ \A p \in Phases : AfterRefusal(p) \in Phases
    /\ \A o \in AllOps, p \in Phases : Successors(o, p) \subseteq Phases
<1>1. ASSUME NEW o \in AllOps PROVE FirstPhase[o] \in Phases
  <2>1. FirstPhase \in [AllOps -> Phases]
    BY DEF AllOps, Phases, FirstPhase
  <2> QED
    BY <2>1
<1>2. ASSUME NEW p \in Phases PROVE AfterRefusal(p) \in Phases
  BY DEF Phases, AfterRefusal
<1> QED
  BY <1>1, <1>2 DEF Successors

\* No phase holds the target lock both shared and exclusive.
LEMMA FootprintsDisjoint ==
    /\ SharedPhases \cap ExclusivePhases = {}
    /\ "end" \notin SharedPhases \cup ExclusivePhases \cup GatedPhases
BY DEF SharedPhases, ExclusivePhases, GatedPhases

\* Readers are finitely many, so counting them is meaningful.
LEMMA ReadingFinite ==
    /\ IsFiniteSet(Reading)
    /\ Cardinality(Reading) \in Nat
<1>1. Reading \subseteq Threads
  BY DEF Reading
<1>2. IsFiniteSet(Reading)
  BY <1>1, ThreadsAssumption, FS_Subset
<1> QED
  BY <1>2, FS_CardinalityType

-----------------------------------------------------------------------------
(* Type correctness.  It needs the target lock's invariant: only that a      *)
(* leaving reader was counted keeps `readers` from going below zero.         *)

LEMMA TypeStep ==
    ASSUME TypeOK, TargetLockInv, LoadInv, [Next]_vars
    PROVE  TypeOK'
<1> USE NoneAssumption, ConstantsAssumption, PhasesClosed
<1>1. ASSUME UNCHANGED vars PROVE TypeOK'
  BY <1>1 DEF TypeOK, vars, rwVars, gateVars, reqVars
<1>2. ASSUME NEW t \in Threads, NEW o \in Ops, NEW nw \in BOOLEAN, Arrive(t, o, nw)
      PROVE  TypeOK'
  <2>1. o \in AllOps
    OBVIOUS
  <2>2. writesLeft' \in Nat
    BY <1>2 DEF TypeOK, Arrive
  <2> QED
    BY <1>2, <2>1, <2>2 DEF TypeOK, Arrive, MoveTo, Ats, rwVars, gateVars
<1>3. ASSUME NEW t \in Threads, Serve(t) PROVE TypeOK'
  <2>1. CASE ReserveRefresh(t)
    BY <2>1 DEF TypeOK, ReserveRefresh, Reserve, gateVars, rwVars, Phases
  <2>2. CASE EnterGate(t)
    <3>1. UNCHANGED <<op, noWait, view, worked, openViews, writesLeft, rwVars, reservation,
                      gateHolder>>
      BY <2>2 DEF EnterGate, GateAcquire, GateQueue, gateVars
    <3>2. refused' \in [Threads -> BOOLEAN]
      BY <2>2 DEF TypeOK, EnterGate
    <3>3. /\ at' \in [Threads -> Ats]
          /\ phase' \in [Threads -> Phases]
          /\ gateLock' \in Threads \cup {None}
          /\ gateWaiters' \subseteq Threads
      BY <2>2 DEF TypeOK, EnterGate, GateAcquire, GateQueue, MoveTo, Ats, gateVars, Phases
    <3> QED
      BY <3>1, <3>2, <3>3 DEF TypeOK, rwVars
  <2>3. CASE WaitedGate(t)
    BY <2>3 DEF TypeOK, WaitedGate, GateAcquire, MoveTo, Ats, GateFrame, rwVars
  <2>4. CASE RecordGateHolder(t)
    BY <2>4 DEF TypeOK, RecordGateHolder, GateRecord, MoveTo, Ats, GateFrame, rwVars
  <2>5. CASE LeaveGate(t)
    BY <2>5 DEF TypeOK, LeaveGate, GateExit, GateClear, MoveTo, Ats, GateFrame, rwVars
  <2>6. CASE LeftGate(t)
    BY <2>6 DEF TypeOK, LeftGate, GateExit, GateRelease, MoveTo, Ats, GateFrame, rwVars
  <2>7. CASE DropReservation(t)
    BY <2>7 DEF TypeOK, DropReservation, Unreserve, GateFrame, rwVars
  <2>8. CASE EnterShared(t)
    <3>1. UNCHANGED <<op, noWait, view, worked, openViews, writesLeft, gateVars,
                      writer, holder, queuedWriters>>
      BY <2>8 DEF EnterShared, ReadGrant, ReadPark, ReadFrame, rwVars
    <3>2. refused' \in [Threads -> BOOLEAN]
      BY <2>8 DEF TypeOK, EnterShared
    <3>3. phase' \in [Threads -> Phases]
      BY <2>8 DEF TypeOK, EnterShared
    <3>4. at' \in [Threads -> Ats]
      BY <2>8 DEF TypeOK, EnterShared, MoveTo, Ats
    <3>5. readers' \in Nat /\ readWaiters' \subseteq Threads /\ parked' \subseteq Threads
      BY <2>8 DEF TypeOK, EnterShared, ReadGrant, ReadPark, rwVars
    <3> QED
      BY <3>1, <3>2, <3>3, <3>4, <3>5 DEF TypeOK, gateVars
  <2>9. CASE WakeShared(t)
    BY <2>9 DEF TypeOK, WakeShared, ReadGrant, ReadPark, MoveTo, Ats, ReadFrame, rwVars, gateVars
  <2>10. CASE EnterExclusive(t)
    BY <2>10 DEF TypeOK, EnterExclusive, WriteGrant, WritePark, MoveTo, Ats, ReadFrame, rwVars, gateVars
  <2>11. CASE EnterUnlocked(t)
    BY <2>11 DEF TypeOK, EnterUnlocked, MoveTo, Ats, ReadFrame, rwVars, gateVars
  <2>12. CASE EndPhase(t)
    <3>1. /\ readers' \in Nat
          /\ writer' \in BOOLEAN
          /\ holder' \in Threads \cup {None}
          /\ parked' \subseteq Threads
          /\ UNCHANGED <<queuedWriters, readWaiters>>
      <4>1. CASE phase[t] \in SharedPhases
        <5>1. t \in Reading
          BY <2>12, <4>1 DEF EndPhase, Reading
        <5>2. readers > 0
          BY <5>1, ReadingFinite, FS_EmptySet DEF TargetLockInv
        <5>3. ReadExit
          BY <2>12, <4>1, FootprintsDisjoint DEF EndPhase, LeaveTargetLock
        <5> QED
          BY <5>2, <5>3 DEF TypeOK, ReadExit
      <4>2. CASE phase[t] \notin SharedPhases
        <5>1. WriteExit \/ UNCHANGED rwVars
          BY <2>12, <4>2 DEF EndPhase, LeaveTargetLock
        <5> QED
          BY <5>1 DEF TypeOK, WriteExit, rwVars
      <4> QED
        BY <4>1, <4>2
    <3>2. openViews' \subseteq Views /\ view' \in [Threads -> Views \cup {None}]
      <4>1. CASE phase[t] = "publish"
        <5>1. view[t] \in Views
          BY <4>1 DEF LoadInv
        <5>2. PublishView(t)
          BY <2>12, <4>1 DEF EndPhase, Effect, ResolvingPhases
        <5> QED
          BY <5>1, <5>2 DEF TypeOK, PublishView
      <4>2. CASE phase[t] # "publish"
        <5>1. \/ CloseView(t)
              \/ \E v \in Views : Adopt(t, v)
              \/ UNCHANGED <<view, openViews>>
          BY <2>12, <4>2
             DEF TypeOK, EndPhase, Effect, OpenView, ResolveView, Fails
        <5> QED
          BY <5>1 DEF TypeOK, CloseView, Adopt
      <4> QED
        BY <4>1, <4>2
    <3>3. phase' \in [Threads -> Phases]
      BY <2>12 DEF TypeOK, EndPhase
    <3> QED
      BY <2>12, <3>1, <3>2, <3>3 DEF TypeOK, EndPhase, MoveTo, Ats, gateVars
  <2>13. CASE Reply(t)
    BY <2>13 DEF TypeOK, Reply, MoveTo, Ats, rwVars, gateVars, AllOps
  <2> QED
    BY <1>3, <2>1, <2>2, <2>3, <2>4, <2>5, <2>6, <2>7, <2>8, <2>9, <2>10,
       <2>11, <2>12, <2>13 DEF Serve
<1> QED
  BY <1>1, <1>2, <1>3 DEF Next

-----------------------------------------------------------------------------
(* Loads publish what they opened.                                           *)

LEMMA LoadFlow ==
    ASSUME NEW o \in AllOps
    PROVE  /\ FirstPhase[o] \notin {"loading", "publish"}
           /\ \A p \in Phases :
                  /\ "loading" \in Successors(o, p) => p = "open"
                  /\ "publish" \in Successors(o, p) => p = "loading"
<1>1. FirstPhase[o] \notin {"loading", "publish"}
  BY DEF AllOps, FirstPhase
<1>2. \A p : <<p, "loading">> \in Flow[o] => p = "open"
  BY DEF AllOps, Flow, DispatchGraph, MutationGraph, ClassApplyTypesGraph,
     FunctionCreateGraph, GoRenameGraph, RefreshGraph, LoadBinaryGraph
<1>3. \A p : <<p, "publish">> \in Flow[o] => p = "loading"
  BY DEF AllOps, Flow, DispatchGraph, MutationGraph, ClassApplyTypesGraph,
     FunctionCreateGraph, GoRenameGraph, RefreshGraph, LoadBinaryGraph
<1> QED
  BY <1>1, <1>2, <1>3 DEF Successors

LEMMA LoadStep ==
    ASSUME TypeOK, LoadInv, [Next]_vars
    PROVE  LoadInv'
<1> USE ConstantsAssumption, NoneAssumption
<1>1. ASSUME NEW t \in Threads, Serve(t) \/ \E o \in Ops, nw \in BOOLEAN : Arrive(t, o, nw),
             NEW u \in Threads, u # t
      PROVE  phase'[u] = phase[u] /\ view'[u] = view[u]
  BY <1>1 DEF TypeOK, Serve, Arrive, ReserveRefresh, EnterGate, WaitedGate,
     RecordGateHolder, LeaveGate, LeftGate, DropReservation, GateFrame,
     EnterShared, WakeShared, EnterExclusive, EnterUnlocked, ReadFrame, EndPhase,
     Effect, CloseView, OpenView, PublishView, ResolveView, Fails, Adopt, Reply
<1>2. ASSUME NEW t \in Threads, NEW o \in Ops, NEW nw \in BOOLEAN, Arrive(t, o, nw)
      PROVE  phase'[t] \notin {"loading", "publish"}
  BY <1>2, LoadFlow DEF TypeOK, Arrive
<1>3. ASSUME NEW t \in Threads, Serve(t), phase'[t] \in {"loading", "publish"}
      PROVE  view'[t] \in Views
  <2>1. CASE EndPhase(t)
    <3>1. PICK q \in Successors(op[t], phase[t]) : phase' = [phase EXCEPT ![t] = q]
      BY <2>1 DEF EndPhase
    <3>2. phase'[t] = q /\ op[t] \in AllOps /\ phase[t] \in Phases
      BY <3>1 DEF TypeOK
    <3>3. CASE q = "loading"
      <4>1. phase[t] = "open"
        BY <3>2, <3>3, <1>3, LoadFlow
      <4>2. OpenView(t) /\ ~Fails(t)
        BY <2>1, <3>2, <3>3, <4>1 DEF EndPhase, Effect, ResolvingPhases, Fails
      <4> QED
        BY <4>2 DEF OpenView, Adopt, TypeOK
    <3>4. CASE q = "publish"
      <4>1. phase[t] = "loading"
        BY <3>2, <3>4, <1>3, LoadFlow
      <4>2. view' = view
        BY <2>1, <4>1 DEF EndPhase, Effect, ResolvingPhases
      <4> QED
        BY <4>1, <4>2 DEF LoadInv
    <3> QED
      BY <1>3, <3>2, <3>3, <3>4
  <2>2. CASE ~EndPhase(t)
    <3>1. phase'[t] = phase[t] \/ phase'[t] \in {"end", "collect"}
      BY <1>3, <2>2 DEF TypeOK, Serve, ReserveRefresh, EnterGate, WaitedGate,
         RecordGateHolder, LeaveGate, LeftGate, DropReservation, GateFrame,
         EnterShared, WakeShared, EnterExclusive, EnterUnlocked, ReadFrame,
         AfterRefusal, Reply
    <3>2. view'[t] = view[t] \/ phase'[t] = "end"
      BY <1>3, <2>2 DEF TypeOK, Serve, ReserveRefresh, EnterGate, WaitedGate,
         RecordGateHolder, LeaveGate, LeftGate, DropReservation, GateFrame,
         EnterShared, WakeShared, EnterExclusive, EnterUnlocked, ReadFrame, Reply
    <3> QED
      BY <1>3, <3>1, <3>2 DEF LoadInv
  <2> QED
    BY <2>1, <2>2
<1>4. CASE UNCHANGED vars
  BY <1>4 DEF LoadInv, vars, reqVars
<1>5. CASE Next
  BY <1>1, <1>2, <1>3, <1>5 DEF LoadInv, Next
<1> QED
  BY <1>4, <1>5

-----------------------------------------------------------------------------
(* The gate and the reservation.                                             *)

LEMMA GateStep ==
    ASSUME TypeOK, GateInv, [Next]_vars
    PROVE  GateInv'
<1> USE NoneAssumption DEF HasGate, HasReservation, NeedsGate, NeedsReservation,
        Settled, GateSettled, ReservationSettled
<1>1. ASSUME UNCHANGED vars PROVE GateInv'
  BY <1>1 DEF GateInv, vars, gateVars, reqVars
<1>2. ASSUME NEW t \in Threads, NEW o \in Ops, NEW nw \in BOOLEAN, Arrive(t, o, nw)
      PROVE  GateInv'
  BY <1>2 DEF TypeOK, GateInv, Arrive, MoveTo, gateVars
<1>3. ASSUME NEW t \in Threads, Serve(t) PROVE GateInv'
  <2>1. CASE ReserveRefresh(t)
    BY <2>1 DEF TypeOK, GateInv, ReserveRefresh, Reserve, gateVars
  <2>2. CASE EnterGate(t)
    BY <2>2 DEF TypeOK, GateInv, EnterGate, GateAcquire, GateQueue, MoveTo, gateVars
  <2>3. CASE WaitedGate(t)
    BY <2>3 DEF TypeOK, GateInv, WaitedGate, GateAcquire, MoveTo, GateFrame
  <2>4. CASE RecordGateHolder(t)
    BY <2>4 DEF TypeOK, GateInv, RecordGateHolder, GateRecord, MoveTo, GateFrame
  <2>5. CASE LeaveGate(t)
    BY <2>5 DEF TypeOK, GateInv, LeaveGate, GateExit, GateClear, MoveTo, GateFrame
  <2>6. CASE LeftGate(t)
    BY <2>6 DEF TypeOK, GateInv, LeftGate, GateExit, GateRelease, MoveTo, GateFrame
  <2>7. CASE DropReservation(t)
    BY <2>7 DEF TypeOK, GateInv, DropReservation, Unreserve, GateFrame
  <2>8. CASE EnterShared(t)
    BY <2>8 DEF TypeOK, GateInv, EnterShared, MoveTo, ReadFrame, gateVars
  <2>9. CASE WakeShared(t)
    BY <2>9 DEF TypeOK, GateInv, WakeShared, MoveTo, ReadFrame, gateVars
  <2>10. CASE EnterExclusive(t)
    BY <2>10 DEF TypeOK, GateInv, EnterExclusive, MoveTo, ReadFrame, gateVars
  <2>11. CASE EnterUnlocked(t)
    BY <2>11 DEF TypeOK, GateInv, EnterUnlocked, MoveTo, ReadFrame, gateVars
  <2>12. CASE EndPhase(t)
    BY <2>12 DEF TypeOK, GateInv, EndPhase, MoveTo, gateVars
  <2>13. CASE Reply(t)
    BY <2>13, FootprintsDisjoint DEF TypeOK, GateInv, Reply, MoveTo, gateVars, ReservedPhases
  <2> QED
    BY <1>3, <2>1, <2>2, <2>3, <2>4, <2>5, <2>6, <2>7, <2>8, <2>9, <2>10,
       <2>11, <2>12, <2>13 DEF Serve
<1> QED
  BY <1>1, <1>2, <1>3 DEF Next

-----------------------------------------------------------------------------
(* The target lock.                                                          *)

\* Steps that neither enter nor leave a phase and leave the lock alone.
LEMMA TargetFrame ==
    ASSUME TypeOK, TargetLockInv, UNCHANGED rwVars,
           NEW t \in Threads,
           at[t] \notin {"in", "readWait", "writeWait"},
           at'[t] \notin {"in", "readWait", "writeWait"},
           \A u \in Threads \ {t} : at'[u] = at[u] /\ phase'[u] = phase[u]
    PROVE  TargetLockInv'
<1>1. Reading' = Reading /\ Writing' = Writing
  BY DEF Reading, Writing
<1>2. /\ {u \in Threads : at'[u] = "writeWait"} = {u \in Threads : at[u] = "writeWait"}
      /\ {u \in Threads : at'[u] = "readWait"} = {u \in Threads : at[u] = "readWait"}
  OBVIOUS
<1>3. NoLostWakeup'
  BY DEF TypeOK, TargetLockInv, NoLostWakeup, ReadBlocked, WriteBlocked, rwVars
<1> QED
  BY <1>1, <1>2, <1>3 DEF TargetLockInv, rwVars

\* A reader comes in: it is counted, and nobody writes.
LEMMA TargetReadGrant ==
    ASSUME TypeOK, TargetLockInv, NEW t \in Threads,
           at[t] \in {"enter", "readWait"}, phase[t] \in SharedPhases,
           ReadGrant(t), MoveTo(t, "in"), UNCHANGED phase
    PROVE  TargetLockInv'
<1>1. Reading' = Reading \cup {t} /\ t \notin Reading /\ Writing' = Writing
  BY FootprintsDisjoint DEF TypeOK, Reading, Writing, MoveTo
<1>2. Cardinality(Reading') = Cardinality(Reading) + 1
  BY <1>1, ReadingFinite, FS_AddElement
<1>3. readers' = Cardinality(Reading)'
  BY <1>2 DEF TargetLockInv, ReadGrant
<1>4. NoLostWakeup'
  <2> SUFFICES ASSUME NEW u \in parked
               PROVE  \/ at'[u] = "readWait" /\ ReadBlocked'
                      \/ at'[u] = "writeWait" /\ WriteBlocked'
    BY DEF NoLostWakeup, ReadGrant
  <2>1. u # t /\ at'[u] = at[u]
    BY DEF TypeOK, ReadGrant, MoveTo
  <2>2. CASE at[u] = "readWait"
    BY <2>1, <2>2 DEF TargetLockInv, NoLostWakeup, ReadBlocked, ReadGrant
  <2>3. CASE at[u] = "writeWait"
    BY <2>1, <2>3, <1>3, ReadingFinite
       DEF TypeOK, TargetLockInv, NoLostWakeup, WriteBlocked, ReadGrant
  <2> QED
    BY <2>2, <2>3 DEF TargetLockInv, NoLostWakeup
<1>5. ~writer
  BY DEF ReadGrant, ReadBlocked
<1>6. /\ queuedWriters' = {u \in Threads : at'[u] = "writeWait"}
      /\ readWaiters' = {u \in Threads : at'[u] = "readWait"}
  BY DEF TypeOK, TargetLockInv, ReadGrant, MoveTo
<1>7. \A u \in Threads : /\ at'[u] = "readWait" => phase'[u] \in SharedPhases
                         /\ at'[u] = "writeWait" => phase'[u] \in ExclusivePhases
  BY DEF TypeOK, TargetLockInv, MoveTo
<1>8. UNCHANGED <<writer, holder>>
  BY DEF ReadGrant
<1> QED
  BY <1>1, <1>3, <1>4, <1>5, <1>6, <1>7, <1>8 DEF TargetLockInv

\* A reader goes to sleep behind a writer that holds or is queued.
LEMMA TargetReadPark ==
    ASSUME TypeOK, TargetLockInv, NEW t \in Threads,
           at[t] \in {"enter", "readWait"}, phase[t] \in SharedPhases,
           ReadPark(t), MoveTo(t, "readWait"), UNCHANGED phase
    PROVE  TargetLockInv'
<1>1. Reading' = Reading /\ Writing' = Writing
  BY DEF TypeOK, Reading, Writing, MoveTo
<1>2. NoLostWakeup'
  BY DEF TypeOK, TargetLockInv, NoLostWakeup, ReadBlocked, WriteBlocked, ReadPark, MoveTo
<1>3. /\ queuedWriters' = {u \in Threads : at'[u] = "writeWait"}
      /\ readWaiters' = {u \in Threads : at'[u] = "readWait"}
  BY DEF TypeOK, TargetLockInv, ReadPark, MoveTo
<1>4. \A u \in Threads : /\ at'[u] = "readWait" => phase'[u] \in SharedPhases
                         /\ at'[u] = "writeWait" => phase'[u] \in ExclusivePhases
  BY DEF TypeOK, TargetLockInv, MoveTo
<1>5. UNCHANGED <<readers, writer, holder>>
  BY DEF ReadPark
<1> QED
  BY <1>1, <1>2, <1>3, <1>4, <1>5 DEF TargetLockInv

\* A writer comes in: it is alone, and everyone asleep is asleep behind it.
LEMMA TargetWriteGrant ==
    ASSUME TypeOK, TargetLockInv, NEW t \in Threads,
           at[t] \in {"enter", "writeWait"}, phase[t] \in ExclusivePhases,
           WriteGrant(t), MoveTo(t, "in"), UNCHANGED phase
    PROVE  TargetLockInv'
<1>1. Reading' = Reading /\ Writing' = Writing \cup {t}
  BY FootprintsDisjoint DEF TypeOK, Reading, Writing, MoveTo
<1>2. Reading = {} /\ Writing = {}
  BY ReadingFinite, FS_EmptySet DEF TypeOK, TargetLockInv, WriteGrant, WriteBlocked
<1>3. NoLostWakeup'
  BY DEF TypeOK, TargetLockInv, NoLostWakeup, ReadBlocked, WriteBlocked, WriteGrant, MoveTo
<1>4. /\ queuedWriters' = {u \in Threads : at'[u] = "writeWait"}
      /\ readWaiters' = {u \in Threads : at'[u] = "readWait"}
  BY DEF TypeOK, TargetLockInv, WriteGrant, MoveTo
<1>5. \A u \in Threads : /\ at'[u] = "readWait" => phase'[u] \in SharedPhases
                         /\ at'[u] = "writeWait" => phase'[u] \in ExclusivePhases
  BY DEF TypeOK, TargetLockInv, MoveTo
<1>6. writer' = TRUE /\ holder' = t /\ holder' # None /\ readers' = readers
  BY NoneAssumption DEF WriteGrant
<1> QED
  BY <1>1, <1>2, <1>3, <1>4, <1>5, <1>6 DEF TargetLockInv

\* A writer queues: readers that come later wait behind it.
LEMMA TargetWritePark ==
    ASSUME TypeOK, TargetLockInv, NEW t \in Threads,
           at[t] \in {"enter", "writeWait"}, phase[t] \in ExclusivePhases,
           WritePark(t), MoveTo(t, "writeWait"), UNCHANGED phase
    PROVE  TargetLockInv'
<1>1. Reading' = Reading /\ Writing' = Writing
  BY DEF TypeOK, Reading, Writing, MoveTo
<1>2. NoLostWakeup'
  BY DEF TypeOK, TargetLockInv, NoLostWakeup, ReadBlocked, WriteBlocked, WritePark, MoveTo
<1>3. /\ queuedWriters' = {u \in Threads : at'[u] = "writeWait"}
      /\ readWaiters' = {u \in Threads : at'[u] = "readWait"}
  BY DEF TypeOK, TargetLockInv, WritePark, MoveTo
<1>4. \A u \in Threads : /\ at'[u] = "readWait" => phase'[u] \in SharedPhases
                         /\ at'[u] = "writeWait" => phase'[u] \in ExclusivePhases
  BY DEF TypeOK, TargetLockInv, MoveTo
<1>5. UNCHANGED <<readers, writer, holder>>
  BY DEF WritePark
<1> QED
  BY <1>1, <1>2, <1>3, <1>4, <1>5 DEF TargetLockInv

\* A phase ends: the lock it held goes back, and the last one out wakes all.
LEMMA TargetEndPhase ==
    ASSUME TypeOK, TargetLockInv, NEW t \in Threads, EndPhase(t)
    PROVE  TargetLockInv'
<1>1. PICK q \in Successors(op[t], phase[t]) : phase' = [phase EXCEPT ![t] = q]
  BY DEF EndPhase
<1>2. /\ Reading' = Reading \ {t}
      /\ Writing' = Writing \ {t}
      /\ at[t] = "in"
      /\ {u \in Threads : at'[u] = "writeWait"} = {u \in Threads : at[u] = "writeWait"}
      /\ {u \in Threads : at'[u] = "readWait"} = {u \in Threads : at[u] = "readWait"}
  BY <1>1 DEF TypeOK, EndPhase, MoveTo, Reading, Writing
<1>3. \A u \in Threads : /\ at'[u] = "readWait" => phase'[u] \in SharedPhases
                         /\ at'[u] = "writeWait" => phase'[u] \in ExclusivePhases
  BY <1>1 DEF TypeOK, TargetLockInv, EndPhase, MoveTo
<1>4. \A u \in parked : at'[u] = at[u]
  BY <1>2 DEF TypeOK, TargetLockInv, NoLostWakeup, EndPhase, MoveTo
<1>5. CASE phase[t] \in SharedPhases
  <2>1. ReadExit
    BY <1>5, FootprintsDisjoint DEF EndPhase, LeaveTargetLock
  <2>2. t \in Reading /\ t \notin Writing
    BY <1>2, <1>5, FootprintsDisjoint DEF Reading, Writing
  <2>3. Cardinality(Reading') = Cardinality(Reading) - 1
    BY <1>2, <2>2, ReadingFinite, FS_RemoveElement
  <2>4. readers' = Cardinality(Reading)'
    BY <2>1, <2>3 DEF TargetLockInv, ReadExit
  <2>5. ~writer
    BY <2>2 DEF TargetLockInv
  <2>6. readers' \in Nat
    BY <2>3, <2>4, <2>2, ReadingFinite, FS_EmptySet
  <2>7. NoLostWakeup'
    BY <1>4, <2>1, <2>5, <2>6
       DEF TypeOK, TargetLockInv, NoLostWakeup, ReadBlocked, WriteBlocked, ReadExit
  <2>8. UNCHANGED <<writer, holder, queuedWriters, readWaiters>>
    BY <2>1 DEF ReadExit
  <2> QED
    BY <1>2, <1>3, <2>2, <2>4, <2>5, <2>7, <2>8 DEF TargetLockInv
<1>6. CASE phase[t] \in ExclusivePhases
  <2>1. WriteExit
    BY <1>6, FootprintsDisjoint DEF EndPhase, LeaveTargetLock
  <2>2. t \in Writing /\ t \notin Reading
    BY <1>2, <1>6, FootprintsDisjoint DEF Reading, Writing
  <2>3. Writing' = {}
    BY <1>2, <2>2 DEF TargetLockInv
  <2>4. Reading' = Reading
    BY <1>2, <2>2
  <2>5. NoLostWakeup'
    BY <2>1 DEF NoLostWakeup, WriteExit
  <2> QED
    BY <1>2, <1>3, <2>1, <2>3, <2>4, <2>5 DEF TargetLockInv, WriteExit
<1>7. CASE phase[t] \notin SharedPhases \cup ExclusivePhases
  <2>1. UNCHANGED rwVars
    BY <1>7 DEF EndPhase, LeaveTargetLock
  <2>2. Reading' = Reading /\ Writing' = Writing
    BY <1>2, <1>7 DEF Reading, Writing
  <2>3. NoLostWakeup'
    BY <1>4, <2>1 DEF TargetLockInv, NoLostWakeup, ReadBlocked, WriteBlocked, rwVars
  <2> QED
    BY <1>2, <1>3, <2>1, <2>2, <2>3 DEF TargetLockInv, rwVars
<1> QED
  BY <1>5, <1>6, <1>7

LEMMA TargetStep ==
    ASSUME TypeOK, TargetLockInv, [Next]_vars
    PROVE  TargetLockInv'
<1>1. ASSUME UNCHANGED vars PROVE TargetLockInv'
  BY <1>1 DEF TargetLockInv, Reading, Writing, NoLostWakeup, ReadBlocked,
     WriteBlocked, vars, rwVars, reqVars
<1>2. ASSUME NEW t \in Threads, NEW o \in Ops, NEW nw \in BOOLEAN, Arrive(t, o, nw)
      PROVE  TargetLockInv'
  <2>1. /\ UNCHANGED rwVars
        /\ at[t] \notin {"in", "readWait", "writeWait"}
        /\ at'[t] \notin {"in", "readWait", "writeWait"}
        /\ \A u \in Threads \ {t} : at'[u] = at[u] /\ phase'[u] = phase[u]
    BY <1>2 DEF TypeOK, Arrive, MoveTo
  <2> QED
    BY <2>1, TargetFrame
<1>3. ASSUME NEW t \in Threads, Serve(t) PROVE TargetLockInv'
  <2>1. CASE \/ ReserveRefresh(t) \/ EnterGate(t) \/ WaitedGate(t) \/ RecordGateHolder(t)
             \/ LeaveGate(t) \/ LeftGate(t) \/ DropReservation(t) \/ Reply(t)
    <3>1. /\ UNCHANGED rwVars
          /\ at[t] \notin {"in", "readWait", "writeWait"}
          /\ at'[t] \notin {"in", "readWait", "writeWait"}
          /\ \A u \in Threads \ {t} : at'[u] = at[u] /\ phase'[u] = phase[u]
      BY <2>1 DEF TypeOK, ReserveRefresh, EnterGate, WaitedGate, RecordGateHolder,
         LeaveGate, LeftGate, DropReservation, Reply, GateFrame, MoveTo
    <3> QED
      BY <3>1, TargetFrame
  <2>2. CASE EnterShared(t)
    <3>1. CASE ReadGrant(t) /\ MoveTo(t, "in") /\ UNCHANGED phase
      BY <2>2, <3>1, TargetReadGrant DEF EnterShared
    <3>2. CASE ReadPark(t) /\ MoveTo(t, "readWait") /\ UNCHANGED phase
      BY <2>2, <3>2, TargetReadPark DEF EnterShared
    <3>3. CASE UNCHANGED <<at, rwVars>> /\ phase' = [phase EXCEPT ![t] = AfterRefusal(phase[t])]
      <4>1. /\ UNCHANGED rwVars
            /\ at[t] \notin {"in", "readWait", "writeWait"}
            /\ at'[t] \notin {"in", "readWait", "writeWait"}
            /\ \A u \in Threads \ {t} : at'[u] = at[u] /\ phase'[u] = phase[u]
        BY <2>2, <3>3 DEF TypeOK, EnterShared
      <4> QED
        BY <4>1, TargetFrame
    <3> QED
      BY <2>2, <3>1, <3>2, <3>3 DEF EnterShared
  <2>3. CASE WakeShared(t)
    <3>1. phase[t] \in SharedPhases /\ at[t] = "readWait"
      BY <2>3 DEF WakeShared, TargetLockInv
    <3>2. CASE ReadGrant(t) /\ MoveTo(t, "in")
      BY <2>3, <3>1, <3>2, TargetReadGrant DEF WakeShared
    <3>3. CASE ReadPark(t) /\ UNCHANGED at
      <4>1. MoveTo(t, "readWait")
        BY <3>1, <3>3 DEF TypeOK, MoveTo
      <4> QED
        BY <2>3, <3>1, <3>3, <4>1, TargetReadPark DEF WakeShared
    <3> QED
      BY <2>3, <3>2, <3>3 DEF WakeShared
  <2>4. CASE EnterExclusive(t)
    <3>1. phase[t] \in ExclusivePhases /\ at[t] \in {"enter", "writeWait"}
      BY <2>4 DEF EnterExclusive, TargetLockInv
    <3> QED
      BY <2>4, <3>1, TargetWriteGrant, TargetWritePark DEF EnterExclusive
  <2>5. CASE EnterUnlocked(t)
    <3>1. /\ at[t] = "enter" /\ at' = [at EXCEPT ![t] = "in"]
          /\ phase[t] \notin SharedPhases \cup ExclusivePhases
          /\ UNCHANGED <<phase, rwVars>>
      BY <2>5 DEF EnterUnlocked, MoveTo
    <3>2. Reading' = Reading /\ Writing' = Writing
      BY <3>1 DEF TypeOK, Reading, Writing
    <3>3. /\ {u \in Threads : at'[u] = "writeWait"} = {u \in Threads : at[u] = "writeWait"}
          /\ {u \in Threads : at'[u] = "readWait"} = {u \in Threads : at[u] = "readWait"}
      BY <3>1 DEF TypeOK
    <3>4. NoLostWakeup'
      BY <3>1 DEF TypeOK, TargetLockInv, NoLostWakeup, ReadBlocked, WriteBlocked, rwVars
    <3> QED
      BY <3>1, <3>2, <3>3, <3>4 DEF TypeOK, TargetLockInv, rwVars
  <2>6. CASE EndPhase(t)
    BY <2>6, TargetEndPhase
  <2> QED
    BY <1>3, <2>1, <2>2, <2>3, <2>4, <2>5, <2>6 DEF Serve
<1> QED
  BY <1>1, <1>2, <1>3 DEF Next

-----------------------------------------------------------------------------
(* What a request may still be refused or overtaken by, by its phase.        *)

RefreshPhases == {"resolve", "refreshing", "flags", "reply", "end"}
LoadPhases == {"open", "loading", "publish", "end"}

\* A thread between requests has nothing; a request that has changed something
\* or fixed its view never waits for the gate again; a refused one has nothing
\* left to do but to collect; and a refresh inside the gate is the reserved one.
Request(t) ==
    /\ at[t] = "idle" => ~worked[t] /\ ~refused[t] /\ view[t] = None
    /\ op[t] = "refresh" => phase[t] \in RefreshPhases
    /\ op[t] = "load_binary" => phase[t] \in LoadPhases
    /\ phase[t] = "close" => view[t] = None
    /\ (worked[t] \/ view[t] # None) /\ NeedsGate(t) => HasGate(t)
    /\ phase[t] \in {"read", "baseline", "plan"} => ~worked[t]
    /\ refused[t] => phase[t] \in {"collect", "end"} /\ ~worked[t]
    /\ op[t] = "refresh" /\ HasGate(t) => HasReservation(t)

RequestInv == \A t \in Threads : Request(t)

\* Where a phase may lead: never back into the gate, never back to where a
\* request begins.
LEMMA PhaseFlow ==
    ASSUME NEW o \in AllOps, NEW p \in Phases, NEW q \in Successors(o, p)
    PROVE  /\ q \in GatedPhases => p \in GatedPhases
           /\ q \notin {"read", "close", "baseline"}
           /\ q = "plan" => p = "baseline"
           /\ p = "collect" => q = "end"
           /\ p # "end"
           /\ o = "refresh" => q \in RefreshPhases
           /\ o = "load_binary" => q \in LoadPhases
<1>1. <<p, q>> \in Flow[o]
  BY DEF Successors
<1>2. Flow[o] \in {DispatchGraph, MutationGraph, ClassApplyTypesGraph, FunctionCreateGraph,
                   GoRenameGraph, RefreshGraph, LoadBinaryGraph}
  BY DEF AllOps, Flow
<1>3. CASE <<p, q>> \in MutationGraph
  BY <1>3, <1>1 DEF MutationGraph, Flow, GatedPhases, RefreshGraph, LoadBinaryGraph
<1>4. CASE <<p, q>> \in DispatchGraph \cup GoRenameGraph \cup RefreshGraph \cup LoadBinaryGraph
  BY <1>4, <1>1 DEF DispatchGraph, GoRenameGraph, RefreshGraph, LoadBinaryGraph, Flow,
     GatedPhases, RefreshPhases, LoadPhases
<1>5. CASE <<p, q>> \in (ClassApplyTypesGraph \cup FunctionCreateGraph) \ MutationGraph
  BY <1>5, <1>1 DEF ClassApplyTypesGraph, FunctionCreateGraph, Flow, GatedPhases,
     RefreshGraph, LoadBinaryGraph
<1> QED
  BY <1>1, <1>2, <1>3, <1>4, <1>5

LEMMA FirstPhases ==
    ASSUME NEW o \in AllOps
    PROVE  /\ FirstPhase[o] \notin {"plan", "collect", "end"}
           /\ o = "refresh" => FirstPhase[o] \in RefreshPhases
           /\ o = "load_binary" => FirstPhase[o] \in LoadPhases
BY DEF AllOps, FirstPhase, RefreshPhases, LoadPhases


\* Only its own thread changes what a request is doing and what it holds.
LEMMA RequestFrame ==
    ASSUME TypeOK, GateInv, NEW t \in Threads, NEW u \in Threads, u # t,
           Serve(t) \/ \E o \in Ops, nw \in BOOLEAN : Arrive(t, o, nw)
    PROVE  /\ at'[u] = at[u] /\ op'[u] = op[u] /\ phase'[u] = phase[u]
           /\ view'[u] = view[u] /\ worked'[u] = worked[u] /\ refused'[u] = refused[u]
           /\ HasGate(u)' <=> HasGate(u)
           /\ HasReservation(u)' <=> HasReservation(u)
<1> USE NoneAssumption
<1>1. /\ at'[u] = at[u] /\ op'[u] = op[u] /\ phase'[u] = phase[u]
      /\ worked'[u] = worked[u] /\ refused'[u] = refused[u]
  BY DEF TypeOK, Serve, Arrive, ReserveRefresh, EnterGate, WaitedGate,
     RecordGateHolder, LeaveGate, LeftGate, DropReservation, GateFrame, MoveTo,
     EnterShared, WakeShared, EnterExclusive, EnterUnlocked, ReadFrame, EndPhase, Reply
<1>2. view'[u] = view[u]
  BY DEF TypeOK, Serve, Arrive, ReserveRefresh, EnterGate, WaitedGate,
     RecordGateHolder, LeaveGate, LeftGate, DropReservation, GateFrame,
     EnterShared, WakeShared, EnterExclusive, EnterUnlocked, ReadFrame, EndPhase,
     Effect, CloseView, OpenView, PublishView, ResolveView, Fails, Adopt, Reply
<1>3. \/ UNCHANGED <<gateLock, reservation>>
      \/ gateLock = None /\ gateLock' = t /\ UNCHANGED reservation
      \/ gateLock = t /\ gateLock' = None /\ UNCHANGED reservation
      \/ reservation = None /\ reservation' = t /\ UNCHANGED gateLock
      \/ reservation = t /\ reservation' = None /\ UNCHANGED gateLock
  BY DEF GateInv, HasGate, HasReservation, Serve, Arrive, ReserveRefresh, Reserve, EnterGate,
     GateAcquire, GateQueue, WaitedGate, RecordGateHolder, GateRecord, LeaveGate, LeftGate,
     GateExit, GateClear, GateRelease, DropReservation, Unreserve, EnterShared, WakeShared,
     EnterExclusive, EnterUnlocked, ReadFrame, EndPhase, Reply, gateVars
<1> QED
  BY <1>1, <1>2, <1>3 DEF HasGate, HasReservation

\* What one step does to its own request.
LEMMA OwnRequest ==
    ASSUME TypeOK, GateInv, NEW t \in Threads, Serve(t), Request(t)
    PROVE  Request(t)'
<1> USE NoneAssumption DEF NeedsGate, HasGate, HasReservation, Request
<1>1. CASE ReserveRefresh(t)
  <2>1. UNCHANGED <<at, op, view, worked, refused, gateLock>>
    BY <1>1 DEF ReserveRefresh, Reserve, gateVars
  <2>2. \/ reservation' = t /\ UNCHANGED phase
        \/ phase'[t] = "end" /\ UNCHANGED reservation
    BY <1>1 DEF TypeOK, ReserveRefresh, Reserve, gateVars
  <2> QED
    BY <1>1, <2>1, <2>2 DEF ReserveRefresh, RefreshPhases, LoadPhases, GatedPhases
<1>2. CASE EnterGate(t)
  <2>1. UNCHANGED <<op, view, worked, reservation>> /\ at[t] = "enter" /\ at'[t] # "idle"
    BY <1>2 DEF TypeOK, EnterGate, GateAcquire, GateQueue, MoveTo, gateVars
  <2>2. \/ gateLock' = t /\ UNCHANGED <<phase, refused>>
        \/ UNCHANGED <<gateLock, phase, refused>>
        \/ phase'[t] = "end" /\ UNCHANGED gateLock
    BY <1>2 DEF TypeOK, EnterGate, GateAcquire, GateQueue, gateVars
  <2>3. op[t] = "refresh" => reservation = t
    BY <1>2 DEF EnterGate, ReservationSettled, NeedsReservation, RefreshPhases, ReservedPhases,
       GatedPhases
  <2>4. ~worked[t]
    BY <1>2 DEF EnterGate
  <2> QED
    BY <2>1, <2>2, <2>3, <2>4 DEF RefreshPhases, LoadPhases, GatedPhases
<1>3. CASE WaitedGate(t)
  <2>1. UNCHANGED <<op, view, worked, refused, phase, reservation>> /\ at'[t] # "idle" /\ gateLock' = t
    BY <1>3 DEF TypeOK, WaitedGate, GateAcquire, GateFrame, MoveTo
  <2>2. op[t] = "refresh" => reservation = t
    BY <1>3 DEF WaitedGate, GateInv, ReservationSettled, NeedsReservation, RefreshPhases,
       ReservedPhases, GatedPhases
  <2> QED
    BY <2>1, <2>2
<1>4. CASE RecordGateHolder(t) \/ LeaveGate(t) \/ LeftGate(t)
  <2>1. UNCHANGED <<op, view, worked, refused, phase, reservation>> /\ at'[t] # "idle"
    BY <1>4 DEF TypeOK, RecordGateHolder, GateRecord, LeaveGate, LeftGate, GateExit, GateClear,
       GateRelease, GateFrame, MoveTo
  <2>2. UNCHANGED gateLock \/ (gateLock' = None /\ phase[t] \notin GatedPhases)
    <3>1. CASE RecordGateHolder(t) \/ LeaveGate(t)
      BY <3>1 DEF RecordGateHolder, GateRecord, LeaveGate, GateExit, GateClear
    <3>2. CASE LeftGate(t)
      BY <3>2 DEF LeftGate, GateExit, GateRelease, GateInv
    <3> QED
      BY <1>4, <3>1, <3>2
  <2> QED
    BY <2>1, <2>2
<1>5. CASE DropReservation(t)
  <2>1. UNCHANGED <<op, view, worked, refused, phase, at, gateLock>>
    BY <1>5 DEF DropReservation, Unreserve, GateFrame
  <2>2. op[t] = "refresh" => gateLock # t
    BY <1>5 DEF DropReservation, MayDropReservation, NeedsReservation, RefreshPhases,
       ReservedPhases, GatedPhases
  <2> QED
    BY <2>1, <2>2
<1>6. CASE EnterShared(t)
  <2>1. UNCHANGED <<op, view, worked, gateLock, reservation>> /\ at'[t] # "idle"
    BY <1>6 DEF TypeOK, EnterShared, ReadFrame, MoveTo, gateVars
  <2>2. \/ UNCHANGED <<phase, refused>>
        \/ /\ phase'[t] = AfterRefusal(phase[t]) /\ phase[t] \in {"read", "plan"}
           /\ NeedsGate(t) <=> HasGate(t)
    BY <1>6 DEF TypeOK, EnterShared, RefusableReads, Settled, GateSettled
  <2>3. op[t] \in {"refresh", "load_binary"} => phase[t] \notin {"read", "plan"}
    BY DEF RefreshPhases, LoadPhases
  <2> QED
    BY <2>1, <2>2, <2>3 DEF AfterRefusal, GatedPhases, RefreshPhases, LoadPhases
<1>7. CASE WakeShared(t) \/ EnterExclusive(t) \/ EnterUnlocked(t)
  <2>1. UNCHANGED <<op, view, worked, phase, refused, gateLock, reservation>> /\ at'[t] # "idle"
    BY <1>7 DEF TypeOK, WakeShared, EnterExclusive, EnterUnlocked, ReadFrame, MoveTo, gateVars
  <2> QED
    BY <2>1
<1>8. CASE EndPhase(t)
  <2>1. PICK q \in Successors(op[t], phase[t]) : phase' = [phase EXCEPT ![t] = q]
    BY <1>8 DEF EndPhase
  <2>2. /\ op[t] \in AllOps /\ phase[t] \in Phases /\ phase'[t] = q
    BY <2>1 DEF TypeOK
  <2>3. UNCHANGED <<op, refused, gateLock, reservation>> /\ at'[t] = "enter"
    BY <1>8 DEF TypeOK, EndPhase, MoveTo, gateVars
  <2>4. phase[t] \in GatedPhases => gateLock = t
    BY <1>8 DEF EndPhase, GateInv, Settled, GateSettled
  <2>5. worked'[t] => worked[t] \/ phase[t] \in WorkingPhases
    BY <1>8 DEF TypeOK, EndPhase
  <2>6. refused[t] => phase[t] = "collect" /\ q = "end" /\ ~worked'[t]
    BY <2>2, <2>5, PhaseFlow DEF WorkingPhases
  <2>7. q = "plan" => ~worked'[t]
    BY <2>2, <2>5, PhaseFlow DEF WorkingPhases
  <2> QED
    BY <2>1, <2>2, <2>3, <2>4, <2>6, <2>7, PhaseFlow
<1>9. CASE Reply(t)
  <2>1. /\ op'[t] = "read" /\ phase'[t] = "end" /\ view'[t] = None
        /\ worked'[t] = FALSE /\ refused'[t] = FALSE
    BY <1>9 DEF TypeOK, Reply
  <2> QED
    BY <2>1, FootprintsDisjoint
<1> QED
  BY <1>1, <1>2, <1>3, <1>4, <1>5, <1>6, <1>7, <1>8, <1>9 DEF Serve

LEMMA RequestStep ==
    ASSUME TypeOK, GateInv, RequestInv, [Next]_vars
    PROVE  RequestInv'
<1>1. CASE UNCHANGED vars
  BY <1>1 DEF RequestInv, Request, NeedsGate, HasGate, HasReservation, vars, gateVars, reqVars
<1>2. ASSUME NEW t \in Threads, NEW u \in Threads, u # t,
             Serve(t) \/ \E o \in Ops, nw \in BOOLEAN : Arrive(t, o, nw)
      PROVE  Request(u)'
  BY <1>2, RequestFrame DEF RequestInv, Request, NeedsGate
<1>3. ASSUME NEW t \in Threads, NEW o \in Ops, NEW nw \in BOOLEAN, Arrive(t, o, nw)
      PROVE  Request(t)'
  <2>1. /\ op'[t] = o /\ phase'[t] = FirstPhase[o] /\ at[t] = "idle" /\ at'[t] = "enter"
        /\ UNCHANGED <<view, worked, refused, gateLock>>
    BY <1>3 DEF TypeOK, Arrive, MoveTo, gateVars
  <2>2. gateLock # t /\ view[t] = None /\ ~worked[t] /\ ~refused[t]
    BY <2>1 DEF GateInv, HasGate, RequestInv, Request
  <2>3. o \in AllOps
    BY ConstantsAssumption
  <2> QED
    BY <2>1, <2>2, <2>3, FirstPhases DEF Request, NeedsGate, HasGate
<1>4. ASSUME NEW t \in Threads, Serve(t) PROVE Request(t)'
  BY <1>4, OwnRequest DEF RequestInv
<1> QED
  BY <1>1, <1>2, <1>3, <1>4 DEF Next, RequestInv

\* Views close only inside the gate, so nobody closes the view of the request
\* that has it.
LEMMA SessionStep ==
    ASSUME TypeOK, GateInv, RequestInv, SessionViewStaysOpen, [Next]_vars
    PROVE  SessionViewStaysOpen'
<1> USE NoneAssumption
<1>1. CASE UNCHANGED vars
  BY <1>1 DEF SessionViewStaysOpen, vars, gateVars, reqVars
<1>2. ASSUME NEW t \in Threads, NEW v \in openViews \ openViews',
             Serve(t) \/ \E o \in Ops, nw \in BOOLEAN : Arrive(t, o, nw)
      PROVE  gateLock = t /\ phase[t] = "close" /\ view'[t] = None
  <2>1. EndPhase(t) /\ phase[t] = "close" /\ UNCHANGED view
    BY <1>2 DEF Serve, Arrive, ReserveRefresh, EnterGate, WaitedGate, RecordGateHolder, LeaveGate,
       LeftGate, DropReservation, GateFrame, EnterShared, WakeShared, EnterExclusive,
       EnterUnlocked, ReadFrame, EndPhase, Effect, CloseView, OpenView, PublishView,
       ResolveView, Fails, Adopt, Reply, ResolvingPhases
  <2> QED
    BY <2>1 DEF EndPhase, GateInv, Settled, GateSettled, NeedsGate, HasGate, GatedPhases,
       RequestInv, Request
<1>3. ASSUME NEW t \in Threads, Serve(t) \/ \E o \in Ops, nw \in BOOLEAN : Arrive(t, o, nw),
             NEW u \in Threads,
             gateLock' = u, at'[u] # "gateLeft", op'[u] # "load_binary", view'[u] # None
      PROVE  view'[u] \in openViews'
  <2>1. CASE u # t
    <3>1. gateLock = u /\ at'[u] = at[u] /\ op'[u] = op[u] /\ view'[u] = view[u]
      BY <1>3, <2>1, RequestFrame DEF HasGate
    <3> QED
      BY <1>3, <1>2, <2>1, <3>1 DEF SessionViewStaysOpen
  <2>2. CASE u = t /\ EndPhase(t)
    <3>1. /\ gateLock = t /\ at[t] = "in" /\ op'[t] = op[t] /\ phase[t] \in GatedPhases
      BY <1>3, <2>2 DEF EndPhase, gateVars, GateInv, Settled, GateSettled, NeedsGate, HasGate
    <3>2. \/ UNCHANGED <<view, openViews>>
          \/ \E v \in openViews : Adopt(t, v)
          \/ phase[t] = "close" /\ UNCHANGED view
      BY <2>2, <3>1 DEF EndPhase, Effect, CloseView, ResolveView, Fails, GatedPhases
    <3>3. CASE UNCHANGED <<view, openViews>>
      BY <1>3, <2>2, <3>1, <3>3 DEF SessionViewStaysOpen
    <3>4. CASE \E v \in openViews : Adopt(t, v)
      BY <2>2, <3>4 DEF TypeOK, Adopt
    <3>5. CASE phase[t] = "close" /\ UNCHANGED view
      BY <1>3, <2>2, <3>5 DEF RequestInv, Request
    <3> QED
      BY <3>2, <3>3, <3>4, <3>5
  <2>3. CASE u = t /\ (EnterGate(t) \/ WaitedGate(t))
    <3>1. UNCHANGED view /\ NeedsGate(t) /\ ~HasGate(t)
      BY <2>3 DEF EnterGate, WaitedGate, GateFrame, GateInv
    <3> QED
      BY <1>3, <2>3, <3>1 DEF RequestInv, Request
  <2>4. CASE u = t /\ ~EndPhase(t) /\ ~EnterGate(t) /\ ~WaitedGate(t)
    <3>1. ~Reply(t) /\ \A o \in Ops, nw \in BOOLEAN : ~Arrive(t, o, nw)
      <4>1. ASSUME Reply(t) PROVE FALSE
        BY <4>1, <1>3, <2>4 DEF TypeOK, Reply
      <4>2. ASSUME NEW o \in Ops, NEW nw \in BOOLEAN, Arrive(t, o, nw) PROVE FALSE
        BY <4>2, <1>3, <2>4 DEF Arrive, gateVars, GateInv, HasGate
      <4> QED
        BY <4>1, <4>2
    <3>2. UNCHANGED <<op, view, openViews>>
      BY <1>3, <2>4, <3>1 DEF Serve, ReserveRefresh, RecordGateHolder, LeaveGate, LeftGate,
         DropReservation, GateFrame, EnterShared, WakeShared, EnterExclusive, EnterUnlocked,
         ReadFrame
    <3>3. gateLock = t /\ at[t] # "gateLeft"
      BY <1>3, <2>4, <3>1 DEF TypeOK, Serve, ReserveRefresh, Reserve, RecordGateHolder, GateRecord,
         LeaveGate, LeftGate, GateExit, GateClear, GateRelease, DropReservation, Unreserve,
         EnterShared, WakeShared, EnterExclusive, EnterUnlocked, ReadFrame, gateVars
    <3> QED
      BY <1>3, <2>4, <3>2, <3>3 DEF SessionViewStaysOpen
  <2> QED
    BY <1>3, <2>1, <2>2, <2>3, <2>4
<1> QED
  BY <1>1, <1>3 DEF Next, SessionViewStaysOpen

-----------------------------------------------------------------------------
(* The theorems.                                                             *)

Inv == TypeOK /\ LocksInv

LEMMA InvInit == Init => Inv
<1> SUFFICES ASSUME Init PROVE Inv
  OBVIOUS
<1> USE NoneAssumption, ConstantsAssumption DEF Init, RWInit, GateInit
<1>1. TypeOK
  BY DEF TypeOK, Ats, Phases, AllOps
<1>2. Reading = {} /\ Writing = {}
  BY DEF Reading, Writing
<1>3. TargetLockInv
  BY <1>2, FS_EmptySet DEF TargetLockInv, NoLostWakeup
<1>4. GateInv
  BY DEF GateInv, HasGate, HasReservation
<1>5. LoadInv
  BY DEF LoadInv
<1> QED
  BY <1>1, <1>3, <1>4, <1>5 DEF Inv, LocksInv

LEMMA InvStep == Inv /\ [Next]_vars => Inv'
BY TypeStep, TargetStep, GateStep, LoadStep DEF Inv, LocksInv

\* The inductive invariant holds always.
THEOREM LocksInvariant == Spec => []Inv
BY InvInit, InvStep, PTL DEF Spec

\* Every variable keeps its type: in particular the reader count never goes
\* below zero and a load always has a view to publish.
THEOREM TypeCorrect == Spec => []TypeOK
<1>1. Inv => TypeOK
  BY DEF Inv
<1> QED
  BY <1>1, LocksInvariant, PTL

\* The counters and flags of both locks always describe what the requests hold.
THEOREM LocksConsistent == Spec => []LocksInv
<1>1. Inv => LocksInv
  BY DEF Inv
<1> QED
  BY <1>1, LocksInvariant, PTL

\* No thread sleeps on the condition without somebody left to wake it.
THEOREM WakeupsNotLost == Spec => []NoLostWakeup
<1>1. Inv => NoLostWakeup
  BY DEF Inv, LocksInv, TargetLockInv
<1> QED
  BY <1>1, LocksInvariant, PTL

\* A read asleep behind a writer is always reported, with somebody to blame.
THEOREM WaitsReported == Spec => []BlockedReadIsReported
<1>1. Inv => BlockedReadIsReported
  BY DEF Inv, LocksInv, TargetLockInv, NoLostWakeup, ReadBlocked,
     BlockedReadIsReported, BlockingHolders
<1> QED
  BY <1>1, LocksInvariant, PTL

\* A status reply about the gate names the request that works inside it.
THEOREM HolderNamed == Spec => []GateHolderNamed
<1>1. Inv => GateHolderNamed
  BY DEF Inv, LocksInv, GateInv, HasGate, GateHolderNamed
<1> QED
  BY <1>1, LocksInvariant, PTL

-----------------------------------------------------------------------------
(* What the requests may rely on, from the locks' invariant.                 *)

RequestsInv == Inv /\ RequestInv /\ SessionViewStaysOpen

\* What a request has done, fixed and holds always agrees with its phase.
THEOREM RequestsInvariant == Spec => []RequestsInv
<1>1. Init => RequestsInv
  <2> SUFFICES ASSUME Init PROVE RequestsInv
    OBVIOUS
  <2>1. RequestInv
    BY NoneAssumption, FootprintsDisjoint DEF Init, GateInit, RequestInv, Request, NeedsGate, HasGate
  <2>2. SessionViewStaysOpen
    BY NoneAssumption DEF Init, GateInit, SessionViewStaysOpen
  <2> QED
    BY <2>1, <2>2, InvInit DEF RequestsInv
<1>2. RequestsInv /\ [Next]_vars => RequestsInv'
  BY InvStep, RequestStep, SessionStep DEF RequestsInv, Inv, LocksInv
<1> QED
  BY <1>1, <1>2, PTL DEF Spec

\* No refresh queues behind a refresh: both would need the one reservation.
THEOREM RefreshesDoNotQueue == Spec => []RefreshNeverQueuesBehindRefresh
<1>1. RequestsInv => RefreshNeverQueuesBehindRefresh
  <2> SUFFICES ASSUME RequestsInv, NEW t \in Threads, NEW u \in Threads,
                      op[t] = "refresh", at[t] = "gateWait", gateLock = u, op[u] = "refresh"
               PROVE  FALSE
    BY DEF RefreshNeverQueuesBehindRefresh
  <2>1. gateLock # t /\ phase[t] \in GatedPhases /\ ReservationSettled(t)
    BY DEF RequestsInv, Inv, LocksInv, GateInv, NeedsGate, HasGate
  <2>2. phase[t] \in ReservedPhases
    BY <2>1 DEF RequestsInv, RequestInv, Request, RefreshPhases, GatedPhases, ReservedPhases
  <2>3. reservation = t
    BY <2>1, <2>2 DEF ReservationSettled, NeedsReservation, HasReservation
  <2>4. reservation = u
    BY DEF RequestsInv, RequestInv, Request, HasGate, HasReservation
  <2> QED
    BY <2>1, <2>3, <2>4
<1> QED
  BY <1>1, RequestsInvariant, PTL

\* Whatever other requests do, the view a gated request works on stays open.
THEOREM SessionViewsStayOpen == Spec => []SessionViewStaysOpen
<1>1. RequestsInv => SessionViewStaysOpen
  BY DEF RequestsInv
<1> QED
  BY <1>1, RequestsInvariant, PTL

\* A request is refused with nothing done, at whichever lock it is refused.
THEOREM RefusalsAreClean == Spec => []RefusedBeforeWorking
<1>1. RequestsInv => RefusedBeforeWorking
  BY DEF RequestsInv, RequestInv, Request, RefusedBeforeWorking
<1> QED
  BY <1>1, RequestsInvariant, PTL

-----------------------------------------------------------------------------
(* The locks implement ViewAccess.                                           *)

LEMMA AccessStep == Inv /\ [Next]_vars => [Access!Next]_(Access!vars)
<1> SUFFICES ASSUME Inv, [Next]_vars PROVE [Access!Next]_(Access!vars)
  OBVIOUS
<1> USE NoneAssumption, FootprintsDisjoint DEF Inv, LocksInv
<1>1. CASE UNCHANGED vars
  BY <1>1 DEF Access!vars, Reading, Writing, vars, gateVars, reqVars
<1>2. ASSUME NEW t \in Threads, NEW o \in Ops, NEW nw \in BOOLEAN, Arrive(t, o, nw)
      PROVE  UNCHANGED Access!vars
  BY <1>2 DEF TypeOK, Arrive, MoveTo, Access!vars, Reading, Writing, gateVars
<1>3. ASSUME NEW t \in Threads, Serve(t) PROVE [Access!Next]_(Access!vars)
  <2> SUFFICES \/ UNCHANGED Access!vars
               \/ Access!BeginSession(t) \/ Access!EndSession(t)
               \/ Access!StartRead(t) \/ Access!EndRead(t)
               \/ Access!StartWrite(t) \/ Access!EndWrite(t)
    BY DEF Access!Next
  <2>1. CASE \/ ReserveRefresh(t) \/ RecordGateHolder(t) \/ LeaveGate(t)
             \/ DropReservation(t) \/ Reply(t)
    BY <2>1 DEF TypeOK, ReserveRefresh, Reserve, RecordGateHolder, GateRecord, LeaveGate,
       GateExit, GateClear, DropReservation, Unreserve, Reply, GateFrame, MoveTo,
       Access!vars, Reading, Writing, gateVars
  <2>2. CASE EnterGate(t) \/ WaitedGate(t)
    <3>1. Reading' = Reading /\ Writing' = Writing
      BY <2>2 DEF TypeOK, EnterGate, WaitedGate, GateFrame, MoveTo, Reading, Writing
    <3>2. GateAcquire(t) \/ UNCHANGED gateLock
      BY <2>2 DEF EnterGate, WaitedGate, GateQueue, gateVars
    <3> QED
      BY <3>1, <3>2 DEF GateAcquire, Access!vars, Access!BeginSession
  <2>3. CASE LeftGate(t)
    <3>1. Reading' = Reading /\ Writing' = Writing /\ t \notin Reading \cup Writing
      BY <2>3 DEF TypeOK, LeftGate, GateFrame, MoveTo, Reading, Writing
    <3>2. gateLock = t /\ gateLock' = None
      BY <2>3 DEF LeftGate, GateExit, GateRelease, GateInv, HasGate
    <3> QED
      BY <3>1, <3>2 DEF Access!EndSession
  <2>4. CASE EnterShared(t) \/ WakeShared(t)
    <3>1. phase[t] \in SharedPhases /\ at[t] # "in" /\ UNCHANGED gateLock
      BY <2>4 DEF EnterShared, WakeShared, TargetLockInv, ReadFrame, gateVars
    <3>2. CASE ReadGrant(t) /\ MoveTo(t, "in") /\ UNCHANGED phase
      <4>1. Reading' = Reading \cup {t} /\ t \notin Reading /\ Writing' = Writing
        BY <3>1, <3>2 DEF TypeOK, Reading, Writing, MoveTo
      <4>2. Writing = {}
        BY <3>2 DEF TargetLockInv, ReadGrant, ReadBlocked
      <4> QED
        BY <3>1, <4>1, <4>2 DEF Access!StartRead
    <3>3. CASE ~(ReadGrant(t) /\ MoveTo(t, "in") /\ UNCHANGED phase)
      <4>1. Reading' = Reading /\ Writing' = Writing
        BY <2>4, <3>1, <3>3 DEF TypeOK, EnterShared, WakeShared, MoveTo, Reading, Writing
      <4> QED
        BY <3>1, <4>1 DEF Access!vars
    <3> QED
      BY <3>2, <3>3
  <2>5. CASE EnterExclusive(t)
    <3>1. phase[t] \in ExclusivePhases /\ at[t] # "in" /\ UNCHANGED <<gateLock, phase>>
      BY <2>5 DEF EnterExclusive, TargetLockInv, ReadFrame, gateVars
    <3>2. CASE WriteGrant(t) /\ MoveTo(t, "in")
      <4>1. Reading' = Reading /\ Writing' = Writing \cup {t}
        BY <3>1, <3>2 DEF TypeOK, Reading, Writing, MoveTo
      <4>2. Reading = {} /\ Writing = {}
        BY <3>2, ReadingFinite, FS_EmptySet DEF TypeOK, TargetLockInv, WriteGrant, WriteBlocked
      <4> QED
        BY <3>1, <4>1, <4>2 DEF Access!StartWrite
    <3>3. CASE MoveTo(t, "writeWait")
      BY <3>1, <3>3 DEF TypeOK, Reading, Writing, MoveTo, Access!vars
    <3> QED
      BY <2>5, <3>2, <3>3 DEF EnterExclusive
  <2>6. CASE EnterUnlocked(t)
    BY <2>6 DEF TypeOK, EnterUnlocked, MoveTo, ReadFrame, gateVars, Reading, Writing, Access!vars
  <2>7. CASE EndPhase(t)
    <3>1. PICK q \in Successors(op[t], phase[t]) : phase' = [phase EXCEPT ![t] = q]
      BY <2>7 DEF EndPhase
    <3>2. Reading' = Reading \ {t} /\ Writing' = Writing \ {t} /\ UNCHANGED gateLock
      BY <2>7, <3>1 DEF TypeOK, EndPhase, MoveTo, Reading, Writing, gateVars
    <3>3. CASE t \in Reading
      <4>1. t \notin Writing
        BY <3>3 DEF Reading, Writing
      <4> QED
        BY <3>2, <3>3, <4>1 DEF Access!EndRead
    <3>4. CASE t \in Writing
      <4>1. t \notin Reading /\ Writing = {t}
        BY <3>4 DEF Reading, Writing, TargetLockInv
      <4> QED
        BY <3>2, <4>1 DEF Access!EndWrite
    <3>5. CASE t \notin Reading \cup Writing
      BY <3>2, <3>5 DEF Access!vars
    <3> QED
      BY <3>3, <3>4, <3>5
  <2> QED
    BY <1>3, <2>1, <2>2, <2>3, <2>4, <2>5, <2>6, <2>7 DEF Serve
<1> QED
  BY <1>1, <1>2, <1>3 DEF Next

\* The two locks give every request the access discipline of ViewAccess:
\* exclusive phases are alone, and gated requests take turns.
THEOREM LocksImplementAccess == Spec => AccessSpec
<1>1. Init => Access!Init
  BY DEF Init, GateInit, Access!Init, Reading, Writing
<1> QED
  BY <1>1, AccessStep, LocksInvariant, PTL DEF Spec, AccessSpec, Access!Spec

=============================================================================
