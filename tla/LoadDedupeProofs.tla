-------------------------- MODULE LoadDedupeProofs --------------------------
(***************************************************************************)
(* The invariants of LoadDedupe, for every set of loads.                   *)
(*                                                                         *)
(* The markers speak for themselves: MarkersMatchWork is inductive, and    *)
(* OpenersDisjoint follows from it.  Everything about views rests on an    *)
(* account of whose hands a view is in at each place of its load: a view   *)
(* that is open but not published belongs to the load that opened it, and  *)
(* that load is at a place from which it publishes or closes it.           *)
(***************************************************************************)
EXTENDS LoadDedupe, TLAPS

\* What a load currently means to open follows from its request.
ChoiceInv == \A t \in Loads :
    /\ substitute[t] => Substitutes(request[t])
    /\ loadPath[t] = IF substitute[t] THEN "db" ELSE request[t].named
    /\ at[t] = "provenance" => substitute[t]
    /\ at[t] \in {"recheck", "reopen"} => ~substitute[t]

\* A database that stands in for the raw file has been judged before it is
\* analysed or returned.
JudgedInv == \A t \in Loads :
    at[t] \in {"existing", "analyze", "publish", "register"} /\ substitute[t] => dbMatches

BeforeOpening == {"check", "judge", "existing", "claim", "wait", "open", "recheck", "reopen"}
AfterAnalysis == {"publish", "register", "cleanup", "finish", "done"}
AfterPublish == {"register", "cleanup", "finish", "done"}

\* Where the view of a load is, by the load's place.
Hands(t) ==
    /\ at[t] \in BeforeOpening => bv[t] = NoPath
    /\ at[t] \in {"provenance", "analyze", "publish"} => View(t) \in bnOpen \ openViews
    /\ at[t] = "cleanup" /\ OwnsOpenView(t) => View(t) \in bnOpen \ openViews
    /\ published[t] => at[t] \in AfterPublish /\ View(t) \notin bnOpen \ openViews
    /\ at[t] = "register" => published[t]

\* Where the load is that a view belongs to.
Owned(t) ==
    /\ \A v \in bnOpen \ openViews : v[1] = t =>
           v = View(t) /\ at[t] \in {"provenance", "analyze", "publish", "cleanup"}
    /\ \A v \in openViews : v[1] = t => published[t]
    /\ \A v \in quickViews : v[1] = t => v \in bnOpen /\ at[t] \in AfterAnalysis

ViewsInv == \A t \in Loads : Hands(t) /\ Owned(t)
WaitersInv == \A t \in Loads : at[t] = "wait" => waitsFor[t] \in Loads
MarkersInv == MarkersMatchWork /\ NoStrandedWaiter /\ WaitersInv
BytesInv == ChoiceInv /\ JudgedInv /\ StaleDatabaseRefused

DedupeInv == TypeOK /\ MarkersInv /\ BytesInv /\ ViewsInv

-----------------------------------------------------------------------------
(* Types.  That only open views are published needs ViewsInv.                *)

LEMMA ViewTyped ==
    ASSUME TypeOK, NEW t \in Loads, View(t) \in bnOpen
    PROVE  View(t) \in ViewIds /\ bv[t] \in Paths
BY DEF TypeOK, View, ViewIds

LEMMA TypeStep ==
    ASSUME TypeOK, ViewsInv, [Next]_vars
    PROVE  TypeOK'
<1> USE NoLoadAssumption DEF ViewsInv, Hands
<1>1. CASE UNCHANGED vars
  BY <1>1 DEF TypeOK, vars
<1>2. ASSUME NEW v \in ViewIds, CloseView(v) PROVE TypeOK'
  BY <1>2 DEF TypeOK, CloseView
<1>3. ASSUME NEW t \in Loads, Step(t) PROVE TypeOK'
  <2>1. CASE FindOpenView(t)
    BY <2>1 DEF TypeOK, FindOpenView, MoveTo, Ats
  <2>2. CASE JudgeExisting(t)
    BY <2>2 DEF TypeOK, JudgeExisting, MoveTo, Ats, Paths
  <2>3. CASE ReturnExisting(t)
    BY <2>3 DEF TypeOK, ReturnExisting, MoveTo, Ats, Paths
  <2>4. CASE Claim(t)
    <3>1. marker' \in [Paths -> Loads \cup {NoLoad}]
      BY <2>4 DEF TypeOK, Claim
    <3>2. waitsFor' \in [Loads -> Loads \cup {NoLoad}]
      <4>1. \A u \in Busy(t) : u \in Loads
        BY DEF TypeOK, Busy, Keys, Requests, Paths
      <4> QED
        BY <2>4, <4>1 DEF TypeOK, Claim
    <3>3. at' \in [Loads -> Ats]
      BY <2>4 DEF TypeOK, Claim, MoveTo, Ats
    <3> QED
      BY <2>4, <3>1, <3>2, <3>3 DEF TypeOK, Claim
  <2>5. CASE BusyWait(t)
    BY <2>5 DEF TypeOK, BusyWait, MoveTo, Ats
  <2>6. CASE OpenView(t)
    BY <2>6 DEF TypeOK, OpenView, MoveTo, Ats, ViewIds, Paths
  <2>7. CASE JudgeOpened(t)
    <3>1. openViews \subseteq bnOpen'
      BY <2>7 DEF TypeOK, JudgeOpened
    <3> QED
      BY <2>7, <3>1 DEF TypeOK, JudgeOpened, MoveTo, Ats, Paths
  <2>8. CASE Recheck(t)
    BY <2>8 DEF TypeOK, Recheck, MoveTo, Ats, Paths
  <2>9. CASE Analyze(t)
    <3>1. View(t) \in ViewIds
      BY <2>9, ViewTyped DEF Analyze
    <3> QED
      BY <2>9, <3>1 DEF TypeOK, Analyze, MoveTo, Ats
  <2>10. CASE Publish(t)
    <3>1. View(t) \in bnOpen
      BY <2>10 DEF Publish
    <3> QED
      BY <2>10, <3>1 DEF TypeOK, Publish, MoveTo, Ats
  <2>11. CASE Register(t)
    BY <2>11 DEF TypeOK, Register, MoveTo, Ats
  <2>12. CASE Raise(t)
    BY <2>12 DEF TypeOK, Raise, MoveTo, Ats
  <2>13. CASE Cleanup(t)
    <3>1. openViews \subseteq bnOpen'
      BY <2>13 DEF TypeOK, Cleanup
    <3> QED
      BY <2>13, <3>1 DEF TypeOK, Cleanup, MoveTo, Ats, ForgetView
  <2>14. CASE Finish(t)
    BY <2>14 DEF TypeOK, Finish, MoveTo, Ats, MarkersAfter, Woken
  <2> QED
    BY <1>3, <2>1, <2>2, <2>3, <2>4, <2>5, <2>6, <2>7, <2>8, <2>9, <2>10, <2>11, <2>12, <2>13, <2>14 DEF Step
<1> QED
  BY <1>1, <1>2, <1>3 DEF Next

-----------------------------------------------------------------------------
(* What a step of one load leaves alone.                                     *)

\* A load moves only itself, and keeps what it was asked for.
LEMMA StepFrame ==
    ASSUME TypeOK, NEW t \in Loads, Step(t)
    PROVE  /\ UNCHANGED <<dbMatches, request>>
           /\ \A u \in Loads \ {t} :
                  UNCHANGED <<at[u], loadPath[u], substitute[u], waitsFor[u], bv[u],
                              published[u], result[u]>>
<1>1. UNCHANGED <<dbMatches, request>>
  BY DEF Step, FindOpenView, JudgeExisting, ReturnExisting,
     Claim, BusyWait, OpenView, JudgeOpened, Recheck, Analyze, Publish, Register, Raise,
     Cleanup, Finish, MoveTo
<1>2. ASSUME NEW u \in Loads \ {t}
      PROVE  UNCHANGED <<at[u], loadPath[u], substitute[u], waitsFor[u], bv[u],
                         published[u], result[u]>>
  BY DEF TypeOK, Step, FindOpenView, JudgeExisting, ReturnExisting,
     Claim, BusyWait, OpenView, JudgeOpened, Recheck, Analyze, Publish, Register, Raise,
     Cleanup, Finish, MoveTo
<1> QED
  BY <1>1, <1>2

\* A load opens, closes, publishes and flags views of its own only.
LEMMA StepViews ==
    ASSUME TypeOK, NEW t \in Loads, Step(t), NEW v, v[1] # t
    PROVE  /\ v \in bnOpen' <=> v \in bnOpen
           /\ v \in openViews' <=> v \in openViews
           /\ v \in quickViews' <=> v \in quickViews
BY DEF TypeOK, View, ForgetView, Step, FindOpenView, JudgeExisting, ReturnExisting,
     Claim, BusyWait, OpenView, JudgeOpened, Recheck, Analyze, Publish, Register, Raise,
     Cleanup, Finish, MoveTo

\* An open view is some load's, under the path of one of the files.
LEMMA OwnerTyped ==
    ASSUME TypeOK, NEW v, v \in bnOpen \cup openViews \cup quickViews
    PROVE  v \in ViewIds /\ v[1] \in Loads /\ v = <<v[1], v[2]>> /\ v[2] # NoPath
BY DEF TypeOK, ViewIds, Paths, NoPath

-----------------------------------------------------------------------------
(* The markers.                                                              *)

LEMMA MarkersStep ==
    ASSUME TypeOK, MarkersInv, [Next]_vars
    PROVE  MarkersInv'
<1> USE NoLoadAssumption DEF MarkersInv
<1>1. CASE UNCHANGED vars
  BY <1>1 DEF MarkersMatchWork, NoStrandedWaiter, WaitersInv, Opening, Keys, vars
<1>2. ASSUME NEW v \in ViewIds, CloseView(v) PROVE MarkersInv'
  BY <1>2 DEF CloseView, MarkersMatchWork, NoStrandedWaiter, WaitersInv, Opening, Keys
<1>3. ASSUME NEW t \in Loads, Step(t) PROVE MarkersInv'
  <2>1. \A u \in Loads : Keys(u)' = Keys(u)
    BY <1>3, StepFrame DEF Keys
  <2>2. \A u \in Loads \ {t} : /\ Opening(u)' <=> Opening(u)
                               /\ at'[u] = at[u] /\ waitsFor'[u] = waitsFor[u]
    BY <1>3, StepFrame DEF Opening
  <2>3. CASE Claim(t)
    <3>1. ~Opening(t) /\ UNCHANGED eventSet
      BY <2>3 DEF Claim, Opening
    <3>2. CASE /\ Busy(t) = {} /\ marker' = [k \in Paths |-> IF k \in Keys(t) THEN t ELSE marker[k]]
               /\ MoveTo(t, "open") /\ UNCHANGED waitsFor
      <4>1. \A k \in Keys(t) : marker[k] = NoLoad
        BY <3>2 DEF Busy
      <4>2. Opening(t)' /\ at'[t] # "wait"
        BY <3>2 DEF TypeOK, MoveTo, Opening
      <4>3. MarkersMatchWork'
        BY <2>1, <2>2, <3>1, <3>2, <4>1, <4>2 DEF MarkersMatchWork
      <4>4. NoStrandedWaiter' /\ WaitersInv'
        BY <2>2, <3>1, <4>2 DEF NoStrandedWaiter, WaitersInv
      <4> QED
        BY <4>3, <4>4
    <3>3. CASE /\ \E u \in Busy(t) : waitsFor' = [waitsFor EXCEPT ![t] = u]
               /\ MoveTo(t, "wait") /\ UNCHANGED marker
      <4>1. ~Opening(t)'
        BY <3>3 DEF TypeOK, MoveTo, Opening
      <4>2. PICK u \in Busy(t) : waitsFor'[t] = u
        BY <3>3 DEF TypeOK
      <4>3. u \in Loads /\ Opening(u) /\ u # t
        BY <3>1 DEF Busy, Keys, TypeOK, Requests, Paths, MarkersMatchWork
      <4>4. MarkersMatchWork'
        BY <2>1, <2>2, <3>1, <3>3, <4>1 DEF MarkersMatchWork
      <4>5. NoStrandedWaiter' /\ WaitersInv'
        BY <2>2, <3>1, <4>2, <4>3 DEF NoStrandedWaiter, WaitersInv
      <4> QED
        BY <4>4, <4>5
    <3> QED
      BY <2>3, <3>2, <3>3 DEF Claim
  <2>4. CASE Finish(t)
    <3>1. Opening(t) /\ ~Opening(t)' /\ at'[t] # "wait"
      BY <2>4 DEF Finish, TypeOK, MoveTo, Opening
    <3>2. MarkersMatchWork'
      BY <2>1, <2>2, <2>4, <3>1 DEF Finish, MarkersAfter, MarkersMatchWork
    <3>3. NoStrandedWaiter' /\ WaitersInv'
      BY <2>2, <2>4, <3>1 DEF Finish, Woken, NoStrandedWaiter, WaitersInv
    <3> QED
      BY <3>2, <3>3
  <2>5. CASE ~Claim(t) /\ ~Finish(t)
    <3>1. UNCHANGED <<marker, eventSet>> /\ (Opening(t)' <=> Opening(t)) /\ at'[t] # "wait"
      BY <1>3, <2>5 DEF TypeOK, Opening, Step, FindOpenView, JudgeExisting, ReturnExisting,
     BusyWait, OpenView, JudgeOpened, Recheck, Analyze, Publish, Register, Raise,
     Cleanup, MoveTo
    <3>2. MarkersMatchWork'
      BY <2>1, <2>2, <3>1 DEF MarkersMatchWork
    <3>3. NoStrandedWaiter' /\ WaitersInv'
      BY <2>2, <3>1 DEF NoStrandedWaiter, WaitersInv
    <3> QED
      BY <3>2, <3>3
  <2> QED
    BY <2>3, <2>4, <2>5
<1> QED
  BY <1>1, <1>2, <1>3 DEF Next

-----------------------------------------------------------------------------
(* The bytes on disk.                                                        *)

LEMMA BytesStep ==
    ASSUME TypeOK, BytesInv, [Next]_vars
    PROVE  BytesInv'
<1> USE DEF BytesInv
<1>1. CASE UNCHANGED vars
  BY <1>1 DEF ChoiceInv, JudgedInv, StaleDatabaseRefused, vars
<1>2. ASSUME NEW v \in ViewIds, CloseView(v) PROVE BytesInv'
  BY <1>2 DEF CloseView, ChoiceInv, JudgedInv, StaleDatabaseRefused
<1>3. ASSUME NEW t \in Loads, Step(t) PROVE BytesInv'
  <2> USE DEF Substitutes
  <2>1. CASE JudgeExisting(t)
    BY <1>3, <2>1, StepFrame
       DEF TypeOK, JudgeExisting, RefuseExisting, MoveTo, ChoiceInv, JudgedInv, StaleDatabaseRefused
  <2>2. CASE ReturnExisting(t)
    BY <1>3, <2>2, StepFrame
       DEF TypeOK, ReturnExisting, MoveTo, ChoiceInv, JudgedInv, StaleDatabaseRefused
  <2>3. CASE OpenView(t)
    BY <1>3, <2>3, StepFrame
       DEF TypeOK, OpenView, MoveTo, ChoiceInv, JudgedInv, StaleDatabaseRefused
  <2>4. CASE JudgeOpened(t)
    BY <1>3, <2>4, StepFrame
       DEF TypeOK, JudgeOpened, MoveTo, ChoiceInv, JudgedInv, StaleDatabaseRefused
  <2>5. CASE Recheck(t)
    BY <1>3, <2>5, StepFrame
       DEF TypeOK, Recheck, MoveTo, ChoiceInv, JudgedInv, StaleDatabaseRefused
  <2>6. CASE Register(t)
    BY <1>3, <2>6, StepFrame
       DEF TypeOK, Register, MoveTo, ChoiceInv, JudgedInv, StaleDatabaseRefused
  <2>7. CASE FindOpenView(t) \/ Claim(t) \/ BusyWait(t) \/ Analyze(t) \/ Publish(t)
             \/ Raise(t) \/ Cleanup(t) \/ Finish(t)
    <3>1. /\ UNCHANGED <<dbMatches, request, loadPath, substitute, result>>
          /\ \A u \in Loads \ {t} : at'[u] = at[u]
          /\ at'[t] \notin {"existing", "recheck", "reopen"}
          /\ at'[t] \in {"publish", "register"} => at[t] \in {"analyze", "publish"}
          /\ at'[t] \notin {"analyze", "provenance"}
      BY <2>7 DEF TypeOK, FindOpenView, Claim, BusyWait, Analyze, Publish, Raise, Cleanup,
         Finish, MoveTo
    <3> QED
      BY <3>1 DEF ChoiceInv, JudgedInv, StaleDatabaseRefused
  <2> QED
    BY <1>3, <2>1, <2>2, <2>3, <2>4, <2>5, <2>6, <2>7 DEF Step
<1> QED
  BY <1>1, <1>2, <1>3 DEF Next

-----------------------------------------------------------------------------
(* The views.                                                                *)

\* What holds of the other loads' views still holds after a step of this one.
LEMMA OthersViews ==
    ASSUME TypeOK, ViewsInv, NEW t \in Loads, Step(t), NEW u \in Loads, u # t
    PROVE  Hands(u)' /\ Owned(u)'
<1>1. at'[u] = at[u] /\ bv'[u] = bv[u] /\ published'[u] = published[u] /\ View(u)' = View(u)
  BY StepFrame DEF View
<1>2. /\ View(u) \in bnOpen' <=> View(u) \in bnOpen
      /\ View(u) \in openViews' <=> View(u) \in openViews
  BY StepViews DEF View
<1>3. \A v : v[1] = u => /\ v \in bnOpen' <=> v \in bnOpen
                         /\ v \in openViews' <=> v \in openViews
                         /\ v \in quickViews' <=> v \in quickViews
  BY StepViews
<1>4. Hands(u)'
  BY <1>1, <1>2 DEF ViewsInv, Hands, OwnsOpenView
<1>5. Owned(u)'
  BY <1>1, <1>3 DEF ViewsInv, Owned
<1> QED
  BY <1>4, <1>5

\* A load's own views.
LEMMA OwnViews ==
    ASSUME TypeOK, ViewsInv, NEW t \in Loads, Step(t)
    PROVE  Hands(t)' /\ Owned(t)'
<1> USE DEF BeforeOpening, AfterAnalysis, AfterPublish
<1>1. Hands(t) /\ Owned(t)
  BY DEF ViewsInv
<1>2. CASE OpenView(t)
  <2> DEFINE v == <<t, loadPath[t]>>
  <2>1. ~published[t] /\ bv[t] = NoPath
    BY <1>1, <1>2 DEF Hands, OpenView
  <2>2. \A w \in bnOpen \cup openViews \cup quickViews : w[1] # t
    <3>1. SUFFICES ASSUME NEW w \in bnOpen \cup openViews \cup quickViews, w[1] = t
                   PROVE  FALSE
      OBVIOUS
    <3>2. w \in bnOpen \ openViews
      BY <1>1, <1>2, <2>1, <3>1 DEF Owned, OpenView
    <3> QED
      BY <1>1, <1>2, <3>1, <3>2 DEF Owned, OpenView
  <2>3. /\ bnOpen' = bnOpen \cup {v} /\ UNCHANGED <<openViews, quickViews, published>>
        /\ View(t)' = v /\ at'[t] \in {"provenance", "analyze"}
    BY <1>2 DEF TypeOK, OpenView, MoveTo, View
  <2>4. v[1] = t /\ v \notin openViews
    BY <2>2
  <2>5. Hands(t)'
    BY <2>1, <2>3, <2>4 DEF Hands
  <2>6. Owned(t)'
    BY <2>2, <2>3, <2>4 DEF Owned
  <2> QED
    BY <2>5, <2>6
<1>3. CASE JudgeOpened(t)
  <2>1. UNCHANGED <<openViews, quickViews, published>> /\ ~published[t]
    BY <1>1, <1>3 DEF JudgeOpened, Hands
  <2>2. CASE dbMatches
    <3>1. UNCHANGED <<bv, bnOpen>> /\ View(t)' = View(t) /\ at'[t] = "analyze"
      BY <1>3, <2>2 DEF TypeOK, JudgeOpened, MoveTo, View
    <3> QED
      BY <1>1, <1>3, <2>1, <3>1 DEF JudgeOpened, Hands, Owned
  <2>3. CASE ~dbMatches
    <3>1. bv'[t] = NoPath /\ bnOpen' = bnOpen \ {View(t)} /\ at'[t] = "recheck"
      BY <1>3, <2>3 DEF TypeOK, JudgeOpened, MoveTo
    <3>2. Hands(t)'
      BY <2>1, <3>1 DEF Hands
    <3>3. Owned(t)'
      BY <1>1, <1>3, <2>1, <3>1 DEF JudgeOpened, Owned
    <3> QED
      BY <3>2, <3>3
  <2> QED
    BY <2>2, <2>3
<1>4. CASE Analyze(t)
  <2>1. /\ UNCHANGED <<bv, bnOpen, openViews, published>> /\ View(t)' = View(t)
        /\ at'[t] = "publish" /\ quickViews' \subseteq quickViews \cup {View(t)}
    BY <1>4 DEF TypeOK, Analyze, MoveTo, View
  <2> QED
    BY <1>1, <1>4, <2>1 DEF Analyze, Hands, Owned
<1>5. CASE Publish(t)
  <2>1. /\ UNCHANGED <<bv, bnOpen, quickViews>> /\ View(t)' = View(t)
        /\ openViews' = openViews \cup {View(t)} /\ published'[t] = TRUE
        /\ at'[t] = "register"
    BY <1>5 DEF TypeOK, Publish, MoveTo, View
  <2> QED
    BY <1>1, <1>5, <2>1 DEF Publish, Hands, Owned
<1>6. CASE Cleanup(t)
  <2>1. UNCHANGED <<bv, openViews, published>> /\ View(t)' = View(t) /\ at'[t] = "finish"
    BY <1>6 DEF TypeOK, Cleanup, MoveTo, View
  <2>2. CASE OwnsOpenView(t)
    <3>1. bnOpen' = bnOpen \ {View(t)} /\ quickViews' = quickViews \ {View(t)}
      BY <1>6, <2>2 DEF Cleanup, ForgetView
    <3>2. ~published[t]
      BY <2>2 DEF OwnsOpenView
    <3> QED
      BY <1>1, <1>6, <2>1, <3>1, <3>2 DEF Cleanup, Hands, Owned
  <2>3. CASE ~OwnsOpenView(t)
    <3>1. UNCHANGED <<bnOpen, quickViews>>
      BY <1>6, <2>3 DEF Cleanup
    <3>2. View(t) \notin bnOpen \ openViews
      <4>1. CASE published[t]
        BY <1>1, <4>1 DEF Hands
      <4>2. CASE bv[t] = NoPath
        BY <4>2 DEF TypeOK, View, ViewIds, Paths, NoPath
      <4> QED
        BY <2>3, <4>1, <4>2 DEF OwnsOpenView
    <3> QED
      BY <1>1, <1>6, <2>1, <3>1, <3>2 DEF Cleanup, Hands, Owned
  <2> QED
    BY <2>2, <2>3
<1>7. CASE Raise(t)
  <2>1. UNCHANGED <<bv, bnOpen, openViews, quickViews, published>> /\ View(t)' = View(t)
    BY <1>7 DEF Raise, View
  <2>2. at'[t] = "cleanup"
    BY <1>7 DEF TypeOK, Raise, MoveTo
  <2>3. Hands(t)'
    BY <1>1, <1>7, <2>1, <2>2 DEF Raise, Hands, OwnsOpenView
  <2>4. Owned(t)'
    BY <1>1, <1>7, <2>1, <2>2 DEF Raise, Owned, Hands
  <2> QED
    BY <2>3, <2>4
<1>8. CASE Register(t) \/ Recheck(t) \/ Finish(t) \/ ReturnExisting(t)
  <2>1. UNCHANGED <<bv, bnOpen, openViews, quickViews, published>> /\ View(t)' = View(t)
    BY <1>8 DEF Register, Recheck, Finish, ReturnExisting, View
  <2>2. /\ at[t] \notin {"provenance", "analyze", "publish", "cleanup"}
        /\ \/ at'[t] \in {"finish", "done"}
           \/ at[t] = "recheck" /\ at'[t] = "reopen"
    BY <1>8 DEF TypeOK, Register, Recheck, Finish, ReturnExisting, MoveTo
  <2>3. Hands(t)'
    BY <1>1, <2>1, <2>2 DEF Hands
  <2>4. Owned(t)'
    BY <1>1, <2>1, <2>2 DEF Owned
  <2> QED
    BY <2>3, <2>4
<1>9. CASE FindOpenView(t) \/ JudgeExisting(t) \/ Claim(t) \/ BusyWait(t)
  <2>1. UNCHANGED <<bv, bnOpen, openViews, quickViews, published>> /\ View(t)' = View(t)
    BY <1>9 DEF FindOpenView, JudgeExisting, Claim, BusyWait, View
  <2>2. at[t] \in BeforeOpening /\ at'[t] \in BeforeOpening
    BY <1>9 DEF TypeOK, FindOpenView, JudgeExisting, Claim, BusyWait, MoveTo
  <2>3. Hands(t)'
    BY <1>1, <2>1, <2>2 DEF Hands
  <2>4. Owned(t)'
    BY <1>1, <2>1, <2>2 DEF Owned
  <2> QED
    BY <2>3, <2>4
<1> QED
  BY <1>2, <1>3, <1>4, <1>5, <1>6, <1>7, <1>8, <1>9 DEF Step

LEMMA ViewsStep ==
    ASSUME TypeOK, ViewsInv, [Next]_vars
    PROVE  ViewsInv'
<1>1. CASE UNCHANGED vars
  BY <1>1 DEF ViewsInv, Hands, Owned, OwnsOpenView, View, vars
<1>2. ASSUME NEW v \in ViewIds, CloseView(v) PROVE ViewsInv'
  <2>1. \A t \in Loads : View(t)' = View(t) /\ OwnsOpenView(t)' = OwnsOpenView(t)
    BY <1>2 DEF CloseView, View, OwnsOpenView
  <2>2. /\ v \in openViews /\ UNCHANGED <<at, bv, published>>
        /\ bnOpen' = bnOpen \ {v} /\ openViews' = openViews \ {v}
        /\ quickViews' = quickViews \ {v}
    BY <1>2 DEF CloseView
  <2>3. \A t \in Loads : Hands(t)'
    BY <2>1, <2>2 DEF ViewsInv, Hands
  <2>4. \A t \in Loads : Owned(t)'
    BY <2>1, <2>2 DEF ViewsInv, Owned
  <2> QED
    BY <2>3, <2>4 DEF ViewsInv
<1>3. ASSUME NEW t \in Loads, Step(t) PROVE ViewsInv'
  BY <1>3, OthersViews, OwnViews DEF ViewsInv
<1> QED
  BY <1>1, <1>2, <1>3 DEF Next

-----------------------------------------------------------------------------
(* The theorems.                                                             *)

\* The account of markers, bytes and views is inductive: it holds in every
\* reachable state, whatever loads raise, wait or are overtaken by a close.
THEOREM DedupeInvariant == Spec => []DedupeInv
<1>1. Init => DedupeInv
  <2> SUFFICES ASSUME Init PROVE DedupeInv
    OBVIOUS
  <2> USE NoLoadAssumption DEF Init
  <2>1. TypeOK
    BY DEF TypeOK, Ats, Requests, Paths, ViewIds, Substitutes
  <2>2. MarkersInv
    BY DEF MarkersInv, MarkersMatchWork, NoStrandedWaiter, WaitersInv, Opening
  <2>3. BytesInv
    BY DEF BytesInv, ChoiceInv, JudgedInv, StaleDatabaseRefused, Substitutes, Paths, Requests, NoPath
  <2>4. ViewsInv
    BY DEF ViewsInv, Hands, Owned, BeforeOpening
  <2> QED
    BY <2>1, <2>2, <2>3, <2>4 DEF DedupeInv
<1>2. DedupeInv /\ [Next]_vars => DedupeInv'
  BY TypeStep, MarkersStep, BytesStep, ViewsStep DEF DedupeInv
<1> QED
  BY <1>1, <1>2, PTL DEF Spec

\* Two loads whose paths meet are never between their markers together.
THEOREM LoadsOfOneFileExclude == Spec => []OpenersDisjoint
<1>1. DedupeInv => OpenersDisjoint
  BY NoLoadAssumption DEF DedupeInv, MarkersInv, MarkersMatchWork, OpenersDisjoint, Keys,
     TypeOK, Requests, Paths
<1> QED
  BY <1>1, DedupeInvariant, PTL

\* The markers on record are those of the loads at work, all of them.
THEOREM MarkersAreAccurate == Spec => []MarkersMatchWork
<1>1. DedupeInv => MarkersMatchWork
  BY DEF DedupeInv, MarkersInv
<1> QED
  BY <1>1, DedupeInvariant, PTL

\* No load waits for one that is over and has woken nobody.
THEOREM WaitersAreServed == Spec => []NoStrandedWaiter
<1>1. DedupeInv => NoStrandedWaiter
  BY DEF DedupeInv, MarkersInv
<1> QED
  BY <1>1, DedupeInvariant, PTL

\* A database for other bytes is never handed to who asked for the raw file.
THEOREM StaleDatabaseNeverReturned == Spec => []StaleDatabaseRefused
<1>1. DedupeInv => StaleDatabaseRefused
  BY DEF DedupeInv, BytesInv
<1> QED
  BY <1>1, DedupeInvariant, PTL

\* A cleanup closes an open, unpublished view of its own.
THEOREM CleanupIsSafe == Spec => []CleanupClosesItsOwn
<1>1. DedupeInv => CleanupClosesItsOwn
  BY DEF DedupeInv, ViewsInv, Hands, CleanupClosesItsOwn
<1> QED
  BY <1>1, DedupeInvariant, PTL

\* No view and no quick flag is left behind.
THEOREM NoViewIsLeaked == Spec => []NothingLeaked
<1>1. DedupeInv => NothingLeaked
  <2> SUFFICES ASSUME DedupeInv PROVE NothingLeaked
    OBVIOUS
  <2>1. ASSUME NEW v \in bnOpen \ openViews
        PROVE  \E t \in Loads : Opening(t) /\ at[t] # "finish" /\ v = View(t)
    <3>1. v[1] \in Loads
      BY <2>1, OwnerTyped DEF DedupeInv
    <3> QED
      BY <2>1, <3>1 DEF DedupeInv, ViewsInv, Owned, Opening
  <2>2. quickViews \subseteq bnOpen
    BY OwnerTyped DEF DedupeInv, ViewsInv, Owned
  <2> QED
    BY <2>1, <2>2 DEF NothingLeaked
<1> QED
  BY <1>1, DedupeInvariant, PTL
=============================================================================
