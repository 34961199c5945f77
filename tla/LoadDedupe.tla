---------------------------- MODULE LoadDedupe -----------------------------
(* Concurrent loads of one file (_load_binary, bridge.py).  A load names the *)
(* raw file or its database, may prefer the database over the raw file, and  *)
(* keeps `load` idempotent in two ways: it looks for an open view of the     *)
(* path, and it claims an in-flight marker for every path it may open.       *)
(* Opening, analysing and publishing are separate steps of different lock    *)
(* footprints (see BridgeLocks); other requests may close a published view   *)
(* at any time, and any step that calls into Binary Ninja may raise.         *)
EXTENDS FiniteSets

CONSTANTS Loads,  \* load requests, one thread each
          NoLoad

ASSUME NoLoadAssumption == NoLoad \notin Loads

Paths == {"raw", "db"}
NoPath == "none"

\* A request: the path it names, whether it prefers a database, --quick.  For
\* a named database neither preference makes a difference.
Requests == {r \in [named : Paths, prefer : BOOLEAN, quick : BOOLEAN] :
    r.named = "db" => ~r.prefer /\ ~r.quick}

\* A view is identified by the load that opened it and the file it opened.
ViewIds == Loads \X Paths
PathOf(v) == v[2]

VARIABLES
    dbMatches,   \* the database on disk was saved for the bytes of the raw file
    request,
    at,
    loadPath,    \* load_path: what this load currently means to open
    substitute,  \* a database was chosen in place of the named raw file
    marker,      \* _load_in_progress: path -> the load whose event it holds
    waitsFor,    \* `busy`: the load whose event this one waits for
    eventSet,    \* loads whose event has been set
    bv,          \* the path of the view this load has open, or NoPath
    published,   \* the one-way latch of the same name
    result,      \* the path of the view the load returned
    bnOpen,      \* views open in Binary Ninja
    openViews,   \* _headless_views: what _collect_open_views sees
    quickViews   \* _quick_loaded_views

vars == <<dbMatches, request, at, loadPath, substitute, marker, waitsFor,
          eventSet, bv, published, result, bnOpen, openViews, quickViews>>

Ats == {"check", "judge", "existing", "claim", "wait", "open", "provenance",
        "recheck", "reopen", "analyze", "publish", "register", "cleanup",
        "finish", "done"}

TypeOK ==
    /\ dbMatches \in BOOLEAN
    /\ request \in [Loads -> Requests]
    /\ at \in [Loads -> Ats]
    /\ loadPath \in [Loads -> Paths]
    /\ substitute \in [Loads -> BOOLEAN]
    /\ marker \in [Paths -> Loads \cup {NoLoad}]
    /\ waitsFor \in [Loads -> Loads \cup {NoLoad}]
    /\ eventSet \subseteq Loads
    /\ bv \in [Loads -> Paths \cup {NoPath}]
    /\ published \in [Loads -> BOOLEAN]
    /\ result \in [Loads -> Paths \cup {NoPath}]
    /\ bnOpen \subseteq ViewIds
    /\ openViews \subseteq bnOpen
    /\ quickViews \subseteq ViewIds

\* _choose_sidecar: a database stands in for the raw file it is preferred to.
Substitutes(r) == r.prefer /\ r.named = "raw"

Init ==
    /\ dbMatches \in BOOLEAN
    /\ request \in [Loads -> Requests]
    /\ at = [t \in Loads |-> "check"]
    /\ substitute = [t \in Loads |-> Substitutes(request[t])]
    /\ loadPath = [t \in Loads |->
                     IF Substitutes(request[t]) THEN "db" ELSE request[t].named]
    /\ marker = [p \in Paths |-> NoLoad]
    /\ waitsFor = [t \in Loads |-> NoLoad]
    /\ eventSet = {}
    /\ bv = [t \in Loads |-> NoPath]
    /\ published = [t \in Loads |-> FALSE]
    /\ result = [t \in Loads |-> NoPath]
    /\ bnOpen = {} /\ openViews = {} /\ quickViews = {}

\* load_keys: the path chosen first and the path named.
Keys(t) == {request[t].named} \cup
           (IF Substitutes(request[t]) THEN {"db"} ELSE {})

MoveTo(t, where) == at' = [at EXCEPT ![t] = where]
View(t) == <<t, bv[t]>>
SomeOpen(p) == \E v \in openViews : PathOf(v) = p

-----------------------------------------------------------------------------
\* _find_open_view_for_path, without a lock.
FindOpenView(t) ==
    /\ at[t] = "check"
    /\ MoveTo(t, IF SomeOpen(loadPath[t]) THEN "judge" ELSE "claim")
    /\ UNCHANGED <<dbMatches, request, loadPath, substitute, marker, waitsFor,
                   eventSet, bv, published, result, bnOpen, openViews, quickViews>>

\* An open database is judged like one this load would open itself; one saved
\* for other bytes is left alone and the raw file is looked for instead.
AcceptExisting(t) == FALSE
RefuseExisting(t) == substitute[t] /\ ~dbMatches
JudgeExisting(t) ==
    /\ at[t] = "judge"
    /\ IF RefuseExisting(t)
       THEN /\ loadPath' = [loadPath EXCEPT ![t] = "raw"]
            /\ substitute' = [substitute EXCEPT ![t] = FALSE]
            /\ MoveTo(t, "check")
       ELSE MoveTo(t, "existing") /\ UNCHANGED <<loadPath, substitute>>
    /\ UNCHANGED <<dbMatches, request, marker, waitsFor, eventSet, bv,
                   published, result, bnOpen, openViews, quickViews>>

\* _load_existing_result, before a marker was claimed.
ReturnExisting(t) ==
    /\ at[t] = "existing"
    /\ result' = [result EXCEPT ![t] = loadPath[t]]
    /\ MoveTo(t, "done")
    /\ UNCHANGED <<dbMatches, request, loadPath, substitute, marker, waitsFor,
                   eventSet, bv, published, bnOpen, openViews, quickViews>>

\* Under _load_in_progress_lock: wait for whoever works on one of the paths,
\* or claim them all.
BusyNamedOnly(t) == {marker[request[t].named]} \ {NoLoad}
Busy(t) == {marker[k] : k \in Keys(t)} \ {NoLoad}

Claim(t) ==
    /\ at[t] = "claim"
    /\ \/ /\ Busy(t) = {}
          /\ marker' = [k \in Paths |-> IF k \in Keys(t) THEN t ELSE marker[k]]
          /\ MoveTo(t, "open")
          /\ UNCHANGED waitsFor
       \/ /\ \E u \in Busy(t) : waitsFor' = [waitsFor EXCEPT ![t] = u]
          /\ MoveTo(t, "wait")
          /\ UNCHANGED marker
    /\ UNCHANGED <<dbMatches, request, loadPath, substitute, eventSet, bv,
                   published, result, bnOpen, openViews, quickViews>>

BusyWait(t) ==
    /\ at[t] = "wait"
    /\ waitsFor[t] \in eventSet
    /\ MoveTo(t, "check")
    /\ UNCHANGED <<dbMatches, request, loadPath, substitute, marker, waitsFor,
                   eventSet, bv, published, result, bnOpen, openViews, quickViews>>

\* _open_view, under the exclusive lock; `reopen` opens the raw file after the
\* database was dropped.
OpenView(t) ==
    /\ at[t] \in {"open", "reopen"}
    /\ bv' = [bv EXCEPT ![t] = loadPath[t]]
    /\ bnOpen' = bnOpen \cup {<<t, loadPath[t]>>}
    /\ MoveTo(t, IF substitute[t] THEN "provenance" ELSE "analyze")
    /\ UNCHANGED <<dbMatches, request, loadPath, substitute, marker, waitsFor,
                   eventSet, published, result, openViews, quickViews>>

\* _database_provenance on the database just opened: close it on a mismatch.
JudgeOpened(t) ==
    /\ at[t] = "provenance"
    /\ IF dbMatches
       THEN /\ MoveTo(t, "analyze")
            /\ UNCHANGED <<bv, bnOpen, loadPath, substitute>>
       ELSE /\ bv' = [bv EXCEPT ![t] = NoPath]
            /\ bnOpen' = bnOpen \ {View(t)}
            /\ loadPath' = [loadPath EXCEPT ![t] = "raw"]
            /\ substitute' = [substitute EXCEPT ![t] = FALSE]
            /\ MoveTo(t, "recheck")
    /\ UNCHANGED <<dbMatches, request, marker, waitsFor, eventSet, published,
                   result, openViews, quickViews>>

Recheck(t) ==
    /\ at[t] = "recheck"
    /\ IF SomeOpen("raw")
       THEN result' = [result EXCEPT ![t] = "raw"] /\ MoveTo(t, "finish")
       ELSE UNCHANGED result /\ MoveTo(t, "reopen")
    /\ UNCHANGED <<dbMatches, request, loadPath, substitute, marker, waitsFor,
                   eventSet, bv, published, bnOpen, openViews, quickViews>>

\* Analysis outside the lock, or the quick flag instead of it.
QuickEffective(t) == request[t].quick /\ loadPath[t] # "db"
Analyze(t) ==
    /\ at[t] = "analyze"
    /\ quickViews' = IF QuickEffective(t) THEN quickViews \cup {View(t)}
                                          ELSE quickViews \ {View(t)}
    /\ MoveTo(t, "publish")
    /\ UNCHANGED <<dbMatches, request, loadPath, substitute, marker, waitsFor,
                   eventSet, bv, published, result, bnOpen, openViews>>

\* Publish under the exclusive lock.
Publish(t) ==
    /\ at[t] = "publish"
    /\ openViews' = openViews \cup {View(t)}
    /\ published' = [published EXCEPT ![t] = TRUE]
    /\ MoveTo(t, "register")
    /\ UNCHANGED <<dbMatches, request, loadPath, substitute, marker, waitsFor,
                   eventSet, bv, result, bnOpen, quickViews>>

\* _write_registry and the response, after the lock.
Register(t) ==
    /\ at[t] = "register"
    /\ result' = [result EXCEPT ![t] = loadPath[t]]
    /\ MoveTo(t, "finish")
    /\ UNCHANGED <<dbMatches, request, loadPath, substitute, marker, waitsFor,
                   eventSet, bv, published, bnOpen, openViews, quickViews>>

\* Anything inside the `try` may raise.
Raise(t) ==
    /\ at[t] \in {"open", "reopen", "provenance", "recheck", "analyze",
                  "publish", "register"}
    /\ MoveTo(t, "cleanup")
    /\ UNCHANGED <<dbMatches, request, loadPath, substitute, marker, waitsFor,
                   eventSet, bv, published, result, bnOpen, openViews, quickViews>>

\* `except BaseException`: close a view nobody else owns yet.
OwnsByMembership(t) == bv[t] # NoPath /\ View(t) \notin openViews
OwnsOpenView(t) == bv[t] # NoPath /\ ~published[t]

ForgetNothing(t) == quickViews
ForgetView(t) == quickViews \ {View(t)}

Cleanup(t) ==
    /\ at[t] = "cleanup"
    /\ IF OwnsOpenView(t)
       THEN /\ bnOpen' = bnOpen \ {View(t)}
            /\ quickViews' = ForgetView(t)
       ELSE UNCHANGED <<bnOpen, quickViews>>
    /\ MoveTo(t, "finish")
    /\ UNCHANGED <<dbMatches, request, loadPath, substitute, marker, waitsFor,
                   eventSet, bv, published, result, openViews>>

\* `finally`: drop the markers that are still this load's, wake the waiters.
MarkersAfterKeepingRaw(t) ==
    [k \in Paths |-> IF marker[k] = t /\ k = loadPath[t] THEN NoLoad ELSE marker[k]]
MarkersAfter(t) == [k \in Paths |-> IF marker[k] = t THEN NoLoad ELSE marker[k]]
WokenNobody(t) == eventSet
Woken(t) == eventSet \cup {t}
Finish(t) ==
    /\ at[t] = "finish"
    /\ marker' = MarkersAfter(t)
    /\ eventSet' = Woken(t)
    /\ MoveTo(t, "done")
    /\ UNCHANGED <<dbMatches, request, loadPath, substitute, waitsFor, bv,
                   published, result, bnOpen, openViews, quickViews>>

\* Another request closes a published view (close_binary, or a GUI tab).
CloseView(v) ==
    /\ v \in openViews
    /\ openViews' = openViews \ {v}
    /\ bnOpen' = bnOpen \ {v}
    /\ quickViews' = quickViews \ {v}
    /\ UNCHANGED <<dbMatches, request, at, loadPath, substitute, marker,
                   waitsFor, eventSet, bv, published, result>>

Step(t) ==
    \/ FindOpenView(t) \/ JudgeExisting(t) \/ ReturnExisting(t)
    \/ Claim(t) \/ BusyWait(t)
    \/ OpenView(t) \/ JudgeOpened(t) \/ Recheck(t)
    \/ Analyze(t) \/ Publish(t) \/ Register(t)
    \/ Raise(t) \/ Cleanup(t) \/ Finish(t)

Next == (\E t \in Loads : Step(t)) \/ (\E v \in ViewIds : CloseView(v))

Spec == Init /\ [][Next]_vars
-----------------------------------------------------------------------------
\* The loads between claiming their markers and giving them up.
Opening(t) == at[t] \in {"open", "provenance", "recheck", "reopen", "analyze",
                         "publish", "register", "cleanup", "finish"}

\* Two loads that might open the same file are never at it together: the
\* marker covers the database AND the raw file a refused database falls back
\* to (#355, #400).
OpenersDisjoint == \A t, u \in Loads :
    (t # u /\ Opening(t) /\ Opening(u)) => Keys(t) \cap Keys(u) = {}

\* A view open in Binary Ninja is published or in the hands of a load that
\* will publish or close it, and a quick flag belongs to an open view: a load
\* that fails half-way leaks neither (#609).
NothingLeaked ==
    /\ \A v \in bnOpen \ openViews :
           \E t \in Loads : Opening(t) /\ at[t] # "finish" /\ v = View(t)
    /\ quickViews \subseteq bnOpen

\* A failing load closes only a view that is still open and still its own: one
\* that another request already closed is never closed twice (#637).
CleanupClosesItsOwn == \A t \in Loads :
    (at[t] = "cleanup" /\ OwnsOpenView(t)) => View(t) \in bnOpen \ openViews

\* A load that asked for the bytes on disk never returns a database saved for
\* other bytes, whichever of the two doors it came through.
StaleDatabaseRefused == \A t \in Loads :
    (result[t] = "db" /\ request[t].named = "raw") => dbMatches

\* Nobody waits for the marker of a load that is over: whoever is waited for
\* is still at work or has set its event, however it ended.
NoStrandedWaiter == \A t \in Loads :
    at[t] = "wait" => Opening(waitsFor[t]) \/ waitsFor[t] \in eventSet

\* And while it is at work its markers are all in place; once it is over none
\* is left for a later load to wait on.
MarkersMatchWork == \A t \in Loads : \A k \in Paths :
    marker[k] = t <=> Opening(t) /\ k \in Keys(t)

\* What the docstring of _find_open_view_for_path and the comment at the
\* markers promise: loading an open path does not open a second view of it.
NoDuplicateView == \A v, w \in openViews : PathOf(v) = PathOf(w) => v = w
=============================================================================
