-------------------------- MODULE BridgeLifecycle --------------------------
(* Bridges that follow one another on one socket path and one registry path  *)
(* (BinaryNinjaBridge.start, stop, _write_registry, admission, the idle      *)
(* reaper and detached loads, bridge.py).  The hazards are at the seams: a   *)
(* bridge that is stopping still has requests, load workers and a second     *)
(* stop() running while its successor takes over the very same files, and a  *)
(* bridge may be killed at any moment.                                       *)
EXTENDS FiniteSets

CONSTANTS Bridges, Requests, Stoppers, None,
          Headless  \* each bridge is a process `bn` spawned, see below

\* The CLI spawns headless bridges one at a time, under its _spawn_lock, and
\* the process of one whose start fails ends.  Bridges of GUI processes have
\* neither: two may start on one path at once, and the requests of a bridge
\* whose start failed live on.
ASSUME LifecycleAssumption ==
    /\ None \notin Bridges \cup Stoppers
    /\ Headless \in BOOLEAN

VARIABLES
    socketFile,    \* the bridge whose bind made the file at socket_path
    registryFile,  \* the bridge the file at registry_path describes
    life,          \* where start() is
    bound,         \* the kernel holds the bridge's bind
    handle,        \* self._server is set
    accepting,     \* the serve loop runs
    shuttingDown,  \* _shutting_down
    stopped,       \* _stopped, the teardown latch
    released,      \* _instance_state_released
    idled,         \* the reaper decided that the bridge was idle
    teardown,      \* who holds _teardown_lock across several steps
    reqAt, reqBridge, reqKind,
    admitted,      \* what _enter_request answered
    job,           \* the detached load a request started
    stopAt, stopBridge,
    server,        \* stop()'s local of that name: it saw a server to release
    drained        \* the verdict: requests_drained

files == <<socketFile, registryFile>>
latches == <<shuttingDown, stopped, released, idled>>
bridgeVars == <<life, bound, handle, accepting, teardown>>
requestVars == <<reqAt, reqBridge, reqKind, admitted, job>>
stopVars == <<stopAt, stopBridge, server, drained>>
vars == <<files, latches, bridgeVars, requestVars, stopVars>>

Lives == {"new", "clear", "stale", "bound", "serving", "up", "failed", "killed"}
Kinds == {"work", "load", "load_async", "shutdown"}
ReqAts == {"out", "accepted", "working", "answering", "gone"}
Jobs == {"none", "queued", "running", "complete", "failed"}
StopAts == {"idle", "latch", "shutdown", "drain", "release", "unlink", "close", "done"}

TypeOK ==
    /\ socketFile \in Bridges \cup {None}
    /\ registryFile \in Bridges \cup {None}
    /\ life \in [Bridges -> Lives]
    /\ \A v \in {bound, handle, accepting, shuttingDown, stopped, released, idled} :
           v \in [Bridges -> BOOLEAN]
    /\ teardown \in [Bridges -> Stoppers \cup {None}]
    /\ reqAt \in [Requests -> ReqAts]
    /\ reqBridge \in [Requests -> Bridges \cup {None}]
    /\ reqKind \in [Requests -> Kinds]
    /\ admitted \in [Requests -> BOOLEAN]
    /\ job \in [Requests -> Jobs]
    /\ stopAt \in [Stoppers -> StopAts]
    /\ stopBridge \in [Stoppers -> Bridges \cup {None}]
    /\ server \in [Stoppers -> BOOLEAN]
    /\ drained \in [Stoppers -> BOOLEAN]
    \* What the accounting relies on.
    /\ \A b \in Bridges : accepting[b] => bound[b]
    /\ \A r \in Requests : reqAt[r] # "out" => reqBridge[r] \in Bridges

Init ==
    /\ socketFile = None /\ registryFile = None
    /\ life = [b \in Bridges |-> "new"]
    /\ bound = [b \in Bridges |-> FALSE]
    /\ handle = [b \in Bridges |-> FALSE]
    /\ accepting = [b \in Bridges |-> FALSE]
    /\ shuttingDown = [b \in Bridges |-> FALSE]
    /\ stopped = [b \in Bridges |-> FALSE]
    /\ released = [b \in Bridges |-> FALSE]
    /\ idled = [b \in Bridges |-> FALSE]
    /\ teardown = [b \in Bridges |-> None]
    /\ reqAt = [r \in Requests |-> "out"]
    /\ reqBridge = [r \in Requests |-> None]
    /\ reqKind = [r \in Requests |-> "work"]
    /\ admitted = [r \in Requests |-> FALSE]
    /\ job = [r \in Requests |-> "none"]
    /\ stopAt = [s \in Stoppers |-> "idle"]
    /\ stopBridge = [s \in Stoppers |-> None]
    /\ server = [s \in Stoppers |-> FALSE]
    /\ drained = [s \in Stoppers |-> FALSE]

-----------------------------------------------------------------------------
(* start()                                                                   *)

LifeTo(b, l) == life' = [life EXCEPT ![b] = l]

Starting == {b \in Bridges : life[b] \in {"clear", "stale", "bound", "serving"}}

\* A file that no bind holds any more is stale; a bound one is somebody's.
FileIsStaleUnchecked == socketFile # None
FileIsStale == socketFile # None /\ ~bound[socketFile]

Probe(b) ==
    /\ life[b] = "new"
    /\ Headless => Starting = {}
    /\ \/ socketFile = None /\ LifeTo(b, "clear")
       \/ FileIsStale /\ LifeTo(b, "stale")
       \/ socketFile # None /\ ~FileIsStale /\ LifeTo(b, "failed")
    /\ UNCHANGED <<files, latches, bound, handle, accepting, teardown, requestVars, stopVars>>

\* Unlink what was judged stale, bind, listen: self._server is set.  A bind
\* onto an existing file fails.
Bind(b) ==
    /\ \/ /\ life[b] = "stale" \/ socketFile = None
          /\ socketFile' = b
          /\ bound' = [bound EXCEPT ![b] = TRUE]
          /\ handle' = [handle EXCEPT ![b] = TRUE]
          /\ released' = [released EXCEPT ![b] = FALSE]
          /\ shuttingDown' = [shuttingDown EXCEPT ![b] = FALSE]
          /\ LifeTo(b, "bound")
       \/ /\ life[b] = "clear" /\ socketFile # None
          /\ LifeTo(b, "failed")
          /\ UNCHANGED <<socketFile, bound, handle, released, shuttingDown>>
    /\ life[b] \in {"clear", "stale"}
    /\ UNCHANGED <<registryFile, accepting, stopped, idled, teardown, requestVars, stopVars>>

Serve(b) ==
    /\ life[b] = "bound"
    /\ LifeTo(b, "serving")
    /\ accepting' = [accepting EXCEPT ![b] = TRUE]
    /\ UNCHANGED <<files, latches, bound, handle, teardown, requestVars, stopVars>>

\* _write_registry(): under the teardown lock, and not after the latch.
MayPublishAnyway(b) == TRUE
MayPublish(b) == ~stopped[b]
WriteRegistry(b) ==
    /\ teardown[b] = None
    /\ registryFile' = IF MayPublish(b) THEN b ELSE registryFile

FinishStart(b) ==
    /\ life[b] = "serving"
    /\ WriteRegistry(b)
    /\ LifeTo(b, "up")
    /\ UNCHANGED <<socketFile, latches, bound, handle, accepting, teardown, requestVars, stopVars>>

\* The bridge stops serving without a stop().
GoDown(b, l) ==
    /\ LifeTo(b, l)
    /\ accepting' = [accepting EXCEPT ![b] = FALSE]
    /\ bound' = [bound EXCEPT ![b] = FALSE]
    /\ handle' = [handle EXCEPT ![b] = FALSE]
    /\ UNCHANGED <<registryFile, latches, reqBridge, reqKind, admitted, stopBridge, server, drained>>

EndThreads(b) ==
    /\ teardown' = [teardown EXCEPT ![b] = None]
    /\ reqAt' = [r \in Requests |-> IF reqBridge[r] = b THEN "gone" ELSE reqAt[r]]
    /\ job' = [r \in Requests |->
                 IF reqBridge[r] = b /\ job[r] # "none" THEN "failed" ELSE job[r]]
    /\ stopAt' = [s \in Stoppers |-> IF stopBridge[s] = b THEN "done" ELSE stopAt[s]]

\* Anything after the bind may raise: stop the loop, unlink, release the bind.
StartFails(b) ==
    /\ life[b] \in {"bound", "serving"}
    /\ GoDown(b, "failed")
    /\ socketFile' = None
    /\ IF Headless THEN EndThreads(b) ELSE UNCHANGED <<teardown, reqAt, job, stopAt>>

\* The process is killed: its bind and its threads go, its files stay.
Kill(b) ==
    /\ life[b] \in {"bound", "serving", "up"}
    /\ GoDown(b, "killed")
    /\ EndThreads(b)
    /\ UNCHANGED socketFile

-----------------------------------------------------------------------------
(* Requests.                                                                 *)

ReqTo(r, where) == reqAt' = [reqAt EXCEPT ![r] = where]
RequestFrame == UNCHANGED <<bridgeVars, reqBridge, reqKind, stopVars>>

Accept(r, b) ==
    /\ reqAt[r] = "out" /\ accepting[b]
    /\ ReqTo(r, "accepted")
    /\ reqBridge' = [reqBridge EXCEPT ![r] = b]
    /\ \E k \in Kinds : reqKind' = [reqKind EXCEPT ![r] = k]
    /\ UNCHANGED <<files, latches, bridgeVars, admitted, job, stopVars>>

\* _enter_request: every request counts, a late one is refused.
Admit(b) == ~shuttingDown[b] /\ handle[b]
EnterRequest(r) ==
    /\ reqAt[r] = "accepted"
    /\ admitted' = [admitted EXCEPT ![r] = Admit(reqBridge[r])]
    /\ ReqTo(r, IF Admit(reqBridge[r]) THEN "working" ELSE "answering")
    /\ UNCHANGED <<files, latches, job>>
    /\ RequestFrame

\* dispatch.
Dispatch(r) ==
    /\ reqAt[r] = "working"
    /\ \/ reqKind[r] = "work" /\ UNCHANGED <<registryFile, shuttingDown, job>>
       \/ /\ reqKind[r] = "load" /\ WriteRegistry(reqBridge[r])
          /\ UNCHANGED <<shuttingDown, job>>
       \/ /\ reqKind[r] = "load_async" /\ job' = [job EXCEPT ![r] = "queued"]
          /\ UNCHANGED <<registryFile, shuttingDown>>
       \/ /\ reqKind[r] = "shutdown"
          /\ shuttingDown' = [shuttingDown EXCEPT ![reqBridge[r]] = TRUE]
          /\ UNCHANGED <<registryFile, job>>
    /\ ReqTo(r, "answering")
    /\ UNCHANGED <<socketFile, stopped, released, idled, admitted>>
    /\ RequestFrame

\* _leave_request, after the response has been written.
LeaveRequest(r) ==
    /\ reqAt[r] = "answering"
    /\ ReqTo(r, "gone")
    /\ UNCHANGED <<files, latches, admitted, job>>
    /\ RequestFrame

CountedEarly(b) == {r \in Requests : reqBridge[r] = b /\ reqAt[r] = "working"}
Inflight(b) == {r \in Requests : reqBridge[r] = b /\ reqAt[r] \in {"working", "answering"}}

-----------------------------------------------------------------------------
(* Detached loads.                                                           *)

ActiveJobs(b) == {r \in Requests : reqBridge[r] = b /\ job[r] \in {"queued", "running"}}

JobTo(r, state) == job' = [job EXCEPT ![r] = state]

\* The latch is tested and the job started under one hold of the lock.
WorkerStarts(r) ==
    /\ job[r] = "queued"
    /\ teardown[reqBridge[r]] = None
    /\ JobTo(r, IF stopped[reqBridge[r]] THEN "failed" ELSE "running")
    /\ UNCHANGED <<files, latches, reqAt, admitted>>
    /\ RequestFrame

WorkerEnds(r) ==
    /\ job[r] = "running"
    /\ \/ WriteRegistry(reqBridge[r]) /\ JobTo(r, "complete")
       \/ UNCHANGED registryFile /\ JobTo(r, "failed")
    /\ UNCHANGED <<socketFile, latches, reqAt, admitted>>
    /\ RequestFrame

-----------------------------------------------------------------------------
(* The idle reaper: _try_idle_shutdown.                                      *)

BusyIgnoringJobs(b) == Inflight(b) # {}
Busy(b) == Inflight(b) # {} \/ ActiveJobs(b) # {}
ReapIdle(b) ==
    /\ life[b] = "up" /\ ~idled[b]
    /\ ~Busy(b)
    /\ idled' = [idled EXCEPT ![b] = TRUE]
    /\ shuttingDown' = [shuttingDown EXCEPT ![b] = TRUE]
    /\ UNCHANGED <<files, stopped, released, bridgeVars, requestVars, stopVars>>

-----------------------------------------------------------------------------
(* stop(), which may run twice at once.                                      *)

StopTo(s, where) == stopAt' = [stopAt EXCEPT ![s] = where]
StopFrame == UNCHANGED <<life, reqAt, reqBridge, reqKind, admitted, stopBridge>>

Stop(s, b) ==
    /\ stopAt[s] = "idle" /\ life[b] = "up"
    /\ StopTo(s, "latch")
    /\ stopBridge' = [stopBridge EXCEPT ![s] = b]
    /\ shuttingDown' = [shuttingDown EXCEPT ![b] = TRUE]
    /\ UNCHANGED <<files, stopped, released, idled, bridgeVars, requestVars, server, drained>>

\* Under the teardown lock: latch and refuse the queued loads.
LatchStopped(s) ==
    LET b == stopBridge[s] IN
    /\ stopAt[s] = "latch"
    /\ teardown[b] = None
    /\ stopped' = [stopped EXCEPT ![b] = TRUE]
    /\ job' = [r \in Requests |->
                 IF reqBridge[r] = b /\ job[r] = "queued" THEN "failed" ELSE job[r]]
    /\ server' = [server EXCEPT ![s] = handle[b]]
    /\ StopTo(s, "shutdown")
    /\ UNCHANGED <<files, shuttingDown, released, idled, bound, handle, accepting, teardown, drained>>
    /\ StopFrame

\* server.shutdown(): the loop ends, the bind stays.
LoopEnds(s) == [accepting EXCEPT ![stopBridge[s]] = @ /\ ~server[s]]
BindGivenUp(s) == [bound EXCEPT ![stopBridge[s]] = FALSE]
BindKept(s) == bound
StopAccepting(s) ==
    /\ stopAt[s] = "shutdown"
    /\ accepting' = LoopEnds(s)
    /\ bound' = BindKept(s)
    /\ StopTo(s, "drain")
    /\ UNCHANGED <<files, latches, handle, teardown, job, server, drained>>
    /\ StopFrame

\* Wait for the requests, or for the end of the budget.
QuietEarly(b) == CountedEarly(b) = {}
Quiet(b) == Inflight(b) = {}
Drain(s) ==
    /\ stopAt[s] = "drain"
    /\ drained' = [drained EXCEPT ![s] = Quiet(stopBridge[s])]
    /\ StopTo(s, "release")
    /\ UNCHANGED <<files, latches, bound, handle, accepting, teardown, job, server>>
    /\ StopFrame

\* Under the teardown lock: whoever still finds its server releases the files,
\* registry first, socket last, and nobody does a second time.
StillOurs(s) == server[s] /\ handle[stopBridge[s]]

ReleaseRegistry(s) ==
    LET b == stopBridge[s] IN
    /\ stopAt[s] = "release"
    /\ teardown[b] = None
    /\ \/ /\ StillOurs(s) /\ ~released[b]
          /\ released' = [released EXCEPT ![b] = TRUE]
          /\ teardown' = [teardown EXCEPT ![b] = s]
          /\ registryFile' = None
          /\ StopTo(s, "unlink")
       \/ /\ ~(StillOurs(s) /\ ~released[b])
          /\ StopTo(s, "done")
          /\ UNCHANGED <<released, teardown, registryFile>>
    /\ UNCHANGED <<socketFile, shuttingDown, stopped, idled, bound, handle, accepting, job, server, drained>>
    /\ StopFrame

ReleaseSocket(s) ==
    LET b == stopBridge[s] IN
    /\ stopAt[s] = "unlink"
    /\ socketFile' = None
    /\ handle' = [handle EXCEPT ![b] = FALSE]
    /\ teardown' = [teardown EXCEPT ![b] = None]
    /\ StopTo(s, "close")
    /\ UNCHANGED <<registryFile, latches, bound, accepting, job, server, drained>>
    /\ StopFrame

\* server_close().
CloseServer(s) ==
    /\ stopAt[s] = "close"
    /\ bound' = [bound EXCEPT ![stopBridge[s]] = FALSE]
    /\ StopTo(s, "done")
    /\ UNCHANGED <<files, latches, handle, accepting, teardown, job, server, drained>>
    /\ StopFrame

Next ==
    \/ \E b \in Bridges :
          \/ Probe(b) \/ Bind(b) \/ Serve(b) \/ FinishStart(b) \/ StartFails(b)
          \/ ReapIdle(b) \/ Kill(b)
    \/ \E r \in Requests :
          \/ \E b \in Bridges : Accept(r, b)
          \/ EnterRequest(r) \/ Dispatch(r) \/ LeaveRequest(r)
          \/ WorkerStarts(r) \/ WorkerEnds(r)
    \/ \E s \in Stoppers :
          \/ \E b \in Bridges : Stop(s, b)
          \/ LatchStopped(s) \/ StopAccepting(s) \/ Drain(s)
          \/ ReleaseRegistry(s) \/ ReleaseSocket(s) \/ CloseServer(s)

Spec == Init /\ [][Next]_vars

-----------------------------------------------------------------------------
\* A bridge that holds its server is reachable: neither a successor's start
\* nor a predecessor's late or repeated stop removes or replaces its socket
\* file (#585, #799).
ServingBridgeReachable == \A b \in Bridges : handle[b] => socketFile = b

\* And it stays discoverable: the registry its start wrote is not unlinked by
\* another bridge's teardown, nor overwritten by another's late load.
RegistryStays == \A b \in Bridges :
    (life[b] = "up" /\ handle[b] /\ teardown[b] = None) => registryFile = b

\* No registry advertises a bridge whose stop released its files, whatever
\* request or detached load of it finishes later (#694).
NoGhostRegistry == \A b \in Bridges : released[b] => registryFile # b

\* When the reaper shuts an idle bridge down nothing is lost: no request it
\* admitted is unanswered, no detached load is queued or running, and none
\* comes in afterwards.
Unanswered(b) == {r \in Requests :
    reqBridge[r] = b /\ admitted[r] /\ reqAt[r] # "gone"}
IdleInterruptsNothing == \A b \in Bridges :
    idled[b] => Unanswered(b) = {} /\ ActiveJobs(b) = {}

\* A stop that reports its requests drained tells the truth, and goes on
\* telling it: every request the bridge admitted has been answered.
DrainedMeansAnswered == \A s \in Stoppers :
    drained[s] => Unanswered(stopBridge[s]) = {}
=============================================================================
