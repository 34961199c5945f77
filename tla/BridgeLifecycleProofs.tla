------------------------ MODULE BridgeLifecycleProofs ------------------------
(***************************************************************************)
(* The invariants of BridgeLifecycle, for any number of bridges, requests  *)
(* and stops.  What a bridge owes its own requests holds of every process  *)
(* (Account); that bridges do not take each other's files needs that they  *)
(* start one at a time, as headless ones do (Headless, Paths).             *)
(*                                                                         *)
(* A bridge binds once in its life, so the latches that its stops set are  *)
(* never reset, and a stop goes on only over a bridge that has latched.    *)
(* The teardown lock makes the stop that unlinks the one that still found  *)
(* the server, and as long as the server is held the files are its own.    *)
(***************************************************************************)
EXTENDS BridgeLifecycle, TLAPS

Typed ==
    /\ socketFile \in Bridges \cup {None}
    /\ registryFile \in Bridges \cup {None}
    /\ life \in [Bridges -> Lives]
    /\ bound \in [Bridges -> BOOLEAN]
    /\ handle \in [Bridges -> BOOLEAN]
    /\ accepting \in [Bridges -> BOOLEAN]
    /\ shuttingDown \in [Bridges -> BOOLEAN]
    /\ stopped \in [Bridges -> BOOLEAN]
    /\ released \in [Bridges -> BOOLEAN]
    /\ idled \in [Bridges -> BOOLEAN]
    /\ teardown \in [Bridges -> Stoppers \cup {None}]
    /\ reqAt \in [Requests -> ReqAts]
    /\ reqBridge \in [Requests -> Bridges \cup {None}]
    /\ reqKind \in [Requests -> Kinds]
    /\ admitted \in [Requests -> BOOLEAN]
    /\ job \in [Requests -> Jobs]
    /\ stopAt \in [Stoppers -> StopAts]
    /\ stopBridge \in [Stoppers -> Bridges \cup {None}]
    /\ server \in [Stoppers -> BOOLEAN]
    /\ drained \in [Stoppers -> BOOLEAN]

Unbound == {"new", "clear", "stale"}

\* A bridge holds its server from its bind to its end, or to the end of a stop.
Serving(b) ==
    /\ handle[b] => bound[b] /\ life[b] \in {"bound", "serving", "up"}
    /\ life[b] \in {"bound", "serving"} => handle[b]
    /\ life[b] = "up" /\ ~handle[b] => stopped[b]
    /\ accepting[b] => bound[b] /\ life[b] \in {"serving", "up"}
    /\ released[b] => stopped[b]
    /\ stopped[b] \/ idled[b] => shuttingDown[b] /\ life[b] \in {"up", "killed"}
    /\ shuttingDown[b] => life[b] \notin Unbound

\* How far a stop has come, and who has the teardown lock.
Stopping(s) ==
    LET b == stopBridge[s] IN
    /\ stopAt[s] = "idle" => b = None /\ ~drained[s]
    /\ stopAt[s] # "idle" => b \in Bridges /\ shuttingDown[b] /\ life[b] \in {"up", "killed"}
    /\ stopAt[s] \notin {"idle", "done"} => life[b] = "up"
    /\ stopAt[s] \notin {"idle", "done", "latch"} => stopped[b]
    /\ stopAt[s] \in {"drain", "release", "unlink", "close"} /\ server[s] => ~accepting[b]
    /\ stopAt[s] \in {"unlink", "close"} => server[s]
    /\ stopAt[s] = "unlink" => teardown[b] = s /\ handle[b]
    /\ stopAt[s] = "close" => ~handle[b]

TeardownHeld == \A b \in Bridges : teardown[b] # None =>
                    stopAt[teardown[b]] = "unlink" /\ stopBridge[teardown[b]] = b

\* A request is admitted on its way to work, and answered before it is gone.
Asking(r) ==
    LET b == reqBridge[r] IN
    /\ reqAt[r] = "out" => b = None /\ job[r] = "none"
    /\ reqAt[r] # "out" => b \in Bridges /\ life[b] \notin Unbound
    /\ reqAt[r] \in {"out", "accepted"} => ~admitted[r]
    /\ reqAt[r] = "working" => admitted[r]

Account ==
    /\ Typed /\ TeardownHeld
    /\ NoGhostRegistry /\ IdleInterruptsNothing /\ DrainedMeansAnswered
    /\ \A b \in Bridges : Serving(b)
    /\ \A s \in Stoppers : Stopping(s)
    /\ \A r \in Requests : Asking(r)

\* Headless bridges start one at a time, and what is left of a bridge that failed or
\* was killed is its files.
Paths ==
    /\ \A b, c \in Starting : b = c
    /\ \A b \in Bridges : life[b] = "clear" => socketFile = None
    /\ \A b \in Bridges : life[b] = "stale" => ~(socketFile # None /\ bound[socketFile])
    /\ ServingBridgeReachable
    /\ RegistryStays
    /\ \A r \in Requests :
          reqAt[r] \in {"accepted", "working", "answering"} \/ job[r] \in {"queued", "running"} =>
              life[reqBridge[r]] \in {"serving", "up"}

-----------------------------------------------------------------------------
(* The steps, by who takes them.                                             *)

BridgeStep(b) == Probe(b) \/ Bind(b) \/ Serve(b) \/ FinishStart(b) \/ StartFails(b)
                 \/ ReapIdle(b) \/ Kill(b)
RequestStep(r) == \/ \E b \in Bridges : Accept(r, b)
                  \/ EnterRequest(r) \/ Dispatch(r) \/ LeaveRequest(r)
                  \/ WorkerStarts(r) \/ WorkerEnds(r)
StopStep(s) == \/ \E b \in Bridges : Stop(s, b)
               \/ LatchStopped(s) \/ StopAccepting(s) \/ Drain(s)
               \/ ReleaseRegistry(s) \/ ReleaseSocket(s) \/ CloseServer(s)

LEMMA Steps ==
    ASSUME Next
    PROVE  \/ \E b \in Bridges : BridgeStep(b)
           \/ \E r \in Requests : RequestStep(r)
           \/ \E s \in Stoppers : StopStep(s)
BY DEF Next, BridgeStep, RequestStep, StopStep

LEMMA BridgeTypes ==
    ASSUME Typed, NEW b \in Bridges, BridgeStep(b)
    PROVE  Typed'
<1> USE DEF Typed, LifeTo, files, latches, requestVars, stopVars
<1>1. CASE Probe(b)
  BY <1>1 DEF Probe, Lives
<1>2. CASE Bind(b)
  BY <1>2 DEF Bind, Lives
<1>3. CASE Serve(b)
  BY <1>3 DEF Serve, Lives
<1>4. CASE FinishStart(b)
  BY <1>4 DEF FinishStart, WriteRegistry, Lives
<1>5. ASSUME EndThreads(b) PROVE /\ teardown' \in [Bridges -> Stoppers \cup {None}]
                                 /\ reqAt' \in [Requests -> ReqAts]
                                 /\ job' \in [Requests -> Jobs]
                                 /\ stopAt' \in [Stoppers -> StopAts]
  BY <1>5 DEF EndThreads, ReqAts, Jobs, StopAts
<1>6. CASE StartFails(b)
  BY <1>6, <1>5 DEF StartFails, GoDown, Lives
<1>7. CASE ReapIdle(b)
  BY <1>7 DEF ReapIdle, bridgeVars
<1>8. CASE Kill(b)
  BY <1>8, <1>5 DEF Kill, GoDown, Lives
<1> QED
  BY <1>1, <1>2, <1>3, <1>4, <1>6, <1>7, <1>8 DEF BridgeStep

LEMMA RequestTypes ==
    ASSUME Typed, \A r \in Requests : Asking(r), NEW r \in Requests, RequestStep(r)
    PROVE  Typed'
<1> USE DEF Typed, files, latches, bridgeVars, stopVars, ReqTo, RequestFrame
<1>1. ASSUME NEW b \in Bridges, Accept(r, b) PROVE Typed'
  BY <1>1 DEF Accept, ReqAts
<1>2. CASE EnterRequest(r)
  BY <1>2 DEF EnterRequest, ReqAts, Admit
<1>3. CASE Dispatch(r)
  <2>1. reqBridge[r] \in Bridges
    BY <1>3 DEF Dispatch, Asking
  <2>2. reqAt' \in [Requests -> ReqAts] /\ job' \in [Requests -> Jobs]
    BY <1>3 DEF Dispatch, ReqAts, Jobs
  <2> QED
    BY <1>3, <2>1, <2>2 DEF Dispatch, WriteRegistry
<1>4. CASE LeaveRequest(r)
  BY <1>4 DEF LeaveRequest, ReqAts
<1>5. CASE WorkerStarts(r)
  BY <1>5 DEF WorkerStarts, JobTo, Jobs
<1>6. CASE WorkerEnds(r)
  <2>1. reqBridge[r] \in Bridges
    BY <1>6 DEF WorkerEnds, Asking
  <2> QED
    BY <1>6, <2>1 DEF WorkerEnds, WriteRegistry, JobTo, Jobs
<1> QED
  BY <1>1, <1>2, <1>3, <1>4, <1>5, <1>6 DEF RequestStep

LEMMA StopTypes ==
    ASSUME Typed, \A s \in Stoppers : Stopping(s), NEW s \in Stoppers, StopStep(s)
    PROVE  Typed'
<1> USE DEF Typed, files, latches, bridgeVars, requestVars, StopTo, StopFrame
<1>1. ASSUME NEW b \in Bridges, Stop(s, b) PROVE Typed'
  BY <1>1 DEF Stop, StopAts
<1>2. stopAt[s] # "idle" => stopBridge[s] \in Bridges
  BY DEF Stopping
<1>3. CASE LatchStopped(s)
  BY <1>2, <1>3 DEF LatchStopped, StopAts, Jobs
<1>4. CASE StopAccepting(s)
  BY <1>2, <1>4 DEF StopAccepting, LoopEnds, BindKept, StopAts
<1>5. CASE Drain(s)
  BY <1>2, <1>5 DEF Drain, Quiet, StopAts
<1>6. CASE ReleaseRegistry(s)
  <2>1. stopBridge[s] \in Bridges
    BY <1>2, <1>6 DEF ReleaseRegistry
  <2>2. CASE StillOurs(s) /\ ~released[stopBridge[s]]
    <3>1. /\ released' = [released EXCEPT ![stopBridge[s]] = TRUE]
          /\ teardown' = [teardown EXCEPT ![stopBridge[s]] = s]
          /\ registryFile' = None
          /\ stopAt' = [stopAt EXCEPT ![s] = "unlink"]
          /\ UNCHANGED <<socketFile, shuttingDown, stopped, idled, bound, handle, accepting,
                         job, server, drained>> /\ StopFrame
      BY <1>6, <2>2 DEF ReleaseRegistry
    <3> QED
      BY <3>1, <2>1 DEF StopAts
  <2>3. CASE ~(StillOurs(s) /\ ~released[stopBridge[s]])
    BY <1>6, <2>1, <2>3 DEF ReleaseRegistry, StopAts
  <2> QED
    BY <2>2, <2>3
<1>7. CASE ReleaseSocket(s)
  BY <1>2, <1>7 DEF ReleaseSocket, StopAts
<1>8. CASE CloseServer(s)
  BY <1>2, <1>8 DEF CloseServer, StopAts
<1> QED
  BY <1>1, <1>3, <1>4, <1>5, <1>6, <1>7, <1>8 DEF StopStep

\* A release takes the lock and the record, or comes too late.
LEMMA Releases ==
    ASSUME NEW s \in Stoppers, ReleaseRegistry(s)
    PROVE  /\ stopAt[s] = "release" /\ teardown[stopBridge[s]] = None
           /\ UNCHANGED <<socketFile, shuttingDown, stopped, idled, bound, handle, accepting,
                          job, server, drained>>
           /\ StopFrame
           /\ \/ /\ handle[stopBridge[s]] /\ server[s]
                 /\ released' = [released EXCEPT ![stopBridge[s]] = TRUE]
                 /\ teardown' = [teardown EXCEPT ![stopBridge[s]] = s]
                 /\ registryFile' = None
                 /\ stopAt' = [stopAt EXCEPT ![s] = "unlink"]
              \/ /\ UNCHANGED <<released, teardown, registryFile>>
                 /\ stopAt' = [stopAt EXCEPT ![s] = "done"]
<1>1. CASE StillOurs(s) /\ ~released[stopBridge[s]]
  BY <1>1 DEF ReleaseRegistry, StillOurs, StopTo
<1>2. CASE ~(StillOurs(s) /\ ~released[stopBridge[s]])
  BY <1>2 DEF ReleaseRegistry, StopTo
<1> QED
  BY <1>1, <1>2

-----------------------------------------------------------------------------
(* Bridges and their latches.                                                *)

LEMMA ServingByBridge ==
    ASSUME Account, NEW x \in Bridges, BridgeStep(x), NEW b \in Bridges
    PROVE  Serving(b)'
<1> USE DEF LifeTo, files, latches
<1>0. Typed /\ Serving(b) /\ Serving(x)
  BY DEF Account
<1> USE <1>0 DEF Typed, Unbound, Serving
<1>1. CASE Probe(x)
  BY <1>1 DEF Probe
<1>2. CASE Bind(x)
  BY <1>2 DEF Bind
<1>3. CASE Serve(x)
  BY <1>3 DEF Serve
<1>4. CASE FinishStart(x)
  BY <1>4 DEF FinishStart
<1>5. CASE StartFails(x)
  BY <1>5 DEF StartFails, GoDown
<1>6. CASE ReapIdle(x)
  BY <1>6 DEF ReapIdle, bridgeVars
<1>7. CASE Kill(x)
  BY <1>7 DEF Kill, GoDown
<1> QED
  BY <1>1, <1>2, <1>3, <1>4, <1>5, <1>6, <1>7 DEF BridgeStep

LEMMA ServingByRequest ==
    ASSUME Account, NEW r \in Requests, RequestStep(r), NEW b \in Bridges
    PROVE  Serving(b)'
<1>1. Typed /\ Serving(b) /\ Asking(r)
  BY DEF Account
<1>2. /\ UNCHANGED <<life, bound, handle, accepting, stopped, released, idled>>
      /\ shuttingDown' = shuttingDown
         \/ (reqAt[r] = "working" /\ shuttingDown' = [shuttingDown EXCEPT ![reqBridge[r]] = TRUE])
  BY DEF RequestStep, Accept, EnterRequest, Dispatch, LeaveRequest, WorkerStarts, WorkerEnds,
     RequestFrame, latches, bridgeVars
<1> QED
  BY <1>1, <1>2 DEF Typed, Serving, Asking

LEMMA ServingByStop ==
    ASSUME Account, NEW s \in Stoppers, StopStep(s), NEW b \in Bridges
    PROVE  Serving(b)'
<1>0. Typed /\ Serving(b) /\ Stopping(s)
  BY DEF Account
<1> USE <1>0 DEF Typed, Unbound, Serving, Stopping, latches
<1>1. ASSUME NEW x \in Bridges, Stop(s, x) PROVE Serving(b)'
  BY <1>1 DEF Stop, bridgeVars
<1>2. CASE LatchStopped(s)
  BY <1>2 DEF LatchStopped, StopFrame
<1>3. CASE StopAccepting(s)
  BY <1>3 DEF StopAccepting, LoopEnds, BindKept, StopFrame
<1>4. CASE Drain(s)
  BY <1>4 DEF Drain, StopFrame
<1>5. CASE ReleaseRegistry(s)
  BY <1>5, Releases DEF StopFrame
<1>6. CASE ReleaseSocket(s)
  BY <1>6 DEF ReleaseSocket, StopFrame
<1>7. CASE CloseServer(s)
  BY <1>7 DEF CloseServer, StopFrame
<1> QED
  BY <1>1, <1>2, <1>3, <1>4, <1>5, <1>6, <1>7 DEF StopStep

-----------------------------------------------------------------------------
(* Stops, and the teardown lock.                                             *)

\* What ends the threads of a bridge.
LEMMA Ends ==
    ASSUME Typed, NEW x \in Bridges, StartFails(x) \/ Kill(x)
    PROVE  /\ UNCHANGED <<registryFile, latches, reqBridge, reqKind, admitted, stopBridge,
                          server, drained>>
           /\ accepting' = [accepting EXCEPT ![x] = FALSE]
           /\ bound' = [bound EXCEPT ![x] = FALSE]
           /\ handle' = [handle EXCEPT ![x] = FALSE]
           /\ \/ /\ life' = [life EXCEPT ![x] = "failed"] /\ life[x] \in {"bound", "serving"}
                 /\ socketFile' = None
                 /\ EndThreads(x) \/ (~Headless /\ UNCHANGED <<teardown, reqAt, job, stopAt>>)
              \/ /\ life' = [life EXCEPT ![x] = "killed"] /\ life[x] \in {"bound", "serving", "up"}
                 /\ socketFile' = socketFile
                 /\ EndThreads(x)
BY DEF StartFails, Kill, GoDown, LifeTo

LEMMA StoppingByBridge ==
    ASSUME Account, NEW x \in Bridges, BridgeStep(x), NEW s \in Stoppers
    PROVE  Stopping(s)'
<1>1. Typed /\ Stopping(s) /\ Serving(x)
  BY DEF Account
<1> USE <1>1, LifecycleAssumption DEF Typed, Unbound, Stopping, LifeTo, files, latches, stopVars
<1>2. CASE Probe(x)
  BY <1>2 DEF Probe
<1>3. CASE Bind(x)
  BY <1>3 DEF Bind
<1>4. CASE Serve(x)
  BY <1>4 DEF Serve
<1>5. CASE FinishStart(x)
  BY <1>5 DEF FinishStart
<1>6. CASE ReapIdle(x)
  BY <1>6 DEF ReapIdle, bridgeVars
<1>7. CASE StartFails(x) \/ Kill(x)
  <2>1. CASE stopBridge[s] = x
    BY <1>7, <2>1, Ends DEF EndThreads
  <2>2. CASE stopBridge[s] # x
    BY <1>7, <2>2, Ends DEF EndThreads
  <2> QED
    BY <2>1, <2>2
<1> QED
  BY <1>2, <1>3, <1>4, <1>5, <1>6, <1>7 DEF BridgeStep

LEMMA StoppingByRequest ==
    ASSUME Account, NEW r \in Requests, RequestStep(r), NEW s \in Stoppers
    PROVE  Stopping(s)'
<1>1. Typed /\ Stopping(s) /\ Asking(r)
  BY DEF Account
<1>2. /\ UNCHANGED <<life, handle, accepting, stopped, teardown, stopAt, stopBridge, server, drained>>
      /\ shuttingDown' = shuttingDown
         \/ (reqAt[r] = "working" /\ shuttingDown' = [shuttingDown EXCEPT ![reqBridge[r]] = TRUE])
  BY DEF RequestStep, Accept, EnterRequest, Dispatch, LeaveRequest, WorkerStarts, WorkerEnds,
     RequestFrame, latches, bridgeVars, stopVars
<1> QED
  BY <1>1, <1>2 DEF Typed, Stopping, Asking

LEMMA StoppingByStop ==
    ASSUME Account, NEW z \in Stoppers, StopStep(z), NEW s \in Stoppers
    PROVE  Stopping(s)'
<1>1. Typed /\ Stopping(s) /\ Stopping(z) /\ TeardownHeld
  BY DEF Account
<1>2. \A b \in Bridges : Serving(b)
  BY DEF Account
<1> USE <1>1, LifecycleAssumption DEF Typed, Unbound, Stopping, StopTo, StopFrame, latches
<1>3. ASSUME NEW x \in Bridges, Stop(z, x) PROVE Stopping(s)'
  BY <1>3 DEF Stop, bridgeVars
<1>4. CASE LatchStopped(z)
  BY <1>4 DEF LatchStopped
<1>5. CASE StopAccepting(z)
  BY <1>5 DEF StopAccepting, LoopEnds
<1>6. CASE Drain(z)
  BY <1>6 DEF Drain
<1>7. CASE ReleaseRegistry(z)
  <2>1. CASE s = z
    BY <1>7, <2>1, Releases
  <2>2. CASE s # z
    BY <1>7, <2>2, Releases
  <2> QED
    BY <2>1, <2>2
<1>8. CASE ReleaseSocket(z)
  BY <1>8 DEF ReleaseSocket, TeardownHeld
<1>9. CASE CloseServer(z)
  BY <1>9 DEF CloseServer
<1> QED
  BY <1>3, <1>4, <1>5, <1>6, <1>7, <1>8, <1>9 DEF StopStep

LEMMA TeardownStep ==
    ASSUME Account, Next
    PROVE  TeardownHeld'
<1>1. Typed /\ TeardownHeld
  BY DEF Account
<1> USE <1>1, LifecycleAssumption DEF Typed, TeardownHeld
<1>2. CASE UNCHANGED <<teardown, stopAt, stopBridge>>
  BY <1>2
<1>3. ASSUME NEW x \in Bridges, BridgeStep(x) PROVE TeardownHeld'
  <2>1. CASE StartFails(x) \/ Kill(x)
    <3>1. CASE EndThreads(x)
      BY <2>1, <3>1, Ends DEF EndThreads
    <3> QED
      BY <2>1, <3>1, <1>2, Ends
  <2> QED
    BY <1>3, <2>1, <1>2 DEF BridgeStep, Probe, Bind, Serve, FinishStart, ReapIdle, bridgeVars, stopVars
<1>4. ASSUME NEW r \in Requests, RequestStep(r) PROVE TeardownHeld'
  BY <1>4, <1>2 DEF RequestStep, Accept, EnterRequest, Dispatch, LeaveRequest, WorkerStarts,
     WorkerEnds, RequestFrame, bridgeVars, stopVars
<1>5. ASSUME NEW s \in Stoppers, StopStep(s) PROVE TeardownHeld'
  <2>1. Stopping(s)
    BY DEF Account
  <2>2. ASSUME NEW b \in Bridges, Stop(s, b) PROVE TeardownHeld'
    BY <2>2 DEF Stop, StopTo, bridgeVars
  <2>3. CASE LatchStopped(s) \/ StopAccepting(s) \/ Drain(s) \/ CloseServer(s)
    <3>1. /\ UNCHANGED <<teardown, stopBridge>> /\ stopAt[s] # "unlink"
          /\ \A z \in Stoppers \ {s} : stopAt'[z] = stopAt[z]
      BY <2>3 DEF LatchStopped, StopAccepting, Drain, CloseServer, StopTo, StopFrame
    <3> QED
      BY <3>1
  <2>4. CASE ReleaseRegistry(s)
    BY <2>4, Releases DEF StopFrame
  <2>5. CASE ReleaseSocket(s)
    BY <2>5, <2>1 DEF ReleaseSocket, StopTo, StopFrame, Stopping
  <2> QED
    BY <1>5, <2>2, <2>3, <2>4, <2>5 DEF StopStep
<1> QED
  BY <1>3, <1>4, <1>5, Steps

-----------------------------------------------------------------------------
(* Requests.                                                                 *)

LEMMA AskingStep ==
    ASSUME Account, Next, NEW r \in Requests
    PROVE  Asking(r)'
<1>1. Typed /\ Asking(r)
  BY DEF Account
<1> USE <1>1, LifecycleAssumption DEF Typed, Unbound, Asking
<1>2. ASSUME NEW x \in Bridges, BridgeStep(x) PROVE Asking(r)'
  <2>1. CASE StartFails(x) \/ Kill(x)
    <3>1. CASE EndThreads(x)
      BY <2>1, <3>1, Ends DEF EndThreads
    <3> QED
      BY <2>1, <3>1, Ends
  <2>2. CASE Probe(x) \/ Bind(x) \/ Serve(x) \/ FinishStart(x) \/ ReapIdle(x)
    <3>1. UNCHANGED requestVars /\ \A b \in Bridges : life'[b] \in Unbound => life[b] \in Unbound
      BY <2>2 DEF Probe, Bind, Serve, FinishStart, ReapIdle, LifeTo, bridgeVars
    <3> QED
      BY <3>1 DEF requestVars
  <2> QED
    BY <1>2, <2>1, <2>2 DEF BridgeStep
<1>3. ASSUME NEW q \in Requests, RequestStep(q) PROVE Asking(r)'
  <2> USE DEF ReqTo, RequestFrame, bridgeVars
  <2>1. ASSUME NEW b \in Bridges, Accept(q, b) PROVE Asking(r)'
    <3>1. life[b] \notin Unbound
      BY <2>1 DEF Accept, Account, Serving
    <3> QED
      BY <2>1, <3>1 DEF Accept
  <2>2. CASE EnterRequest(q)
    BY <2>2 DEF EnterRequest
  <2>3. CASE Dispatch(q)
    <3>1. /\ reqAt[q] = "working" /\ reqAt' = [reqAt EXCEPT ![q] = "answering"]
          /\ \A p \in Requests : job'[p] = job[p] \/ p = q
          /\ UNCHANGED <<admitted, life, reqBridge>>
      BY <2>3 DEF Dispatch
    <3> QED
      BY <3>1
  <2>4. CASE LeaveRequest(q)
    BY <2>4 DEF LeaveRequest
  <2>5. CASE WorkerStarts(q) \/ WorkerEnds(q)
    <3>1. /\ job[q] # "none" /\ UNCHANGED <<reqAt, admitted, life, reqBridge>>
          /\ \A p \in Requests : job'[p] = job[p] \/ p = q
      BY <2>5 DEF WorkerStarts, WorkerEnds, JobTo
    <3> QED
      BY <3>1
  <2> QED
    BY <1>3, <2>1, <2>2, <2>3, <2>4, <2>5 DEF RequestStep
<1>4. ASSUME NEW s \in Stoppers, StopStep(s) PROVE Asking(r)'
  <2>1. UNCHANGED <<reqAt, reqBridge, admitted, life>> /\ (job[r] = "none" => job'[r] = "none")
    BY <1>4, Releases DEF StopStep, Stop, LatchStopped, StopAccepting, Drain, ReleaseSocket,
       CloseServer, StopFrame, bridgeVars, requestVars
  <2> QED
    BY <2>1
<1> QED
  BY <1>2, <1>3, <1>4, Steps

\* A bridge that takes no more requests and has answered those that it took stays so.
LEMMA QuietStays ==
    ASSUME Account, Next, NEW b \in Bridges, shuttingDown[b], Unanswered(b) = {}
    PROVE  Unanswered(b)' = {} /\ (ActiveJobs(b) = {} => ActiveJobs(b)' = {})
<1>1. Typed /\ Serving(b)
  BY DEF Account
<1>2. \A r \in Requests : Asking(r)
  BY DEF Account
<1>3. /\ \A r \in Requests : reqBridge[r] = b /\ admitted[r] => reqAt[r] = "gone"
      /\ ActiveJobs(b) = {} =>
             \A r \in Requests : reqBridge[r] = b => job[r] \notin {"queued", "running"}
  BY DEF Unanswered, ActiveJobs
<1> SUFFICES ASSUME NEW r \in Requests, reqBridge'[r] = b
             PROVE  /\ admitted'[r] => reqAt'[r] = "gone"
                    /\ job[r] \notin {"queued", "running"} \/ reqBridge[r] # b
                           => job'[r] \notin {"queued", "running"}
  BY <1>3 DEF Unanswered, ActiveJobs
<1> USE <1>1, <1>2, <1>3, LifecycleAssumption DEF Typed
<1>4. ASSUME NEW x \in Bridges, BridgeStep(x)
      PROVE  /\ admitted'[r] => reqAt'[r] = "gone"
             /\ job[r] \notin {"queued", "running"} \/ reqBridge[r] # b
                    => job'[r] \notin {"queued", "running"}
  <2>1. UNCHANGED <<reqBridge, admitted>>
        /\ (UNCHANGED <<reqAt, job>> \/ EndThreads(x))
    BY <1>4, Ends DEF BridgeStep, Probe, Bind, Serve, FinishStart, ReapIdle, requestVars, latches
  <2> QED
    BY <2>1 DEF EndThreads
<1>5. ASSUME NEW q \in Requests, RequestStep(q)
      PROVE  /\ admitted'[r] => reqAt'[r] = "gone"
             /\ job[r] \notin {"queued", "running"} \/ reqBridge[r] # b
                    => job'[r] \notin {"queued", "running"}
  <2> USE DEF ReqTo, RequestFrame
  <2>1. CASE q # r
    <3>1. /\ reqAt'[r] = reqAt[r] /\ job'[r] = job[r]
          /\ admitted'[r] = admitted[r] /\ reqBridge'[r] = reqBridge[r]
      BY <1>5, <2>1 DEF RequestStep, Accept, EnterRequest, Dispatch, LeaveRequest, WorkerStarts,
         WorkerEnds, JobTo
    <3> QED
      BY <3>1
  <2>2. CASE q = r
    <3>1. ASSUME NEW x \in Bridges, Accept(r, x) PROVE ~admitted'[r] /\ job'[r] = "none"
      BY <3>1 DEF Accept, Asking
    <3>2. CASE EnterRequest(r)
      BY <3>2 DEF EnterRequest, Admit
    <3>3. CASE Dispatch(r)
      BY <3>3 DEF Dispatch, Asking
    <3>4. CASE LeaveRequest(r)
      BY <3>4 DEF LeaveRequest
    <3>5. CASE WorkerStarts(r) \/ WorkerEnds(r)
      BY <3>5 DEF WorkerStarts, WorkerEnds
    <3> QED
      BY <1>5, <2>2, <3>1, <3>2, <3>3, <3>4, <3>5 DEF RequestStep
  <2> QED
    BY <2>1, <2>2
<1>6. ASSUME NEW s \in Stoppers, StopStep(s)
      PROVE  /\ admitted'[r] => reqAt'[r] = "gone"
             /\ job[r] \notin {"queued", "running"} \/ reqBridge[r] # b
                    => job'[r] \notin {"queued", "running"}
  <2>1. UNCHANGED <<reqAt, reqBridge, admitted>> /\ (job'[r] = job[r] \/ job'[r] = "failed")
    BY <1>6, Releases DEF StopStep, Stop, LatchStopped, StopAccepting, Drain, ReleaseSocket,
       CloseServer, StopFrame, requestVars
  <2> QED
    BY <2>1
<1> QED
  BY <1>4, <1>5, <1>6, Steps

LEMMA NotBusy ==
    ASSUME Account, NEW b \in Bridges, Inflight(b) = {}
    PROVE  Unanswered(b) = {}
<1>1. ASSUME NEW r \in Requests, reqBridge[r] = b, admitted[r] PROVE reqAt[r] = "gone"
  <2>1. Asking(r) /\ reqAt[r] \in ReqAts /\ reqAt[r] \notin {"working", "answering"}
    BY <1>1 DEF Account, Typed, Inflight
  <2> QED
    BY <1>1, <2>1 DEF Asking, ReqAts
<1> QED
  BY <1>1 DEF Unanswered

\* Which bridge the reaper shuts down, and which stop reports that it drained.
LEMMA IdleStep ==
    ASSUME Account, Next
    PROVE  IdleInterruptsNothing'
<1> SUFFICES ASSUME NEW b \in Bridges, idled'[b]
             PROVE  Unanswered(b)' = {} /\ ActiveJobs(b)' = {}
  BY DEF IdleInterruptsNothing
<1>1. CASE idled[b]
  <2>1. shuttingDown[b] /\ Unanswered(b) = {} /\ ActiveJobs(b) = {}
    BY <1>1 DEF Account, Serving, IdleInterruptsNothing
  <2> QED
    BY <2>1, QuietStays
<1>2. CASE ~idled[b]
  <2>1. ReapIdle(b)
    <3>1. Typed
      BY DEF Account
    <3>2. ASSUME NEW x \in Bridges, BridgeStep(x) PROVE ReapIdle(x) \/ idled' = idled
      BY <3>2, Ends, <3>1 DEF BridgeStep, Probe, Bind, Serve, FinishStart, latches
    <3>3. ASSUME NEW x \in Bridges, ReapIdle(x) PROVE x = b
      BY <3>1, <3>3, <1>2 DEF ReapIdle, Typed
    <3>4. ASSUME NEW r \in Requests, RequestStep(r) PROVE idled' = idled
      BY <3>4 DEF RequestStep, Accept, EnterRequest, Dispatch, LeaveRequest, WorkerStarts,
         WorkerEnds, latches
    <3>5. ASSUME NEW s \in Stoppers, StopStep(s) PROVE idled' = idled
      BY <3>5 DEF StopStep, Stop, LatchStopped, StopAccepting, Drain, ReleaseRegistry,
         ReleaseSocket, CloseServer, latches
    <3> QED
      BY <1>2, <3>2, <3>3, <3>4, <3>5, Steps
  <2>2. Unanswered(b) = {} /\ ActiveJobs(b) = {}
    BY <2>1, NotBusy DEF ReapIdle, Busy
  <2>3. UNCHANGED requestVars
    BY <2>1 DEF ReapIdle
  <2> QED
    BY <2>2, <2>3 DEF requestVars, Unanswered, ActiveJobs
<1> QED
  BY <1>1, <1>2

LEMMA DrainedStep ==
    ASSUME Account, Next
    PROVE  DrainedMeansAnswered'
<1>1. Typed
  BY DEF Account
<1> SUFFICES ASSUME NEW s \in Stoppers, drained'[s]
             PROVE  Unanswered(stopBridge[s])' = {}
  BY DEF DrainedMeansAnswered
<1>2. CASE drained[s] /\ stopBridge'[s] = stopBridge[s]
  <2>1. stopBridge[s] \in Bridges /\ shuttingDown[stopBridge[s]] /\ Unanswered(stopBridge[s]) = {}
    BY <1>2 DEF Account, Stopping, DrainedMeansAnswered
  <2>2. PICK b \in Bridges : b = stopBridge[s]
    BY <2>1
  <2>3. Unanswered(b)' = {}
    BY <2>1, <2>2, QuietStays
  <2> QED
    BY <2>2, <2>3, <1>2 DEF Unanswered
<1>3. CASE Drain(s)
  <2>1. PICK b \in Bridges : b = stopBridge[s]
    BY <1>3 DEF Drain, Account, Stopping
  <2>2. Inflight(b) = {}
    BY <1>1, <1>3, <2>1 DEF Drain, Quiet, Typed
  <2>3. Unanswered(b) = {}
    BY <2>2, NotBusy
  <2>4. UNCHANGED <<reqAt, reqBridge, admitted, stopBridge>>
    BY <1>3 DEF Drain, StopFrame
  <2> QED
    BY <2>1, <2>3, <2>4 DEF Unanswered
<1>4. Drain(s) \/ (drained[s] /\ stopBridge'[s] = stopBridge[s])
  <2>1. ASSUME NEW x \in Bridges, BridgeStep(x) PROVE UNCHANGED <<drained, stopBridge>>
    BY <2>1, Ends, <1>1 DEF BridgeStep, Probe, Bind, Serve, FinishStart, ReapIdle, stopVars
  <2>2. ASSUME NEW r \in Requests, RequestStep(r) PROVE UNCHANGED <<drained, stopBridge>>
    BY <2>2 DEF RequestStep, Accept, EnterRequest, Dispatch, LeaveRequest, WorkerStarts,
       WorkerEnds, RequestFrame, stopVars
  <2>3. ASSUME NEW z \in Stoppers, StopStep(z)
        PROVE  Drain(s) \/ (drained[s] /\ stopBridge'[s] = stopBridge[s])
    <3>1. ASSUME NEW b \in Bridges, Stop(z, b)
          PROVE  drained' = drained /\ (drained[s] => stopBridge'[s] = stopBridge[s])
      BY <3>1, <1>1 DEF Stop, Account, Stopping, Typed
    <3>2. CASE Drain(z)
      BY <3>2, <1>1 DEF Drain, StopFrame, Typed
    <3>3. CASE ~Drain(z) /\ ~\E b \in Bridges : Stop(z, b)
      BY <2>3, <3>3 DEF StopStep, LatchStopped, StopAccepting, ReleaseRegistry, ReleaseSocket,
         CloseServer, StopFrame
    <3> QED
      BY <3>1, <3>2, <3>3
  <2> QED
    BY <2>1, <2>2, <2>3, Steps
<1> QED
  BY <1>2, <1>3, <1>4

\* Only a bridge that has not latched writes its record.
LEMMA NoGhostStep ==
    ASSUME Account, Next
    PROVE  NoGhostRegistry'
<1>1. Typed /\ NoGhostRegistry /\ \A b \in Bridges : Serving(b)
  BY DEF Account
<1> USE <1>1, LifecycleAssumption DEF Typed, NoGhostRegistry
<1>2. ASSUME \A b \in Bridges : released'[b] => released[b],
             NEW x \in Bridges, registryFile' = registryFile \/ WriteRegistry(x)
      PROVE  NoGhostRegistry'
  BY <1>2 DEF WriteRegistry, MayPublish, Serving
<1>3. ASSUME NEW x \in Bridges, BridgeStep(x) PROVE NoGhostRegistry'
  <2>1. \A b \in Bridges : released'[b] => released[b]
    BY <1>3, Ends DEF BridgeStep, Probe, Bind, Serve, FinishStart, ReapIdle, latches
  <2>2. registryFile' = registryFile \/ WriteRegistry(x)
    BY <1>3, Ends DEF BridgeStep, Probe, Bind, Serve, FinishStart, ReapIdle, files
  <2> QED
    BY <2>1, <2>2, <1>2
<1>4. ASSUME NEW r \in Requests, RequestStep(r) PROVE NoGhostRegistry'
  <2>1. released' = released
    BY <1>4 DEF RequestStep, Accept, EnterRequest, Dispatch, LeaveRequest, WorkerStarts,
       WorkerEnds, latches
  <2>2. registryFile' = registryFile \/ (WriteRegistry(reqBridge[r]) /\ reqBridge[r] \in Bridges)
    BY <1>4 DEF RequestStep, Accept, EnterRequest, Dispatch, LeaveRequest, WorkerStarts,
       WorkerEnds, files, Account, Asking
  <2> QED
    BY <2>1, <2>2, <1>2
<1>5. ASSUME NEW s \in Stoppers, StopStep(s) PROVE NoGhostRegistry'
  <2>1. CASE ReleaseRegistry(s)
    BY <2>1, Releases
  <2> QED
    BY <1>5, <2>1 DEF StopStep, Stop, LatchStopped, StopAccepting, Drain, ReleaseSocket,
       CloseServer, files, latches
<1> QED
  BY <1>3, <1>4, <1>5, Steps

-----------------------------------------------------------------------------
LEMMA AccountInit ==
    ASSUME Init
    PROVE  Account
<1> USE LifecycleAssumption DEF Init
<1>1. Typed
  BY DEF Typed, Lives, ReqAts, Kinds, Jobs, StopAts
<1>2. TeardownHeld /\ NoGhostRegistry /\ IdleInterruptsNothing /\ DrainedMeansAnswered
  BY DEF TeardownHeld, NoGhostRegistry, IdleInterruptsNothing, DrainedMeansAnswered
<1>3. \A b \in Bridges : Serving(b)
  BY DEF Serving
<1>4. \A s \in Stoppers : Stopping(s)
  BY DEF Stopping
<1>5. \A r \in Requests : Asking(r)
  BY DEF Asking
<1> QED
  BY <1>1, <1>2, <1>3, <1>4, <1>5 DEF Account

LEMMA AccountStep ==
    ASSUME Account, [Next]_vars
    PROVE  Account'
<1>1. CASE UNCHANGED vars
  BY <1>1 DEF vars, files, latches, bridgeVars, requestVars, stopVars, Account, Typed, TeardownHeld,
     NoGhostRegistry, IdleInterruptsNothing, DrainedMeansAnswered, Unanswered, ActiveJobs,
     Serving, Stopping, Asking
<1>2. CASE Next
  <2>1. Typed'
    BY <1>2, Steps, BridgeTypes, RequestTypes, StopTypes DEF Account
  <2>2. \A b \in Bridges : Serving(b)'
    BY <1>2, Steps, ServingByBridge, ServingByRequest, ServingByStop
  <2>3. \A s \in Stoppers : Stopping(s)'
    BY <1>2, Steps, StoppingByBridge, StoppingByRequest, StoppingByStop
  <2>4. \A r \in Requests : Asking(r)'
    BY <1>2, AskingStep
  <2> QED
    BY <1>2, <2>1, <2>2, <2>3, <2>4, TeardownStep, NoGhostStep, IdleStep, DrainedStep DEF Account
<1> QED
  BY <1>1, <1>2

\* The account of bridges, requests and stops is inductive, whoever starts bridges.
THEOREM AccountInvariant == Spec => []Account
BY AccountInit, AccountStep, PTL DEF Spec

\* No record advertises a bridge whose stop released its files: its late requests and
\* detached loads do not write one any more (#694).
THEOREM NoGhosts == Spec => []NoGhostRegistry
BY AccountInvariant, PTL DEF Account

\* The reaper ends a bridge only when nothing is under way in it, and nothing comes in
\* between its decision and the end.
THEOREM TheReaperInterruptsNothing == Spec => []IdleInterruptsNothing
BY AccountInvariant, PTL DEF Account

\* A stop that reports its requests drained tells the truth from then on.
THEOREM DrainsAreHonest == Spec => []DrainedMeansAnswered
BY AccountInvariant, PTL DEF Account

-----------------------------------------------------------------------------
(* Bridges that start one at a time, and their files.                        *)

\* At most one bridge holds its server.
LEMMA OneServer ==
    ASSUME ServingBridgeReachable, NEW b \in Bridges, NEW x \in Bridges, handle[b], handle[x]
    PROVE  b = x
BY DEF ServingBridgeReachable

LEMMA StartsStep ==
    ASSUME Account, Paths, Headless, Next
    PROVE  /\ (\A b, c \in Starting : b = c)'
           /\ \A b \in Bridges : life'[b] = "clear" => socketFile' = None
           /\ \A b \in Bridges : life'[b] = "stale" => ~(socketFile' # None /\ bound'[socketFile'])
<1>1. Typed
  BY DEF Account
<1> USE <1>1, LifecycleAssumption DEF Typed, Starting
<1>2. ASSUME \A b \in Bridges : life'[b] = life[b] \/ life'[b] \notin {"clear", "stale", "bound", "serving"},
             socketFile' \in {socketFile, None},
             \A b \in Bridges : bound'[b] => bound[b]
      PROVE  /\ (\A b, c \in Starting : b = c)'
             /\ \A b \in Bridges : life'[b] = "clear" => socketFile' = None
             /\ \A b \in Bridges : life'[b] = "stale" => ~(socketFile' # None /\ bound'[socketFile'])
  BY <1>2 DEF Paths
<1>3. ASSUME NEW x \in Bridges, BridgeStep(x)
      PROVE  /\ (\A b, c \in Starting : b = c)'
             /\ \A b \in Bridges : life'[b] = "clear" => socketFile' = None
             /\ \A b \in Bridges : life'[b] = "stale" => ~(socketFile' # None /\ bound'[socketFile'])
  <2> USE DEF LifeTo, files
  <2>1. CASE Probe(x)
    BY <2>1 DEF Probe, FileIsStale, Paths
  <2>2. CASE Bind(x)
    BY <2>2 DEF Bind, Paths
  <2>3. CASE Serve(x)
    BY <2>3 DEF Serve, Paths
  <2>4. CASE FinishStart(x)
    BY <2>4, <1>2 DEF FinishStart
  <2>5. CASE StartFails(x) \/ Kill(x)
    BY <2>5, <1>2, Ends
  <2>6. CASE ReapIdle(x)
    BY <2>6, <1>2 DEF ReapIdle, bridgeVars
  <2> QED
    BY <1>3, <2>1, <2>2, <2>3, <2>4, <2>5, <2>6 DEF BridgeStep
<1>4. ASSUME NEW r \in Requests, RequestStep(r) PROVE UNCHANGED <<life, socketFile, bound>>
  BY <1>4 DEF RequestStep, Accept, EnterRequest, Dispatch, LeaveRequest, WorkerStarts,
     WorkerEnds, RequestFrame, bridgeVars, files
<1>5. ASSUME NEW s \in Stoppers, StopStep(s)
      PROVE  /\ life' = life /\ socketFile' \in {socketFile, None}
             /\ \A b \in Bridges : bound'[b] => bound[b]
  BY <1>5, Releases DEF StopStep, Stop, LatchStopped, StopAccepting, BindKept, Drain, ReleaseSocket,
     CloseServer, StopFrame, bridgeVars, files
<1> QED
  BY <1>2, <1>3, <1>4, <1>5, Steps

\* Nobody binds, unlinks or fails over the file of another bridge that is served.
LEMMA ReachableStep ==
    ASSUME Account, Paths, Next
    PROVE  ServingBridgeReachable'
<1>1. Typed
  BY DEF Account
<1> USE <1>1, LifecycleAssumption DEF Typed, ServingBridgeReachable
<1>2. \A b \in Bridges : handle[b] => socketFile = b
  BY DEF Paths
<1>3. ASSUME NEW x \in Bridges, BridgeStep(x) PROVE ServingBridgeReachable'
  <2> USE DEF files
  <2>1. CASE Bind(x)
    <3>1. \A b \in Bridges : Serving(b)
      BY DEF Account
    <3>2. (handle' = handle /\ socketFile' = socketFile)
          \/ /\ socketFile' = x /\ handle' = [handle EXCEPT ![x] = TRUE]
             /\ socketFile = None \/ life[x] = "stale"
      BY <2>1 DEF Bind
    <3>3. life[x] = "stale" => ~(socketFile # None /\ bound[socketFile])
      BY DEF Paths
    <3> QED
      BY <1>2, <3>1, <3>2, <3>3 DEF Serving
  <2>2. CASE StartFails(x) \/ Kill(x)
    BY <2>2, <1>2, Ends DEF Account, Serving
  <2> QED
    BY <1>2, <1>3, <2>1, <2>2 DEF BridgeStep, Probe, Serve, FinishStart, ReapIdle, bridgeVars
<1>4. ASSUME NEW r \in Requests, RequestStep(r) PROVE UNCHANGED <<handle, socketFile>>
  BY <1>4 DEF RequestStep, Accept, EnterRequest, Dispatch, LeaveRequest, WorkerStarts,
     WorkerEnds, RequestFrame, bridgeVars, files
<1>5. ASSUME NEW s \in Stoppers, StopStep(s) PROVE ServingBridgeReachable'
  <2>1. CASE ReleaseSocket(s)
    <3>1. stopBridge[s] \in Bridges /\ handle[stopBridge[s]]
      BY <2>1 DEF ReleaseSocket, Account, Stopping
    <3>2. handle' = [handle EXCEPT ![stopBridge[s]] = FALSE] /\ socketFile' = None
      BY <2>1 DEF ReleaseSocket
    <3> QED
      BY <3>1, <3>2, <1>2
  <2>2. CASE ~ReleaseSocket(s)
    <3>1. UNCHANGED <<handle, socketFile>>
      BY <1>5, <2>2, Releases DEF StopStep, Stop, LatchStopped, StopAccepting, Drain,
         CloseServer, bridgeVars, files
    <3> QED
      BY <3>1, <1>2
  <2> QED
    BY <2>1, <2>2
<1> QED
  BY <1>2, <1>3, <1>4, <1>5, Steps

\* The threads of a bridge that has failed or was killed are gone.
LEMMA ThreadsStep ==
    ASSUME Account, Paths, Headless, Next, NEW r \in Requests,
           reqAt'[r] \in {"accepted", "working", "answering"} \/ job'[r] \in {"queued", "running"}
    PROVE  life'[reqBridge'[r]] \in {"serving", "up"}
<1>1. Typed /\ Asking(r)
  BY DEF Account
<1>2. reqAt[r] \in {"accepted", "working", "answering"} \/ job[r] \in {"queued", "running"} =>
          reqBridge[r] \in Bridges /\ life[reqBridge[r]] \in {"serving", "up"}
  BY <1>1 DEF Paths, Asking
<1> USE <1>1, <1>2, LifecycleAssumption DEF Typed
<1>3. ASSUME NEW x \in Bridges, BridgeStep(x) PROVE life'[reqBridge'[r]] \in {"serving", "up"}
  <2>1. CASE StartFails(x) \/ Kill(x)
    BY <2>1, Ends DEF EndThreads
  <2>2. CASE Probe(x) \/ Bind(x) \/ Serve(x) \/ FinishStart(x) \/ ReapIdle(x)
    <3>1. /\ UNCHANGED requestVars
          /\ \A b \in Bridges : life[b] \in {"serving", "up"} => life'[b] \in {"serving", "up"}
      BY <2>2 DEF Probe, Bind, Serve, FinishStart, ReapIdle, LifeTo, bridgeVars
    <3> QED
      BY <3>1 DEF requestVars
  <2> QED
    BY <1>3, <2>1, <2>2 DEF BridgeStep
<1>4. ASSUME NEW q \in Requests, RequestStep(q) PROVE life'[reqBridge'[r]] \in {"serving", "up"}
  <2> USE DEF ReqTo, RequestFrame, bridgeVars
  <2>1. ASSUME NEW b \in Bridges, Accept(q, b) PROVE life'[reqBridge'[r]] \in {"serving", "up"}
    <3>1. life[b] \in {"serving", "up"}
      BY <2>1 DEF Accept, Account, Serving
    <3> QED
      BY <2>1, <3>1 DEF Accept
  <2>2. CASE ~\E b \in Bridges : Accept(q, b)
    <3>1. UNCHANGED <<life, reqBridge>>
      BY <1>4, <2>2 DEF RequestStep, EnterRequest, Dispatch, LeaveRequest, WorkerStarts, WorkerEnds
    <3>2. CASE q = r
      BY <1>4, <2>2, <3>1, <3>2 DEF RequestStep, EnterRequest, Dispatch, LeaveRequest,
         WorkerStarts, WorkerEnds
    <3>3. CASE q # r
      <4>1. reqAt'[r] = reqAt[r] /\ job'[r] = job[r]
        BY <1>4, <2>2, <3>3 DEF RequestStep, EnterRequest, Dispatch, LeaveRequest, WorkerStarts,
           WorkerEnds, JobTo
      <4> QED
        BY <3>1, <4>1
    <3> QED
      BY <3>2, <3>3
  <2> QED
    BY <2>1, <2>2
<1>5. ASSUME NEW s \in Stoppers, StopStep(s) PROVE life'[reqBridge'[r]] \in {"serving", "up"}
  <2>1. UNCHANGED <<reqAt, reqBridge, life>> /\ (job'[r] = job[r] \/ job'[r] = "failed")
    BY <1>5, Releases DEF StopStep, Stop, LatchStopped, StopAccepting, Drain, ReleaseSocket,
       CloseServer, StopFrame, bridgeVars, requestVars
  <2> QED
    BY <2>1
<1> QED
  BY <1>3, <1>4, <1>5, Steps

\* Whoever writes a record has not latched: a bridge that lost its server has.
LEMMA WriterServes ==
    ASSUME Account, NEW x \in Bridges, WriteRegistry(x), life[x] \in {"serving", "up"}
    PROVE  registryFile' = registryFile \/ (registryFile' = x /\ handle[x])
BY DEF WriteRegistry, MayPublish, Account, Serving

LEMMA RegistryStep ==
    ASSUME Account, Paths, Headless, Next
    PROVE  RegistryStays'
<1>1. Typed /\ RegistryStays /\ ServingBridgeReachable
  BY DEF Account, Paths
<1>2. \A b, x \in Bridges : handle[b] /\ handle[x] => b = x
  BY <1>1, OneServer
<1> USE <1>1, <1>2, LifecycleAssumption DEF Typed, RegistryStays
<1>3. ASSUME NEW x \in Bridges, WriteRegistry(x), life[x] \in {"serving", "up"},
             UNCHANGED <<life, handle, teardown>>
      PROVE  RegistryStays'
  BY <1>3, WriterServes
<1>4. ASSUME NEW x \in Bridges, BridgeStep(x) PROVE RegistryStays'
  <2> USE DEF LifeTo, files
  <2>1. CASE FinishStart(x)
    <3>1. ~stopped[x] /\ handle[x] /\ teardown[x] = None
      BY <2>1 DEF FinishStart, WriteRegistry, Account, Serving
    <3> QED
      BY <2>1, <3>1 DEF FinishStart, WriteRegistry, MayPublish
  <2>2. CASE StartFails(x) \/ Kill(x)
    <3>1. \A b \in Bridges : handle'[b] => b # x /\ handle[b] /\ life'[b] = life[b]
      BY <2>2, Ends
    <3>2. registryFile' = registryFile /\ \A b \in Bridges \ {x} : handle[b] => teardown'[b] = teardown[b]
      BY <2>2, Ends DEF EndThreads
    <3> QED
      BY <3>1, <3>2
  <2>3. CASE Probe(x) \/ Serve(x) \/ ReapIdle(x)
    BY <2>3 DEF Probe, Serve, ReapIdle, bridgeVars
  <2>4. CASE Bind(x)
    BY <2>4 DEF Bind
  <2> QED
    BY <1>4, <2>1, <2>2, <2>3, <2>4 DEF BridgeStep
<1>5. ASSUME NEW r \in Requests, RequestStep(r) PROVE RegistryStays'
  <2>1. UNCHANGED <<life, handle, teardown>>
    BY <1>5 DEF RequestStep, Accept, EnterRequest, Dispatch, LeaveRequest, WorkerStarts,
       WorkerEnds, RequestFrame, bridgeVars
  <2>2. registryFile' = registryFile
        \/ /\ WriteRegistry(reqBridge[r])
           /\ reqAt[r] = "working" \/ job[r] = "running"
    BY <1>5 DEF RequestStep, Accept, EnterRequest, Dispatch, LeaveRequest, WorkerStarts,
       WorkerEnds, files
  <2>3. reqAt[r] = "working" \/ job[r] = "running" =>
            reqBridge[r] \in Bridges /\ life[reqBridge[r]] \in {"serving", "up"}
    BY DEF Account, Asking, Paths
  <2> QED
    BY <2>1, <2>2, <2>3, <1>3
<1>6. ASSUME NEW s \in Stoppers, StopStep(s) PROVE RegistryStays'
  <2>1. CASE ReleaseRegistry(s)
    <3>1. stopBridge[s] \in Bridges /\ s # None
      BY <2>1 DEF ReleaseRegistry, Account, Stopping
    <3> QED
      BY <2>1, <3>1, Releases DEF StopFrame
  <2>2. CASE ReleaseSocket(s)
    <3>1. stopBridge[s] \in Bridges
      BY <2>2 DEF ReleaseSocket, Account, Stopping
    <3> QED
      BY <2>2, <3>1 DEF ReleaseSocket, StopFrame
  <2> QED
    BY <1>6, <2>1, <2>2 DEF StopStep, Stop, LatchStopped, StopAccepting, Drain, CloseServer,
       StopFrame, bridgeVars, files
<1> QED
  BY <1>4, <1>5, <1>6, Steps

\* Headless bridges keep off each other's paths.
THEOREM PathsInvariant ==
    ASSUME Headless
    PROVE  Spec => [](Account /\ Paths)
<1>1. Init => Account /\ Paths
  BY AccountInit DEF Init, Paths, Starting, ServingBridgeReachable, RegistryStays
<1>2. Account /\ Paths /\ [Next]_vars => (Account /\ Paths)'
  <2> SUFFICES ASSUME Account, Paths, [Next]_vars PROVE Account' /\ Paths'
    OBVIOUS
  <2>1. Account'
    BY AccountStep
  <2>2. CASE Next
    BY <2>1, <2>2, StartsStep, ReachableStep, RegistryStep, ThreadsStep DEF Paths
  <2>3. CASE UNCHANGED vars
    BY <2>1, <2>3 DEF vars, files, bridgeVars, requestVars, Paths, Starting, ServingBridgeReachable,
       RegistryStays
  <2> QED
    BY <2>1, <2>2, <2>3
<1> QED
  BY <1>1, <1>2, PTL DEF Spec

\* A headless bridge that holds its server has its socket file, whatever a predecessor's
\* late stop or a successor's start does (#585, #799).
THEOREM ServersAreReachable ==
    ASSUME Headless
    PROVE  Spec => []ServingBridgeReachable
BY PathsInvariant, PTL DEF Paths

\* And its record stays in the registry until its own stop takes it.
THEOREM RecordsStay ==
    ASSUME Headless
    PROVE  Spec => []RegistryStays
BY PathsInvariant, PTL DEF Paths

=============================================================================
