--------------------------- MODULE InstanceRegistry ---------------------------
(***************************************************************************)
(* How CLI processes find a bridge, start one and sweep away what a dead   *)
(* one left (src/bn/transport.py), for one instance id: one registry       *)
(* record and one socket path.  In mode "spawned" the clients start the    *)
(* bridge; in mode "gui" the user of Binary Ninja does, and may restart it *)
(* within the process.  Bridges may be killed at any moment.               *)
(*                                                                         *)
(* The last look at a file and its unlink are one step: the code puts      *)
(* nothing between them.  All other steps of clients interleave.           *)
(***************************************************************************)
EXTENDS Naturals, FiniteSets

CONSTANTS Clients,
          MaxBridges    \* bound on the bridges that are ever started

None == 0
Bridges == 1..MaxBridges

VARIABLES
    mode,       \* "spawned" or "gui"
    phase,      \* the life of each bridge
    home,       \* the process it runs in
    sock,       \* the bridge that created the socket file at the path, or None
    reg,        \* the bridge whose record is in the registry, or None
    lock,       \* the client that holds the spawn lock, or None
    at,         \* where each client stands
    why,        \* what its discovery is for: "first", "locked" or "poll"
    judged,     \* the record that it read, until it is done with it
    child,      \* the bridge that it spawned
    known       \* the instance that it resolved

registryVars == <<mode, phase, home, sock, reg, lock, at, why, judged, child, known>>
discoveryVars == <<lock, at, why, judged, child, known>>

Phases == {"none", "starting", "bound", "listening", "serving", "retired", "dead"}

ASSUME RegistryAssumption == /\ MaxBridges \in Nat
                             /\ None \notin Clients

Started == {b \in Bridges : phase[b] # "none"}

NextBridge == Cardinality(Started) + 1

\* _process_running, with the identity that tells a recycled pid.
Alive(p) == \E b \in Bridges : home[b] = p /\ phase[b] \notin {"none", "dead"}

OwnerAlive(b) == Alive(home[b])

Accepting(s) == s # None /\ phase[s] \in {"listening", "serving"}
NothingBound(s) == s = None \/ phase[s] \notin {"bound", "listening", "serving"}

\* A bridge that was killed before may have left its record, and its socket file.
RegistryInit ==
    /\ mode \in {"spawned", "gui"}
    /\ \E crashed \in {b \in Bridges : b = 1} \union {None} :
          /\ phase = [b \in Bridges |-> IF b = crashed THEN "dead" ELSE "none"]
          /\ home = [b \in Bridges |-> IF b = crashed THEN b ELSE None]
          /\ sock \in {None, crashed}
          /\ reg = crashed
    /\ lock = None
    /\ at = [c \in Clients |-> "read"]
    /\ why = [c \in Clients |-> "first"]
    /\ judged = [c \in Clients |-> None]
    /\ child = [c \in Clients |-> None]
    /\ known = [c \in Clients |-> None]

Goto(c, place) == at' = [at EXCEPT ![c] = place]

-----------------------------------------------------------------------------
(***************************************************************************)
(* The bridges, as far as their files show; BridgeLifecycle has the rest.  *)
(***************************************************************************)

SetPhase(b, p) == phase' = [phase EXCEPT ![b] = p]

\* The user starts a bridge in a new Binary Ninja process.
StartGui ==
    /\ mode = "gui"
    /\ NextBridge \in Bridges
    /\ \A b \in Bridges : phase[b] \in {"none", "dead"}
    /\ SetPhase(NextBridge, "starting")
    /\ home' = [home EXCEPT ![NextBridge] = NextBridge]
    /\ UNCHANGED <<mode, sock, reg, discoveryVars>>

\* A starting bridge displaces a stale socket file and refuses a live one.
Bind(b) ==
    /\ phase[b] = "starting"
    /\ IF NothingBound(sock) THEN SetPhase(b, "bound") /\ sock' = b
                             ELSE SetPhase(b, "dead") /\ UNCHANGED sock
    /\ UNCHANGED <<mode, home, reg, discoveryVars>>

Listen(b) ==
    /\ phase[b] = "bound"
    /\ SetPhase(b, "listening")
    /\ UNCHANGED <<mode, home, sock, reg, discoveryVars>>

Publish(b) ==
    /\ phase[b] = "listening"
    /\ SetPhase(b, "serving")
    /\ reg' = b
    /\ UNCHANGED <<mode, home, sock, discoveryVars>>

\* stop releases only what is still its own.
Release(b) == /\ sock' = IF sock = b THEN None ELSE sock
              /\ reg' = IF reg = b THEN None ELSE reg

StopBridge(b) ==
    /\ phase[b] = "serving"
    /\ Release(b)
    /\ SetPhase(b, "dead")
    /\ UNCHANGED <<mode, home, discoveryVars>>

\* "Restart Bridge": the successor starts in the same process; the requests of the
\* retired bridge live on.
RestartBridge(b) ==
    /\ mode = "gui"
    /\ phase[b] = "serving"
    /\ NextBridge \in Bridges
    /\ Release(b)
    /\ phase' = [phase EXCEPT ![b] = "retired", ![NextBridge] = "starting"]
    /\ home' = [home EXCEPT ![NextBridge] = home[b]]
    /\ UNCHANGED <<mode, discoveryVars>>

DiesWith(p) == [b \in Bridges |-> IF home[b] = p /\ phase[b] # "none" THEN "dead" ELSE phase[b]]

KillProcess(b) ==
    /\ phase[b] \notin {"none", "dead"}
    /\ phase' = DiesWith(home[b])
    /\ UNCHANGED <<mode, home, sock, reg, discoveryVars>>

-----------------------------------------------------------------------------
(***************************************************************************)
(* Discovery: _load_instance.                                              *)
(***************************************************************************)

\* The answer: the instance that was resolved, or None.
Resolve(c, b) ==
    /\ known' = [known EXCEPT ![c] = b]
    /\ judged' = [judged EXCEPT ![c] = None]
    /\ Goto(c, IF b # None
               THEN CASE why[c] = "first" -> "send"
                      [] why[c] = "locked" -> "refuse"
                      [] why[c] = "poll" -> IF b = child[c] THEN "return" ELSE "reap"
               ELSE CASE why[c] = "first" -> "lock"
                      [] why[c] = "locked" -> "popen"
                      [] why[c] = "poll" -> "wait")

ReadRecord(c) ==
    /\ at[c] = "read"
    /\ IF reg = None
       THEN Resolve(c, None)
       ELSE /\ judged' = [judged EXCEPT ![c] = reg]
            /\ Goto(c, "judge")
            /\ UNCHANGED known
    /\ UNCHANGED <<mode, phase, home, sock, reg, lock, why, child>>

\* A record is litter only if its owner is gone.  One whose owner lives is kept: it
\* resolves even if nobody accepts at its socket just now, and, for a lifecycle
\* lookup, even if the socket file is gone.
Judge(c) ==
    /\ at[c] = "judge"
    /\ LET b == judged[c]
           litter == ~OwnerAlive(b)
       IN  CASE sock = None /\ litter -> Goto(c, "unlinkRecordOnly") /\ UNCHANGED <<known, judged>>
             [] sock = None /\ ~litter -> Resolve(c, IF why[c] = "first" THEN None ELSE b)
             [] Accepting(sock) -> Resolve(c, b)
             [] OTHER -> IF litter THEN Goto(c, "unlinkRecord")
                                            /\ UNCHANGED <<known, judged>>
                                   ELSE Resolve(c, b)
    /\ UNCHANGED <<mode, phase, home, sock, reg, lock, why, child>>

UnlinkBlindly(c) == reg' = None

\* _unlink_if_unchanged: the record is destroyed only if it is still the document
\* that was judged.
UnlinkIfUnchanged(c) == reg' = IF reg = judged[c] THEN None ELSE reg

UnlinkRecord(c) ==
    /\ at[c] \in {"unlinkRecord", "unlinkRecordOnly"}
    /\ UnlinkIfUnchanged(c)
    /\ IF at[c] = "unlinkRecord" THEN Goto(c, "unlinkSocket")
                                      /\ UNCHANGED <<known, judged>>
                                 ELSE Resolve(c, None)
    /\ UNCHANGED <<mode, phase, home, sock, lock, why, child>>

\* The socket needs the stronger evidence that nothing at all is bound to it.
SocketIsLitter == NothingBound(sock)

UnlinkSocket(c) ==
    /\ at[c] = "unlinkSocket"
    /\ sock' = IF SocketIsLitter THEN None ELSE sock
    /\ Resolve(c, None)
    /\ UNCHANGED <<mode, phase, home, reg, lock, why, child>>

-----------------------------------------------------------------------------
(***************************************************************************)
(* Starting a bridge: spawn_instance under the spawn lock.                 *)
(***************************************************************************)

SetWhy(c, w) == why' = [why EXCEPT ![c] = w]

\* A GUI bridge is not the client's to start; the lock has a timeout.
LockOrGiveUp(c) ==
    /\ at[c] = "lock"
    /\ \/ /\ mode = "spawned" /\ lock = None
          /\ lock' = c
          /\ SetWhy(c, "locked")
          /\ Goto(c, "read")
       \/ /\ mode = "gui" \/ lock # None
          /\ Goto(c, "refuse")
          /\ UNCHANGED <<lock, why>>
    /\ UNCHANGED <<mode, phase, home, sock, reg, judged, child, known>>

Popen(c) ==
    /\ at[c] = "popen"
    /\ IF NextBridge \in Bridges
       THEN /\ SetPhase(NextBridge, "starting")
            /\ home' = [home EXCEPT ![NextBridge] = NextBridge]
            /\ child' = [child EXCEPT ![c] = NextBridge]
            /\ Goto(c, "wait")
       ELSE Goto(c, "refuse") /\ UNCHANGED <<phase, home, child>>
    /\ UNCHANGED <<mode, sock, reg, lock, why, judged, known>>

\* The poll loop: look for the record, see the child gone, or run out of time.
PollRecord(c) ==
    /\ at[c] = "wait"
    /\ reg # None
    /\ SetWhy(c, "poll")
    /\ Goto(c, "read")
    /\ UNCHANGED <<mode, phase, home, sock, reg, lock, judged, child, known>>

GiveUpWaiting(c) ==
    /\ at[c] = "wait"
    /\ Goto(c, "reap")
    /\ UNCHANGED <<mode, phase, home, sock, reg, lock, why, judged, child, known>>

FreeLock(c) == lock' = IF lock = c THEN None ELSE lock

\* Every exit without the child's instance kills the child.
Reap(c) ==
    /\ at[c] = "reap"
    /\ phase' = DiesWith(child[c])
    /\ FreeLock(c)
    /\ Goto(c, "done")
    /\ UNCHANGED <<mode, home, sock, reg, why, judged, child, known>>

ReturnChild(c) ==
    /\ at[c] = "return"
    /\ FreeLock(c)
    /\ Goto(c, "send")
    /\ UNCHANGED <<mode, phase, home, sock, reg, why, judged, child, known>>

GiveUp(c) ==
    /\ at[c] = "refuse"
    /\ FreeLock(c)
    /\ Goto(c, "done")
    /\ UNCHANGED <<mode, phase, home, sock, reg, why, judged, child, known>>

Discover(c) == \/ ReadRecord(c) \/ Judge(c) \/ UnlinkRecord(c) \/ UnlinkSocket(c)
               \/ LockOrGiveUp(c) \/ Popen(c) \/ PollRecord(c) \/ GiveUpWaiting(c)
               \/ Reap(c) \/ ReturnChild(c) \/ GiveUp(c)

\* What a bridge does that no request sees.
BridgeStep(b) == \/ Bind(b) \/ Listen(b) \/ Publish(b)

-----------------------------------------------------------------------------
RegistryTypeOK ==
    /\ mode \in {"spawned", "gui"}
    /\ phase \in [Bridges -> Phases]
    /\ home \in [Bridges -> Bridges \union {None}]
    /\ sock \in Bridges \union {None} /\ reg \in Bridges \union {None}
    /\ lock \in Clients \union {None}
    /\ why \in [Clients -> {"first", "locked", "poll"}]
    /\ \A f \in {judged, child, known} : f \in [Clients -> Bridges \union {None}]

\* Neither a sweep nor a spawn takes the files of a bridge that serves or comes up:
\* the record that a client judged may have been replaced since (#618).
LiveBridgeKeepsFiles ==
    \A b \in Bridges : /\ phase[b] \in {"bound", "listening", "serving"} => sock = b
                       /\ phase[b] = "serving" => reg = b

\* A bridge that a client started is handed to that client or killed (#916).
NoOrphan ==
    \A c \in Clients :
       at[c] = "done" /\ child[c] # None =>
           known[c] = child[c] \/ phase[child[c]] = "dead"

\* No running bridge is out of everybody's reach.
BridgesInReach == LiveBridgeKeepsFiles /\ NoOrphan
===============================================================================
