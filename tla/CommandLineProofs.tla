--------------------------- MODULE CommandLineProofs ---------------------------
(***************************************************************************)
(* The requests of CommandLine: RunAtMostOnce, VerdictIsTrue and           *)
(* BridgesInReach, for any number of clients, of bridges that are started  *)
(* and of connection attempts.                                             *)
(*                                                                         *)
(* The bridges are numbered in the order of their start, so a new one is   *)
(* never one that a client still has in mind; a dead bridge stays dead, so *)
(* what a client judged to be litter still is when it unlinks it.  All the *)
(* rest is said of one client at a time (Finding, Asking) and can only be  *)
(* disturbed by that client, its handler, or the end of a bridge.          *)
(*                                                                         *)
(* The session commands and the pins: ItsBridgeEnds, NothingLostUnasked,   *)
(* for any number of commands, of targets, of process ids and of bridges   *)
(* that are started, and PinsSurvive for any set of processes and pins.    *)
(*                                                                         *)
(* A bridge that has ended never lives again, and one that lives holds its *)
(* process id.  So a command that sees its bridge at that id after it has  *)
(* pinned what was there has pinned the bridge.  Whatever a bridge comes   *)
(* to hold after a command asked it is late for that command, so what is   *)
(* not late is what the command was told.                                  *)
(*                                                                         *)
(* The lock file gives at most one process the steps between reading and   *)
(* writing the pins, so what it read is still what the file holds when it  *)
(* writes.                                                                 *)
(***************************************************************************)
EXTENDS CommandLine, FiniteSetTheorems, TLAPS

Places == {"read", "judge", "unlinkRecord", "unlinkRecordOnly", "unlinkSocket",
           "lock", "popen", "wait", "reap", "return", "refuse",
           "send", "transmit", "receive", "cancel", "done"}

Typed ==
    /\ mode \in {"spawned", "gui"}
    /\ phase \in [Bridges -> Phases]
    /\ home \in [Bridges -> Bridges \union {None}]
    /\ sock \in Bridges \union {None}
    /\ reg \in Bridges \union {None}
    /\ lock \in Clients \union {None}
    /\ at \in [Clients -> Places]
    /\ why \in [Clients -> {"first", "locked", "poll"}]
    /\ judged \in [Clients -> Bridges \union {None}]
    /\ child \in [Clients -> Bridges \union {None}]
    /\ known \in [Clients -> Bridges \union {None}]
    /\ attempt \in [Clients -> Nat]
    /\ link \in [Clients -> Bridges \union {None}]
    /\ sent \in [Clients -> {"nothing", "part", "whole"}]
    /\ srv \in [Clients -> {"none", "backlog", "accepted", "active", "writing",
                            "answered", "closed"}]
    /\ effect \in [Clients -> {"none", "running", "done", "undone"}]
    /\ runs \in [Clients -> [Bridges -> Nat]]
    /\ active \in [Bridges -> SUBSET Clients]
    /\ cancelled \in [Bridges -> SUBSET Clients]
    /\ cancelAt \in [Clients -> Bridges \union {None}]
    /\ reply \in [Clients -> Verdicts]
    /\ verdict \in [Clients -> Verdicts]

\* A bridge that was started has a number below the next one's.
Numbered == \A b \in Bridges : phase[b] # "none" => b < NextBridge

\* The files of a bridge that lives are its own, and a record is of a bridge that
\* was started.
Files == LiveBridgeKeepsFiles /\ (reg # None => phase[reg] # "none")

\* What a client that looks for a bridge has in hand at each place.
Finding(c) ==
    /\ judged[c] # None => phase[judged[c]] # "none"
    /\ at[c] = "judge" => judged[c] # None
    /\ at[c] \in {"unlinkRecord", "unlinkRecordOnly"} =>
           judged[c] # None /\ phase[judged[c]] = "dead"
    /\ child[c] # None => home[child[c]] = child[c] /\ phase[child[c]] # "none"
    /\ at[c] = "popen" => why[c] = "locked"
    /\ why[c] = "first" \/ at[c] \in {"lock", "popen", "refuse"} => child[c] = None
    /\ why[c] = "locked" /\ at[c] \notin {"wait", "reap", "done"} => child[c] = None
    /\ at[c] \in {"return", "send", "transmit", "receive", "cancel"} =>
           child[c] = None \/ known[c] = child[c]
    /\ at[c] = "done" /\ child[c] # None =>
           known[c] = child[c] \/ phase[child[c]] = "dead"

CancelledByUser(c) == at[c] = "done" /\ verdict[c] = "timeoutCancelSent"

\* How far a request has come, at the client and at its handler.
Asking(c) ==
    /\ at[c] \notin {"transmit", "receive", "cancel", "done"} => srv[c] = "none"
    /\ at[c] # "done" => verdict[c] = "none" /\ attempt[c] < ConnectRetries
    /\ attempt[c] <= ConnectRetries
    /\ srv[c] # "none" => link[c] # None
    /\ srv[c] \in {"none", "backlog", "accepted"} =>
           effect[c] = "none" /\ \A b \in Bridges : runs[c][b] = 0
    /\ srv[c] = "active" => effect[c] = "running"
    /\ srv[c] \in {"writing", "answered"} =>
           \/ reply[c] = "ok" /\ effect[c] = "done"
           \/ reply[c] = "cancelled" /\ effect[c] = "undone"
           \/ reply[c] \in {"mismatch", "refused"} /\ effect[c] = "none"
    /\ verdict[c] \in {"unreachable", "unverified", "notSent"} => srv[c] = "none"
    /\ verdict[c] \in {"ok", "cancelled", "mismatch", "refused"} =>
           srv[c] = "answered" /\ verdict[c] = reply[c]
    /\ effect[c] = "undone" \/ cancelAt[c] # None => CancelledByUser(c)
    /\ \A b \in Bridges : c \in cancelled[b] => CancelledByUser(c)
    /\ \A b \in Bridges : runs[c][b] <= (IF b = known[c] THEN 1 ELSE 0)

CancelledAreActive == \A b \in Bridges : cancelled[b] \subseteq active[b]

RequestInv ==
    /\ Typed /\ Numbered /\ Files /\ CancelledAreActive
    /\ \A c \in Clients : Finding(c) /\ Asking(c)

-----------------------------------------------------------------------------
(* Bridges are numbered as they start, and a dead one stays dead.            *)

LEMMA StartedCounted ==
    IsFiniteSet(Started) /\ Cardinality(Started) \in Nat
<1>1. Started \subseteq 1..MaxBridges
  BY DEF Started, Bridges
<1>2. IsFiniteSet(1..MaxBridges)
  BY RegistryAssumption, FS_Interval
<1> QED
  BY <1>1, <1>2, FS_Subset, FS_CardinalityType

LEMMA NextIsNew ==
    ASSUME Numbered, NextBridge \in Bridges
    PROVE  phase[NextBridge] = "none" /\ NextBridge # None
BY StartedCounted DEF Numbered, NextBridge, Bridges, None

\* Whatever starts is the next bridge, so the numbers stay below the next one.
LEMMA NumberedStep ==
    ASSUME Typed, Numbered,
           \A b \in Bridges : phase[b] # "none" => phase'[b] # "none",
           \A b \in Bridges : phase[b] = "none" /\ phase'[b] # "none" => b = NextBridge
    PROVE  Numbered'
<1>1. CASE \A b \in Bridges : phase'[b] # "none" => phase[b] # "none"
  <2>1. Started' = Started
    BY <1>1 DEF Started
  <2> QED
    BY <1>1, <2>1 DEF Numbered, NextBridge
<1>2. CASE \E b \in Bridges : phase[b] = "none" /\ phase'[b] # "none"
  <2>1. Started' = Started \union {NextBridge} /\ NextBridge \notin Started
    BY <1>2 DEF Started
  <2>2. Cardinality(Started)' = Cardinality(Started) + 1
    BY <2>1, StartedCounted, FS_AddElement
  <2> QED
    BY <2>2, StartedCounted DEF Numbered, NextBridge, Bridges
<1> QED
  BY <1>1, <1>2

\* What no step undoes.
Irrevocable ==
    \A b \in Bridges :
       /\ phase[b] = "dead" => phase'[b] = "dead"
       /\ phase[b] # "none" => phase'[b] # "none" /\ home'[b] = home[b]

\* The steps of RegistryStep, and all others, as far as bridges are concerned.
LEMMA BridgesStep ==
    ASSUME Typed, Numbered, [RequestNext]_clientVars
    PROVE  Irrevocable /\ Numbered'
<1>1. ASSUME UNCHANGED <<phase, home>> PROVE Irrevocable /\ Numbered'
  BY <1>1 DEF Irrevocable, Numbered, NextBridge, Started
<1>2. ASSUME NEW b \in Bridges, NEW p \in Phases \ {"none"}, UNCHANGED home,
             phase[b] \notin {"none", "dead"}, phase' = [phase EXCEPT ![b] = p]
      PROVE  Irrevocable /\ Numbered'
  <2>1. Irrevocable /\ \A x \in Bridges : phase[x] = "none" => phase'[x] = "none"
    BY <1>2 DEF Typed, Irrevocable
  <2> QED
    BY <2>1, NumberedStep DEF Irrevocable
<1>3. ASSUME NextBridge \in Bridges, phase' = [phase EXCEPT ![NextBridge] = "starting"],
             NEW p, home' = [home EXCEPT ![NextBridge] = p]
      PROVE  Irrevocable /\ Numbered'
  <2>1. Irrevocable /\ \A x \in Bridges : phase[x] = "none" /\ phase'[x] # "none" => x = NextBridge
    BY <1>3, NextIsNew DEF Typed, Irrevocable
  <2> QED
    BY <2>1, NumberedStep DEF Irrevocable
<1>4. ASSUME NEW p, phase' = DiesWith(p), UNCHANGED home PROVE Irrevocable /\ Numbered'
  <2>1. Irrevocable /\ \A x \in Bridges : phase[x] = "none" => phase'[x] = "none"
    BY <1>4 DEF Typed, Irrevocable, DiesWith
  <2> QED
    BY <2>1, NumberedStep DEF Irrevocable
<1>5. CASE UNCHANGED clientVars
  BY <1>5, <1>1 DEF clientVars, registryVars
<1>6. CASE RegistryStep
  <2>1. CASE StartGui
    BY <2>1, <1>3 DEF StartGui, SetPhase
  <2>2. ASSUME NEW b \in Bridges, BridgeStep(b) \/ StopBridge(b) PROVE Irrevocable /\ Numbered'
    <3>1. \E p \in Phases \ {"none"} : phase' = [phase EXCEPT ![b] = p]
      BY <2>2 DEF BridgeStep, Bind, Listen, Publish, StopBridge, SetPhase, Phases
    <3>2. UNCHANGED home /\ phase[b] \notin {"none", "dead"}
      BY <2>2 DEF BridgeStep, Bind, Listen, Publish, StopBridge
    <3> QED
      BY <3>1, <3>2, <1>2
  <2>3. ASSUME NEW b \in Bridges, RestartBridge(b) PROVE Irrevocable /\ Numbered'
    <3>1. /\ phase[b] = "serving" /\ NextBridge \in Bridges /\ NextBridge # b
          /\ phase' = [phase EXCEPT ![b] = "retired", ![NextBridge] = "starting"]
          /\ home' = [home EXCEPT ![NextBridge] = home[b]]
      BY <2>3, NextIsNew DEF RestartBridge
    <3>2. Irrevocable /\ \A x \in Bridges : phase[x] = "none" /\ phase'[x] # "none" => x = NextBridge
      BY <3>1, NextIsNew DEF Typed, Irrevocable
    <3> QED
      BY <3>2, NumberedStep DEF Irrevocable
  <2>4. ASSUME NEW b \in Bridges, KillProcess(b) PROVE Irrevocable /\ Numbered'
    BY <2>4, <1>4 DEF KillProcess
  <2>5. ASSUME NEW c \in Clients, Discover(c) PROVE Irrevocable /\ Numbered'
    <3>1. CASE Popen(c)
      BY <3>1, <1>1, <1>3 DEF Popen, SetPhase
    <3>2. CASE Reap(c)
      BY <3>2, <1>4 DEF Reap
    <3>3. CASE ~Popen(c) /\ ~Reap(c)
      BY <2>5, <3>3, <1>1 DEF Discover, ReadRecord, Judge, UnlinkRecord, UnlinkSocket, LockOrGiveUp,
         PollRecord, GiveUpWaiting, ReturnChild, GiveUp
    <3> QED
      BY <3>1, <3>2, <3>3
  <2> QED
    BY <1>6, <2>1, <2>2, <2>3, <2>4, <2>5 DEF RegistryStep
<1>7. ASSUME NEW c \in Clients, ClientStep(c) \/ Handle(c) PROVE Irrevocable /\ Numbered'
  BY <1>7, <1>1 DEF ClientStep, ConnectFails, Connect, ExpireUnsent, Transmit, TransmitTimesOut,
     TransmitFails, Receive, ReceiveNothing, ReceiveTimesOut, SendCancel, CancelFails, ClientOnly,
     Handle, Accept, ReadRequest, RefuseRequest, DispatchRequest, Complete, ObeyCancel,
     WriteReply, HandleCancel, HandlerOnly, registryVars
<1> QED
  BY <1>5, <1>6, <1>7 DEF RequestNext

-----------------------------------------------------------------------------
(* Where a discovery leads.                                                  *)

LEMMA ResolveLeadsTo ==
    ASSUME Typed, NEW c \in Clients, NEW b \in Bridges \union {None}, Resolve(c, b)
    PROVE  \E p \in Places :
              /\ at' = [at EXCEPT ![c] = p]
              /\ \/ b # None /\ why[c] = "first" /\ p = "send"
                 \/ b # None /\ why[c] = "locked" /\ p = "refuse"
                 \/ b # None /\ why[c] = "poll" /\ b = child[c] /\ p = "return"
                 \/ b # None /\ why[c] = "poll" /\ b # child[c] /\ p = "reap"
                 \/ b = None /\ why[c] = "first" /\ p = "lock"
                 \/ b = None /\ why[c] = "locked" /\ p = "popen"
                 \/ b = None /\ why[c] = "poll" /\ p = "wait"
<1>1. why[c] \in {"first", "locked", "poll"}
  BY DEF Typed
<1>2. CASE b # None /\ why[c] = "first"
  BY <1>2 DEF Resolve, Goto, Places
<1>3. CASE b # None /\ why[c] = "locked"
  BY <1>3 DEF Resolve, Goto, Places
<1>4. CASE b # None /\ why[c] = "poll"
  BY <1>4 DEF Resolve, Goto, Places
<1>5. CASE b = None /\ why[c] = "first"
  BY <1>5 DEF Resolve, Goto, Places
<1>6. CASE b = None /\ why[c] = "locked"
  BY <1>6 DEF Resolve, Goto, Places
<1>7. CASE b = None /\ why[c] = "poll"
  BY <1>7 DEF Resolve, Goto, Places
<1> QED
  BY <1>1, <1>2, <1>3, <1>4, <1>5, <1>6, <1>7

\* Only a record whose owner is gone is judged to be litter.
LEMMA JudgeDecides ==
    ASSUME NEW c \in Clients, Judge(c)
    PROVE  \/ /\ ~OwnerAlive(judged[c])
              /\ Goto(c, "unlinkRecordOnly") \/ Goto(c, "unlinkRecord")
              /\ UNCHANGED <<known, judged>>
           \/ Resolve(c, None)
           \/ Resolve(c, judged[c])
<1>1. CASE sock = None
  BY <1>1 DEF Judge
<1>2. CASE sock # None
  BY <1>2 DEF Judge
<1> QED
  BY <1>1, <1>2

\* A discovery changes what its own client has in hand, and nobody else's.
LEMMA DiscoverOwn ==
    ASSUME Typed, Numbered, NEW c \in Clients, Discover(c)
    PROVE  /\ at' \in [Clients -> Places]
           /\ why' \in [Clients -> {"first", "locked", "poll"}]
           /\ judged' \in [Clients -> Bridges \union {None}]
           /\ child' \in [Clients -> Bridges \union {None}]
           /\ known' \in [Clients -> Bridges \union {None}]
           /\ \A d \in Clients \ {c} :
                 /\ at'[d] = at[d] /\ why'[d] = why[d] /\ judged'[d] = judged[d]
                 /\ child'[d] = child[d] /\ known'[d] = known[d]
<1> DEFINE Own == /\ at' \in [Clients -> Places]
                  /\ why' \in [Clients -> {"first", "locked", "poll"}]
                  /\ judged' \in [Clients -> Bridges \union {None}]
                  /\ child' \in [Clients -> Bridges \union {None}]
                  /\ known' \in [Clients -> Bridges \union {None}]
                  /\ \A d \in Clients \ {c} :
                        /\ at'[d] = at[d] /\ why'[d] = why[d] /\ judged'[d] = judged[d]
                        /\ child'[d] = child[d] /\ known'[d] = known[d]
<1>1. ASSUME NEW b \in Bridges \union {None}, Resolve(c, b), UNCHANGED <<why, child>>
      PROVE  Own
  <2>1. PICK p \in Places : at' = [at EXCEPT ![c] = p]
    BY <1>1, ResolveLeadsTo
  <2>2. known' = [known EXCEPT ![c] = b] /\ judged' = [judged EXCEPT ![c] = None]
    BY <1>1 DEF Resolve
  <2> QED
    BY <1>1, <2>1, <2>2 DEF Typed
<1>2. CASE ReadRecord(c)
  <2>1. UNCHANGED <<why, child>>
    BY <1>2 DEF ReadRecord
  <2>2. CASE Resolve(c, None)
    BY <1>1, <2>1, <2>2
  <2>3. CASE ~Resolve(c, None)
    <3>1. /\ judged' = [judged EXCEPT ![c] = reg] /\ at' = [at EXCEPT ![c] = "judge"]
          /\ UNCHANGED known
      BY <1>2, <2>3 DEF ReadRecord, Goto
    <3> QED
      BY <2>1, <3>1 DEF Typed, Places
  <2> QED
    BY <2>2, <2>3
<1>3. CASE Judge(c)
  <2>1. UNCHANGED <<why, child>> /\ judged[c] \in Bridges \union {None}
    BY <1>3 DEF Judge, Typed
  <2>2. CASE Resolve(c, None) \/ Resolve(c, judged[c])
    BY <1>1, <2>1, <2>2
  <2>3. CASE ~Resolve(c, None) /\ ~Resolve(c, judged[c])
    <3>1. /\ \/ at' = [at EXCEPT ![c] = "unlinkRecordOnly"]
             \/ at' = [at EXCEPT ![c] = "unlinkRecord"]
          /\ UNCHANGED <<known, judged>>
      BY <1>3, <2>3, JudgeDecides DEF Goto
    <3> QED
      BY <2>1, <3>1 DEF Typed, Places
  <2> QED
    BY <2>2, <2>3
<1>4. CASE UnlinkRecord(c)
  <2>1. UNCHANGED <<why, child>>
    BY <1>4 DEF UnlinkRecord
  <2>2. CASE Resolve(c, None)
    BY <1>1, <2>1, <2>2
  <2>3. CASE ~Resolve(c, None)
    <3>1. at' = [at EXCEPT ![c] = "unlinkSocket"] /\ UNCHANGED <<known, judged>>
      BY <1>4, <2>3 DEF UnlinkRecord, Goto
    <3> QED
      BY <2>1, <3>1 DEF Typed, Places
  <2> QED
    BY <2>2, <2>3
<1>5. CASE UnlinkSocket(c)
  BY <1>1, <1>5 DEF UnlinkSocket
<1>6. CASE LockOrGiveUp(c)
  <2>1. PICK p \in {"read", "refuse"} : at' = [at EXCEPT ![c] = p]
    BY <1>6 DEF LockOrGiveUp, Goto
  <2>2. PICK w \in {"first", "locked", "poll"} : why' = [why EXCEPT ![c] = w]
    <3>1. why = [why EXCEPT ![c] = why[c]] /\ why[c] \in {"first", "locked", "poll"}
      BY DEF Typed
    <3>2. UNCHANGED why \/ why' = [why EXCEPT ![c] = "locked"]
      BY <1>6 DEF LockOrGiveUp, SetWhy
    <3> QED
      BY <3>1, <3>2
  <2>3. UNCHANGED <<judged, child, known>> /\ p \in Places
    BY <1>6, <2>1 DEF LockOrGiveUp, Places
  <2> QED
    BY <2>1, <2>2, <2>3 DEF Typed
<1>7. CASE Popen(c)
  <2>1. PICK p \in {"wait", "refuse"} : at' = [at EXCEPT ![c] = p]
    BY <1>7 DEF Popen, Goto
  <2>2. PICK h \in Bridges \union {None} : child' = [child EXCEPT ![c] = h]
    <3>1. child = [child EXCEPT ![c] = child[c]] /\ child[c] \in Bridges \union {None}
      BY DEF Typed
    <3>2. UNCHANGED child \/ (NextBridge \in Bridges /\ child' = [child EXCEPT ![c] = NextBridge])
      BY <1>7 DEF Popen
    <3> QED
      BY <3>1, <3>2
  <2>3. UNCHANGED <<judged, why, known>> /\ p \in Places
    BY <1>7, <2>1 DEF Popen, Places
  <2> QED
    BY <2>1, <2>2, <2>3 DEF Typed
<1>8. CASE PollRecord(c)
  BY <1>8 DEF PollRecord, Goto, SetWhy, Typed, Places
<1>9. CASE GiveUpWaiting(c) \/ Reap(c) \/ ReturnChild(c) \/ GiveUp(c)
  BY <1>9 DEF GiveUpWaiting, Reap, ReturnChild, GiveUp, Goto, Typed, Places
<1> QED
  BY <1>2, <1>3, <1>4, <1>5, <1>6, <1>7, <1>8, <1>9 DEF Discover

-----------------------------------------------------------------------------
(* Types.                                                                    *)

LEMMA RegistryTypeStep ==
    ASSUME Typed, Numbered, RegistryStep
    PROVE  Typed'
<1>1. UNCHANGED requestVars
  BY DEF RegistryStep
<1>2. /\ phase' \in [Bridges -> Phases] /\ home' \in [Bridges -> Bridges \union {None}]
      /\ sock' \in Bridges \union {None} /\ reg' \in Bridges \union {None}
      /\ lock' \in Clients \union {None} /\ UNCHANGED mode
  <2>1. ASSUME NEW c \in Clients, Discover(c)
        PROVE  /\ phase' \in [Bridges -> Phases] /\ home' \in [Bridges -> Bridges \union {None}]
               /\ sock' \in Bridges \union {None} /\ reg' \in Bridges \union {None}
               /\ lock' \in Clients \union {None} /\ UNCHANGED mode
    <3>1. CASE Popen(c)
      BY <3>1 DEF Typed, Popen, SetPhase, Phases
    <3>2. CASE Reap(c)
      BY <3>2 DEF Typed, Reap, DiesWith, Phases, FreeLock
    <3>3. CASE ~Popen(c) /\ ~Reap(c)
      <4>1. UNCHANGED <<mode, phase, home>>
        BY <2>1, <3>3 DEF Discover, ReadRecord, Judge, UnlinkRecord, UnlinkSocket, LockOrGiveUp,
           PollRecord, GiveUpWaiting, ReturnChild, GiveUp
      <4>2. /\ UNCHANGED sock \/ sock' = None
            /\ UNCHANGED reg \/ reg' = None
            /\ UNCHANGED lock \/ lock' = c \/ lock' = None
        BY <2>1, <3>3 DEF Discover, ReadRecord, Judge, UnlinkRecord, UnlinkIfUnchanged, UnlinkSocket,
           LockOrGiveUp, PollRecord, GiveUpWaiting, ReturnChild, GiveUp, FreeLock
      <4> QED
        BY <4>1, <4>2 DEF Typed
    <3> QED
      BY <3>1, <3>2, <3>3
  <2>2. CASE StartGui
    BY <2>2 DEF Typed, StartGui, SetPhase, Phases, discoveryVars
  <2>3. ASSUME NEW b \in Bridges, BridgeStep(b) \/ StopBridge(b) \/ RestartBridge(b) \/ KillProcess(b)
        PROVE  /\ phase' \in [Bridges -> Phases] /\ home' \in [Bridges -> Bridges \union {None}]
               /\ sock' \in Bridges \union {None} /\ reg' \in Bridges \union {None}
               /\ lock' \in Clients \union {None} /\ UNCHANGED mode
    <3>1. CASE BridgeStep(b)
      BY <3>1 DEF Typed, BridgeStep, Bind, Listen, Publish, SetPhase, Phases, discoveryVars
    <3>2. CASE StopBridge(b)
      BY <3>2 DEF Typed, StopBridge, SetPhase, Release, Phases, discoveryVars
    <3>3. CASE RestartBridge(b)
      BY <3>3 DEF Typed, RestartBridge, Release, Phases, discoveryVars
    <3>4. CASE KillProcess(b)
      BY <3>4 DEF Typed, KillProcess, DiesWith, Phases, discoveryVars
    <3> QED
      BY <2>3, <3>1, <3>2, <3>3, <3>4
  <2> QED
    BY <2>1, <2>2, <2>3 DEF RegistryStep
<1>3. /\ at' \in [Clients -> Places]
      /\ why' \in [Clients -> {"first", "locked", "poll"}]
      /\ judged' \in [Clients -> Bridges \union {None}]
      /\ child' \in [Clients -> Bridges \union {None}]
      /\ known' \in [Clients -> Bridges \union {None}]
  <2>1. CASE \E c \in Clients : Discover(c)
    BY <2>1, DiscoverOwn DEF Typed
  <2>2. CASE UNCHANGED <<at, why, judged, child, known>>
    BY <2>2 DEF Typed
  <2> QED
    BY <2>1, <2>2 DEF RegistryStep, StartGui, BridgeStep, Bind, Listen, Publish, StopBridge,
       RestartBridge, KillProcess, discoveryVars
<1> QED
  BY <1>1, <1>2, <1>3 DEF Typed, requestVars

LEMMA ClientTypeStep ==
    ASSUME Typed, NEW c \in Clients, ClientStep(c)
    PROVE  Typed'
<1>1. UNCHANGED <<mode, phase, home, sock, reg, lock, why, judged, child, known,
                  runs, effect, reply, active, cancelled>>
  BY DEF ClientStep, ConnectFails, Connect, ExpireUnsent, Transmit, TransmitTimesOut,
     TransmitFails, Receive, ReceiveNothing, ReceiveTimesOut, SendCancel, CancelFails, ClientOnly
<1>2. ASSUME NEW v \in Verdicts, Conclude(c, v)
      PROVE  at' \in [Clients -> Places] /\ verdict' \in [Clients -> Verdicts]
  BY <1>2 DEF Typed, Conclude, Goto, Set, Places
<1>3. /\ at' \in [Clients -> Places]
      /\ attempt' \in [Clients -> Nat]
      /\ link' \in [Clients -> Bridges \union {None}]
      /\ sent' \in [Clients -> {"nothing", "part", "whole"}]
      /\ srv' \in [Clients -> {"none", "backlog", "accepted", "active", "writing",
                               "answered", "closed"}]
      /\ cancelAt' \in [Clients -> Bridges \union {None}]
      /\ verdict' \in [Clients -> Verdicts]
  <2>1. CASE ConnectFails(c)
    <3>1. at' \in [Clients -> Places] /\ verdict' \in [Clients -> Verdicts]
      BY <2>1, <1>2 DEF ConnectFails, Typed, Verdicts
    <3>2. /\ attempt' = [attempt EXCEPT ![c] = attempt[c] + 1]
          /\ UNCHANGED <<link, sent, srv, cancelAt>>
      BY <2>1 DEF ConnectFails, Set
    <3> QED
      BY <3>1, <3>2 DEF Typed
  <2>2. CASE Connect(c)
    <3>1. CASE SamePeer(c, sock)
      <4>1. /\ link' = [link EXCEPT ![c] = sock]
            /\ srv' = [srv EXCEPT ![c] = "backlog"]
            /\ at' = [at EXCEPT ![c] = "transmit"]
            /\ attempt' = [attempt EXCEPT ![c] = 0]
            /\ UNCHANGED <<verdict, sent, cancelAt>>
        BY <2>2, <3>1 DEF Connect, Set, Goto
      <4> QED
        BY <4>1 DEF Typed, Places
    <3>2. CASE ~SamePeer(c, sock)
      <4>1. at' \in [Clients -> Places] /\ verdict' \in [Clients -> Verdicts]
        BY <2>2, <3>2, <1>2 DEF Connect, Verdicts
      <4> QED
        BY <2>2, <3>2, <4>1 DEF Connect, Typed, Set
    <3> QED
      BY <3>1, <3>2
  <2>3. CASE ExpireUnsent(c) \/ TransmitFails(c) \/ ReceiveNothing(c) \/ CancelFails(c) \/ Receive(c)
    <3>1. at' \in [Clients -> Places] /\ verdict' \in [Clients -> Verdicts]
      <4>1. reply[c] \in Verdicts
        BY DEF Typed
      <4> QED
        BY <2>3, <4>1, <1>2 DEF ExpireUnsent, TransmitFails, ReceiveNothing, CancelFails, Receive, Verdicts
    <3> QED
      BY <2>3, <3>1 DEF ExpireUnsent, TransmitFails, ReceiveNothing, CancelFails, Receive, Typed
  <2>4. CASE Transmit(c) \/ ReceiveTimesOut(c)
    BY <2>4 DEF Transmit, ReceiveTimesOut, Typed, Set, Goto, Places
  <2>5. CASE TransmitTimesOut(c)
    BY <2>5 DEF TransmitTimesOut, Typed, Set, Goto, Places
  <2>6. CASE SendCancel(c)
    <3>1. at' \in [Clients -> Places] /\ verdict' \in [Clients -> Verdicts]
      BY <2>6, <1>2 DEF SendCancel, Verdicts
    <3> QED
      BY <2>6, <3>1 DEF SendCancel, Typed, Set
  <2> QED
    BY <2>1, <2>2, <2>3, <2>4, <2>5, <2>6 DEF ClientStep
<1> QED
  BY <1>1, <1>3 DEF Typed

LEMMA HandlerTypeStep ==
    ASSUME Typed, NEW c \in Clients, Handle(c)
    PROVE  Typed'
<1>1. CASE HandleCancel(c)
  <2>1. cancelled' \in [Bridges -> SUBSET Clients] /\ cancelAt' \in [Clients -> Bridges \union {None}]
    BY <1>1 DEF HandleCancel, Typed, Set
  <2> QED
    BY <1>1, <2>1 DEF HandleCancel, Typed, registryVars
<1>2. CASE ~HandleCancel(c)
  <2>1. UNCHANGED <<registryVars, attempt, link, sent, cancelAt, verdict>>
    BY <1>2 DEF Handle, Accept, ReadRequest, RefuseRequest, DispatchRequest, Complete, ObeyCancel,
       WriteReply, HandlerOnly
  <2>2. /\ srv' \in [Clients -> {"none", "backlog", "accepted", "active", "writing",
                                 "answered", "closed"}]
        /\ reply' \in [Clients -> Verdicts]
        /\ effect' \in [Clients -> {"none", "running", "done", "undone"}]
        /\ runs' \in [Clients -> [Bridges -> Nat]]
        /\ active' \in [Bridges -> SUBSET Clients]
        /\ cancelled' \in [Bridges -> SUBSET Clients]
    <3>1. CASE Accept(c) \/ ReadRequest(c) \/ WriteReply(c)
      BY <3>1 DEF Accept, ReadRequest, WriteReply, Typed, Set
    <3>2. CASE RefuseRequest(c)
      BY <3>2 DEF RefuseRequest, Answer, Typed, Set, Verdicts
    <3>3. CASE DispatchRequest(c)
      <4>1. link[c] \in Bridges
        BY <3>3 DEF DispatchRequest, Serves, Typed
      <4>2. runs' = [runs EXCEPT ![c] = [runs[c] EXCEPT ![link[c]] = runs[c][link[c]] + 1]]
        BY <3>3 DEF DispatchRequest
      <4>3. runs' \in [Clients -> [Bridges -> Nat]]
        BY <4>1, <4>2 DEF Typed
      <4> QED
        BY <3>3, <4>1, <4>3 DEF DispatchRequest, Typed, Set
    <3>4. CASE Complete(c)
      BY <3>4 DEF Complete, EndRequest, Answer, Typed, Set, Verdicts
    <3>5. CASE ObeyCancel(c)
      BY <3>5 DEF ObeyCancel, EndRequest, Answer, Typed, Set, Verdicts
    <3> QED
      BY <1>2, <3>1, <3>2, <3>3, <3>4, <3>5 DEF Handle
  <2> QED
    BY <2>1, <2>2 DEF Typed, registryVars
<1> QED
  BY <1>1, <1>2

LEMMA TypeStep ==
    ASSUME Typed, Numbered, [RequestNext]_clientVars
    PROVE  Typed'
<1>1. CASE UNCHANGED clientVars
  BY <1>1 DEF Typed, clientVars, registryVars, requestVars
<1> QED
  BY <1>1, RegistryTypeStep, ClientTypeStep, HandlerTypeStep DEF RequestNext

-----------------------------------------------------------------------------
(* The files of the bridges.                                                 *)

LEMMA NoneIsNoBridge == None \notin Bridges
BY RegistryAssumption DEF None, Bridges

LEMMA FilesStep ==
    ASSUME Typed, Numbered, Files, [RequestNext]_clientVars,
           \A c \in Clients : Finding(c)
    PROVE  Files'
<1> USE DEF Files, LiveBridgeKeepsFiles
<1>1. CASE UNCHANGED <<phase, sock, reg>>
  BY <1>1 DEF Typed
<1>2. CASE RegistryStep
  <2>1. CASE StartGui
    BY <2>1, NextIsNew DEF Typed, StartGui, SetPhase
  <2>2. ASSUME NEW b \in Bridges, Bind(b) PROVE Files'
    <3>1. CASE NothingBound(sock)
      <4>1. \A x \in Bridges : phase[x] \notin {"bound", "listening", "serving"}
        BY <3>1, NoneIsNoBridge DEF NothingBound
      <4> QED
        BY <2>2, <3>1, <4>1 DEF Typed, Bind, SetPhase
    <3>2. CASE ~NothingBound(sock)
      BY <2>2, <3>2 DEF Typed, Bind, SetPhase
    <3> QED
      BY <3>1, <3>2
  <2>3. ASSUME NEW b \in Bridges, Listen(b) \/ Publish(b) PROVE Files'
    <3>1. CASE Listen(b)
      BY <3>1 DEF Typed, Listen, SetPhase
    <3>2. CASE Publish(b)
      <4>1. phase[b] = "listening" /\ sock = b
        BY <3>2 DEF Publish
      <4>2. reg' = b /\ phase' = [phase EXCEPT ![b] = "serving"] /\ UNCHANGED sock
        BY <3>2 DEF Publish, SetPhase
      <4> QED
        BY <4>1, <4>2 DEF Typed
    <3> QED
      BY <2>3, <3>1, <3>2
  <2>4. ASSUME NEW b \in Bridges, StopBridge(b) PROVE Files'
    BY <2>4 DEF Typed, StopBridge, SetPhase, Release
  <2>5. ASSUME NEW b \in Bridges, RestartBridge(b) PROVE Files'
    BY <2>5, NextIsNew DEF Typed, RestartBridge, Release
  <2>6. ASSUME NEW p, phase' = DiesWith(p), UNCHANGED <<sock, reg>> PROVE Files'
    BY <2>6 DEF Typed, DiesWith
  <2>7. ASSUME NEW c \in Clients, Discover(c) PROVE Files'
    <3>1. CASE UnlinkRecord(c)
      <4>1. judged[c] # None /\ phase[judged[c]] = "dead" /\ UNCHANGED <<phase, sock>>
        BY <3>1 DEF UnlinkRecord, Finding
      <4>2. reg' = IF reg = judged[c] THEN None ELSE reg
        BY <3>1 DEF UnlinkRecord, UnlinkIfUnchanged
      <4> QED
        BY <4>1, <4>2 DEF Typed
    <3>2. CASE UnlinkSocket(c)
      <4>1. UNCHANGED <<phase, reg>> /\ sock' = IF NothingBound(sock) THEN None ELSE sock
        BY <3>2 DEF UnlinkSocket, SocketIsLitter
      <4> QED
        BY <4>1, NoneIsNoBridge DEF Typed, NothingBound
    <3>3. CASE Popen(c)
      BY <3>3, NextIsNew DEF Typed, Popen, SetPhase
    <3>4. CASE Reap(c)
      BY <3>4, <2>6 DEF Reap
    <3>5. CASE ~UnlinkRecord(c) /\ ~UnlinkSocket(c) /\ ~Popen(c) /\ ~Reap(c)
      BY <2>7, <3>5, <1>1 DEF Discover, ReadRecord, Judge, LockOrGiveUp, PollRecord, GiveUpWaiting,
         ReturnChild, GiveUp
    <3> QED
      BY <3>1, <3>2, <3>3, <3>4, <3>5
  <2> QED
    BY <1>2, <2>1, <2>2, <2>3, <2>4, <2>5, <2>6, <2>7 DEF RegistryStep, BridgeStep, KillProcess
<1>3. ASSUME NEW c \in Clients, ClientStep(c) \/ Handle(c) PROVE UNCHANGED <<phase, sock, reg>>
  BY <1>3 DEF ClientStep, ConnectFails, Connect, ExpireUnsent, Transmit, TransmitTimesOut,
     TransmitFails, Receive, ReceiveNothing, ReceiveTimesOut, SendCancel, CancelFails, ClientOnly,
     Handle, Accept, ReadRequest, RefuseRequest, DispatchRequest, Complete, ObeyCancel,
     WriteReply, HandleCancel, HandlerOnly, registryVars
<1> QED
  BY <1>1, <1>2, <1>3 DEF RequestNext, clientVars, registryVars

-----------------------------------------------------------------------------
(* What a discovery has in hand.                                             *)

LEMMA OwnerGone ==
    ASSUME Typed, NEW b \in Bridges, phase[b] # "none", ~OwnerAlive(b)
    PROVE  phase[b] = "dead"
BY DEF OwnerAlive, Alive

LEMMA FindingFrame ==
    ASSUME Typed, NEW c \in Clients, Finding(c), Irrevocable,
           at'[c] = at[c], why'[c] = why[c], judged'[c] = judged[c],
           child'[c] = child[c], known'[c] = known[c]
    PROVE  Finding(c)'
<1>1. judged[c] \in Bridges \union {None} /\ child[c] \in Bridges \union {None}
  BY DEF Typed
<1> QED
  BY <1>1 DEF Finding, Irrevocable

\* The steps that resolve: what was judged is forgotten, and the place that follows
\* is one the client may be at with the child it has.
LEMMA FindingResolve ==
    ASSUME Typed, NEW c \in Clients, Finding(c), UNCHANGED <<phase, home, why, child>>,
           NEW b \in Bridges \union {None}, Resolve(c, b),
           at[c] \in {"read", "judge", "unlinkRecordOnly", "unlinkSocket"}
    PROVE  Finding(c)'
<1>1. judged'[c] = None /\ known'[c] = b
  BY DEF Resolve, Typed
<1>2. PICK p \in Places :
         /\ at' = [at EXCEPT ![c] = p]
         /\ \/ b # None /\ why[c] = "first" /\ p = "send"
            \/ b # None /\ why[c] = "locked" /\ p = "refuse"
            \/ b # None /\ why[c] = "poll" /\ b = child[c] /\ p = "return"
            \/ b # None /\ why[c] = "poll" /\ b # child[c] /\ p = "reap"
            \/ b = None /\ why[c] = "first" /\ p = "lock"
            \/ b = None /\ why[c] = "locked" /\ p = "popen"
            \/ b = None /\ why[c] = "poll" /\ p = "wait"
  BY ResolveLeadsTo
<1>3. at'[c] = p
  BY <1>2 DEF Typed
<1> QED
  BY <1>1, <1>2, <1>3 DEF Finding

LEMMA FindingDiscover ==
    ASSUME Typed, Numbered, Files, NEW c \in Clients, Finding(c), Irrevocable, Discover(c)
    PROVE  Finding(c)'
<1>1. None \in Bridges \union {None} /\ judged[c] \in Bridges \union {None}
      /\ child[c] \in Bridges \union {None}
  BY DEF Typed
<1>2. CASE ReadRecord(c)
  <2>1. CASE Resolve(c, None)
    BY <1>1, <1>2, <2>1, FindingResolve DEF ReadRecord
  <2>2. CASE ~Resolve(c, None)
    <3>1. /\ judged' = [judged EXCEPT ![c] = reg] /\ at' = [at EXCEPT ![c] = "judge"]
          /\ reg # None /\ at[c] = "read" /\ UNCHANGED <<known, phase, home, why, child>>
      BY <1>2, <2>2 DEF ReadRecord, Goto
    <3>2. judged'[c] = reg /\ at'[c] = "judge" /\ phase[reg] # "none"
      BY <3>1 DEF Typed, Files
    <3> QED
      BY <3>1, <3>2 DEF Finding
  <2> QED
    BY <2>1, <2>2
<1>3. CASE Judge(c)
  <2>1. UNCHANGED <<phase, home, why, child>> /\ at[c] = "judge" /\ judged[c] # None
    BY <1>3 DEF Judge, Finding
  <2>2. CASE Resolve(c, None) \/ Resolve(c, judged[c])
    BY <1>1, <2>1, <2>2, FindingResolve
  <2>3. CASE ~Resolve(c, None) /\ ~Resolve(c, judged[c])
    <3>1. /\ ~OwnerAlive(judged[c])
          /\ at'[c] \in {"unlinkRecordOnly", "unlinkRecord"}
          /\ UNCHANGED <<known, judged>>
      BY <1>3, <2>3, JudgeDecides DEF Goto, Typed
    <3>2. phase[judged[c]] = "dead"
      BY <1>1, <2>1, <3>1, OwnerGone DEF Finding
    <3> QED
      BY <2>1, <3>1, <3>2 DEF Finding
  <2> QED
    BY <2>2, <2>3
<1>4. CASE UnlinkRecord(c)
  <2>1. UNCHANGED <<phase, home, why, child>>
    BY <1>4 DEF UnlinkRecord
  <2>2. CASE at[c] = "unlinkRecord"
    <3>1. at'[c] = "unlinkSocket" /\ UNCHANGED <<known, judged>>
      BY <1>4, <2>2 DEF UnlinkRecord, Goto, Typed
    <3> QED
      BY <2>1, <2>2, <3>1 DEF Finding
  <2>3. CASE at[c] = "unlinkRecordOnly"
    BY <1>1, <1>4, <2>1, <2>3, FindingResolve DEF UnlinkRecord
  <2> QED
    BY <1>4, <2>2, <2>3 DEF UnlinkRecord
<1>5. CASE UnlinkSocket(c)
  BY <1>1, <1>5, FindingResolve DEF UnlinkSocket
<1>6. CASE LockOrGiveUp(c)
  <2>1. /\ at[c] = "lock" /\ UNCHANGED <<phase, home, judged, child, known>>
        /\ \/ at'[c] = "read" /\ why'[c] = "locked"
           \/ at'[c] = "refuse" /\ why'[c] = why[c]
    BY <1>6 DEF LockOrGiveUp, Goto, SetWhy, Typed
  <2> QED
    BY <2>1 DEF Finding
<1>7. CASE Popen(c)
  <2>1. CASE NextBridge \in Bridges
    <3>1. /\ child'[c] = NextBridge /\ home'[NextBridge] = NextBridge
          /\ phase'[NextBridge] = "starting" /\ at[c] = "popen" /\ at'[c] = "wait"
          /\ UNCHANGED <<judged, why, known>>
      BY <1>7, <2>1 DEF Popen, SetPhase, Goto, Typed
    <3> QED
      BY <1>1, <3>1 DEF Finding, Irrevocable
  <2>2. CASE NextBridge \notin Bridges
    <3>1. /\ at[c] = "popen" /\ at'[c] = "refuse"
          /\ UNCHANGED <<phase, home, child, judged, why, known>>
      BY <1>7, <2>2 DEF Popen, Goto, Typed
    <3> QED
      BY <3>1 DEF Finding
  <2> QED
    BY <2>1, <2>2
<1>8. CASE PollRecord(c)
  <2>1. /\ at[c] = "wait" /\ at'[c] = "read" /\ why'[c] = "poll"
        /\ UNCHANGED <<phase, home, child, judged, known>>
    BY <1>8 DEF PollRecord, SetWhy, Goto, Typed
  <2> QED
    BY <2>1 DEF Finding
<1>9. CASE GiveUpWaiting(c) \/ ReturnChild(c) \/ GiveUp(c)
  <2>1. /\ \/ at[c] = "wait" /\ at'[c] = "reap"
           \/ at[c] = "return" /\ at'[c] = "send"
           \/ at[c] = "refuse" /\ at'[c] = "done"
        /\ UNCHANGED <<phase, home, child, judged, known, why>>
    BY <1>9 DEF GiveUpWaiting, ReturnChild, GiveUp, Goto, Typed
  <2> QED
    BY <2>1 DEF Finding
<1>10. CASE Reap(c)
  <2>1. /\ at[c] = "reap" /\ at'[c] = "done" /\ phase' = DiesWith(child[c])
        /\ UNCHANGED <<home, child, judged, known, why>>
    BY <1>10 DEF Reap, Goto, Typed
  <2>2. child[c] # None => phase'[child[c]] = "dead"
    BY <1>1, <2>1 DEF Finding, DiesWith
  <2> QED
    BY <1>1, <2>1, <2>2 DEF Finding, Irrevocable
<1> QED
  BY <1>2, <1>3, <1>4, <1>5, <1>6, <1>7, <1>8, <1>9, <1>10 DEF Discover

\* A client that sends is done with its child, one way or the other.
LEMMA FindingStep ==
    ASSUME Typed, Numbered, Files, \A c \in Clients : Finding(c), [RequestNext]_clientVars
    PROVE  \A c \in Clients : Finding(c)'
<1>1. Irrevocable
  BY BridgesStep
<1>2. CASE UNCHANGED <<at, why, judged, child, known>>
  BY <1>1, <1>2, FindingFrame
<1>3. ASSUME NEW d \in Clients, Discover(d) PROVE \A c \in Clients : Finding(c)'
  <2>1. Finding(d)'
    BY <1>1, <1>3, FindingDiscover
  <2>2. \A c \in Clients \ {d} : Finding(c)'
    BY <1>1, <1>3, DiscoverOwn, FindingFrame
  <2> QED
    BY <2>1, <2>2
<1>4. ASSUME NEW d \in Clients, ClientStep(d) PROVE \A c \in Clients : Finding(c)'
  <2>1. /\ UNCHANGED <<why, judged, child, known>>
        /\ \A c \in Clients \ {d} : at'[c] = at[c]
    BY <1>4 DEF Typed, ClientStep, ConnectFails, Connect, ExpireUnsent, Transmit, TransmitTimesOut,
       TransmitFails, Receive, ReceiveNothing, ReceiveTimesOut, SendCancel, CancelFails, ClientOnly,
       Conclude, Goto
  <2>2. at[d] \in {"send", "transmit", "receive", "cancel"}
        /\ at'[d] \in {"send", "transmit", "receive", "cancel", "done"}
    BY <1>4 DEF Typed, ClientStep, ConnectFails, Connect, ExpireUnsent, Transmit, TransmitTimesOut,
       TransmitFails, Receive, ReceiveNothing, ReceiveTimesOut, SendCancel, CancelFails,
       Conclude, Goto
  <2>3. judged[d] \in Bridges \union {None} /\ child[d] \in Bridges \union {None}
    BY DEF Typed
  <2>4. Finding(d)'
    BY <1>1, <2>1, <2>2, <2>3 DEF Finding, Irrevocable
  <2> QED
    BY <1>1, <2>1, <2>4, FindingFrame
<1>5. CASE RegistryStep /\ \A c \in Clients : ~Discover(c)
  BY <1>2, <1>5 DEF RegistryStep, StartGui, BridgeStep, Bind, Listen, Publish, StopBridge,
     RestartBridge, KillProcess, discoveryVars
<1>6. ASSUME NEW d \in Clients, Handle(d) PROVE UNCHANGED <<at, why, judged, child, known>>
  BY <1>6 DEF Handle, Accept, ReadRequest, RefuseRequest, DispatchRequest, Complete, ObeyCancel,
     WriteReply, HandleCancel, HandlerOnly, registryVars
<1>7. CASE UNCHANGED clientVars
  BY <1>2, <1>7 DEF clientVars, registryVars
<1> QED
  BY <1>2, <1>3, <1>4, <1>5, <1>6, <1>7 DEF RequestNext

-----------------------------------------------------------------------------
(* How far a request has come.                                               *)

LEMMA AskingFrame ==
    ASSUME NEW c \in Clients, Asking(c),
           at'[c] = at[c], attempt'[c] = attempt[c], link'[c] = link[c], srv'[c] = srv[c],
           reply'[c] = reply[c], effect'[c] = effect[c], runs'[c] = runs[c],
           cancelAt'[c] = cancelAt[c], verdict'[c] = verdict[c], known'[c] = known[c],
           \A b \in Bridges : c \in cancelled'[b] => c \in cancelled[b]
    PROVE  Asking(c)'
BY DEF Asking, CancelledByUser

\* A discovery happens before anything is sent.
LEMMA AskingDiscover ==
    ASSUME Typed, Numbered, NEW c \in Clients, Asking(c), Discover(c), UNCHANGED requestVars
    PROVE  Asking(c)'
<1>1. at[c] \notin {"send", "transmit", "receive", "cancel", "done"}
  BY DEF Discover, ReadRecord, Judge, UnlinkRecord, UnlinkSocket, LockOrGiveUp, Popen,
     PollRecord, GiveUpWaiting, Reap, ReturnChild, GiveUp
<1>2. at'[c] \notin {"transmit", "receive", "cancel"}
  <2>1. CASE ReadRecord(c) \/ Judge(c) \/ UnlinkRecord(c) \/ UnlinkSocket(c)
    <3>1. \/ \E b \in Bridges \union {None} : Resolve(c, b)
          \/ \E p \in {"judge", "unlinkRecordOnly", "unlinkRecord", "unlinkSocket"} : Goto(c, p)
      BY <2>1, JudgeDecides DEF ReadRecord, UnlinkRecord, UnlinkSocket, Typed
    <3>2. ASSUME NEW b \in Bridges \union {None}, Resolve(c, b)
          PROVE  at'[c] \notin {"transmit", "receive", "cancel"}
      <4>1. PICK p \in {"send", "refuse", "return", "reap", "lock", "popen", "wait"} :
               at' = [at EXCEPT ![c] = p]
        BY <3>2, ResolveLeadsTo
      <4> QED
        BY <4>1 DEF Typed
    <3>3. ASSUME NEW p \in {"judge", "unlinkRecordOnly", "unlinkRecord", "unlinkSocket"}, Goto(c, p)
          PROVE  at'[c] \notin {"transmit", "receive", "cancel"}
      BY <3>3 DEF Typed, Goto
    <3> QED
      BY <3>1, <3>2, <3>3
  <2>2. CASE LockOrGiveUp(c) \/ Popen(c) \/ PollRecord(c) \/ GiveUpWaiting(c) \/ Reap(c)
             \/ ReturnChild(c) \/ GiveUp(c)
    BY <2>2 DEF LockOrGiveUp, Popen, PollRecord, GiveUpWaiting, Reap, ReturnChild, GiveUp, Goto, Typed
  <2> QED
    BY <2>1, <2>2 DEF Discover
<1> QED
  BY <1>1, <1>2 DEF Asking, CancelledByUser, requestVars

LEMMA AskingClient ==
    ASSUME Typed, NEW c \in Clients, Asking(c), ClientStep(c)
    PROVE  Asking(c)'
<1> USE DEF Asking, CancelledByUser
<1>1. UNCHANGED <<known, runs, effect, reply, cancelled>>
  BY DEF ClientStep, ConnectFails, Connect, ExpireUnsent, Transmit, TransmitTimesOut,
     TransmitFails, Receive, ReceiveNothing, ReceiveTimesOut, SendCancel, CancelFails, ClientOnly
<1>2. ASSUME NEW v, Conclude(c, v) PROVE at'[c] = "done" /\ verdict'[c] = v
  BY <1>2 DEF Conclude, Goto, Set, Typed
<1>3. CASE ConnectFails(c)
  <2>1. /\ at[c] = "send" /\ attempt'[c] = attempt[c] + 1 /\ attempt[c] \in Nat
        /\ UNCHANGED <<link, srv, cancelAt>>
    BY <1>3 DEF ConnectFails, Set, Typed
  <2>2. \/ attempt'[c] = ConnectRetries /\ at'[c] = "done" /\ verdict'[c] = "unreachable"
        \/ attempt'[c] # ConnectRetries /\ UNCHANGED <<at, verdict>>
    BY <1>3, <1>2 DEF ConnectFails
  <2> QED
    BY <1>1, <2>1, <2>2, RequestAssumption
<1>4. CASE Connect(c)
  <2>1. at[c] = "send" /\ sock # None /\ attempt'[c] = 0 /\ UNCHANGED cancelAt
    BY <1>4 DEF Connect, Accepting, Set, Typed
  <2>2. \/ at'[c] = "transmit" /\ link'[c] = sock /\ srv'[c] = "backlog" /\ UNCHANGED verdict
        \/ at'[c] = "done" /\ verdict'[c] = "unverified" /\ UNCHANGED <<link, srv>>
    BY <1>4, <1>2 DEF Connect, Set, Goto, Typed
  <2> QED
    BY <1>1, <2>1, <2>2, RequestAssumption
<1>5. CASE ExpireUnsent(c)
  BY <1>5, <1>1, <1>2 DEF ExpireUnsent
<1>6. CASE Transmit(c) \/ TransmitTimesOut(c) \/ ReceiveTimesOut(c)
  <2>1. /\ at[c] \in {"transmit", "receive"} /\ at'[c] \in {"receive", "cancel"}
        /\ UNCHANGED <<attempt, link, srv, cancelAt, verdict>>
    BY <1>6 DEF Transmit, TransmitTimesOut, ReceiveTimesOut, Goto, Typed
  <2> QED
    BY <1>1, <2>1
<1>7. CASE TransmitFails(c) \/ ReceiveNothing(c) \/ CancelFails(c)
  <2>1. /\ at[c] \in {"transmit", "receive", "cancel"} /\ at'[c] = "done"
        /\ verdict'[c] \in {"contactLost", "noAnswer", "timeoutNoCancel"}
        /\ UNCHANGED <<attempt, link, srv, cancelAt>>
    BY <1>7, <1>2 DEF TransmitFails, ReceiveNothing, CancelFails
  <2> QED
    BY <1>1, <2>1
<1>8. CASE Receive(c)
  <2>1. /\ at[c] = "receive" /\ srv[c] = "answered" /\ at'[c] = "done" /\ verdict'[c] = reply[c]
        /\ UNCHANGED <<attempt, link, srv, cancelAt>>
    BY <1>8, <1>2 DEF Receive
  <2> QED
    BY <1>1, <2>1
<1>9. CASE SendCancel(c)
  <2>1. /\ at[c] = "cancel" /\ at'[c] = "done" /\ verdict'[c] = "timeoutCancelSent"
        /\ UNCHANGED <<attempt, link, srv>>
    BY <1>9, <1>2 DEF SendCancel
  <2> QED
    BY <1>1, <2>1
<1> QED
  BY <1>3, <1>4, <1>5, <1>6, <1>7, <1>8, <1>9 DEF ClientStep

LEMMA AskingHandler ==
    ASSUME Typed, CancelledAreActive, NEW c \in Clients, Asking(c), Handle(c)
    PROVE  Asking(c)'
<1> USE DEF Asking, CancelledByUser
<1>1. CASE HandleCancel(c)
  <2>1. CancelledByUser(c) /\ cancelAt'[c] = None
    BY <1>1 DEF HandleCancel, Set, Typed
  <2>2. UNCHANGED <<known, at, attempt, link, srv, reply, effect, runs, verdict>>
    BY <1>1 DEF HandleCancel, registryVars
  <2> QED
    BY <2>1, <2>2
<1>2. CASE ~HandleCancel(c)
  <2>1. UNCHANGED <<known, at, attempt, link, cancelAt, verdict>>
    BY <1>2 DEF Handle, Accept, ReadRequest, RefuseRequest, DispatchRequest, Complete, ObeyCancel,
       WriteReply, HandlerOnly, registryVars
  <2>2. link[c] \in Bridges
    BY <1>2 DEF Handle, Accept, ReadRequest, RefuseRequest, DispatchRequest, Complete, ObeyCancel,
       WriteReply, Serves, Typed
  <2>3. CASE Accept(c) \/ ReadRequest(c)
    <3>1. /\ srv[c] \in {"backlog", "accepted"} /\ srv'[c] \in {"accepted", "closed"}
          /\ UNCHANGED <<reply, effect, runs, cancelled>>
      BY <2>3 DEF Accept, ReadRequest, Set, Typed
    <3> QED
      BY <2>1, <3>1
  <2>4. CASE RefuseRequest(c)
    <3>1. /\ srv[c] = "accepted" /\ srv'[c] = "writing" /\ reply'[c] \in {"mismatch", "refused"}
          /\ UNCHANGED <<effect, runs, cancelled>>
      BY <2>4 DEF RefuseRequest, Answer, Set, Typed
    <3> QED
      BY <2>1, <3>1
  <2>5. CASE DispatchRequest(c)
    <3>1. /\ srv[c] = "accepted" /\ srv'[c] = "active" /\ effect'[c] = "running"
          /\ link[c] = known[c] /\ UNCHANGED <<reply, cancelled>>
      BY <2>5 DEF DispatchRequest, IdentityMatches, Set, Typed
    <3>2. /\ runs'[c][link[c]] = runs[c][link[c]] + 1
          /\ \A b \in Bridges \ {link[c]} : runs'[c][b] = runs[c][b]
      BY <2>2, <2>5 DEF DispatchRequest, Typed
    <3> QED
      BY <2>1, <2>2, <3>1, <3>2
  <2>6. CASE Complete(c)
    <3>1. /\ srv[c] = "active" /\ srv'[c] = "writing" /\ effect'[c] = "done" /\ reply'[c] = "ok"
          /\ UNCHANGED runs
      BY <2>6 DEF Complete, Answer, Set, Typed
    <3>2. \A b \in Bridges : c \in cancelled'[b] => c \in cancelled[b]
      BY <2>6 DEF Complete, EndRequest, Typed
    <3> QED
      BY <2>1, <3>1, <3>2
  <2>7. CASE ObeyCancel(c)
    <3>1. /\ srv[c] = "active" /\ srv'[c] = "writing" /\ effect'[c] = "undone"
          /\ reply'[c] = "cancelled" /\ c \in cancelled[link[c]] /\ UNCHANGED runs
      BY <2>7 DEF ObeyCancel, Answer, Set, Typed
    <3>2. \A b \in Bridges : c \in cancelled'[b] => c \in cancelled[b]
      BY <2>7 DEF ObeyCancel, EndRequest, Typed
    <3> QED
      BY <2>1, <2>2, <3>1, <3>2
  <2>8. CASE WriteReply(c)
    <3>1. /\ srv[c] = "writing" /\ srv'[c] = "answered"
          /\ UNCHANGED <<reply, effect, runs, cancelled>>
      BY <2>8 DEF WriteReply, Set, Typed
    <3> QED
      BY <2>1, <3>1
  <2> QED
    BY <1>2, <2>3, <2>4, <2>5, <2>6, <2>7, <2>8 DEF Handle
<1> QED
  BY <1>1, <1>2

LEMMA EndsUnmarked ==
    ASSUME Typed, NEW c \in Clients, Complete(c) \/ ObeyCancel(c)
    PROVE  \A b \in Bridges :
              /\ cancelled'[b] = IF b = link[c] THEN cancelled[b] \ {c} ELSE cancelled[b]
              /\ active'[b] = IF b = link[c] THEN active[b] \ {c} ELSE active[b]
<1>1. /\ active' = [active EXCEPT ![link[c]] = active[link[c]] \ {c}]
      /\ cancelled' = [cancelled EXCEPT ![link[c]] = cancelled[link[c]] \ {c}]
  BY DEF Complete, ObeyCancel, EndRequest
<1> QED
  BY <1>1 DEF Typed

LEMMA AskingStep ==
    ASSUME Typed, Numbered, CancelledAreActive, \A c \in Clients : Asking(c),
           [RequestNext]_clientVars
    PROVE  \A c \in Clients : Asking(c)'
<1>1. CASE UNCHANGED <<requestVars, at, known>>
  BY <1>1, AskingFrame DEF requestVars
<1>2. ASSUME NEW d \in Clients, Discover(d), UNCHANGED requestVars
      PROVE  \A c \in Clients : Asking(c)'
  <2>1. \A c \in Clients \ {d} : at'[c] = at[c] /\ known'[c] = known[c]
    BY <1>2, DiscoverOwn
  <2> QED
    BY <1>2, <2>1, AskingDiscover, AskingFrame DEF requestVars
<1>3. ASSUME NEW d \in Clients, ClientStep(d) PROVE \A c \in Clients : Asking(c)'
  <2>1. UNCHANGED <<known, runs, effect, reply, cancelled>>
    BY <1>3 DEF ClientStep, ConnectFails, Connect, ExpireUnsent, Transmit, TransmitTimesOut,
       TransmitFails, Receive, ReceiveNothing, ReceiveTimesOut, SendCancel, CancelFails, ClientOnly
  <2>2. \A c \in Clients \ {d} :
           /\ at'[c] = at[c] /\ attempt'[c] = attempt[c] /\ link'[c] = link[c]
           /\ srv'[c] = srv[c] /\ cancelAt'[c] = cancelAt[c] /\ verdict'[c] = verdict[c]
    BY <1>3 DEF Typed, ClientStep, ConnectFails, Connect, ExpireUnsent, Transmit, TransmitTimesOut,
       TransmitFails, Receive, ReceiveNothing, ReceiveTimesOut, SendCancel, CancelFails,
       Conclude, Goto, Set
  <2> QED
    BY <1>3, <2>1, <2>2, AskingClient, AskingFrame
<1>4. ASSUME NEW d \in Clients, Handle(d) PROVE \A c \in Clients : Asking(c)'
  <2>1. UNCHANGED <<known, at, attempt, link, verdict>>
    BY <1>4 DEF Handle, Accept, ReadRequest, RefuseRequest, DispatchRequest, Complete, ObeyCancel,
       WriteReply, HandleCancel, HandlerOnly, registryVars
  <2>2. \A c \in Clients \ {d} :
           /\ srv'[c] = srv[c] /\ reply'[c] = reply[c] /\ effect'[c] = effect[c]
           /\ runs'[c] = runs[c] /\ cancelAt'[c] = cancelAt[c]
    BY <1>4 DEF Typed, Handle, Accept, ReadRequest, RefuseRequest, DispatchRequest, Complete, ObeyCancel,
       WriteReply, HandleCancel, HandlerOnly, Answer, Set
  <2>3. \A c \in Clients \ {d} : \A b \in Bridges : c \in cancelled'[b] => c \in cancelled[b]
    <3>1. CASE HandleCancel(d)
      BY <3>1 DEF HandleCancel, Typed
    <3>2. CASE Complete(d) \/ ObeyCancel(d)
      BY <3>2, EndsUnmarked
    <3>3. CASE ~HandleCancel(d) /\ ~Complete(d) /\ ~ObeyCancel(d)
      BY <1>4, <3>3 DEF Handle, Accept, ReadRequest, RefuseRequest, DispatchRequest, WriteReply
    <3> QED
      BY <3>1, <3>2, <3>3
  <2> QED
    BY <1>4, <2>1, <2>2, <2>3, AskingHandler, AskingFrame
<1>5. CASE RegistryStep /\ \A c \in Clients : ~Discover(c)
  BY <1>1, <1>5 DEF RegistryStep, StartGui, BridgeStep, Bind, Listen, Publish, StopBridge,
     RestartBridge, KillProcess, discoveryVars
<1>6. CASE UNCHANGED clientVars
  BY <1>1, <1>6 DEF clientVars, registryVars
<1> QED
  BY <1>2, <1>3, <1>4, <1>5, <1>6 DEF RequestNext, RegistryStep

\* Only active requests are marked, and one that ends is unmarked.
LEMMA CancelledStep ==
    ASSUME Typed, CancelledAreActive, [RequestNext]_clientVars
    PROVE  CancelledAreActive'
<1> USE DEF CancelledAreActive
<1>1. CASE UNCHANGED <<active, cancelled>>
  BY <1>1
<1>2. ASSUME NEW c \in Clients, ClientStep(c) PROVE UNCHANGED <<active, cancelled>>
  BY <1>2 DEF ClientStep, ConnectFails, Connect, ExpireUnsent, Transmit, TransmitTimesOut,
     TransmitFails, Receive, ReceiveNothing, ReceiveTimesOut, SendCancel, CancelFails, ClientOnly
<1>3. ASSUME NEW c \in Clients, Handle(c) PROVE CancelledAreActive'
  <2>1. CASE DispatchRequest(c)
    BY <2>1 DEF DispatchRequest, Typed
  <2>2. CASE Complete(c) \/ ObeyCancel(c)
    BY <2>2, EndsUnmarked
  <2>3. CASE HandleCancel(c)
    BY <2>3 DEF HandleCancel, Typed
  <2>4. CASE ~DispatchRequest(c) /\ ~Complete(c) /\ ~ObeyCancel(c) /\ ~HandleCancel(c)
    BY <1>3, <2>4, <1>1 DEF Handle, Accept, ReadRequest, RefuseRequest, WriteReply
  <2> QED
    BY <2>1, <2>2, <2>3, <2>4
<1>4. CASE UNCHANGED clientVars \/ RegistryStep
  BY <1>1, <1>4 DEF RegistryStep, clientVars, requestVars
<1> QED
  BY <1>1, <1>2, <1>3, <1>4 DEF RequestNext

-----------------------------------------------------------------------------
(* The theorems, about every behaviour of CommandLine.                       *)

LEMMA RequestInvInit ==
    ASSUME RequestInit
    PROVE  RequestInv
<1> USE RegistryAssumption, RequestAssumption, NoneIsNoBridge DEF RequestInit, RegistryInit
<1>1. PICK crashed \in {b \in Bridges : b = 1} \union {None} :
         /\ phase = [b \in Bridges |-> IF b = crashed THEN "dead" ELSE "none"]
         /\ home = [b \in Bridges |-> IF b = crashed THEN b ELSE None]
         /\ sock \in {None, crashed}
         /\ reg = crashed
  OBVIOUS
<1>2. Typed
  BY <1>1 DEF Typed, Phases, Places, Verdicts
<1>3. Numbered
  <2>1. CASE crashed = None
    BY <1>1, <2>1 DEF Numbered
  <2>2. CASE crashed = 1 /\ crashed \in Bridges
    <3>1. Started = {1}
      BY <1>1, <2>2 DEF Started
    <3>2. NextBridge = 2
      <4>1. Cardinality({1}) = 1
        BY FS_Singleton
      <4> QED
        BY <3>1, <4>1 DEF NextBridge
    <3> QED
      BY <1>1, <2>2, <3>2 DEF Numbered
  <2> QED
    BY <1>1, <2>1, <2>2
<1>4. Files
  BY <1>1 DEF Files, LiveBridgeKeepsFiles
<1>5. \A c \in Clients : Finding(c) /\ Asking(c)
  BY DEF Finding, Asking
<1>6. CancelledAreActive
  BY DEF CancelledAreActive
<1> QED
  BY <1>2, <1>3, <1>4, <1>5, <1>6 DEF RequestInv

\* The account of bridges, discoveries and requests is inductive.
THEOREM RequestInvariant == Spec => []RequestInv
<1>1. Init => RequestInv
  BY RequestInvInit DEF Init, RequestParked
<1>2. RequestInv /\ [Next]_<<part, clientVars, sessionVars, pinVars>> => RequestInv'
  <2> SUFFICES ASSUME RequestInv, [Next]_<<part, clientVars, sessionVars, pinVars>>
               PROVE  RequestInv'
    OBVIOUS
  <2>1. [RequestNext]_clientVars
    BY DEF Next
  <2>2. Typed' /\ Numbered' /\ Files' /\ CancelledAreActive'
    BY <2>1, TypeStep, BridgesStep, FilesStep, CancelledStep DEF RequestInv
  <2>3. \A c \in Clients : Finding(c)' /\ Asking(c)'
    BY <2>1, FindingStep, AskingStep DEF RequestInv
  <2> QED
    BY <2>2, <2>3 DEF RequestInv
<1> QED
  BY <1>1, <1>2, PTL DEF Spec

\* All variables of a request keep their types, and only active requests are marked
\* as cancelled.
THEOREM RequestTypeCorrect == Spec => []TypeOK
<1>1. RequestInv => TypeOK
  <2> SUFFICES ASSUME RequestInv PROVE TypeOK
    OBVIOUS
  <2>1. RegistryTypeOK
    BY DEF RequestInv, Typed, RegistryTypeOK
  <2>2. attempt \in [Clients -> 0..ConnectRetries]
    BY RequestAssumption DEF RequestInv, Typed, Asking
  <2> QED
    BY <2>1, <2>2 DEF RequestInv, Typed, CancelledAreActive, TypeOK
<1> QED
  BY <1>1, RequestInvariant, PTL

\* No retry, restart or sweep makes a request run twice, or at another bridge than
\* the one that was resolved.
THEOREM RequestsRunAtMostOnce == Spec => []RunAtMostOnce
<1>1. RequestInv => RunAtMostOnce
  BY DEF RequestInv, Asking, RunAtMostOnce
<1> QED
  BY <1>1, RequestInvariant, PTL

\* The user is never told something that did not happen, or will not be so.
THEOREM VerdictsAreTrue == Spec => []VerdictIsTrue
<1>1. RequestInv => VerdictIsTrue
  BY DEF RequestInv, Asking, CancelledByUser, VerdictIsTrue
<1> QED
  BY <1>1, RequestInvariant, PTL

\* Sweeps and spawns leave no live bridge without its files, and no child without
\* its parent.
THEOREM BridgesStayInReach == Spec => []BridgesInReach
<1>1. RequestInv => BridgesInReach
  BY DEF RequestInv, Files, Finding, NoOrphan, BridgesInReach
<1> QED
  BY <1>1, RequestInvariant, PTL

-----------------------------------------------------------------------------
(***************************************************************************)
(* The session commands and the pins.                                      *)
(***************************************************************************)

Lifes == {"none", "serving", "deaf", "draining", "closing", "gone"}
Stages == {"find", "probe", "pin", "verify", "shutdown", "signal", "kill",
           "wait", "waitKilled", "respawn", "reload", "done"}
Reports == {"none", "failed", "refused", "stopped", "restarted", "partly"}
Finished == {"stopped", "restarted", "partly"}

BridgesTyped ==
    /\ life \in [Sessions -> Lifes]
    /\ pid \in [Sessions -> Pids \union {NoPid}]
    /\ holder \in [Pids -> Sessions \union {NoSession, Stranger}]
    /\ record \in Sessions \union {NoSession}
    /\ open \in [Sessions -> SUBSET Targets]
    /\ unsaved \in [Sessions -> SUBSET Targets]

CommandsTyped ==
    /\ place \in [Commands -> Stages]
    /\ restarts \in [Commands -> BOOLEAN]
    /\ discard \in [Commands -> BOOLEAN]
    /\ found \in [Commands -> Sessions \union {NoSession}]
    /\ listed \in [Commands -> (SUBSET Targets) \union {Unlisted}]
    /\ grip \in [Commands -> Sessions \union {NoSession, Stranger}]
    /\ hit \in [Commands -> SUBSET Sessions]
    /\ signalled \in [Commands -> SUBSET Sessions]
    /\ late \in [Commands -> SUBSET Targets]
    /\ back \in [Commands -> SUBSET Targets]
    /\ outcome \in [Commands -> Reports]

\* A process id belongs to the bridge that was given it while that one lives.
Processes ==
    /\ \A b \in Sessions : life[b] # "none" => pid[b] \in Pids
    /\ \A b \in Sessions : Lives(b) => holder[pid[b]] = b
    /\ \A p \in Pids : holder[p] \in Sessions => Lives(holder[p]) /\ pid[holder[p]] = p
    /\ record # NoSession => life[record] # "none"

\* What a command has in hand at each place.
Stopping(c) ==
    /\ place[c] = "find" => found[c] = NoSession
    /\ place[c] \in {"probe", "pin", "verify"} => found[c] # NoSession
    /\ place[c] \in {"find", "probe", "pin", "verify"} => hit[c] = {} /\ signalled[c] = {}
    /\ signalled[c] \subseteq {found[c]}
    /\ place[c] # "done" => outcome[c] = "none"
    /\ found[c] # NoSession => life[found[c]] # "none"
    /\ place[c] # "verify" => grip[c] \in {NoSession, found[c]}
    /\ place[c] = "verify" /\ Lives(found[c]) => grip[c] = found[c]
    /\ place[c] \in {"respawn", "reload"} \/ outcome[c] \in Finished =>
           (found[c] # NoSession => ~Lives(found[c]))

\* What a command knows of the work in its bridge.
Knowing(c) ==
    /\ /\ Asked(c) /\ found[c] # NoSession /\ ~discard[c]
       /\ place[c] # "done" \/ found[c] \in hit[c] \union signalled[c]
       => unsaved[found[c]] \subseteq late[c]
    /\ listed[c] # Unlisted => /\ Asked(c) /\ found[c] # NoSession
                               /\ open[found[c]] \subseteq listed[c] \union late[c]
    /\ outcome[c] = "restarted" => listed[c] # Unlisted /\ back[c] = listed[c]

SessionInv ==
    /\ BridgesTyped /\ CommandsTyped /\ Processes
    /\ \A c \in Commands : Stopping(c) /\ Knowing(c)

-----------------------------------------------------------------------------
(* Bridges and their processes.                                              *)

\* What no step undoes: a bridge that was started was, and an end is the end.
Onward == \A b \in Sessions : life[b] # "none" => /\ life'[b] # "none"
                                                  /\ Lives(b)' => Lives(b)

LEMMA Recording == Recorded \in {record, NoSession}
BY DEF Recorded

\* A bridge goes on from one stage of its life to another one.
LEMMA GoesOn ==
    ASSUME BridgesTyped, Processes, UNCHANGED <<pid, holder>>,
           record' \in {record, NoSession}, life' \in [Sessions -> Lifes],
           \A b \in Sessions : life'[b] = life[b] \/ (Lives(b) /\ Lives(b)')
    PROVE  Processes' /\ Onward
<1>1. Onward
  BY DEF Onward, Lives
<1>2. \A b \in Sessions : Lives(b)' <=> Lives(b)
  BY DEF Lives
<1>3. \A b \in Sessions : life'[b] # "none" => life[b] # "none"
  BY DEF Lives
<1> QED
  BY <1>1, <1>2, <1>3 DEF Processes, Onward, BridgesTyped

\* A process ends, and its number is free.
LEMMA Exits ==
    ASSUME BridgesTyped, Processes, NEW b \in Sessions, Lives(b), Exit(b),
           UNCHANGED <<pid, record>>
    PROVE  /\ life' \in [Sessions -> Lifes]
           /\ holder' \in [Pids -> Sessions \union {NoSession, Stranger}]
           /\ Processes' /\ Onward
<1>1. /\ life' \in [Sessions -> Lifes]
      /\ holder' \in [Pids -> Sessions \union {NoSession, Stranger}]
  BY DEF Exit, BridgesTyped, Lifes
<1>2. Onward
  BY DEF Exit, BridgesTyped, Onward, Lives
<1>3. \A x \in Sessions : life'[x] # "none" => life[x] # "none"
  BY DEF Exit, BridgesTyped, Lives
<1>4. \A x \in Sessions : Lives(x)' <=> (x # b /\ Lives(x))
  BY DEF Exit, BridgesTyped, Lives
<1>5. pid[b] \in Pids /\ life[b] # "none"
  BY DEF Processes, Lives
<1>6. \A p \in Pids : holder'[p] = IF p = pid[b] THEN NoSession ELSE holder[p]
  BY DEF Exit, BridgesTyped
<1>7. NoSession \notin Sessions
  BY DEF Sessions, NoSession
<1>8. ASSUME NEW x \in Sessions, Lives(x)' PROVE holder'[pid'[x]] = x
  <2>1. x # b /\ Lives(x) /\ holder[pid[x]] = x /\ holder[pid[b]] = b /\ pid[x] \in Pids
    BY <1>4, <1>8 DEF Processes, Lives
  <2> QED
    BY <2>1, <1>6
<1>9. ASSUME NEW p \in Pids, holder'[p] \in Sessions
      PROVE  Lives(holder[p])' /\ pid'[holder'[p]] = p
  <2>1. p # pid[b] /\ holder'[p] = holder[p]
    BY <1>6, <1>7, <1>9
  <2>2. Lives(holder[p]) /\ pid[holder[p]] = p
    BY <2>1, <1>9 DEF Processes
  <2> QED
    BY <2>1, <2>2, <1>4, <1>9
<1> QED
  BY <1>1, <1>2, <1>3, <1>5, <1>8, <1>9 DEF Processes, Onward, BridgesTyped

\* A new bridge takes a number that nobody has.
LEMMA Spawns ==
    ASSUME BridgesTyped, Processes, Spawn
    PROVE  BridgesTyped' /\ Processes' /\ Onward
<1>1. PICK b \in Unborn, p \in FreePids :
         /\ life' = [life EXCEPT ![b] = "serving"]
         /\ pid' = [pid EXCEPT ![b] = p]
         /\ holder' = [holder EXCEPT ![p] = b]
         /\ record' = b
  BY DEF Spawn
<1>2. b \in Sessions /\ life[b] = "none" /\ p \in Pids /\ holder[p] = NoSession
  BY DEF Unborn, FreePids
<1>3. NoSession \notin Sessions
  BY DEF Sessions, NoSession
<1>4. BridgesTyped'
  BY <1>1, <1>2 DEF Spawn, BridgesTyped, Lifes
<1>5. \A x \in Sessions : /\ life'[x] = (IF x = b THEN "serving" ELSE life[x])
                          /\ pid'[x] = (IF x = b THEN p ELSE pid[x])
  BY <1>1, <1>2 DEF BridgesTyped
<1>6. \A x \in Sessions : Lives(x)' <=> (x = b \/ Lives(x))
  BY <1>5 DEF Lives
<1>7. \A q \in Pids : holder'[q] = IF q = p THEN b ELSE holder[q]
  BY <1>1, <1>2 DEF BridgesTyped
<1>8. Onward
  BY <1>2, <1>5, <1>6 DEF Onward
<1>9. ASSUME NEW x \in Sessions, Lives(x)' PROVE holder'[pid'[x]] = x
  <2>1. CASE x = b
    BY <2>1, <1>2, <1>5, <1>7
  <2>2. CASE x # b
    <3>1. Lives(x) /\ holder[pid[x]] = x /\ pid[x] \in Pids
      BY <2>2, <1>6, <1>9 DEF Processes, Lives
    <3> QED
      BY <3>1, <2>2, <1>2, <1>3, <1>5, <1>7
  <2> QED
    BY <2>1, <2>2
<1>10. ASSUME NEW q \in Pids, holder'[q] \in Sessions
       PROVE  Lives(holder[q])' /\ pid'[holder'[q]] = q
  <2>1. CASE q = p
    BY <2>1, <1>2, <1>5, <1>6, <1>7
  <2>2. CASE q # p
    <3>1. holder'[q] = holder[q] /\ Lives(holder[q]) /\ pid[holder[q]] = q
      BY <2>2, <1>7, <1>10 DEF Processes
    <3>2. holder[q] # b
      BY <3>1, <1>2 DEF Lives
    <3> QED
      BY <3>1, <3>2, <1>5, <1>6, <1>10
  <2> QED
    BY <2>1, <2>2
<1>11. \A x \in Sessions : life'[x] # "none" => pid'[x] \in Pids
  BY <1>2, <1>5 DEF Processes
<1> QED
  BY <1>1, <1>2, <1>4, <1>5, <1>8, <1>9, <1>10, <1>11 DEF Processes

\* A command signals its own bridge or nobody.
LEMMA Signals ==
    ASSUME BridgesTyped, CommandsTyped, NEW c \in Commands, Stopping(c),
           place[c] # "verify", SignalReaches(c)
    PROVE  Addressed(c) = found[c] /\ found[c] \in Sessions /\ Lives(found[c])
<1>1. Stranger # NoSession /\ Stranger \notin Sessions /\ NoSession \notin Sessions
  BY SessionAssumption DEF Stranger, Sessions, NoSession
<1> QED
  BY <1>1 DEF SignalReaches, Addressed, Stopping, CommandsTyped

LEMMA WorldStep ==
    ASSUME BridgesTyped, Processes, World
    PROVE  BridgesTyped' /\ Processes' /\ Onward
<1>1. CASE Spawn
  BY <1>1, Spawns
<1>2. ASSUME NEW b \in Sessions, NEW t \in Targets, Load(b, t) \/ Change(b, t) \/ Save(b, t)
      PROVE  BridgesTyped' /\ Processes' /\ Onward
  <2>1. UNCHANGED <<life, pid, holder, record>>
    BY <1>2 DEF Load, Change, Save
  <2>2. BridgesTyped'
    BY <1>2, <2>1 DEF Load, Change, Save, BridgesTyped
  <2> QED
    BY <2>1, <2>2, GoesOn DEF BridgesTyped
<1>3. ASSUME NEW b \in Sessions, LoseSocket(b) \/ RetireBridge(b) \/ ReleaseFiles(b)
      PROVE  BridgesTyped' /\ Processes' /\ Onward
  <2>1. /\ UNCHANGED <<pid, holder, open, unsaved>> /\ Lives(b)
        /\ record' \in {record, NoSession}
        /\ \E l \in {"deaf", "draining", "closing"} : life' = [life EXCEPT ![b] = l]
    BY <1>3 DEF LoseSocket, RetireBridge, ReleaseFiles, Lives
  <2>2. life' \in [Sessions -> Lifes] /\ \A x \in Sessions : life'[x] = life[x] \/ (x = b /\ Lives(x)')
    BY <2>1 DEF BridgesTyped, Lives, Lifes
  <2>3. BridgesTyped'
    BY <2>1, <2>2 DEF BridgesTyped
  <2> QED
    BY <2>1, <2>2, <2>3, GoesOn
<1>4. ASSUME NEW b \in Sessions, Die(b) PROVE BridgesTyped' /\ Processes' /\ Onward
  BY <1>4, Exits DEF Die, BridgesTyped
<1>5. ASSUME NEW p \in Pids, Recycle(p) PROVE BridgesTyped' /\ Processes' /\ Onward
  <2>1. Stranger \notin Sessions /\ NoSession \notin Sessions
    BY SessionAssumption DEF Stranger, Sessions, NoSession
  <2>2. BridgesTyped'
    BY <1>5 DEF Recycle, BridgesTyped
  <2>3. \A q \in Pids : holder'[q] = IF q = p THEN Stranger ELSE holder[q]
    BY <1>5 DEF Recycle, BridgesTyped
  <2>4. UNCHANGED <<life, pid, record>> /\ holder[p] = NoSession
    BY <1>5 DEF Recycle
  <2>5. \A b \in Sessions : Lives(b)' <=> Lives(b)
    BY <2>4 DEF Lives
  <2>6. \A b \in Sessions : Lives(b)' => holder'[pid'[b]] = b
    BY <2>1, <2>3, <2>4, <2>5 DEF Processes, Lives
  <2>7. \A q \in Pids : holder'[q] \in Sessions => Lives(holder[q])' /\ pid'[holder'[q]] = q
    BY <2>1, <2>3, <2>4 DEF Processes, Lives
  <2>8. Onward
    BY <2>4, <2>5 DEF Onward
  <2> QED
    BY <2>2, <2>4, <2>6, <2>7, <2>8 DEF Processes
<1> QED
  BY <1>1, <1>2, <1>3, <1>4, <1>5 DEF World

\* Only listed targets are loaded again.
LEMMA LoadedAreTargets ==
    ASSUME CommandsTyped, NEW c \in Commands,
           NEW loaded \in SUBSET (IF Answering THEN listed[c] \ Unlisted ELSE {})
    PROVE  loaded \in SUBSET Targets
<1>1. loaded \subseteq listed[c] \ {NoSession}
  BY DEF Unlisted
<1>2. listed[c] \subseteq Targets \/ listed[c] = {NoSession}
  <2>1. listed[c] \in (SUBSET Targets) \union {Unlisted}
    BY DEF CommandsTyped
  <2> QED
    BY <2>1 DEF Unlisted
<1> QED
  BY <1>1, <1>2

LEMMA CommandBridges ==
    ASSUME BridgesTyped, CommandsTyped, Processes, NEW c \in Commands, Stopping(c), Command(c)
    PROVE  BridgesTyped' /\ Processes' /\ Onward
<1>1. CASE UNCHANGED <<life, pid, holder, unsaved>> /\ record' \in {record, NoSession}
           /\ open' \in [Sessions -> SUBSET Targets]
  BY <1>1, GoesOn DEF BridgesTyped
<1>2. CASE Find(c) \/ Probe(c) \/ Pin(c) \/ Verify(c) \/ ShutdownFails(c)
           \/ SignalFails(c) \/ WaitEnds(c) \/ WaitTimesOut(c)
  BY <1>2, <1>1, Recording DEF Find, Probe, Pin, Verify, ShutdownFails, SignalFails, WaitEnds,
     WaitTimesOut, bridgeVars, BridgesTyped
<1>3. CASE Shutdown(c)
  <2>1. Recorded \in Sessions /\ Lives(Recorded)
    BY <1>3, Recording DEF Shutdown, Answering, Recorded, BridgesTyped, Lives
  <2>2. life' = [life EXCEPT ![Recorded] = "draining"]
        /\ UNCHANGED <<pid, holder, record, open, unsaved>>
    BY <1>3 DEF Shutdown
  <2>3. life' \in [Sessions -> Lifes]
        /\ \A b \in Sessions : life'[b] = life[b] \/ (Lives(b) /\ Lives(b)')
    BY <2>1, <2>2 DEF BridgesTyped, Lives, Lifes
  <2> QED
    BY <2>2, <2>3, GoesOn DEF BridgesTyped
<1>4. CASE Terminate(c)
  <2>1. UNCHANGED <<pid, holder, record, open, unsaved>>
    BY <1>4 DEF Terminate
  <2>2. life' \in [Sessions -> Lifes]
        /\ \A b \in Sessions : life'[b] = life[b] \/ (Lives(b) /\ Lives(b)')
    BY <1>4 DEF Terminate, BridgesTyped, Lives, Lifes
  <2> QED
    BY <2>1, <2>2, GoesOn DEF BridgesTyped
<1>5. CASE Kill(c)
  <2>1. Addressed(c) \in Sessions /\ Lives(Addressed(c))
    BY <1>5, Signals DEF Kill
  <2>2. Exit(Addressed(c)) /\ UNCHANGED <<pid, record, open, unsaved>>
    BY <1>5, <2>1 DEF Kill
  <2> QED
    BY <2>1, <2>2, Exits DEF BridgesTyped
<1>6. CASE Respawn(c)
  <2>1. CASE Spawn
    BY <2>1, Spawns
  <2>2. CASE UNCHANGED bridgeVars
    BY <2>2, <1>1 DEF bridgeVars, BridgesTyped
  <2> QED
    BY <1>6, <2>1, <2>2 DEF Respawn
<1>7. CASE Reload(c)
  <2>1. PICK loaded \in SUBSET (IF Answering THEN listed[c] \ Unlisted ELSE {}) :
           open' = [b \in Sessions |-> IF b = Recorded THEN open[b] \union loaded ELSE open[b]]
    BY <1>7 DEF Reload
  <2>2. loaded \in SUBSET Targets
    BY <2>1, LoadedAreTargets
  <2>3. open' \in [Sessions -> SUBSET Targets]
    BY <2>1, <2>2 DEF BridgesTyped
  <2> QED
    BY <2>3, <1>1, <1>7 DEF Reload
<1> QED
  BY <1>2, <1>3, <1>4, <1>5, <1>6, <1>7 DEF Command

-----------------------------------------------------------------------------
(* The types of what commands have in hand.                                  *)

LEMMA LateTyped ==
    ASSUME CommandsTyped, NEW b, NEW ts \in SUBSET Targets, LateFor(b, ts)
    PROVE  late' \in [Commands -> SUBSET Targets]
BY DEF CommandsTyped, LateFor

LEMMA WorldTypes ==
    ASSUME CommandsTyped, World
    PROVE  CommandsTyped'
<1>1. late' \in [Commands -> SUBSET Targets]
  <2>1. CASE UNCHANGED late
    BY <2>1 DEF CommandsTyped
  <2>2. ASSUME NEW b \in Sessions, NEW t \in Targets, LateFor(b, {t})
        PROVE  late' \in [Commands -> SUBSET Targets]
    BY <2>2, LateTyped
  <2> QED
    BY <2>1, <2>2 DEF World, Load, Change, Save, LoseSocket, RetireBridge, ReleaseFiles, Die, Recycle
<1> QED
  BY <1>1 DEF World, CommandsTyped

\* What each command does to its own place and report.
LEMMA CommandTypes ==
    ASSUME BridgesTyped, CommandsTyped, Processes, NEW c \in Commands, Stopping(c), Command(c)
    PROVE  CommandsTyped'
<1>1. ASSUME NEW s \in Stages, To(c, s) PROVE place' \in [Commands -> Stages]
  BY <1>1 DEF To, CommandsTyped
<1>2. ASSUME NEW o \in Reports, Report(c, o)
      PROVE  place' \in [Commands -> Stages] /\ outcome' \in [Commands -> Reports]
  BY <1>2 DEF To, Report, CommandsTyped, Stages
<1>3. Recorded \in Sessions \union {NoSession}
  BY Recording DEF BridgesTyped
<1>4. place' \in [Commands -> Stages] /\ outcome' \in [Commands -> Reports]
  <2>1. \/ \E s \in Stages : To(c, s) /\ UNCHANGED outcome
        \/ \E o \in Reports : Report(c, o)
    <3>1. CASE Find(c) \/ WaitEnds(c) \/ WaitTimesOut(c) \/ Respawn(c)
      BY <3>1 DEF Find, WaitEnds, WaitTimesOut, Respawn, Stages, Reports
    <3>2. CASE Probe(c)
      BY <3>2 DEF Probe, ProbeUnheard, ProbeUnanswered, ProbeAnswered, Stages, Reports
    <3>3. CASE Pin(c) \/ Verify(c) \/ Shutdown(c) \/ ShutdownFails(c) \/ Terminate(c) \/ Kill(c)
      BY <3>3 DEF Pin, Verify, Shutdown, ShutdownFails, Terminate, Kill, Stages
    <3>4. CASE SignalFails(c) \/ Reload(c)
      BY <3>4 DEF SignalFails, Reload, Reports
    <3> QED
      BY <3>1, <3>2, <3>3, <3>4 DEF Command
  <2> QED
    BY <2>1, <1>1, <1>2 DEF CommandsTyped
<1>5. found' \in [Commands -> Sessions \union {NoSession}]
  BY <1>3 DEF Command, Find, Probe, Pin, Verify, Shutdown, ShutdownFails, Terminate, Kill,
     SignalFails, WaitEnds, WaitTimesOut, Respawn, Reload, CommandsTyped
<1>6. listed' \in [Commands -> (SUBSET Targets) \union {Unlisted}]
  <2>1. CASE Probe(c)
    <3>1. found[c] \in Sessions /\ open[found[c]] \in SUBSET Targets
      BY <2>1 DEF Probe, Stopping, CommandsTyped, BridgesTyped
    <3> QED
      BY <2>1, <3>1 DEF Probe, ProbeUnheard, ProbeUnanswered, ProbeAnswered, CommandsTyped
  <2> QED
    BY <2>1 DEF Command, Find, Pin, Verify, Shutdown, ShutdownFails, Terminate, Kill,
       SignalFails, WaitEnds, WaitTimesOut, Respawn, Reload, CommandsTyped
<1>7. grip' \in [Commands -> Sessions \union {NoSession, Stranger}]
  <2>1. CASE Pin(c)
    <3>1. PICK x : x = holder[pid[found[c]]] /\ grip' = [grip EXCEPT ![c] = x]
      BY <2>1 DEF Pin
    <3>2. found[c] \in Sessions /\ life[found[c]] # "none" /\ place[c] = "pin"
      BY <2>1 DEF Pin, Stopping, CommandsTyped
    <3> QED
      BY <3>1, <3>2 DEF CommandsTyped, BridgesTyped, Processes
  <2>2. CASE Verify(c)
    BY <2>2 DEF Verify, CommandsTyped
  <2> QED
    BY <2>1, <2>2 DEF Command, Find, Probe, Shutdown, ShutdownFails, Terminate, Kill,
       SignalFails, WaitEnds, WaitTimesOut, Respawn, Reload, CommandsTyped
<1>8. hit' \in [Commands -> SUBSET Sessions] /\ signalled' \in [Commands -> SUBSET Sessions]
  <2>1. CASE Shutdown(c)
    BY <2>1, <1>3 DEF Shutdown, Answering, CommandsTyped
  <2>2. CASE Terminate(c) \/ Kill(c)
    BY <2>2, Signals DEF Terminate, Kill, Signal, CommandsTyped
  <2> QED
    BY <2>1, <2>2 DEF Command, Find, Probe, Pin, Verify, ShutdownFails,
       SignalFails, WaitEnds, WaitTimesOut, Respawn, Reload, CommandsTyped
<1>9. late' \in [Commands -> SUBSET Targets] /\ back' \in [Commands -> SUBSET Targets]
  <2>1. CASE Probe(c)
    BY <2>1 DEF Probe, CommandsTyped
  <2>2. CASE Reload(c)
    <3>1. PICK loaded \in SUBSET (IF Answering THEN listed[c] \ Unlisted ELSE {}) :
             back' = [back EXCEPT ![c] = loaded] /\ LateFor(Recorded, loaded)
      BY <2>2 DEF Reload
    <3>2. loaded \in SUBSET Targets
      BY <3>1, LoadedAreTargets
    <3> QED
      BY <3>1, <3>2, LateTyped DEF CommandsTyped
  <2> QED
    BY <2>1, <2>2 DEF Command, Find, Pin, Verify, Shutdown, ShutdownFails, Terminate, Kill,
       SignalFails, WaitEnds, WaitTimesOut, Respawn, CommandsTyped
<1>10. UNCHANGED <<restarts, discard>>
  BY DEF Command, Find, Probe, Pin, Verify, Shutdown, ShutdownFails, Terminate, Kill,
     SignalFails, WaitEnds, WaitTimesOut, Respawn, Reload
<1> QED
  BY <1>4, <1>5, <1>6, <1>7, <1>8, <1>9, <1>10 DEF CommandsTyped

-----------------------------------------------------------------------------
(* What commands know, and what changes behind their backs.                  *)

\* Whatever a bridge comes to hold after a command asked is late for that command.
Watched(c) ==
    /\ late[c] \subseteq late'[c]
    /\ Asked(c) /\ found[c] # NoSession =>
           /\ unsaved'[found[c]] \subseteq unsaved[found[c]] \union late'[c]
           /\ open'[found[c]] \subseteq open[found[c]] \union late'[c]

LEMMA Watching ==
    ASSUME BridgesTyped, CommandsTyped, NEW c \in Commands,
           World \/ \E d \in Commands : Command(d) /\ (d = c => place[c] # "probe")
    PROVE  Watched(c)
<1>1. found[c] \in Sessions \union {NoSession} /\ NoSession \notin Sessions
  BY DEF CommandsTyped, Sessions, NoSession
<1>2. ASSUME UNCHANGED <<open, unsaved>>, late'[c] = late[c] PROVE Watched(c)
  BY <1>2 DEF Watched
<1>3. ASSUME NEW b \in Sessions, NEW t \in Targets, Load(b, t) \/ Change(b, t) \/ Save(b, t)
      PROVE  Watched(c)
  <2>1. CASE Load(b, t)
    <3>1. late'[c] = late[c] \union {x \in {t} : found[c] = b /\ Asked(c)}
      BY <2>1 DEF Load, LateFor
    <3>2. UNCHANGED unsaved /\ \A x \in Sessions : open'[x] = IF x = b THEN open[x] \union {t} ELSE open[x]
      BY <2>1 DEF Load, BridgesTyped
    <3> QED
      BY <3>1, <3>2, <1>1 DEF Watched
  <2>2. CASE Change(b, t)
    <3>1. late'[c] = late[c] \union {x \in {t} : found[c] = b /\ Asked(c)}
      BY <2>2 DEF Change, LateFor
    <3>2. UNCHANGED open /\ \A x \in Sessions : unsaved'[x] = IF x = b THEN unsaved[x] \union {t} ELSE unsaved[x]
      BY <2>2 DEF Change, BridgesTyped
    <3> QED
      BY <3>1, <3>2, <1>1 DEF Watched
  <2>3. CASE Save(b, t)
    <3>1. \A x \in Sessions : unsaved'[x] \subseteq unsaved[x]
      BY <2>3 DEF Save, BridgesTyped
    <3> QED
      BY <2>3, <3>1, <1>1 DEF Save, Watched
  <2> QED
    BY <1>3, <2>1, <2>2, <2>3
<1>4. CASE World
  <2>1. \/ UNCHANGED <<open, unsaved, late>>
        \/ \E b \in Sessions, t \in Targets : Load(b, t) \/ Change(b, t) \/ Save(b, t)
    BY <1>4 DEF World, Spawn, LoseSocket, RetireBridge, ReleaseFiles, Die, Recycle
  <2> QED
    BY <2>1, <1>2, <1>3
<1>5. ASSUME NEW d \in Commands, Command(d), d = c => place[c] # "probe" PROVE Watched(c)
  <2>1. CASE Probe(d)
    <3>1. d # c /\ UNCHANGED <<open, unsaved>>
      BY <2>1, <1>5 DEF Probe, bridgeVars
    <3>2. late'[c] = late[c]
      BY <2>1, <3>1 DEF Probe, CommandsTyped
    <3> QED
      BY <3>1, <3>2, <1>2
  <2>2. CASE Reload(d)
    <3>1. PICK loaded \in SUBSET (IF Answering THEN listed[d] \ Unlisted ELSE {}) :
             /\ open' = [b \in Sessions |-> IF b = Recorded THEN open[b] \union loaded ELSE open[b]]
             /\ LateFor(Recorded, loaded)
      BY <2>2 DEF Reload
    <3>2. late'[c] = late[c] \union {t \in loaded : found[c] = Recorded /\ Asked(c)}
      BY <3>1 DEF LateFor
    <3>3. \A b \in Sessions : open'[b] = IF b = Recorded THEN open[b] \union loaded ELSE open[b]
      BY <3>1
    <3> QED
      BY <2>2, <3>2, <3>3, <1>1 DEF Reload, Watched
  <2>3. CASE ~Probe(d) /\ ~Reload(d)
    <3>1. UNCHANGED <<open, unsaved, late>>
      BY <2>3, <1>5 DEF Command, Find, Pin, Verify, Shutdown, ShutdownFails, Terminate, Kill,
         SignalFails, WaitEnds, WaitTimesOut, Respawn, Spawn, bridgeVars
    <3> QED
      BY <3>1, <1>2
  <2> QED
    BY <2>1, <2>2, <2>3
<1> QED
  BY <1>4, <1>5

Still(c) == /\ place'[c] = place[c] /\ discard'[c] = discard[c] /\ found'[c] = found[c]
            /\ listed'[c] = listed[c] /\ grip'[c] = grip[c]
            /\ hit'[c] = hit[c] /\ signalled'[c] = signalled[c]
            /\ back'[c] = back[c] /\ outcome'[c] = outcome[c]

\* The steps of others leave a command's account true.
LEMMA OtherStep ==
    ASSUME CommandsTyped, NEW c \in Commands, Stopping(c), Knowing(c),
           Still(c), Onward, Watched(c)
    PROVE  Stopping(c)' /\ Knowing(c)'
<1>1. found[c] \in Sessions \union {NoSession}
  BY DEF CommandsTyped
<1>2. found[c] # NoSession =>
         /\ life[found[c]] # "none" => /\ life'[found[c]] # "none"
                                       /\ Lives(found[c])' => Lives(found[c])
  BY <1>1 DEF Onward, Still, Lives
<1>3. Stopping(c)'
  BY <1>1, <1>2 DEF Stopping, Still
<1>4. Asked(c)' <=> Asked(c)
  BY DEF Asked, Still
<1>5. Knowing(c)'
  BY <1>4 DEF Knowing, Still, Watched
<1> QED
  BY <1>3, <1>5

LEMMA WorldIsStill ==
    ASSUME World, NEW c \in Commands
    PROVE  Still(c)
BY DEF World, Still

LEMMA OthersAreStill ==
    ASSUME CommandsTyped, NEW c \in Commands, NEW d \in Commands \ {c}, Command(d)
    PROVE  Still(c)
<1>1. ASSUME NEW s, To(d, s) PROVE place'[c] = place[c]
  BY <1>1 DEF To, CommandsTyped
<1>2. ASSUME NEW o, Report(d, o) PROVE place'[c] = place[c] /\ outcome'[c] = outcome[c]
  BY <1>2 DEF To, Report, CommandsTyped
<1>3. Signal(d) => signalled'[c] = signalled[c]
  BY DEF Signal, CommandsTyped
<1>4. CASE Find(d) \/ Pin(d) \/ Verify(d)
  BY <1>4, <1>1, <1>2 DEF Find, Pin, Verify, Still, CommandsTyped
<1>5. CASE Probe(d)
  BY <1>5, <1>1, <1>2 DEF Probe, ProbeUnheard, ProbeUnanswered, ProbeAnswered, Still, CommandsTyped
<1>6. CASE Shutdown(d) \/ ShutdownFails(d) \/ Terminate(d) \/ Kill(d)
  BY <1>6, <1>1, <1>3 DEF Shutdown, ShutdownFails, Terminate, Kill, Still, CommandsTyped
<1>7. CASE SignalFails(d) \/ WaitEnds(d) \/ WaitTimesOut(d) \/ Respawn(d)
  BY <1>7, <1>1, <1>2 DEF SignalFails, WaitEnds, WaitTimesOut, Respawn, Still
<1>8. CASE Reload(d)
  BY <1>8, <1>2 DEF Reload, Still, CommandsTyped
<1> QED
  BY <1>4, <1>5, <1>6, <1>7, <1>8 DEF Command

-----------------------------------------------------------------------------
(* The steps of a command itself.                                            *)

LEMMA Going ==
    ASSUME CommandsTyped, NEW c \in Commands
    PROVE  /\ \A s : To(c, s) => place'[c] = s
           /\ \A o : Report(c, o) => place'[c] = "done" /\ outcome'[c] = o
           /\ Signal(c) => signalled'[c] = signalled[c] \union {Addressed(c)}
BY DEF To, Report, Signal, CommandsTyped

\* The bridge that a lookup resolves lives.
LEMMA RecordedLives ==
    ASSUME BridgesTyped
    PROVE  Recorded # NoSession => Recorded \in Sessions /\ Lives(Recorded) /\ life[Recorded] # "none"
BY DEF Recorded, BridgesTyped, Lives

LEMMA FindStep ==
    ASSUME BridgesTyped, CommandsTyped, NEW c \in Commands, Stopping(c), Knowing(c), Find(c)
    PROVE  Stopping(c)' /\ Knowing(c)'
<1>1. /\ place[c] = "find" /\ found'[c] = Recorded /\ life' = life
      /\ UNCHANGED <<listed, grip, hit, signalled, late, back, discard, open, unsaved>>
  BY DEF Find, CommandsTyped
<1>2. \/ place'[c] = "probe" /\ outcome'[c] = outcome[c] /\ Recorded # NoSession
      \/ place'[c] = "shutdown" /\ outcome'[c] = outcome[c] /\ Recorded = NoSession
      \/ place'[c] = "done" /\ outcome'[c] = "failed" /\ Recorded = NoSession
  BY Going DEF Find
<1>3. /\ hit[c] = {} /\ signalled[c] = {} /\ grip[c] = NoSession /\ listed[c] = Unlisted
      /\ outcome[c] = "none"
  BY <1>1 DEF Stopping, Knowing, Asked
<1>4. Stopping(c)'
  BY <1>1, <1>2, <1>3, RecordedLives DEF Stopping, Finished
<1>5. Knowing(c)'
  BY <1>1, <1>2, <1>3 DEF Knowing, Asked
<1> QED
  BY <1>4, <1>5

LEMMA ProbeStep ==
    ASSUME BridgesTyped, CommandsTyped, NEW c \in Commands, Stopping(c), Knowing(c), Probe(c)
    PROVE  Stopping(c)' /\ Knowing(c)'
<1>1. /\ place[c] = "probe"
      /\ UNCHANGED <<life, open, unsaved, discard, found, grip, hit, signalled, back>>
      /\ found[c] \in Sessions /\ found[c] # NoSession /\ life[found[c]] # "none"
      /\ hit[c] = {} /\ signalled[c] = {} /\ outcome[c] = "none" /\ grip[c] \in {NoSession, found[c]}
      /\ listed[c] = Unlisted
      /\ unsaved[found[c]] \subseteq Targets /\ open[found[c]] \subseteq Targets
  BY DEF Probe, Stopping, Knowing, Asked, bridgeVars, CommandsTyped, BridgesTyped
<1>2. late'[c] = IF life[found[c]] \in {"serving", "draining"} THEN {} ELSE Targets
  BY DEF Probe, CommandsTyped
<1>3. \/ /\ place'[c] = "pin" /\ outcome'[c] = "none"
         /\ discard[c] \/ late'[c] = Targets \/ unsaved[found[c]] = {}
      \/ place'[c] = "done" /\ outcome'[c] = "refused"
  <2>1. CASE ProbeUnheard(c)
    BY <2>1, <1>1, <1>2, Going DEF ProbeUnheard, OutOfReach
  <2>2. CASE ProbeUnanswered(c)
    BY <2>2, <1>1, Going DEF ProbeUnanswered
  <2>3. CASE ProbeAnswered(c)
    BY <2>3, <1>1, Going DEF ProbeAnswered
  <2> QED
    BY <2>1, <2>2, <2>3 DEF Probe
<1>4. listed'[c] = Unlisted \/ (listed'[c] = open[found[c]] /\ place'[c] # "probe")
  BY <1>1, <1>3 DEF Probe, ProbeUnheard, ProbeUnanswered, ProbeAnswered, CommandsTyped
<1>5. Asked(c)'
  BY <1>3 DEF Asked
<1>6. Stopping(c)'
  BY <1>1, <1>3 DEF Stopping, Finished
<1>7. ASSUME ~discard[c], place'[c] # "done" \/ found[c] \in hit'[c] \union signalled'[c]
      PROVE  unsaved[found[c]] \subseteq late'[c]
  BY <1>1, <1>3, <1>7
<1>8. listed'[c] # Unlisted => open[found[c]] \subseteq listed'[c] \union late'[c]
  BY <1>4
<1>9. Knowing(c)'
  BY <1>1, <1>3, <1>5, <1>7, <1>8 DEF Knowing
<1> QED
  BY <1>6, <1>9

\* What is pinned while the bridge holds its process id is the bridge.
LEMMA PinStep ==
    ASSUME BridgesTyped, CommandsTyped, Processes, NEW c \in Commands,
           Stopping(c), Knowing(c), Pin(c)
    PROVE  Stopping(c)' /\ Knowing(c)'
<1>1. /\ place[c] = "pin" /\ place'[c] = "verify"
      /\ grip'[c] = holder[pid[found[c]]]
      /\ UNCHANGED <<life, open, unsaved, discard, found, listed, hit, signalled, late, back, outcome>>
  BY Going DEF Pin, CommandsTyped, bridgeVars
<1>2. found[c] \in Sessions /\ (Lives(found[c]) => holder[pid[found[c]]] = found[c])
  BY <1>1 DEF Stopping, CommandsTyped, Processes
<1>3. Lives(found[c])' <=> Lives(found[c])
  BY <1>1 DEF Lives
<1>4. Stopping(c)'
  BY <1>1, <1>2, <1>3 DEF Stopping, Finished
<1>5. Knowing(c)'
  BY <1>1 DEF Knowing, Asked
<1> QED
  BY <1>4, <1>5

\* A grip is kept only if the bridge still holds its number, so it lives, and is what
\* the grip is on.
LEMMA VerifyStep ==
    ASSUME BridgesTyped, CommandsTyped, Processes, NEW c \in Commands,
           Stopping(c), Knowing(c), Verify(c)
    PROVE  Stopping(c)' /\ Knowing(c)'
<1>1. /\ place[c] = "verify" /\ place'[c] = "shutdown"
      /\ grip'[c] = IF Proven(c) THEN grip[c] ELSE NoSession
      /\ UNCHANGED <<life, open, unsaved, discard, found, listed, hit, signalled, late, back, outcome>>
  BY Going DEF Verify, CommandsTyped, bridgeVars
<1>2. found[c] \in Sessions /\ pid[found[c]] \in Pids
  BY <1>1 DEF Stopping, CommandsTyped, Processes
<1>3. Proven(c) => grip[c] = found[c]
  BY <1>1, <1>2 DEF Proven, Processes, Stopping
<1>4. Stopping(c)'
  BY <1>1, <1>3 DEF Stopping, Finished
<1>5. Knowing(c)'
  BY <1>1 DEF Knowing, Asked
<1> QED
  BY <1>4, <1>5

LEMMA ShutdownStep ==
    ASSUME BridgesTyped, CommandsTyped, NEW c \in Commands, Onward,
           Stopping(c), Knowing(c), Shutdown(c) \/ ShutdownFails(c)
    PROVE  Stopping(c)' /\ Knowing(c)'
<1>1. /\ place[c] = "shutdown" /\ place'[c] \in {"wait", "signal"}
      /\ UNCHANGED <<open, unsaved, discard, found, listed, grip, signalled, late, back, outcome>>
  BY Going DEF Shutdown, ShutdownFails, bridgeVars
<1>2. found[c] \in Sessions \union {NoSession} /\ outcome[c] = "none"
  BY <1>1 DEF Stopping, CommandsTyped
<1>3. Stopping(c)'
  BY <1>1, <1>2 DEF Stopping, Finished, Onward
<1>4. Knowing(c)'
  BY <1>1, <1>2 DEF Knowing, Asked
<1> QED
  BY <1>3, <1>4

LEMMA SignalStep ==
    ASSUME BridgesTyped, CommandsTyped, NEW c \in Commands, Onward,
           Stopping(c), Knowing(c), Terminate(c) \/ Kill(c) \/ SignalFails(c)
    PROVE  Stopping(c)' /\ Knowing(c)'
<1>1. /\ place[c] \in {"signal", "kill"}
      /\ \/ place'[c] \in {"wait", "waitKilled"} /\ outcome' = outcome
         \/ place'[c] = "done" /\ outcome'[c] = "failed" /\ signalled' = signalled
      /\ UNCHANGED <<open, unsaved, discard, found, listed, grip, hit, late, back>>
  BY Going DEF Terminate, Kill, SignalFails, bridgeVars
<1>2. found[c] \in Sessions \union {NoSession} /\ outcome[c] = "none"
  BY <1>1 DEF Stopping, CommandsTyped
<1>5. signalled'[c] = signalled[c] \/ signalled'[c] \subseteq {found[c]}
  <2>1. CASE Terminate(c) \/ Kill(c)
    <3>1. signalled'[c] = signalled[c] \union {grip[c]} /\ grip[c] \in Sessions \union {Stranger}
      BY <2>1, Going DEF Terminate, Kill, SignalReaches, Addressed
    <3>2. grip[c] = found[c]
      BY <1>1, <3>1, SessionAssumption DEF Stopping, Sessions, Stranger, NoSession
    <3> QED
      BY <3>1, <3>2 DEF Stopping
  <2> QED
    BY <2>1 DEF SignalFails
<1>3. Stopping(c)'
  BY <1>1, <1>2, <1>5 DEF Stopping, Finished, Onward
<1>4. Knowing(c)'
  BY <1>1, <1>2 DEF Knowing, Asked
<1> QED
  BY <1>3, <1>4

\* A wait that succeeds has seen the bridge end.
LEMMA WaitStep ==
    ASSUME BridgesTyped, CommandsTyped, NEW c \in Commands,
           Stopping(c), Knowing(c), WaitEnds(c) \/ WaitTimesOut(c)
    PROVE  Stopping(c)' /\ Knowing(c)'
<1>1. /\ place[c] \in {"wait", "waitKilled"}
      /\ UNCHANGED <<life, open, unsaved, discard, found, listed, grip, hit, signalled, late, back>>
  BY DEF WaitEnds, WaitTimesOut, bridgeVars
<1>2. \/ place'[c] = "respawn" /\ outcome' = outcome /\ TornDown(c)
      \/ place'[c] = "done" /\ outcome'[c] = "stopped" /\ TornDown(c)
      \/ place'[c] = "kill" /\ outcome' = outcome
      \/ place'[c] = "done" /\ outcome'[c] = "failed"
  BY Going DEF WaitEnds, WaitTimesOut
<1>3. outcome[c] = "none" /\ (TornDown(c) /\ found[c] # NoSession => ~Lives(found[c]))
  BY <1>1 DEF Stopping, TornDown
<1>4. Lives(found[c])' <=> Lives(found[c])
  BY <1>1 DEF Lives
<1>5. Stopping(c)'
  BY <1>1, <1>2, <1>3, <1>4 DEF Stopping, Finished
<1>6. Knowing(c)'
  BY <1>1, <1>2 DEF Knowing, Asked
<1> QED
  BY <1>5, <1>6

LEMMA RespawnStep ==
    ASSUME BridgesTyped, CommandsTyped, NEW c \in Commands, Onward,
           Stopping(c), Knowing(c), Respawn(c)
    PROVE  Stopping(c)' /\ Knowing(c)'
<1>1. /\ place[c] = "respawn"
      /\ UNCHANGED <<open, unsaved, discard, found, listed, grip, hit, signalled, late, back>>
      /\ \/ place'[c] = "reload" /\ outcome' = outcome
         \/ place'[c] = "done" /\ outcome'[c] = "failed"
  BY Going DEF Respawn, Spawn, bridgeVars
<1>2. /\ found[c] \in Sessions \union {NoSession} /\ outcome[c] = "none"
      /\ found[c] # NoSession => life[found[c]] # "none" /\ ~Lives(found[c])
  BY <1>1 DEF Stopping, CommandsTyped
<1>3. found[c] # NoSession => life'[found[c]] # "none" /\ ~Lives(found[c])'
  BY <1>1, <1>2 DEF Onward, Lives
<1>4. Stopping(c)'
  BY <1>1, <1>2, <1>3 DEF Stopping, Finished
<1>5. Knowing(c)'
  BY <1>1, <1>2 DEF Knowing, Asked
<1> QED
  BY <1>4, <1>5

\* What a restart reports to be back was open when its bridge was asked.
LEMMA ReloadStep ==
    ASSUME BridgesTyped, CommandsTyped, NEW c \in Commands, Watched(c),
           Stopping(c), Knowing(c), Reload(c)
    PROVE  Stopping(c)' /\ Knowing(c)'
<1>1. /\ place[c] = "reload" /\ place'[c] = "done" /\ outcome'[c] \in {"restarted", "partly"}
      /\ UNCHANGED <<life, unsaved, discard, found, listed, grip, hit, signalled>>
  BY Going DEF Reload
<1>2. outcome'[c] = "restarted" => listed[c] # Unlisted /\ back'[c] = listed[c]
  BY <1>1, Going DEF Reload, AllBack
<1>3. Lives(found[c])' <=> Lives(found[c])
  BY <1>1 DEF Lives
<1>4. Stopping(c)'
  BY <1>1, <1>3 DEF Stopping, Finished
<1>5. Asked(c) /\ Asked(c)'
  BY <1>1 DEF Asked
<1>6. Knowing(c)'
  BY <1>1, <1>2, <1>5 DEF Knowing, Watched
<1> QED
  BY <1>4, <1>6

LEMMA OwnStep ==
    ASSUME BridgesTyped, CommandsTyped, Processes, NEW c \in Commands, Onward,
           place[c] # "probe" => Watched(c), Stopping(c), Knowing(c), Command(c)
    PROVE  Stopping(c)' /\ Knowing(c)'
<1>1. CASE Reload(c)
  BY <1>1, ReloadStep DEF Reload
<1> QED
  BY <1>1, FindStep, ProbeStep, PinStep, VerifyStep, ShutdownStep, SignalStep, WaitStep,
     RespawnStep DEF Command

-----------------------------------------------------------------------------
LEMMA SessionInvInit ==
    ASSUME SessionInit
    PROVE  SessionInv
<1>1. BridgesTyped
  BY DEF SessionInit, BridgesTyped, Lifes
<1>2. CommandsTyped
  BY DEF SessionInit, CommandsTyped, Stages, Reports
<1>3. Processes
  BY SessionAssumption DEF SessionInit, Processes, Lives, Sessions, NoSession
<1>4. \A c \in Commands : Stopping(c) /\ Knowing(c)
  BY DEF SessionInit, Stopping, Knowing, Asked, Finished
<1> QED
  BY <1>1, <1>2, <1>3, <1>4 DEF SessionInv

LEMMA SessionInvStep ==
    ASSUME SessionInv, [SessionNext]_sessionVars
    PROVE  SessionInv'
<1> USE DEF SessionInv
<1>1. CASE UNCHANGED sessionVars
  BY <1>1 DEF sessionVars, bridgeVars, commandVars, BridgesTyped, CommandsTyped, Processes, Lives,
     Stopping, Knowing, Asked
<1>2. CASE World
  <2>1. BridgesTyped' /\ Processes' /\ Onward /\ CommandsTyped'
    BY <1>2, WorldStep, WorldTypes
  <2>2. \A c \in Commands : Stopping(c)' /\ Knowing(c)'
    BY <1>2, <2>1, Watching, WorldIsStill, OtherStep
  <2> QED
    BY <2>1, <2>2
<1>3. ASSUME NEW d \in Commands, Command(d) PROVE SessionInv'
  <2>1. BridgesTyped' /\ Processes' /\ Onward /\ CommandsTyped'
    BY <1>3, CommandBridges, CommandTypes
  <2>2. \A c \in Commands \ {d} : Stopping(c)' /\ Knowing(c)'
    BY <1>3, <2>1, Watching, OthersAreStill, OtherStep
  <2>3. Stopping(d)' /\ Knowing(d)'
    BY <1>3, <2>1, Watching, OwnStep
  <2> QED
    BY <2>1, <2>2, <2>3
<1> QED
  BY <1>1, <1>2, <1>3 DEF SessionNext

\* The account of the bridges, of their processes and of the commands is inductive.
THEOREM SessionInvariant == Spec => []SessionInv
<1>1. Init => SessionInv
  BY SessionInvInit DEF Init, SessionParked
<1>2. SessionInv /\ [Next]_<<part, clientVars, sessionVars, pinVars>> => SessionInv'
  BY SessionInvStep DEF Next
<1> QED
  BY <1>1, <1>2, PTL DEF Spec

\* A stop or a restart signals no process but that of the bridge that it found, whoever
\* has the recorded process id or the instance id by then -- a stranger, or a bridge that
\* was started since -- and reports success only over a bridge that has ended.
THEOREM TheBridgeEnds == Spec => []ItsBridgeEnds
<1>1. SessionInv => ItsBridgeEnds
  BY DEF SessionInv, Stopping, ItsBridgeEnds, Finished
<1> QED
  BY <1>1, SessionInvariant, PTL

\* No work that the bridge held when it was asked is lost without consent, and none of
\* the targets that were open then is missing after a full restart.
THEOREM WorkIsNotLostUnasked == Spec => []NothingLostUnasked
<1>1. SessionInv => NothingLostUnasked
  <2> SUFFICES ASSUME SessionInv, NEW c \in Commands
               PROVE  /\ found[c] \in hit[c] \union signalled[c] /\ ~discard[c] =>
                            unsaved[found[c]] \subseteq late[c]
                      /\ outcome[c] = "restarted" => open[found[c]] \subseteq back[c] \union late[c]
    BY DEF NothingLostUnasked
  <2>1. ASSUME found[c] \in hit[c] \union signalled[c] PROVE found[c] # NoSession /\ Asked(c)
    BY <2>1 DEF SessionInv, CommandsTyped, Stopping, Asked, Sessions, NoSession
  <2> QED
    BY <2>1 DEF SessionInv, Knowing
<1> QED
  BY <1>1, SessionInvariant, PTL

-----------------------------------------------------------------------------
(* The pins of a project.                                                    *)

Inside(u) == step[u] \in {"read", "write", "unlock"}

PinDomains == DOMAIN draft = Users /\ DOMAIN step = Users

\* Whoever is between taking the lock and giving it back holds it.
LockHeld == \A u \in Users : Inside(u) => flock = u

DraftIsFresh == \A u \in Users : step[u] = "write" => draft[u] = pins

PinsInv == PinDomains /\ LockHeld /\ DraftIsFresh /\ PinsSurvive

\* A command that only starts touches neither the file nor the lock.
LEMMA BeginKeepsPinsInv ==
    ASSUME PinsInv, NEW u \in Users, NEW updates, step[u] = "idle", Begin(u, updates)
    PROVE  PinsInv'
<1>1. step' = [step EXCEPT ![u] = "lock"] /\ UNCHANGED <<pins, flock, draft, intended>>
  BY DEF Begin, StepTo
<1>2. PinDomains' /\ LockHeld'
  BY <1>1 DEF PinsInv, PinDomains, LockHeld, Inside
<1>3. DraftIsFresh' /\ PinsSurvive'
  BY <1>1 DEF PinsInv, PinDomains, DraftIsFresh, PinsSurvive
<1> QED
  BY <1>2, <1>3 DEF PinsInv

LEMMA LockKeepsPinsInv ==
    ASSUME PinsInv, NEW u \in Users, Lock(u)
    PROVE  PinsInv'
<1>1. /\ step' = [step EXCEPT ![u] = "read"] /\ flock = Nothing /\ flock' = u
      /\ UNCHANGED <<pins, draft, intended>>
  BY DEF Lock, LockIsFree, StepTo
<1>2. \A w \in Users : ~Inside(w)
  BY <1>1, PinAssumption DEF PinsInv, LockHeld
<1>3. PinDomains' /\ LockHeld'
  BY <1>1, <1>2 DEF PinsInv, PinDomains, LockHeld, Inside
<1>4. DraftIsFresh' /\ PinsSurvive'
  BY <1>1 DEF PinsInv, PinDomains, DraftIsFresh, PinsSurvive
<1> QED
  BY <1>3, <1>4 DEF PinsInv

LEMMA ReadKeepsPinsInv ==
    ASSUME PinsInv, NEW u \in Users, ReadPins(u)
    PROVE  PinsInv'
<1>1. /\ step[u] = "read" /\ step' = [step EXCEPT ![u] = "write"]
      /\ draft' = [draft EXCEPT ![u] = pins]
      /\ UNCHANGED <<pins, flock, intended>>
  BY DEF ReadPins, StepTo
<1>2. PinDomains' /\ LockHeld'
  BY <1>1 DEF PinsInv, PinDomains, LockHeld, Inside
<1>3. DraftIsFresh' /\ PinsSurvive'
  BY <1>1 DEF PinsInv, PinDomains, DraftIsFresh, PinsSurvive
<1> QED
  BY <1>2, <1>3 DEF PinsInv

\* The one step that writes: nobody else stands at "write", since nobody else holds
\* the lock, and the draft is what the file still holds.
LEMMA ReplaceKeepsPinsInv ==
    ASSUME PinsInv, NEW u \in Users, Replace(u)
    PROVE  PinsInv'
<1>1. /\ step[u] = "write" /\ step' = [step EXCEPT ![u] = "unlock"]
      /\ pins' = Merge(draft[u], Head(todo[u]))
      /\ intended' = Merge(intended, Head(todo[u]))
      /\ UNCHANGED <<flock, draft>>
  BY DEF Replace, StepTo
<1>2. flock = u
  BY <1>1 DEF PinsInv, LockHeld, Inside
<1>3. PinDomains' /\ LockHeld'
  BY <1>1, <1>2 DEF PinsInv, PinDomains, LockHeld, Inside
<1>4. PinsSurvive'
  <2>1. draft[u] = pins /\ pins = intended
    BY <1>1 DEF PinsInv, DraftIsFresh, PinsSurvive
  <2> QED
    BY <1>1, <2>1 DEF PinsSurvive
<1>5. \A w \in Users : step'[w] # "write"
  BY <1>1, <1>2 DEF PinsInv, PinDomains, LockHeld, Inside
<1> QED
  BY <1>3, <1>4, <1>5 DEF PinsInv, DraftIsFresh

\* A process that unlocks or dies gives back only its own lock.
LEMMA LeaveKeepsPinsInv ==
    ASSUME PinsInv, NEW u \in Users, Drop(u), UNCHANGED <<pins, intended>>,
           draft' = [draft EXCEPT ![u] = NoPins],
           NEW s \in {"idle", "lock"}, StepTo(u, s)
    PROVE  PinsInv'
<1>1. step' = [step EXCEPT ![u] = s]
  BY DEF StepTo
<1>2. PinDomains' /\ LockHeld'
  BY <1>1 DEF PinsInv, PinDomains, LockHeld, Inside, Drop
<1>3. DraftIsFresh' /\ PinsSurvive'
  BY <1>1 DEF PinsInv, PinDomains, DraftIsFresh, PinsSurvive
<1> QED
  BY <1>2, <1>3 DEF PinsInv

\* No update of the pins is lost, for any number of commands that race and die.
THEOREM PinUpdatesSurvive == Spec => []PinsSurvive
<1>1. Init => PinsInv
  BY DEF Init, PinsInit, PinsInv, PinDomains, LockHeld, Inside, DraftIsFresh, PinsSurvive
<1>2. PinsInv /\ [PinsNext]_pinVars => PinsInv'
  <2>1. CASE UNCHANGED pinVars
    BY <2>1 DEF pinVars, PinsInv, PinDomains, LockHeld, Inside, DraftIsFresh, PinsSurvive
  <2>2. ASSUME PinsInv, PinsNext PROVE PinsInv'
    <3>1. PICK u \in Users :
             \/ step[u] = "idle" /\ \/ TargetClear(u) \/ InstanceClear(u)
                                    \/ \E v \in PinValues : TargetUse(u, v) \/ InstanceUse(u, v)
             \/ Lock(u) \/ ReadPins(u) \/ Replace(u) \/ Unlock(u) \/ Interrupt(u)
      BY <2>2 DEF PinsNext
    <3>2. CASE step[u] = "idle" /\ TargetClear(u)
      BY <2>2, <3>2, BeginKeepsPinsInv DEF TargetClear
    <3>3. CASE step[u] = "idle" /\ InstanceClear(u)
      BY <2>2, <3>3, BeginKeepsPinsInv DEF InstanceClear
    <3>4. CASE step[u] = "idle" /\ \E v \in PinValues : TargetUse(u, v)
      BY <2>2, <3>4, BeginKeepsPinsInv DEF TargetUse
    <3>5. CASE step[u] = "idle" /\ \E v \in PinValues : InstanceUse(u, v)
      BY <2>2, <3>5, BeginKeepsPinsInv DEF InstanceUse
    <3>6. CASE Lock(u)
      BY <2>2, <3>6, LockKeepsPinsInv
    <3>7. CASE ReadPins(u)
      BY <2>2, <3>7, ReadKeepsPinsInv
    <3>8. CASE Replace(u)
      BY <2>2, <3>8, ReplaceKeepsPinsInv
    <3>9. CASE Unlock(u)
      <4>1. PICK s \in {"idle", "lock"} : StepTo(u, s)
        BY <3>9 DEF Unlock
      <4> QED
        BY <2>2, <3>9, <4>1, LeaveKeepsPinsInv DEF Unlock
    <3>10. CASE Interrupt(u)
      <4>1. StepTo(u, "idle") /\ "idle" \in {"idle", "lock"}
        BY <3>10 DEF Interrupt
      <4> QED
        BY <2>2, <3>10, <4>1, LeaveKeepsPinsInv DEF Interrupt
    <3> QED
      BY <3>1, <3>2, <3>3, <3>4, <3>5, <3>6, <3>7, <3>8, <3>9, <3>10
  <2> QED
    BY <2>1, <2>2
<1>3. PinsInv /\ [Next]_<<part, clientVars, sessionVars, pinVars>> => PinsInv'
  BY <1>2 DEF Next
<1>4. PinsInv => PinsSurvive
  BY DEF PinsInv
<1> QED
  BY <1>1, <1>3, <1>4, PTL DEF Spec

=============================================================================
