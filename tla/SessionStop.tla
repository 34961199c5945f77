----------------------------- MODULE SessionStop -----------------------------
(***************************************************************************)
(* `bn session stop` and `bn session restart` of one instance id           *)
(* (commands/admin.py): find the bridge, ask it what is unsaved, pin its   *)
(* process, shut it down or signal it, wait for its end, and, to restart,  *)
(* spawn another and reload what was open.  Other clients use, start and   *)
(* stop the bridge meanwhile, bridges crash, hang and lose their sockets,  *)
(* and their process ids are used again.                                   *)
(*                                                                         *)
(* A lookup and a spawn are one step here; InstanceRegistry has theirs.    *)
(***************************************************************************)
EXTENDS Naturals, FiniteSets

CONSTANTS Commands,         \* the stop and restart commands
          Targets,          \* the binaries that a bridge may have open
          Pids,
          MaxSessions       \* bound on the bridges that are ever started

Sessions == 1..MaxSessions
NoSession == 0
NoPid == 0
Stranger == MaxSessions + 1     \* any process that is no bridge

VARIABLES
    life,       \* of each bridge
    pid,        \* its process id
    holder,     \* the process that has each process id, or NoSession
    record,     \* the bridge whose record is in the registry, or NoSession
    open,       \* the targets open in each bridge
    unsaved,    \* those with committed work that is in no file
    place,      \* where each command stands
    restarts,   \* whether it is a restart
    discard,    \* --discard-unsaved
    found,      \* the bridge that it found
    listed,     \* the targets that the bridge listed, or no listing: {NoSession}
    grip,       \* the process that it pinned
    hit,        \* history: the bridges that took its shutdown request
    signalled,  \* history: the processes that it signalled
    late,       \* history: targets opened or changed after the bridge was asked,
                \* or all if the bridge was out of reach
    back,       \* the targets that it reloaded
    outcome     \* what it reports

bridgeVars == <<life, pid, holder, record, open, unsaved>>
commandVars == <<place, restarts, discard, found, listed, grip, hit, signalled, late, back,
                 outcome>>
sessionVars == <<bridgeVars, commandVars>>

ASSUME SessionAssumption == MaxSessions \in Nat /\ NoSession \notin Targets

Unlisted == {NoSession}

SessionInit ==
    /\ life = [b \in Sessions |-> "none"]
    /\ pid = [b \in Sessions |-> NoPid]
    /\ holder = [p \in Pids |-> NoSession]
    /\ record = NoSession
    /\ open = [b \in Sessions |-> {}]
    /\ unsaved = [b \in Sessions |-> {}]
    /\ place = [c \in Commands |-> "find"]
    /\ restarts \in [Commands -> BOOLEAN]
    /\ discard \in [Commands -> BOOLEAN]
    /\ found = [c \in Commands |-> NoSession]
    /\ listed = [c \in Commands |-> Unlisted]
    /\ grip = [c \in Commands |-> NoSession]
    /\ hit = [c \in Commands |-> {}]
    /\ signalled = [c \in Commands |-> {}]
    /\ late = [c \in Commands |-> {}]
    /\ back = [c \in Commands |-> {}]
    /\ outcome = [c \in Commands |-> "none"]

-----------------------------------------------------------------------------
(***************************************************************************)
(* The bridges.  "serving" answers; "deaf" lives but lost its socket file  *)
(* or is stopped; "draining" has its files but takes no more requests;     *)
(* "closing" has given up its files.                                       *)
(***************************************************************************)

Lives(b) == life[b] \in {"serving", "deaf", "draining", "closing"}

\* What a lifecycle lookup resolves; a record whose owner is gone is litter.
Recorded == IF record # NoSession /\ Lives(record) THEN record ELSE NoSession

\* What a request with the instance id reaches.
Answering == Recorded # NoSession /\ life[Recorded] = "serving"

Unborn == {b \in Sessions : life[b] = "none"}
FreePids == {p \in Pids : holder[p] = NoSession}

\* A bridge starts under the id, if the lookup shows that nobody has it.
Spawn ==
    /\ Recorded = NoSession
    /\ \E b \in Unborn, p \in FreePids :
         /\ \A x \in Unborn : b <= x
         /\ life' = [life EXCEPT ![b] = "serving"]
         /\ pid' = [pid EXCEPT ![b] = p]
         /\ holder' = [holder EXCEPT ![p] = b]
         /\ record' = b
    /\ UNCHANGED <<open, unsaved>>

\* Targets opened or changed after a command asked the bridge are late for it.
Asked(c) == place[c] \notin {"find", "probe"}
LateFor(b, ts) == late' = [c \in Commands |->
                             late[c] \union {t \in ts : found[c] = b /\ Asked(c)}]

Load(b, t) == /\ life[b] = "serving" /\ t \notin open[b]
              /\ open' = [open EXCEPT ![b] = @ \union {t}]
              /\ LateFor(b, {t})
              /\ UNCHANGED <<life, pid, holder, record, unsaved>>

Change(b, t) == /\ life[b] = "serving" /\ t \in open[b]
                /\ unsaved' = [unsaved EXCEPT ![b] = @ \union {t}]
                /\ LateFor(b, {t})
                /\ UNCHANGED <<life, pid, holder, record, open>>

Save(b, t) == /\ life[b] = "serving"
              /\ t \in unsaved[b]
              /\ unsaved' = [unsaved EXCEPT ![b] = @ \ {t}]
              /\ UNCHANGED <<life, pid, holder, record, open, late>>

Exit(b) == /\ life' = [life EXCEPT ![b] = "gone"]
           /\ holder' = [holder EXCEPT ![pid[b]] = NoSession]

LoseSocket(b) == /\ life[b] = "serving"
                 /\ life' = [life EXCEPT ![b] = "deaf"]
                 /\ UNCHANGED <<pid, holder, record, open, unsaved, late>>

\* Another client stops it, or the idle reaper does.
RetireBridge(b) == /\ life[b] = "serving"
                   /\ life' = [life EXCEPT ![b] = "draining"]
                   /\ UNCHANGED <<pid, holder, record, open, unsaved, late>>

\* A drain may take for ever, and so may the end of the process.
ReleaseFiles(b) == /\ life[b] = "draining"
                   /\ life' = [life EXCEPT ![b] = "closing"]
                   /\ record' = IF record = b THEN NoSession ELSE record
                   /\ UNCHANGED <<pid, holder, open, unsaved, late>>

\* The process ends, after its teardown or in a crash that leaves its files.
Die(b) == /\ Lives(b)
          /\ Exit(b)
          /\ UNCHANGED <<pid, record, open, unsaved, late>>

\* The kernel gives a process id to another process.
Recycle(p) == /\ holder[p] = NoSession
              /\ holder' = [holder EXCEPT ![p] = Stranger]
              /\ UNCHANGED <<life, pid, record, open, unsaved, late>>

World ==
    /\ \/ Spawn /\ UNCHANGED late
       \/ \E b \in Sessions, t \in Targets : Load(b, t) \/ Change(b, t) \/ Save(b, t)
       \/ \E b \in Sessions : \/ LoseSocket(b) \/ RetireBridge(b)
                              \/ ReleaseFiles(b) \/ Die(b)
       \/ \E p \in Pids : Recycle(p)
    /\ UNCHANGED <<place, restarts, discard, found, listed, grip, hit, signalled, back, outcome>>

-----------------------------------------------------------------------------
(***************************************************************************)
(* The commands.                                                           *)
(***************************************************************************)

To(c, p) == place' = [place EXCEPT ![c] = p]

Report(c, o) == /\ outcome' = [outcome EXCEPT ![c] = o]
                /\ To(c, "done")

\* find_lifecycle_instance sweeps litter.  A stop goes on without an instance.
Find(c) ==
    /\ place[c] = "find"
    /\ found' = [found EXCEPT ![c] = Recorded]
    /\ record' = Recorded
    /\ IF Recorded # NoSession THEN To(c, "probe") /\ UNCHANGED outcome
       ELSE IF restarts[c] THEN Report(c, "failed")
                           ELSE To(c, "shutdown") /\ UNCHANGED outcome
    /\ UNCHANGED <<life, pid, holder, open, unsaved,
                   restarts, discard, listed, grip, hit, signalled, late, back>>

\* _lifecycle_target_listing: a bridge that cannot be reached holds nothing that
\* could be asked about; one that lives and does not answer may hold anything.
OutOfReachOrBusy(b) == life[b] \in {"deaf", "closing", "gone", "draining", "serving"}
OutOfReach(b) == life[b] \in {"deaf", "closing", "gone"}

ProbeUnheard(c) ==
    /\ OutOfReach(found[c])
    /\ To(c, "pin")
    /\ UNCHANGED <<outcome, listed>>

ProbeUnanswered(c) ==
    /\ life[found[c]] # "deaf"
    /\ IF discard[c] THEN To(c, "pin") /\ UNCHANGED outcome ELSE Report(c, "refused")
    /\ UNCHANGED listed

ProbeAnswered(c) ==
    /\ life[found[c]] = "serving"
    /\ listed' = [listed EXCEPT ![c] = open[found[c]]]
    /\ IF unsaved[found[c]] = {} \/ discard[c] THEN To(c, "pin") /\ UNCHANGED outcome
                                               ELSE Report(c, "refused")

Probe(c) ==
    /\ place[c] = "probe"
    /\ ProbeUnheard(c) \/ ProbeUnanswered(c) \/ ProbeAnswered(c)
    /\ late' = [late EXCEPT ![c] =
                  IF life[found[c]] \in {"serving", "draining"} THEN {} ELSE Targets]
    /\ UNCHANGED <<bridgeVars, restarts, discard, found, grip, hit, signalled, back>>

\* BridgeProcessSignal: pin whatever has the recorded process id, then look who it is.
Pin(c) ==
    /\ place[c] = "pin"
    /\ grip' = [grip EXCEPT ![c] = holder[pid[found[c]]]]
    /\ To(c, "verify")
    /\ UNCHANGED <<bridgeVars, restarts, discard, found, listed, hit, signalled, late, back, outcome>>

Proven(c) == holder[pid[found[c]]] = found[c]

Verify(c) ==
    /\ place[c] = "verify"
    /\ grip' = [grip EXCEPT ![c] = IF Proven(c) THEN @ ELSE NoSession]
    /\ To(c, "shutdown")
    /\ UNCHANGED <<bridgeVars, restarts, discard, found, listed, hit, signalled, late, back, outcome>>

\* The shutdown request finds the instance afresh, by its id.
Shutdown(c) ==
    /\ place[c] = "shutdown"
    /\ Answering
    /\ life' = [life EXCEPT ![Recorded] = "draining"]
    /\ hit' = [hit EXCEPT ![c] = @ \union {Recorded}]
    /\ \/ To(c, "wait")
       \/ To(c, "signal")       \* the acknowledgement is lost
    /\ UNCHANGED <<pid, holder, record, open, unsaved,
                   restarts, discard, found, listed, grip, signalled, late, back, outcome>>

ShutdownFails(c) ==
    /\ place[c] = "shutdown"
    /\ To(c, "signal")
    /\ UNCHANGED <<bridgeVars, restarts, discard, found, listed, grip, hit, signalled, late, back,
                   outcome>>

\* The process that a signal goes to: the one that is pinned, not who has its number.
AddressedByNumber(c) == IF found[c] = NoSession THEN NoSession ELSE holder[pid[found[c]]]
Addressed(c) == grip[c]

SignalReaches(c) == \/ Addressed(c) = Stranger
                    \/ Addressed(c) \in Sessions /\ Lives(Addressed(c))

Signal(c) == signalled' = [signalled EXCEPT ![c] = @ \union {Addressed(c)}]

Terminate(c) ==
    /\ place[c] = "signal"
    /\ SignalReaches(c)
    /\ Signal(c)
    /\ life' = [b \in Sessions |-> IF b = Addressed(c) /\ life[b] \in {"serving", "deaf"}
                                   THEN "draining" ELSE life[b]]
    /\ To(c, "wait")
    /\ UNCHANGED <<pid, holder, record, open, unsaved,
                   restarts, discard, found, listed, grip, hit, late, back, outcome>>

Kill(c) ==
    /\ place[c] = "kill"
    /\ SignalReaches(c)
    /\ Signal(c)
    /\ IF Addressed(c) \in Sessions THEN Exit(Addressed(c)) ELSE UNCHANGED <<life, holder>>
    /\ To(c, "waitKilled")
    /\ UNCHANGED <<pid, record, open, unsaved,
                   restarts, discard, found, listed, grip, hit, late, back, outcome>>

SignalFails(c) ==
    /\ place[c] \in {"signal", "kill"}
    /\ ~SignalReaches(c)
    /\ Report(c, "failed")
    /\ UNCHANGED <<bridgeVars, restarts, discard, found, listed, grip, hit, signalled, late, back>>

\* wait_for_teardown: the process is gone and the registry resolves no instance.
TornDown(c) == found[c] # NoSession => ~Lives(found[c]) /\ Recorded = NoSession

WaitEnds(c) ==
    /\ place[c] \in {"wait", "waitKilled"}
    /\ TornDown(c)
    /\ record' = Recorded
    /\ IF restarts[c] THEN To(c, "respawn") /\ UNCHANGED outcome ELSE Report(c, "stopped")
    /\ UNCHANGED <<life, pid, holder, open, unsaved,
                   restarts, discard, found, listed, grip, hit, signalled, late, back>>

WaitTimesOut(c) ==
    /\ place[c] \in {"wait", "waitKilled"}
    /\ ~TornDown(c)
    /\ IF place[c] = "wait" /\ grip[c] # NoSession THEN To(c, "kill") /\ UNCHANGED outcome
                                                   ELSE Report(c, "failed")
    /\ UNCHANGED <<bridgeVars, restarts, discard, found, listed, grip, hit, signalled, late, back>>

Respawn(c) ==
    /\ place[c] = "respawn"
    /\ \/ Spawn /\ To(c, "reload") /\ UNCHANGED outcome
       \/ Report(c, "failed") /\ UNCHANGED bridgeVars   \* taken, or it does not come up
    /\ UNCHANGED <<restarts, discard, found, listed, grip, hit, signalled, late, back>>

\* Each listed target is loaded again and the projects are associated; what failed, the
\* listing included, is reported.
AllBack(c) == listed[c] # Unlisted /\ back'[c] = listed[c]

Reload(c) ==
    /\ place[c] = "reload"
    /\ \E loaded \in SUBSET (IF Answering THEN listed[c] \ Unlisted ELSE {}) :
         /\ back' = [back EXCEPT ![c] = loaded]
         /\ open' = [b \in Sessions |-> IF b = Recorded THEN open[b] \union loaded
                                                        ELSE open[b]]
         /\ LateFor(Recorded, loaded)
    /\ \E associated \in BOOLEAN :
         Report(c, IF AllBack(c) /\ associated THEN "restarted" ELSE "partly")
    /\ UNCHANGED <<life, pid, holder, record, unsaved,
                   restarts, discard, found, listed, grip, hit, signalled>>

Command(c) == \/ Find(c) \/ Probe(c) \/ Pin(c) \/ Verify(c)
              \/ Shutdown(c) \/ ShutdownFails(c) \/ Terminate(c) \/ Kill(c)
              \/ SignalFails(c) \/ WaitEnds(c) \/ WaitTimesOut(c)
              \/ Respawn(c) \/ Reload(c)

SessionNext == World \/ \E c \in Commands : Command(c)

-----------------------------------------------------------------------------
\* Only the process of the bridge that was found is ever signalled, whoever has its
\* process id or its instance id by then, and a stop or a restart that reports success
\* has seen that bridge end.  (The shutdown request goes to whoever has the instance id.)
ItsBridgeEnds ==
    \A c \in Commands :
       /\ signalled[c] \subseteq {found[c]}
       /\ outcome[c] \in {"stopped", "restarted", "partly"} /\ found[c] # NoSession =>
             ~Lives(found[c])

\* Work that the found bridge held when it was asked is not lost without consent, and
\* a restart that reports full success has reopened all targets that were open then.
NothingLostUnasked ==
    \A c \in Commands :
       /\ found[c] \in hit[c] \union signalled[c] /\ ~discard[c] =>
             unsaved[found[c]] \subseteq late[c]
       /\ outcome[c] = "restarted" => open[found[c]] \subseteq back[c] \union late[c]

=============================================================================
