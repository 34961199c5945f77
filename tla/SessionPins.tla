----------------------------- MODULE SessionPins -----------------------------
(***************************************************************************)
(* The sticky pins of a project: the target and the instance that commands *)
(* without -t and -i use (src/bn/session_state.py).  CLI processes set and *)
(* clear them at the same time; each may be killed between any two steps,  *)
(* and the kernel then lets go of its flock.                               *)
(***************************************************************************)
EXTENDS Naturals, Sequences

CONSTANTS Users,            \* the CLI processes
          PinValues         \* target selectors and instance ids

Nothing == "nothing"        \* no pin, or nobody
Kept == "kept"              \* a field that an update does not name

ASSUME PinAssumption == {Nothing, Kept} \cap (Users \union PinValues) = {}

VARIABLES
    pins,       \* the state file
    flock,      \* the process that holds the lock file
    todo,       \* the updates that each process has yet to make
    draft,      \* what it read under the lock
    step,       \* where it stands
    intended    \* history: the updates that were written, in that order, on no pins

pinVars == <<pins, flock, todo, draft, step, intended>>

Pins(target, instance) == [target |-> target, instance |-> instance]
NoPins == Pins(Nothing, Nothing)

PinsInit ==
    /\ pins = NoPins
    /\ flock = Nothing
    /\ todo = [u \in Users |-> <<>>]
    /\ draft = [u \in Users |-> NoPins]
    /\ step = [u \in Users |-> "idle"]
    /\ intended = NoPins

Merge(state, fields) == [f \in DOMAIN state |-> IF fields[f] = Kept THEN state[f] ELSE fields[f]]

StepTo(u, s) == step' = [step EXCEPT ![u] = s]

Begin(u, updates) == /\ todo' = [todo EXCEPT ![u] = updates]
                     /\ StepTo(u, "lock")
                     /\ UNCHANGED <<pins, flock, draft, intended>>

TargetUse(u, v) == Begin(u, <<Pins(v, Kept)>>)
TargetClear(u) == Begin(u, <<Pins(Nothing, Kept)>>)
InstanceClear(u) == Begin(u, <<Pins(Kept, Nothing)>>)

\* A change of instance clears the target pin, as it was read before.
InstanceUse(u, v) ==
    Begin(u, IF pins.target # Nothing /\ pins.instance \notin {Nothing, v}
             THEN <<Pins(Kept, v), Pins(Nothing, Kept)>>
             ELSE <<Pins(Kept, v)>>)

\* Two commands in one project at a time are told apart by the lock file alone.
LockIsFreeAlways == TRUE
LockIsFree == flock = Nothing

Lock(u) == /\ step[u] = "lock"
           /\ LockIsFree
           /\ flock' = u
           /\ StepTo(u, "read")
           /\ UNCHANGED <<pins, todo, draft, intended>>

ReadPins(u) == /\ step[u] = "read"
               /\ draft' = [draft EXCEPT ![u] = pins]
               /\ StepTo(u, "write")
               /\ UNCHANGED <<pins, flock, todo, intended>>

\* _atomic_write: a file of its own takes the name of the state file.
Replace(u) == /\ step[u] = "write"
              /\ pins' = Merge(draft[u], Head(todo[u]))
              /\ intended' = Merge(intended, Head(todo[u]))
              /\ StepTo(u, "unlock")
              /\ UNCHANGED <<flock, todo, draft>>

Drop(u) == flock' = IF flock = u THEN Nothing ELSE flock

Unlock(u) == /\ step[u] = "unlock"
             /\ Drop(u)
             /\ todo' = [todo EXCEPT ![u] = Tail(@)]
             /\ draft' = [draft EXCEPT ![u] = NoPins]
             /\ StepTo(u, IF Tail(todo[u]) = <<>> THEN "idle" ELSE "lock")
             /\ UNCHANGED <<pins, intended>>

Interrupt(u) == /\ step[u] # "idle"
                /\ Drop(u)
                /\ todo' = [todo EXCEPT ![u] = <<>>]
                /\ draft' = [draft EXCEPT ![u] = NoPins]
                /\ StepTo(u, "idle")
                /\ UNCHANGED <<pins, intended>>

PinsNext ==
    \E u \in Users :
       \/ step[u] = "idle" /\ \/ TargetClear(u) \/ InstanceClear(u)
                              \/ \E v \in PinValues : TargetUse(u, v) \/ InstanceUse(u, v)
       \/ Lock(u) \/ ReadPins(u) \/ Replace(u) \/ Unlock(u) \/ Interrupt(u)

PinsSpec == PinsInit /\ [][PinsNext]_pinVars

-----------------------------------------------------------------------------
\* No update that was written is lost, whoever else updates or is killed meanwhile: the
\* file is what the updates make of it one after the other, each on its own fields
\* (session_state.update: racing commands in a project "can't lose writes").
PinsSurvive == pins = intended
=============================================================================
