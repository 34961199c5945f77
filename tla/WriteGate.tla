----------------------------- MODULE WriteGate -----------------------------
(* The gate that serialises writers (_WriteGate, bridge.py): a plain mutex,  *)
(* a record of who holds it and who is queued, and the reservation that      *)
(* admits one refresh at a time.  The mutex (_lock) and the records (under   *)
(* _state) are different locks, so taking the mutex and recording the holder *)
(* are two actions, and so are clearing the holder and releasing the mutex.  *)
EXTENDS BridgeThreads

VARIABLES gateLock,     \* _lock: the thread inside the gate
          gateHolder,   \* _holder: the thread a status reply names
          gateWaiters,  \* _waiters: requests a status reports waiting
          reservation   \* _refresh: the refresh that reserved the gate

gateVars == <<gateLock, gateHolder, gateWaiters, reservation>>

GateInit ==
    /\ gateLock = None
    /\ gateHolder = None
    /\ gateWaiters = {}
    /\ reservation = None

\* _lock.acquire(): the non-blocking attempt, or the blocking one returning.
GateAcquire(t) ==
    /\ gateLock = None
    /\ gateLock' = t
    /\ UNCHANGED <<gateHolder, gateWaiters, reservation>>

\* The non-blocking attempt failed: register before blocking.
GateQueue(t) ==
    /\ gateLock # None
    /\ gateWaiters' = gateWaiters \cup {t}
    /\ UNCHANGED <<gateLock, gateHolder, reservation>>

\* Deregister and record the holder.
GateRecord(t) ==
    /\ gateHolder' = t
    /\ gateWaiters' = gateWaiters \ {t}
    /\ UNCHANGED <<gateLock, reservation>>

\* __exit__: the record goes first, the mutex second.
GateClear ==
    /\ gateHolder' = None
    /\ UNCHANGED <<gateLock, gateWaiters, reservation>>

GateRelease ==
    /\ gateLock' = None
    /\ UNCHANGED <<gateHolder, gateWaiters, reservation>>

\* refresh(): reserve, refused at once when a refresh already has.
Reserve(t) ==
    /\ reservation = None
    /\ reservation' = t
    /\ UNCHANGED <<gateLock, gateHolder, gateWaiters>>

Unreserve ==
    /\ reservation' = None
    /\ UNCHANGED <<gateLock, gateHolder, gateWaiters>>

=============================================================================
