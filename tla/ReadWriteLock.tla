--------------------------- MODULE ReadWriteLock ---------------------------
(* The writer-priority reader/writer lock over the open views               *)
(* (_ReadWriteLock, bridge.py).  One condition variable guards all of its    *)
(* state, so everything a thread does between acquiring the condition and    *)
(* either leaving it or calling wait() is one action here.  `parked` is the  *)
(* set of threads inside Condition.wait() that nobody has notified: a thread *)
(* outside it re-evaluates its while-condition.                              *)
(*                                                                           *)
(* The list _queued_writers is kept as a set: its order only chooses which   *)
(* of several queued writers a status reply names.                           *)
EXTENDS Naturals, BridgeThreads

VARIABLES readers,        \* _readers: how many hold shared access
          writer,         \* _writer: somebody holds exclusive access
          holder,         \* _holder: who, as a status reply names it
          queuedWriters,  \* _queued_writers: writer priority counts these
          readWaiters,    \* _read_waiters: requests a status reports waiting
          parked          \* threads waiting on _condition, not notified

rwVars == <<readers, writer, holder, queuedWriters, readWaiters, parked>>

RWInit ==
    /\ readers = 0
    /\ writer = FALSE
    /\ holder = None
    /\ queuedWriters = {}
    /\ readWaiters = {}
    /\ parked = {}

\* The two while-conditions.
ReadBlockedNoPriority == writer
ReadBlocked == writer \/ queuedWriters # {}

WriteBlockedIgnoresReaders == writer
WriteBlocked == writer \/ readers > 0

\* read(): the condition is clear, at once or after a wake-up.
ReadGrant(t) ==
    /\ t \notin parked
    /\ ~ReadBlocked
    /\ readers' = readers + 1
    /\ readWaiters' = readWaiters \ {t}
    /\ UNCHANGED <<writer, holder, queuedWriters, parked>>

\* read(): the condition is not clear; register as a waiter and wait().
ReadParkUnregistered(t) ==
    /\ t \notin parked
    /\ ReadBlocked
    /\ parked' = parked \cup {t}
    /\ UNCHANGED <<readers, writer, holder, queuedWriters, readWaiters>>

ReadPark(t) ==
    /\ t \notin parked
    /\ ReadBlocked
    /\ readWaiters' = readWaiters \cup {t}
    /\ parked' = parked \cup {t}
    /\ UNCHANGED <<readers, writer, holder, queuedWriters>>

\* Leaving read(): the last reader wakes every waiter.
ReadExit ==
    /\ readers' = readers - 1
    /\ parked' = IF readers' = 0 THEN {} ELSE parked
    /\ UNCHANGED <<writer, holder, queuedWriters, readWaiters>>

\* write(): the entry is appended before the first test, so a writer that
\* must wait already counts as queued; it is removed as the lock is taken.
WriteGrant(t) ==
    /\ t \notin parked
    /\ ~WriteBlocked
    /\ queuedWriters' = queuedWriters \ {t}
    /\ writer' = TRUE
    /\ holder' = t
    /\ UNCHANGED <<readers, readWaiters, parked>>

WritePark(t) ==
    /\ t \notin parked
    /\ WriteBlocked
    /\ queuedWriters' = queuedWriters \cup {t}
    /\ parked' = parked \cup {t}
    /\ UNCHANGED <<readers, writer, holder, readWaiters>>

\* Leaving write(): everybody is woken.
WriteExitSilent ==
    /\ writer' = FALSE
    /\ holder' = None
    /\ UNCHANGED <<readers, queuedWriters, readWaiters, parked>>

WriteExit ==
    /\ writer' = FALSE
    /\ holder' = None
    /\ parked' = {}
    /\ UNCHANGED <<readers, queuedWriters, readWaiters>>

\* _blocking_holder(): the threads a waiting read may be told it waits on --
\* the holder, else a queued writer.
BlockingHolders == IF holder # None THEN {holder} ELSE queuedWriters

=============================================================================
