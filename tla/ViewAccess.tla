---------------------------- MODULE ViewAccess -----------------------------
(* What the bridge's locking promises its requests, without the locks: reads *)
(* share the open views, an exclusive phase has them alone, and one request  *)
(* at a time is the serialised writer (the "session") -- whose exclusive     *)
(* phases no other gated request can come between.                           *)
CONSTANTS Threads, None

VARIABLES session,  \* the serialised writer, or None
          reading,  \* requests inside a shared phase
          writing   \* requests inside an exclusive phase

vars == <<session, reading, writing>>

TypeOK ==
    /\ session \in Threads \cup {None}
    /\ reading \subseteq Threads
    /\ writing \subseteq Threads

Init == session = None /\ reading = {} /\ writing = {}

BeginSession(t) ==
    session = None /\ session' = t /\ UNCHANGED <<reading, writing>>

\* A session ends between phases, never inside one.
EndSession(t) ==
    /\ session = t
    /\ t \notin reading \cup writing
    /\ session' = None
    /\ UNCHANGED <<reading, writing>>

StartRead(t) ==
    /\ writing = {}
    /\ t \notin reading
    /\ reading' = reading \cup {t}
    /\ UNCHANGED <<session, writing>>

EndRead(t) ==
    /\ t \in reading
    /\ reading' = reading \ {t}
    /\ UNCHANGED <<session, writing>>

StartWrite(t) ==
    /\ reading = {} /\ writing = {}
    /\ writing' = {t}
    /\ UNCHANGED <<session, reading>>

EndWrite(t) ==
    /\ writing = {t}
    /\ writing' = {}
    /\ UNCHANGED <<session, reading>>

Next == \E t \in Threads :
    \/ BeginSession(t) \/ EndSession(t)
    \/ StartRead(t)    \/ EndRead(t)
    \/ StartWrite(t)   \/ EndWrite(t)

Spec == Init /\ [][Next]_vars
=============================================================================
