----------------------------- MODULE CommandLine -----------------------------
(***************************************************************************)
(* What CLI processes do on their side of the socket: send a request       *)
(* (ClientRequest, on InstanceRegistry), stop or restart a session         *)
(* (SessionStop), or set and clear the pins of a project (SessionPins).    *)
(* The three share no state, so a behaviour exercises one of them.         *)
(***************************************************************************)
EXTENDS ClientRequest, SessionStop, SessionPins

VARIABLE part   \* "request", "session" or "pins"

RequestParked == RequestInit /\ mode = "gui" /\ reg = None
SessionParked == SessionInit /\ \A c \in Commands : ~restarts[c] /\ ~discard[c]

Init == \/ part = "request" /\ RequestInit /\ SessionParked /\ PinsInit
        \/ part = "session" /\ RequestParked /\ SessionInit /\ PinsInit
        \/ part = "pins" /\ RequestParked /\ SessionParked /\ PinsInit

Next == \/ part = "request" /\ RequestNext /\ UNCHANGED <<part, sessionVars, pinVars>>
        \/ part = "session" /\ SessionNext /\ UNCHANGED <<part, clientVars, pinVars>>
        \/ part = "pins" /\ PinsNext /\ UNCHANGED <<part, clientVars, sessionVars>>

Spec == Init /\ [][Next]_<<part, clientVars, sessionVars, pinVars>>
=============================================================================
