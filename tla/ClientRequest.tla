---------------------------- MODULE ClientRequest ----------------------------
(***************************************************************************)
(* One request of each client, from the instance that it resolved to the   *)
(* verdict that the user reads (transport._send_request_to_instance), with *)
(* the handler that serves it (BridgeHandler.handle).  A client retries    *)
(* what could not be delivered, cancels what timed out, and the bridge may *)
(* be stopped, restarted or killed under it.                               *)
(***************************************************************************)
EXTENDS InstanceRegistry

CONSTANT ConnectRetries

VARIABLES
    attempt,    \* connection attempts made, until one succeeds
    link,       \* the bridge that the client's connection leads to, or None
    sent,       \* what was transmitted: "nothing", "part" or "whole"
    srv,        \* the connection at the bridge
    reply,      \* what the handler answers with
    effect,     \* what became of the operation: "none", "running", "done", "undone"
    runs,       \* history: the bridges that dispatched the request, and how often
    active,     \* _active_requests of each bridge
    cancelled,  \* _cancelled_requests of each bridge
    cancelAt,   \* the bridge that a cancel request of the client lies at, or None
    verdict     \* what the user is told

requestVars == <<attempt, link, sent, srv, reply, effect, runs, active, cancelled,
                 cancelAt, verdict>>
clientVars == <<registryVars, requestVars>>

ASSUME RequestAssumption == ConnectRetries \in Nat \ {0}

RequestInit ==
    /\ RegistryInit
    /\ attempt = [c \in Clients |-> 0]
    /\ link = [c \in Clients |-> None]
    /\ sent = [c \in Clients |-> "nothing"]
    /\ srv = [c \in Clients |-> "none"]
    /\ reply = [c \in Clients |-> "none"]
    /\ effect = [c \in Clients |-> "none"]
    /\ runs = [c \in Clients |-> [b \in Bridges |-> 0]]
    /\ active = [b \in Bridges |-> {}]
    /\ cancelled = [b \in Bridges |-> {}]
    /\ cancelAt = [c \in Clients |-> None]
    /\ verdict = [c \in Clients |-> "none"]

Set(f, c, v) == [f EXCEPT ![c] = v]

\* The client ends with a verdict and closes its connection.
Conclude(c, v) ==
    /\ verdict' = Set(verdict, c, v)
    /\ Goto(c, "done")

ClientOnly == UNCHANGED <<mode, phase, home, sock, reg, lock, why, judged, child, known,
                          runs, effect, reply, active, cancelled>>

-----------------------------------------------------------------------------
(***************************************************************************)
(* The client.                                                             *)
(***************************************************************************)

\* A refused connection never reached the bridge: the only case that is retried.
ConnectFails(c) ==
    /\ at[c] = "send"
    /\ ~Accepting(sock)
    /\ attempt' = Set(attempt, c, attempt[c] + 1)
    /\ IF attempt'[c] = ConnectRetries THEN Conclude(c, "unreachable")
                                       ELSE UNCHANGED <<at, verdict>>
    /\ ClientOnly
    /\ UNCHANGED <<link, sent, srv, cancelAt>>

\* _verify_socket_peer_pid: whoever listens must be the process of the record.
SamePeer(c, b) == home[b] = home[known[c]]

Connect(c) ==
    /\ at[c] = "send"
    /\ Accepting(sock)
    /\ IF SamePeer(c, sock)
       THEN /\ link' = Set(link, c, sock)
            /\ srv' = Set(srv, c, "backlog")
            /\ Goto(c, "transmit")
            /\ UNCHANGED verdict
       ELSE Conclude(c, "unverified") /\ UNCHANGED <<link, srv>>
    /\ attempt' = Set(attempt, c, 0)     \* not counted any more
    /\ ClientOnly
    /\ UNCHANGED <<sent, cancelAt>>

\* The deadline passes between two attempts.
ExpireUnsent(c) ==
    /\ at[c] = "send"
    /\ Conclude(c, "notSent")
    /\ ClientOnly
    /\ UNCHANGED <<attempt, link, sent, srv, cancelAt>>

LinkDead(c) == phase[link[c]] = "dead"

\* From here on delivery is uncertain: send_attempted.
Transmit(c) ==
    /\ at[c] = "transmit"
    /\ ~LinkDead(c)
    /\ sent' = Set(sent, c, "whole")
    /\ Goto(c, "receive")
    /\ ClientOnly
    /\ UNCHANGED <<attempt, link, srv, cancelAt, verdict>>

TransmitExpires(c) ==
    /\ at[c] = "transmit"
    /\ \E s \in {"nothing", "part", "whole"} : sent' = Set(sent, c, s)
    /\ Conclude(c, "notSent")
    /\ ClientOnly
    /\ UNCHANGED <<attempt, link, srv, cancelAt>>

\* sendall times out; the newline may be all that is missing.
TransmitTimesOut(c) ==
    /\ at[c] = "transmit"
    /\ \E s \in {"nothing", "part", "whole"} : sent' = Set(sent, c, s)
    /\ Goto(c, "cancel")
    /\ ClientOnly
    /\ UNCHANGED <<attempt, link, srv, cancelAt, verdict>>

TransmitFails(c) ==
    /\ at[c] = "transmit"
    /\ LinkDead(c) \/ srv[c] = "closed"
    /\ Conclude(c, "contactLost")
    /\ ClientOnly
    /\ UNCHANGED <<attempt, link, sent, srv, cancelAt>>

\* The whole reply is there.  A reply of another bridge is not believed.
Receive(c) ==
    /\ at[c] = "receive"
    /\ srv[c] = "answered"
    /\ Conclude(c, reply[c])
    /\ ClientOnly
    /\ UNCHANGED <<attempt, link, sent, srv, cancelAt>>

\* End of file, with a part of the reply or with none.
ReceiveNothing(c) ==
    /\ at[c] = "receive"
    /\ srv[c] # "answered"
    /\ LinkDead(c) \/ srv[c] = "closed"
    /\ Conclude(c, "noAnswer")
    /\ ClientOnly
    /\ UNCHANGED <<attempt, link, sent, srv, cancelAt>>

ReceiveTimesOut(c) ==
    /\ at[c] = "receive"
    /\ Goto(c, "cancel")
    /\ ClientOnly
    /\ UNCHANGED <<attempt, link, sent, srv, cancelAt, verdict>>

\* _send_cancel_request, to whoever listens at the path now.
SendCancel(c) ==
    /\ at[c] = "cancel"
    /\ Accepting(sock) /\ SamePeer(c, sock)
    /\ cancelAt' = Set(cancelAt, c, sock)
    /\ Conclude(c, "timeoutCancelSent")
    /\ ClientOnly
    /\ UNCHANGED <<attempt, link, sent, srv>>

CancelFails(c) ==
    /\ at[c] = "cancel"
    /\ Conclude(c, "timeoutNoCancel")
    /\ ClientOnly
    /\ UNCHANGED <<attempt, link, sent, srv, cancelAt>>

ClientStep(c) == \/ ConnectFails(c) \/ Connect(c) \/ ExpireUnsent(c)
                 \/ Transmit(c) \/ TransmitTimesOut(c) \/ TransmitFails(c)
                 \/ Receive(c) \/ ReceiveNothing(c) \/ ReceiveTimesOut(c)
                 \/ SendCancel(c) \/ CancelFails(c)

-----------------------------------------------------------------------------
(***************************************************************************)
(* The handler thread of a connection.                                     *)
(***************************************************************************)

Serves(c) == link[c] # None /\ ~LinkDead(c)

HandlerOnly == UNCHANGED <<registryVars, attempt, link, sent, cancelAt, verdict>>

\* The listener accepts what is in its backlog; what it had not accepted when it
\* was closed is reset.
Accept(c) ==
    /\ srv[c] = "backlog"
    /\ Serves(c)
    /\ srv' = Set(srv, c, IF Accepting(link[c]) THEN "accepted" ELSE "closed")
    /\ HandlerOnly
    /\ UNCHANGED <<reply, effect, runs, active, cancelled>>

ClientGone(c) == at[c] \in {"cancel", "done"}

\* A request that is not complete is only read at the end of the connection.
ReadRequest(c) ==
    /\ srv[c] = "accepted"
    /\ Serves(c)
    /\ sent[c] # "whole" /\ ClientGone(c)
    /\ srv' = Set(srv, c, "closed")
    /\ HandlerOnly
    /\ UNCHANGED <<reply, effect, runs, active, cancelled>>

\* What the envelope is checked for before anything is dispatched.
Admitted(c) == phase[link[c]] # "retired"

Answer(c, r) == srv' = Set(srv, c, "writing") /\ reply' = Set(reply, c, r)

PeerIsEnough(c) == home[link[c]] = home[known[c]]

IdentityMatches(c) == link[c] = known[c]

RefuseRequest(c) ==
    /\ srv[c] = "accepted" /\ sent[c] = "whole"
    /\ Serves(c)
    /\ ~IdentityMatches(c) \/ ~Admitted(c)
    /\ Answer(c, IF ~IdentityMatches(c) THEN "mismatch" ELSE "refused")
    /\ HandlerOnly
    /\ UNCHANGED <<effect, runs, active, cancelled>>

DispatchRequest(c) ==
    /\ srv[c] = "accepted" /\ sent[c] = "whole"
    /\ Serves(c)
    /\ IdentityMatches(c) /\ Admitted(c)
    /\ srv' = Set(srv, c, "active")
    /\ active' = [active EXCEPT ![link[c]] = @ \union {c}]
    /\ runs' = [runs EXCEPT ![c][link[c]] = @ + 1]
    /\ effect' = Set(effect, c, "running")
    /\ HandlerOnly
    /\ UNCHANGED <<reply, cancelled>>

EndRequest(c) ==
    /\ active' = [active EXCEPT ![link[c]] = @ \ {c}]
    /\ cancelled' = [cancelled EXCEPT ![link[c]] = @ \ {c}]

Complete(c) ==
    /\ srv[c] = "active"
    /\ Serves(c)
    /\ effect' = Set(effect, c, "done")
    /\ Answer(c, "ok")
    /\ EndRequest(c)
    /\ HandlerOnly
    /\ UNCHANGED runs

\* A long operation looks whether it was cancelled and takes its work back.
ObeyCancel(c) ==
    /\ srv[c] = "active"
    /\ Serves(c)
    /\ c \in cancelled[link[c]]
    /\ effect' = Set(effect, c, "undone")
    /\ Answer(c, "cancelled")
    /\ EndRequest(c)
    /\ HandlerOnly
    /\ UNCHANGED runs

WriteReply(c) ==
    /\ srv[c] = "writing"
    /\ Serves(c)
    /\ srv' = Set(srv, c, "answered")
    /\ HandlerOnly
    /\ UNCHANGED <<reply, effect, runs, active, cancelled>>

\* A cancel request is for the bridge whose identity it bears: the listener itself
\* or a retired predecessor of its process.  It marks only an active request.
CancelRoute(c) ==
    IF \/ known[c] = cancelAt[c]
       \/ home[known[c]] = home[cancelAt[c]] /\ phase[known[c]] = "retired"
    THEN {known[c]} ELSE {}

HandleCancel(c) ==
    /\ cancelAt[c] # None
    /\ phase[cancelAt[c]] # "dead"
    /\ cancelled' = [b \in Bridges |-> cancelled[b] \union
                        {d \in {c} : b \in CancelRoute(c) /\ d \in active[b]}]
    /\ cancelAt' = Set(cancelAt, c, None)
    /\ UNCHANGED <<registryVars, attempt, link, sent, srv, reply, effect, runs, active, verdict>>

Handle(c) == \/ Accept(c) \/ ReadRequest(c) \/ RefuseRequest(c) \/ DispatchRequest(c)
             \/ Complete(c) \/ ObeyCancel(c) \/ WriteReply(c) \/ HandleCancel(c)

-----------------------------------------------------------------------------
\* The drain of a stop is bounded: a request may be cut short by it, as by a kill.
RegistryStep ==
    /\ \/ StartGui
       \/ \E b \in Bridges : \/ BridgeStep(b)
                             \/ StopBridge(b)
                             \/ RestartBridge(b)
                             \/ KillProcess(b)
       \/ \E c \in Clients : Discover(c)
    /\ UNCHANGED requestVars

RequestNext == RegistryStep \/ \E c \in Clients : ClientStep(c) \/ Handle(c)

-----------------------------------------------------------------------------
Verdicts == {"none", "unreachable", "unverified", "notSent", "contactLost", "noAnswer",
             "timeoutCancelSent", "timeoutNoCancel",
             "ok", "cancelled", "mismatch", "refused"}

TypeOK ==
    /\ RegistryTypeOK
    /\ attempt \in [Clients -> 0..ConnectRetries]
    /\ link \in [Clients -> Bridges \union {None}]
    /\ sent \in [Clients -> {"nothing", "part", "whole"}]
    /\ srv \in [Clients -> {"none", "backlog", "accepted", "active", "writing",
                            "answered", "closed"}]
    /\ effect \in [Clients -> {"none", "running", "done", "undone"}]
    /\ runs \in [Clients -> [Bridges -> Nat]]
    /\ cancelAt \in [Clients -> Bridges \union {None}]
    /\ reply \in [Clients -> Verdicts] /\ verdict \in [Clients -> Verdicts]
    /\ \A b \in Bridges : cancelled[b] \subseteq active[b]

\* Whatever is retried, restarted or swept away, a request is dispatched at most
\* once, and only by the bridge that the client had resolved, never by the
\* successor that took its socket.
RunAtMostOnce ==
    \A c \in Clients : \A b \in Bridges :
        runs[c][b] <= (IF b = known[c] THEN 1 ELSE 0)

\* What the user is told holds, then and later: a request that is reported as never
\* delivered or as refused is never dispatched; one that is reported as done was
\* completed, and one that is reported as cancelled was taken back, and only at
\* the client's own request.
VerdictIsTrue ==
    \A c \in Clients :
      /\ verdict[c] \in {"unreachable", "unverified", "notSent", "mismatch", "refused"} =>
            effect[c] = "none"
      /\ verdict[c] = "ok" => effect[c] = "done"
      /\ verdict[c] = "cancelled" => effect[c] = "undone"
      /\ effect[c] = "undone" => at[c] = "done" /\ verdict[c] = "timeoutCancelSent"
=============================================================================
