\* Two clients with one request each, and one instance id.  Up to three bridges in
\* succession: one that may have left its files behind when it was killed, and
\* others that clients spawn, or that the user starts and restarts in one process.
\* One command that stops or restarts a session of two bridges on two process ids,
\* among other clients' loads, changes, saves, starts and stops.
\* Two processes that set and clear pins without limit.
SPECIFICATION Spec
CHECK_DEADLOCK FALSE
SYMMETRY Symmetry
CONSTANTS
    c1 = c1
    c2 = c2
    Clients = {c1, c2}
    MaxBridges = 3
    ConnectRetries = 2
    k1 = k1
    t1 = t1
    Commands = {k1}
    Targets = {t1}
    Pids = {1, 2}
    MaxSessions = 2
    Users = {"first", "second"}
    PinValues = {"v", "w"}
INVARIANTS
    RunAtMostOnce
    VerdictIsTrue
    BridgesInReach
    ItsBridgeEnds
    NothingLostUnasked
    PinsSurvive
