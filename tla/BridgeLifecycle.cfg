CONSTANTS
    Bridges = {b1, b2}
    Requests = {q1, q2}
    Stoppers = {s1, s2}
    None = None
    Headless = TRUE
SPECIFICATION Spec
SYMMETRY Symmetry
INVARIANTS
    ServingBridgeReachable
    RegistryStays
    NoGhostRegistry
    IdleInterruptsNothing
    DrainedMeansAnswered
\* Every bridge may have come and gone.
CHECK_DEADLOCK FALSE
