CONSTANTS
    Loads = {l1, l2, l3}
    NoLoad = NoLoad
SPECIFICATION Spec
SYMMETRY Symmetry
INVARIANTS
    OpenersDisjoint
    NothingLeaked
    CleanupClosesItsOwn
    StaleDatabaseRefused
    NoStrandedWaiter
    MarkersMatchWork
\* Every load has been answered and nothing is left to close.
CHECK_DEADLOCK FALSE
