CONSTANTS
    Loads = {l1, l2}
    NoLoad = NoLoad
SPECIFICATION Spec
INVARIANT NoDuplicateView
\* Every load has been answered and nothing is left to close.
CHECK_DEADLOCK FALSE
