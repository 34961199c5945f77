CONSTANTS
    Views = {v1, v2}
    Changes = {c1, c2, c3}
    Faults = {}
SYMMETRY Symmetry
SPECIFICATION Spec
INVARIANT RestartFindsTheWork
PROPERTY FallbackKeepsWork
CHECK_DEADLOCK FALSE
