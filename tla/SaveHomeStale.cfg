CONSTANTS
    Views = {v1}
    Changes = {c1, c2, c3}
    Faults = {"inPlace"}
SPECIFICATION Spec

INVARIANT RestartFindsTheWork
CHECK_DEADLOCK FALSE
