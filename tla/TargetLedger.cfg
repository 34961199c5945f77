CONSTANTS
    Views = {v1, v2}
    Requests = {r1, r2}
    Nothing = Nothing
    Surprises = {}
    MaxId = 2
SPECIFICATION Spec
SYMMETRY Symmetry
INVARIANTS
    UnsavedWorkIsMarked
    CleanViewIsNotMarked
    IdsIdentifyViews
PROPERTY UnsavedIdIsStable
\* A refresh that finds no id left within MaxId stops its request.
CHECK_DEADLOCK FALSE
