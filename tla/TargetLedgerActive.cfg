CONSTANTS
    Views = {v1, v2}
    Requests = {r1, r2}
    Nothing = Nothing
    Surprises = {"focus"}
    MaxId = 2
SPECIFICATION Spec
INVARIANT UnsavedWorkIsMarked
\* A refresh that finds no id left within MaxId stops its request.
CHECK_DEADLOCK FALSE
