CONSTANTS
    Threads = {t1, t2, t3}
    None = None
    Views = {v1}
    Ops = {"read", "py_exec", "refresh"}
    WriteBudget = 2
SPECIFICATION FairSpec
PROPERTIES
    EveryRequestAnswered
    AccessSpec
