\* Every operation, three concurrent requests.
CONSTANTS
    Threads = {t1, t2, t3}
    None = None
    Views = {v1}
    Ops = {"read", "py_exec", "close_binary", "mutation", "class_apply_types", "function_create", "go_rename", "refresh", "load_binary"}
    WriteBudget = 3
SPECIFICATION Spec
SYMMETRY Symmetry
INVARIANTS
    LocksInv
    NoLostWakeup
    BlockedReadIsReported
    GateHolderNamed
    RefreshNeverQueuesBehindRefresh
    SessionViewStaysOpen
    RefusedBeforeWorking
