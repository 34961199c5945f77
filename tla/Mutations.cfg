\* One mutating request: up to three operations of every kind against every fault
\* that the code handles, or a Go rename of three functions in chunks of two while
\* the user makes two edits.
SPECIFICATION Spec
CHECK_DEADLOCK FALSE
CONSTANTS
    MaxOps = 3
    Kinds = {"rename", "declare", "local", "proto", "autoProto", "create", "delete"}
    Faults = {"undo", "restore", "drift", "hosts", "analysis", "verify", "commit", "import"}
    NFunctions = 3
    ChunkSize = 2
    GuiEdits = 2
    GoFaults = {"set", "restore"}
INVARIANTS
    OutcomeIsHonest
    ModifiedViewIsMarked
    CleanViewIsNotMarked
    DirtyAfterIsTheMark
PROPERTY
    UserNamesSurvive
