\* A forward run over every small program of two functions, and a backward slice of
\* every value of every small function under every list of callers.
SPECIFICATION Spec
CHECK_DEADLOCK FALSE
CONSTANTS
    Functions <- MCFunctions
    NParams <- MCNParams
    Length <- MCLength
    Menu <- MCMenu
    Settings <- MCSettings
    Rounds = 5
    Overlooked = {"unliftedPointer", "longPointer", "surplusArgument"}
    SliceFunctions <- MCSliceFunctions
    Arity <- MCArity
    Size <- MCSize
    Definitions <- MCDefinitions
    SiteLists <- MCSiteLists
    Bounds <- MCBounds
    Undisclosed = {"skippedSite", "returnedSource"}
INVARIANTS
    AllClearIsTrue
    CompleteRunIsExact
    CompleteSliceIsComplete
