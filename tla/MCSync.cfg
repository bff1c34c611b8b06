SPECIFICATION FairSpec
CONSTANTS
    Paths <- MCPaths
    Root = "r"
    Spaces <- MCSpaces
    Parent <- MCParent
    KindPairs <- AllKinds
    Modes <- AllModes
    MaxClock = 6
    Faults = {"read", "misread", "write", "copy", "crash"}
    MaxFaults = 1
    BusyModes = {FALSE, TRUE}
INVARIANTS TypeOK Synchronized SourceKeptAtRest TargetKept NewestSurvives
PROPERTIES InSyncIdle Converges
