SPECIFICATION Spec
CONSTANTS
    Paths <- MCPaths
    Root = "r"
    Spaces <- MCSpaces
    Parent <- MCParent
    KindPairs <- Files
    Modes <- OneWay
    MaxClock = 6
    Faults = {}
    MaxFaults = 1
    BusyModes = {TRUE}
INVARIANTS SourceKept
