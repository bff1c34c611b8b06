SPECIFICATION Spec
CONSTANTS
    Paths <- MCPaths
    Root = "r"
    Spaces <- MCSpaces
    Parent <- MCParent
    KindPairs <- Files
    Modes <- TwoWays
    MaxClock = 6
    Faults = {"crash"}
    MaxFaults = 1
    BusyModes = {FALSE}
INVARIANTS NewestKept
