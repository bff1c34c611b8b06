SPECIFICATION Spec
CONSTANTS
    Paths <- MCPaths
    Root = "r"
    Spaces <- MCSpaces
    Parent <- MCParent
    KindPairs <- Objects
    Modes <- OneWay
    MaxClock = 6
    Faults = {"write"}
    MaxFaults = 1
    BusyModes = {FALSE}
INVARIANTS ReportTruthful
