\* A listing with one token for GetMetas and a reducer of one slot, the
\* scheduler with two jobs, and a runner with a late unit of work.
SPECIFICATION FairSpec
CONSTANTS
    Nodes <- MCNodes
    Root = "walk"
    Launchers <- MCLaunchers
    Collectors <- MCCollectors
    Children <- MCChildren
    Regulator <- MCRegulator
    Limits <- MCLimits
    Nobody = Nobody
    Uows = {"main", "late"}
    Early = {"main"}
    Main = "main"
    Printers = {"main", "late", "file", "dir", "job1", "job2"}
    Jobs = {"job1", "job2"}
    Specs <- MCSpecs
    GateLimit = 1
    Modes = {"lsns", "schedule", "late", "dss", "webapi"}
INVARIANTS
    TypeOK
    RegulatedLimit
    LaunchWaits
    Complete
    ClosedAfterUse
    PanicOnlyAborted
    OneRunAtATime
PROPERTIES
    CommandEnds
    RunAgain
CHECK_DEADLOCK FALSE
