\* Three calls for two slots: one has to wait, and Close may come at any time.
SPECIFICATION FairSpec
CONSTANTS
    Calls = {c1, c2, c3}
    Limit = 2
INVARIANTS
    TypeOK
    AtMostLimit
    QuietAfterClose
PROPERTIES
    AdmittedReturns
    LaunchServed
    CloseCompletes
    ImplementsGate
CHECK_DEADLOCK FALSE
