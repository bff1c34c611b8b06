\* Close with a call admitted and another one waiting for its turn.
SPECIFICATION FairSpec
CONSTANTS
    Calls = {c1, c2}
    Limit = 1
PROPERTIES
    CloseReturns
CHECK_DEADLOCK FALSE
