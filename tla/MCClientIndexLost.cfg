SPECIFICATION Spec
CONSTANTS
    Clients = {"a", "b"}
    Processes = {a1, a2, b1}
    a1 = a1
    a2 = a2
    b1 = b1
    ClientOf <- MCClientOf
    Paths = {p}
    Prior = 1
    MaxTime = 2
    MaxTx <- MCMaxTx
    MaxFaults = 0
    Faults = {}
    NoEntry = NoEntry
PROPERTIES KnownPathsUpToDate
