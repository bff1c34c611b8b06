SPECIFICATION Spec
CONSTANTS
    t1 = t1
    t2 = t2
    Paths = {p}
    Threads = {t1}
    MaxTime = 3
    Uses <- Cold
    NoEntry = NoEntry
PROPERTIES RepairKeepsListed
