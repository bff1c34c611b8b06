SPECIFICATION Spec
CONSTANTS
    t1 = t1
    t2 = t2
    Paths = {p}
    Threads = {t1, t2}
    MaxTime = 4
    Uses <- AloneAndShared
    NoEntry = NoEntry
INVARIANTS TypeOK AckedListed NewestChosen ServedFromIndex ListedBacked GoneStaysGone
