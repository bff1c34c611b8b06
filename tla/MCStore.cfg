SPECIFICATION Spec
CONSTANTS
    root = root
    d = d
    f = f
    g = g
    c1 = c1
    c2 = c2
    link = link
    t1 = t1
    t2 = t2
    t3 = t3
    noVersion = noVersion
    Paths <- MCPaths
    Root = root
    Namespaces <- MCNamespaces
    Parent <- MCParent
    LastTime = 8
    Second = 2
    NoVersion = noVersion
    Contents = {c1, c2}
    Link = link
    Threads = {t1, t2, t3}
    Modes <- MCModes
INVARIANTS
    TypeOK
    ContentKept
    RemovalHolds
    HistoryExact
    PurgeExact
PROPERTIES
    RemovalOutside
    RemovalFails
SYMMETRY Symmetry
CHECK_DEADLOCK FALSE
