--------------------------- MODULE MCIndexedStore ---------------------------
EXTENDS IndexedStore

CONSTANTS t1, t2

\* One goroutine, in a DSS that is empty or has two versions of an entry.
Alone(kinds, cold, last) ==
    [threads |-> {t1}, ops |-> {"read", "write", "remove"}, kinds |-> kinds, cold |-> cold,
     priors |-> {{}, {1, 2}}, last |-> last]

\* Two goroutines that read and write an entry that has been written once,
\* with an index that is warm.
Shared ==
    [threads |-> {t1, t2}, ops |-> {"read", "write"}, kinds |-> {"bdb", "no"}, cold |-> {"no"},
     priors |-> {{1}}, last |-> 3]

AloneAndShared == {Alone({"bdb", "memory", "no"}, {"memory", "no"}, 4), Shared}

\* These are the uses that the theorems are about.
ASSUME UsesAreCareful == \A u \in AloneAndShared : CarefulUse(u)

\* An index that is opened empty on a storage that is not.
Cold == {[Alone({"bdb"}, {"bdb"}, 3) EXCEPT !.ops = {"read", "write"}]}
=============================================================================
