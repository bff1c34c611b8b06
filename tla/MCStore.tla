------------------------------ MODULE MCStore -------------------------------
EXTENDS Store, TLC

CONSTANTS root, d, f, g, c1, c2, link, t1, t2, t3, noVersion

MCPaths == {root, d, f, g}
MCNamespaces == {root, d}
MCParent == (root :> root) @@ (d :> root) @@ (f :> d) @@ (g :> d)

\* The root lists d since the first instant, d lists f and g since the second.
Tree == [p \in MCPaths |-> [t \in 1 .. LastTime |->
            IF p = root /\ t = 1 THEN {d}
            ELSE IF p = d /\ t = 2 THEN {f, g} ELSE noVersion]]

WithFile == [Tree EXCEPT ![f][3] = c1]

\* d is emptied, then lists f again: the version of f is seen before and after.
Relisted == [WithFile EXCEPT ![d][4] = {}, ![d][6] = {f}]

Symmetry == Permutations({t1, t2})

Starts(seconds) == {Second * k : k \in seconds}

MCModes ==
    {[storage |-> "files", threads |-> {t3}, ops |-> {"updatens", "write", "removeHistory"},
      entries |-> {root, d, f}, contents |-> {c1}, periods |-> Starts({0, 1}) \X Starts({0, 2}),
      faults |-> FALSE, gaps |-> {1, 2}, last |-> 6, priors |-> {WithFile}],
     [storage |-> "files", threads |-> {t3}, ops |-> {"write", "removeHistory"},
      entries |-> {root, d, f}, contents |-> {c1}, periods |-> Starts(0 .. 2) \X Starts({0, 1, 2}),
      faults |-> TRUE, gaps |-> {2}, last |-> 8, priors |-> {Relisted}],
     [storage |-> "files", threads |-> {t1, t2}, ops |-> {"write", "scan"},
      entries |-> {root, f}, contents |-> {c1, c2}, periods |-> {},
      faults |-> TRUE, gaps |-> {1}, last |-> 4, priors |-> {Tree}],
     [storage |-> "objects", threads |-> {t1, t2}, ops |-> {"write", "scan", "removeHistory"},
      entries |-> {root, f}, contents |-> {c1}, periods |-> {<<0, 0>>},
      faults |-> TRUE, gaps |-> {1}, last |-> 4, priors |-> {WithFile}],
     [storage |-> "objects", threads |-> {t3}, ops |-> {"symlink", "scan", "removeHistory"},
      entries |-> {root, d, f}, contents |-> {c1}, periods |-> {<<0, 0>>, <<4, 0>>},
      faults |-> TRUE, gaps |-> {2}, last |-> 8, priors |-> {Relisted}],
     [storage |-> "files", threads |-> {t1, t2}, ops |-> {"updatens", "remove"},
      entries |-> {root, d, f, g}, contents |-> {}, periods |-> {},
      faults |-> FALSE, gaps |-> {1}, last |-> 5, priors |-> {WithFile}],
     [storage |-> "files", threads |-> {t1, t2}, ops |-> {"remove", "removeHistory"},
      entries |-> {d, f}, contents |-> {}, periods |-> Starts({0, 2}) \X {0},
      faults |-> FALSE, gaps |-> {1}, last |-> 4, priors |-> {WithFile}]}
=============================================================================
