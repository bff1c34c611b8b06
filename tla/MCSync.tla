------------------------------- MODULE MCSync -------------------------------
\* A root "r" with a content "g" and a namespace "d" that holds a content "f".
EXTENDS Sync

MCPaths  == {"r", "d", "f", "g"}
MCSpaces == {"r", "d"}
MCParent == [p \in {"d", "f", "g"} |-> IF p = "f" THEN "d" ELSE "r"]

\* The pairs <<BiDir, KeepContent>>.
OneWay   == {<<FALSE, FALSE>>, <<FALSE, TRUE>>}
TwoWays  == {<<TRUE, FALSE>>, <<TRUE, TRUE>>}
AllModes == OneWay \union TwoWays

\* The pairs <<left kind, right kind>>.
AllKinds == {"fsy", "object"} \X {"fsy", "object"}
Files    == {<<"fsy", "fsy">>}
Objects  == {<<"object", "object">>}
=============================================================================
