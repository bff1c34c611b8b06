--------------------------- MODULE MCClientIndex ---------------------------
\* Two processes of the client "a", one of the client "b".
EXTENDS ClientIndex, TLC

CONSTANTS a1, a2, b1

MCClientOf == [pr \in {a1, a2, b1} |-> IF pr = b1 THEN "b" ELSE "a"]

\* "a" is updated again and again, "b" opens the DSS once.
MCMaxTx == [cl \in {"a", "b"} |-> IF cl = "a" THEN 2 ELSE 0]

\* The processes of "a" do the same.
SameClient == Permutations({a1, a2})

\* Bound: the properties say little of a client whose index two processes have
\* opened at once, so they go on from there without faults and without "b".
RacedAlone == raced = {} \/ (faults = 0 /\ proc[b1].step = "closed")
=============================================================================
