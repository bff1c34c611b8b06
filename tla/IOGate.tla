------------------------------- MODULE IOGate -------------------------------
(***************************************************************************)
(* What a reducer promises its users, independently of how it schedules:  *)
(* works enter a gate that never holds more than Limit of them, each work  *)
(* runs at most once, a work may be turned away only once the gate is      *)
(* being closed, and a gate that is shut holds no work and lets none in.   *)
(***************************************************************************)
EXTENDS Naturals, FiniteSets

CONSTANTS
    Calls,      \* the works handed to the gate
    Limit       \* how many works the gate holds at most

VARIABLES
    inside,     \* works being run
    ran,        \* works that have run to their end
    refused,    \* works that were turned away
    phase       \* "open", "closing" or "shut"

gateVars == <<inside, ran, refused, phase>>

Init ==
    /\ inside = {}
    /\ ran = {}
    /\ refused = {}
    /\ phase = "open"

Enter(c) ==
    /\ c \notin inside \union ran \union refused
    /\ Cardinality(inside) < Limit
    /\ phase # "shut"
    /\ inside' = inside \union {c}
    /\ UNCHANGED <<ran, refused, phase>>

Leave(c) ==
    /\ c \in inside
    /\ inside' = inside \ {c}
    /\ ran' = ran \union {c}
    /\ UNCHANGED <<refused, phase>>

Refuse(c) ==
    /\ c \notin inside \union ran \union refused
    /\ phase = "closing"
    /\ refused' = refused \union {c}
    /\ UNCHANGED <<inside, ran, phase>>

StartClosing ==
    /\ phase = "open"
    /\ phase' = "closing"
    /\ UNCHANGED <<inside, ran, refused>>

Shut ==
    /\ phase = "closing"
    /\ inside = {}
    /\ phase' = "shut"
    /\ UNCHANGED <<inside, ran, refused>>

Next ==
    \/ \E c \in Calls : Enter(c) \/ Leave(c) \/ Refuse(c)
    \/ StartClosing
    \/ Shut

Spec == Init /\ [][Next]_gateVars
=============================================================================
