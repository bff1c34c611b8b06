------------------------------ MODULE Parallel ------------------------------
(***************************************************************************)
(* plumber/material.go: a function started for each input, under a limit   *)
(* of its own, by a caller that waits for all of them.                     *)
(*                                                                         *)
(* Nodes are the executions of the functions that a call started from the  *)
(* root makes, each in a goroutine of its own. The body of a node is a     *)
(* call of LaunchAndWait (Launchers), a call of Parallelize (Collectors)   *)
(* or a work that starts nobody. The channels are unbuffered: a send and   *)
(* its receive are one step.                                               *)
(*                                                                         *)
(* When the parallelization is disabled the caller runs its functions one  *)
(* after the other; the order of the inputs, which decides nothing here,   *)
(* is left open.                                                           *)
(***************************************************************************)
EXTENDS Context, Naturals, FiniteSets

CONSTANTS
    Nodes,          \* the executions
    Root,           \* the one everything starts from
    Launchers,      \* those whose body calls LaunchAndWait
    Collectors,     \* those whose body calls Parallelize
    Children,       \* the executions each of these calls starts
    Regulator,      \* the regulator that each execution is started under
    Limits,         \* Config.RglatorsByName: 0 is no limit
    Nobody          \* no execution

ASSUME NodesFinite == IsFiniteSet(Nodes)
ASSUME RootIsNode == Root \in Nodes
ASSUME BodiesDiffer == /\ Launchers \subseteq Nodes
                       /\ Collectors \subseteq Nodes
                       /\ Launchers \intersect Collectors = {}
ASSUME ChildrenAreNodes == Children \in [Nodes -> SUBSET (Nodes \ {Root})]
ASSUME ChildrenAreOthers == \A n \in Nodes : n \notin Children[n]
ASSUME OneParent ==
    \A m, n \in Nodes : m # n => Children[m] \intersect Children[n] = {}
ASSUME WorksAreLeaves ==
    \A n \in Nodes : Children[n] # {} => n \in Launchers \union Collectors
ASSUME LimitsNatural == Limits \in [DOMAIN Limits -> Nat]
ASSUME RegulatorsNamed == Regulator \in [Nodes -> DOMAIN Limits]
ASSUME NobodyDiffers == Nobody \notin Nodes

VARIABLES
    plizerEnabled,  \* Config.PlizerEnabled, which never changes
    pc,             \* where each execution is
    tokens,         \* what is left in Config.rglatorChans
    held,           \* the output that OrDone has received and not passed on
    streaming,      \* the calls of Parallelize whose OrDone still forwards
    outputs         \* the inputs whose output each call has received

parallelVars == <<plizerEnabled, pc, tokens, held, streaming, outputs>>

ParallelTypeOK ==
    /\ cancelled \in BOOLEAN
    /\ plizerEnabled \in BOOLEAN
    /\ pc \in [Nodes -> {"idle", "started", "running", "sending", "done"}]
    /\ tokens \in [DOMAIN Limits -> Nat]
    /\ held \in [Nodes -> Nodes \union {Nobody}]
    /\ streaming \in SUBSET Collectors
    /\ outputs \in [Nodes -> SUBSET Nodes]

\* Regulated is called only where the regulator has a limit.
Regulated(n) == plizerEnabled /\ Limits[Regulator[n]] > 0

\* The caller reads the outputs of its functions from a channel.
Streamed(n) == plizerEnabled /\ \E p \in Collectors : n \in Children[p]

-----------------------------------------------------------------------------
\* A fault: each channel is given a token more than its limit.
ContextOneMore(enabled) ==
    /\ plizerEnabled = enabled
    /\ tokens = [r \in DOMAIN Limits |-> IF Limits[r] > 0 THEN Limits[r] + 1 ELSE 0]

ContextWithConfig(enabled) ==
    /\ plizerEnabled = enabled
    /\ tokens = Limits

ParallelInit ==
    /\ cancelled = FALSE
    /\ plizerEnabled \in BOOLEAN
    /\ ContextWithConfig(plizerEnabled)
    /\ pc = [n \in Nodes |-> "idle"]
    /\ held = [n \in Nodes |-> Nobody]
    /\ streaming = {}
    /\ outputs = [n \in Nodes |-> {}]

\* Somebody calls the function of the root.
StartRoot ==
    /\ pc[Root] = "idle"
    /\ pc' = [pc EXCEPT ![Root] = "started"]
    /\ UNCHANGED <<plizerEnabled, tokens, held, streaming, outputs>>

\* A fault: a token is taken without waiting for one.
EnterFreely(n) ==
    /\ pc[n] = "started"
    /\ tokens' = IF Regulated(n)
                 THEN [tokens EXCEPT ![Regulator[n]] = @ - 1]
                 ELSE tokens
    /\ pc' = [m \in Nodes |->
                IF m = n THEN "running"
                ELSE IF plizerEnabled /\ m \in Children[n] THEN "started"
                ELSE pc[m]]
    /\ streaming' = IF plizerEnabled /\ n \in Collectors /\ Children[n] # {}
                    THEN streaming \union {n}
                    ELSE streaming
    /\ UNCHANGED <<plizerEnabled, held, outputs>>

\* The goroutine of n takes a token where it has to, calls the function,
\* and the function starts a goroutine for each input.
Enter(n) ==
    /\ pc[n] = "started"
    /\ Regulated(n) => tokens[Regulator[n]] > 0
    /\ tokens' = IF Regulated(n)
                 THEN [tokens EXCEPT ![Regulator[n]] = @ - 1]
                 ELSE tokens
    /\ pc' = [m \in Nodes |->
                IF m = n THEN "running"
                ELSE IF plizerEnabled /\ m \in Children[n] THEN "started"
                ELSE pc[m]]
    /\ streaming' = IF plizerEnabled /\ n \in Collectors /\ Children[n] # {}
                    THEN streaming \union {n}
                    ELSE streaming
    /\ UNCHANGED <<plizerEnabled, held, outputs>>

\* Without parallelization the caller goes on to its next function.
NextInput(p, n) ==
    /\ ~plizerEnabled
    /\ pc[p] = "running"
    /\ n \in Children[p]
    /\ pc[n] = "idle"
    /\ \A m \in Children[p] : pc[m] \in {"idle", "done"}
    /\ pc' = [pc EXCEPT ![n] = "started"]
    /\ UNCHANGED <<plizerEnabled, tokens, held, streaming, outputs>>

\* Where the output of a function goes once its goroutine has it.
Leaving(n) == IF Streamed(n) THEN "sending" ELSE "done"

\* Regulated finds its context cancelled: the function is not called.
Skip(n) ==
    /\ pc[n] = "started"
    /\ Regulated(n)
    /\ cancelled
    /\ pc' = [pc EXCEPT ![n] = Leaving(n)]
    /\ UNCHANGED <<plizerEnabled, tokens, held, streaming, outputs>>

\* A fault: LaunchAndWait looks at the context too.
AwaitedUnlessCancelled(n) ==
    IF plizerEnabled /\ n \in Collectors
    THEN n \notin streaming
    ELSE cancelled \/ \A m \in Children[n] : pc[m] = "done"

\* A fault: LaunchAndWait counts one function only.
AwaitedFirst(n) ==
    IF plizerEnabled /\ n \in Collectors
    THEN n \notin streaming
    ELSE Children[n] # {} => \E m \in Children[n] : pc[m] = "done"

\* What the body of n waits for before it returns.
Awaited(n) ==
    IF plizerEnabled /\ n \in Collectors
    THEN n \notin streaming
    ELSE \A m \in Children[n] : pc[m] = "done"

\* A fault: the token is not given back.
ReturnKeepingToken(n) ==
    /\ pc[n] = "running"
    /\ Awaited(n)
    /\ pc' = [pc EXCEPT ![n] = Leaving(n)]
    /\ outputs' = IF ~plizerEnabled THEN [outputs EXCEPT ![n] = Children[n]] ELSE outputs
    /\ UNCHANGED <<plizerEnabled, tokens, held, streaming>>

\* The function returns, and gives its token back.
Return(n) ==
    /\ pc[n] = "running"
    /\ Awaited(n)
    /\ pc' = [pc EXCEPT ![n] = Leaving(n)]
    /\ tokens' = IF Regulated(n)
                 THEN [tokens EXCEPT ![Regulator[n]] = @ + 1]
                 ELSE tokens
    /\ outputs' = IF ~plizerEnabled THEN [outputs EXCEPT ![n] = Children[n]] ELSE outputs
    /\ UNCHANGED <<plizerEnabled, held, streaming>>

-----------------------------------------------------------------------------
\* A goroutine of Parallelize hands its output to OrDone.
SendOutput(p, n) ==
    /\ pc[n] = "sending"
    /\ n \in Children[p]
    /\ p \in streaming
    /\ held[p] = Nobody
    /\ held' = [held EXCEPT ![p] = n]
    /\ pc' = [pc EXCEPT ![n] = "done"]
    /\ UNCHANGED <<plizerEnabled, tokens, streaming, outputs>>

\* It gives up, because the context is cancelled.
GiveUp(n) ==
    /\ pc[n] = "sending"
    /\ cancelled
    /\ pc' = [pc EXCEPT ![n] = "done"]
    /\ UNCHANGED <<plizerEnabled, tokens, held, streaming, outputs>>

\* OrDone passes an output on to the caller.
Forward(p) ==
    /\ p \in streaming
    /\ held[p] # Nobody
    /\ outputs' = [outputs EXCEPT ![p] = @ \union {held[p]}]
    /\ held' = [held EXCEPT ![p] = Nobody]
    /\ UNCHANGED <<plizerEnabled, pc, tokens, streaming>>

\* OrDone drops an output, because the context is cancelled.
Drop(p) ==
    /\ p \in streaming
    /\ held[p] # Nobody
    /\ cancelled
    /\ held' = [held EXCEPT ![p] = Nobody]
    /\ UNCHANGED <<plizerEnabled, pc, tokens, streaming, outputs>>

\* A fault: the wait group is released before the output is sent.
EndStreamEarly(p) ==
    /\ p \in streaming
    /\ held[p] = Nobody
    /\ cancelled \/ \A n \in Children[p] : pc[n] \in {"sending", "done"}
    /\ streaming' = streaming \ {p}
    /\ UNCHANGED <<plizerEnabled, pc, tokens, held, outputs>>

\* OrDone ends: every goroutine of the call has ended and its stream is
\* closed, or the context is cancelled.
EndStream(p) ==
    /\ p \in streaming
    /\ held[p] = Nobody
    /\ cancelled \/ \A n \in Children[p] : pc[n] = "done"
    /\ streaming' = streaming \ {p}
    /\ UNCHANGED <<plizerEnabled, pc, tokens, held, outputs>>

-----------------------------------------------------------------------------
\* A step that needs nobody but the parallelizer; the return of a work is
\* its own affair.
Advance ==
    \/ \E n \in Nodes : Enter(n) \/ Skip(n) \/ GiveUp(n)
    \/ \E p \in Launchers \union Collectors : Return(p)
    \/ \E p \in Nodes : \E n \in Children[p] : NextInput(p, n) \/ SendOutput(p, n)
    \/ \E p \in Collectors : Forward(p) \/ Drop(p) \/ EndStream(p)

Works == Nodes \ (Launchers \union Collectors)

ParallelNext ==
    \/ StartRoot /\ UNCHANGED cancelled
    \/ Advance /\ UNCHANGED cancelled
    \/ (\E n \in Works : Return(n)) /\ UNCHANGED cancelled
    \/ Cancel /\ UNCHANGED parallelVars

ParallelSpec == ParallelInit /\ [][ParallelNext]_<<cancelled, parallelVars>>

-----------------------------------------------------------------------------
\* At most as many executions run under a regulator as its limit says,
\* whatever nests in them, also after an abort (material.go:18-36).
RegulatedLimit ==
    plizerEnabled =>
        \A r \in DOMAIN Limits :
            Limits[r] > 0 =>
                Cardinality({n \in Nodes : Regulator[n] = r /\ pc[n] = "running"}) <= Limits[r]

\* LaunchAndWait returns when all its functions have returned, also after
\* an abort (material.go:158).
LaunchWaits ==
    \A n \in Launchers :
        pc[n] \in {"sending", "done"} =>
            \/ Regulated(n) /\ cancelled
            \/ \A m \in Children[n] : pc[m] = "done"

\* Unless the command is aborted, Parallelize returns the output of every
\* input and leaves nobody behind: neither a value in a channel nor a
\* goroutine (material.go:110-113).
Complete ==
    ~cancelled =>
        \A p \in Collectors :
            pc[p] \in {"sending", "done"} =>
                /\ outputs[p] = Children[p]
                /\ \A n \in Children[p] : pc[n] = "done"
=============================================================================
