--------------------------- MODULE ParallelProofs ---------------------------
(***************************************************************************)
(* What TLAPS proves of the parallelizer for every finite tree of calls    *)
(* and all limits: the limits hold, LaunchAndWait waits, and Parallelize   *)
(* is complete unless the context is cancelled.                            *)
(***************************************************************************)
EXTENDS Parallel, FiniteSetTheorems, TLAPS

\* The executions that hold a token of r.
Holders(r) == {n \in Nodes : Regulator[n] = r /\ pc[n] = "running"}

\* A token is in the channel of its regulator or with an execution.
TokensCounted ==
    plizerEnabled =>
        \A r \in DOMAIN Limits :
            Limits[r] > 0 => tokens[r] + Cardinality(Holders(r)) = Limits[r]

\* OrDone forwards for calls that run, holds nothing once it has ended, and
\* does not exist without parallelization.
StreamsRun ==
    /\ ~plizerEnabled => streaming = {}
    /\ \A p \in streaming : pc[p] = "running"
    /\ \A p \in Nodes : p \notin streaming => held[p] = Nobody
    /\ \A p \in Nodes : held[p] # Nobody => held[p] \in Children[p]

\* Unless the context is cancelled, an execution that a Parallelize started
\* and that is done has its output received or held, and OrDone ends when
\* all are done.
OutputsKept ==
    plizerEnabled /\ ~cancelled =>
        \A p \in Collectors :
            /\ outputs[p] \subseteq Children[p]
            /\ \A n \in Children[p] :
                  pc[n] = "done" => n \in outputs[p] \/ held[p] = n
            /\ pc[p] \in {"running", "sending", "done"} /\ p \notin streaming =>
                  \A n \in Children[p] : pc[n] = "done"

\* Without parallelization a function that has returned has its outputs.
SerialKept ==
    ~plizerEnabled =>
        \A p \in Collectors :
            pc[p] \in {"sending", "done"} =>
                /\ outputs[p] = Children[p]
                /\ \A n \in Children[p] : pc[n] = "done"

\* Nobody is started before the function that starts it.
Unstarted ==
    \A p \in Nodes : pc[p] \in {"idle", "started"} => \A n \in Children[p] : pc[n] = "idle"

IInv ==
    /\ ParallelTypeOK
    /\ Unstarted
    /\ TokensCounted
    /\ StreamsRun
    /\ OutputsKept
    /\ SerialKept
    /\ LaunchWaits

allVars == <<cancelled, parallelVars>>

-----------------------------------------------------------------------------
\* A set of executions is finite; with one more it counts one more, with
\* one less it counts one less.
LEMMA NodeCounts ==
    ASSUME NEW S \in SUBSET Nodes, NEW n \in Nodes
    PROVE  /\ Cardinality(S) \in Nat
           /\ n \notin S => Cardinality(S \union {n}) = Cardinality(S) + 1
           /\ n \in S => Cardinality(S \ {n}) = Cardinality(S) - 1
<1>1. IsFiniteSet(S)
  BY NodesFinite, FS_Subset
<1>2. QED
  BY <1>1, FS_CardinalityType, FS_AddElement, FS_RemoveElement

\* Nothing runs at the start, and every token is in its channel.
LEMMA InitIInv == ParallelInit => IInv
<1> SUFFICES ASSUME ParallelInit PROVE IInv
  OBVIOUS
<1> USE DEF ParallelInit, ContextWithConfig
<1>1. ParallelTypeOK
  BY LimitsNatural DEF ParallelTypeOK
<1>2. \A r \in DOMAIN Limits : Cardinality(Holders(r)) = 0
  <2>1. \A r \in DOMAIN Limits : Holders(r) = {}
    BY DEF Holders
  <2>2. QED
    BY <2>1, FS_EmptySet
<1>3. TokensCounted
  BY <1>2, LimitsNatural DEF TokensCounted
<1>4. Unstarted /\ StreamsRun /\ OutputsKept /\ SerialKept /\ LaunchWaits
  BY BodiesDiffer, ChildrenAreNodes
     DEF Unstarted, StreamsRun, OutputsKept, SerialKept, LaunchWaits
<1>5. QED
  BY <1>1, <1>3, <1>4 DEF IInv

\* An execution that starts or stops running under a regulator takes or
\* gives one token of it; the holders of the others stay.
LEMMA HoldersStep ==
    ASSUME NEW n \in Nodes, NEW r \in DOMAIN Limits,
           pc \in [Nodes -> {"idle", "started", "running", "sending", "done"}],
           \A m \in Nodes \ {n} : (pc'[m] = "running") <=> (pc[m] = "running")
    PROVE  /\ Regulator[n] # r => Holders(r)' = Holders(r)
           /\ Regulator[n] = r /\ pc[n] # "running" /\ pc'[n] = "running" =>
                 Cardinality(Holders(r)') = Cardinality(Holders(r)) + 1
           /\ Regulator[n] = r /\ pc[n] = "running" /\ pc'[n] # "running" =>
                 Cardinality(Holders(r)') = Cardinality(Holders(r)) - 1
           /\ (pc'[n] = "running" <=> pc[n] = "running") => Holders(r)' = Holders(r)
           /\ Cardinality(Holders(r)) \in Nat
<1>1. Holders(r) \in SUBSET Nodes
  BY DEF Holders
<1>2. Regulator[n] # r => Holders(r)' = Holders(r)
  BY DEF Holders
<1>3. Regulator[n] = r /\ pc[n] # "running" /\ pc'[n] = "running" =>
         Holders(r)' = Holders(r) \union {n} /\ n \notin Holders(r)
  BY DEF Holders
<1>4. Regulator[n] = r /\ pc[n] = "running" /\ pc'[n] # "running" =>
         Holders(r)' = Holders(r) \ {n} /\ n \in Holders(r)
  BY DEF Holders
<1>5. (pc'[n] = "running" <=> pc[n] = "running") => Holders(r)' = Holders(r)
  BY DEF Holders
<1>6. QED
  BY <1>1, <1>2, <1>3, <1>4, <1>5, NodeCounts

\* Steps after which the same executions run keep the tokens counted.
LEMMA SameHolders ==
    ASSUME TokensCounted, UNCHANGED <<tokens, plizerEnabled>>,
           \A m \in Nodes : (pc'[m] = "running") <=> (pc[m] = "running")
    PROVE  TokensCounted'
<1>1. \A r \in DOMAIN Limits : Holders(r)' = Holders(r)
  BY DEF Holders
<1>2. QED
  BY <1>1 DEF TokensCounted

-----------------------------------------------------------------------------
\* Every step keeps the invariant.
LEMMA NextIInv == IInv /\ [ParallelNext]_allVars => IInv'
<1> SUFFICES ASSUME IInv, [ParallelNext]_allVars
             PROVE  IInv'
  OBVIOUS
<1> USE DEF IInv
<1>t. /\ pc \in [Nodes -> {"idle", "started", "running", "sending", "done"}]
      /\ tokens \in [DOMAIN Limits -> Nat]
      /\ held \in [Nodes -> Nodes \union {Nobody}]
      /\ streaming \in SUBSET Collectors
      /\ outputs \in [Nodes -> SUBSET Nodes]
      /\ cancelled \in BOOLEAN /\ plizerEnabled \in BOOLEAN
      /\ Nobody \notin Nodes
  BY NobodyDiffers DEF ParallelTypeOK
<1>c. \A p \in Nodes : Children[p] \subseteq Nodes
  BY ChildrenAreNodes
<1>1. CASE StartRoot /\ UNCHANGED cancelled
  <2> USE <1>1, RootIsNode DEF StartRoot
  <2>0. \A p \in Nodes : Root \notin Children[p]
    BY ChildrenAreNodes
  <2>1. ParallelTypeOK'
    BY <1>t DEF ParallelTypeOK
  <2>2. TokensCounted'
    BY <1>t, SameHolders
  <2>3. StreamsRun' /\ Unstarted'
    BY <1>t, <1>c, <2>0, BodiesDiffer DEF StreamsRun, Unstarted
  <2>4. OutputsKept' /\ SerialKept' /\ LaunchWaits'
    BY <1>t, <1>c, <2>0, BodiesDiffer DEF OutputsKept, SerialKept, LaunchWaits, Regulated
  <2>5. QED
    BY <2>1, <2>2, <2>3, <2>4
<1>2. ASSUME NEW n \in Nodes, Enter(n), UNCHANGED cancelled
      PROVE  IInv'
  <2>0. /\ pc[n] = "started" /\ pc'[n] = "running"
        /\ n \notin streaming /\ held[n] = Nobody
        /\ \A m \in Children[n] : m # n /\ pc[m] = "idle"
                                  /\ pc'[m] = IF plizerEnabled THEN "started" ELSE "idle"
        /\ \A m \in Nodes \ {n} : m \notin Children[n] => pc'[m] = pc[m]
        /\ UNCHANGED <<plizerEnabled, held, outputs, cancelled>>
    BY <1>2, <1>t, <1>c DEF Enter, StreamsRun, Unstarted
  <2>1. ParallelTypeOK'
    <3>1. tokens' \in [DOMAIN Limits -> Nat]
      BY <1>2, <1>t, RegulatorsNamed DEF Enter, Regulated
    <3>2. QED
      BY <3>1, <1>2, <1>t DEF ParallelTypeOK, Enter
  <2>2. TokensCounted'
    <3> SUFFICES ASSUME plizerEnabled, NEW r \in DOMAIN Limits, Limits[r] > 0
                 PROVE  tokens'[r] + Cardinality(Holders(r)') = Limits[r]
      BY <2>0 DEF TokensCounted
    <3>1. tokens[r] + Cardinality(Holders(r)) = Limits[r] /\ tokens[r] \in Nat
      BY <1>t DEF TokensCounted
    <3>2. \A m \in Nodes \ {n} : (pc'[m] = "running") <=> (pc[m] = "running")
      BY <2>0
    <3>3. CASE Regulator[n] = r
      <4>1. tokens'[r] = tokens[r] - 1
        BY <3>3, <1>2, <1>t DEF Enter, Regulated
      <4>2. Cardinality(Holders(r)') = Cardinality(Holders(r)) + 1 /\ Cardinality(Holders(r)) \in Nat
        BY <3>3, <3>2, <2>0, <1>t, HoldersStep
      <4>3. QED
        BY <4>1, <4>2, <3>1
    <3>4. CASE Regulator[n] # r
      <4>1. tokens'[r] = tokens[r]
        BY <3>4, <1>2, <1>t DEF Enter
      <4>2. Holders(r)' = Holders(r)
        BY <3>4, <3>2, <1>t, HoldersStep
      <4>3. QED
        BY <4>1, <4>2, <3>1
    <3>5. QED
      BY <3>3, <3>4
  <2>3. StreamsRun'
    <3>1. \A p \in streaming : pc'[p] = "running"
      BY <2>0, <1>t, <1>c, BodiesDiffer DEF StreamsRun
    <3>2. streaming \subseteq streaming' /\ streaming' \subseteq streaming \union {n}
      BY <1>2 DEF Enter
    <3>3. ~plizerEnabled => streaming' = {}
      BY <1>2 DEF Enter, StreamsRun
    <3>4. QED
      BY <3>1, <3>2, <3>3, <2>0 DEF StreamsRun
  <2>4. Unstarted'
    BY <2>0, <1>t, <1>c, OneParent DEF Unstarted
  <2>5. OutputsKept'
    BY <2>0, <1>2, <1>t, <1>c, BodiesDiffer, OneParent DEF OutputsKept, Unstarted, Enter
  <2>6. SerialKept'
    BY <2>0, <1>t, <1>c, BodiesDiffer DEF SerialKept
  <2>7. LaunchWaits'
    BY <2>0, <1>t, <1>c, BodiesDiffer, OneParent DEF LaunchWaits, Regulated
  <2>8. QED
    BY <2>1, <2>2, <2>3, <2>4, <2>5, <2>6, <2>7
<1>3. ASSUME NEW n \in Nodes, Skip(n), UNCHANGED cancelled
      PROVE  IInv'
  <2> USE <1>3 DEF Skip
  <2>1. ParallelTypeOK'
    BY <1>t DEF ParallelTypeOK, Leaving
  <2>2. TokensCounted'
    BY <1>t, SameHolders DEF Leaving
  <2>3. StreamsRun' /\ Unstarted'
    BY <1>t, <1>c DEF StreamsRun, Unstarted, Leaving
  <2>4. OutputsKept' /\ SerialKept' /\ LaunchWaits'
    BY <1>t, <1>c, BodiesDiffer DEF OutputsKept, SerialKept, LaunchWaits, Leaving, Regulated
  <2>5. QED
    BY <2>1, <2>2, <2>3, <2>4
<1>4. ASSUME NEW n \in Nodes, GiveUp(n), UNCHANGED cancelled
      PROVE  IInv'
  <2> USE <1>4 DEF GiveUp
  <2>1. ParallelTypeOK'
    BY <1>t DEF ParallelTypeOK
  <2>2. TokensCounted'
    BY <1>t, SameHolders
  <2>3. StreamsRun' /\ Unstarted'
    BY <1>t, <1>c DEF StreamsRun, Unstarted
  <2>4. OutputsKept' /\ SerialKept' /\ LaunchWaits'
    BY <1>t, <1>c, BodiesDiffer DEF OutputsKept, SerialKept, LaunchWaits, Regulated
  <2>5. QED
    BY <2>1, <2>2, <2>3, <2>4
<1>5. ASSUME NEW n \in Nodes, Return(n), UNCHANGED cancelled
      PROVE  IInv'
  <2>0. /\ pc[n] = "running" /\ pc'[n] = Leaving(n) /\ Leaving(n) \in {"sending", "done"}
        /\ \A m \in Nodes \ {n} : pc'[m] = pc[m]
        /\ Awaited(n)
        /\ outputs' = IF ~plizerEnabled THEN [outputs EXCEPT ![n] = Children[n]] ELSE outputs
        /\ UNCHANGED <<plizerEnabled, held, streaming, cancelled>>
    BY <1>5, <1>t DEF Return, Leaving
  <2>a. n \notin Children[n]
    BY <1>5, ChildrenAreOthers
  <2>b. n \notin streaming
    BY <2>0, BodiesDiffer, <1>t DEF Awaited, StreamsRun
  <2>1. ParallelTypeOK'
    <3>1. tokens' \in [DOMAIN Limits -> Nat]
      BY <1>5, <1>t, RegulatorsNamed DEF Return, Regulated
    <3>2. QED
      BY <3>1, <2>0, <1>5, <1>t, <1>c DEF ParallelTypeOK, Return
  <2>2. TokensCounted'
    <3> SUFFICES ASSUME plizerEnabled, NEW r \in DOMAIN Limits, Limits[r] > 0
                 PROVE  tokens'[r] + Cardinality(Holders(r)') = Limits[r]
      BY <2>0 DEF TokensCounted
    <3>1. tokens[r] + Cardinality(Holders(r)) = Limits[r] /\ tokens[r] \in Nat
      BY <1>t DEF TokensCounted
    <3>2. \A m \in Nodes \ {n} : (pc'[m] = "running") <=> (pc[m] = "running")
      BY <2>0
    <3>3. CASE Regulator[n] = r
      <4>1. tokens'[r] = tokens[r] + 1
        BY <3>3, <1>5, <1>t DEF Return, Regulated
      <4>2. Cardinality(Holders(r)') = Cardinality(Holders(r)) - 1 /\ Cardinality(Holders(r)) \in Nat
        BY <3>3, <3>2, <2>0, <1>t, HoldersStep
      <4>3. QED
        BY <4>1, <4>2, <3>1
    <3>4. CASE Regulator[n] # r
      <4>1. tokens'[r] = tokens[r]
        BY <3>4, <1>5, <1>t DEF Return
      <4>2. Holders(r)' = Holders(r)
        BY <3>4, <3>2, <1>t, HoldersStep
      <4>3. QED
        BY <4>1, <4>2, <3>1
    <3>5. QED
      BY <3>3, <3>4
  <2>3. StreamsRun' /\ Unstarted'
    <3>1. StreamsRun'
      BY <2>0, <2>b, <1>t, <1>c, BodiesDiffer DEF StreamsRun
    <3>2. Unstarted'
      BY <2>0, <1>t, <1>c DEF Unstarted
    <3>3. QED
      BY <3>1, <3>2
  <2>4. OutputsKept'
    BY <2>0, <1>t, <1>c, BodiesDiffer DEF OutputsKept, Awaited, Leaving, Streamed
  <2>5. SerialKept'
    BY <2>0, <2>a, <1>t, <1>c, BodiesDiffer DEF SerialKept, Awaited
  <2>6. LaunchWaits'
    BY <2>0, <2>a, <1>t, <1>c, BodiesDiffer DEF LaunchWaits, Awaited, Regulated
  <2>7. QED
    BY <2>1, <2>2, <2>3, <2>4, <2>5, <2>6
<1>6. ASSUME NEW p \in Nodes, NEW n \in Children[p], NextInput(p, n), UNCHANGED cancelled
      PROVE  IInv'
  <2> USE <1>6 DEF NextInput
  <2>1. ParallelTypeOK'
    BY <1>t, <1>c DEF ParallelTypeOK
  <2>2. TokensCounted'
    BY <1>t, <1>c DEF TokensCounted
  <2>3. StreamsRun' /\ Unstarted'
    BY <1>t, <1>c, OneParent DEF StreamsRun, Unstarted
  <2>4. OutputsKept' /\ SerialKept' /\ LaunchWaits'
    BY <1>t, <1>c, BodiesDiffer, OneParent
       DEF OutputsKept, SerialKept, LaunchWaits, Regulated
  <2>5. QED
    BY <2>1, <2>2, <2>3, <2>4
<1>7. ASSUME NEW p \in Nodes, NEW n \in Children[p], SendOutput(p, n), UNCHANGED cancelled
      PROVE  IInv'
  <2> USE <1>7 DEF SendOutput
  <2>1. ParallelTypeOK'
    BY <1>t, <1>c DEF ParallelTypeOK
  <2>2. TokensCounted'
    BY <1>t, <1>c, SameHolders
  <2>3. StreamsRun' /\ Unstarted'
    BY <1>t, <1>c DEF StreamsRun, Unstarted
  <2>4. OutputsKept'
    BY <1>t, <1>c, BodiesDiffer, OneParent DEF OutputsKept, StreamsRun
  <2>5. SerialKept' /\ LaunchWaits'
    BY <1>t, <1>c, BodiesDiffer, OneParent DEF SerialKept, LaunchWaits, Regulated, StreamsRun
  <2>6. QED
    BY <2>1, <2>2, <2>3, <2>4, <2>5
<1>8. ASSUME NEW p \in Collectors, Forward(p), UNCHANGED cancelled
      PROVE  IInv'
  <2> USE <1>8, BodiesDiffer DEF Forward
  <2>1. ParallelTypeOK'
    BY <1>t, <1>c DEF ParallelTypeOK
  <2>2. TokensCounted'
    BY <1>t, SameHolders
  <2>3. StreamsRun' /\ Unstarted'
    BY <1>t, <1>c DEF StreamsRun, Unstarted
  <2>4. OutputsKept'
    BY <1>t, <1>c DEF OutputsKept, StreamsRun
  <2>5. SerialKept' /\ LaunchWaits'
    BY <1>t, <1>c DEF SerialKept, LaunchWaits, Regulated, StreamsRun
  <2>6. QED
    BY <2>1, <2>2, <2>3, <2>4, <2>5
<1>9. ASSUME NEW p \in Collectors, Drop(p), UNCHANGED cancelled
      PROVE  IInv'
  <2> USE <1>9, BodiesDiffer DEF Drop
  <2>1. ParallelTypeOK'
    BY <1>t, <1>c DEF ParallelTypeOK
  <2>2. TokensCounted'
    BY <1>t, SameHolders
  <2>3. StreamsRun' /\ Unstarted'
    BY <1>t, <1>c DEF StreamsRun, Unstarted
  <2>4. OutputsKept' /\ SerialKept' /\ LaunchWaits'
    BY <1>t, <1>c DEF OutputsKept, SerialKept, LaunchWaits, Regulated
  <2>5. QED
    BY <2>1, <2>2, <2>3, <2>4
<1>10. ASSUME NEW p \in Collectors, EndStream(p), UNCHANGED cancelled
       PROVE  IInv'
  <2> USE <1>10, BodiesDiffer DEF EndStream
  <2>1. ParallelTypeOK'
    BY <1>t, <1>c DEF ParallelTypeOK
  <2>2. TokensCounted'
    BY <1>t, SameHolders
  <2>3. StreamsRun' /\ Unstarted'
    BY <1>t, <1>c DEF StreamsRun, Unstarted
  <2>4. OutputsKept' /\ SerialKept' /\ LaunchWaits'
    BY <1>t, <1>c DEF OutputsKept, SerialKept, LaunchWaits, Regulated, StreamsRun
  <2>5. QED
    BY <2>1, <2>2, <2>3, <2>4
<1>11. CASE Cancel /\ UNCHANGED parallelVars
  BY <1>11, <1>t
     DEF Cancel, parallelVars, ParallelTypeOK, Unstarted, TokensCounted, Holders,
         StreamsRun, OutputsKept, SerialKept, LaunchWaits, Regulated
<1>12. CASE UNCHANGED allVars
  BY <1>12, <1>t
     DEF allVars, parallelVars, ParallelTypeOK, Unstarted, TokensCounted, Holders,
         StreamsRun, OutputsKept, SerialKept, LaunchWaits, Regulated
<1>13. QED
  BY <1>1, <1>2, <1>3, <1>4, <1>5, <1>6, <1>7, <1>8, <1>9, <1>10, <1>11, <1>12, BodiesDiffer
     DEF ParallelNext, Advance, Works
-----------------------------------------------------------------------------
\* The invariant holds throughout.
THEOREM ParallelInvariant == ParallelSpec => []IInv
<1>1. IInv /\ [ParallelNext]_<<cancelled, parallelVars>> => IInv'
  BY NextIInv DEF allVars
<1>2. QED
  BY InitIInv, <1>1, PTL DEF ParallelSpec

\* Every variable keeps its type; the tokens of a channel are never negative.
THEOREM ParallelTypeCorrect == ParallelSpec => []ParallelTypeOK
<1>1. IInv => ParallelTypeOK
  BY DEF IInv
<1>2. QED
  BY <1>1, ParallelInvariant, PTL

\* However the calls nest, and whenever the context is cancelled, no more
\* executions run under a regulator than its limit (material.go:18-36): each of
\* them took a token that comes back only when it returns.
THEOREM ParallelRegulatedLimit == ParallelSpec => []RegulatedLimit
<1>1. ASSUME IInv
      PROVE  RegulatedLimit
  <2> SUFFICES ASSUME plizerEnabled, NEW r \in DOMAIN Limits, Limits[r] > 0
               PROVE  Cardinality(Holders(r)) <= Limits[r]
    BY DEF RegulatedLimit, Holders
  <2>1. tokens[r] + Cardinality(Holders(r)) = Limits[r]
    BY <1>1 DEF IInv, TokensCounted
  <2>2. tokens[r] \in Nat
    BY <1>1 DEF IInv, ParallelTypeOK
  <2>3. Cardinality(Holders(r)) \in Nat
    <3>1. Holders(r) \in SUBSET Nodes
      BY DEF Holders
    <3>2. QED
      BY <3>1, NodesFinite, FS_Subset, FS_CardinalityType
  <2>4. QED
    BY <2>1, <2>2, <2>3
<1>2. QED
  BY <1>1, ParallelInvariant, PTL

\* LaunchAndWait waits for all its functions, aborted or not (material.go:158).
THEOREM ParallelLaunchWaits == ParallelSpec => []LaunchWaits
<1>1. IInv => LaunchWaits
  BY DEF IInv
<1>2. QED
  BY <1>1, ParallelInvariant, PTL

\* Parallelize returns every output unless the context is cancelled
\* (material.go:58-108): OrDone keeps what it has received until the caller
\* takes it, and ends only when every goroutine has handed its output over.
THEOREM ParallelComplete == ParallelSpec => []Complete
<1>1. ASSUME IInv
      PROVE  Complete
  <2> SUFFICES ASSUME ~cancelled, NEW p \in Collectors, pc[p] \in {"sending", "done"}
               PROVE  /\ outputs[p] = Children[p]
                      /\ \A n \in Children[p] : pc[n] = "done"
    BY DEF Complete
  <2>1. CASE plizerEnabled
    <3>1. p \notin streaming /\ held[p] = Nobody
      BY <1>1, BodiesDiffer DEF IInv, StreamsRun
    <3>2. Children[p] \subseteq Nodes /\ Nobody \notin Nodes
      BY BodiesDiffer, ChildrenAreNodes, NobodyDiffers
    <3>3. \A n \in Children[p] : pc[n] = "done"
      BY <1>1, <2>1, <3>1 DEF IInv, OutputsKept
    <3>4. QED
      BY <1>1, <2>1, <3>1, <3>2, <3>3 DEF IInv, OutputsKept
  <2>2. CASE ~plizerEnabled
    BY <1>1, <2>2 DEF IInv, SerialKept
  <2>3. QED
    BY <2>1, <2>2
<1>2. QED
  BY <1>1, ParallelInvariant, PTL
=============================================================================
