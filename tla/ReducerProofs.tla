---------------------------- MODULE ReducerProofs ---------------------------
(***************************************************************************)
(* What TLAPS proves of the reducer for any finite set of calls and any    *)
(* positive limit: type correctness, the limit, quiescence after Close,    *)
(* and that the reducer implements the gate of IOGate.                     *)
(***************************************************************************)
EXTENDS Reducer, FiniteSetTheorems, TLAPS

\* A call holds a slot from the moment it is received until its termination is.
SlotHolders == {c \in Calls : pc[c] \in {"asked", "granted", "working", "terminating"}}

\* The calls the wait group counts.
Launched == {c \in Calls : pc[c] \notin {"idle", "returned"}}

SlotsHeld == actives = SlotHolders

FlagsCurrent ==
    /\ available = (Cardinality(actives) < Limit)
    /\ empty = (actives = {})

\* The scheduler is inside a handler while it answers, and answers one call.
OneAnswer ==
    /\ Answering => mode \in Handlers
    /\ \A c, d \in Calls :
          pc[c] \in {"asked", "releasing"} /\ pc[d] \in {"asked", "releasing"} => c = d

\* The handlers that receive requests listen only while a slot is free.
Room ==
    /\ Cardinality(actives) <= Limit
    /\ mode \in {"handleAvailable", "handleDrainAvailable"} /\ ~Answering => available

Counted == wg = Cardinality(Launched) + (IF mode = "terminated" THEN 0 ELSE 1)

StoppedIdle == mode = "terminated" => actives = {}

\* A call has an outcome once its work is behind it, and only a closed or
\* closing reducer turns a call away.
Outcomes ==
    /\ \A c \in Calls : outcome[c] # "none" =>
          pc[c] \in {"terminating", "releasing", "returning", "returned"}
    /\ \A c \in Calls : outcome[c] = "aborted" => isDone
    /\ told # {} => isDone

IInv ==
    /\ TypeOK
    /\ SlotsHeld
    /\ FlagsCurrent
    /\ OneAnswer
    /\ Room
    /\ Counted
    /\ StoppedIdle
    /\ Outcomes
    /\ QuietAfterClose

----------------------------------------------------------------------------
(* Counting: the sets the invariant counts change by one call at a time. *)

\* Every set of calls is finite and has a natural number of elements.
LEMMA CallSets ==
    ASSUME NEW S \in SUBSET Calls
    PROVE  /\ IsFiniteSet(S)
           /\ Cardinality(S) \in Nat
BY CallsFinite, FS_Subset, FS_CardinalityType

\* Adding a call that was not in a set counts one more; removing one that was
\* counts one less.
LEMMA CallCounts ==
    ASSUME NEW S \in SUBSET Calls, NEW c \in Calls
    PROVE  /\ c \notin S => Cardinality(S \union {c}) = Cardinality(S) + 1
           /\ c \in S => Cardinality(S \ {c}) = Cardinality(S) - 1
           /\ Cardinality(S \ {c}) <= Cardinality(S)
BY CallSets, FS_AddElement, FS_RemoveElement

----------------------------------------------------------------------------
\* The reducer starts with no slot held and its scheduler counted.
LEMMA InitIInv == Init => IInv
<1> SUFFICES ASSUME Init PROVE IInv
  OBVIOUS
<1>1. TypeOK
  BY DEF Init, TypeOK, LaunchStates, Handlers
<1>2. SlotHolders = {} /\ Launched = {}
  BY DEF Init, SlotHolders, Launched
<1>3. Cardinality({}) = 0
  BY FS_EmptySet
<1>4. ~Answering
  BY DEF Init, Answering
<1>5. SlotsHeld /\ OneAnswer /\ Counted /\ StoppedIdle /\ Outcomes /\ QuietAfterClose
  BY <1>2, <1>3, <1>4
     DEF Init, SlotsHeld, OneAnswer, Counted, StoppedIdle, Outcomes, QuietAfterClose
<1>6. FlagsCurrent /\ Room
  <2>1. 0 < Limit /\ 0 <= Limit
    BY LimitPositive
  <2>2. FlagsCurrent
    BY <1>3, <2>1, Zenon DEF Init, FlagsCurrent
  <2>3. Room
    BY <1>3, <2>1, Zenon DEF Init, Room
  <2>4. QED
    BY <2>2, <2>3
<1>7. QED
  BY <1>1, <1>5, <1>6 DEF IInv

\* Every step keeps the invariant: under each action, the parts it can disturb;
\* a step that neither moves a slot nor counts a call leaves the counts alone.
LEMMA NextIInv == IInv /\ [Next]_vars => IInv'
<1> SUFFICES ASSUME IInv, [Next]_vars
             PROVE  IInv'
  OBVIOUS
<1> USE DEF IInv
<1>a. /\ IsFiniteSet(actives) /\ Cardinality(actives) \in Nat
      /\ IsFiniteSet(Launched) /\ Cardinality(Launched) \in Nat
      /\ Limit \in Nat \ {0}
  BY CallSets, LimitPositive DEF TypeOK, Launched
<1>b. Launched \in SUBSET Calls
  BY DEF Launched
<1>1. ASSUME NEW c \in Calls, Launch(c)
      PROVE  IInv'
  <2>1. TypeOK'
    BY <1>1 DEF Launch, TypeOK, LaunchStates, schedVars
  <2>2. Launched' = Launched \union {c} /\ c \notin Launched
    BY <1>1 DEF Launch, Launched, TypeOK
  <2>3. SlotHolders' = SlotHolders /\ Answering' = Answering
    BY <1>1 DEF Launch, SlotHolders, Answering, TypeOK
  <2>4. Counted'
    BY <1>1, <2>2, <1>a, <1>b, CallCounts DEF Launch, Counted, schedVars
  <2>5. SlotsHeld' /\ FlagsCurrent' /\ Room' /\ StoppedIdle'
    BY <1>1, <2>3 DEF Launch, SlotsHeld, FlagsCurrent, Room, StoppedIdle, schedVars
  <2>6. OneAnswer'
    BY <1>1, <2>3 DEF Launch, OneAnswer, TypeOK, schedVars
  <2>7. Outcomes' /\ QuietAfterClose'
    BY <1>1 DEF Launch, Outcomes, QuietAfterClose, TypeOK, isDone, schedVars
  <2>8. QED
    BY <2>1, <2>4, <2>5, <2>6, <2>7
\* Steps of a call that keeps its slot and stays counted.
<1>2. ASSUME NEW c \in Calls, StartWork(c) \/ AbortWork(c) \/ FinishWork(c)
      PROVE  IInv'
  <2> USE <1>2 DEF StartWork, AbortWork, FinishWork, schedVars
  <2>1. TypeOK'
    BY DEF TypeOK, LaunchStates
  <2>2. Launched' = Launched /\ SlotHolders' = SlotHolders /\ Answering' = Answering
    BY DEF Launched, SlotHolders, Answering, TypeOK
  <2>3. Counted' /\ SlotsHeld' /\ FlagsCurrent' /\ Room' /\ StoppedIdle'
    BY <2>2 DEF Counted, SlotsHeld, FlagsCurrent, Room, StoppedIdle
  <2>4. OneAnswer'
    BY <2>2 DEF OneAnswer, TypeOK
  <2>5. Outcomes' /\ QuietAfterClose'
    BY DEF Outcomes, QuietAfterClose, TypeOK, isDone
  <2>6. QED
    BY <2>1, <2>3, <2>4, <2>5
<1>3. ASSUME NEW c \in Calls, Return(c)
      PROVE  IInv'
  <2>1. Launched' = Launched \ {c} /\ c \in Launched
    BY <1>3 DEF Return, Launched, TypeOK
  <2>2. Cardinality(Launched') = Cardinality(Launched) - 1
    BY <2>1, <1>b, CallCounts
  <2>3. Cardinality(Launched') \in Nat
    BY <2>1, <1>b, CallSets
  <2>4. TypeOK'
    BY <1>3, <2>2, <2>3, <1>a DEF Return, TypeOK, LaunchStates, Counted, schedVars
  <2>5. Counted'
    BY <1>3, <2>2, <1>a DEF Return, Counted, schedVars
  <2>6. SlotHolders' = SlotHolders /\ Answering' = Answering
    BY <1>3 DEF Return, SlotHolders, Answering, TypeOK
  <2>7. SlotsHeld' /\ FlagsCurrent' /\ Room' /\ StoppedIdle'
    BY <1>3, <2>6 DEF Return, SlotsHeld, FlagsCurrent, Room, StoppedIdle, schedVars
  <2>8. OneAnswer'
    BY <1>3, <2>6 DEF Return, OneAnswer, TypeOK, schedVars
  <2>9. Outcomes' /\ QuietAfterClose'
    BY <1>3 DEF Return, Outcomes, QuietAfterClose, TypeOK, isDone, schedVars
  <2>10. QED
    BY <2>4, <2>5, <2>7, <2>8, <2>9
<1>4. ASSUME NEW c \in Calls, HandleRequest(c)
      PROVE  IInv'
  <2> USE <1>4 DEF HandleRequest, Listening
  <2>1. TypeOK'
    BY DEF TypeOK, LaunchStates, Update
  <2>2. SlotHolders' = SlotHolders \union {c} /\ c \notin SlotHolders
    BY DEF SlotHolders, TypeOK
  <2>3. SlotsHeld'
    BY <2>2 DEF SlotsHeld
  <2>4. Cardinality(actives') = Cardinality(actives) + 1
    BY <2>2, CallCounts DEF SlotsHeld, SlotHolders
  <2>5. Answering'
    BY DEF Answering, TypeOK
  <2>6. FlagsCurrent'
    BY DEF FlagsCurrent, Update
  <2>7. Room'
    <3>1. available
      BY DEF Room
    <3>2. Cardinality(actives) < Limit
      BY <3>1, Zenon DEF FlagsCurrent
    <3>3. Cardinality(actives') <= Limit
      BY <2>4, <3>2, <1>a
    <3>4. QED
      BY <2>5, <3>3 DEF Room
  <2>8. Launched' = Launched
    BY DEF Launched, TypeOK
  <2>9. Counted'
    BY <2>8 DEF Counted
  <2>10. OneAnswer'
    BY DEF OneAnswer, Answering, Handlers, TypeOK
  <2>11. StoppedIdle' /\ Outcomes' /\ QuietAfterClose'
    BY DEF StoppedIdle, Outcomes, QuietAfterClose, TypeOK, isDone
  <2>12. QED
    BY <2>1, <2>3, <2>6, <2>7, <2>9, <2>10, <2>11
<1>5. ASSUME NEW c \in Calls, HandleTerminated(c)
      PROVE  IInv'
  <2> USE <1>5 DEF HandleTerminated, Listening
  <2>1. TypeOK'
    BY DEF TypeOK, LaunchStates, Update
  <2>2. SlotHolders' = SlotHolders \ {c}
    BY DEF SlotHolders, TypeOK
  <2>3. SlotsHeld'
    BY <2>2 DEF SlotsHeld
  <2>4. Cardinality(actives') <= Cardinality(actives) /\ Cardinality(actives') \in Nat
    BY <2>2, CallCounts, CallSets DEF SlotsHeld, SlotHolders
  <2>5. Answering'
    BY DEF Answering, TypeOK
  <2>6. FlagsCurrent'
    BY DEF FlagsCurrent, Update
  <2>7. Room'
    BY <2>4, <2>5, <1>a DEF Room
  <2>8. Launched' = Launched
    BY DEF Launched, TypeOK
  <2>9. Counted'
    BY <2>8 DEF Counted
  <2>10. OneAnswer'
    BY DEF OneAnswer, Answering, Handlers, TypeOK
  <2>11. StoppedIdle' /\ Outcomes' /\ QuietAfterClose'
    BY DEF StoppedIdle, Outcomes, QuietAfterClose, TypeOK, isDone, Handlers
  <2>12. QED
    BY <2>1, <2>3, <2>6, <2>7, <2>9, <2>10, <2>11
<1>6. ASSUME NEW c \in Calls, Answer(c)
      PROVE  IInv'
  <2> USE <1>6 DEF Answer
  <2>1. mode \in Handlers
    BY DEF OneAnswer, Answering
  <2>2. TypeOK'
    BY DEF TypeOK, LaunchStates, Handlers
  <2>3. SlotHolders' = SlotHolders /\ Launched' = Launched
    BY DEF SlotHolders, Launched, TypeOK
  <2>4. ~Answering'
    BY DEF Answering, OneAnswer, TypeOK
  <2>5. mode' \in Handlers \union {"schedule"}
    BY <2>1
  <2>6. Room'
    BY <2>4 DEF Room, LeavesLoop
  <2>7. Counted' /\ SlotsHeld' /\ FlagsCurrent'
    BY <2>1, <2>3, <2>5 DEF Counted, SlotsHeld, FlagsCurrent, Handlers
  <2>8. OneAnswer'
    BY <2>4 DEF OneAnswer, Answering
  <2>9. StoppedIdle' /\ Outcomes'
    BY <2>1, <2>5 DEF StoppedIdle, Outcomes, TypeOK, isDone, Handlers
  <2>10. QuietAfterClose'
    BY <2>1 DEF QuietAfterClose, Handlers
  <2>11. QED
    BY <2>2, <2>6, <2>7, <2>8, <2>9, <2>10
<1>7. ASSUME SeeDone \/ Dispatch
      PROVE  IInv'
  <2> USE <1>7 DEF SeeDone, Dispatch, launchVars, Listening
  <2>1. TypeOK'
    BY DEF TypeOK, Handlers
  <2>2. SlotHolders' = SlotHolders /\ Launched' = Launched /\ Answering' = Answering
    BY DEF SlotHolders, Launched, Answering
  <2>3. mode # "terminated" /\ mode' # "terminated"
    OBVIOUS
  <2>4. ~Answering
    BY DEF OneAnswer, Handlers
  <2>5. Room'
    BY <2>2 DEF Room, FlagsCurrent
  <2>6. Counted' /\ SlotsHeld' /\ FlagsCurrent' /\ StoppedIdle' /\ QuietAfterClose'
    BY <2>2, <2>3 DEF Counted, SlotsHeld, FlagsCurrent, StoppedIdle, QuietAfterClose
  <2>7. OneAnswer' /\ Outcomes'
    BY <2>2, <2>4 DEF OneAnswer, Outcomes, isDone
  <2>8. QED
    BY <2>1, <2>5, <2>6, <2>7
<1>8. ASSUME Terminate
      PROVE  IInv'
  <2> USE <1>8 DEF Terminate, launchVars
  <2>1. SlotHolders' = SlotHolders /\ Launched' = Launched /\ Answering' = Answering
    BY DEF SlotHolders, Launched, Answering
  <2>2. Counted' /\ wg' \in Nat
    BY <2>1, <1>a DEF Counted
  <2>3. TypeOK'
    BY <2>2 DEF TypeOK
  <2>4. SlotsHeld' /\ FlagsCurrent' /\ Room' /\ StoppedIdle'
    BY <2>1 DEF SlotsHeld, FlagsCurrent, Room, StoppedIdle
  <2>5. OneAnswer' /\ Outcomes' /\ QuietAfterClose'
    BY <2>1 DEF OneAnswer, Outcomes, QuietAfterClose, isDone, Handlers
  <2>6. QED
    BY <2>2, <2>3, <2>4, <2>5
<1>9. ASSUME MarkDone \/ CloseDone
      PROVE  IInv'
  <2> USE <1>9 DEF MarkDone, CloseDone, launchVars, schedVars
  <2>1. TypeOK'
    BY DEF TypeOK
  <2>2. SlotHolders' = SlotHolders /\ Launched' = Launched /\ Answering' = Answering
    BY DEF SlotHolders, Launched, Answering
  <2>3. Counted' /\ SlotsHeld' /\ FlagsCurrent' /\ Room' /\ StoppedIdle' /\ OneAnswer'
    BY <2>2 DEF Counted, SlotsHeld, FlagsCurrent, Room, StoppedIdle, OneAnswer
  <2>4. Outcomes' /\ QuietAfterClose'
    BY DEF Outcomes, QuietAfterClose, isDone
  <2>5. QED
    BY <2>1, <2>3, <2>4
<1>10. ASSUME CloseReturn
       PROVE  IInv'
  <2> USE <1>10 DEF CloseReturn, launchVars, schedVars
  <2>1. TypeOK'
    BY DEF TypeOK
  <2>2. SlotHolders' = SlotHolders /\ Launched' = Launched /\ Answering' = Answering
    BY DEF SlotHolders, Launched, Answering
  <2>3. Counted' /\ SlotsHeld' /\ FlagsCurrent' /\ Room' /\ StoppedIdle' /\ OneAnswer'
    BY <2>2 DEF Counted, SlotsHeld, FlagsCurrent, Room, StoppedIdle, OneAnswer
  <2>4. mode = "terminated" /\ Cardinality(Launched) = 0
    BY <1>a DEF Counted
  <2>5. Launched = {}
    BY <2>4, <1>a, FS_EmptySet
  <2>6. \A c \in Calls : pc[c] \in {"idle", "returned"}
    BY <2>5 DEF Launched, TypeOK
  <2>7. Outcomes' /\ QuietAfterClose'
    BY <2>4, <2>6 DEF Outcomes, QuietAfterClose, isDone
  <2>8. QED
    BY <2>1, <2>3, <2>7
<1>11. CASE UNCHANGED vars
  <2> USE <1>11 DEF vars
  <2>1. SlotHolders' = SlotHolders /\ Launched' = Launched /\ Answering' = Answering
    BY DEF SlotHolders, Launched, Answering
  <2>2. TypeOK'
    BY DEF TypeOK
  <2>3. Counted' /\ SlotsHeld' /\ FlagsCurrent' /\ Room' /\ StoppedIdle' /\ OneAnswer'
    BY <2>1 DEF Counted, SlotsHeld, FlagsCurrent, Room, StoppedIdle, OneAnswer
  <2>4. Outcomes' /\ QuietAfterClose'
    BY DEF Outcomes, QuietAfterClose, isDone
  <2>5. QED
    BY <2>2, <2>3, <2>4
<1>12. QED
  BY <1>1, <1>2, <1>3, <1>4, <1>5, <1>6, <1>7, <1>8, <1>9, <1>10, <1>11
     DEF Next, LaunchStep, SchedulerStep, CloseStep

\* Slots, flags, wait group and outcomes agree in every reachable state.
THEOREM ReducerInvariant == Spec => []IInv
<1>1. Init => IInv
  BY InitIInv
<1>2. IInv /\ [Next]_vars => IInv'
  BY NextIInv
<1>3. QED
  BY <1>1, <1>2, PTL DEF Spec

----------------------------------------------------------------------------
\* Every behaviour of the reducer stays within its types.
THEOREM ReducerTypeOK == Spec => []TypeOK
<1>1. IInv => TypeOK
  BY DEF IInv
<1>2. QED
  BY <1>1, ReducerInvariant, PTL

\* The limit holds for any number of calls, however they race with Close: what
\* runs holds a slot, and no more than Limit slots are held.
THEOREM ReducerAtMostLimit == Spec => []AtMostLimit
<1>1. ASSUME IInv
      PROVE  AtMostLimit
  <2>1. Working \subseteq actives
    BY <1>1 DEF IInv, SlotsHeld, SlotHolders, Working
  <2>2. Cardinality(Working) <= Cardinality(actives)
    BY <2>1, <1>1, CallSets, FS_Subset DEF IInv, TypeOK
  <2>3. Cardinality(Working) \in Nat /\ Cardinality(actives) \in Nat
    BY <1>1, CallSets DEF IInv, TypeOK, Working
  <2>4. QED
    BY <1>1, <2>1, <2>2, <2>3, LimitPositive DEF IInv, Room, AtMostLimit
<1>2. QED
  BY <1>1, ReducerInvariant, PTL

\* After Close has returned, nothing is running and nothing will run.
THEOREM ReducerQuietAfterClose == Spec => []QuietAfterClose
<1>1. IInv => QuietAfterClose
  BY DEF IInv
<1>2. QED
  BY <1>1, ReducerInvariant, PTL
----------------------------------------------------------------------------
(* Refinement: the reducer implements the gate *)

\* What runs in the gate is what holds a slot and has started: there is room
\* for it whenever a granted call starts.
LEMMA RoomToStart ==
    ASSUME IInv, NEW c \in Calls, pc[c] = "granted"
    PROVE  Cardinality(Working) < Limit
<1> DEFINE Others == SlotHolders \ {c}
<1>1. SlotHolders \in SUBSET Calls /\ c \in SlotHolders
  BY DEF SlotHolders
<1>2. Cardinality(Others) = Cardinality(SlotHolders) - 1
  BY <1>1, CallCounts
<1>3. Working \subseteq Others
  BY DEF Working, SlotHolders
<1>4. Cardinality(Working) <= Cardinality(Others)
  BY <1>1, <1>3, CallSets, FS_Subset
<1>5. Cardinality(SlotHolders) <= Limit
  BY DEF IInv, Room, SlotsHeld
<1>6. /\ Cardinality(Working) \in Nat
      /\ Cardinality(SlotHolders) \in Nat
      /\ Cardinality(Others) \in Nat
  BY <1>1, CallSets DEF Working
<1>7. QED
  BY <1>2, <1>4, <1>5, <1>6, LimitPositive

\* The reducer implements the gate: every step of it is a step of IOGate on
\* the works it runs, or leaves them alone.
THEOREM ReducerImplementsGate == Spec => ImplementsGate
<1> DEFINE Ran == {c \in Calls : outcome[c] = "worked"}
           Refused == {c \in Calls : outcome[c] = "aborted"}
           Phase == CASE closer = "open" -> "open"
                      [] closer \in {"marked", "waiting"} -> "closing"
                      [] closer = "closed" -> "shut"
<1>1. Init => Gate!Init
  BY DEF Init, Gate!Init, Working
<1>2. ASSUME IInv, [Next]_vars
      PROVE  [Gate!Next]_(Gate!gateVars)
  <2> USE <1>2 DEF IInv
  <2> TypeOK
    OBVIOUS
  <2>1. ASSUME NEW c \in Calls, Launch(c) \/ Return(c)
        PROVE  UNCHANGED Gate!gateVars
    <3>1. Working' = Working
      BY <2>1 DEF Launch, Return, Working, TypeOK
    <3>2. QED
      BY <2>1, <3>1 DEF Launch, Return, Gate!gateVars, schedVars
  <2>2. ASSUME NEW c \in Calls, StartWork(c)
        PROVE  Gate!Enter(c)
    <3>1. Working' = Working \union {c} /\ c \notin Working
      BY <2>2 DEF StartWork, Working, TypeOK
    <3>2. outcome[c] = "none"
      BY <2>2 DEF StartWork, Outcomes, TypeOK
    <3>3. closer # "closed"
      BY <2>2 DEF StartWork, QuietAfterClose
    <3>4. Cardinality(Working) < Limit
      BY <2>2, RoomToStart DEF StartWork
    <3>5. UNCHANGED <<outcome, closer>>
      BY <2>2 DEF StartWork
    <3>6. Phase # "shut" /\ Phase' = Phase
      BY <3>3, <3>5 DEF TypeOK
    <3>7. c \notin Working /\ c \notin Ran /\ c \notin Refused
      BY <3>1, <3>2
    <3>8. Ran' = Ran /\ Refused' = Refused
      BY <3>5
    \* The gate's Cardinality is that of its own instance of FiniteSets.
    <3>9. QED
      BY <3>1, <3>4, <3>5, <3>6, <3>7, <3>8 DEF Gate!Enter, Gate!Cardinality, Cardinality
  <2>3. ASSUME NEW c \in Calls, AbortWork(c)
        PROVE  Gate!Refuse(c)
    <3>1. Working' = Working /\ c \notin Working
      BY <2>3 DEF AbortWork, Working, TypeOK
    <3>2. outcome[c] = "none"
      BY <2>3 DEF AbortWork, Outcomes, TypeOK
    <3>3. closer # "closed" /\ closer # "open" /\ closer' = closer
      BY <2>3 DEF AbortWork, QuietAfterClose, isDone
    <3>4. Phase = "closing" /\ Phase' = Phase
      BY <3>3 DEF TypeOK
    <3>5. Ran' = Ran /\ Refused' = Refused \union {c}
      BY <2>3, <3>2 DEF AbortWork, TypeOK
    <3>6. c \notin Working \union Ran \union Refused
      BY <3>1, <3>2
    <3>7. QED
      BY <3>1, <3>4, <3>5, <3>6 DEF Gate!Refuse
  <2>4. ASSUME NEW c \in Calls, FinishWork(c)
        PROVE  Gate!Leave(c)
    <3>1. Working' = Working \ {c} /\ c \in Working
      BY <2>4 DEF FinishWork, Working, TypeOK
    <3>2. outcome[c] = "none"
      BY <2>4 DEF FinishWork, Outcomes, TypeOK
    <3>3. Ran' = Ran \union {c} /\ Refused' = Refused /\ closer' = closer
      BY <2>4, <3>2 DEF FinishWork, TypeOK
    <3>4. QED
      BY <3>1, <3>3 DEF Gate!Leave
  <2>5. ASSUME NEW c \in Calls, HandleRequest(c) \/ HandleTerminated(c) \/ Answer(c)
        PROVE  UNCHANGED Gate!gateVars
    <3>1. Working' = Working
      BY <2>5 DEF HandleRequest, HandleTerminated, Answer, Working, TypeOK
    <3>2. QED
      BY <2>5, <3>1 DEF HandleRequest, HandleTerminated, Answer, Gate!gateVars
  <2>6. ASSUME SeeDone \/ Dispatch \/ Terminate \/ UNCHANGED vars
        PROVE  UNCHANGED Gate!gateVars
    BY <2>6 DEF SeeDone, Dispatch, Terminate, vars, launchVars, Working, Gate!gateVars
  <2>7. ASSUME MarkDone
        PROVE  Gate!StartClosing
    BY <2>7 DEF MarkDone, launchVars, Working, Gate!StartClosing
  <2>8. ASSUME CloseDone
        PROVE  UNCHANGED Gate!gateVars
    BY <2>8 DEF CloseDone, launchVars, Working, Gate!gateVars
  <2>9. ASSUME CloseReturn
        PROVE  Gate!Shut
    <3>1. QuietAfterClose' /\ closer' = "closed" /\ pc' = pc
      BY <2>9, NextIInv DEF CloseReturn, launchVars
    <3>2. Working = {} /\ Working' = {}
      BY <3>1 DEF QuietAfterClose, Working
    <3>3. Phase = "closing" /\ Phase' = "shut"
      BY <2>9 DEF CloseReturn
    <3>4. QED
      BY <2>9, <3>2, <3>3 DEF CloseReturn, launchVars, Gate!Shut
  <2>10. QED
    BY <2>1, <2>2, <2>3, <2>4, <2>5, <2>6, <2>7, <2>8, <2>9
       DEF Next, LaunchStep, SchedulerStep, CloseStep, Gate!Next
<1>3. QED
  BY <1>1, <1>2, ReducerInvariant, PTL DEF Spec, ImplementsGate, Gate!Spec
=============================================================================
