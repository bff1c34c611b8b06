------------------------------ MODULE Reducer -------------------------------
(***************************************************************************)
(* scalableReducer (plumber/reducer.go): Launch runs a work under a limit  *)
(* on the works running at a time, one scheduler goroutine admits them,    *)
(* and Close waits for everything that was launched.                       *)
(*                                                                         *)
(* Every goroutine that calls Launch is a member of Calls. The channels    *)
(* request, terminated and callback are unbuffered: a send and its receive *)
(* are one step, taken by the scheduler. Between receiving an entry and    *)
(* answering it on its callback, the scheduler listens to nobody.          *)
(***************************************************************************)
EXTENDS Naturals, FiniteSets

CONSTANTS
    Calls,      \* the calls of Launch, each in its own goroutine
    Limit       \* scalableReducer.limit

ASSUME CallsFinite == IsFiniteSet(Calls)
ASSUME LimitPositive == Limit \in Nat \ {0}

VARIABLES
    pc,         \* where each Launch is
    told,       \* calls sure to read isDone as TRUE: see HandleRequest
    outcome,    \* what became of the work of each call
    actives,    \* scalableReducer.actives
    mode,       \* the scheduler's loop: which handler of schedule() runs
    available,  \* srScheduler.available
    empty,      \* srScheduler.empty
    sdone,      \* srScheduler.done
    wg,         \* the counter of scalableReducer.wg
    closer      \* where Close is; it is called once

launchVars == <<pc, told, outcome>>
schedVars  == <<actives, mode, available, empty, sdone>>
vars       == <<pc, told, outcome, actives, mode, available, empty, sdone, wg, closer>>

LaunchStates == {"idle", "requesting", "asked", "granted", "working",
                 "terminating", "releasing", "returning", "returned"}
Handlers     == {"handleAvailable", "handleDrainAvailable",
                 "handleQueuing", "handleDrainQueuing"}

TypeOK ==
    /\ pc \in [Calls -> LaunchStates]
    /\ told \in SUBSET Calls
    /\ outcome \in [Calls -> {"none", "worked", "aborted"}]
    /\ actives \in SUBSET Calls
    /\ mode \in Handlers \union {"schedule", "terminated"}
    /\ available \in BOOLEAN
    /\ empty \in BOOLEAN
    /\ sdone \in BOOLEAN
    /\ wg \in Nat
    /\ closer \in {"open", "marked", "waiting", "closed"}

\* scalableReducer.isDone, set by Close before it closes the channel done.
isDone == closer # "open"
doneClosed == closer \in {"waiting", "closed"}

\* The scheduler has received an entry and has not answered it yet.
Answering == \E c \in Calls : pc[c] \in {"asked", "releasing"}

Listening(handlers) == mode \in handlers /\ ~Answering

(***************************************************************************)
(* NewReducer: the scheduler's goroutine is counted in wg and starts with  *)
(* an update of its flags.                                                 *)
(***************************************************************************)
Init ==
    /\ pc = [c \in Calls |-> "idle"]
    /\ told = {}
    /\ outcome = [c \in Calls |-> "none"]
    /\ actives = {}
    /\ mode = "schedule"
    /\ available = TRUE
    /\ empty = TRUE
    /\ sdone = FALSE
    /\ wg = 1
    /\ closer = "open"

----------------------------------------------------------------------------
(* Launch, in the caller's goroutine *)

\* Faulty variant: the call is not added to the wait group.
UncountedLaunch(c) ==
    /\ pc[c] = "idle"
    /\ pc' = [pc EXCEPT ![c] = "requesting"]
    /\ UNCHANGED <<told, outcome, schedVars, wg, closer>>

\* Nothing keeps a Launch from starting while or after the reducer is closed.
Launch(c) ==
    /\ pc[c] = "idle"
    /\ pc' = [pc EXCEPT ![c] = "requesting"]
    /\ wg' = wg + 1
    /\ UNCHANGED <<told, outcome, schedVars, closer>>

\* `if !red.isDone { err = work() }`: a read without the lock, so a call that
\* nothing orders after Close's write may still find FALSE.
StartWork(c) ==
    /\ pc[c] = "granted"
    /\ c \notin told
    /\ pc' = [pc EXCEPT ![c] = "working"]
    /\ UNCHANGED <<told, outcome, schedVars, wg, closer>>

\* Faulty variant: an aborted call is taken off the wait group at once, and
\* once more when it returns.
AbortWorkCountedTwice(c) ==
    /\ pc[c] = "granted"
    /\ isDone
    /\ pc' = [pc EXCEPT ![c] = "terminating"]
    /\ outcome' = [outcome EXCEPT ![c] = "aborted"]
    /\ wg' = wg - 1
    /\ UNCHANGED <<told, schedVars, closer>>

AbortWork(c) ==
    /\ pc[c] = "granted"
    /\ isDone
    /\ pc' = [pc EXCEPT ![c] = "terminating"]
    /\ outcome' = [outcome EXCEPT ![c] = "aborted"]
    /\ UNCHANGED <<told, schedVars, wg, closer>>

FinishWork(c) ==
    /\ pc[c] = "working"
    /\ pc' = [pc EXCEPT ![c] = "terminating"]
    /\ outcome' = [outcome EXCEPT ![c] = "worked"]
    /\ UNCHANGED <<told, schedVars, wg, closer>>

Return(c) ==
    /\ pc[c] = "returning"
    /\ pc' = [pc EXCEPT ![c] = "returned"]
    /\ wg' = wg - 1
    /\ UNCHANGED <<told, outcome, schedVars, closer>>

----------------------------------------------------------------------------
(* The scheduler *)

\* Faulty variant: one slot too many.
UpdateOffByOne(acts) ==
    /\ available' = (Cardinality(acts) <= Limit)
    /\ empty' = (acts = {})

Update(acts) ==
    /\ available' = (Cardinality(acts) < Limit)
    /\ empty' = (acts = {})

\* The scheduler takes the lock after Close released it, or before: in the
\* first case everything the callback orders later sees isDone set.
HandleRequest(c) ==
    /\ Listening({"handleAvailable", "handleDrainAvailable"})
    /\ pc[c] = "requesting"
    /\ pc' = [pc EXCEPT ![c] = "asked"]
    /\ told' = IF isDone THEN told \union {c} ELSE told
    /\ actives' = actives \union {c}
    /\ Update(actives')
    /\ UNCHANGED <<outcome, mode, sdone, wg, closer>>

HandleTerminated(c) ==
    /\ Listening(Handlers)
    /\ pc[c] = "terminating"
    /\ pc' = [pc EXCEPT ![c] = "releasing"]
    /\ actives' = actives \ {c}
    /\ Update(actives')
    /\ UNCHANGED <<told, outcome, mode, sdone, wg, closer>>

\* Faulty variant: handleQueuing goes on until the scheduler is full again.
LeavesLoopSwapped ==
    \/ mode \in {"handleAvailable", "handleQueuing"} /\ ~available
    \/ mode = "handleDrainAvailable" /\ (~available \/ empty)
    \/ mode = "handleDrainQueuing" /\ available

\* The condition on which each handler leaves its loop, tested after an answer.
LeavesLoop ==
    \/ mode = "handleAvailable"      /\ ~available
    \/ mode = "handleDrainAvailable" /\ (~available \/ empty)
    \/ mode \in {"handleQueuing", "handleDrainQueuing"} /\ available

Answer(c) ==
    /\ \/ /\ pc[c] = "asked"
          /\ pc' = [pc EXCEPT ![c] = "granted"]
       \/ /\ pc[c] = "releasing"
          /\ pc' = [pc EXCEPT ![c] = "returning"]
    /\ mode' = IF LeavesLoop THEN "schedule" ELSE mode
    /\ UNCHANGED <<told, outcome, actives, available, empty, sdone, wg, closer>>

\* `case <-srs.red.done` in the two handlers that watch it.
SeeDone ==
    /\ Listening({"handleAvailable", "handleQueuing"})
    /\ doneClosed
    /\ sdone' = TRUE
    /\ mode' = "schedule"
    /\ UNCHANGED <<launchVars, actives, available, empty, wg, closer>>

\* The loop of schedule() chooses the next handler from the three flags.
Dispatch ==
    /\ mode = "schedule"
    /\ \/ ~sdone
       \/ ~available
       \/ ~empty
    /\ mode' = IF available
               THEN IF sdone THEN "handleDrainAvailable" ELSE "handleAvailable"
               ELSE IF sdone THEN "handleDrainQueuing" ELSE "handleQueuing"
    /\ UNCHANGED <<launchVars, actives, available, empty, sdone, wg, closer>>

\* Faulty variant: the scheduler stops while calls still hold slots.
TerminateBusy ==
    /\ mode = "schedule"
    /\ sdone /\ available
    /\ mode' = "terminated"
    /\ wg' = wg - 1
    /\ UNCHANGED <<launchVars, actives, available, empty, sdone, closer>>

\* Faulty variant: the scheduler forgets to leave the wait group.
TerminateUncounted ==
    /\ mode = "schedule"
    /\ sdone /\ available /\ empty
    /\ mode' = "terminated"
    /\ UNCHANGED <<launchVars, actives, available, empty, sdone, wg, closer>>

Terminate ==
    /\ mode = "schedule"
    /\ sdone /\ available /\ empty
    /\ mode' = "terminated"
    /\ wg' = wg - 1
    /\ UNCHANGED <<launchVars, actives, available, empty, sdone, closer>>

----------------------------------------------------------------------------
(* Close *)

MarkDone ==
    /\ closer = "open"
    /\ closer' = "marked"
    /\ UNCHANGED <<launchVars, schedVars, wg>>

CloseDone ==
    /\ closer = "marked"
    /\ closer' = "waiting"
    /\ UNCHANGED <<launchVars, schedVars, wg>>

\* Faulty variant: Close does not wait.
CloseReturnEarly ==
    /\ closer = "waiting"
    /\ closer' = "closed"
    /\ UNCHANGED <<launchVars, schedVars, wg>>

CloseReturn ==
    /\ closer = "waiting"
    /\ wg = 0
    /\ closer' = "closed"
    /\ UNCHANGED <<launchVars, schedVars, wg>>

----------------------------------------------------------------------------
LaunchStep(c) ==
    Launch(c) \/ StartWork(c) \/ AbortWork(c) \/ FinishWork(c) \/ Return(c)

SchedulerStep ==
    \/ \E c \in Calls : HandleRequest(c) \/ HandleTerminated(c) \/ Answer(c)
    \/ SeeDone
    \/ Dispatch
    \/ Terminate

CloseStep == MarkDone \/ CloseDone \/ CloseReturn

Next ==
    \/ \E c \in Calls : LaunchStep(c)
    \/ SchedulerStep
    \/ CloseStep

(***************************************************************************)
(* The Go scheduler runs every goroutine that can run; a work is a single  *)
(* disk or network operation and is taken to end. Nobody has to call       *)
(* Launch or Close, but a Close that has begun goes on. A select with two  *)
(* ready cases picks one at random and the senders on a channel are queued,*)
(* so among finitely many calls each is received eventually: weak fairness *)
(* of the scheduler as a whole is enough.                                  *)
(***************************************************************************)
Fairness ==
    /\ \A c \in Calls :
          /\ WF_vars(StartWork(c) \/ AbortWork(c))
          /\ WF_vars(FinishWork(c))
          /\ WF_vars(Return(c))
    /\ WF_vars(SchedulerStep)
    /\ WF_vars(CloseDone)
    /\ WF_vars(CloseReturn)

Spec == Init /\ [][Next]_vars
FairSpec == Spec /\ Fairness

----------------------------------------------------------------------------
(* Properties *)

Working == {c \in Calls : pc[c] = "working"}

\* No more works run at a time than the limit (`if not 0 max number of
\* parallel I/O`, dssconf.go), and each one that runs still holds its slot.
AtMostLimit ==
    /\ Working \subseteq actives
    /\ Cardinality(Working) <= Limit

\* Once Close has returned, no call is anywhere between being received by the
\* scheduler and returning: the DSS may close its index and its files.
QuietAfterClose ==
    closer = "closed" =>
        /\ mode = "terminated"
        /\ \A c \in Calls : pc[c] \in {"idle", "requesting", "returned"}

\* A call the scheduler has admitted returns, whatever Close does meanwhile.
AdmittedReturns == \A c \in Calls : pc[c] = "asked" ~> pc[c] = "returned"

\* As long as nobody closes the reducer, every call is served and returns.
LaunchServed == \A c \in Calls : pc[c] = "requesting" ~> (pc[c] = "returned" \/ isDone)

\* Close returns, unless a call is left that the scheduler never received.
CloseCompletes ==
    closer = "waiting" ~> (closer = "closed" \/ \E c \in Calls : pc[c] = "requesting")

\* Close returns, as the test that closes a reducer with works under way and
\* works waiting takes for granted. The code does not guarantee it.
CloseReturns == closer = "waiting" ~> closer = "closed"

\* The reducer implements the gate.
Gate == INSTANCE IOGate WITH
    inside  <- Working,
    ran     <- {c \in Calls : outcome[c] = "worked"},
    refused <- {c \in Calls : outcome[c] = "aborted"},
    phase   <- CASE closer = "open" -> "open"
                 [] closer \in {"marked", "waiting"} -> "closing"
                 [] closer = "closed" -> "shut"

ImplementsGate == Gate!Spec
=============================================================================
