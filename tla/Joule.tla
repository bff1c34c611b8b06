------------------------------- MODULE Joule --------------------------------
(***************************************************************************)
(* joule/joule.go: a command line runs its units of work, each in a        *)
(* goroutine, beside one goroutine for the terminal, to which everybody    *)
(* prints over unbuffered channels. When the units of work have ended the  *)
(* runner stops the terminal's goroutine and closes the channels; a        *)
(* goroutine that sends on them after that panics, and so does one that    *)
(* was already waiting to send.                                            *)
(***************************************************************************)
EXTENDS Context, Naturals, FiniteSets

CONSTANTS
    Uows,           \* units of work
    Early,          \* those that startup adds
    Printers        \* the goroutines that print or ask, units of work included

ASSUME UowsFinite == IsFiniteSet(Uows)

VARIABLES
    runner,         \* where CLIRunner.Run is
    isRunning,      \* CLIRunner.isRunning
    isStopping,     \* CLIRunner.isStopping
    uow,            \* what became of each unit of work
    terminal,       \* the goroutine of controlUI
    asking,         \* who waits for a secret
    sending,        \* who is blocked on a channel to the terminal
    closed,         \* the finalizer has closed these channels
    signals,        \* interruptions that had an effect
    ended           \* how the process ended

jouleVars == <<runner, isRunning, isStopping, uow, terminal, asking, sending,
               closed, signals, ended>>

JouleTypeOK ==
    /\ runner \in {"starting", "added", "started", "waiting", "waited",
                   "stopping", "shutdown", "returned"}
    /\ isRunning \in BOOLEAN
    /\ isStopping \in BOOLEAN
    /\ uow \in [Uows -> {"none", "adding", "refused", "added", "working", "done"}]
    /\ terminal \in {"off", "listening", "prompting", "stopped"}
    /\ asking \in SUBSET Printers
    /\ sending \in SUBSET Printers
    /\ closed \in BOOLEAN
    /\ signals \in 0..2
    /\ ended \in {"no", "exit", "forced", "panic"}

Alive == ended = "no"

\* A fault: a unit of work is counted until it starts.
workersWgNotStarted == Cardinality({u \in Uows : uow[u] = "added"})

\* CLIRunner.workersWg counts the units of work added and not yet done.
workersWg == Cardinality({u \in Uows : uow[u] \in {"added", "working"}})

-----------------------------------------------------------------------------
JouleInit ==
    /\ runner = "starting"
    /\ isRunning = FALSE
    /\ isStopping = FALSE
    /\ uow = [u \in Uows |-> "none"]
    /\ terminal = "off"
    /\ asking = {}
    /\ sending = {}
    /\ closed = FALSE
    /\ signals = 0
    /\ ended = "no"

\* startup adds its units of work, or fails.
Startup(fails) ==
    /\ runner = "starting"
    /\ IF fails
       THEN /\ runner' = "returned"
            /\ closed' = TRUE
            /\ UNCHANGED uow
       ELSE /\ runner' = "added"
            /\ uow' = [u \in Uows |-> IF u \in Early THEN "added" ELSE uow[u]]
            /\ UNCHANGED closed
    /\ UNCHANGED <<isRunning, isStopping, terminal, asking, sending, signals, ended>>

\* AddUow, called while the runner runs, reads isStopping without the lock.
CheckStopping(u) ==
    /\ uow[u] = "none"
    /\ runner # "starting"
    /\ uow' = [uow EXCEPT ![u] = IF isStopping THEN "refused" ELSE "adding"]
    /\ UNCHANGED <<runner, isRunning, isStopping, terminal, asking, sending, closed, signals, ended>>

\* Then it takes the lock, and starts the work if the runner has started
\* those it found. Run holds the lock while it starts them.
AddUow(u) ==
    /\ uow[u] = "adding"
    /\ uow' = [uow EXCEPT ![u] = IF isRunning THEN "working" ELSE "added"]
    /\ UNCHANGED <<runner, isRunning, isStopping, terminal, asking, sending, closed, signals, ended>>

\* Run starts the works it finds.
StartWorkers ==
    /\ runner = "added"
    /\ runner' = "started"
    /\ uow' = [u \in Uows |-> IF uow[u] = "added" THEN "working" ELSE uow[u]]
    /\ UNCHANGED <<isRunning, isStopping, terminal, asking, sending, closed, signals, ended>>

\* It says so once it has released the lock, then starts the terminal.
MarkRunning ==
    /\ runner = "started"
    /\ isRunning' = TRUE
    /\ runner' = "waiting"
    /\ terminal' = "listening"
    /\ UNCHANGED <<isStopping, uow, asking, sending, closed, signals, ended>>

\* The function of a unit of work returns.
WorkDone(u) ==
    /\ uow[u] = "working"
    /\ uow' = [uow EXCEPT ![u] = "done"]
    /\ UNCHANGED <<runner, isRunning, isStopping, terminal, asking, sending, closed, signals, ended>>

WaitWorkers ==
    /\ runner = "waiting"
    /\ workersWg = 0
    /\ runner' = "waited"
    /\ UNCHANGED <<isRunning, isStopping, uow, terminal, asking, sending, closed, signals, ended>>

MarkStopping ==
    /\ runner = "waited"
    /\ isStopping' = TRUE
    /\ runner' = "stopping"
    /\ UNCHANGED <<isRunning, uow, terminal, asking, sending, closed, signals, ended>>

\* The terminal's goroutine receives from stopUi and ends.
StopUi ==
    /\ runner = "stopping"
    /\ terminal = "listening"
    /\ terminal' = "stopped"
    /\ runner' = "shutdown"
    /\ UNCHANGED <<isRunning, isStopping, uow, asking, sending, closed, signals, ended>>

\* Run returns and its deferred finalizer closes the channels.
Finalize ==
    /\ runner = "shutdown"
    /\ runner' = "returned"
    /\ closed' = TRUE
    /\ UNCHANGED <<isRunning, isStopping, uow, terminal, asking, sending, signals, ended>>

\* The program ends after Run.
Exit ==
    /\ runner = "returned"
    /\ ended' = "exit"
    /\ UNCHANGED <<runner, isRunning, isStopping, uow, terminal, asking, sending, closed, signals>>

Run ==
    \/ \E fails \in BOOLEAN : Startup(fails)
    \/ StartWorkers \/ MarkRunning \/ WaitWorkers \/ MarkStopping
    \/ StopUi \/ Finalize \/ Exit

-----------------------------------------------------------------------------
\* UiOut, UiErr and the writers made from them: g reaches its send.
UiOut(g) ==
    /\ g \notin sending
    /\ sending' = sending \union {g}
    /\ UNCHANGED <<runner, isRunning, isStopping, uow, terminal, asking, closed, signals, ended>>

\* The terminal's goroutine receives what g prints.
Printed(g) ==
    /\ g \in sending
    /\ terminal = "listening"
    /\ sending' = sending \ {g}
    /\ UNCHANGED <<runner, isRunning, isStopping, uow, terminal, asking, closed, signals, ended>>

\* UiSecret: g asks, then waits for the answer. The terminal's goroutine
\* prompts the user, and listens to nobody until it has passed it on.
UiSecret(g) ==
    /\ g \notin asking
    /\ asking' = asking \union {g}
    /\ UNCHANGED <<runner, isRunning, isStopping, uow, terminal, sending, closed, signals, ended>>

handleSecretPrompt(g) ==
    /\ g \in asking
    /\ terminal = "listening"
    /\ terminal' = "prompting"
    /\ UNCHANGED <<runner, isRunning, isStopping, uow, asking, sending, closed, signals, ended>>

SecretTyped(g) ==
    /\ g \in asking
    /\ terminal = "prompting"
    /\ terminal' = "listening"
    /\ asking' = asking \ {g}
    /\ UNCHANGED <<runner, isRunning, isStopping, uow, sending, closed, signals, ended>>

controlUI == \E g \in Printers : Printed(g) \/ handleSecretPrompt(g) \/ SecretTyped(g)

\* A panic in a goroutine ends the process.
Dies ==
    /\ ended' = "panic"
    /\ UNCHANGED <<runner, isRunning, isStopping, uow, terminal, asking, sending, closed, signals>>

\* So does a send on a closed channel.
SendOnClosed ==
    /\ closed
    /\ sending \union asking # {}
    /\ Dies

\* The first interruption cancels the context and the third ends the process.
\* The second one only says so, and is left out.
Interrupt ==
    /\ signals < 2
    /\ signals' = signals + 1
    /\ IF signals = 0 THEN Cancel ELSE UNCHANGED cancelled
    /\ ended' = IF signals = 1 THEN "forced" ELSE ended
    /\ UNCHANGED <<runner, isRunning, isStopping, uow, terminal, asking, sending, closed>>
=============================================================================
