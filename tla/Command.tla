------------------------------ MODULE Command -------------------------------
(***************************************************************************)
(* A run of the command line: the runner of joule executes one unit of     *)
(* work, which is a listing of a DSS ("lsns", cabriui/lsns.go), the        *)
(* scheduler ("schedule", cabriui/schedule.go), a command on DSSs ("dss",  *)
(* DssCommand) or a server of DSSs ("webapi", WebServer); "late" is a      *)
(* runner whose program adds another unit of work while it runs, as        *)
(* joule's tests do.                                                       *)
(*                                                                         *)
(* A listing walks its namespaces through the parallelizer: the body of    *)
(* lsnsRecurs is a LaunchAndWait of plizedGetMetas and plizedLsnsMetas,    *)
(* each of them a Parallelize, over the entries and over the namespaces.   *)
(* Reading the metadata of an entry is a work of Parallel: it passes the   *)
(* reducer of the DSS, known by what IOGate says of it, and prints. So     *)
(* does a request to the first DSS that a server serves.                   *)
(***************************************************************************)
EXTENDS Parallel, Joule, Scheduler, WebServer

CONSTANTS
    Main,           \* the unit of work of the command
    GateLimit,      \* BaseOptions.RedLimit
    Modes           \* the commands considered

ASSUME MainIsUow == Main \in Early /\ Early \subseteq Uows
ASSUME WhoPrints == Printers = Uows \union Works \union Jobs
\* They are different goroutines, and a listing goes through all the nodes.
ASSUME PrintersDiffer ==
    /\ Uows \intersect (Works \union Jobs) = {}
    /\ Works \intersect Jobs = {}
ASSUME EveryNodeReached ==
    \A S \in SUBSET Nodes : Root \in S /\ (\A n \in S : Children[n] \subseteq S) => S = Nodes

VARIABLES
    mode,                           \* the command, which never changes
    reading,                        \* where each reading or request is
    inside, ran, refused, phase     \* the reducer of the DSS

Gate == INSTANCE IOGate WITH Calls <- Works, Limit <- GateLimit

gateVars == <<inside, ran, refused, phase>>
lsnsVars == <<reading, inside, ran, refused, phase>>
servedVars == <<dssVars, server>>
vars == <<cancelled, parallelVars, jouleVars, schedulerVars, mode, servedVars, lsnsVars>>

\* Those that the reducer counts and that nobody will hear: its scheduler has
\* ended before it received them.
LeftWaiting == {n \in Works : reading[n] = "left"}

\* The command whose unit of work it is; the others are not DssCommands.
CommandsOf(m) == CASE m = "dss"    -> DssCommands
                   [] m = "webapi" -> {webApi}
                   [] OTHER        -> {lsnsRun}

TypeOK ==
    /\ ParallelTypeOK
    /\ JouleTypeOK
    /\ SchedulerTypeOK
    /\ mode \in Modes
    /\ DssTypeOK(CommandsOf(mode))
    /\ ServerTypeOK
    /\ reading \in [Works -> {"idle", "io", "print", "left"}]
    /\ inside \union ran \union refused \subseteq Works
    /\ phase \in {"open", "closing", "shut"}

CLIRun ==
    /\ ParallelInit
    /\ JouleInit
    /\ SchedulerInit
    /\ Gate!Init
    /\ mode \in Modes
    /\ mode # "schedule" => spec = CHOOSE s \in Specs : TRUE     \* not read
    /\ mode # "lsns" => plizerEnabled                             \* not used
    /\ DssInit(CommandsOf(mode))
    /\ ServerInit
    /\ reading = [n \in Works |-> "idle"]

-----------------------------------------------------------------------------
MainWorks == uow[Main] = "working" /\ Main \notin sending \union asking

\* The unit of work moves on to another place; it has returned its result or
\* its error when it is over.
At(place) == cmd' = place /\ UNCHANGED <<command, dss, failure, server>>

Ends ==
    /\ At("over")
    /\ WorkDone(Main)
    /\ UNCHANGED <<cancelled, parallelVars, schedulerVars, mode, lsnsVars>>

\* MasterPassword may ask for a password. Reading the configuration, the
\* specification file or the DSS may fail.
AskSecret ==
    /\ MainWorks /\ mode \in {"lsns", "dss", "webapi"} /\ cmd = "begin"
    /\ At("asking")
    /\ UiSecret(Main)
    /\ UNCHANGED <<cancelled, parallelVars, schedulerVars, mode, lsnsVars>>

CannotStart ==
    /\ MainWorks /\ mode \in {"lsns", "schedule", "late"} /\ cmd \in {"begin", "asking"}
    /\ Ends

lsns ==
    /\ MainWorks /\ mode = "lsns" /\ cmd \in {"begin", "asking"}
    /\ cmd' = "walk"
    /\ dss' = [dss EXCEPT ![1] = "open"]
    /\ StartRoot
    /\ UNCHANGED <<cancelled, jouleVars, schedulerVars, mode, command, failure, server, lsnsVars>>

\* The listing has come back: Close.
CloseDss ==
    /\ MainWorks /\ cmd = "walk"
    /\ pc[Root] = "done"
    /\ At("closing")
    /\ Gate!StartClosing
    /\ UNCHANGED <<cancelled, parallelVars, jouleVars, schedulerVars, mode, reading>>

\* Close returns, once nobody waits in the reducer, and the command prints its
\* errors.
ReportLsns ==
    /\ MainWorks /\ mode = "lsns" /\ cmd = "closing"
    /\ Gate!Shut /\ LeftWaiting = {}
    /\ cmd' = "report"
    /\ dss' = [dss EXCEPT ![1] = "closed"]
    /\ UiOut(Main)
    /\ UNCHANGED <<cancelled, parallelVars, schedulerVars, mode, command, failure, server, reading>>

LsnsEnds == MainWorks /\ mode = "lsns" /\ cmd = "report" /\ Ends

\* A goroutine of Parallelize reads the metadata of an entry: GetMeta
\* passes the reducer, which turns it away if it is closing.
GetMeta(n) ==
    /\ pc[n] = "running" /\ reading[n] = "idle"
    /\ Gate!Enter(n) /\ LeftWaiting = {}
    /\ reading' = [reading EXCEPT ![n] = "io"]
    /\ UNCHANGED <<cancelled, parallelVars, jouleVars, schedulerVars, mode, servedVars>>

\* It prints the metadata, or its error.
outMeta(n) ==
    /\ pc[n] = "running"
    /\ \/ reading[n] = "io" /\ Gate!Leave(n)
       \/ reading[n] = "idle" /\ Gate!Refuse(n) /\ LeftWaiting = {}
    /\ reading' = [reading EXCEPT ![n] = "print"]
    /\ UiOut(n)
    /\ UNCHANGED <<cancelled, parallelVars, schedulerVars, mode, servedVars>>

ReturnMeta(n) ==
    /\ reading[n] = "print" /\ n \notin sending
    /\ Return(n)
    /\ UNCHANGED <<cancelled, jouleVars, schedulerVars, mode, servedVars, lsnsVars>>

Walk ==
    /\ Advance
    /\ UNCHANGED <<cancelled, jouleVars, schedulerVars, mode, servedVars, lsnsVars>>

-----------------------------------------------------------------------------
\* The scheduler: its unit of work loops, and returns from the loop.
schedule ==
    /\ MainWorks /\ mode = "schedule" /\ cmd = "begin"
    /\ At("loop")
    /\ StartLoop
    /\ UNCHANGED <<cancelled, parallelVars, jouleVars, mode, lsnsVars>>

Turn ==
    /\ cmd = "loop"
    /\ \E l \in Labels : Schedule(l) \/ sSchedPut(l) \/ Elapse(l)
    /\ UNCHANGED <<cancelled, parallelVars, jouleVars, mode, servedVars, lsnsVars>>

LeaveSchedule ==
    /\ cmd = "loop"
    /\ LeaveLoop
    /\ At("over")
    /\ WorkDone(Main)
    /\ UNCHANGED <<cancelled, parallelVars, mode, lsnsVars>>

\* What a job says, it says through the terminal of the unit of work, and
\* it is there before the job waits to be heard.
Says(j) ==
    IF job'[j].pc \in {"announce", "log"} THEN UiOut(j) ELSE UNCHANGED jouleVars

JobWorks(j) ==
    /\ JobStep(j)
    /\ Says(j)
    /\ UNCHANGED <<cancelled, parallelVars, mode, servedVars, lsnsVars>>

JobFails(j) ==
    /\ j \notin sending
    /\ \/ ExitOnError(j)
       \/ ContinueOnError(j) /\ UNCHANGED cancelled
    /\ Says(j)
    /\ UNCHANGED <<parallelVars, mode, servedVars, lsnsVars>>

-----------------------------------------------------------------------------
\* A command reaches the terminal when it has something to print, and its
\* unit of work is done when it is over.
Tells ==
    CASE cmd' = "over"   -> WorkDone(Main)
      [] cmd' = "report" -> UiOut(Main)
      [] OTHER           -> UNCHANGED jouleVars

\* A command uses its DSSs.
dssCommand ==
    /\ MainWorks /\ mode = "dss"
    /\ UseDss
    /\ Tells
    /\ UNCHANGED <<cancelled, parallelVars, schedulerVars, mode, server, lsnsVars>>

\* A server of DSSs is started, and stopped.
webApiCommand ==
    /\ MainWorks /\ mode = "webapi"
    /\ \/ Mapping
       \/ Shutdown
       \/ Reported /\ UNCHANGED server
    /\ Tells
    /\ UNCHANGED <<cancelled, parallelVars, schedulerVars, mode, lsnsVars>>

webApiStops ==
    /\ MainWorks /\ mode = "webapi"
    /\ ShuttingDown
    /\ UiOut(Main)
    /\ UNCHANGED <<cancelled, parallelVars, schedulerVars, mode, lsnsVars>>

\* The DSSs are closed one after the other, while the server listens: closing
\* the first one waits for the requests that are in its reducer, and for those
\* that its scheduler left waiting, for ever. Nobody uses the second one.
CloseServed ==
    /\ MainWorks /\ mode = "webapi" /\ cmd = "closing"
    /\ \/ 1 \in opened /\ Gate!StartClosing /\ UNCHANGED servedVars
       \/ shutdownCallback(1) /\ Gate!Shut /\ LeftWaiting = {}
       \/ phase # "closing" /\ shutdownCallback(2) /\ UNCHANGED gateVars
    /\ UNCHANGED <<cancelled, parallelVars, jouleVars, schedulerVars, mode, reading>>

Listens == mode = "webapi" /\ server \in {"serving", "configuring"}

\* A request comes, as long as the server listens: its handler finds the
\* configuration of its DSS, and passes the reducer.
Request(n) ==
    /\ Listens
    /\ reading[n] = "idle" /\ LeftWaiting = {}
    /\ \/ Gate!Enter(n) /\ reading' = [reading EXCEPT ![n] = "io"]
       \/ Gate!Refuse(n) /\ UNCHANGED reading
    /\ UNCHANGED <<cancelled, parallelVars, jouleVars, schedulerVars, mode, servedVars>>

\* The reducer is closing and holds nobody, so that its scheduler ends: a
\* Launch that it has not received, of a request or of a reading that an abort
\* left behind, blocks for ever, and is counted.
LaunchUnheard(n) ==
    /\ pc[n] = "running" \/ Listens
    /\ phase = "closing" /\ inside = {}
    /\ reading[n] = "idle" /\ n \notin ran \union refused
    /\ reading' = [reading EXCEPT ![n] = "left"]
    /\ UNCHANGED <<cancelled, parallelVars, jouleVars, schedulerVars, mode, servedVars, gateVars>>

Answer(n) ==
    /\ mode = "webapi" /\ reading[n] = "io"
    /\ Gate!Leave(n)
    /\ reading' = [reading EXCEPT ![n] = "idle"]
    /\ UNCHANGED <<cancelled, parallelVars, jouleVars, schedulerVars, mode, servedVars>>

\* A handler that goes through the map of configurations while ConfigureApi
\* writes it ends the process, when the runtime sees it.
GetCustomConfig ==
    /\ mode = "webapi" /\ server = "configuring"
    /\ \E n \in Works : reading[n] = "idle"
    /\ Dies
    /\ UNCHANGED <<cancelled, parallelVars, schedulerVars, mode, servedVars, lsnsVars>>

-----------------------------------------------------------------------------
\* Another unit of work, added late: it prints, then ends.
AddLate(u) ==
    /\ mode = "late"
    /\ CheckStopping(u) \/ AddUow(u)
    /\ UNCHANGED <<cancelled, parallelVars, schedulerVars, mode, servedVars, lsnsVars>>

LateWorks(u) ==
    /\ uow[u] = "working" /\ u \notin sending
    /\ UiOut(u) \/ WorkDone(u)
    /\ UNCHANGED <<cancelled, parallelVars, schedulerVars, mode, servedVars, lsnsVars>>

RunStep ==
    /\ Run
    /\ UNCHANGED <<cancelled, parallelVars, schedulerVars, mode, servedVars, lsnsVars>>

Terminal ==
    /\ controlUI
    /\ UNCHANGED <<cancelled, parallelVars, schedulerVars, mode, servedVars, lsnsVars>>

Panic ==
    /\ SendOnClosed
    /\ UNCHANGED <<cancelled, parallelVars, schedulerVars, mode, servedVars, lsnsVars>>

ControlC ==
    /\ Interrupt
    /\ UNCHANGED <<parallelVars, schedulerVars, mode, servedVars, lsnsVars>>

MainStep ==
    \/ AskSecret \/ CannotStart \/ lsns \/ CloseDss \/ ReportLsns \/ LsnsEnds
    \/ schedule \/ LeaveSchedule
    \/ dssCommand \/ webApiCommand \/ webApiStops \/ CloseServed

WorkStep(n) == GetMeta(n) \/ outMeta(n) \/ ReturnMeta(n) \/ Answer(n)

Next ==
    /\ Alive
    /\ \/ RunStep \/ Terminal \/ Panic \/ ControlC
       \/ MainStep
       \/ Walk
       \/ \E n \in Works : WorkStep(n) \/ Request(n) \/ LaunchUnheard(n)
       \/ GetCustomConfig
       \/ Turn
       \/ \E j \in Jobs : JobWorks(j) \/ JobFails(j)
       \/ \E u \in Uows \ Early : AddLate(u) \/ LateWorks(u)

Spec == CLIRun /\ [][Next]_vars

\* The Go scheduler lets every goroutine go on, I/O and commands end, the
\* loop of the scheduler turns every few seconds, and the user answers the
\* prompts. Nobody has to interrupt, to send a request or to add works.
Fairness ==
    /\ WF_vars(Alive /\ RunStep)
    /\ WF_vars(Alive /\ Terminal)
    /\ WF_vars(Alive /\ MainStep)
    /\ WF_vars(Alive /\ Walk)
    /\ \A n \in Works : WF_vars(Alive /\ WorkStep(n))
    /\ \A l \in UNION {DOMAIN s : s \in Specs} :
          WF_vars(Alive /\ cmd = "loop" /\ l \in Labels /\ Schedule(l)
                  /\ UNCHANGED <<cancelled, parallelVars, jouleVars, mode, servedVars, lsnsVars>>)
    /\ \A j \in Jobs : WF_vars(Alive /\ (JobWorks(j) \/ JobFails(j)))
    /\ \A u \in Uows \ Early : WF_vars(Alive /\ AddLate(u))
    /\ \A u \in Uows \ Early : SF_vars(Alive /\ LateWorks(u) /\ WorkDone(u))

FairSpec == Spec /\ Fairness

-----------------------------------------------------------------------------
\* Unless the command is aborted, the DSS is closed when nobody uses it any
\* more: no reading is turned away, and the report comes after all of them
\* (lsns.go:95-96). And a command closes what it opens, but for LeftOpen.
ClosedAfterUse ==
    /\ LeftOpen
    /\ ~cancelled =>
        /\ refused = {}
        /\ phase # "open" => ran = Works /\ \A n \in Nodes : pc[n] = "done"

\* Nobody sends on the channels of the terminal once they are closed
\* (joule.go:180-184), unless an abort has left goroutines behind or a unit
\* of work was added while the runner was stopping; and a server ends so only
\* while it adds a DSS to those it already serves (web.go:252).
PanicOnlyAborted ==
    ended = "panic" => cancelled \/ mode = "late" \/ server = "configuring"

\* A unit of work was added after Run had started those it found and before
\* it said so (joule.go:252-256): nobody starts it, and Run waits for it.
Missed == \E u \in Uows : uow[u] = "added" /\ runner = "waiting"

\* A listing and a command on DSSs end by themselves; the scheduler ends when
\* it is told to, and so does a server unless its reducer left a request waiting
\* (reducer.go:237); a runner ends when its works have.
CommandEnds ==
    /\ mode \in {"lsns", "dss"} => <>(cancelled \/ ~Alive)
    /\ mode \in {"schedule", "webapi"} => (cancelled ~> (~Alive \/ LeftWaiting # {}))
    /\ mode = "late" => <>(Missed \/ ~Alive)

\* doRun() supports all the actions of l, and there are some.
Supported(l) ==
    /\ spec[l].actions # << >>
    /\ \A i \in DOMAIN spec[l].actions : spec[l].actions[i] \in {"cmd", "git"}

\* A specification whose period has elapsed is run again, whatever became
\* of its last runs, if doRun() supports its actions: with another type of
\* action IsRunning stays set for ever (cabrisched.go:185).
RunAgain ==
    \A l \in UNION {DOMAIN s : s \in Specs} :
        (l \in Labels /\ l \in due /\ Supported(l)) ~> (l \notin due \/ cancelled \/ ~Alive)
=============================================================================
