----------------------------- MODULE Scheduler ------------------------------
(***************************************************************************)
(* cabriui/cabrisched.go and schedule.go: the actions of each              *)
(* specification are run again each time its period has elapsed, or when   *)
(* an HTTP request asks for it, until the context is cancelled.            *)
(*                                                                         *)
(* The runs of a specification are jobs, each in a goroutine. Time is what *)
(* elapses: due holds the specifications whose last run began more than a  *)
(* period ago. Commands end well or badly as they like.                    *)
(***************************************************************************)
EXTENDS Context, Naturals, Sequences, FiniteSets

CONSTANTS
    Jobs,           \* the runs that may be under way at the same time
    Specs           \* the possible contents of the specification file

\* A specification file gives each label the fields of CabriScheduleSpec:
\* [periodic, continueOnError, exitOnError, actions]: whether its period is
\* positive, its two flags, and the types of its actions.
ASSUME SpecsComplete ==
    \A s \in Specs : \A l \in DOMAIN s :
        /\ {"periodic", "continueOnError", "exitOnError", "actions"} \subseteq DOMAIN s[l]
        /\ {s[l].periodic, s[l].continueOnError, s[l].exitOnError} \subseteq BOOLEAN
        /\ s[l].actions \in Seq(STRING)

VARIABLES
    spec,           \* ScheduleConfig.Spec, which never changes
    looping,        \* the loop of schedule()
    isBusy,         \* the labels whose ScheduleRunStatus.IsRunning is TRUE
    due,            \* the labels whose period has elapsed
    job,            \* what each job is doing
    cloned,         \* the labels whose git repository has been cloned
    failing         \* a command failed and its specification says to exit

schedulerVars == <<spec, looping, isBusy, due, job, cloned, failing>>

Labels == DOMAIN spec

NoJob == [pc |-> "none", label |-> "none", at |-> 0, cmd |-> "none"]

JobStates == {"none", "begin", "action", "command", "release", "announce", "log", "over"}

JobRecords ==
    [pc : JobStates,
     label : Labels \union {"none"},
     at : Nat,
     cmd : {"none", "cmd", "clone", "checkout", "pull", "failed"}]

SchedulerTypeOK ==
    /\ spec \in Specs
    /\ looping \in BOOLEAN
    /\ isBusy \in SUBSET Labels
    /\ due \in SUBSET Labels
    /\ job \in [Jobs -> JobRecords]
    /\ cloned \in SUBSET Labels
    /\ failing \in BOOLEAN

-----------------------------------------------------------------------------
\* The status of each label starts with LastTime now: nothing is due.
SchedulerInit ==
    /\ spec \in Specs
    /\ looping = FALSE
    /\ isBusy = {}
    /\ due = {}
    /\ job = [j \in Jobs |-> NoJob]
    /\ cloned = {}
    /\ failing = FALSE

StartLoop ==
    /\ ~looping
    /\ looping' = TRUE
    /\ UNCHANGED <<spec, isBusy, due, job, cloned, failing>>

\* The period of a label elapses.
Elapse(l) ==
    /\ spec[l].periodic
    /\ due' = due \union {l}
    /\ due' # due
    /\ UNCHANGED <<spec, looping, isBusy, job, cloned, failing>>

\* run(): unless the label is running, mark it and start a job. Jobs bounds
\* the jobs under way.
run(l) ==
    /\ IF l \in isBusy
       THEN UNCHANGED <<isBusy, job>>
       ELSE \E j \in Jobs :
              /\ job[j] = NoJob
              /\ isBusy' = isBusy \union {l}
              /\ job' = [job EXCEPT ![j] = [pc |-> "begin", label |-> l, at |-> 0, cmd |-> "none"]]
    /\ UNCHANGED <<spec, looping, due, cloned, failing>>

\* One turn of Schedule() for a label. The loop may take a turn more when
\* the context is cancelled, since both cases of its select are ready then.
Schedule(l) ==
    /\ looping
    /\ l \in due
    /\ run(l)

\* PUT /label of the scheduler's server.
sSchedPut(l) ==
    /\ looping
    /\ run(l)

LeaveLoop ==
    /\ looping
    /\ cancelled
    /\ looping' = FALSE
    /\ UNCHANGED <<spec, isBusy, due, job, cloned, failing>>

-----------------------------------------------------------------------------
Actions(j) == spec[job[j].label].actions

Step(j, change) == job' = [job EXCEPT ![j] = change]

\* The goroutine starts: LastTime becomes now.
Begin(j) ==
    /\ job[j].pc = "begin"
    /\ due' = due \ {job[j].label}
    /\ Step(j, [job[j] EXCEPT !.pc = IF Actions(j) = << >> THEN "over" ELSE "action",
                              !.at = 1])
    /\ UNCHANGED <<spec, looping, isBusy, cloned, failing>>

\* doRun() of a type that is not supported returns at once.
Unsupported(j) ==
    /\ job[j].pc = "action"
    /\ Actions(j)[job[j].at] \notin {"cmd", "git"}
    /\ Step(j, [job[j] EXCEPT !.pc = IF spec[job[j].label].exitOnError
                                     THEN "announce" ELSE "log"])
    /\ UNCHANGED <<spec, looping, isBusy, due, cloned, failing>>

\* A fault: IsRunning is reset when the command starts.
StartCommandReleasing(j) ==
    /\ job[j].pc = "action"
    /\ Actions(j)[job[j].at] \in {"cmd", "git"}
    /\ isBusy' = isBusy \ {job[j].label}
    /\ Step(j, [job[j] EXCEPT
                  !.pc = "command",
                  !.cmd = IF Actions(j)[job[j].at] = "cmd" THEN "cmd"
                          ELSE IF job[j].label \in cloned THEN "checkout"
                          ELSE "clone"])
    /\ UNCHANGED <<spec, looping, due, cloned, failing>>

\* doRunCommand() and doRunGit() start their first command.
StartCommand(j) ==
    /\ job[j].pc = "action"
    /\ Actions(j)[job[j].at] \in {"cmd", "git"}
    /\ Step(j, [job[j] EXCEPT
                  !.pc = "command",
                  !.cmd = IF Actions(j)[job[j].at] = "cmd" THEN "cmd"
                          ELSE IF job[j].label \in cloned THEN "checkout"
                          ELSE "clone"])
    /\ UNCHANGED <<spec, looping, isBusy, due, cloned, failing>>

\* The command of a job succeeds: git goes on to its next one.
CommandSucceeds(j) ==
    /\ job[j].pc = "command"
    /\ Step(j, CASE job[j].cmd = "clone"    -> [job[j] EXCEPT !.cmd = "checkout"]
                 [] job[j].cmd = "checkout" -> [job[j] EXCEPT !.cmd = "pull"]
                 [] OTHER                   -> [job[j] EXCEPT !.pc = "release", !.cmd = "none"])
    /\ cloned' = IF job[j].cmd = "clone" THEN cloned \union {job[j].label} ELSE cloned
    /\ UNCHANGED <<spec, looping, isBusy, due, failing>>

\* It fails, or the cancelled context kills it. A clone may leave its
\* directory behind.
CommandFails(j) ==
    /\ job[j].pc = "command"
    /\ Step(j, [job[j] EXCEPT !.pc = "release", !.cmd = "failed"])
    /\ \/ UNCHANGED cloned
       \/ job[j].cmd = "clone" /\ cloned' = cloned \union {job[j].label}
    /\ UNCHANGED <<spec, looping, isBusy, due, failing>>

\* The next action of the job, or its end.
NextAction(j) ==
    IF job[j].at < Len(Actions(j))
    THEN [job[j] EXCEPT !.pc = "action", !.cmd = "none", !.at = @ + 1]
    ELSE [job[j] EXCEPT !.pc = "over", !.cmd = "none"]

\* A fault: IsRunning is reset for the commands that succeed only.
ReleaseOnSuccess(j) ==
    /\ job[j].pc = "release"
    /\ isBusy' = IF job[j].cmd # "failed" THEN isBusy \ {job[j].label} ELSE isBusy
    /\ Step(j, IF job[j].cmd # "failed" THEN NextAction(j)
               ELSE [job[j] EXCEPT !.pc = IF spec[job[j].label].exitOnError
                                          THEN "announce" ELSE "log"])
    /\ UNCHANGED <<spec, looping, due, cloned, failing>>

\* doRun() resets IsRunning, at the end of each action, and the job looks
\* at its error.
Release(j) ==
    /\ job[j].pc = "release"
    /\ isBusy' = isBusy \ {job[j].label}
    /\ Step(j, IF job[j].cmd # "failed" THEN NextAction(j)
               ELSE [job[j] EXCEPT !.pc = IF spec[job[j].label].exitOnError
                                          THEN "announce" ELSE "log"])
    /\ UNCHANGED <<spec, looping, due, cloned, failing>>

\* Having said that it exits, the job cancels the context.
ExitOnError(j) ==
    /\ job[j].pc = "announce"
    /\ failing' = TRUE
    /\ Cancel
    /\ Step(j, [job[j] EXCEPT !.pc = "log"])
    /\ UNCHANGED <<spec, looping, isBusy, due, cloned>>

\* Having logged the error it stops, or goes on with the next action.
ContinueOnError(j) ==
    /\ job[j].pc = "log"
    /\ Step(j, IF spec[job[j].label].continueOnError THEN NextAction(j)
               ELSE [job[j] EXCEPT !.pc = "over"])
    /\ UNCHANGED <<spec, looping, isBusy, due, cloned, failing>>

JobEnds(j) ==
    /\ job[j].pc = "over"
    /\ Step(j, NoJob)
    /\ UNCHANGED <<spec, looping, isBusy, due, cloned, failing>>

\* What a job does without the terminal.
JobStep(j) ==
    \/ Begin(j) \/ Unsupported(j) \/ StartCommand(j)
    \/ CommandSucceeds(j) \/ CommandFails(j) \/ Release(j) \/ JobEnds(j)

-----------------------------------------------------------------------------
Commanding(l) == {j \in Jobs : job[j].label = l /\ job[j].pc = "command"}

\* Two runs of a specification never work at the same time, provided it has
\* one action: IsRunning is reset at the end of each action
\* (cabrisched.go:188), so one with several may be started again between
\* two of them.
OneRunAtATime ==
    \A l \in Labels : Len(spec[l].actions) <= 1 => Cardinality(Commanding(l)) <= 1
=============================================================================
