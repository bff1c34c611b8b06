---------------------------- MODULE CommandProofs ----------------------------
(***************************************************************************)
(* What TLAPS proves of a run of the command line: seen from the           *)
(* parallelizer, it is a behaviour of the parallelizer, so that what       *)
(* ParallelProofs says holds of it; the scheduler runs a specification of  *)
(* one action once at a time; and a command leaves a DSS open only where   *)
(* LeftOpen says.                                                          *)
(***************************************************************************)
EXTENDS Command, ParallelProofs

\* A step of the command is one of the parallelizer or leaves it alone.
LEMMA CommandStep ==
    ASSUME [Next]_vars
    PROVE  [ParallelNext]_<<cancelled, parallelVars>>
<1>1. CASE UNCHANGED vars
  BY <1>1 DEF vars
<1>2. CASE RunStep \/ Terminal \/ Panic
  BY <1>2 DEF RunStep, Terminal, Panic
<1>3. CASE ControlC
  BY <1>3 DEF ControlC, Interrupt, ParallelNext
<1>4. CASE MainStep
  BY <1>4 DEF MainStep, AskSecret, CannotStart, lsns, CloseDss, ReportLsns, LsnsEnds,
              schedule, LeaveSchedule, Ends, dssCommand, webApiCommand, webApiStops,
              CloseServed, ParallelNext
<1>5. CASE Walk
  BY <1>5 DEF Walk, ParallelNext
<1>6. ASSUME NEW n \in Works, WorkStep(n) \/ Request(n) \/ LaunchUnheard(n)
      PROVE  [ParallelNext]_<<cancelled, parallelVars>>
  BY <1>6 DEF WorkStep, GetMeta, outMeta, ReturnMeta, Answer, Request, LaunchUnheard,
              ParallelNext
<1>7. CASE Turn
  BY <1>7 DEF Turn
<1>8. ASSUME NEW j \in Jobs, JobWorks(j) \/ JobFails(j)
      PROVE  [ParallelNext]_<<cancelled, parallelVars>>
  BY <1>8 DEF JobWorks, JobFails, ExitOnError, ParallelNext
<1>9. ASSUME NEW u \in Uows \ Early, AddLate(u) \/ LateWorks(u)
      PROVE  [ParallelNext]_<<cancelled, parallelVars>>
  BY <1>9 DEF AddLate, LateWorks
<1>10. CASE GetCustomConfig
  BY <1>10 DEF GetCustomConfig
<1>11. QED
  BY <1>1, <1>2, <1>3, <1>4, <1>5, <1>6, <1>7, <1>8, <1>9, <1>10 DEF Next

\* Every run of the command line is a behaviour of the parallelizer, whatever
\* it lists and whoever aborts it (lsns.go:200-243 over material.go).
THEOREM CommandImplementsParallel == Spec => ParallelSpec
<1>1. CLIRun => ParallelInit
  BY DEF CLIRun
<1>2. QED
  BY <1>1, CommandStep, PTL DEF Spec, ParallelSpec

\* The readings of metadata under way never exceed the limit of their
\* regulator, LaunchAndWait waits for them, and none is missing from a
\* listing that was not aborted.
THEOREM CommandParallelSafe == Spec => [](RegulatedLimit /\ LaunchWaits /\ Complete)
BY CommandImplementsParallel, ParallelRegulatedLimit, ParallelLaunchWaits,
   ParallelComplete, PTL

-----------------------------------------------------------------------------
\* A job that has an action to do or to end.
Busy(j) == job[j].pc \in {"begin", "action", "command", "release"}

Single(l) == Len(spec[l].actions) <= 1

\* While a job has an action to do the label of a specification of one action
\* is marked as running, and no other job has it; such a job is at its first
\* action.
Marked ==
    /\ \A j \in Jobs : job[j].pc # "none" => job[j].label \in Labels
    /\ \A j \in Jobs : job[j].pc \notin {"none", "begin", "over"} => job[j].at >= 1
    /\ \A j \in Jobs : Busy(j) /\ Single(job[j].label) => job[j].label \in isBusy
    /\ \A j, k \in Jobs :
          Busy(j) /\ Busy(k) /\ job[j].label = job[k].label /\ Single(job[j].label) => j = k

SInv == SchedulerTypeOK /\ Marked

\* What a job may be.
LEMMA JobFields ==
    ASSUME SchedulerTypeOK, NEW j \in Jobs
    PROVE  /\ job[j] \in JobRecords
           /\ job \in [Jobs -> JobRecords]
           /\ spec \in Specs
           /\ \A l \in Labels : spec[l].actions \in Seq(STRING)
BY SpecsComplete DEF SchedulerTypeOK, Labels

\* A job that becomes another record of its own label keeps the invariant if
\* it does not come back to an action, and the mark of the label stays while
\* it has one.
LEMMA StepKeepsSInv ==
    ASSUME SInv, NEW j \in Jobs, job[j].pc # "none",
           NEW r \in JobRecords,
           Step(j, r),
           r.pc # "none" => r.label = job[j].label,
           r.pc \notin {"none", "begin", "over"} => r.at >= 1,
           Single(job[j].label) /\ r.pc \in {"begin", "action", "command", "release"} =>
               Busy(j) /\ isBusy' = isBusy,
           isBusy' \in {isBusy, isBusy \ {job[j].label}},
           isBusy' # isBusy => Busy(j),
           due' \subseteq due, cloned' \in SUBSET Labels, failing' \in BOOLEAN,
           UNCHANGED <<spec, looping>>
    PROVE  SInv'
<1>1. SchedulerTypeOK'
  BY JobFields DEF SInv, SchedulerTypeOK, Step, Labels, JobRecords
<1>2. /\ job'[j] = r
      /\ \A k \in Jobs \ {j} : job'[k] = job[k]
      /\ Labels' = Labels
  BY JobFields DEF SInv, Step, Labels
<1>3. \A k \in Jobs \ {j} : Busy(k)' <=> Busy(k)
  BY <1>2 DEF Busy
<1>4. Busy(j)' /\ Single(job[j].label) => Busy(j)
  BY <1>2 DEF Busy
<1>5. \A k \in Jobs : job'[k].pc # "none" => job'[k].label = job[k].label /\ job[k].pc # "none"
  BY <1>2
<1>6. \A k \in Jobs : job'[k].pc # "none" => job'[k].label \in Labels'
  BY <1>2, <1>5 DEF SInv, Marked
<1>7. \A k \in Jobs : job'[k].pc \notin {"none", "begin", "over"} => job'[k].at >= 1
  BY <1>2 DEF SInv, Marked
<1>8. \A k, m \in Jobs :
         Busy(k)' /\ Busy(m)' /\ job'[k].label = job'[m].label /\ Single(job'[k].label) => k = m
  <2> SUFFICES ASSUME NEW k \in Jobs, NEW m \in Jobs, Busy(k)', Busy(m)',
                      job'[k].label = job'[m].label, Single(job'[k].label)
               PROVE  k = m
    OBVIOUS
  <2>1. job'[k].label = job[k].label /\ job'[m].label = job[m].label
    BY <1>5 DEF Busy
  <2>2. Single(job[k].label)
    BY <2>1, <1>2
  <2>3. Busy(k) /\ Busy(m)
    BY <2>1, <2>2, <1>3, <1>4 DEF Busy
  <2>4. QED
    BY <2>1, <2>2, <2>3 DEF SInv, Marked
<1>9. \A k \in Jobs : Busy(k)' /\ Single(job'[k].label) => job'[k].label \in isBusy'
  <2> SUFFICES ASSUME NEW k \in Jobs, Busy(k)', Single(job'[k].label)
               PROVE  job'[k].label \in isBusy'
    OBVIOUS
  <2>1. job'[k].label = job[k].label /\ Single(job[k].label)
    BY <1>2, <1>5 DEF Busy
  <2>2. Busy(k) /\ job[k].label \in isBusy
    <3>1. Busy(k)
      BY <2>1, <1>3, <1>4 DEF Busy
    <3>2. QED
      BY <3>1, <2>1 DEF SInv, Marked
  <2>3. CASE k = j
    BY <2>1, <2>2, <2>3, <1>2 DEF Busy
  <2>4. CASE k # j /\ isBusy' # isBusy
    <3>1. Busy(j)
      BY <2>4
    <3>2. job[k].label # job[j].label
      BY <3>1, <2>1, <2>2, <2>4 DEF SInv, Marked
    <3>3. isBusy' = isBusy \ {job[j].label}
      BY <2>4
    <3>4. QED
      BY <3>2, <3>3, <2>1, <2>2
  <2>5. CASE isBusy' = isBusy
    BY <2>1, <2>2, <2>5
  <2>6. QED
    BY <2>3, <2>4, <2>5
<1>10. QED
  BY <1>1, <1>6, <1>7, <1>8, <1>9 DEF SInv, Marked, Single, Busy

\* The next action of a job that has ended one: a specification of one action
\* has no next one.
LEMMA NextActionFields ==
    ASSUME SInv, NEW j \in Jobs, job[j].pc \in {"release", "log"}
    PROVE  /\ NextAction(j) \in JobRecords
           /\ NextAction(j).label = job[j].label
           /\ NextAction(j).pc \in {"action", "over"}
           /\ NextAction(j).pc = "action" => NextAction(j).at >= 1
           /\ Single(job[j].label) => NextAction(j).pc = "over"
<1>1. job[j].at >= 1 /\ job[j].at \in Nat
  BY JobFields DEF SInv, Marked, JobRecords
<1>2. Len(Actions(j)) \in Nat
  <2>1. job[j].label \in Labels
    BY DEF SInv, Marked
  <2>2. Actions(j) \in Seq(STRING)
    BY <2>1, JobFields DEF SInv, Actions
  <2>3. QED
    BY <2>2
<1>3. CASE job[j].at < Len(Actions(j))
  <2>1. NextAction(j) = [job[j] EXCEPT !.pc = "action", !.cmd = "none", !.at = @ + 1]
    BY <1>3 DEF NextAction
  <2>2. job[j].at + 1 \in Nat /\ job[j].at + 1 >= 1
    BY <1>1
  <2>3. ~Single(job[j].label)
    BY <1>1, <1>2, <1>3 DEF Single, Actions
  <2>4. QED
    BY <2>1, <2>2, <2>3, JobFields DEF SInv, JobRecords, JobStates
<1>4. CASE ~(job[j].at < Len(Actions(j)))
  BY <1>4, JobFields DEF SInv, NextAction, JobRecords, JobStates
<1>5. QED
  BY <1>3, <1>4

\* run() starts a job for a label that no job has, if it has one action.
LEMMA RunKeepsSInv ==
    ASSUME SInv, NEW l \in Labels, run(l)
    PROVE  SInv'
<1>0. UNCHANGED <<spec, looping, due, cloned, failing>>
  BY DEF run
<1>1. CASE l \in isBusy
  BY <1>0, <1>1 DEF run, SInv, SchedulerTypeOK, Marked, Labels, Busy, Single, JobRecords
<1>2. CASE l \notin isBusy
  <2>1. PICK j \in Jobs :
          /\ job[j] = NoJob
          /\ isBusy' = isBusy \union {l}
          /\ job' = [job EXCEPT ![j] = [pc |-> "begin", label |-> l, at |-> 0, cmd |-> "none"]]
    BY <1>2 DEF run
  <2> DEFINE r == [pc |-> "begin", label |-> l, at |-> 0, cmd |-> "none"]
  <2>a. job' = [job EXCEPT ![j] = r]
    BY <2>1
  <2>2. /\ job'[j] = r
        /\ r \in JobRecords
        /\ \A k \in Jobs \ {j} : job'[k] = job[k]
        /\ ~Busy(j)
    <3>1. job \in [Jobs -> JobRecords]
      BY DEF SInv, SchedulerTypeOK
    <3>2. r \in JobRecords
      BY DEF JobRecords, JobStates
    <3>3. ~Busy(j)
      BY <2>1 DEF NoJob, Busy
    <3>4. QED
      BY <2>a, <3>1, <3>2, <3>3
  <2>3. SchedulerTypeOK'
    BY <1>0, <2>1, <2>a, <2>2, JobFields DEF SInv, SchedulerTypeOK, Labels, JobRecords
  <2>4. \A k \in Jobs \ {j} : Busy(k) /\ Single(job[k].label) => job[k].label # l
    BY <1>2 DEF SInv, Marked
  <2>5. Marked'
    <3>1. /\ \A k \in Jobs : job'[k].pc # "none" => job'[k].label \in Labels'
          /\ \A k \in Jobs : job'[k].pc \notin {"none", "begin", "over"} => job'[k].at >= 1
      BY <1>0, <2>1, <2>2 DEF SInv, Marked, Labels
    <3>2. \A k \in Jobs : Busy(k)' /\ Single(job'[k].label) => job'[k].label \in isBusy'
      BY <2>1, <2>2 DEF SInv, Marked, Busy
    <3>3. \A k, m \in Jobs :
             Busy(k)' /\ Busy(m)' /\ job'[k].label = job'[m].label /\ Single(job'[k].label)
                => k = m
      BY <2>2, <2>4 DEF SInv, Marked, Busy
    <3>4. QED
      BY <1>0, <3>1, <3>2, <3>3 DEF Marked, Single, Busy
  <2>6. QED
    BY <2>3, <2>5 DEF SInv
<1>3. QED
  BY <1>1, <1>2

\* Every step of the scheduler keeps the invariant.
LEMMA JobKeepsSInv ==
    ASSUME SInv, NEW j \in Jobs, JobStep(j) \/ ExitOnError(j) \/ ContinueOnError(j)
    PROVE  SInv'
<1> USE DEF SInv
<1>1. CASE Begin(j)
  <2> DEFINE r == [job[j] EXCEPT !.pc = IF Actions(j) = << >> THEN "over" ELSE "action",
                                 !.at = 1]
  <2>1. r \in JobRecords
        /\ r.label = job[j].label /\ r.pc \in {"over", "action"} /\ r.at = 1
    BY JobFields DEF JobRecords, JobStates
  <2>2. QED
    <3>1. /\ job[j].pc = "begin" /\ Step(j, r) /\ due' \subseteq due
          /\ UNCHANGED <<spec, looping, isBusy, cloned, failing>>
      BY <1>1 DEF Begin
    <3>2. Busy(j) /\ cloned' \in SUBSET Labels /\ failing' \in BOOLEAN /\ job[j].pc # "none"
      BY <3>1 DEF Busy, SchedulerTypeOK
    <3>3. /\ r.pc # "none" /\ r.label = job[j].label /\ r.at >= 1
          /\ isBusy' = isBusy
      BY <2>1, <3>1
    <3> HIDE DEF r
    <3>4. QED
      BY <2>1, <3>1, <3>2, <3>3, StepKeepsSInv
<1>2. CASE Unsupported(j)
  <2> DEFINE r == [job[j] EXCEPT !.pc = IF spec[job[j].label].exitOnError
                                        THEN "announce" ELSE "log"]
  <2>1. r \in JobRecords
        /\ r.label = job[j].label /\ r.pc \in {"announce", "log"} /\ r.at = job[j].at
    BY JobFields DEF JobRecords, JobStates
  <2>2. QED
    BY <1>2, <2>1, StepKeepsSInv DEF Unsupported, SchedulerTypeOK, Marked
<1>3. CASE StartCommand(j)
  <2>1. PICK c \in {"cmd", "checkout", "clone"} :
          Step(j, [job[j] EXCEPT !.pc = "command", !.cmd = c])
    BY <1>3 DEF StartCommand
  <2> DEFINE r == [job[j] EXCEPT !.pc = "command", !.cmd = c]
  <2>2. r \in JobRecords
        /\ r.label = job[j].label /\ r.pc = "command" /\ r.at = job[j].at
    BY JobFields DEF JobRecords, JobStates
  <2>3. QED
    BY <1>3, <2>1, <2>2, StepKeepsSInv DEF StartCommand, SchedulerTypeOK, Marked, Busy
<1>4. CASE CommandSucceeds(j)
  <2>1. PICK c \in {"none", "checkout", "pull"}, p \in {"command", "release"} :
          Step(j, [job[j] EXCEPT !.pc = p, !.cmd = c])
    <3>1. job[j] = [job[j] EXCEPT !.pc = "command"]
      BY <1>4, JobFields DEF CommandSucceeds, JobRecords
    <3>2. CASE job[j].cmd = "clone"
      <4>1. Step(j, [job[j] EXCEPT !.pc = "command", !.cmd = "checkout"])
        BY <1>4, <3>2, JobFields DEF CommandSucceeds, Step
      <4>2. QED
        BY <4>1
    <3>3. CASE job[j].cmd = "checkout"
      <4>1. Step(j, [job[j] EXCEPT !.pc = "command", !.cmd = "pull"])
        BY <1>4, <3>3, JobFields DEF CommandSucceeds, Step
      <4>2. QED
        BY <4>1
    <3>4. CASE job[j].cmd \notin {"clone", "checkout"}
      <4>1. Step(j, [job[j] EXCEPT !.pc = "release", !.cmd = "none"])
        BY <1>4, <3>4 DEF CommandSucceeds
      <4>2. QED
        BY <4>1
    <3>5. QED
      BY <3>2, <3>3, <3>4
  <2> DEFINE r == [job[j] EXCEPT !.pc = p, !.cmd = c]
  <2>2. r \in JobRecords
        /\ r.label = job[j].label /\ r.pc = p /\ r.at = job[j].at
    BY JobFields DEF JobRecords, JobStates
  <2>3. cloned' \in SUBSET Labels
    BY <1>4 DEF CommandSucceeds, SchedulerTypeOK, Marked
  <2>4. QED
    BY <1>4, <2>1, <2>2, <2>3, StepKeepsSInv
       DEF CommandSucceeds, SchedulerTypeOK, Marked, Busy
<1>5. CASE CommandFails(j)
  <2> DEFINE r == [job[j] EXCEPT !.pc = "release", !.cmd = "failed"]
  <2>1. r \in JobRecords
        /\ r.label = job[j].label /\ r.pc = "release" /\ r.at = job[j].at
    BY JobFields DEF JobRecords, JobStates
  <2>2. cloned' \in SUBSET Labels
    BY <1>5 DEF CommandFails, SchedulerTypeOK, Marked
  <2>3. QED
    BY <1>5, <2>1, <2>2, StepKeepsSInv DEF CommandFails, SchedulerTypeOK, Marked, Busy
<1>6. CASE Release(j)
  <2> DEFINE r == IF job[j].cmd # "failed" THEN NextAction(j)
                  ELSE [job[j] EXCEPT !.pc = IF spec[job[j].label].exitOnError
                                             THEN "announce" ELSE "log"]
  <2>1. /\ r \in JobRecords
        /\ r.label = job[j].label
        /\ r.pc \in {"announce", "log", "over", "action"}
        /\ r.pc # "over" => r.at >= 1
        /\ Single(job[j].label) => r.pc # "action"
    BY <1>6, JobFields, NextActionFields DEF Release, JobStates, Marked, JobRecords
  <2>2. QED
    BY <1>6, <2>1, StepKeepsSInv DEF Release, SchedulerTypeOK, Busy
<1>7. CASE ExitOnError(j)
  <2> DEFINE r == [job[j] EXCEPT !.pc = "log"]
  <2>1. r \in JobRecords
        /\ r.label = job[j].label /\ r.pc = "log" /\ r.at = job[j].at
    BY JobFields DEF JobRecords, JobStates
  <2>2. QED
    BY <1>7, <2>1, StepKeepsSInv DEF ExitOnError, SchedulerTypeOK, Marked
<1>8. CASE ContinueOnError(j)
  <2> DEFINE r == IF spec[job[j].label].continueOnError THEN NextAction(j)
                  ELSE [job[j] EXCEPT !.pc = "over"]
  <2>1. /\ r \in JobRecords
        /\ r.label = job[j].label
        /\ r.pc \in {"over", "action"}
        /\ r.pc # "over" => r.at >= 1
        /\ Single(job[j].label) => r.pc # "action"
    BY <1>8, JobFields, NextActionFields DEF ContinueOnError, JobRecords, JobStates
  <2>2. QED
    BY <1>8, <2>1, StepKeepsSInv DEF ContinueOnError, SchedulerTypeOK
<1>9. CASE JobEnds(j)
  <2>1. NoJob \in JobRecords
    BY DEF NoJob, JobRecords, JobStates
  <2>2. QED
    BY <1>9, <2>1, StepKeepsSInv DEF JobEnds, NoJob, SchedulerTypeOK
<1>10. QED
  BY <1>1, <1>2, <1>3, <1>4, <1>5, <1>6, <1>7, <1>8, <1>9 DEF JobStep

\* So does every step of the command.
LEMMA NextKeepsSInv ==
    ASSUME SInv, [Next]_vars
    PROVE  SInv'
<1>1. CASE UNCHANGED schedulerVars
  BY <1>1 DEF schedulerVars, SInv, SchedulerTypeOK, JobRecords, Marked, Labels, Busy, Single
<1>2. CASE UNCHANGED vars \/ RunStep \/ Terminal \/ Panic \/ ControlC \/ Walk \/ GetCustomConfig
  BY <1>1, <1>2 DEF vars, RunStep, Terminal, Panic, ControlC, Walk, GetCustomConfig
<1>3. CASE schedule \/ LeaveSchedule
  BY <1>3 DEF schedule, LeaveSchedule, StartLoop, LeaveLoop, SInv, SchedulerTypeOK,
              JobRecords, Marked, Labels, Busy, Single
<1>4. CASE AskSecret \/ CannotStart \/ lsns \/ CloseDss \/ ReportLsns \/ LsnsEnds
  BY <1>1, <1>4 DEF AskSecret, CannotStart, lsns, CloseDss, ReportLsns, LsnsEnds, Ends
<1>5. ASSUME NEW n \in Works, WorkStep(n) \/ Request(n) \/ LaunchUnheard(n)
      PROVE  SInv'
  BY <1>1, <1>5 DEF WorkStep, GetMeta, outMeta, ReturnMeta, Answer, Request, LaunchUnheard
<1>6. CASE Turn
  <2>1. PICK l \in Labels : Schedule(l) \/ sSchedPut(l) \/ Elapse(l)
    BY <1>6 DEF Turn
  <2>2. CASE Schedule(l) \/ sSchedPut(l)
    BY <2>2, RunKeepsSInv DEF Schedule, sSchedPut
  <2>3. CASE Elapse(l)
    BY <2>3 DEF Elapse, SInv, SchedulerTypeOK, JobRecords, Marked, Labels, Busy, Single
  <2>4. QED
    BY <2>1, <2>2, <2>3
<1>7. ASSUME NEW j \in Jobs, JobWorks(j) \/ JobFails(j)
      PROVE  SInv'
  BY <1>7, JobKeepsSInv DEF JobWorks, JobFails
<1>8. ASSUME NEW u \in Uows \ Early, AddLate(u) \/ LateWorks(u)
      PROVE  SInv'
  BY <1>1, <1>8 DEF AddLate, LateWorks
<1>9. CASE dssCommand \/ webApiCommand \/ webApiStops \/ CloseServed
  BY <1>1, <1>9 DEF dssCommand, webApiCommand, webApiStops, CloseServed
<1>10. QED
  BY <1>2, <1>3, <1>4, <1>5, <1>6, <1>7, <1>8, <1>9 DEF Next, MainStep

\* A specification of one action is never at work twice (cabrisched.go:193-239):
\* the label stays marked from the start of its job to the end of its action.
THEOREM CommandOneRunAtATime == Spec => []OneRunAtATime
<1>1. ASSUME CLIRun
      PROVE  SInv
  BY <1>1 DEF CLIRun, SchedulerInit, SInv, SchedulerTypeOK, Marked, Busy, NoJob,
              JobRecords, JobStates, Labels
<1>2. SInv /\ [Next]_vars => SInv'
  BY NextKeepsSInv
<1>3. ASSUME SInv
      PROVE  OneRunAtATime
  <2> SUFFICES ASSUME NEW l \in Labels, Single(l)
               PROVE  Cardinality(Commanding(l)) <= 1
    BY DEF OneRunAtATime, Single
  <2>1. \A j, k \in Commanding(l) : j = k
    BY <1>3 DEF Commanding, SInv, Marked, Busy
  <2>2. CASE Commanding(l) = {}
    BY <2>2, FS_EmptySet
  <2>3. CASE Commanding(l) # {}
    <3>1. PICK j : Commanding(l) = {j}
      BY <2>1, <2>3
    <3>2. QED
      BY <3>1, FS_Singleton
  <2>4. QED
    BY <2>2, <2>3
<1>4. QED
  BY <1>1, <1>2, <1>3, PTL DEF Spec

-----------------------------------------------------------------------------
\* What the commands are: those that may leave a DSS open are told.
LEMMA Shapes ==
    ASSUME NEW m, NEW c \in CommandsOf(m)
    PROVE  /\ c.forgets \subseteq {"operation", "exclusions", "open"}
           /\ "operation" \in c.forgets => c.name = "unlock"
           /\ "exclusions" \in c.forgets => c.name = "sync"
           /\ "open" \in c.forgets => c.name = "webapi"
BY DEF CommandsOf, DssCommands, Shape, webApi, lsnsRun, dssMkRun, dssMknsRun, dssGetPutRun,
       dssUnlockRun, dssAuditRun, dssScanRun, dssReindexRun, dssLsHistoRun, dssRmHistoRun,
       dssCleanRun, dssConfigRun, synchronize

\* A command has opened nothing before it starts its work, a listing has closed
\* its DSS when it reports, and a server opens its second DSS once it serves.
Opens ==
    /\ command \in CommandsOf(mode)
    /\ dss \in [1 .. 2 -> {"none", "open", "closed"}]
    /\ cmd \in {"begin", "asking", "loop"} => opened = {}
    /\ mode = "lsns" => dss[2] = "none" /\ (cmd = "report" => opened = {})
    /\ mode = "webapi" /\ server = "off" => dss[2] = "none"

LInv == Opens /\ LeftOpen

\* A failure leaves open what it may.
LEMMA FailsKeepsLInv ==
    ASSUME LInv, NEW at, Fails(at), Opening,
           UNCHANGED <<mode, server>>
    PROVE  LInv'
<1>1. opened' = opened /\ command' = command /\ dss' = dss /\ mode' = mode /\ server' = server
  BY DEF Fails, opened
<1>2. cmd' \in {"over", "closing"} /\ (cmd' = "over" => at \in command.forgets) /\ failure' = at
  BY DEF Fails
<1>3. Opens'
  BY <1>1, <1>2 DEF LInv, Opens, CommandsOf
<1>4. LeftOpen'
  <2>1. CASE cmd' = "over"
    <3>1. command \in CommandsOf(mode) /\ at \in command.forgets
      BY <1>2, <2>1 DEF LInv, Opens
    <3>2. at \in {"operation", "exclusions", "open"}
      BY <3>1, Shapes
    <3>3. /\ at = "operation" => command.name = "unlock"
          /\ at = "exclusions" => command.name = "sync"
          /\ at = "open" => command.name = "webapi"
      BY <3>1, Shapes
    <3>4. QED
      BY <1>1, <1>2, <3>2, <3>3 DEF LeftOpen
  <2>2. CASE cmd' # "over"
    BY <2>2 DEF LeftOpen
  <2>3. QED
    BY <2>1, <2>2
<1>5. QED
  BY <1>3, <1>4 DEF LInv

\* A command on DSSs keeps the invariant.
LEMMA UseDssKeepsLInv ==
    ASSUME LInv, mode = "dss", UseDss, UNCHANGED <<mode, server>>
    PROVE  LInv'
<1> USE DEF LInv, Opens
<1>1. ASSUME NEW i \in 1 .. 2, NewHDss(i) \/ Close(i)
      PROVE  LInv'
  BY <1>1 DEF NewHDss, Close, LeftOpen, opened, CommandsOf
<1>2. CASE str2dssFails \/ uiMapACLFails \/ exclListFails \/ OperationFails
  BY <1>2, FailsKeepsLInv DEF str2dssFails, uiMapACLFails, exclListFails, OperationFails, Ready
<1>3. CASE Operate \/ Reported \/ AllClosed
  BY <1>3 DEF Operate, Reported, AllClosed, LeftOpen, opened, CommandsOf
<1>4. QED
  BY <1>1, <1>2, <1>3 DEF UseDss

\* What a server does.
ServingStep ==
    \/ Mapping \/ Shutdown \/ ShuttingDown
    \/ Reported /\ UNCHANGED server
    \/ \E i \in 1 .. 2 : shutdownCallback(i)

\* It keeps the invariant.
LEMMA ServingKeepsLInv ==
    ASSUME LInv, mode = "webapi", mode' = mode, ServingStep
    PROVE  LInv'
<1> USE DEF LInv, Opens
<1>1. ASSUME NEW i \in 1 .. 2, openMapped(i)
      PROVE  LInv'
  <2>1. NewHDss(i) /\ server' = server /\ (i = 2 => server = "serving")
    BY <1>1 DEF openMapped
  <2>2. QED
    BY <2>1 DEF NewHDss, LeftOpen, opened, CommandsOf
<1>2. CASE mappingFails
  BY <1>2, FailsKeepsLInv DEF mappingFails
<1>3. CASE Serve
  BY <1>3 DEF Serve, dssVars, LeftOpen, opened, CommandsOf
<1>4. CASE ServeFails
  <2>1. dss' = [dss EXCEPT ![1] = "closed"] /\ dss[2] = "none" /\ cmd' = "over"
        /\ UNCHANGED <<command, server>>
    BY <1>4 DEF ServeFails
  <2>2. opened' = {}
    BY <2>1 DEF opened
  <2>3. QED
    BY <2>1, <2>2 DEF LeftOpen, CommandsOf
<1>5. CASE ConfigureApi
  <2>1. UNCHANGED <<command, dss, failure>> /\ server' # "off" /\ cmd' \in {cmd, "serve"}
    BY <1>5 DEF ConfigureApi
  <2>2. opened' = opened
    BY <2>1 DEF opened
  <2>3. QED
    BY <2>1, <2>2 DEF LeftOpen, CommandsOf
<1>6. CASE Shutdown
  BY <1>6 DEF Shutdown, LeftOpen, opened, CommandsOf
<1>7. CASE Reported /\ UNCHANGED server
  BY <1>7 DEF Reported, LeftOpen, opened, CommandsOf
<1>8. CASE ShuttingDown
  BY <1>8 DEF ShuttingDown, LeftOpen, opened, CommandsOf
<1>9. ASSUME NEW i \in 1 .. 2, shutdownCallback(i)
      PROVE  LInv'
  BY <1>9 DEF shutdownCallback, LeftOpen, opened, CommandsOf
<1>10. QED
  BY <1>1, <1>2, <1>3, <1>4, <1>5, <1>6, <1>7, <1>8, <1>9 DEF Mapping, ServingStep

\* So does every step.
LEMMA NextKeepsLInv ==
    ASSUME LInv, [Next]_vars
    PROVE  LInv'
<1>1. CASE UNCHANGED <<servedVars, mode>>
  BY <1>1 DEF LInv, Opens, LeftOpen, opened, servedVars, dssVars, CommandsOf
<1>2. CASE UNCHANGED vars \/ RunStep \/ Terminal \/ Panic \/ ControlC \/ Walk \/ GetCustomConfig
           \/ Turn
  BY <1>1, <1>2 DEF vars, RunStep, Terminal, Panic, ControlC, Walk, GetCustomConfig, Turn
<1>3. ASSUME NEW n \in Works, WorkStep(n) \/ Request(n) \/ LaunchUnheard(n)
      PROVE  LInv'
  BY <1>1, <1>3 DEF WorkStep, GetMeta, outMeta, ReturnMeta, Answer, Request, LaunchUnheard
<1>4. ASSUME NEW j \in Jobs, JobWorks(j) \/ JobFails(j)
      PROVE  LInv'
  BY <1>1, <1>4 DEF JobWorks, JobFails
<1>5. ASSUME NEW u \in Uows \ Early, AddLate(u) \/ LateWorks(u)
      PROVE  LInv'
  BY <1>1, <1>5 DEF AddLate, LateWorks
<1>6. CASE AskSecret \/ CannotStart \/ CloseDss \/ LsnsEnds \/ schedule \/ LeaveSchedule
  <2>1. \E place \in {"asking", "closing", "loop", "over"} :
          /\ At(place) /\ mode' = mode
          /\ place \in {"asking", "loop", "over"} => opened = {}
    BY <1>6 DEF AskSecret, CannotStart, CloseDss, LsnsEnds, schedule, LeaveSchedule, Ends,
                LInv, Opens
  <2>2. QED
    BY <2>1 DEF At, LInv, Opens, LeftOpen, opened, CommandsOf
<1>7. CASE lsns
  BY <1>7 DEF lsns, LInv, Opens, LeftOpen, opened, CommandsOf
<1>8. CASE ReportLsns
  BY <1>8 DEF ReportLsns, LInv, Opens, LeftOpen, opened, CommandsOf
<1>9. CASE dssCommand
  BY <1>9, UseDssKeepsLInv DEF dssCommand
<1>10. CASE webApiCommand \/ webApiStops
  <2>1. mode = "webapi" /\ mode' = mode
    BY <1>10 DEF webApiCommand, webApiStops
  <2>2. ServingStep
    BY <1>10 DEF webApiCommand, webApiStops, ServingStep
  <2>3. QED
    BY <2>1, <2>2, ServingKeepsLInv
<1>11. CASE CloseServed
  <2>1. mode = "webapi" /\ mode' = mode /\ (UNCHANGED servedVars \/ ServingStep)
    BY <1>11 DEF CloseServed, ServingStep
  <2>2. QED
    BY <1>1, <2>1, ServingKeepsLInv
<1>12. QED
  BY <1>2, <1>3, <1>4, <1>5, <1>6, <1>7, <1>8, <1>9, <1>10, <1>11 DEF Next, MainStep

\* Whatever fails and whenever, a command leaves no DSS open but in the three
\* cases of LeftOpen (dss.go:324-331, sync.go:269-272, web.go:197-199).
THEOREM CommandLeftOpen == Spec => []LeftOpen
<1>1. ASSUME CLIRun
      PROVE  LInv
  <2>1. /\ command \in CommandsOf(mode) /\ cmd = "begin"
        /\ dss = [i \in 1 .. 2 |-> "none"]
    BY <1>1 DEF CLIRun, DssInit
  <2>2. opened = {}
    BY <2>1 DEF opened
  <2>3. QED
    BY <2>1, <2>2 DEF LInv, Opens, LeftOpen
<1>2. LInv /\ [Next]_vars => LInv'
  BY NextKeepsLInv
<1>3. LInv => LeftOpen
  BY DEF LInv
<1>4. QED
  BY <1>1, <1>2, <1>3, PTL DEF Spec

-----------------------------------------------------------------------------
\* What a step does to the runner and the terminal.
JouleStep ==
    \/ Run \/ controlUI \/ SendOnClosed \/ Dies \/ Interrupt
    \/ \E g \in Printers : UiOut(g) \/ UiSecret(g)
    \/ \E u \in Uows : WorkDone(u) \/ CheckStopping(u) \/ AddUow(u)

\* Main is a unit of work, and prints.
LEMMA MainIs == Main \in Uows /\ Main \in Early /\ Main \in Printers
BY MainIsUow, WhoPrints

\* A step of the unit of work of the command ends it, prints, or moves on.
LEMMA MainStepIs ==
    ASSUME MainStep
    PROVE  /\ UNCHANGED <<cancelled, mode, reading, ran, refused, job>>
           /\ pc' = pc \/ (StartRoot /\ lsns)
           /\ cmd = "loop" => cancelled
           /\ \/ UNCHANGED jouleVars /\ MainWorks /\ cmd' # "over"
              \/ WorkDone(Main) /\ cmd' = "over" /\ (cmd = "loop" \/ MainWorks)
              \/ (UiOut(Main) \/ UiSecret(Main)) /\ MainWorks /\ cmd' \notin {"over", "loop"}
<1>1. CASE AskSecret
  BY <1>1 DEF AskSecret, At, lsnsVars, parallelVars, schedulerVars
<1>2. CASE CannotStart \/ LsnsEnds
  BY <1>2 DEF CannotStart, LsnsEnds, Ends, At, lsnsVars, parallelVars, schedulerVars
<1>3. CASE lsns
  BY <1>3 DEF lsns, lsnsVars, schedulerVars
<1>4. CASE CloseDss
  BY <1>4 DEF CloseDss, At, Gate!StartClosing, parallelVars, schedulerVars
<1>5. CASE ReportLsns
  BY <1>5 DEF ReportLsns, Gate!Shut, parallelVars, schedulerVars
<1>6. CASE schedule
  BY <1>6 DEF schedule, At, lsnsVars, StartLoop, parallelVars
<1>7. CASE LeaveSchedule
  BY <1>7 DEF LeaveSchedule, At, lsnsVars, LeaveLoop, parallelVars
<1>8. CASE dssCommand
  BY <1>8 DEF dssCommand, Tells, lsnsVars, UseDss, NewHDss, Close, str2dssFails, uiMapACLFails,
              exclListFails, Operate, OperationFails, Reported, AllClosed, Fails,
              Opening, Ready, parallelVars, schedulerVars
<1>9. CASE webApiCommand
  BY <1>9 DEF webApiCommand, Tells, lsnsVars, Mapping, Shutdown, Reported, openMapped, NewHDss,
              mappingFails, Serve, ServeFails, ConfigureApi, Fails, Opening, dssVars,
              parallelVars, schedulerVars
<1>10. CASE webApiStops
  BY <1>10 DEF webApiStops, ShuttingDown, lsnsVars, parallelVars, schedulerVars
<1>11. CASE CloseServed
  BY <1>11 DEF CloseServed, shutdownCallback, Gate!StartClosing, Gate!Shut, servedVars, dssVars,
               gateVars, parallelVars, schedulerVars
<1>12. QED
  BY <1>1, <1>2, <1>3, <1>4, <1>5, <1>6, <1>7, <1>8, <1>9, <1>10, <1>11 DEF MainStep

\* A step of the command is one of the runner or the terminal, or leaves
\* them alone.
LEMMA StepOfJoule ==
    ASSUME [Next]_vars
    PROVE  JouleStep \/ UNCHANGED jouleVars
<1> USE MainIs, WhoPrints DEF JouleStep
<1>1. CASE UNCHANGED vars \/ RunStep \/ Terminal \/ Panic \/ ControlC \/ Walk \/ Turn
           \/ GetCustomConfig
  BY <1>1 DEF vars, RunStep, Terminal, Panic, ControlC, Walk, Turn, GetCustomConfig
<1>2. CASE MainStep
  BY <1>2, MainStepIs
<1>3. ASSUME NEW n \in Works, WorkStep(n) \/ Request(n) \/ LaunchUnheard(n)
      PROVE  JouleStep \/ UNCHANGED jouleVars
  BY <1>3 DEF WorkStep, GetMeta, outMeta, ReturnMeta, Answer, Request, LaunchUnheard
<1>4. ASSUME NEW j \in Jobs, JobWorks(j) \/ JobFails(j)
      PROVE  JouleStep \/ UNCHANGED jouleVars
  BY <1>4 DEF JobWorks, JobFails, Says
<1>5. ASSUME NEW u \in Uows \ Early, AddLate(u) \/ LateWorks(u)
      PROVE  JouleStep \/ UNCHANGED jouleVars
  BY <1>5 DEF AddLate, LateWorks
<1>6. QED
  BY <1>1, <1>2, <1>3, <1>4, <1>5 DEF Next

\* Steps of the runner and the terminal keep their types.
LEMMA JouleKeepsTypes ==
    ASSUME JouleTypeOK, JouleStep \/ UNCHANGED jouleVars
    PROVE  JouleTypeOK'
<1> USE DEF JouleTypeOK
<1>1. CASE UNCHANGED jouleVars
  BY <1>1 DEF jouleVars
<1>2. CASE Run
  BY <1>2, ZenonT(60) DEF Run, Startup, StartWorkers, MarkRunning, WaitWorkers, MarkStopping, StopUi,
              Finalize, Exit
<1>3. CASE controlUI
  BY <1>3 DEF controlUI, Printed, handleSecretPrompt, SecretTyped
<1>4. CASE SendOnClosed \/ Dies
  BY <1>4 DEF SendOnClosed, Dies
<1>5. CASE Interrupt
  BY <1>5 DEF Interrupt
<1>6. ASSUME NEW g \in Printers, UiOut(g) \/ UiSecret(g)
      PROVE  JouleTypeOK'
  BY <1>6 DEF UiOut, UiSecret
<1>7. ASSUME NEW u \in Uows, WorkDone(u) \/ CheckStopping(u) \/ AddUow(u)
      PROVE  JouleTypeOK'
  BY <1>7 DEF WorkDone, CheckStopping, AddUow
<1>8. QED
  BY <1>1, <1>2, <1>3, <1>4, <1>5, <1>6, <1>7 DEF JouleStep

-----------------------------------------------------------------------------
\* The runner waits for the unit of work of the command, which has begun
\* nothing before it is started and is over when it is done.
Runs ==
    /\ uow[Main] \in {"none", "added", "working", "done"}
    /\ runner = "starting" => uow[Main] = "none"
    /\ runner \in {"waited", "stopping", "shutdown", "returned"} => uow[Main] \in {"none", "done"}
    /\ closed => runner = "returned"
    /\ uow[Main] \in {"none", "added"} => cmd = "begin"
    /\ uow[Main] = "done" => cmd = "over"
    /\ mode # "late" => \A u \in Uows \ Early : uow[u] = "none"

\* Who may be blocked on a channel to the terminal: the unit of work while it
\* works, a reading that runs, and a job while the scheduler loops.
Speaks ==
    /\ mode # "late" => sending \intersect Uows \subseteq {Main}
    /\ asking \subseteq {Main}
    /\ Main \in sending \union asking => uow[Main] = "working" /\ cmd # "loop"
    /\ \A n \in Works \intersect sending : pc[n] = "running"
    /\ ~cancelled /\ cmd # "loop" => \A j \in Jobs : job[j].pc = "none" /\ j \notin sending

AllIdle == \A n \in Nodes : pc[n] = "idle"

\* Only a listing walks, and its DSS begins to close when the walk is over;
\* the reducer has run what was read, and unless aborted it refuses nobody.
Walks ==
    /\ cmd = "walk" => mode = "lsns"
    /\ cmd = "loop" => mode = "schedule"
    /\ mode # "lsns" \/ cmd \in {"begin", "asking"} => AllIdle
    /\ mode = "lsns" /\ (cmd \in {"closing", "report"} \/ phase # "open") => pc[Root] = "done"
    /\ cmd = "over" => AllIdle \/ pc[Root] = "done"
    /\ mode = "webapi" /\ cmd \in {"closing", "report"} => cancelled
    /\ mode # "lsns" /\ phase # "open" => cancelled
    /\ \A n \in Works : reading[n] = "print" => n \in ran \union refused
    /\ ~cancelled => \A n \in Works : pc[n] \in {"sending", "done"} => n \in ran
    /\ ~cancelled => refused = {}
\* A step of the parallelizer alone: what is done stays so, a work goes on
\* until it returns by itself or is skipped by an abort, and nobody starts
\* before the root.
LEMMA AdvanceIs ==
    ASSUME IInv, Advance
    PROVE  /\ \A n \in Nodes : pc[n] = "done" => pc'[n] = "done"
           /\ \A n \in Works : pc[n] = "running" => pc'[n] = "running"
           /\ \A n \in Works : pc'[n] \in {"sending", "done"} /\ ~cancelled
                                 => pc[n] \in {"sending", "done"}
           /\ AllIdle => AllIdle'
<1> USE DEF IInv, ParallelTypeOK, AllIdle
<1>1. ASSUME NEW n \in Nodes, Enter(n)
      PROVE  /\ pc[n] = "started"
             /\ \A m \in Nodes : pc'[m] # pc[m] =>
                   \/ m = n /\ pc'[m] = "running"
                   \/ pc[m] = "idle" /\ pc'[m] = "started"
  <2>1. \A m \in Children[n] : m \in Nodes /\ pc[m] = "idle"
    BY <1>1, ChildrenAreNodes DEF Enter, Unstarted
  <2>2. QED
    BY <1>1, <2>1 DEF Enter
<1>2. ASSUME NEW n \in Nodes, Skip(n) \/ GiveUp(n)
      PROVE  /\ pc[n] \in {"started", "sending"} /\ cancelled
             /\ \A m \in Nodes : pc'[m] # pc[m] => m = n /\ pc'[m] \in {"sending", "done"}
  BY <1>2 DEF Skip, GiveUp, Leaving
<1>3. ASSUME NEW p \in Launchers \union Collectors, Return(p)
      PROVE  /\ pc[p] = "running" /\ p \in Nodes /\ p \notin Works
             /\ \A m \in Nodes : m # p => pc'[m] = pc[m]
  BY <1>3, BodiesDiffer DEF Return, Works
<1>4. ASSUME NEW p \in Nodes, NEW n \in Children[p], NextInput(p, n)
      PROVE  /\ pc[n] = "idle" /\ pc[p] = "running" /\ n \in Nodes
             /\ \A m \in Nodes : pc'[m] = IF m = n THEN "started" ELSE pc[m]
  BY <1>4, ChildrenAreNodes DEF NextInput
<1>5. ASSUME NEW p \in Nodes, NEW n \in Children[p], SendOutput(p, n)
      PROVE  /\ pc[n] = "sending" /\ n \in Nodes
             /\ \A m \in Nodes : pc'[m] = IF m = n THEN "done" ELSE pc[m]
  BY <1>5, ChildrenAreNodes DEF SendOutput
<1>6. ASSUME NEW p \in Collectors, Forward(p) \/ Drop(p) \/ EndStream(p)
      PROVE  pc' = pc
  BY <1>6 DEF Forward, Drop, EndStream
<1>7. Works \subseteq Nodes
  BY DEF Works
<1>8. CASE \E n \in Nodes : Enter(n)
  BY <1>1, <1>7, <1>8
<1>9. CASE \E n \in Nodes : Skip(n) \/ GiveUp(n)
  BY <1>2, <1>7, <1>9
<1>10. CASE \E p \in Launchers \union Collectors : Return(p)
  BY <1>3, <1>7, <1>10
<1>11. CASE \E p \in Nodes : \E n \in Children[p] : NextInput(p, n) \/ SendOutput(p, n)
  <2>0. PICK p \in Nodes : \E n \in Children[p] : NextInput(p, n) \/ SendOutput(p, n)
    BY <1>11
  <2>1. PICK n \in Children[p] : NextInput(p, n) \/ SendOutput(p, n)
    BY <2>0
  <2>2. CASE NextInput(p, n)
    BY <1>4, <1>7, <2>2
  <2>3. CASE SendOutput(p, n)
    BY <1>5, <1>7, <2>3
  <2>4. QED
    BY <2>1, <2>2, <2>3
<1>12. CASE \E p \in Collectors : Forward(p) \/ Drop(p) \/ EndStream(p)
  BY <1>6, <1>7, <1>12
<1>13. QED
  BY <1>8, <1>9, <1>10, <1>11, <1>12 DEF Advance

\* Unless aborted a walk that is over has ended all it started.
LEMMA WalkOver ==
    ASSUME IInv, Complete, pc[Root] = "done", ~cancelled
    PROVE  \A n \in Nodes : pc[n] = "done"
<1> DEFINE S == {n \in Nodes : pc[n] = "done"}
<1>1. Root \in S
  BY RootIsNode
<1>2. ASSUME NEW n \in S, NEW m \in Children[n]
      PROVE  m \in S
  <2>1. n \in Nodes /\ m \in Nodes /\ n \in Launchers \union Collectors
    BY <1>2, ChildrenAreNodes, WorksAreLeaves
  <2>2. CASE n \in Launchers
    BY <2>1, <2>2 DEF IInv, LaunchWaits
  <2>3. CASE n \in Collectors
    BY <2>1, <2>3 DEF Complete
  <2>4. QED
    BY <2>1, <2>2, <2>3
<1>3. S = Nodes
  BY <1>1, <1>2, EveryNodeReached
<1>4. QED
  BY <1>3

-----------------------------------------------------------------------------
\* Where the readings and the gate may be.
GateTypeOK ==
    /\ reading \in [Works -> {"idle", "io", "print", "left"}]
    /\ inside \union ran \union refused \subseteq Works
    /\ phase \in {"open", "closing", "shut"}

\* A work passes the gate, or the gate is being closed, or nothing happens.
GateStep ==
    \/ \E n \in Works : Gate!Enter(n) \/ Gate!Leave(n) \/ Gate!Refuse(n)
    \/ Gate!StartClosing \/ Gate!Shut
    \/ UNCHANGED gateVars

LEMMA StepOfGate ==
    ASSUME GateTypeOK, [Next]_vars
    PROVE  GateStep /\ GateTypeOK'
<1>1. GateStep /\ reading' \in [Works -> {"idle", "io", "print", "left"}]
  <2> USE DEF GateTypeOK
  <2>1. CASE UNCHANGED lsnsVars
    BY <2>1 DEF lsnsVars, GateStep, gateVars
  <2>2. CASE UNCHANGED vars \/ RunStep \/ Terminal \/ Panic \/ ControlC \/ Walk \/ Turn
             \/ GetCustomConfig
    BY <2>1, <2>2 DEF vars, RunStep, Terminal, Panic, ControlC, Walk, Turn, GetCustomConfig
  <2>3. ASSUME NEW n \in Works, WorkStep(n) \/ Request(n) \/ LaunchUnheard(n)
        PROVE  GateStep /\ reading' \in [Works -> {"idle", "io", "print", "left"}]
    BY <2>1, <2>3 DEF WorkStep, GetMeta, outMeta, ReturnMeta, Answer, Request, LaunchUnheard,
                      GateStep
  <2>4. ASSUME NEW j \in Jobs, JobWorks(j) \/ JobFails(j)
        PROVE  UNCHANGED lsnsVars
    BY <2>4 DEF JobWorks, JobFails
  <2>5. ASSUME NEW u \in Uows \ Early, AddLate(u) \/ LateWorks(u)
        PROVE  UNCHANGED lsnsVars
    BY <2>5 DEF AddLate, LateWorks
  <2>6. CASE MainStep
    <3>1. CASE AskSecret \/ CannotStart \/ lsns \/ LsnsEnds \/ schedule \/ LeaveSchedule
               \/ dssCommand \/ webApiCommand \/ webApiStops
      BY <2>1, <3>1 DEF AskSecret, CannotStart, lsns, LsnsEnds, schedule, LeaveSchedule,
                        dssCommand, webApiCommand, webApiStops, Ends
    <3>2. CASE CloseDss \/ ReportLsns \/ CloseServed
      BY <3>2 DEF CloseDss, ReportLsns, CloseServed, GateStep
    <3>3. QED
      BY <2>6, <3>1, <3>2 DEF MainStep
  <2>7. QED
    BY <2>1, <2>2, <2>3, <2>4, <2>5, <2>6 DEF Next
<1>2. QED
  BY <1>1 DEF GateStep, GateTypeOK, gateVars, Gate!Enter, Gate!Leave, Gate!Refuse,
              Gate!StartClosing, Gate!Shut
-----------------------------------------------------------------------------
\* The runner waits for the unit of work, at every step.
LEMMA NextKeepsRuns ==
    ASSUME Runs, JouleTypeOK, [Next]_vars
    PROVE  Runs'
<1> USE MainIs DEF Runs, JouleTypeOK
<1>1. CASE UNCHANGED <<runner, closed, uow, cmd, mode>>
  BY <1>1
<1>2. CASE UNCHANGED vars \/ Terminal \/ Panic \/ ControlC \/ Walk \/ Turn \/ GetCustomConfig
  BY <1>1, <1>2 DEF vars, jouleVars, servedVars, dssVars, Terminal, Panic, ControlC, Walk, Turn,
              GetCustomConfig, controlUI, Printed, handleSecretPrompt, SecretTyped, SendOnClosed,
              Dies, Interrupt
<1>3. CASE RunStep
  <2>1. Run /\ UNCHANGED <<cmd, mode>>
    BY <1>3 DEF RunStep, servedVars, dssVars
  <2>2. CASE WaitWorkers
    <3> DEFINE S == {u \in Uows : uow[u] \in {"added", "working"}}
    <3>1. Cardinality(S) = 0 /\ IsFiniteSet(S)
      BY <2>2, UowsFinite, FS_Subset DEF WaitWorkers, workersWg
    <3>2. S = {}
      BY <3>1, FS_EmptySet
    <3>3. uow[Main] \in {"none", "done"}
      BY <3>2
    <3>4. QED
      BY <2>1, <2>2, <3>3 DEF WaitWorkers
  <2>3. CASE \E fails \in BOOLEAN : Startup(fails)
    <3>1. ASSUME NEW fails \in BOOLEAN, Startup(fails)
          PROVE  Runs'
      <4>1. CASE fails
        BY <2>1, <3>1, <4>1 DEF Startup
      <4>2. CASE ~fails
        BY <2>1, <3>1, <4>2 DEF Startup
      <4>3. QED
        BY <4>1, <4>2
    <3>2. QED
      BY <2>3, <3>1
  <2>4. CASE StartWorkers
    BY <2>1, <2>4 DEF StartWorkers
  <2>5. CASE MarkRunning \/ MarkStopping \/ StopUi \/ Finalize \/ Exit
    BY <2>1, <2>5 DEF MarkRunning, MarkStopping, StopUi, Finalize, Exit
  <2>6. QED
    BY <2>1, <2>2, <2>3, <2>4, <2>5 DEF Run
<1>4. CASE MainStep
  BY <1>4, MainStepIs DEF jouleVars, WorkDone, MainWorks, UiOut, UiSecret
<1>5. ASSUME NEW n \in Works, WorkStep(n) \/ Request(n) \/ LaunchUnheard(n)
      PROVE  Runs'
  BY <1>1, <1>5 DEF WorkStep, GetMeta, outMeta, ReturnMeta, Answer, Request, LaunchUnheard,
                    jouleVars, UiOut,
              servedVars, dssVars
<1>6. ASSUME NEW j \in Jobs, JobWorks(j) \/ JobFails(j)
      PROVE  Runs'
  BY <1>1, <1>6 DEF JobWorks, JobFails, Says, jouleVars, UiOut, servedVars, dssVars
<1>7. ASSUME NEW u \in Uows \ Early, AddLate(u) \/ LateWorks(u)
      PROVE  Runs'
  BY <1>7 DEF AddLate, LateWorks, CheckStopping, AddUow, UiOut, WorkDone, servedVars, dssVars
<1>8. QED
  BY <1>2, <1>3, <1>4, <1>5, <1>6, <1>7 DEF Next
\* Nobody waits to be heard but those who may.
LEMMA NextKeepsSpeaks ==
    ASSUME Speaks, Runs, Walks, IInv, JouleTypeOK, SInv, [Next]_vars
    PROVE  Speaks'
<1> USE MainIs, PrintersDiffer DEF Speaks
<1>1. CASE /\ sending' \subseteq sending /\ asking' \subseteq asking
           /\ cancelled => cancelled'
           /\ UNCHANGED <<uow, cmd, mode, pc, job>>
  BY <1>1
<1>2. CASE UNCHANGED vars \/ Terminal \/ Panic \/ ControlC \/ GetCustomConfig
  <2>1. CASE UNCHANGED vars
    BY <1>1, <2>1 DEF vars, jouleVars, servedVars, dssVars, parallelVars, schedulerVars
  <2>2. CASE Terminal
    <3>1. sending' \subseteq sending /\ asking' \subseteq asking /\ UNCHANGED uow
      BY <2>2 DEF Terminal, controlUI, Printed, handleSecretPrompt, SecretTyped
    <3>2. QED
      BY <1>1, <2>2, <3>1 DEF Terminal, servedVars, dssVars, parallelVars, schedulerVars
  <2>3. CASE Panic \/ GetCustomConfig
    BY <1>1, <2>3 DEF Panic, GetCustomConfig, SendOnClosed, Dies, servedVars, dssVars,
                      parallelVars, schedulerVars
  <2>4. CASE ControlC
    BY <1>1, <2>4 DEF ControlC, Interrupt, Cancel, servedVars, dssVars, parallelVars,
                      schedulerVars
  <2>5. QED
    BY <1>2, <2>1, <2>2, <2>3, <2>4
<1>3. CASE RunStep
  <2>1. UNCHANGED <<sending, asking, cmd, mode, pc, job, cancelled>>
    BY <1>3 DEF RunStep, Run, Startup, StartWorkers, MarkRunning, WaitWorkers, MarkStopping,
                StopUi, Finalize, Exit, servedVars, dssVars, parallelVars, schedulerVars
  <2>2. uow[Main] = "working" => uow'[Main] = "working"
    BY <1>3 DEF RunStep, Run, Startup, StartWorkers, MarkRunning, WaitWorkers, MarkStopping,
                StopUi, Finalize, Exit, Runs
  <2>3. QED
    BY <2>1, <2>2
<1>4. CASE Turn
  BY <1>4 DEF Turn, jouleVars, servedVars, dssVars, parallelVars, Schedule, sSchedPut, Elapse, run
<1>5. CASE Walk
  <2>1. UNCHANGED <<sending, asking, uow, cmd, mode, job, cancelled>> /\ Advance
    BY <1>5 DEF Walk, jouleVars, servedVars, dssVars, schedulerVars
  <2>2. QED
    BY <2>1, AdvanceIs
<1>6. ASSUME NEW n \in Works, WorkStep(n) \/ Request(n) \/ LaunchUnheard(n)
      PROVE  Speaks'
  <2>1. n \in Nodes /\ n # Main /\ n \notin Uows \union Jobs
    BY DEF Works
  <2>2. UNCHANGED <<asking, uow, cmd, mode, job, cancelled>>
    BY <1>6 DEF WorkStep, GetMeta, outMeta, ReturnMeta, Answer, Request, LaunchUnheard,
                UiOut, jouleVars, servedVars, dssVars, schedulerVars
  <2>3. CASE outMeta(n)
    BY <2>1, <2>2, <2>3 DEF outMeta, UiOut, parallelVars
  <2>4. CASE ReturnMeta(n)
    <3>1. sending' = sending /\ n \notin sending /\ \A m \in Nodes : m # n => pc'[m] = pc[m]
      BY <2>4 DEF ReturnMeta, Return, jouleVars, IInv, ParallelTypeOK
    <3>2. \A m \in Works : m \in Nodes
      BY DEF Works
    <3>3. QED
      BY <2>1, <2>2, <3>1, <3>2
  <2>5. CASE GetMeta(n) \/ Answer(n) \/ Request(n) \/ LaunchUnheard(n)
    BY <2>1, <2>2, <2>5 DEF GetMeta, Answer, Request, LaunchUnheard, jouleVars, parallelVars
  <2>6. QED
    BY <1>6, <2>3, <2>4, <2>5 DEF WorkStep
<1>7. ASSUME NEW j \in Jobs, JobWorks(j) \/ JobFails(j)
      PROVE  Speaks'
  <2>1. UNCHANGED <<asking, uow, cmd, mode, pc>> /\ sending' \subseteq sending \union {j}
    BY <1>7 DEF JobWorks, JobFails, Says, UiOut, jouleVars, servedVars, dssVars, parallelVars
  <2>2. job[j].pc # "none" /\ (cancelled => cancelled')
    BY <1>7 DEF JobWorks, JobFails, JobStep, Begin, Unsupported, StartCommand, CommandSucceeds,
                CommandFails, Release, JobEnds, ExitOnError, ContinueOnError, Cancel
  <2>3. j # Main /\ j \notin Uows \union Works
    OBVIOUS
  <2>4. cancelled' \/ cmd' = "loop"
    BY <2>1, <2>2
  <2>5. QED
    BY <2>1, <2>3, <2>4
<1>8. ASSUME NEW u \in Uows \ Early, AddLate(u) \/ LateWorks(u)
      PROVE  Speaks'
  <2>1. /\ UNCHANGED <<asking, cmd, mode, pc, job, cancelled>>
        /\ sending' \subseteq sending \union {u}
        /\ mode = "late" \/ uow[u] = "working"
    <3>1. UNCHANGED <<cmd, mode, pc, job, cancelled>>
      BY <1>8 DEF AddLate, LateWorks, servedVars, dssVars, parallelVars, schedulerVars
    <3>2. CASE CheckStopping(u) \/ AddUow(u)
      BY <3>1, <3>2, <1>8 DEF CheckStopping, AddUow, AddLate, LateWorks
    <3>3. CASE UiOut(u) \/ WorkDone(u)
      BY <3>1, <3>3, <1>8 DEF UiOut, WorkDone, AddLate, LateWorks
    <3>4. QED
      BY <1>8, <3>2, <3>3 DEF AddLate, LateWorks
  <2>0. u # Main /\ u \notin Works \union Jobs
    OBVIOUS
  <2>2. uow'[Main] = uow[Main]
    BY <1>8, <2>0 DEF AddLate, LateWorks, CheckStopping, AddUow, UiOut, WorkDone, JouleTypeOK
  <2>3. mode = "late"
    BY <2>1 DEF Runs
  <2>4. QED
    BY <2>0, <2>1, <2>2, <2>3
<1>9. CASE MainStep
  <2>1. Main \notin sending \union asking
    BY <1>9, MainStepIs DEF MainWorks
  <2>2. /\ UNCHANGED <<cancelled, mode, job>>
        /\ cmd = "loop" => cancelled
    BY <1>9, MainStepIs
  <2>3. \A n \in Works : pc[n] = "running" => pc'[n] = "running"
    BY <1>9, MainStepIs DEF StartRoot, IInv, ParallelTypeOK, Works
  <2>4. CASE UNCHANGED jouleVars
    BY <2>1, <2>2, <2>3, <2>4 DEF jouleVars
  <2>5. CASE WorkDone(Main)
    BY <2>1, <2>2, <2>3, <2>5 DEF WorkDone
  <2>6. CASE (UiOut(Main) \/ UiSecret(Main)) /\ MainWorks /\ cmd' # "loop"
    <3>1. /\ sending' \subseteq sending \union {Main} /\ asking' \subseteq asking \union {Main}
          /\ uow' = uow /\ uow[Main] = "working"
      BY <2>6 DEF UiOut, UiSecret, MainWorks
    <3>2. Main \notin Works \union Jobs
      OBVIOUS
    <3>3. QED
      BY <2>1, <2>2, <2>3, <2>6, <3>1, <3>2
  <2>7. QED
    BY <1>9, <2>4, <2>5, <2>6, MainStepIs
<1>10. QED
  BY <1>2, <1>3, <1>4, <1>5, <1>6, <1>7, <1>8, <1>9 DEF Next
\* What a step of the unit of work does to a walk and to the gate.
LEMMA MainKeepsWalks ==
    ASSUME Walks, LInv, IInv, Complete, GateTypeOK, MainStep
    PROVE  Walks'
<1> USE RootIsNode DEF Walks, AllIdle
<1>1. CASE AskSecret \/ CannotStart \/ LsnsEnds \/ schedule \/ LeaveSchedule
  <2>1. UNCHANGED <<cancelled, mode, pc, reading, ran, refused, phase>>
    BY <1>1 DEF AskSecret, CannotStart, LsnsEnds, schedule, LeaveSchedule, Ends, lsnsVars,
                parallelVars
  <2>2. \/ cmd \in {"begin", "asking"} /\ cmd' \in {"asking", "over"}
        \/ cmd = "report" /\ cmd' = "over" /\ mode = "lsns"
        \/ mode = "schedule" /\ cmd' \in {"loop", "over"}
    BY <1>1 DEF AskSecret, CannotStart, LsnsEnds, schedule, LeaveSchedule, Ends, At
  <2>3. QED
    BY <2>1, <2>2
<1>2. CASE lsns
  <2>1. /\ UNCHANGED <<cancelled, mode, reading, ran, refused, phase>>
        /\ cmd' = "walk" /\ mode = "lsns" /\ AllIdle /\ StartRoot
    BY <1>2 DEF lsns, lsnsVars
  <2>2. \A n \in Nodes : pc'[n] \in {"idle", "started"}
    BY <2>1 DEF StartRoot, IInv, ParallelTypeOK
  <2>3. Works \subseteq Nodes
    BY DEF Works
  <2>4. phase = "open"
    BY <2>1
  <2>5. QED
    BY <2>1, <2>2, <2>3, <2>4
<1>3. CASE CloseDss
  BY <1>3 DEF CloseDss, At, Gate!StartClosing, parallelVars
<1>4. CASE ReportLsns
  BY <1>4 DEF ReportLsns, Gate!Shut, parallelVars
<1>5. CASE dssCommand
  <2>1. UNCHANGED <<cancelled, mode, pc, reading, ran, refused, phase>> /\ mode = "dss"
    BY <1>5 DEF dssCommand, lsnsVars, parallelVars
  <2>2. cmd' \notin {"walk", "loop"}
    BY <1>5 DEF dssCommand, UseDss, NewHDss, Close, str2dssFails, uiMapACLFails,
                exclListFails, Operate, OperationFails, Reported, AllClosed, Fails
  <2>3. QED
    BY <2>1, <2>2
<1>6. CASE webApiCommand \/ webApiStops
  <2>1. UNCHANGED <<cancelled, mode, pc, reading, ran, refused, phase>> /\ mode = "webapi"
    BY <1>6 DEF webApiCommand, webApiStops, lsnsVars, parallelVars
  <2>2. "open" \in command.forgets
    BY <2>1 DEF LInv, Opens, CommandsOf, webApi, Shape
  <2>3. /\ cmd' \notin {"walk", "loop"}
        /\ cmd' \in {"closing", "report"} => cancelled
    <3>1. CASE mappingFails
      BY <2>2, <3>1 DEF mappingFails, Fails
    <3>2. CASE (\E i \in 1 .. 2 : openMapped(i)) \/ Serve \/ ServeFails \/ ConfigureApi
      BY <3>2 DEF openMapped, NewHDss, Serve, ServeFails, ConfigureApi, dssVars, Opening
    <3>3. CASE Shutdown \/ Reported \/ ShuttingDown
      BY <2>1, <3>3 DEF Shutdown, Reported, ShuttingDown
    <3>4. QED
      BY <1>6, <3>1, <3>2, <3>3 DEF webApiCommand, webApiStops, Mapping
  <2>4. QED
    BY <2>1, <2>3
<1>7. CASE CloseServed
  <2>1. UNCHANGED <<cancelled, mode, pc, reading, ran, refused, cmd>>
        /\ mode = "webapi" /\ cmd = "closing"
    BY <1>7 DEF CloseServed, parallelVars, servedVars, dssVars, shutdownCallback, gateVars,
                Gate!StartClosing, Gate!Shut
  <2>2. QED
    BY <2>1
<1>8. QED
  BY <1>1, <1>2, <1>3, <1>4, <1>5, <1>6, <1>7 DEF MainStep

\* Every step keeps what is said of walks and of the gate.
LEMMA NextKeepsWalks ==
    ASSUME Walks, Speaks, LInv, IInv, Complete, GateTypeOK, [Next]_vars
    PROVE  Walks'
<1> USE RootIsNode DEF Walks, AllIdle
<1>1. CASE /\ cancelled => cancelled'
           /\ UNCHANGED <<cmd, mode, pc, reading, ran, refused, phase>>
  BY <1>1
<1>2. CASE UNCHANGED vars \/ RunStep \/ Terminal \/ Panic \/ ControlC \/ Turn \/ GetCustomConfig
  <2>1. UNCHANGED <<cmd, mode, pc, reading, ran, refused, phase>>
    BY <1>2 DEF vars, RunStep, Terminal, Panic, ControlC, Turn, GetCustomConfig, servedVars,
                dssVars, parallelVars, lsnsVars
  <2>2. cancelled => cancelled'
    BY <1>2 DEF vars, RunStep, Terminal, Panic, ControlC, Turn, GetCustomConfig, Interrupt, Cancel
  <2>3. QED
    BY <1>1, <2>1, <2>2
<1>3. ASSUME NEW j \in Jobs, JobWorks(j) \/ JobFails(j)
      PROVE  Walks'
  <2>1. UNCHANGED <<cmd, mode, pc, reading, ran, refused, phase>>
    BY <1>3 DEF JobWorks, JobFails, servedVars, dssVars, parallelVars, lsnsVars
  <2>2. cancelled => cancelled'
    BY <1>3 DEF JobWorks, JobFails, ExitOnError, Cancel
  <2>3. QED
    BY <1>1, <2>1, <2>2
<1>4. ASSUME NEW u \in Uows \ Early, AddLate(u) \/ LateWorks(u)
      PROVE  Walks'
  BY <1>1, <1>4 DEF AddLate, LateWorks, servedVars, dssVars, parallelVars, lsnsVars
<1>5. CASE Walk
  <2>1. UNCHANGED <<cancelled, cmd, mode, reading, ran, refused, phase>> /\ Advance
    BY <1>5 DEF Walk, servedVars, dssVars, lsnsVars
  <2>2. QED
    BY <2>1, AdvanceIs
<1>6. ASSUME NEW n \in Works, WorkStep(n) \/ Request(n) \/ LaunchUnheard(n)
      PROVE  Walks'
  <2>1. n \in Nodes /\ UNCHANGED <<cancelled, cmd, mode>>
    BY <1>6 DEF WorkStep, GetMeta, outMeta, ReturnMeta, Answer, Request, LaunchUnheard,
                servedVars, dssVars, Works
  <2>2. CASE GetMeta(n)
    BY <2>1, <2>2 DEF GetMeta, Gate!Enter, parallelVars, GateTypeOK
  <2>3. CASE outMeta(n)
    <3>1. /\ pc' = pc /\ pc[n] = "running" /\ phase' = phase
          /\ reading' = [reading EXCEPT ![n] = "print"]
          /\ \/ ran' = ran \union {n} /\ refused' = refused
             \/ ran' = ran /\ refused' = refused \union {n} /\ phase = "closing"
      BY <2>3 DEF outMeta, parallelVars, Gate!Leave, Gate!Refuse
    <3>2. phase = "closing" => cancelled
      <4>1. mode = "lsns"
        BY <2>1, <3>1
      <4>2. phase = "closing" => pc[Root] = "done"
        BY <4>1
      <4>3. QED
        BY <2>1, <3>1, <4>2, WalkOver
    <3>3. QED
      BY <2>1, <3>1, <3>2 DEF GateTypeOK
  <2>4. CASE ReturnMeta(n)
    <3>1. /\ UNCHANGED <<reading, ran, refused, phase>>
          /\ reading[n] = "print" /\ pc[n] = "running"
          /\ \A m \in Nodes : m # n => pc'[m] = pc[m]
      BY <2>4 DEF ReturnMeta, Return, lsnsVars, IInv, ParallelTypeOK
    <3>2. mode = "lsns" /\ cmd \notin {"begin", "asking"} /\ ~AllIdle
      BY <2>1, <3>1
    <3>3. n \in ran \/ cancelled
      BY <3>1
    <3>4. pc[Root] = "done" => pc'[Root] = "done"
      BY <3>1
    <3>5. \A m \in Works : m \in Nodes
      BY DEF Works
    <3>6. QED
      BY <2>1, <3>1, <3>2, <3>3, <3>4, <3>5
  <2>5. CASE Answer(n)
    BY <2>1, <2>5 DEF Answer, Gate!Leave, parallelVars, GateTypeOK
  <2>6. CASE Request(n)
    <3>1. /\ pc' = pc /\ phase' = phase /\ ran' = ran /\ mode = "webapi"
          /\ reading' \in {reading, [reading EXCEPT ![n] = "io"]}
          /\ \/ refused' = refused
             \/ refused' = refused \union {n} /\ phase = "closing"
      BY <2>6 DEF Request, Listens, parallelVars, Gate!Enter, Gate!Refuse
    <3>2. QED
      BY <2>1, <3>1 DEF GateTypeOK
  <2>7. CASE LaunchUnheard(n)
    <3>1. UNCHANGED <<pc, ran, refused, phase>> /\ reading' = [reading EXCEPT ![n] = "left"]
      BY <2>7 DEF LaunchUnheard, parallelVars, gateVars
    <3>2. QED
      BY <2>1, <3>1 DEF GateTypeOK
  <2>8. QED
    BY <1>6, <2>2, <2>3, <2>4, <2>5, <2>6, <2>7 DEF WorkStep
<1>7. CASE MainStep
  BY <1>7, MainKeepsWalks
<1>8. QED
  BY <1>2, <1>3, <1>4, <1>5, <1>6, <1>7 DEF Next
\* What the process is at keeps its types.
LEMMA NextKeepsTypes ==
    ASSUME TypeOK, LInv', SInv', IInv', [Next]_vars
    PROVE  TypeOK'
<1>1. JouleTypeOK'
  BY StepOfJoule, JouleKeepsTypes DEF TypeOK
<1>2. GateTypeOK'
  BY StepOfGate DEF TypeOK, GateTypeOK
<1>3. mode' = mode
  <2>1. CASE UNCHANGED vars \/ RunStep \/ Terminal \/ Panic \/ ControlC \/ Walk \/ Turn
             \/ GetCustomConfig
    BY <2>1 DEF vars, RunStep, Terminal, Panic, ControlC, Walk, Turn, GetCustomConfig
  <2>2. CASE MainStep
    BY <2>2, MainStepIs
  <2>3. ASSUME NEW n \in Works, WorkStep(n) \/ Request(n) \/ LaunchUnheard(n)
        PROVE  mode' = mode
    BY <2>3 DEF WorkStep, GetMeta, outMeta, ReturnMeta, Answer, Request, LaunchUnheard
  <2>4. ASSUME NEW j \in Jobs, JobWorks(j) \/ JobFails(j)
        PROVE  mode' = mode
    BY <2>4 DEF JobWorks, JobFails
  <2>5. ASSUME NEW u \in Uows \ Early, AddLate(u) \/ LateWorks(u)
        PROVE  mode' = mode
    BY <2>5 DEF AddLate, LateWorks
  <2>6. QED
    BY <2>1, <2>2, <2>3, <2>4, <2>5 DEF Next
<1>4. cmd' \in {"begin", "asking", "open", "walk", "loop", "serve", "closing", "report", "over"}
      /\ failure' \in Failures /\ ServerTypeOK'
  <2> USE DEF TypeOK, DssTypeOK, ServerTypeOK, Failures
  <2>1. CASE UNCHANGED servedVars
    BY <2>1 DEF servedVars, dssVars
  <2>2. CASE UNCHANGED vars \/ RunStep \/ Terminal \/ Panic \/ ControlC \/ Walk \/ Turn
             \/ GetCustomConfig
    BY <2>1, <2>2 DEF vars, RunStep, Terminal, Panic, ControlC, Walk, Turn, GetCustomConfig
  <2>3. ASSUME NEW n \in Works, WorkStep(n) \/ Request(n) \/ LaunchUnheard(n)
        PROVE  UNCHANGED servedVars
    BY <2>3 DEF WorkStep, GetMeta, outMeta, ReturnMeta, Answer, Request, LaunchUnheard
  <2>4. ASSUME NEW j \in Jobs, JobWorks(j) \/ JobFails(j)
        PROVE  UNCHANGED servedVars
    BY <2>4 DEF JobWorks, JobFails
  <2>5. ASSUME NEW u \in Uows \ Early, AddLate(u) \/ LateWorks(u)
        PROVE  UNCHANGED servedVars
    BY <2>5 DEF AddLate, LateWorks
  <2>6. CASE AskSecret \/ CannotStart \/ LsnsEnds \/ CloseDss \/ schedule \/ LeaveSchedule
    BY <2>6 DEF AskSecret, CannotStart, LsnsEnds, CloseDss, schedule, LeaveSchedule, Ends, At
  <2>7. CASE lsns \/ ReportLsns
    BY <2>7 DEF lsns, ReportLsns
  <2>8. CASE dssCommand
    BY <2>8 DEF dssCommand, UseDss, NewHDss, Close, str2dssFails, uiMapACLFails, exclListFails,
                Operate, OperationFails, Reported, AllClosed, Fails
  <2>9. CASE webApiCommand \/ webApiStops
    BY <2>1, <2>9 DEF webApiCommand, webApiStops, Mapping, Shutdown, Reported, openMapped, NewHDss,
                mappingFails, Serve, ServeFails, ConfigureApi, ShuttingDown, Fails, dssVars
  <2>10. CASE CloseServed
    BY <2>1, <2>10 DEF CloseServed, shutdownCallback
  <2>11. QED
    BY <2>1, <2>2, <2>3, <2>4, <2>5, <2>6, <2>7, <2>8, <2>9, <2>10 DEF Next, MainStep
<1>5. command' \in CommandsOf(mode)' /\ dss' \in [1 .. 2 -> {"none", "open", "closed"}]
  BY DEF LInv, Opens
<1>6. QED
  BY <1>1, <1>2, <1>3, <1>4, <1>5 DEF TypeOK, GateTypeOK, DssTypeOK, IInv, SInv

\* Once the channels are closed nobody is left who sends on them, unless
\* something was aborted or added late.
LEMMA NobodyLeft ==
    ASSUME TypeOK, Runs, Speaks, Walks, IInv, Complete,
           closed, ~cancelled, mode # "late"
    PROVE  sending \union asking = {}
<1>1. cmd \in {"begin", "over"} /\ uow[Main] # "working"
  BY DEF Runs, TypeOK, JouleTypeOK
<1>2. asking = {} /\ sending \intersect Uows = {} /\ sending \intersect Jobs = {}
  BY <1>1 DEF Speaks
<1>3. sending \intersect Works = {}
  <2>1. AllIdle \/ \A n \in Nodes : pc[n] = "done"
    BY <1>1, WalkOver DEF Walks
  <2>2. \A n \in Works : pc[n] # "running"
    BY <2>1 DEF AllIdle, Works
  <2>3. QED
    BY <2>2 DEF Speaks
<1>4. sending \subseteq Uows \union Works \union Jobs
  BY WhoPrints DEF TypeOK, JouleTypeOK
<1>5. QED
  BY <1>2, <1>3, <1>4

\* So only these make the process panic.
LEMMA NextKeepsPanic ==
    ASSUME PanicOnlyAborted, TypeOK, Runs, Speaks, Walks, IInv, Complete, [Next]_vars
    PROVE  PanicOnlyAborted'
<1>1. CASE UNCHANGED vars
  BY <1>1 DEF vars, jouleVars, servedVars, PanicOnlyAborted
<1>2. CASE Panic
  <2>1. cancelled \/ mode = "late"
    BY <1>2, NobodyLeft DEF Panic, SendOnClosed
  <2>2. QED
    BY <1>2, <2>1 DEF Panic, PanicOnlyAborted
<1>3. CASE GetCustomConfig
  BY <1>3 DEF GetCustomConfig, servedVars, PanicOnlyAborted
<1>4. CASE Next /\ ~Panic /\ ~GetCustomConfig
  <2>1. ended' # "panic"
    <3> USE DEF Alive
    <3>0. ended = "no"
      BY <1>4 DEF Next
    <3>1. CASE RunStep \/ Terminal \/ ControlC \/ Walk \/ Turn
      BY <3>0, <3>1 DEF RunStep, Run, Startup, StartWorkers, MarkRunning, WaitWorkers,
                  MarkStopping, StopUi, Finalize, Exit, Terminal, controlUI, Printed,
                  handleSecretPrompt, SecretTyped, ControlC, Interrupt, Walk, Turn, jouleVars
    <3>2. CASE MainStep
      BY <3>0, <3>2, MainStepIs DEF jouleVars, WorkDone, UiOut, UiSecret
    <3>3. ASSUME NEW n \in Works, WorkStep(n) \/ Request(n) \/ LaunchUnheard(n)
          PROVE  ended' = ended
      BY <3>3 DEF WorkStep, GetMeta, outMeta, ReturnMeta, Answer, Request, LaunchUnheard,
                  UiOut, jouleVars
    <3>4. ASSUME NEW j \in Jobs, JobWorks(j) \/ JobFails(j)
          PROVE  ended' = ended
      BY <3>4 DEF JobWorks, JobFails, Says, UiOut, jouleVars
    <3>5. ASSUME NEW u \in Uows \ Early, AddLate(u) \/ LateWorks(u)
          PROVE  ended' = ended
      BY <3>5 DEF AddLate, LateWorks, CheckStopping, AddUow, UiOut, WorkDone
    <3>6. QED
      BY <1>4, <3>0, <3>1, <3>2, <3>3, <3>4, <3>5 DEF Next
  <2>2. QED
    BY <2>1 DEF PanicOnlyAborted
<1>5. QED
  BY <1>1, <1>2, <1>3, <1>4

\* The inductive invariant of a command, on top of those of the parallelizer,
\* the scheduler and the DSSs.
CInv == TypeOK /\ Runs /\ Speaks /\ Walks /\ PanicOnlyAborted

LEMMA InitCInv ==
    ASSUME CLIRun
    PROVE  SInv /\ LInv /\ CInv
<1>1. SInv
  BY DEF CLIRun, SchedulerInit, SInv, SchedulerTypeOK, Marked, Busy, NoJob, JobRecords, JobStates,
         Labels
<1>2. LInv
  <2>1. /\ command \in CommandsOf(mode) /\ cmd = "begin"
        /\ dss = [i \in 1 .. 2 |-> "none"]
    BY DEF CLIRun, DssInit
  <2>2. opened = {}
    BY <2>1 DEF opened
  <2>3. QED
    BY <2>1, <2>2 DEF LInv, Opens, LeftOpen
<1>3. TypeOK
  <2>1. ParallelTypeOK
    BY InitIInv DEF CLIRun, IInv
  <2>2. JouleTypeOK
    <3>1. JouleInit
      BY DEF CLIRun
    <3>2. 0 \in 0 .. 2 /\ uow \in [Uows -> {"none"}]
      BY <3>1 DEF JouleInit
    <3>3. QED
      BY <3>1, <3>2 DEF JouleInit, JouleTypeOK
  <2>3. mode \in Modes /\ ServerTypeOK /\ DssTypeOK(CommandsOf(mode))
    BY <1>2 DEF CLIRun, ServerInit, ServerTypeOK, DssInit, DssTypeOK, Failures
  <2>4. GateTypeOK
    BY DEF CLIRun, Gate!Init, GateTypeOK
  <2>5. QED
    BY <1>1, <2>1, <2>2, <2>3, <2>4 DEF TypeOK, GateTypeOK, SInv
<1>4. Runs
  BY MainIs DEF CLIRun, JouleInit, Runs, DssInit
<1>5. Speaks
  BY DEF CLIRun, JouleInit, SchedulerInit, NoJob, Speaks
<1>6. Walks
  <2>1. AllIdle
    BY DEF CLIRun, ParallelInit, AllIdle
  <2>2. \A n \in Works : reading[n] = "idle" /\ pc[n] = "idle"
    BY <2>1 DEF CLIRun, AllIdle, Works
  <2>3. cmd = "begin" /\ phase = "open" /\ refused = {}
    BY DEF CLIRun, DssInit, Gate!Init
  <2>4. QED
    BY <2>1, <2>2, <2>3 DEF Walks
<1>7. PanicOnlyAborted
  BY DEF CLIRun, JouleInit, PanicOnlyAborted
<1>8. QED
  BY <1>1, <1>2, <1>3, <1>4, <1>5, <1>6, <1>7 DEF CInv

\* The inductive invariant holds in every run of the command line.
THEOREM CommandInvariant == Spec => [](IInv /\ Complete /\ SInv /\ LInv /\ CInv)
<1>1. Spec => [](IInv /\ Complete)
  BY CommandImplementsParallel, ParallelInvariant, ParallelComplete, PTL
<1>2. CLIRun => SInv /\ LInv /\ CInv
  BY InitCInv
<1>3. ASSUME IInv, Complete, IInv', SInv, LInv, CInv, [Next]_vars
      PROVE  (SInv /\ LInv /\ CInv)'
  <2>1. SInv' /\ LInv'
    BY <1>3, NextKeepsSInv, NextKeepsLInv
  <2>2. GateTypeOK /\ JouleTypeOK
    BY <1>3 DEF CInv, TypeOK, GateTypeOK
  <2>3. TypeOK'
    BY <1>3, <2>1, NextKeepsTypes DEF CInv
  <2>4. Runs' /\ Speaks' /\ Walks'
    BY <1>3, <2>2, NextKeepsRuns, NextKeepsSpeaks, NextKeepsWalks DEF CInv
  <2>5. PanicOnlyAborted'
    BY <1>3, NextKeepsPanic DEF CInv
  <2>6. QED
    BY <2>1, <2>3, <2>4, <2>5 DEF CInv
<1>4. QED
  BY <1>1, <1>2, <1>3, PTL DEF Spec

\* Every part of a process keeps its types: the parallelizer, the runner, the
\* scheduler, the DSSs, the server and the reducer, whatever the command.
THEOREM CommandTypeOK == Spec => []TypeOK
<1>1. CInv => TypeOK
  BY DEF CInv
<1>2. QED
  BY <1>1, CommandInvariant, PTL

\* Nobody prints on the channels of the terminal once they are closed
\* (joule.go:180-184), unless the command is aborted or a unit of work was
\* added late; a server may end so while it adds a DSS (web.go:252).
THEOREM CommandPanicOnlyAborted == Spec => []PanicOnlyAborted
<1>1. CInv => PanicOnlyAborted
  BY DEF CInv
<1>2. QED
  BY <1>1, CommandInvariant, PTL

\* Unless aborted, a listing closes its DSS when every entry was read and
\* nobody reads any more, so that no reading is turned away (lsns.go:95-96); and
\* a command closes what it opens, but for LeftOpen.
THEOREM CommandClosedAfterUse == Spec => []ClosedAfterUse
<1>1. ASSUME IInv, Complete, LInv, CInv
      PROVE  ClosedAfterUse
  <2> SUFFICES ASSUME ~cancelled
               PROVE  refused = {} /\ (phase # "open" =>
                                          ran = Works /\ \A n \in Nodes : pc[n] = "done")
    BY <1>1 DEF ClosedAfterUse, LInv
  <2>1. refused = {}
    BY <1>1 DEF CInv, Walks
  <2>2. ASSUME phase # "open"
        PROVE  ran = Works /\ \A n \in Nodes : pc[n] = "done"
    <3>1. \A n \in Nodes : pc[n] = "done"
      BY <1>1, <2>2, WalkOver DEF CInv, Walks
    <3>2. Works \subseteq ran
      BY <1>1, <3>1 DEF CInv, Walks, Works
    <3>3. ran \subseteq Works
      BY <1>1 DEF CInv, TypeOK
    <3>4. QED
      BY <3>1, <3>2, <3>3
  <2>3. QED
    BY <2>1, <2>2
<1>2. QED
  BY <1>1, CommandInvariant, PTL
=============================================================================
