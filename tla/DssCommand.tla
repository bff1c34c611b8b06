----------------------------- MODULE DssCommand ------------------------------
(***************************************************************************)
(* What the commands on DSSs do with them (cabriui/dss.go, sync.go): they  *)
(* open one or two, use them, close them, and print, from their unit of    *)
(* work. A DSS that is not closed leaves its index locked, and the next    *)
(* command cannot open it (IndexedStore). Which DSS, which operation and   *)
(* with which options is left out.                                         *)
(***************************************************************************)
EXTENDS Naturals

\* A command: how many DSSs it opens; when it prints, before it closes them,
\* maybe so, maybe after, or never; after which failures it does not close
\* those it opened.
Shape(name, opens, prints, forgets) ==
    [name |-> name, opens |-> opens, prints |-> prints, forgets |-> forgets]

lsnsRun       == Shape("lsns", 1, "after", {})
dssMkRun      == Shape("mk", 1, "never", {})
\* A fault: the namespace is not made, and the DSS stays open.
dssMknsRunReturning == Shape("mkns", 1, "never", {"operation"})
dssMknsRun    == Shape("mkns", 1, "never", {})
dssGetPutRun  == Shape("getput", 1, "never", {})
dssUnlockRun  == Shape("unlock", 1, "maybe", {"operation"})
dssAuditRun   == Shape("audit", 1, "before", {})
dssScanRun    == Shape("scan", 1, "maybe", {})
dssReindexRun == Shape("reindex", 1, "never", {})
dssLsHistoRun == Shape("lshisto", 1, "before", {})
dssRmHistoRun == Shape("rmhisto", 1, "before", {})
dssCleanRun   == Shape("clean", 0, "never", {})
dssConfigRun  == Shape("config", 0, "before", {})
synchronize   == Shape("sync", 2, "after", {"exclusions"})

DssCommands ==
    {dssMkRun, dssMknsRun, dssGetPutRun, dssUnlockRun, dssAuditRun, dssScanRun, dssReindexRun,
     dssLsHistoRun, dssRmHistoRun, dssCleanRun, dssConfigRun, synchronize}

VARIABLES
    cmd,        \* where the unit of work of the command is
    command,    \* which command it is, which never changes
    dss,        \* what became of each DSS
    failure     \* what failed

dssVars == <<cmd, command, dss, failure>>

Failures == {"none", "open", "mapping", "exclusions", "operation", "serve"}

DssTypeOK(commands) ==
    /\ cmd \in {"begin", "asking", "open", "walk", "loop", "serve", "closing", "report", "over"}
    /\ command \in commands
    /\ dss \in [1 .. 2 -> {"none", "open", "closed"}]
    /\ failure \in Failures

DssInit(commands) ==
    /\ cmd = "begin"
    /\ command \in commands
    /\ dss = [i \in 1 .. 2 |-> "none"]
    /\ failure = "none"

opened == {i \in 1 .. 2 : dss[i] = "open"}

-----------------------------------------------------------------------------
Opening == cmd \in {"begin", "asking", "open"}

Ready == Opening /\ \A i \in 1 .. command.opens : dss[i] = "open"

\* NewHDss opens the next DSS.
NewHDss(i) ==
    /\ Opening
    /\ i <= command.opens /\ dss[i] = "none" /\ opened = 1 .. (i - 1)
    /\ cmd' = "open"
    /\ dss' = [dss EXCEPT ![i] = "open"]
    /\ UNCHANGED <<command, failure>>

\* The command fails, and closes what it opened unless it forgets to.
Fails(at) ==
    /\ failure' = at
    /\ cmd' = IF at \in command.forgets THEN "over" ELSE "closing"
    /\ UNCHANGED <<command, dss>>

\* str2dss: the configuration or the next DSS cannot be opened.
str2dssFails == Opening /\ ~Ready /\ Fails("open")

\* The users of the two DSSs cannot be mapped; the entries to exclude cannot
\* be read.
uiMapACLFails == Ready /\ command.name = "sync" /\ Fails("mapping")
exclListFails == Ready /\ command.name = "sync" /\ Fails("exclusions")

\* The command does its work.
Operate ==
    /\ Ready
    /\ \/ command.prints # "before" /\ cmd' = "closing"
       \/ command.prints \in {"before", "maybe"} /\ cmd' = "report"
    /\ UNCHANGED <<command, dss, failure>>

OperationFails == Ready /\ command.name # "mk" /\ Fails("operation")

\* What it prints is printed.
Reported ==
    /\ cmd = "report"
    /\ cmd' = IF opened = {} THEN "over" ELSE "closing"
    /\ UNCHANGED <<command, dss, failure>>

Close(i) ==
    /\ cmd = "closing"
    /\ i \in opened /\ \A j \in opened : i <= j
    /\ dss' = [dss EXCEPT ![i] = "closed"]
    /\ UNCHANGED <<cmd, command, failure>>

\* All are closed: a synchronization may print then.
AllClosed ==
    /\ cmd = "closing"
    /\ opened = {}
    /\ \/ cmd' = "over"
       \/ command.prints = "after" /\ failure = "none" /\ cmd' = "report"
    /\ UNCHANGED <<command, dss, failure>>

UseDss ==
    \/ \E i \in 1 .. 2 : NewHDss(i) \/ Close(i)
    \/ str2dssFails \/ uiMapACLFails \/ exclListFails
    \/ Operate \/ OperationFails \/ Reported \/ AllClosed

-----------------------------------------------------------------------------
\* LeftOpen: the only commands that end without closing a DSS which they opened
\* are an unlocking whose repair fails, or that was told so (dss.go:324-331), a
\* synchronization whose exclusions cannot be read (sync.go:269-272), and a
\* server one of whose DSSs cannot be served (web.go:87-93, 197-199).
LeftOpen ==
    cmd = "over" /\ opened # {} =>
        \/ command.name = "unlock" /\ failure = "operation"
        \/ command.name = "sync" /\ failure = "exclusions"
        \/ command.name = "webapi" /\ failure = "open"
=============================================================================
