-------------------------------- MODULE Sync --------------------------------
(***************************************************************************)
(* Synchronize (package cabrisync): two DSS trees are walked together, one *)
(* task per entry, the tasks of the children of a namespace in parallel,   *)
(* each side of a merge being written in its turn. Users edit both sides,  *)
(* runs fail, crash and are launched again by the scheduler.               *)
(*                                                                         *)
(* An entry is [mtime, data, ch]: data stands for size and checksum, ch is *)
(* the children of a namespace. A file system (kind "fsy") holds exactly   *)
(* what its directories list. An object store ("object") lists children in *)
(* the metadata of their namespace only: a child may be listed before it   *)
(* has metadata, and metadata stays behind when a child is unlisted.       *)
(***************************************************************************)
EXTENDS Naturals, FiniteSets

CONSTANTS
    Paths,      \* the entries, the root included
    Root,
    Spaces,     \* the paths of namespaces; the others are contents
    Parent,     \* Parent[p], the namespace that lists p
    KindPairs,  \* the pairs <<left kind, right kind>> to consider
    Modes,      \* the pairs <<BiDir, KeepContent>> to consider
    MaxClock,   \* bound: edits happen at times below it
    Faults,     \* what may go wrong, each at most once: of FaultKinds
    MaxFaults,  \* bound: and at most so many of them
    BusyModes   \* bound: {FALSE} when users only edit between runs, TRUE in it when
                \* they edit at any time while nothing else goes wrong

Sides == {"left", "right"}

\* A read that reports its error, a read of an object store that does not, a
\* refused write, a copy cut short, the end of the process.
FaultKinds == {"read", "misread", "write", "copy", "crash"}

ASSUME TreeRooted == Root \in Spaces /\ Spaces \subseteq Paths
ASSUME TreeParents == Parent \in [Paths \ {Root} -> Spaces]
ASSUME TreeReached ==   \* from the root down
    \A S \in SUBSET Paths :
        Root \in S /\ (\A p \in Paths \ {Root} : Parent[p] \in S => p \in S) => S = Paths
ASSUME KindsKnown == KindPairs \subseteq {"fsy", "object"} \X {"fsy", "object"}
ASSUME ModesKnown == Modes \subseteq BOOLEAN \X BOOLEAN
ASSUME ClockBounded == MaxClock \in Nat
ASSUME FaultsKnown == Faults \subseteq FaultKinds
ASSUME FaultsBounded == MaxFaults \in Nat
ASSUME BusyKnown == BusyModes \subseteq BOOLEAN

VARIABLES
    kind,       \* kind[s], the type of the DSS of side s
    bidir,      \* SyncOptions.BiDir
    keep,       \* SyncOptions.KeepContent
    busy,       \* users edit during the runs
    store,      \* store[s][p], what side s holds for p
    run,        \* Synchronize: idle, syncing, or how it ended
    task,       \* syncCtx, one for each entry
    clock,      \* the time of the last edit
    faults,     \* what may still go wrong
    before,     \* ghost: store when the run began
    upset,      \* ghost: what disturbed the run
    reported,   \* ghost: some SyncReportEntry.Err is set
    insync,     \* ghost: the last run ended well, no edit or fault since
    misread,    \* ghost: the entries of the left side a run read as empty
    written     \* ghost: what the users last wrote at p, on the left side or,
                \* if bidir, on either side; 0 once they removed it

options == <<kind, bidir, keep, busy>>
vars == <<options, store, run, task, clock, faults, before, upset, reported,
          insync, misread, written>>

\* data: no metadata, an empty content or a namespace, a truncated content;
\* a content edited at time t has data t.
Nothing == 0
Empty   == 1
Torn    == 2

Missing == [mtime |-> 0, data |-> Nothing, ch |-> {}]
Now     == clock + 1    \* the mtime of what a file system creates by itself
Other(s) == IF s = "left" THEN "right" ELSE "left"
Children(p) == {q \in Paths \ {Root} : Parent[q] = p}

Above[p \in Paths] == IF p = Root THEN {} ELSE {Parent[p]} \union Above[Parent[p]]

----------------------------------------------------------------------------
(* The two DSS *)

\* odss.hasParent, and a path that exists for a file system: every ancestor
\* lists the next one.
Listed(st, p) == \A q \in (Above[p] \union {p}) \ {Root} : q \in st[Parent[q]].ch

\* FsyDss.doMkUpdateNs: children that are new are created empty, children that
\* are no longer wanted are removed with all they hold. ODss.doUpdatens
\* replaces the metadata of the namespace and nothing else.
PutNs(s, p, children, mtime) ==
    LET st == store[s]
        ns == [mtime |-> mtime, data |-> Empty, ch |-> children]
        gone == {q \in Paths : (Above[q] \union {q}) \intersect (st[p].ch \ children) # {}}
        made == children \ st[p].ch
    IN IF kind[s] = "object"
       THEN [st EXCEPT ![p] = ns]
       ELSE [q \in Paths |->
                CASE q = p      -> ns
                  [] q \in gone -> Missing
                  [] q \in made -> [mtime |-> Now, data |-> Empty, ch |-> {}]
                  [] OTHER      -> st[q]]

\* Mkns and Updatens need the namespace to be listed; FsyDss.Mkns refuses a
\* directory that has children.
RefusesNs(s, p, making) ==
    \/ ~Listed(store[s], p)
    \/ kind[s] = "fsy" /\ making /\ store[s][p].ch # {}

\* The content of p becomes data: os.Create adds the file to its directory.
PutContent(s, p, mtime, data) ==
    LET st == store[s]
        file == [mtime |-> mtime, data |-> data, ch |-> {}]
        dir == st[Parent[p]]
    IN IF p \in dir.ch
       THEN [st EXCEPT ![p] = file]
       ELSE [st EXCEPT ![p] = file,
                       ![Parent[p]] = [dir EXCEPT !.ch = @ \union {p}, !.mtime = Now]]

\* A file whose Close fails is removed: ContentHandle.Close, and the callback of
\* FsyDss.doGetContentWriter when its time or access list cannot be set.
RemoveFile(s, p) ==
    LET dir == store[s][Parent[p]]
    IN [store[s] EXCEPT ![p] = Missing,
                        ![Parent[p]] = [dir EXCEPT !.ch = @ \ {p}, !.mtime = Now]]

\* GetContentWriter: an object store wants the content listed, a file system
\* wants its directory.
RefusesContent(s, p) ==
    ~Listed(store[s], IF kind[s] = "object" THEN p ELSE Parent[p])

\* GetContentReader on the side the content comes from.
Unreadable(s, p) == ~Listed(store[s], p) \/ store[s][p].data = Nothing

----------------------------------------------------------------------------
(* What a task derives from the metadata it read (eval, evalNsMerge) *)

\* Faulty variant: the newest side wins in every mode.
RTLUnasked(t) ==
    /\ t.exist["right"]
    /\ t.exist["left"] => t.meta["right"].mtime > t.meta["left"].mtime

\* Faulty variant: the oldest side wins.
RTLOldest(t) ==
    /\ bidir
    /\ t.exist["right"]
    /\ t.exist["left"] => t.meta["right"].mtime < t.meta["left"].mtime

\* SyncReportEntry.isRTL: in a bidirectional run the newest side wins, and an
\* entry that only the right side has comes from there.
RTL(t) ==
    /\ bidir
    /\ t.exist["right"]
    /\ t.exist["left"] => t.meta["right"].mtime > t.meta["left"].mtime

Created(t) ==
    \/ t.exist["left"] /\ ~t.exist["right"]
    \/ bidir /\ t.exist["right"] /\ ~t.exist["left"]

\* Faulty variant: contents of the same time are taken for the same.
UpdatedByMtime(t) ==
    /\ t.exist["left"] /\ t.exist["right"]
    /\ t.meta["left"].mtime # t.meta["right"].mtime

\* Updated or MUpdated, which the code handles alike.
Updated(t) ==
    /\ t.exist["left"] /\ t.exist["right"]
    /\ t.meta["left"] # t.meta["right"]

exCh(t, s) == IF t.exist[s] THEN t.meta[s].ch ELSE {}

leftAndRight(t) == exCh(t, "left") \union exCh(t, "right")
leftMg(t) ==
    exCh(t, "left") \union (IF bidir /\ ~keep THEN exCh(t, "right") ELSE {})
rightMg(t) == exCh(t, "left") \union exCh(t, "right")

\* Faulty variant: nothing is ever removed.
leftRightUnion(t) == exCh(t, "left") \union exCh(t, "right")

leftRight(t) ==
    exCh(t, "left") \union (IF bidir \/ keep THEN exCh(t, "right") ELSE {})

\* evalMergeNsMeta: the modification time given to the namespace on both sides.
mergedMtime(t) ==
    IF t.exist["left"] THEN t.meta["left"].mtime ELSE t.meta["right"].mtime

\* mergeNsBefore: children are added before they are synchronized ...
MergedBefore(t, s) == IF s = "left" THEN leftMg(t) ELSE rightMg(t)
NeedsBefore(t, s) ==
    IF t.exist[s]
    THEN MergedBefore(t, s) # exCh(t, s)
    ELSE Created(t) /\ RTL(t) = (s = "left")

\* ... and mergeNsAfter: removed once they are.
MergedAfter(t, s) == IF s = "left" THEN leftMg(t) ELSE leftRight(t)
NeedsAfter(t, s) ==
    IF t.exist[s]
    THEN Updated(t)
    ELSE Created(t) /\ RTL(t) = (s = "left")

\* crUpNs calls Mkns when the namespace was not there and has no mtime yet.
MakesBefore(t, s) == ~t.exist[s]
MakesAfter(t, s)  == ~t.exist[s] /\ mergedMtime(t) = 0

\* syncNs and syncContentOrSymLink give up: the metadata of the left side is
\* wanted, or the one of either side in a bidirectional run.
GivesUp(t) == "left" \in t.failed /\ (bidir => "right" \in t.failed)

\* evalMergeNsMeta panics.
NoMeta(t) == ~t.exist["left"] /\ ~t.exist["right"]

----------------------------------------------------------------------------
Steps == {"off", "metas", "leftBefore", "rightBefore", "children", "rightAfter",
          "copy", "fill", "done"}

Off == [step |-> "off", exist |-> [s \in Sides |-> FALSE],
        meta |-> [s \in Sides |-> Missing], unread |-> {}, failed |-> {}, err |-> FALSE]

\* makeChild: a side that has the child has its metadata read. A child of a
\* namespace in error only reports this error.
Task(exist, err) ==
    [Off EXCEPT !.step = IF err THEN "done" ELSE "metas",
                !.exist = exist,
                !.unread = IF err THEN {} ELSE {s \in Sides : exist[s]},
                !.err = err]

Entries == [mtime : Nat, data : Nat, ch : SUBSET Paths]

TypeOK ==
    /\ kind \in [Sides -> {"fsy", "object"}]
    /\ bidir \in BOOLEAN /\ keep \in BOOLEAN /\ busy \in BOOLEAN
    /\ store \in [Sides -> [Paths -> Entries]]
    /\ run \in {"idle", "syncing", "finished", "failed"}
    /\ task \in [Paths -> [step : Steps, exist : [Sides -> BOOLEAN],
                           meta : [Sides -> Entries], unread : SUBSET Sides,
                           failed : SUBSET Sides, err : BOOLEAN]]
    /\ clock \in Nat
    /\ faults \subseteq FaultKinds
    /\ before \in [Sides -> [Paths -> Entries]]
    /\ upset \subseteq FaultKinds \union {"edit"}
    /\ reported \in BOOLEAN
    /\ insync \in BOOLEAN
    /\ misread \subseteq Paths
    /\ written \in [Paths -> Nat]
    /\ \A s \in Sides, p \in Paths : store[s][p].ch \subseteq Children(p)
    /\ run # "syncing" => task = [p \in Paths |-> Off]

\* Two empty namespaces.
Init ==
    /\ \E k \in KindPairs, m \in Modes :
            /\ kind = [s \in Sides |-> IF s = "left" THEN k[1] ELSE k[2]]
            /\ bidir = m[1]
            /\ keep = m[2]
    /\ busy \in BusyModes
    /\ store = [s \in Sides |->
                    [p \in Paths |-> IF p = Root THEN [Missing EXCEPT !.mtime = 1, !.data = Empty]
                                     ELSE Missing]]
    /\ run = "idle"
    /\ task = [p \in Paths |-> Off]
    /\ clock = 2
    /\ faults = IF busy THEN {} ELSE Faults
    /\ before = store
    /\ upset = {}
    /\ reported = FALSE
    /\ insync = FALSE
    /\ misread = {}
    /\ written = [p \in Paths |-> 0]

----------------------------------------------------------------------------
(* Users, outside the runs *)

Editable == (busy \/ run # "syncing") /\ clock + 2 <= MaxClock

Edited(s, st, p, data) ==
    /\ store' = [store EXCEPT ![s] = st]
    /\ written' = IF ~bidir /\ s = "right" THEN written
                  ELSE [q \in Paths |-> IF q = p THEN data
                                        ELSE IF p \in Above[q] THEN 0 ELSE written[q]]
    /\ clock' = clock + 2
    /\ upset' = upset \union {"edit"}
    /\ insync' = FALSE
    /\ run' = IF run = "syncing" THEN run ELSE "idle"
    /\ before' = IF run = "syncing" THEN before ELSE store'
    /\ UNCHANGED <<options, task, faults, reported, misread>>

\* The parent of p with p among its children or not.
Relisted(s, p, children) ==
    [store[s] EXCEPT ![Parent[p]] =
        [mtime |-> clock + 2, data |-> Empty, ch |-> children]]

\* The user writes a content, or makes a namespace.
EditEntry(s, p) ==
    LET dir == store[s][Parent[p]]
        entry == [mtime |-> clock + 2, ch |-> {},
                  data |-> IF p \in Spaces THEN Empty ELSE clock + 2]
    IN /\ Editable
       /\ Listed(store[s], Parent[p])
       /\ p \in Spaces => p \notin dir.ch
       /\ Edited(s, [IF p \in dir.ch THEN store[s] ELSE Relisted(s, p, dir.ch \union {p})
                        EXCEPT ![p] = entry],
                 p, IF p \in Spaces THEN 0 ELSE clock + 2)

\* The user removes an entry, with all it holds. ODss.remove only unlists it.
RemoveEntry(s, p) ==
    LET dir == store[s][Parent[p]]
        unlisted == Relisted(s, p, dir.ch \ {p})
    IN /\ Editable
       /\ Listed(store[s], p)
       /\ Edited(s, IF kind[s] = "object" THEN unlisted
                    ELSE [q \in Paths |-> IF q = p \/ p \in Above[q] THEN Missing
                                          ELSE unlisted[q]],
                 p, 0)

----------------------------------------------------------------------------
(* A run *)

runVars == <<options, clock, before, written>>
noFault == <<faults, upset, insync, misread>>

\* doSynchronize: both roots are there, so the run starts.
BeginRun ==
    /\ run # "syncing"
    /\ run' = "syncing"
    /\ task' = [task EXCEPT ![Root] = Task([s \in Sides |-> TRUE], FALSE)]
    /\ before' = store
    /\ upset' = {}
    /\ reported' = FALSE
    /\ UNCHANGED <<options, store, clock, faults, insync, misread, written>>

\* Something that may go wrong once does.
happened == IF busy THEN {} ELSE Faults \ faults

Mishap(f) ==
    /\ f \in faults
    /\ Cardinality(happened) < MaxFaults
    /\ faults' = faults \ {f}
    /\ upset' = upset \union {f}
    /\ insync' = FALSE

Fault(f) == Mishap(f) /\ UNCHANGED misread

NoFault == UNCHANGED noFault

\* lsnsMeta and getMeta, one side of plizedGetLRMeta: a side whose metadata
\* cannot be read does not exist for the rest of the task. Only the ancestors of
\* an entry of an object store are read so: oDssBaseImpl.getMeta drops the error
\* of reading the entry itself, which is then there with no time and no children.
ReadMeta(p, s) ==
    LET t == task[p]
        found(meta) == [t EXCEPT !.unread = @ \ {s}, !.meta[s] = meta]
        gone == [t EXCEPT !.unread = @ \ {s}, !.exist[s] = FALSE, !.failed = @ \union {s}]
        learns(r) == task' = [task EXCEPT ![p] = r]
    IN /\ t.step = "metas"
       /\ s \in t.unread
       /\ \/ learns(IF Listed(store[s], p) THEN found(store[s][p]) ELSE gone) /\ NoFault
          \/ learns(gone) /\ (kind[s] = "fsy" \/ p # Root) /\ Fault("read")
          \/ /\ kind[s] = "object" /\ Listed(store[s], p)
             /\ learns(found(Missing))
             /\ Mishap("misread")
             /\ misread' = misread \union {q \in {p} : s = "left"}
       /\ UNCHANGED <<runVars, store, run, reported>>

\* Both sides are read.
Evaluated(p) == task[p].step = "metas" /\ task[p].unread = {}

\* The task ends with rent.Err set.
GiveUp(p) ==
    /\ Evaluated(p)
    /\ GivesUp(task[p])
    /\ task' = [task EXCEPT ![p].step = "done", ![p].err = TRUE]
    /\ reported' = TRUE
    /\ UNCHANGED <<runVars, store, run, noFault>>

\* evalNsMerge is over, or evalMergeNsMeta panics and the process with it.
Merge(p) ==
    /\ p \in Spaces
    /\ Evaluated(p)
    /\ ~GivesUp(task[p])
    /\ IF NoMeta(task[p])
       THEN /\ run' = "failed"
            /\ task' = [q \in Paths |-> Off]
       ELSE /\ task' = [task EXCEPT ![p].step = "leftBefore"]
            /\ UNCHANGED run
    /\ UNCHANGED <<runVars, store, noFault, reported>>

\* One half of mergeNsBefore or mergeNsAfter, then the next step of the task.
\* An error stops all later merges of the namespace.
WriteNs(p, s, needed, making, children, next) ==
    LET t == task[p]
        become(st, err) ==
            /\ store' = [store EXCEPT ![s] = st]
            /\ task' = next[err]
        attempt ==
            IF RefusesNs(s, p, making) THEN become(store[s], TRUE)
            ELSE become(PutNs(s, p, children, mergedMtime(t)), FALSE)
    IN \/ (t.err \/ ~needed) /\ become(store[s], t.err) /\ NoFault
       \/ (~t.err /\ needed) /\ attempt /\ NoFault
       \/ (~t.err /\ needed) /\ become(store[s], TRUE) /\ Fault("write")

Advance(p, step) ==
    [err \in BOOLEAN |-> [task EXCEPT ![p].step = step, ![p].err = err]]

LeftBefore(p) ==
    LET t == task[p]
    IN /\ t.step = "leftBefore"
       /\ WriteNs(p, "left", NeedsBefore(t, "left"), MakesBefore(t, "left"),
                  MergedBefore(t, "left"), Advance(p, "rightBefore"))
       /\ UNCHANGED <<runVars, run, reported>>

\* The children tasks start when the right side is written.
SpawnChildren(p) ==
    LET t == task[p]
    IN [err \in BOOLEAN |->
         [q \in Paths |->
            IF q = p THEN [t EXCEPT !.step = "children", !.err = err]
            ELSE IF q \in leftAndRight(t)
                 THEN Task([s \in Sides |-> q \in exCh(t, s)], err)
                 ELSE task[q]]]

RightBefore(p) ==
    LET t == task[p]
    IN /\ t.step = "rightBefore"
       /\ WriteNs(p, "right", NeedsBefore(t, "right"), MakesBefore(t, "right"),
                  MergedBefore(t, "right"), SpawnChildren(p))
       /\ reported' = (reported \/ (leftAndRight(t) # {} /\ task'[p].err))
       /\ UNCHANGED <<runVars, run>>

\* LaunchAndWait returns when every child is done.
LeftAfter(p) ==
    LET t == task[p]
    IN /\ t.step = "children"
       /\ \A q \in leftAndRight(t) : task[q].step = "done"
       /\ WriteNs(p, "left", NeedsAfter(t, "left"), MakesAfter(t, "left"),
                  MergedAfter(t, "left"), Advance(p, "rightAfter"))
       /\ UNCHANGED <<runVars, run, reported>>

RightAfter(p) ==
    LET t == task[p]
    IN /\ t.step = "rightAfter"
       /\ WriteNs(p, "right", NeedsAfter(t, "right"), MakesAfter(t, "right"),
                  MergedAfter(t, "right"), Advance(p, "done"))
       /\ UNCHANGED <<runVars, run, reported>>

----------------------------------------------------------------------------
(* crUpContent *)

Origin(t) == IF RTL(t) THEN "right" ELSE "left"
Target(t) == Other(Origin(t))

Ends(p, err) ==
    /\ task' = [task EXCEPT ![p].step = "done", ![p].err = err]
    /\ reported' = (reported \/ err)

\* The callback of crUpContent: no metadata says size 0 and no checksum.
Differs(data, meta) ==
    data # meta.data /\ ~(data = Empty /\ meta.data = Nothing)

\* Faulty variant: the content keeps the time it was written at.
CloseUntimed(p, data) ==
    LET t == task[p]
    IN /\ store' = [store EXCEPT ![Target(t)] = PutContent(Target(t), p, Now, data)]
       /\ Ends(p, Differs(data, t.meta[Origin(t)]))

\* The target takes data under the modification time read from the origin;
\* closeErr is set when this is not the data the origin had.
Close(p, data) ==
    LET t == task[p]
        meta == t.meta[Origin(t)]
    IN /\ store' = [store EXCEPT ![Target(t)] = PutContent(Target(t), p, meta.mtime, data)]
       /\ Ends(p, Differs(data, meta))

CopyReady(p) == p \notin Spaces /\ Evaluated(p) /\ ~GivesUp(task[p])

SkipContent(p) ==
    /\ CopyReady(p)
    /\ ~Created(task[p]) /\ ~Updated(task[p])
    /\ Ends(p, FALSE)
    /\ UNCHANGED <<runVars, store, run, noFault>>

\* Faulty variant: an object store writes in place.
OpenedInPlace(s, p) == PutContent(s, p, Now, Empty)

\* A file is truncated as soon as it is opened, an object store writes to a
\* temporary file.
Opened(s, p) == IF kind[s] = "object" THEN store[s] ELSE PutContent(s, p, Now, Empty)

\* GetContentReader and GetContentWriter succeed or not; when one of them fails
\* nothing is written.
OpenContent(p) ==
    LET t == task[p]
        tgt == Target(t)
    IN /\ CopyReady(p)
       /\ Created(t) \/ Updated(t)
       /\ \/ /\ ~Unreadable(Origin(t), p) /\ ~RefusesContent(tgt, p)
             /\ task' = [task EXCEPT ![p].step = "fill"]
             /\ store' = [store EXCEPT ![tgt] = Opened(tgt, p)]
             /\ UNCHANGED reported
             /\ NoFault
          \/ /\ Ends(p, TRUE)
             /\ UNCHANGED store
             /\ \/ (Unreadable(Origin(t), p) \/ RefusesContent(tgt, p)) /\ NoFault
                \/ Fault("read")
                \/ Fault("write")
       /\ UNCHANGED <<runVars, run>>

\* io.Copy, then Close. A copy cut short is closed all the same, and what was
\* copied gets the modification time of the origin. A Close that fails leaves
\* an object store as it was and a file system without the file.
FillContent(p) ==
    LET t == task[p]
        src == store[Origin(t)][p]
    IN /\ t.step = "fill"
       /\ IF RefusesContent(Target(t), p)
          THEN Ends(p, TRUE) /\ UNCHANGED store /\ NoFault
          ELSE \/ /\ Close(p, IF Unreadable(Origin(t), p) THEN t.meta[Origin(t)].data
                             ELSE src.data)
                  /\ NoFault
               \/ Close(p, Torn) /\ Fault("copy")
               \/ /\ Ends(p, TRUE)
                  /\ store' = [store EXCEPT ![Target(t)] =
                                IF kind[Target(t)] = "object" THEN @ ELSE RemoveFile(Target(t), p)]
                  /\ Fault("write")
       /\ UNCHANGED <<runVars, run>>

----------------------------------------------------------------------------
(* What a run is for: where it leads from the stores it began with *)

Wanted(s, p) ==
    LET L == Listed(before["left"], p)
        R == Listed(before["right"], p)
    IN IF s = "left" THEN L \/ (bidir /\ ~keep /\ R)
       ELSE L \/ (R /\ (bidir \/ keep))

Winner(p) ==
    LET L == Listed(before["left"], p)
        R == Listed(before["right"], p)
        newer == before["right"][p].mtime > before["left"][p].mtime
    IN IF ~L \/ (R /\ bidir /\ newer /\ p \notin Spaces) THEN before["right"][p]
       ELSE before["left"][p]

\* Side s shows exactly the entries it should, with the winner's content and
\* modification time.
Reached(s) ==
    \A p \in Paths :
        /\ Listed(store[s], p) <=> Wanted(s, p)
        /\ Listed(store[s], p) =>
                /\ store[s][p].mtime = Winner(p).mtime
                /\ p \notin Spaces => store[s][p].data = Winner(p).data

\* Both sides show the same tree.
SameView ==
    \A p \in Paths :
        /\ Listed(store["left"], p) <=> Listed(store["right"], p)
        /\ Listed(store["left"], p) =>
                /\ store["left"][p].mtime = store["right"][p].mtime
                /\ p \notin Spaces => store["left"][p].data = store["right"][p].data

\* Every entry a side lists has metadata.
Described ==
    \A s \in Sides, p \in Paths : Listed(store[s], p) => store[s][p].data # Nothing

\* Faulty variant: the tasks of the run linger.
EndRunLingering ==
    /\ task[Root].step = "done"
    /\ run' = "finished"
    /\ insync' = (upset = {} /\ ~reported /\ ~keep /\ Described)
    /\ UNCHANGED <<options, store, task, clock, faults, before, upset, reported, misread, written>>

EndRun ==
    /\ task[Root].step = "done"
    /\ run' = "finished"
    /\ task' = [p \in Paths |-> Off]
    /\ insync' = (upset = {} /\ ~reported /\ ~keep /\ Described)
    /\ UNCHANGED <<options, store, clock, faults, before, upset, reported, misread, written>>

\* The process stops between two steps.
Crash ==
    /\ run = "syncing"
    /\ Fault("crash")
    /\ run' = "failed"
    /\ task' = [p \in Paths |-> Off]
    /\ UNCHANGED <<runVars, store, reported>>

----------------------------------------------------------------------------
SyncNs(p) ==
    \/ Merge(p)
    \/ LeftBefore(p)
    \/ RightBefore(p)
    \/ LeftAfter(p)
    \/ RightAfter(p)

SyncContent(p) ==
    \/ SkipContent(p)
    \/ OpenContent(p)
    \/ FillContent(p)

SyncEntry(p) ==
    \/ \E s \in Sides : ReadMeta(p, s)
    \/ GiveUp(p)
    \/ SyncNs(p)
    \/ SyncContent(p)

SyncStep == BeginRun \/ EndRun \/ \E p \in Paths : SyncEntry(p)

EditStep ==
    \E s \in Sides, p \in Paths \ {Root} : EditEntry(s, p) \/ RemoveEntry(s, p)

Next == SyncStep \/ EditStep \/ Crash

Spec == Init /\ [][Next]_vars

\* The scheduler launches runs again and again, and the goroutines of a run
\* are never starved. Nobody has to edit and nothing has to go wrong.
FairSpec == Spec /\ WF_vars(SyncStep)

----------------------------------------------------------------------------
(* Properties *)

\* A run that nothing disturbed and that reports no error leaves each side with
\* the entries, contents and modification times it was to have: the left side's
\* from left to right, the newest of both sides otherwise.
Synchronized ==
    run = "finished" /\ upset = {} /\ ~reported => \A s \in Sides : Reached(s)

\* What SyncReport.HasErrors says: a run that reports no error, faults or not,
\* synchronized everything.
ReportTruthful ==
    run = "finished" /\ "edit" \notin upset /\ ~reported => \A s \in Sides : Reached(s)

\* An undisturbed run over sides that are in sync writes nothing, not even
\* metadata.
InSyncIdle == [][insync /\ insync' => store' = store]_vars

Holds(s, p, data) == Listed(store[s], p) /\ store[s][p].data = data

\* "if false synchronization is done from left to right": what the user wrote on
\* the left side is there until the user removes or replaces it.
SourceKept ==
    ~bidir => \A p \in Paths : written[p] # 0 => Holds("left", p, written[p])

\* No namespace above p was read as empty from the left side.
Seen(p) == Above[p] \intersect misread = {}

\* The same, whatever fails or stops the runs, when nobody edits during one: all
\* that can take a content away is a namespace above it that an object store has
\* read as empty, whose list is then written back empty.
SourceKeptAtRest ==
    ~busy /\ ~bidir =>
        \A p \in Paths : written[p] # 0 /\ Seen(p) => Holds("left", p, written[p])

\* "bidirectional synchronization, the latest modified content wins": the last
\* content the users wrote at p, on either side, is still on one of them.
NewestKept ==
    bidir => \A p \in Paths : written[p] # 0 => \E s \in Sides : Holds(s, p, written[p])

\* The same between object stores, when nobody edits during a run and nothing
\* but crashes and refused writes happens.
NewestSurvives ==
    /\ \A s \in Sides : kind[s] = "object"
    /\ happened \subseteq {"crash", "write"}
    /\ ~busy
    => NewestKept

\* From left to right, an entry both sides had when the run began never vanishes
\* from the right side, whatever stops the run, unless a namespace above it was
\* read as empty from the left or it is a file whose Close failed; and an object
\* store has its old or its new content at any moment, but for a copy cut short.
TargetKept ==
    ~bidir /\ "edit" \notin upset =>
        \A p \in Paths :
            Listed(before["left"], p) /\ Listed(before["right"], p) /\ Seen(p) =>
                /\ \/ Listed(store["right"], p)
                   \/ kind["right"] = "fsy" /\ p \notin Spaces /\ "write" \in upset
                /\ kind["right"] = "object" /\ "copy" \notin upset /\ p \notin Spaces =>
                        store["right"][p].data \in {before[s][p].data : s \in Sides}

\* Runs launched again and again end with both sides the same, once edits and
\* faults are over.
Converges == <>[](~keep => SameView)
=============================================================================
