---------------------------- MODULE IndexedStore ----------------------------
(***************************************************************************)
(* The metadata of an object store DSS: files in the storage (olf.go), and *)
(* the index of what they hold (index.go), kept together by odss.go.       *)
(*                                                                         *)
(* Every update of an entry is a new version of its metadata, named by its *)
(* index time; the newest version is the entry. The goroutines of one      *)
(* process (the works of a synchronization, the requests of a web server)  *)
(* read, write and remove versions; each call of the index or of the       *)
(* storage is a step. A process may crash between any two steps.           *)
(*                                                                         *)
(* Left out: access rights, the check that the parent lists the entry, the *)
(* content of a version.                                                   *)
(***************************************************************************)
EXTENDS Naturals, FiniteSets

CONSTANTS
    Paths,      \* the entries
    Threads,    \* the goroutines of the process
    MaxTime,    \* bound: no version is written after this time
    Uses,       \* the uses considered
    NoEntry     \* the index knows nothing of a path

ASSUME TimeBound == MaxTime \in Nat

\* A use: the goroutines at work and what they do, the implementations of the
\* index and those that may be opened empty on a storage that is not, the
\* versions that a path may have to begin with, and a bound on the later ones.
ASSUME UsesComplete ==
    \A u \in Uses :
        /\ {"threads", "ops", "kinds", "cold", "priors", "last"} \subseteq DOMAIN u
        /\ u.threads \subseteq Threads
        /\ u.ops \subseteq {"read", "write", "remove"}
        /\ u.kinds \subseteq {"bdb", "memory", "no"} /\ u.cold \subseteq u.kinds
        /\ u.last \in 1 .. MaxTime /\ u.priors \subseteq SUBSET (1 .. u.last)

Times == 1 .. MaxTime

ASSUME PathsExist == Paths # {}
ASSUME NoEntryDistinct == \A times \in SUBSET Times : times # NoEntry

\* A use in which goroutines do not lose each other's versions, as long as a bdb
\* index lists what the storage holds: either one goroutine is at work, or none
\* removes versions, the index does not die with the process, and every path
\* has been written before.
CarefulUse(u) ==
    \/ \E th \in Threads : u.threads = {th}
    \/ "remove" \notin u.ops /\ "memory" \notin u.kinds /\ {} \notin u.priors

VARIABLES
    use,        \* the use, which never changes
    kind,       \* the implementation of the index in this configuration
    up,         \* a process has the DSS open
    lock,       \* the key g/lock of the bdb index
    rebuild,    \* how far the reindex command is with a new index file
    stored,     \* the versions of each path that have a file in the storage
    whole,      \* those whose file is completely written
    imts,       \* the times of each path in the index
    imeta,      \* the versions whose metadata is in the index
    clock,      \* the last index time given
    call,       \* what each goroutine is doing
    acked,      \* history: versions whose write succeeded, not removed since
    gone,       \* history: versions whose removal succeeded
    failed,     \* history: versions whose write failed or was cut by a crash
    emptied     \* history: the bdb index was empty on a storage that may not be,
                \*          and has not been rebuilt since

storeVars == <<stored, whole>>
indexVars == <<imts, imeta>>
histVars  == <<acked, gone, failed>>
procVars  == <<use, kind, up, lock, rebuild, emptied>>
vars == <<procVars, storeVars, indexVars, clock, call, histVars>>

Steps == {"idle", "query", "list", "fill", "load", "fetch", "keep",
          "stamp", "index", "create", "write", "select", "unindex", "delete"}

\* reindexPIndex: the old file is unlocked and removed, an empty one is opened,
\* locked and released by NewPIndex and Close, and filled in one transaction.
Phases == {"none", "unlocked", "removed", "relocked", "released", "filled"}

\* What a goroutine is doing.
Call == [step : Steps, op : use.ops \union {"none"}, path : Paths,
         seen : SUBSET Times, todo : SUBSET Times,
         time : 0 .. MaxTime, floor : 0 .. MaxTime]

TypeOK ==
    /\ use \in Uses /\ kind \in use.kinds
    /\ up \in BOOLEAN /\ lock \in BOOLEAN
    /\ rebuild \in Phases /\ emptied \in BOOLEAN
    /\ stored \in [Paths -> SUBSET Times]
    /\ whole \in [Paths -> SUBSET Times]
    /\ imts \in [Paths -> (SUBSET Times) \union {NoEntry}]
    /\ imeta \in [Paths -> SUBSET Times]
    /\ clock \in 0 .. MaxTime
    /\ call \in [Threads -> Call]
    /\ acked \in [Paths -> SUBSET Times]
    /\ gone \in [Paths -> SUBSET Times]
    /\ failed \in [Paths -> SUBSET Times]

Newest(times) == IF times = {} THEN 0 ELSE CHOOSE t \in times : \A u \in times : u <= t
Oldest(times) == CHOOSE t \in times : \A u \in times : t <= u

\* What the next reader is told of the versions of a path.
Listed(p) == IF imts[p] = NoEntry THEN stored[p] ELSE imts[p]

Idle == [step |-> "idle", op |-> "none", path |-> CHOOSE p \in Paths : TRUE,
         seen |-> {}, todo |-> {}, time |-> 0, floor |-> 0]

NoTimes == [p \in Paths |-> NoEntry]
NoMetas == [p \in Paths |-> {}]

\* A bdb index that is not cold already lists what the storage holds.
Init ==
    /\ use \in Uses
    /\ kind \in use.kinds
    /\ up = FALSE
    /\ lock = FALSE
    /\ rebuild = "none"
    /\ emptied = (kind = "bdb" /\ kind \in use.cold)
    /\ stored \in [Paths -> use.priors]
    /\ whole = stored
    /\ IF kind = "bdb" /\ ~emptied
       THEN /\ imts = [p \in Paths |-> IF stored[p] = {} THEN NoEntry ELSE stored[p]]
            /\ imeta = stored
       ELSE imts = NoTimes /\ imeta = NoMetas
    /\ clock = Newest(UNION {stored[p] : p \in Paths})
    /\ call = [th \in Threads |-> Idle]
    /\ acked = stored
    /\ gone = NoMetas
    /\ failed = NoMetas

----------------------------------------------------------------------------
(* The index. nIndex, the implementation "no", keeps nothing.              *)

storeMetaTimes(p, times) ==
    /\ imts' = IF kind = "no" THEN imts ELSE [imts EXCEPT ![p] = times]
    /\ UNCHANGED imeta

\* Faulty variant: a path that is known keeps its list of times.
storeMetaUnlisted(p, t) ==
    IF kind = "no" THEN UNCHANGED indexVars
    ELSE /\ imts' = [imts EXCEPT ![p] = IF @ = NoEntry THEN {t} ELSE @]
         /\ imeta' = [imeta EXCEPT ![p] = @ \union {t}]

\* Faulty variant: the time is listed, the metadata is not kept.
storeMetaTimeOnly(p, t) ==
    IF kind = "no" THEN UNCHANGED indexVars
    ELSE /\ imts' = [imts EXCEPT ![p] = (IF @ = NoEntry THEN {} ELSE @) \union {t}]
         /\ UNCHANGED imeta

storeMeta(p, t) ==
    IF kind = "no" THEN UNCHANGED indexVars
    ELSE /\ imts' = [imts EXCEPT ![p] = (IF @ = NoEntry THEN {} ELSE @) \union {t}]
         /\ imeta' = [imeta EXCEPT ![p] = @ \union {t}]

hasMeta(p, t) == kind = "no" \/ (imts[p] # NoEntry /\ t \in imts[p] \intersect imeta[p])

\* Faulty variant: the list is cut where the removed time was found.
removeMetaCut(p, t) ==
    IF kind = "no" THEN UNCHANGED indexVars
    ELSE /\ imts' = [imts EXCEPT ![p] = {u \in @ : u < t}]
         /\ imeta' = [imeta EXCEPT ![p] = @ \ {t}]

\* Faulty variant: the metadata is removed, its time stays listed.
removeMetaListed(p, t) ==
    IF kind = "no" THEN UNCHANGED indexVars
    ELSE /\ UNCHANGED imts
         /\ imeta' = [imeta EXCEPT ![p] = @ \ {t}]

\* mIndex forgets the path with its last version, pIndex keeps an empty list.
removeMeta(p, t) ==
    IF kind = "no" THEN UNCHANGED indexVars
    ELSE /\ imts' = [imts EXCEPT ![p] =
                        IF kind = "memory" /\ @ = {t} THEN NoEntry ELSE @ \ {t}]
         /\ imeta' = [imeta EXCEPT ![p] = @ \ {t}]

\* Times without metadata are dropped, and a list left empty is deleted.
doRepair ==
    imts' = [p \in Paths |->
                IF imts[p] = NoEntry \/ imts[p] \intersect imeta[p] = {}
                THEN NoEntry
                ELSE imts[p] \intersect imeta[p]]

----------------------------------------------------------------------------
(* A call, in its goroutine                                                *)

At(th, step) == up /\ call[th].step = step
Goto(th, step) == call' = [call EXCEPT ![th].step = step]
Finish(th) == call' = [call EXCEPT ![th] = Idle]

\* An error ends a read or a removal. A write ignores it and goes on, for it
\* looked at the entry only to check the access rights.
Fail(th) ==
    IF call[th].op = "write"
    THEN call' = [call EXCEPT ![th].step = "stamp", ![th].todo = {}]
    ELSE Finish(th)

\* metaTimesFor: a reader and a writer want the newest version, RemoveHistory
\* wants them all.
Wanted(th, times) ==
    IF call[th].op = "remove" THEN times ELSE {Newest(times)}

Choose(th, times, step) ==
    IF times = {} /\ call[th].op # "read" THEN Fail(th)
    ELSE call' = [call EXCEPT
                    ![th].step = IF times = {} THEN "idle" ELSE step,
                    ![th].seen = times,
                    ![th].todo = IF times = {} THEN {} ELSE Wanted(th, times),
                    ![th].time = IF call[th].op = "read" THEN Newest(times) ELSE 0]

Begin(th, op, p) ==
    /\ At(th, "idle") /\ rebuild = "none"
    /\ call' = [call EXCEPT ![th] =
                  [Idle EXCEPT !.step = "query", !.op = op, !.path = p,
                               !.floor = Newest(acked[p])]]
    /\ UNCHANGED <<procVars, storeVars, indexVars, clock, histVars>>

QueryTimes(th) ==
    LET p == call[th].path IN
    /\ At(th, "query")
    /\ IF imts[p] = NoEntry THEN Goto(th, "list") ELSE Choose(th, imts[p], "load")
    /\ UNCHANGED <<procVars, storeVars, indexVars, clock, histVars>>

\* The storage lists the versions that have a file.
ListStorage(th) ==
    /\ At(th, "list")
    /\ Choose(th, stored[call[th].path], "fill")
    /\ UNCHANGED <<procVars, storeVars, indexVars, clock, histVars>>

ListFails(th) ==
    /\ At(th, "list")
    /\ Fail(th)
    /\ UNCHANGED <<procVars, storeVars, indexVars, clock, histVars>>

\* doGetMetaTimesFor puts in the index what the storage listed before.
FillIndex(th) ==
    /\ At(th, "fill")
    /\ storeMetaTimes(call[th].path, call[th].seen)
    /\ Goto(th, "load")
    /\ UNCHANGED <<procVars, storeVars, clock, histVars>>

\* doGetMetaAt, for each version wanted, the oldest first: from the index, else
\* from the storage.
LoadMeta(th) ==
    LET c == call[th] IN
    /\ At(th, "load") /\ c.todo # {}
    /\ Goto(th, IF Oldest(c.todo) \in imeta[c.path] THEN "keep" ELSE "fetch")
    /\ UNCHANGED <<procVars, storeVars, indexVars, clock, histVars>>

\* A file that is missing or half written fails the whole call, unless the
\* call is a write, which ignores the error.
FetchMeta(th) ==
    LET c == call[th] IN
    /\ At(th, "fetch")
    /\ IF Oldest(c.todo) \in whole[c.path]
       THEN Goto(th, "keep")
       ELSE Fail(th)
    /\ UNCHANGED <<procVars, storeVars, indexVars, clock, histVars>>

\* Faulty variant: the metadata is indexed under the time it is now.
KeepMetaNow(th) ==
    LET c == call[th] IN
    /\ At(th, "keep")
    /\ storeMeta(c.path, clock)
    /\ call' = [call EXCEPT ![th].step = "load", ![th].todo = @ \ {Oldest(c.todo)}]
    /\ UNCHANGED <<procVars, storeVars, clock, histVars>>

\* Whatever it came from, the metadata is stored in the index.
KeepMeta(th) ==
    LET c == call[th] IN
    /\ At(th, "keep")
    /\ storeMeta(c.path, Oldest(c.todo))
    /\ call' = [call EXCEPT ![th].step = "load", ![th].todo = @ \ {Oldest(c.todo)}]
    /\ UNCHANGED <<procVars, storeVars, clock, histVars>>

Loaded(th) ==
    LET c == call[th] IN
    /\ At(th, "load") /\ c.todo = {}
    /\ Goto(th, CASE c.op = "read"   -> "idle"
                  [] c.op = "write"  -> "stamp"
                  [] c.op = "remove" -> "select")
    /\ UNCHANGED <<procVars, storeVars, indexVars, clock, histVars>>

----------------------------------------------------------------------------
(* Writing: storeAndIndexMeta, the index first                             *)

\* Faulty variant: the metadata keeps a zero index time.
StampForgotten(th) ==
    /\ At(th, "stamp")
    /\ clock < use.last
    /\ clock' = clock + 1
    /\ call' = [call EXCEPT ![th].step = "index", ![th].time = 0]
    /\ UNCHANGED <<procVars, storeVars, indexVars, histVars>>

\* getMetaBytes reads the clock.
Stamp(th) ==
    /\ At(th, "stamp")
    /\ clock < use.last
    /\ clock' = clock + 1
    /\ call' = [call EXCEPT ![th].step = "index", ![th].time = clock']
    /\ UNCHANGED <<procVars, storeVars, indexVars, histVars>>

IndexMeta(th) ==
    /\ At(th, "index")
    /\ storeMeta(call[th].path, call[th].time)
    /\ Goto(th, "create")
    /\ UNCHANGED <<procVars, storeVars, clock, histVars>>

CreateFile(th) ==
    /\ At(th, "create")
    /\ stored' = [stored EXCEPT ![call[th].path] = @ \union {call[th].time}]
    /\ Goto(th, "write")
    /\ UNCHANGED <<procVars, whole, indexVars, clock, histVars>>

WriteFile(th) ==
    LET p == call[th].path IN
    /\ At(th, "write")
    /\ whole' = [whole EXCEPT ![p] = @ \union {call[th].time}]
    /\ acked' = [acked EXCEPT ![p] = @ \union {call[th].time}]
    /\ Finish(th)
    /\ UNCHANGED <<procVars, stored, indexVars, clock, gone, failed>>

\* No space left, say: the file is removed and the index is not told.
StoreFails(th) ==
    LET p == call[th].path IN
    /\ up /\ call[th].step \in {"create", "write"}
    /\ stored' = [stored EXCEPT ![p] = @ \ {call[th].time}]
    /\ failed' = [failed EXCEPT ![p] = @ \union {call[th].time}]
    /\ Finish(th)
    /\ UNCHANGED <<procVars, whole, indexVars, clock, acked, gone>>

----------------------------------------------------------------------------
(* Removing: doRemoveHistory, the index first                              *)

\* The versions visible in the given period; the call goes on until a pass
\* finds none.
SelectPeriod(th) ==
    /\ At(th, "select")
    /\ \E period \in SUBSET call[th].seen :
          IF period = {} THEN Finish(th)
          ELSE call' = [call EXCEPT ![th].step = "unindex", ![th].todo = period]
    /\ UNCHANGED <<procVars, storeVars, indexVars, clock, histVars>>

xRemoveMeta(th) ==
    LET p == call[th].path IN
    /\ At(th, "unindex")
    /\ IF call[th].todo = {}
       THEN /\ Goto(th, "query")
            /\ UNCHANGED <<indexVars, acked>>
       ELSE \E t \in call[th].todo :
               /\ acked' = [acked EXCEPT ![p] = @ \ {t}]
               /\ IF hasMeta(p, t)
                  THEN /\ removeMeta(p, t)
                       /\ call' = [call EXCEPT ![th].step = "delete", ![th].time = t]
                  ELSE Finish(th) /\ UNCHANGED indexVars
    /\ UNCHANGED <<procVars, storeVars, clock, gone, failed>>

DeleteFile(th) ==
    LET p == call[th].path
        t == call[th].time
    IN
    /\ At(th, "delete")
    /\ IF t \in stored[p]
       THEN /\ stored' = [stored EXCEPT ![p] = @ \ {t}]
            /\ whole' = [whole EXCEPT ![p] = @ \ {t}]
            /\ gone' = [gone EXCEPT ![p] = @ \union {t}]
            /\ call' = [call EXCEPT ![th].step = "unindex", ![th].todo = @ \ {t}]
       ELSE Finish(th) /\ UNCHANGED <<storeVars, gone>>
    /\ UNCHANGED <<procVars, indexVars, clock, acked, failed>>

\* The file cannot be removed: it stays, and the index does not list it.
DeleteFails(th) ==
    /\ At(th, "delete")
    /\ Finish(th)
    /\ UNCHANGED <<procVars, storeVars, indexVars, clock, histVars>>

----------------------------------------------------------------------------
(* The process                                                             *)

Quiet == \A th \in Threads : call[th].step = "idle"

\* What the file of the index holds, once the process that rebuilt it ended.
LeaveFile ==
    \/ rebuild \in {"none", "unlocked"} /\ UNCHANGED <<indexVars, emptied>>
    \/ /\ rebuild \in {"removed", "relocked", "released"}
       /\ imts' = NoTimes /\ imeta' = NoMetas /\ emptied' = TRUE
    \/ /\ rebuild = "filled"
       /\ imts' = [p \in Paths |-> IF whole[p] = {} THEN NoEntry ELSE whole[p]]
       /\ imeta' = whole /\ emptied' = FALSE

\* The index of a memory configuration dies with the process.
LeaveIndex ==
    IF kind = "memory" THEN imts' = NoTimes /\ imeta' = NoMetas /\ UNCHANGED emptied
    ELSE LeaveFile

\* The process ends, and its calls with it.
EndProcess == up' = FALSE /\ rebuild' = "none" /\ call' = [th \in Threads |-> Idle]

\* NewPIndex: a lock that was left refuses the index, unless asked to unlock.
Open(unlock, autoRepair) ==
    /\ ~up
    /\ lock => unlock
    /\ up' = TRUE
    /\ lock' = (kind = "bdb")
    /\ IF lock /\ autoRepair THEN doRepair ELSE UNCHANGED imts
    /\ UNCHANGED <<use, kind, rebuild, emptied, storeVars, imeta, clock, call, histVars>>

\* The reducer is closed first: every call has returned.
Close ==
    /\ up /\ Quiet /\ rebuild = "none"
    /\ EndProcess
    /\ lock' = FALSE
    /\ LeaveIndex
    /\ UNCHANGED <<use, kind, storeVars, clock, histVars>>

\* What was being written is lost, or half written; the lock stays.
Crash ==
    /\ up
    /\ EndProcess
    /\ failed' = [p \in Paths |-> failed[p] \union
                     {call[th].time : th \in {h \in Threads :
                         call[h].path = p /\ call[h].step \in {"index", "create", "write"}}}]
    /\ LeaveIndex
    /\ UNCHANGED <<use, kind, lock, storeVars, clock, acked, gone>>

Following(phase) ==
    CASE phase = "none"     -> "unlocked"
      [] phase = "unlocked" -> "removed"
      [] phase = "removed"  -> "relocked"
      [] phase = "relocked" -> "released"
      [] phase = "released" -> "filled"

\* The reindex command, which read every metadata file first, goes one step on
\* with the new file. Until it ends, the process has the old index in memory.
Reindex ==
    /\ up /\ Quiet /\ kind = "bdb"
    /\ rebuild # "filled"
    /\ rebuild' = Following(rebuild)
    /\ lock' = (rebuild' = "relocked")
    /\ UNCHANGED <<use, kind, up, emptied, storeVars, indexVars, clock, call, histVars>>

\* The command closes the DSS at the end, and wherever a step failed: the error
\* of the transaction that fills the file is dropped. pIndex.Close shrinks the
\* handle it has on the old file; whether that brings the old index back under
\* the file's name is buntdb's business: both outcomes are taken as possible.
ReindexCloses ==
    /\ up /\ rebuild \notin {"none", "relocked"}
    /\ EndProcess
    /\ lock' = FALSE
    /\ LeaveFile \/ UNCHANGED <<indexVars, emptied>>
    /\ UNCHANGED <<use, kind, storeVars, clock, histVars>>

----------------------------------------------------------------------------
ReadStep(th) ==
    \/ QueryTimes(th) \/ ListStorage(th) \/ ListFails(th) \/ FillIndex(th)
    \/ LoadMeta(th) \/ FetchMeta(th) \/ KeepMeta(th) \/ Loaded(th)

WriteStep(th) ==
    Stamp(th) \/ IndexMeta(th) \/ CreateFile(th) \/ WriteFile(th) \/ StoreFails(th)

RemoveStep(th) ==
    SelectPeriod(th) \/ xRemoveMeta(th) \/ DeleteFile(th) \/ DeleteFails(th)

Next ==
    \/ \E th \in use.threads :
          \/ \E op \in use.ops, p \in Paths : Begin(th, op, p)
          \/ ReadStep(th) \/ WriteStep(th) \/ RemoveStep(th)
    \/ \E unlock, autoRepair \in BOOLEAN : Open(unlock, autoRepair)
    \/ Close \/ Crash \/ Reindex \/ ReindexCloses

Spec == Init /\ [][Next]_vars

----------------------------------------------------------------------------
(* Properties *)

\* A version whose write succeeded stays in the storage until it is removed, and
\* is listed to the next reader, through failures of other writes, crashes,
\* unlocks, repairs and rebuilds. A rebuild that is cut short, or whose
\* transaction fails, leaves an index that is empty and not locked: then nothing
\* is promised of the list before a later rebuild fills it.
\* (A memory index may lose old versions: see ListFails.)
AckedListed ==
    \A p \in Paths :
        /\ acked[p] \subseteq whole[p]
        /\ kind # "memory" /\ ~emptied => acked[p] \subseteq Listed(p)

\* A read chooses a version at least as new as every write that succeeded
\* before it began, with an index that was not emptied.
NewestChosen ==
    ~emptied => \A th \in Threads :
        LET c == call[th] IN
        c.op = "read" /\ c.step \notin {"query", "list"} /\ c.floor \in acked[c.path]
            => c.time >= c.floor

\* With a bdb index that was not emptied nobody needs the storage for what was
\* written, so a half written file, of a write in progress or cut, hides
\* nothing: who reads an entry asks the storage only if no write of it
\* succeeded, and a removal only for versions whose write did not.
ServedFromIndex ==
    kind = "bdb" /\ ~emptied =>
        \A th \in Threads : call[th].step = "fetch" =>
            LET c == call[th] IN
            /\ Oldest(c.todo) \notin acked[c.path]
            /\ c.op # "remove" => acked[c.path] = {}

\* The index lists nothing but what is stored, what is being written and what
\* a failed write left behind.
ListedBacked ==
    \A p \in Paths : imts[p] # NoEntry =>
        imts[p] \subseteq stored[p] \union failed[p] \union
            {call[th].time : th \in {h \in Threads : call[h].path = p /\ call[h].step = "create"}}

\* A version whose removal succeeded is never listed again, nor read from the
\* index, as long as no other goroutine reads the entry meanwhile.
GoneStaysGone ==
    \A th \in use.threads : use.threads = {th} =>
        \A p \in Paths : gone[p] \intersect (Listed(p) \union imeta[p]) = {}

\* Opening an index with the automatic repair keeps listing the versions it
\* listed. The code does not guarantee it for an index filled from the storage.
RepairKeepsListed ==
    [][~up /\ up' => \A p \in Paths : acked[p] \intersect Listed(p) \subseteq Listed(p)']_vars
=============================================================================
