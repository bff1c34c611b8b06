# A TLA+ model of Cabri

Cabri synchronizes trees of files between data storage systems (DSS): plain
directories, and object stores that keep every version of every entry. This
directory holds TLA+ modules that model its core, TLC configurations that check
them on small instances, and theorems proved with TLAPS. Paths below are
relative to `src/gocode/packages/`. `PROJECT.json` lists the runs, the source
lines each definition stands for, the hazards of the code and the disagreements
found between the code and what it says of itself.

    tlc -config MCSync.cfg MCSync        # one run
    tlapm ReducerProofs.tla              # the proofs of one component

## 1. The system

| component | state it keeps | operations | what makes it correct |
|---|---|---|---|
| I/O reducer (`plumber/reducer.go`) | works holding a slot, scheduler flags, `isDone`, wait group | `Launch`, `Close`, scheduler loop | limit respected, nothing runs after `Close`, calls return |
| parallelizer (`plumber/material.go`) | goroutines and result channels of a call | `Parallelize`, `LaunchAndWait`, `Regulated` | one result per input, the caller waits for all |
| synchronization (`cabrisync`) | one `syncCtx` per entry during a run, two DSS | `Synchronize` | both sides get what they should, nothing of the source is lost, reruns settle |
| object store metadata (`cabridss/odss.go`, `olf.go`) | metadata files, one per version | `GetMeta`, writers, `Remove`, `RemoveHistory` | an acknowledged version stays visible, the newest wins |
| index (`cabridss/index.go`) | times and metadata per path, lock, clients and their deltas | `queryMetaTimes`, `storeMeta`, ..., open, repair, rebuild | agrees with the storage |
| index replication (`webdss*.go`, `index.go`) | per-client transaction counter and delta | `recordClient`, `updateClient`, `updateData` | a client's index catches up with the server's |
| history (`odss.go`) | none, computed from versions | `GetHistory`, `RemoveHistory`, chunks | intervals partition the life of an entry |
| contents, scan, audit, purge (`odss.go`, `olf.go`, `obs.go`, `s3utils.go`) | content files by checksum | content writers, `ScanStorage`, `AuditIndex` | no referenced content is purged |
| file system DSS (`fsy.go`) | a directory tree | `Mkns`, `Updatens`, content writers, `Remove` | what is listed is what is there |
| encrypted DSS (`edss.go`) | encrypted names and metadata | as the object store | the same history in the clear and encrypted |
| web and REST (`web*.go`, `wfs*.go`, `restsv.go`) | sessions and remote calls | one per DSS operation | same answers as locally |
| scheduler of commands (`cabriui/cabrisched.go`) | run status per specification, jobs | `Schedule`, `run`, `doRun`, the HTTP request | no two runs of one specification at once, each is run again |
| runner of commands (`joule`) | units of work, the terminal's goroutine and channels | `Run`, `AddUow`, `UiOut`, `UiSecret`, the interruption | nobody prints on closed channels, the process ends |
| command line (`cabriui`) | the DSSs a command opened | one per command | what is opened is closed, clean end on abort |
| server of DSSs (`cabriui/web.go`, `cabridss/web.go`) | the maps of configurations, the listener | `Serve`, `ConfigureApi`, `Shutdown`, the handlers | requests find their DSS, shutdown ends |

How they interact. `Synchronize` starts one task per entry through the
parallelizer; the tasks call the two DSS at the same time. Each DSS passes its
I/O through its reducer and waits for it when it is closed, then closes its
index. An object store asks its index first and its storage when the index
knows nothing; it writes to the index and then to the storage. A web DSS keeps
a copy of the server's index, brought up to date when it is opened. A command
is a unit of work of a runner of joule, beside a goroutine for the terminal that
all its goroutines print to; an interruption cancels the context that the
parallelizer, the scheduler and the server watch. The scheduler runs
synchronizations again and again, in processes that may be killed.

What is hard, in the code's own terms: goroutines that write the same
namespace or the same entry; an index and a storage written one after the
other; trees read at one moment and written at a later one while users go on
editing; processes killed between two steps and launched again; errors of one
step of many that are dropped; `Close` racing what it closes. The list with
the lines is in `PROJECT.json` under `hazards`.

## 2. Modules

| module | models | state and actions |
|---|---|---|
| `IOGate` | what users of a reducer rely on | works enter, leave or are refused; open, closing, shut |
| `Reducer` | `scalableReducer` | one `pc` per call of `Launch`; the scheduler goroutine as `mode` with its flags; `wg`; `Close` in three steps |
| `ReducerProofs` | its theorems | inductive invariant `IInv` and the refinement of `IOGate` |
| `Context` | `joule`'s context | cancelled or not |
| `Parallel` | `plumber/material.go` | one `pc` per execution, `tokens` of the regulators, what `OrDone` holds, `outputs` of each call |
| `ParallelProofs` | its theorems | inductive invariant `IInv` |
| `Joule` | `joule/joule.go` | `runner`, units of work, `terminal`, who is `sending`, `closed` channels, interruptions |
| `Scheduler` | `cabrisched.go`, `schedule.go` | `isBusy` (`IsRunning`), labels that are `due`, one `job` per run |
| `DssCommand` | `cabriui/dss.go`, `sync.go` | `cmd`, which DSSs are open, what failed |
| `WebServer` | `cabriui/web.go` over `cabridss/web.go` | `server`, on top of `DssCommand` |
| `Command` | a process of the command line | composes the six modules above with `IOGate` |
| `CommandProofs` | its theorems | refinement of `Parallel`; invariants of jobs, of open DSSs, of the runner and its terminal, of a listing |
| `History` | `GetHistory` of `odss.go` | operators over `version` and `indexed` |
| `Store` | `odss.go` over `olf.go`, or over `obs.go` and `s3utils.go` | versions, contents, one `call` per goroutine |
| `StoreProofs` | its theorems | inductive invariant `IInv`, and `Alone` for `RemoveHistory` |
| `IndexedStore` | `odss.go` over `index.go` and `olf.go` | `stored`/`whole` files, `imts`/`imeta` index, one `call` per goroutine, process up or down, `lock`, how far a `rebuild` is |
| `IndexedStoreProofs` | its theorems | inductive invariant `IInv`, in three layers |
| `Sync` | `cabrisync` over two DSS | `store` of each side, one `task` per entry, users' edits, faults, crash |
| `SyncProofs` | theorems on types and on runs from left to right | inductive invariants `TInv` and `KInv` |
| `SyncOutcomeProofs` | theorems on what runs leave: undisturbed ones, those over sides in sync, those between object stores that stop anywhere | inductive invariants `RInv`, `IInv` and `NInv` |
| `ClientIndex` | `index.go`, `webdss.go`, `webdsscl.go`: the server's index and its copies in web clients | server `mts`, `known`, `txId`, `noted`; the `local` index file of each client and the `lock` in it; the `copy` of it each process has, and `proc`, what it does |
| `ClientIndexProofs` | its theorems | inductive invariant `IInv`, where each listed version is |
| `MC*` | constants of the runs | |

**Reducer.** The channels `request`, `terminated` and `callback` are
unbuffered, so a send and its receive are one step of the scheduler:
`HandleRequest`, `HandleTerminated`, `Answer`. Between receiving an entry and
answering it the scheduler listens to nobody (`Answering`). `Dispatch` is the
loop of `schedule()`, `LeavesLoop` the four conditions on which the handlers
return. `isDone` is read without the lock: a call that nothing orders after
`Close`'s write may read either value; `told` holds the calls for which the
scheduler's lock and the callback order the read after the write.

**Parallel.** A node is one execution of a function that a call started, in a
goroutine of its own; its body is a call of `LaunchAndWait`, a call of
`Parallelize` or a work. The tree of calls is a constant. A regulated node takes a
token (`Enter`) and gives it back when it has returned (`Return`); `OrDone` receives
an output (`SendOutput`), passes it on (`Forward`) or drops it (`Drop`) once the
context is cancelled. Parallelization may be disabled: then one child at a time.

**Joule.** A goroutine that prints blocks (`sending`) until `controlUI` takes what it
says, since the channels are unbuffered; the finalizer closes them, and whoever is
blocked on them or comes later panics (`SendOnClosed`). One unit of work at a time
may prompt for a secret. The first interruption cancels the context; the second
one, which ends the process at once, is left out.

**Scheduler.** Each job follows `run` and `doRun` over the actions of its label. Time
is what makes a label `due`. `IsRunning` is reset by `doRun`, so after each action,
and not at all for a type of action that is not supported.

**DssCommand, WebServer.** A command is described by its shape: how many DSSs it
opens, when it prints, and the failures after which it does not close them. Each
shape is read off one function of `dss.go` or `sync.go`, return by return. What the
operations do to a DSS is in the other modules; here they succeed or fail. The
server opens a DSS, serves it, opens the next one and adds it to its maps, closes
all of them when it is told to stop, and only then stops listening.

**Command.** `mode` says which unit of work runs: `lsns` (the listing, with `Parallel`
under `lsnsRecurs` and the reducer as `IOGate`), `schedule`, `dss`, `webapi`, or `late`, a
program that adds a unit of work to a runner at work. Printing, being interrupted
and ending are the same for all. A server's requests pass the same gate.
`IOGate` says what a reducer may do, not that its `Close` ever returns: as `reducer_close`
shows, a `Launch` that its scheduler does not receive before it ends blocks for ever, and
`Close` with it. `LaunchUnheard` is this case, for requests of a server that closes its DSSs
and for readings that an abort left behind; from then on (`LeftWaiting`) the gate neither
shuts nor lets anybody in.

**History, Store.** `History` has the visibility of an entry at an instant, by its
ancestors' lists, and `doGetHistory`: raw intervals aligned to the resolution,
cut by those of the namespace (`Clip`), filtered (`Pieces`) and merged. `Store` has the
operations that write: a call checks what it needs in one step (`Begin` and its
callers), then stamps, pushes the content, indexes and stores the metadata, each a
step that may fail or be the last one before a crash. With objects, an upload or a
put may also be done without its answer being heard (`UploadLost`, `PutMetaLost`), and
somebody else may have uploaded the content meanwhile (`UploadConflicts`). A scan
reads all metadata, then all contents, in directories or in listings, which others
may change meanwhile; with purge it removes what no metadata it read refers to,
one content at a time. `RemoveHistory` selects the intervals that lie in the period,
then removes the version of each, from the index (`Unindex`) and then from the storage
(`Unstore`), where a file that is not there is an error and an object is not; it may be
refused before each of them (`RemovalRefused`), or be the last thing before a crash, and a
version is then left in one of them only (`failed`).

**IndexedStore.** Every call of the index or the storage is a step, and a
process may stop between two of them. A call goes through `query`, `list` and
`fill` (when the index knows nothing), then `load`, `fetch`, `keep` for each
version it wants; a write goes on with `stamp`, `index`, `create`, `write`, a
removal with `select`, `unindex`, `delete`. The three implementations of the
index differ where the code's do: `nIndex` keeps nothing, `mIndex` forgets a
path with its last version and dies with the process, `pIndex` keeps an empty
list and a lock. Files are created, then written: `whole` tells which are
complete. The reindex command goes through the steps of `reindexPIndex` (`Phases`): the old
file is removed, an empty one opened, locked and released, then filled in one transaction
whose error is dropped. It may be cut by a crash at any of them (`LeaveFile`), or end early with
an error (`ReindexCloses`), and then leaves an index that is empty and not locked
(`emptied`); such an index asks the storage for a path until the path is written once more.
At its end the process still has the old file open and shrinks it; whether
that puts the old index back under the file's name is buntdb's business, outside this
repository: both outcomes are allowed. Left out: rights,
encryption, contents, the check that the parent lists the entry (in `Sync`).

**ClientIndex.** For each client it has recorded the server notes the new list
of every path that changes (`doStoreMetaTimes`), under the client's current
transaction. A process that opens the DSS asks whether its client is known
(`Initialize`), has it recorded or updated (`Ask`, with `recordClient` and
`updateClient`), opens the client's index and merges the answer (`Merge`). The index is a
file of buntdb, which a process loads into memory (`LoadIndex`) and to which it writes
what it changes (`Save`); the lock is a key of it, which the process tests in what it loaded
and sets (`NewPIndex`). Two processes that load the file before either has
locked it both work with it: the client is then in `raced`, and each path has in the
file what one of them wrote, or nothing (`FilesWith`).
In an open DSS a process reads what its index does not know from the server's storage
(`Read`), writes (`Stamp`, `Store`, `Keep`: a namespace is listed locally first,
a content last) and removes versions (`xRemoveMeta`, `Unlist`, `Remove`). An
update repeats what is noted, starts the next transaction and purges those before
the one it answers with; one that cannot be stored has started the next transaction all
the same, in memory (`AskFails`), so that what was noted is not sent and nothing is purged until the
next update is (`unpurged`). The error of a merge that cannot be stored is dropped (`Merge`).
`dropped` is a history variable: the clients one of whose
answers was lost, refused with the lock, killed with its process, not merged, left by an
update that was not stored, or merged over what another process had stored, and those in
`raced`; a record that fails in the server is one more
case of the first, since the server then knows the client. Of the requests that
change the server, only those for an update and for a content can be executed
twice, the others being sent again without their body. The user unlocks the
index when no process works with it (`Unlockable`). Left out: the full update that nothing
asks for, encryption, restarts of the server, and uses of its DSS that do not go through it.

**Sync.** An entry is `[mtime, data, ch]`; `data` stands for size and checksum.
The two kinds of DSS differ in `PutNs`, `PutContent`, `Opened` and the
`Refuses...` operators: a file system holds what its directories list, makes
new children as empty files dated now and truncates a file when it opens it;
an object store writes metadata only, refuses a content its parent does not
list, and keeps the metadata of unlisted entries. A file whose `Close` fails is removed
(`RemoveFile`), an object is left as it was. A task reads both sides
(`ReadMeta`: a side that cannot be read counts as a side without the entry, but an object
store that cannot read the entry's own metadata says that it is there, with no
time and no children, `misread`), evaluates (`RTL`,
`Created`, `Updated`, the four merged lists), and for a namespace writes left
and right (`LeftBefore`, `RightBefore`), waits for its children, and writes
them again (`LeftAfter`, `RightAfter`); for a content opens and fills it. Left
out: ACLs and their mapping, symbolic links, exclusion patterns, `Evaluate`,
`NoCh`, `RefDiag`, `InDepth` false, the retry on "cannot assign requested
address", roots that cannot be read (the run does not start), the abort from the
terminal. One call of
`FsyDss.doMkUpdateNs` is one step; a crash inside it leaves what a crash right
after it leaves, placeholders. Times are distinct: edits of one second are not
modelled.

## 3. Runs

| run | instance | distinct states | result |
|---|---|---|---|
| `reducer` | 3 calls, limit 2, `Close` at any time | 18 656 | all properties hold |
| `reducer_close` | 2 calls, limit 1 | few | `CloseReturns` is violated |
| `command` | a listing of 8 executions, 3 schedules with 2 jobs, a late unit of work, 12 commands on DSSs, a server of 2 DSSs | 85 972 | all hold |
| `index` | 1 goroutine, 4 times, all indexes; 2 goroutines, 3 times, warm index; 1 path | 1 135 136 | all hold |
| `index_repair` | 1 goroutine, cold bdb index | few | `RepairKeepsListed` is violated |
| `store` | 5 uses of a tree of 4 entries, 1 or 2 goroutines, 4 to 6 times | 1 011 315 | all hold |
| `client_index` | 2 processes of one client, 1 of another, 1 path, 2 times, 1 fault | 2 002 663 | all hold |
| `client_index_lost` | the same without faults | few | `KnownPathsUpToDate` is violated |
| `sync` | tree of 4 entries, all kinds and modes, 2 edits, 1 fault | 451 083 | all hold |
| `sync_source` | file systems, one way, edits during runs | few | `SourceKept` is violated |
| `sync_bidir` | file systems, both ways, a crash | few | `NewestKept` is violated |
| `sync_report` | object stores, one way, a refused write | few | `ReportTruthful` is violated |

What they show.

* `AtMostLimit`, `QuietAfterClose`, `AdmittedReturns`, `LaunchServed`,
  `CloseCompletes`: the four handlers agree on when a slot is free; no call the
  scheduler has received is lost; without `Close` every call is served; `Close`
  returns *unless* a call was left unreceived. Three calls for two slots is the
  smallest instance where a call waits while two run, one ends and another is
  received.
* `CloseReturns` fails: a launcher blocked on `red.request` when the scheduler
  stops is never answered, and `Close` waits for it. `Launch` has a message for
  the "aborted" work it should get.
* `RegulatedLimit`, `LaunchWaits`, `Complete`: tokens are neither lost nor invented
  when calls nest and when an abort makes some goroutines leave early; a caller waits
  for what it started; unless aborted `Parallelize` returns everything and leaves
  nobody behind. The tree is a namespace with a content and an empty namespace: a
  call with two inputs, in which another call needs the same token.
* `ClosedAfterUse`: a listing closes its DSS when no reading can be turned away any
  more, and every command closes what it opened, except for three failures of the
  code that the property names (`LeftOpen`): a repair that fails, exclusions that
  cannot be read, a second DSS that cannot be served. `PanicOnlyAborted`: without
  an abort nobody prints on the closed channels; a server that adds a DSS to those
  it already serves may be stopped by the runtime (`web.go:252`, `web.go:286`).
* `CommandEnds`: a listing and a command on DSSs end; the scheduler ends when told to, and
  the server unless its reducer left a request waiting; a runner ends with its works, unless
  a unit of work was added in the window of `joule.go:252-256`, which nobody starts.
  `OneRunAtATime` is for specifications of one action and `RunAgain` for those of
  supported types: the run has the others too, for which the code does not keep these
  promises.
* `ContentKept`: no content is taken from a version that was written, but by a purge
  that other calls disturb or that could not read what it decides from.
  `PurgeExact`: an undisturbed purge leaves nothing unreferenced, and `AuditIndex` then
  tells exactly the versions that a write or a removal left halfway between index and storage.
  `RemovalHolds`: what was removed stays
  removed, unless another update of the same list, or a removal of its history, went
  on at the same time (`contested`); two of the uses make each of these. Two goroutines make every
  interleaving of a writer with a scan or with another writer; two contents are what
  deduplication and purge tell apart.
* `HistoryExact`: at both resolutions the intervals agree, instant by instant, with what
  a reader of that time sees, for every history the run makes of a file and its two
  ancestors. `RemovalOutside`, `RemovalFails`: the removal of a period changes nothing
  outside of it and, unless it is refused, stops halfway only where the properties say: in
  files, at a version that an earlier write or removal left in the index only. A version with two
  intervals, because its entry was removed and listed again, is the exception to both: it is
  removed twice, and where it was the newest an older one may appear in its place,
  out of the period too (`Divided`). Eight instants, two to a second, hold a removal, a new
  listing and versions within one second; one of the uses begins with such an entry.
* `AckedListed`, `NewestChosen`, `ServedFromIndex`, `ListedBacked`,
  `GoneStaysGone`: index and storage agree on what was acknowledged, through
  failed writes and removals, crashes, unlocks, repairs and rebuilds. A rebuild that is cut
  short, or whose transaction fails, leaves an empty index (`index.go:813-852`): until
  another one fills it only what is said of the storage holds, and that what is gone stays gone.
  Four times are enough
  for two old versions, one removed and two new ones. The known limits are in
  the properties: a memory index filled after a failed listing hides old
  versions, and `GoneStaysGone` is checked with one goroutine because a reader
  may store again what another one removes. With a cold bdb index and two
  goroutines `NewestChosen` fails too (a fill overwrites the time of a
  concurrent write); the bdb index of the run is warm.
* `RepairKeepsListed` fails on a bdb index filled from the storage: the repair
  takes a time without metadata for garbage.
* `ChangesAccounted`: what the server lists is in the client's index, in an answer
  on its way or noted for the next update, until something is dropped: an answer, a merge, an
  update that the server could not store.
  `OneSession`: one process at a time works with a client's index, also after
  kills and unlocks, unless two have loaded the file before either locked it
  (`index.go:753`, `765`). `TwoTransactions`: the purge keeps up, but after an update that was
  not stored (`index.go:461`). The client of two
  processes is updated twice, so that a transaction is purged; the other opens
  the DSS once, and writes and removes what the first one knows; one version is
  there from the start and one is written.
* `KnownPathsUpToDate` fails without any fault: a second process of the client is
  given the changes, finds the lock taken and drops them. The server has started
  the next transaction: no later update brings them, and since the path is known
  to the index the storage is not asked either.
* `Synchronized`: an undisturbed run without error leaves exactly the wanted
  entries, contents and times, for the sixteen combinations of kinds and modes.
  `SourceKeptAtRest` and `TargetKept` are what one-way synchronization must
  not lose, whatever fails: nothing but what is below a namespace of the left side that an
  object store read as empty and, on the right side of a file system, the file whose `Close`
  failed. `NewestSurvives` is the same for both ways between
  object stores, under crashes and refused writes: a truncated copy closed with
  the origin's time, and a side that cannot be read, may lose the newest content.
  `InSyncIdle`: a run over sides in sync writes nothing (without `KeepContent`,
  whose lists differ for good). `Converges`: reruns end with both sides alike.
  A root, a content beside a namespace and a content inside is the smallest tree
  with sibling tasks and a nested merge; two edits make every order of update,
  removal and creation on both sides.
* `SourceKept`, `NewestKept`, `ReportTruthful` fail as the findings of
  `PROJECT.json` describe.

Bounds. `LastTime` (and `last`, `gaps` of each mode) caps the versions of `Store`, `Jobs` the
runs under way at once. `MaxTime` and `MaxClock` cap writes and edits, `MaxTx` the updates of a
client; `MaxFaults` caps the faults, so that those of one behaviour are few but may
happen anywhere in it. `BusyModes` says whether users of `Sync` edit during runs:
where they do, no fault happens. `RacedAlone`: once two processes have opened the index
of a client at once, of which the properties say little, `client_index` goes on without faults
and without the other client. Nothing else is bounded.
The two processes of a client are interchangeable (`SameClient`), so `client_index`
uses them as a symmetry set; `client_index_lost` checks an action property without it.

Deadlock. The configurations of the reducer, `MCCommand` and `MCStore` switch the check off: when every call has
returned and the reducer is closed it has nothing left to do, and the blocked
`Close` is what `reducer_close` looks for; a process of `Command` ends; `Store` has
no operation left once `LastTime` is reached. The other models never stop: a DSS
can always be opened and closed, a run can always be launched.

Fairness. `Reducer`: the Go scheduler runs every goroutine that can run, works
end, a `Close` that began goes on; nobody has to call `Launch` or `Close`; a
`select` picks among ready cases at random and senders on a channel are queued,
so weak fairness of the scheduler's steps is what is assumed. `Sync`: the command
scheduler launches runs periodically (`cabrisched.go`) and the goroutines of a run
are not starved, so weak fairness of the steps of a run; nothing forces an edit,
a fault or a crash. `Command`: goroutines go on, I/O and child processes end, the loop
of the scheduler turns, and the user answers the prompts; the late unit of work
ends in spite of printing as often as it likes (strong fairness, since it may end
only while nothing it said is pending). Nobody has to interrupt, to send a request
or to let time pass. `IndexedStore`, `Store` and `ClientIndex` state safety only.

## 4. Proofs

`ReducerProofs` proves, for every finite set of calls and every positive limit
(`CallsFinite`, `LimitPositive`):

* `ReducerInvariant`: `Spec => []IInv`;
* `ReducerTypeOK`, `ReducerAtMostLimit`, `ReducerQuietAfterClose`: the
  invariants the run checks;
* `ReducerImplementsGate`: every behaviour of the reducer is one of `IOGate`.

`AtMostLimit` and `QuietAfterClose` are not inductive. `IInv` adds what relates
the goroutines: `actives` is the set of calls between their request and their
termination (`SlotsHeld`); the scheduler's flags are those of `actives`
(`FlagsCurrent`); it answers one call at a time and within a handler
(`OneAnswer`); it listens for requests only with a slot free (`Room`); the wait
group counts launched calls and the scheduler (`Counted`), so `wg = 0` means
nobody is inside; a stopped scheduler left no slot held (`StoppedIdle`). The
counts use `CallCounts`, one call more or less. For the refinement, `Working` is
the gate's inside and `RoomToStart` gives its guard: a granted call holds a slot
and is not yet working, so fewer than `Limit` works run.

`ClientIndexProofs` proves, for any clients, processes, paths and bounds
(`ClientsAssigned`, `BoundsNatural`, `PathsExist`, `PriorBounded`, `FaultsKnown`,
and `NoEntryDistinct`: a list of times is not the mark of an absent key):

* `ClientIndexInvariant`: `Spec => []IInv`;
* `ClientIndexTypeOK`, `ClientIndexOneSession`, `ClientIndexTwoTransactions`,
  `ClientIndexChangesAccounted`: the invariants of `client_index`.

The types need to know that what is written or removed has a time (`Stamped`).
`OneSession` is not inductive: `OneOpened` says more, that no two processes of a client have
loaded its index to work with it, `SessionLocked` that the lock is set while one does, and
`CopySaved` that what this one has in memory is what the file holds; each but for the
clients in `raced`, for which something was dropped (`RacedDropped`).
`ChangesAccounted` needs who holds an answer (`AnswersHeld`), that sessions belong
to known clients (`AnsweredKnown`), and one case more than it says: a version
about to be taken out of a client's index, which the server lists again because
another client stored it anew, is on its way back (`UnlistedReturns`). Steps are
sorted by what they do to a version on its way: `QuietStep` (nothing asked of the
server), `Flow` (what leaves one place is found further on), `ListNoted` (a new
list). `OneSession` serves there too: a merge and a removal of one client never
overlap. What the three properties except is what the code does not keep: the lock tested in
a copy loaded before (`index.go:753`, `765`), a transaction advanced before it is stored
(`index.go:461`), the dropped error of a merge (`index.go:573`), answers that are lost.

`ParallelProofs` proves, for any finite tree of calls and any limits
(`NodesFinite`, `OneParent`, `WorksAreLeaves` and the others of `Parallel`),
`ParallelInvariant`, `ParallelRegulatedLimit`, `ParallelLaunchWaits` and `ParallelComplete`.
`IInv` relates the tokens left to the nodes that hold one (`HoldersStep` counts them), a
running node to a caller that has not returned, and, without an abort, what a call
has received and holds to the children that are done.

`CommandProofs` proves, for any tree of entries, specifications, jobs and commands
(`UowsFinite`; `PrintersDiffer`: units of work, readings and jobs are not the same
goroutines; `EveryNodeReached`: the listing is a tree, so that what holds of the root and
goes from an entry to its children holds of all):

* `CommandImplementsParallel`: every step of a command is a step of `Parallel` or leaves
  its variables alone; with the theorems above, `CommandParallelSafe`;
* `CommandOneRunAtATime`, from an invariant that a label with a job between `Begin` and
  `Release` of its first action is busy, and that no other job is there with it;
* `CommandLeftOpen`: for every command, each failure and every abort, an end that leaves
  a DSS open is one of the three of `LeftOpen`. The invariant
  adds which DSSs are open where the other ways to end begin: none before the command
  starts its work or while the scheduler loops, none when a listing reports, and no
  second one before the server serves the first;
* `CommandInvariant`, and from it `CommandTypeOK`, `CommandPanicOnlyAborted` and
  `CommandClosedAfterUse`. What closes the channels of the terminal is the runner, and it
  waits for the unit of work (`Runs`); so whoever is blocked on them is part of it
  (`Speaks`). What closes the DSS of a listing is the unit of work once the root is done;
  without an abort every entry is then done (`WalkOver`, from `LaunchWaits` of
  `ParallelProofs`, up the tree), and the gate turns nobody away before (`Walks`).

`IndexedStoreProofs` proves, for any entries, goroutines, times and uses (`PathsExist`,
`NoEntryDistinct`, `TimeBound`, `UsesComplete`), whatever writes and removals fail, wherever the
process crashes, in a rebuild too, and however often the index is repaired:

* `IndexedStoreTypeOK` and `IndexedStoreGoneStaysGone`, always;
* `IndexedStoreListedBacked`, if *undisturbed*: no goroutine removes versions while another
  works (a reader may put back into the index what is being removed);
* `IndexedStoreAckedListed`, `IndexedStoreNewestChosen` and `IndexedStoreServed` in *careful
  use* (`CarefulUse`): one goroutine, or several that remove nothing, with a bdb index or
  none, on entries written once; and, but for what `AckedListed` says of the storage, as long
  as no bdb index is empty on a storage that is not (`~emptied`), either because it was opened so or because a
  rebuild was cut short or its transaction failed: a rebuild is not atomic and its
  error is dropped (`index.go:807-853`). One that ends with its transaction stored makes them hold again.
  The code keeps no more: the repair removes what a cold index lists
  (`index_repair`), and with two goroutines even a warm index may lose a version of an
  entry that had none, when the reader that saw none stores its empty list after the
  writer stored its own (`odss.go:1236`). `MCIndexedStore` says that the uses it checks are
  careful ones (`UsesAreCareful`).

The invariant has three layers, each proved on top of the one before. `Resting`: what a
call holds at each step and that nobody works without a process. `Core`, when undisturbed:
times are ahead of all versions and belong to one writer (`Fresh`), what is removed is nowhere
(`Gone`, `RemovedAt`), and whatever a call read comes from a version that was written
(`ReadAt`). `Kept`, in careful use: acknowledged versions are listed with their metadata
and nothing without metadata is newer (`Indexed`, which is what a repair spares); a fill
takes what the storage has (`FillsAt`); a version is indexed before it is stored
(`IndexFirstAt`); a reader cannot miss what was acknowledged before it began (`ReadsAt`). While an
index is rebuilt nobody works (`Resting`), and the old one is in memory; `Kept` is
given up when the process leaves an empty file, and shown anew from the files when it
leaves a filled one.

`StoreProofs` proves, for any tree, contents, goroutines, uses and bounds (`PathsFinite`,
`TreeRooted`, `ParentIsNamespace`, `PriorsTyped`, `ValuesDistinct` and the others of `Store`):

* `StoreInvariant`: `Spec => []IInv`;
* `StoreTypeOK`, `StoreContentKept`, `StoreRemovalHolds`, `StorePurgeExact`,
  `StoreHistoryExact`;
* `StoreRemovalFails`, `StoreRemovalOutside`, the two action properties.

`ContentKept` needs that a file is stored after its content (`Written`) and what a scan that
nothing disturbs knows of the storage (`Scans`). `PurgeExact` needs that `failed`, what writes
and removals left halfway, is exactly what index and storage disagree on (`Balance`). `RemovalHolds` needs that a removal
which nobody contests writes the newest list of its parent (`RemovingAt`, `Fresh`). The
visibility of an entry is a recursive function through its ancestors; it can be unfolded in a
proof because the tree is rooted.

`HistoryExact` needs no invariant but the types: it holds of any versions in any tree, with
seconds of any length (`SoundExact`). `GetHistory` is a recursive function through the
ancestors too (`DownExists`, `HistoryIs`), and what is `Sound` of a namespace's history is shown for its
entries: intervals that do not overlap, that begin and end with a rounded version of the
entry or of a namespace above it (`Marked`), and that say of each instant what is seen then (`Says`). An
entry's own versions do (`RawHolds`); cut by the intervals of its namespace they still do, and a
piece that is dropped holds one instant, between versions one instant apart (`PiecesSound`,
`MarksNext`): the exception `Brief`. Pieces that follow each other are merged along a chain from the first
to the last of them, which covers the same instants (`ChainCovers`, `ChainExists`). These
inductions go over depths, instants and starts of intervals, each from a least
counterexample (`LeastNat`).

`RemovalFails` and `RemovalOutside` compare steps of `RemoveHistory` with the state in which
it selected the intervals. `Alone` carries what matters from one to the other, for a goroutine
that is alone: what is still to be removed is in the index (`Pending`), what was removed is not
(`Gone`), a version taken out of the index is in the storage unless it was left halfway before (`Taking`),
and as long as no divided version was removed, what is still to be removed is seen within the
period only (`Inside`). Of a selection this is shown from the history (`SelectedIs`): between two
intervals of one version there is a gap, since pieces that follow each other with the same
metadata are merged, and each interval shows its version at some instant (`Told`,
`MergedTold`). A removal keeps it because it changes nothing where its version is not seen
(`DroppedUnseen`), by induction down the tree.

`SyncProofs` proves, for any tree, kinds, modes, edits and faults (`TreeRooted`,
`TreeParents`, `KindsKnown`, `FaultsKnown`, and `TreeReached`: what holds of the root and
goes down holds of every entry):

* `SyncTypeOK`: the types, and that tasks know of a namespace only its children;
* `SyncTargetKept` and `SyncSourceKeptAtRest`, from `SyncInvariant`.

The invariant `KInv` says of a run from left to right that no edit meets: the left side keeps its
contents, and the children of its namespaces but for those that were read as empty, which
only an object store does (`LeftKept`, `Misreader`); a task that is past its reads knows the
left side as it was if the entry was there and it, and all above it, were read well (`LeftRead`,
`Seen`), so what it merges holds every child of the left side
and what it copies is the old left content; and what both sides had is still listed on the right
(`TargetKept` itself, which with these two is inductive). `Above` is shown to be a function that
goes up to the root and has no cycle (`AboveExists`, `AboveFacts`); the steps of a task have one
lemma each that says what they leave (`ReadMetaIs`, `LeftBeforeIs`, ..., `FillContentIs`).

`SyncOutcomeProofs` proves from the same assumptions, for all kinds and modes:

* `SyncSynchronized`, from `SyncRunInvariant`: what a whole run computes;
* `SyncInSyncIdle`, from `SyncIdleInvariant`: sides in sync stay as they are;
* `SyncNewestSurvives`, from `SyncNewestInvariant`, between object stores.

`Synchronized` only speaks of the end of a run; `RInv` says of a run that nothing has disturbed yet
and that reports no error (`Going`) where it is. The walk (`WalkAt`): a task starts for each
entry that one side had, once its namespace has been merged a first time, and is over before its
namespace ends. What a task read is what its side had when the run began (`KnowsAt`). The step of
a task says how far each side is with its entry (`ProgressAt`): it is as it was (`Early`), then
lists all it had and all it is to have (`Middle`), then is as it is to be (`Final`). Between two
object stores a namespace may be listed before it has metadata, and a file system creates the
namespaces it lists, so `Early` speaks only of what the side had. An error may go unreported in
one case only, and `ErrsAt` says which: the left merges of a namespace that the right side alone had, where
the left side is not to have it. A file system holds nothing that its directories do
not list (`Tidy`), which a run needs of what it creates. When the root is done every entry is
(`OverBelow`), and, from the root down, each side lists what it is to list and no more
(`EndRunReaches`).

`InSyncIdle` adds three parts to `RInv`: namespaces have no data of their own (`SpacesEmpty`), sides
in sync hold equal trees (`SameTrees`, stronger than what `Synchronized` and `SameView`
compare: the data and the children of namespaces too), and a run over such sides has found
nothing to write (`Idling`): what both tasks read is the same, so nothing is created, updated, added
or removed (`IdleTask`). That no fault happens is not assumed: a fault ends `insync`.

`NewestSurvives` speaks of object stores in both directions, with or without `KeepContent`, and of runs
that crash or whose writes are refused. It says nothing of a run under way; `NInv` adds that each side
still lists what it had when the run began, with contents at least as new (`Grown`), because a task
knows at least what its side had (`BothRead`), both merged lists hold the side's own
(`TwoWayMerges`), and a copy goes from the newer content to the older (`CopyNews`). No side
has a content newer than what the users wrote last (`Dated`), so "at least as new" is the
same content, wherever the run stops.

Model-checked only:

* liveness (`AdmittedReturns`, `LaunchServed`, `CloseCompletes`, `Converges`, `CommandEnds`,
  `RunAgain`), which is out of the prover's reach.

## 5. What the code does that no violated run shows

Met while modelling; the first group is in the models, and the properties say so.

* `OneRunAtATime`: with several actions `IsRunning` is reset between two of them
  (`cabrisched.go:188`). `RunAgain`: with an unsupported type, and `cabriSync`, which
  `cabrisched.go:60` lists, is one, it is never reset (`cabrisched.go:185`).
* `ClosedAfterUse`: `dss.go:329`, `sync.go:270`, `cabriui/web.go:198`, as above.
* A server told to stop closes its DSSs while it still listens (`web.go:220`): a request that comes
  in then, and whose `Launch` nobody receives (`reducer.go:237`), keeps it from ending,
  although `doc/mng.md:61` says "Stop the server to unlock the index". `CommandEnds` excepts
  this (`LeftWaiting`); `CloseReturns` shows it of the reducer.
* An object store that misreads the metadata of a namespace gives an empty one (`odss.go:614`), and a
  run from left to right writes this back to its left side: `SourceKeptAtRest` and
  `TargetKept` except what is below (`Seen`).
* In both directions a side of an entry that cannot be read is taken for one without it
  (`algo.go:103`, `168`), and the older content may replace the newer: `NewestSurvives` leaves
  these faults out.
* A purge goes on after metadata that it could not read or list (`odss.go:1154`) and
  removes contents that are referred to; it races with writers that found their
  content present (`odss.go:1051`). Symbolic links make audit and scan fail always
  (`odss.go:1124`), and the audit fails as long as an unused content exists.
* Updates of one list of children by two calls are lost (`odss.go:585`). Intervals of one
  instant disappear from the history (`odss.go:708`). `RemoveHistory` removes a version
  with two intervals twice and fails (`odss.go:808`).
* A memory index filled after a failed listing hides old versions (`odss.go:492`).
* A bidirectional run in which both metadata are missing panics (`io.go:97`).
* What an answer to a web client lists as deleted is read by nobody (`index.go:441`).
  JSON requests are sent again without their body (`web.go:458`).
* Each process loads the whole index file when it opens it: two that open it before
  either has written the lock both find it unset (`index.go:753`, `765`). A transaction that
  fails has advanced the client's (`index.go:461`), and a merge that fails opens the
  DSS without the answer (`index.go:573`).
* A rebuild of the index that is cut short, or whose transaction fails, leaves an
  empty index that is not locked, and the command reports no error for the latter
  (`index.go:813-852`).
* A removal that the storage refuses leaves a version that the index does not list and that
  scans and the audit still read (`odss.go:804`).
* A file of a file system whose `Close` fails is removed (`fsy.go:36`, `205`).

Not in the models:

* `isClientKnown` reads a map without the transaction that writes it (`index.go:475`).
* `GetCustomConfig` takes the first root that is a prefix of the path, in the random
  order of a map (`web.go:286`): with a DSS at `/` and one at `/a/` either may serve `/a/`.
* A full update puts `&isFull=true` after the client's name without a question mark
  (`webdsscl.go:201`); nothing but tests asks for one.
* Errors of a remote scan are dropped (`webdss.go:401` assigns its own variable), and a
  purge through a web client removes nothing. A purge of an encrypted DSS removes what
  other users refer to. The goroutines of the deletion of a bucket share one error
  (`s3utils.go:245`). Listing drops the errors of sub-namespaces (`lsns.go:174`).
  `scanStorage` supposes a bdb index (`odss.go:1160`). A failed copy of a command still
  closes its writer (`dss.go:266`), so that a truncated content is stored.

## 6. Not modelled, and the plan

Out of reach or without state of their own: parsing of options and formatting,
encodings, TLS, the file system and REST interfaces of the servers, test tooling;
rights and their mapping; encryption (`edss`, `age`), whose names and metadata depend
on cryptography; `unscalableReducer`, which no DSS uses. Of the commands: the second
interruption, the prompts after the first, the verbose output of a synchronization.

Next, in this order:

1. The abort from the terminal inside `Sync`, with `Parallel` as what it runs on.
2. Symbolic links and `Evaluate` in `Sync`; restarts of the server in `ClientIndex`.
3. A cold index with two goroutines in `IndexedStore`, with a weaker `NewestChosen`.
4. Encrypted stores: identifiers of encrypted metadata as model values.

Theorems planned: that `ClientIndex` implements a copy that lags behind the server's lists.
Modules to be proved about declare no RECURSIVE operator.
