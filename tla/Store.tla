------------------------------- MODULE Store --------------------------------
(***************************************************************************)
(* An object store DSS (cabridss/odss.go over olf.go or obs.go): a tree of *)
(* namespaces and files, each entry with its versions; the contents of the *)
(* files, kept once per checksum; the scan that purges contents; and the   *)
(* removal of a period of the history.                                     *)
(*                                                                         *)
(* IndexedStore has the details of a version's way into the index and the  *)
(* storage. Here it is indexed, then stored, and readers go by the index   *)
(* (bdb). What a call reads to decide whether it may go on is one step.    *)
(*                                                                         *)
(* Left out: access rights, encrypted repositories, and names that change  *)
(* from a file to a namespace.                                             *)
(***************************************************************************)
EXTENDS History

CONSTANTS
    Contents,   \* the checksums of the contents considered
    Link,       \* what the metadata of a symbolic link holds
    Threads,    \* the goroutines that use the DSS
    Modes       \* the uses considered

\* A use: where the DSS is stored, files (olf.go) or objects (obs.go); the
\* goroutines at work, what they do, on which entries, with which contents, in
\* which periods; whether calls fail and processes crash; how far apart versions
\* are and when the last one may be made (bounds); the versions to begin with.
ASSUME ModesComplete ==
    \A m \in Modes :
        /\ {"storage", "threads", "ops", "entries", "contents", "periods", "faults",
             "gaps", "last", "priors"} \subseteq DOMAIN m
        /\ m.storage \in {"files", "objects"}
        /\ m.threads \subseteq Threads /\ m.entries \subseteq Paths /\ m.last \in Times
        /\ m.ops \subseteq {"updatens", "write", "symlink", "remove", "scan", "removeHistory"}
        /\ m.contents \subseteq Contents /\ m.gaps \subseteq Nat \ {0}
        /\ m.periods \subseteq Nat \X Nat

Files == Paths \ Namespaces
FileValues == Contents \union {Link}
Values == (SUBSET Paths) \union Contents \union {Link, NoVersion}

\* To begin with, a file has contents and links, a namespace has lists.
ASSUME PriorsTyped ==
    \A m \in Modes : \A prior \in m.priors :
        /\ prior \in [Paths -> [Times -> Values]]
        /\ \A p \in Paths, t \in Times : prior[p][t] # NoVersion =>
              prior[p][t] \in IF p \in Files THEN FileValues ELSE SUBSET Paths
ASSUME ValuesDistinct ==
    /\ \A list \in SUBSET Paths : list \notin Contents \union {Link, NoVersion}
    /\ Link \notin Contents /\ NoVersion \notin Contents \union {Link}
Versions == Paths \X Times

VARIABLES
    mode,       \* the use, which never changes
    content,    \* the checksums of the contents in the storage
    stored,     \* the versions whose metadata is in the storage
    clock,      \* the last index time given
    call,       \* what each goroutine is doing
    failed,     \* history: versions that a write or a removal left in the index
                \* or the storage only
    unsure,     \* history: contents removed by a purge that was disturbed
    doubt,      \* history: the scans that others disturb, or that fail to read
    removed,    \* history: entries whose Remove succeeded, not listed since
    contested,  \* history: those removed while others updated their parent, or
                \* removed versions of it
    settled     \* history: nothing has changed since a purge

histVars == <<failed, unsure, doubt, removed, contested, settled>>
vars == <<mode, content, version, indexed, stored, clock, call, histVars>>

Idle == [step |-> "idle", op |-> "none", path |-> Root, value |-> NoVersion, time |-> 0,
         entry |-> Root, todo |-> {}, gone |-> <<Root, 0>>, report |-> {}, split |-> {},
         halfway |-> FALSE, contents |-> {}, from |-> 0, to |-> 0]

TypeOK ==
    /\ mode \in Modes
    /\ content \subseteq Contents
    /\ version \in [Paths -> [Times -> Values]]
    /\ indexed \in [Paths -> SUBSET Times]
    /\ stored \in [Paths -> SUBSET Times]
    /\ clock \in 0 .. LastTime
    /\ \A th \in Threads :
          /\ call[th].step \in {"idle", "stamp", "query", "push", "index", "store",
                                "metas", "contents", "check", "purge", "select", "drop", "unstore"}
          /\ call[th].path \in Paths /\ call[th].entry \in Paths
          /\ call[th].value \in Values
          /\ call[th].time \in 0 .. LastTime
          /\ call[th].contents \subseteq Contents
    /\ failed \subseteq Versions
    /\ unsure \subseteq Contents
    /\ doubt \subseteq Threads
    /\ removed \subseteq Paths /\ contested \subseteq Paths
    /\ settled \in BOOLEAN

Init ==
    /\ mode \in Modes
    /\ version \in mode.priors
    /\ indexed = [p \in Paths |-> {t \in Times : version[p][t] # NoVersion}]
    /\ stored = indexed
    /\ content = Contents \intersect UNION {{version[p][t] : t \in Times} : p \in Files}
    /\ clock = Newest(UNION {indexed[p] : p \in Paths})
    /\ call = [th \in Threads |-> Idle]
    /\ failed = {} /\ unsure = {} /\ doubt = {}
    /\ removed = {} /\ contested = {}
    /\ settled = FALSE

-----------------------------------------------------------------------------
(* Calls in their goroutines                                               *)

At(th, step) == call[th].step = step
Goto(th, step) == call' = [call EXCEPT ![th].step = step]
Finish(th) == call' = [call EXCEPT ![th] = Idle]
Quiet == \A th \in Threads : At(th, "idle")

\* The calls that update the list of a namespace.
Listing(d) == {th \in Threads : call[th].op \in {"updatens", "remove"} /\ call[th].path = d}

\* The goroutine is free, and the use has this operation.
Allowed(th, op, p) ==
    At(th, "idle") /\ th \in mode.threads /\ op \in mode.ops /\ p \in mode.entries

\* A call begins: it disturbs the scans under way, or is one and is disturbed
\* by the calls under way; updates of one list contest its removals.
Begin(th, op, c) ==
    /\ Allowed(th, op, c.path)
    /\ call' = [call EXCEPT ![th] = c]
    /\ doubt' = (doubt \ {th}) \union
                {u \in Threads : call[u].op = "scan"} \union
                {u \in {th} : op = "scan" /\ ~Quiet}
    /\ contested' =
         IF op \in {"updatens", "remove"} /\ Listing(c.path) # {}
         THEN contested \union {c.entry} \union {call[u].entry : u \in Listing(c.path)}
         ELSE contested \ {c.entry}
    /\ removed' = removed \ {c.entry}
    /\ UNCHANGED <<mode, content, version, indexed, stored, clock, failed, unsure, settled>>

hasParent(p) == p = Root \/ Lists(Parent[p], p, Forever)

\* The new version of a namespace, for Mkns, Updatens and Remove.
doUpdatens(op, d, entry, children) ==
    [Idle EXCEPT !.step = "stamp", !.op = op, !.path = d, !.entry = entry, !.value = children]

\* Mkns and Updatens: the caller gives the whole list.
mkupns(th, d, children) ==
    /\ Begin(th, "updatens", doUpdatens("updatens", d, Root, children))
    /\ hasParent(d)

\* GetContentWriter: the content goes to a temporary file until Close.
getContentWriter(th, p, ch) ==
    /\ Begin(th, "write", [Idle EXCEPT !.step = "stamp", !.op = "write",
                                       !.path = p, !.value = ch])
    /\ hasParent(p)

doSymlink(p) == [Idle EXCEPT !.step = "stamp", !.op = "symlink", !.path = p, !.value = Link]

symlink(th, p) ==
    /\ Begin(th, "symlink", doSymlink(p))
    /\ hasParent(p)

\* A fault: a namespace is looked for in the list without its slash.
removeWithoutSlash(th, p) ==
    /\ p # Root /\ Allowed(th, "remove", Parent[p]) /\ hasParent(p)
    /\ Begin(th, "remove", doUpdatens("remove", Parent[p], p, Now(Parent[p]) \ ({p} \ Namespaces)))

\* Remove reads the list of the parent, and will write it back without the
\* entry; the versions of the entry stay.
remove(th, p) ==
    /\ p # Root /\ Allowed(th, "remove", Parent[p]) /\ hasParent(p)
    /\ Begin(th, "remove", doUpdatens("remove", Parent[p], p, Now(Parent[p]) \ {p}))

-----------------------------------------------------------------------------
(* Storing a version                                                       *)

\* A fault: the target of a symbolic link is handled as a content.
StampLinkAsContent(th) ==
    /\ At(th, "stamp")
    /\ \E gap \in mode.gaps :
          /\ clock + gap <= mode.last
          /\ clock' = clock + gap
          /\ call' = [call EXCEPT ![th].time = clock + gap,
                                  ![th].step = IF call[th].op \in {"write", "symlink"}
                                               THEN "query" ELSE "index"]
    /\ UNCHANGED <<mode, content, version, indexed, stored, histVars>>

\* getMetaBytes reads the clock.
Stamp(th) ==
    /\ At(th, "stamp")
    /\ \E gap \in mode.gaps :
          /\ clock + gap <= mode.last
          /\ clock' = clock + gap
          /\ call' = [call EXCEPT ![th].time = clock + gap,
                                  ![th].step = IF call[th].op = "write"
                                               THEN "query" ELSE "index"]
    /\ UNCHANGED <<mode, content, version, indexed, stored, histVars>>

queryContent(ch) == ch \in content

\* pushContent looks whether the storage has the content; when it cannot be
\* told, it has not.
QueryContent(th) ==
    /\ At(th, "query")
    /\ \/ Goto(th, IF queryContent(call[th].value) THEN "index" ELSE "push")
       \/ mode.faults /\ Goto(th, "push")
    /\ UNCHANGED <<mode, content, version, indexed, stored, clock, histVars>>

\* The content is in the storage; another goroutine may have put it there
\* meanwhile.
Pushed(ch) ==
    /\ content' = content \union {ch}
    /\ unsure' = unsure \ {ch}
    /\ settled' = FALSE
    /\ UNCHANGED <<mode, version, indexed, stored, clock, failed, doubt, removed, contested>>

\* The temporary file is renamed.
PushContent(th) ==
    /\ At(th, "push") /\ mode.storage = "files"
    /\ Pushed(call[th].value)
    /\ Goto(th, "index")

\* Or it is uploaded.
Upload(th) ==
    /\ At(th, "push") /\ mode.storage = "objects"
    /\ Pushed(call[th].value)
    /\ Goto(th, "index")

\* The answer may be lost: the call fails.
UploadLost(th) ==
    /\ At(th, "push") /\ mode.storage = "objects" /\ mode.faults
    /\ Pushed(call[th].value)
    /\ Finish(th)

\* The upload conflicts with another one of the same content: pushContent
\* looks again.
UploadConflicts(th) ==
    /\ At(th, "push") /\ mode.storage = "objects"
    /\ \E u \in Threads \ {th} : call[u].op = "write" /\ call[u].value = call[th].value
    /\ IF queryContent(call[th].value) THEN Goto(th, "index") ELSE Finish(th)
    /\ UNCHANGED <<mode, content, version, indexed, stored, clock, histVars>>

\* storeAndIndexMeta: the index first.
IndexMeta(th) ==
    LET p == call[th].path  t == call[th].time  v == call[th].value IN
    /\ At(th, "index")
    /\ version' = [version EXCEPT ![p][t] = v]
    /\ indexed' = [indexed EXCEPT ![p] = @ \union {t}]
    /\ failed' = failed \union {<<p, t>>}
    /\ removed' = IF p \in Namespaces THEN removed \ v ELSE removed
    /\ settled' = FALSE
    /\ Goto(th, "store")
    /\ UNCHANGED <<mode, content, stored, clock, unsure, doubt, contested>>

\* The metadata is in the storage.
Stored(p, t, value) ==
    /\ stored' = [stored EXCEPT ![p] = @ \union {t}]
    /\ version' = [version EXCEPT ![p][t] = value]
    /\ failed' = IF t \in indexed[p] THEN failed \ {<<p, t>>} ELSE failed \union {<<p, t>>}
    /\ UNCHANGED <<mode, content, indexed, clock, unsure, doubt, contested, settled>>

StoreMeta(th) ==
    /\ At(th, "store")
    /\ Stored(call[th].path, call[th].time, call[th].value)
    /\ removed' = IF call[th].op = "remove" THEN removed \union {call[th].entry} ELSE removed
    /\ Finish(th)

\* The object is put, and the answer is lost: the call fails.
PutMetaLost(th) ==
    /\ At(th, "store") /\ mode.storage = "objects" /\ mode.faults
    /\ Stored(call[th].path, call[th].time, call[th].value)
    /\ Finish(th)
    /\ UNCHANGED removed

\* The storage refuses.
CallFails(th) ==
    /\ mode.faults
    /\ call[th].step \in {"push", "index", "store"}
    /\ Finish(th)
    /\ UNCHANGED <<mode, content, version, indexed, stored, clock, histVars>>

\* The process ends, and another one opens the DSS.
Crash ==
    /\ mode.faults
    /\ ~Quiet
    /\ call' = [th \in Threads |-> Idle]
    /\ UNCHANGED <<mode, content, version, indexed, stored, clock, histVars>>

-----------------------------------------------------------------------------
(* ScanStorage                                                             *)

scanStorage(th) ==
    Begin(th, "scan", [Idle EXCEPT !.step = "metas", !.op = "scan"])

\* The scan knows of these versions, or objects; it met an error if there are
\* others.
MetasScanned(th, found) ==
    /\ call' = [call EXCEPT ![th].step = "contents", ![th].todo = found]
    /\ doubt' = IF \E p \in Paths : \E t \in stored[p] : <<p, t>> \notin found
                THEN doubt \union {th} ELSE doubt
    /\ UNCHANGED <<mode, content, version, indexed, stored, clock, failed, unsure, removed,
                   contested, settled>>

StoredVersions == {v \in Versions : v[2] \in stored[v[1]]}

\* The metadata files are read, directory by directory: the versions of an
\* entry are in one, and a file that cannot be opened ends it.
scanMetaDir(th) ==
    /\ At(th, "metas") /\ mode.storage = "files"
    /\ \/ MetasScanned(th, StoredVersions)
       \/ /\ mode.faults
          /\ \E p \in mode.entries : \E times \in SUBSET stored[p] :
                MetasScanned(th, StoredVersions \ ({p} \X times))

\* A listing of objects is made of several, which fail together.
List(objects) == {objects} \union (IF mode.faults THEN {{}} ELSE {})

\* The metadata objects are listed, then each one is read.
scanMetaObjs(th) ==
    /\ At(th, "metas") /\ mode.storage = "objects"
    /\ \E objects \in List(StoredVersions) :
          \/ MetasScanned(th, objects)
          \/ mode.faults /\ \E v \in objects : MetasScanned(th, objects \ {v})

\* The scan knows of these contents; it met an error if there are others.
ContentsScanned(th, found) ==
    /\ call' = [call EXCEPT ![th].step = "check", ![th].contents = found]
    /\ doubt' = IF found # content THEN doubt \union {th} ELSE doubt
    /\ UNCHANGED <<mode, content, version, indexed, stored, clock, failed, unsure, removed,
                   contested, settled>>

\* Each directory of contents is listed, or not.
scanContentDir(th) ==
    /\ At(th, "contents") /\ mode.storage = "files"
    /\ \/ ContentsScanned(th, content)
       \/ mode.faults /\ \E found \in SUBSET content : ContentsScanned(th, found)

\* The content objects are listed.
scanContentObjs(th) ==
    /\ At(th, "contents") /\ mode.storage = "objects"
    /\ \E objects \in List(content) : ContentsScanned(th, objects)

\* A fault: only the newest version of a file counts.
CheckMetasNewest(th) ==
    /\ At(th, "check")
    /\ LET existing == {version[v[1]][v[2]] : v \in {w \in call[th].todo : w[2] = Newest(stored[w[1]])}}
       IN call' = [call EXCEPT ![th].step = "purge", ![th].contents = @ \ existing,
                               ![th].todo = {}]
    /\ UNCHANGED <<mode, content, version, indexed, stored, clock, histVars>>

\* The metadata is loaded again: what it refers to exists.
CheckMetas(th) ==
    /\ At(th, "check")
    /\ LET existing == {version[v[1]][v[2]] : v \in {w \in call[th].todo : w[2] \in stored[w[1]]}}
       IN call' = [call EXCEPT ![th].step = "purge", ![th].contents = @ \ existing,
                               ![th].todo = {}]
    /\ UNCHANGED <<mode, content, version, indexed, stored, clock, histVars>>

\* A fault: the purge stops after a content.
PurgeFirst(th) ==
    /\ At(th, "purge")
    /\ content' = IF call[th].contents = {} THEN content
                  ELSE content \ {CHOOSE ch \in call[th].contents : TRUE}
    /\ settled' = (th \notin doubt)
    /\ Finish(th)
    /\ UNCHANGED <<mode, version, indexed, stored, clock, failed, unsure, doubt, removed,
                   contested>>

\* An error is noted, and the purge goes on; the answer of an object storage
\* may be what was lost.
removeContent(th, ch) ==
    \/ content' = content \ {ch} /\ UNCHANGED doubt
    \/ /\ mode.faults
       /\ \/ UNCHANGED content
          \/ mode.storage = "objects" /\ content' = content \ {ch}
       /\ doubt' = doubt \union {th}

\* purgeContent removes the contents that do not, whatever errors the scan met.
purgeContent(th) ==
    /\ At(th, "purge")
    /\ IF call[th].contents = {}
       THEN /\ Finish(th)
            /\ settled' = (th \notin doubt)
            /\ UNCHANGED <<content, unsure, doubt>>
       ELSE \E ch \in call[th].contents :
               /\ removeContent(th, ch)
               /\ call' = [call EXCEPT ![th].contents = @ \ {ch}]
               /\ unsure' = IF th \in doubt THEN unsure \union {ch} ELSE unsure
               /\ UNCHANGED settled
    /\ UNCHANGED <<mode, version, indexed, stored, clock, failed, removed, contested>>

-----------------------------------------------------------------------------
(* RemoveHistory                                                           *)

\* The period is given in seconds, the last one included; 0 is no limit.
removeHistory(th, p, start, end) ==
    Begin(th, "removeHistory",
          [Idle EXCEPT !.step = "select", !.op = "removeHistory", !.path = p,
                       !.from = start, !.to = IF end = 0 THEN Forever ELSE end + Second])

\* A fault: the end of an interval is not looked at.
InPeriodStarted(c, i) == c.from <= i.start /\ i.start <= c.to

InPeriod(c, i) == c.from <= i.start /\ c.from <= i.end /\ i.start <= c.to /\ i.end <= c.to

\* The intervals of the history of the entry, and of all below it, that are
\* within the period.
Selected(c) ==
    UNION {{<<q, i>> : i \in {j \in doGetHistory(q, Second) : InPeriod(c, j)}} :
              q \in {r \in Paths : Below(r, c.path)}}

\* The version that is seen at the end of a second.
SeenAt(p, t) == VisibleAt(p, Align(t, Second) + Second - 1)

\* A version is seen, and no interval holds all the instants at which it is: its
\* entry was removed, then listed again.
Divided(v) ==
    LET shown == {t \in Times : SeenAt(v[1], t) = v[2]}
    IN /\ shown # {}
       /\ ~ \E i \in doGetHistory(v[1], Second) : \A t \in shown : i.start <= t /\ t <= i.end

\* Passes are made until one selects nothing.
SelectHistory(th) ==
    /\ At(th, "select")
    /\ LET selected == Selected(call[th]) IN
       IF selected = {}
       THEN Finish(th)
       ELSE call' = [call EXCEPT ![th].step = "drop", ![th].todo = selected,
                                 ![th].split = {v \in Versions : Divided(v)}]
    /\ UNCHANGED <<mode, content, version, indexed, stored, clock, failed, unsure, doubt, removed,
                   contested, settled>>

\* The intervals of an entry are in order.
First(r, todo) == \A s \in todo : s[1] = r[1] => r[2].start <= s[2].start

\* The next pass.
PassEnds(th) ==
    /\ At(th, "drop") /\ call[th].todo = {}
    /\ Goto(th, "select")
    /\ UNCHANGED <<mode, content, version, indexed, stored, clock, histVars>>

\* What is left of a version that the index or the storage has no more: the other
\* may have it still.
Taken(q, t) ==
    LET left == t \in indexed'[q] \union stored'[q] IN
    /\ version' = [version EXCEPT ![q][t] = IF left THEN @ ELSE NoVersion]
    /\ failed' = IF left THEN failed \union {<<q, t>>} ELSE failed \ {<<q, t>>}
    /\ settled' = FALSE

\* The version of an interval is removed from the index; the call fails where the
\* index does not list it.
Unindex(th) ==
    /\ At(th, "drop")
    /\ UNCHANGED <<mode, content, stored, clock, unsure, doubt>>
    /\ \E s \in {r \in call[th].todo : First(r, call[th].todo)} :
          LET q == s[1]  t == s[2].at IN
          \/ /\ t \in indexed[q]
             /\ indexed' = [indexed EXCEPT ![q] = @ \ {t}]
             /\ Taken(q, t)
             /\ removed' = {e \in removed : Parent[e] # q}
             /\ contested' = contested \union {call[u].entry : u \in Listing(q)}
             /\ call' = [call EXCEPT ![th].step = "unstore",
                                     ![th].gone = <<q, t>>, ![th].halfway = (<<q, t>> \in failed),
                                     ![th].todo = @ \ {s}, ![th].report = @ \union {s}]
          \/ /\ t \notin indexed[q]
             /\ Finish(th)
             /\ UNCHANGED <<version, indexed, failed, removed, contested, settled>>

\* It is in the storage no more.
Unstored(q, t) ==
    /\ t \in stored[q]
    /\ stored' = [stored EXCEPT ![q] = @ \ {t}]
    /\ Taken(q, t)

\* Then it is removed from the storage: a file that is not there is an error, an
\* object is not.
Unstore(th) ==
    LET q == call[th].gone[1]  t == call[th].gone[2] IN
    /\ At(th, "unstore")
    /\ UNCHANGED <<mode, content, indexed, clock, unsure, doubt, removed, contested>>
    /\ \/ Unstored(q, t) /\ Goto(th, "drop")
       \/ /\ t \notin stored[q]
          /\ IF mode.storage = "files" THEN Finish(th) ELSE Goto(th, "drop")
          /\ UNCHANGED <<version, stored, failed, settled>>

\* The index or the storage refuses, and the call fails; or the object is deleted
\* and the answer is lost.
RemovalRefused(th) ==
    /\ mode.faults
    /\ Finish(th)
    /\ UNCHANGED <<mode, content, indexed, clock, unsure, doubt, removed, contested>>
    /\ \/ /\ At(th, "unstore") \/ (At(th, "drop") /\ call[th].todo # {})
          /\ UNCHANGED <<version, stored, failed, settled>>
       \/ /\ At(th, "unstore") /\ mode.storage = "objects"
          /\ Unstored(call[th].gone[1], call[th].gone[2])

-----------------------------------------------------------------------------
StartCall(th) ==
    \/ \E d \in Namespaces : \E children \in SUBSET (ChildrenOf(d) \intersect mode.entries) :
           mkupns(th, d, children)
    \/ \E p \in Files, ch \in mode.contents : getContentWriter(th, p, ch)
    \/ \E p \in Files : symlink(th, p)
    \/ \E p \in Paths : remove(th, p)
    \/ scanStorage(th)
    \/ \E p \in Paths, w \in mode.periods : removeHistory(th, p, w[1], w[2])

CallStep(th) ==
    \/ Stamp(th) \/ QueryContent(th) \/ PushContent(th)
    \/ Upload(th) \/ UploadLost(th) \/ UploadConflicts(th)
    \/ IndexMeta(th) \/ StoreMeta(th) \/ PutMetaLost(th) \/ CallFails(th)
    \/ scanMetaDir(th) \/ scanMetaObjs(th) \/ scanContentDir(th) \/ scanContentObjs(th)
    \/ CheckMetas(th) \/ purgeContent(th)
    \/ SelectHistory(th) \/ PassEnds(th) \/ Unindex(th) \/ Unstore(th) \/ RemovalRefused(th)

Next == (\E th \in Threads : StartCall(th) \/ CallStep(th)) \/ Crash

Spec == Init /\ [][Next]_vars
-----------------------------------------------------------------------------
(* What a store promises                                                   *)

\* ContentKept: no purge, failed call or crash takes the content from a
\* version whose write succeeded. The exceptions are the contents that a purge
\* removed while another call was under way, or after metadata that it could
\* not read (odss.go:1051, 1154).
ContentKept ==
    \A p \in Files, t \in Times :
        t \in stored[p] /\ <<p, t>> \notin failed /\ version[p][t] \in Contents
            => version[p][t] \in content \union unsure

\* RemovalHolds: once Remove has succeeded the entry stays out of its
\* namespace until a version lists it again, unless another update of that
\* namespace, or a removal of its history, was under way at the same time
\* (odss.go:585).
RemovalHolds == \A p \in removed \ contested : ~ Lists(Parent[p], p, Forever)

\* An interval of one instant, which GetHistory does not show.
Brief(p, t) ==
    LET changes == UNION {indexed[q] : q \in {r \in Paths : Below(p, r)}}
    IN t \in changes /\ t + 1 \in changes

\* HistoryExact: the intervals that GetHistory returns say of every instant,
\* or of the end of every second, what somebody finds who opens the DSS as of
\* then: no gap, no overlap that disagrees, nothing of a time when the entry was
\* not listed.
HistoryExact ==
    Quiet =>
        \A resolution \in {1, Second}, p \in Paths \ {Root} :
            LET history == doGetHistory(p, resolution) IN
            \A t \in Times :
            LET shown == ShownAt(history, t)
                seen == VisibleAt(p, Align(t, resolution) + resolution - 1)
            IN \/ (resolution = 1 /\ Brief(p, t))
               \/ (seen = 0 /\ shown = {})
               \/ /\ seen # 0 /\ shown # {}
                  /\ \A i \in shown : version[p][i.at] = version[p][seen]

\* The versions that a step of RemoveHistory takes away.
Dropped(th) == {v \in Versions : /\ At(th, "drop") /\ call'[th] # call[th]
                                 /\ v[2] \in indexed[v[1]] \ indexed'[v[1]]}

\* RemovalOutside: alone, a pass of RemoveHistory changes nothing that is seen at
\* a second out of its period, until it removes a version of which another interval
\* is seen too (its entry was removed, then listed again).
RemovalOutside ==
    [][\A th \in mode.threads :
          /\ mode.threads = {th}
          /\ \A r \in call[th].report : <<r[1], r[2].at>> \notin call[th].split
          => \A v \in Dropped(th) \ call[th].split :
              \A p \in Paths, t \in Times :
                  \/ call[th].from <= Align(t, Second) /\ Align(t, Second) <= call[th].to
                  \/ SeenAt(p, t)' = SeenAt(p, t)]_vars

\* Two intervals of one version, with a gap between them.
Apart(r, s) == /\ r[1] = s[1] /\ r[2].at = s[2].at
               /\ r[2].end + 1 < s[2].start \/ s[2].end + 1 < r[2].start

\* RemovalFails: alone, RemoveHistory stops halfway, when nothing refuses, only at
\* a version that has two intervals within the period and is removed for each of
\* them (odss.go:808), or, in files, at one that an earlier write or removal left
\* in the index only.
RemovalFails ==
    [][\A th \in mode.threads :
          mode.threads = {th} /\ (Unindex(th) \/ Unstore(th)) /\ At(th, "idle")' =>
              \/ /\ At(th, "drop")
                 /\ \E s \in call[th].todo, r \in call[th].report : Apart(r, s)
              \/ At(th, "unstore") /\ mode.storage = "files" /\ call[th].halfway]_vars

\* What AuditIndex reports: an error where ScanStorage finds one, else the
\* versions that are in the index or the storage only.
auditIndex ==
    IF \/ \E v \in Versions : v[2] \in stored[v[1]] /\ v[1] \in Files
                               /\ version[v[1]][v[2]] \notin content
       \/ content # Contents \intersect UNION {{version[p][t] : t \in stored[p]} : p \in Files}
    THEN {"error"}
    ELSE UNION {{<<p, t>> : t \in (stored[p] \ indexed[p]) \union (indexed[p] \ stored[p])} :
                    p \in Paths}

\* PurgeExact: after an undisturbed purge nothing is left that no version
\* refers to, and AuditIndex then reports exactly the versions that a write or a
\* removal left halfway. With symbolic links it always fails (odss.go:1124).
PurgeExact ==
    settled /\ Quiet =>
        /\ \A ch \in content : \E p \in Files : \E t \in stored[p] : version[p][t] = ch
        /\ auditIndex = IF \E p \in Files : \E t \in stored[p] :
                               version[p][t] \in {Link} \union (Contents \ content)
                        THEN {"error"} ELSE failed
=============================================================================
