---------------------------- MODULE ClientIndex ----------------------------
(***************************************************************************)
(* The replication of a server's index to its web clients (index.go, the   *)
(* functions on clients; webdss.go and webdsscl.go).                       *)
(*                                                                         *)
(* The server notes, for each client it knows, the list of times of each   *)
(* path that changes, under the client's current transaction. A process of *)
(* the client that opens the DSS is given what is noted, and the server    *)
(* goes on with the next transaction; the process then merges the answer   *)
(* into the client's own index. This is a file that each process loads into *)
(* memory and writes its changes to; a lock in it is to keep the processes *)
(* of a client apart, but each of them tests and sets it in its own copy.  *)
(* Requests may be executed and their answers lost, storages may refuse to *)
(* write, processes may be killed.                                         *)
(*                                                                         *)
(* Left out: metadata (a version is its time), contents, encryption, which *)
(* renames paths, restarts of the server, uses of its DSS beside it, and   *)
(* what IndexedStore says of one index: interleavings of the goroutines of *)
(* one process, repairs, rebuilds.                                         *)
(***************************************************************************)
EXTENDS Integers

CONSTANTS
    Clients,    \* the client identifiers
    Processes,  \* processes that open the DSS
    ClientOf,   \* the client, that is the configuration, of each process
    Paths,      \* the entries
    Prior,      \* versions of each path that the server holds to begin with
    MaxTime,    \* bound: no version is written after this time
    MaxTx,      \* bound: the last transaction of each client
    MaxFaults,  \* bound on the number of faults
    Faults,     \* what may happen, among "crash", "lost", "refused"
    NoEntry     \* the index has no such key

ASSUME ClientsAssigned == ClientOf \in [Processes -> Clients]
ASSUME BoundsNatural == MaxTime \in Nat /\ MaxTx \in [Clients -> Nat] /\ MaxFaults \in Nat
ASSUME PathsExist == Paths # {}
ASSUME PriorBounded == Prior \in 0 .. MaxTime
ASSUME FaultsKnown == Faults \subseteq {"crash", "lost", "refused"}

Times == 1 .. MaxTime
Txs   == UNION {0 .. MaxTx[c] : c \in Clients}

ASSUME NoEntryDistinct == \A list \in SUBSET Times : list # NoEntry

VARIABLES
    mts,        \* server: the times of each path in its index
    files,      \* server: the versions in its storage
    known,      \* server: the clients it has recorded
    txId,       \* server: the current transaction of each client
    noted,      \* server: what each transaction of a client holds
    local,      \* the index file of each client: times of a path, or NoEntry
    lock,       \* the key g/lock of this file
    copy,       \* the index of each process, in memory
    proc,       \* what each process does
    clock,      \* the last index time given
    faults,     \* how many faults happened
    dropped,    \* history: clients that something was dropped for
    raced,      \* history: clients whose index two processes opened at once
    unpurged    \* history: clients whose last update was not stored

serverVars == <<mts, files, known, txId, noted>>
clientVars == <<local, lock, copy>>
envVars    == <<clock, faults>>
history    == <<dropped, raced, unpurged>>
vars == <<serverVars, clientVars, proc, envVars, history>>

Lists   == [Paths -> (SUBSET Times) \union {NoEntry}]
NoLists == [p \in Paths |-> NoEntry]

Steps == {"closed", "ask", "openIndex", "lock", "merge", "open",
          "store", "push", "keep", "unlist", "remove"}
Session == {"merge", "open", "store", "push", "keep", "unlist", "remove"}

TypeOK ==
    /\ mts \in [Paths -> SUBSET Times]
    /\ files \in [Paths -> SUBSET Times]
    /\ known \in SUBSET Clients
    /\ txId \in [Clients -> Txs]
    /\ noted \in [Clients -> [Txs -> Lists]]
    /\ local \in [Clients -> Lists]
    /\ lock \in [Clients -> BOOLEAN]
    /\ copy \in [Processes -> Lists]
    /\ proc \in [Processes -> [step : Steps, wasKnown : BOOLEAN, refused : BOOLEAN,
                               answer : Lists, path : Paths, time : 0 .. MaxTime]]
    /\ clock \in 0 .. MaxTime
    /\ faults \in 0 .. MaxFaults
    /\ dropped \in SUBSET Clients /\ raced \in SUBSET Clients /\ unpurged \in SUBSET Clients

Closed == [step |-> "closed", wasKnown |-> FALSE, refused |-> FALSE, answer |-> NoLists,
           path |-> CHOOSE p \in Paths : TRUE, time |-> 0]

Held(list) == IF list = NoEntry THEN {} ELSE list

Init ==
    /\ mts = [p \in Paths |-> 1 .. Prior]
    /\ files = mts
    /\ known = {}
    /\ txId = [c \in Clients |-> 0]
    /\ noted = [c \in Clients |-> [n \in Txs |-> NoLists]]
    /\ local = [c \in Clients |-> NoLists]
    /\ lock = [c \in Clients |-> FALSE]
    /\ copy = [pr \in Processes |-> NoLists]
    /\ proc = [pr \in Processes |-> Closed]
    /\ clock = Prior
    /\ faults = 0
    /\ dropped = {} /\ raced = {} /\ unpurged = {}

----------------------------------------------------------------------------
(* The server's index. Its handlers run one transaction at a time.         *)

\* Faulty variant: clients are noted for from their first update on.
doStoreMetaTimesSkips(p, list) ==
    /\ mts' = [mts EXCEPT ![p] = list]
    /\ noted' = [c \in Clients |->
                    IF c \in known /\ txId[c] > 0
                    THEN [noted[c] EXCEPT ![txId[c]][p] = list] ELSE noted[c]]

\* The new list of a path is noted for every client that is known.
doStoreMetaTimes(p, list) ==
    /\ mts' = [mts EXCEPT ![p] = list]
    /\ noted' = [c \in Clients |->
                    IF c \in known
                    THEN [noted[c] EXCEPT ![txId[c]][p] = list] ELSE noted[c]]

doStoreMeta(p, t) ==
    IF t \in mts[p] THEN UNCHANGED <<mts, noted>>
    ELSE doStoreMetaTimes(p, mts[p] \union {t})

\* What an answer changes in a client's index: empty lists are left out, and
\* what the answer says was deleted is not looked at.
Sent(lists) == [p \in Paths |-> IF lists[p] = {} THEN NoEntry ELSE lists[p]]

\* Faulty variant: the transactions start one too early.
recordClientEarly(c) ==
    /\ known' = known \union {c}
    /\ txId' = [txId EXCEPT ![c] = @ - 1]
    /\ UNCHANGED noted

\* A client is recorded with an answer that holds the whole index.
recordClient(c) ==
    /\ known' = known \union {c}
    /\ txId' = [txId EXCEPT ![c] = 0]
    /\ UNCHANGED noted

\* Faulty variant: the transaction goes on, nothing is purged.
updateClientUnpurged(c) ==
    /\ txId[c] < MaxTx[c]
    /\ txId' = [txId EXCEPT ![c] = @ + 1]
    /\ UNCHANGED <<known, noted>>

\* What older transactions hold is purged; the current one, which the answer
\* repeats, stays until the next update.
updateClient(c) ==
    /\ txId[c] < MaxTx[c]
    /\ noted' = [noted EXCEPT ![c] = [n \in Txs |-> IF n < txId[c] THEN NoLists ELSE @[n]]]
    /\ txId' = [txId EXCEPT ![c] = @ + 1]
    /\ UNCHANGED known

----------------------------------------------------------------------------
(* Opening the DSS in a process                                            *)

client(pr) == ClientOf[pr]
At(pr, step) == proc[pr].step = step
Goto(pr, step) == proc' = [proc EXCEPT ![pr].step = step]
Resume(pr) == proc' = [proc EXCEPT ![pr] = [Closed EXCEPT !.step = "open"]]
End(pr) == proc' = [proc EXCEPT ![pr] = Closed] /\ copy' = [copy EXCEPT ![pr] = NoLists]

Fault(kind) ==
    /\ kind \in Faults
    /\ faults < MaxFaults
    /\ faults' = faults + 1

\* Something is dropped that the server will not send again.
Drop(pr) == dropped' = dropped \union {client(pr)} /\ UNCHANGED <<raced, unpurged>>

Initialize(pr) ==
    /\ At(pr, "closed")
    /\ proc' = [proc EXCEPT ![pr].step = "ask", ![pr].wasKnown = (client(pr) \in known)]
    /\ UNCHANGED <<serverVars, clientVars, envVars, history>>

\* The server's side of the request: a client is recorded once, which its
\* other processes may have done meanwhile.
Accepted(pr) == proc[pr].wasKnown \/ client(pr) \notin known

Serve(pr) ==
    /\ IF proc[pr].wasKnown THEN updateClient(client(pr)) ELSE recordClient(client(pr))
    /\ UNCHANGED <<mts, files>>

\* An update that is stored purges what those before it left.
Purged(pr) == unpurged' = IF proc[pr].wasKnown THEN unpurged \ {client(pr)} ELSE unpurged

Answer(pr) == Sent(IF proc[pr].wasKnown THEN noted[client(pr)][txId[client(pr)]] ELSE mts)

Ask(pr) ==
    /\ At(pr, "ask")
    /\ IF Accepted(pr)
       THEN /\ Serve(pr) /\ Purged(pr)
            /\ proc' = [proc EXCEPT ![pr].step = "openIndex", ![pr].answer = Answer(pr)]
            /\ UNCHANGED copy
       ELSE End(pr) /\ UNCHANGED <<serverVars, unpurged>>
    /\ UNCHANGED <<local, lock, envVars, dropped, raced>>

\* The server answers, the client does not hear it: it asks again, or fails. A
\* record whose transaction fails leaves the server the same: it knows the
\* client, to which it has given nothing.
AskLost(pr) ==
    /\ At(pr, "ask") /\ Accepted(pr)
    /\ Fault("lost")
    /\ Serve(pr) /\ Purged(pr)
    /\ dropped' = dropped \union {client(pr)}
    /\ End(pr) \/ UNCHANGED <<proc, copy>>
    /\ UNCHANGED <<local, lock, clock, raced>>

\* The server cannot be reached, or its transaction for an update fails: the
\* DSS is not opened. A transaction that cannot be committed has already moved
\* the client to its next one, and nothing moves it back: what was noted for
\* it stays, and is not sent.
AskFails(pr) ==
    /\ At(pr, "ask")
    /\ End(pr)
    /\ \/ UNCHANGED <<txId, faults, history>>
       \/ /\ proc[pr].wasKnown
          /\ Fault("refused")
          /\ txId[client(pr)] < MaxTx[client(pr)]
          /\ txId' = [txId EXCEPT ![client(pr)] = @ + 1]
          /\ dropped' = dropped \union {client(pr)}
          /\ unpurged' = unpurged \union {client(pr)}
          /\ UNCHANGED raced
    /\ UNCHANGED <<mts, files, known, noted, local, lock, clock>>

----------------------------------------------------------------------------
(* The client's index                                                      *)

\* Two processes that opened the file at once write over what the other wrote:
\* of each path the file then holds what one of them has, or nothing.
FilesWith(pr, lists) ==
    IF client(pr) \in raced
    THEN {file \in Lists : \A p \in Paths : file[p] \in {NoEntry, lists[p], local[client(pr)][p]}}
    ELSE {lists}

Save(pr, lists) ==
    /\ copy' = [copy EXCEPT ![pr] = lists]
    /\ \E file \in FilesWith(pr, lists) : local' = [local EXCEPT ![client(pr)] = file]

SaveLock(pr, isSet) ==
    \/ lock' = [lock EXCEPT ![client(pr)] = isSet]
    \/ client(pr) \in raced /\ UNCHANGED lock

\* A user asks to unlock when no process works with the index.
Unlockable(pr) ==
    \A other \in Processes \ {pr} : client(other) = client(pr) => proc[other].step \notin Session

\* Another process has loaded the file and is about to lock it.
Overlapped(pr) ==
    \E other \in Processes \ {pr} :
        client(other) = client(pr) /\ At(other, "lock") /\ ~proc[other].refused

\* buntdb.Open: the file is loaded, with the lock as it is at that time.
LoadIndex(pr) ==
    /\ At(pr, "openIndex")
    /\ copy' = [copy EXCEPT ![pr] = local[client(pr)]]
    /\ \/ /\ lock[client(pr)]
          /\ proc' = [proc EXCEPT ![pr].step = "lock", ![pr].refused = TRUE]
          /\ UNCHANGED <<dropped, raced>>
       \/ /\ lock[client(pr)] => Unlockable(pr)
          /\ Goto(pr, "lock")
          /\ IF Overlapped(pr)
             THEN /\ dropped' = dropped \union {client(pr)}
                  /\ raced' = raced \union {client(pr)}
             ELSE UNCHANGED <<dropped, raced>>
    /\ UNCHANGED <<serverVars, local, lock, envVars, unpurged>>

\* Faulty variant: a lock that was found is ignored, whoever holds it.
NewPIndexUnguarded(pr) ==
    /\ At(pr, "lock")
    /\ Goto(pr, "merge")
    /\ SaveLock(pr, TRUE)
    /\ UNCHANGED <<serverVars, local, copy, envVars, history>>

\* The lock is set; what it was is what the file loaded says.
NewPIndex(pr) ==
    /\ At(pr, "lock")
    /\ IF proc[pr].refused
       THEN End(pr) /\ Drop(pr) /\ UNCHANGED lock
       ELSE Goto(pr, "merge") /\ SaveLock(pr, TRUE) /\ UNCHANGED <<copy, history>>
    /\ UNCHANGED <<serverVars, local, envVars>>

\* The times of an answer are added to those that are listed.
merged(old, new) ==
    [p \in Paths |-> IF new[p] = NoEntry THEN old[p] ELSE Held(old[p]) \union new[p]]

\* spUpdateClient: the answer to a client that was not known replaces its
\* index, with what another process stored there meanwhile. The error of a
\* transaction that fails is not returned: the DSS opens without the answer.
Merge(pr) ==
    /\ At(pr, "merge")
    /\ Resume(pr)
    /\ \/ /\ proc[pr].wasKnown
          /\ Save(pr, merged(copy[pr], proc[pr].answer))
          /\ UNCHANGED <<faults, history>>
       \/ /\ ~proc[pr].wasKnown
          /\ Save(pr, proc[pr].answer)
          /\ IF copy[pr] = NoLists THEN UNCHANGED history ELSE Drop(pr)
          /\ UNCHANGED faults
       \/ Fault("refused") /\ Drop(pr) /\ UNCHANGED <<copy, local>>
    /\ UNCHANGED <<serverVars, lock, clock>>

Close(pr) ==
    /\ At(pr, "open")
    /\ End(pr)
    /\ SaveLock(pr, FALSE)
    /\ UNCHANGED <<serverVars, local, envVars, history>>

\* The lock stays.
Crash(pr) ==
    /\ ~At(pr, "closed")
    /\ Fault("crash")
    /\ End(pr)
    /\ IF proc[pr].step \in {"openIndex", "lock", "merge"} THEN Drop(pr) ELSE UNCHANGED history
    /\ UNCHANGED <<serverVars, local, lock, clock>>

----------------------------------------------------------------------------
(* Reading, writing and removing in an open DSS                            *)

\* A path that the index does not know is asked of the server's storage.
Read(pr, p) ==
    /\ At(pr, "open")
    /\ copy[pr][p] = NoEntry
    /\ files[p] # {}
    /\ Save(pr, [copy[pr] EXCEPT ![p] = files[p]])
    /\ UNCHANGED <<serverVars, lock, proc, envVars, history>>

storeMeta(pr, p, t) == Save(pr, [copy[pr] EXCEPT ![p] = Held(@) \union {t}])

\* A namespace or a link is first listed in the client's index, a content is
\* first sent to the server.
Stamp(pr, p, isContent) ==
    LET t == clock + 1 IN
    /\ At(pr, "open")
    /\ t \in Times
    /\ clock' = t
    /\ proc' = [proc EXCEPT ![pr].step = IF isContent THEN "push" ELSE "store",
                            ![pr].path = p, ![pr].time = t]
    /\ IF isContent THEN UNCHANGED <<copy, local>> ELSE storeMeta(pr, p, t)
    /\ UNCHANGED <<serverVars, lock, faults, history>>

\* How a request that changed the server ends for the client: with an answer,
\* after which it goes on; without, and it is given up. Only the request for a
\* content is made anew to be sent again: the others have lost their body.
Ends(pr, next) ==
    \/ UNCHANGED faults /\ (IF next = "open" THEN Resume(pr) ELSE Goto(pr, next))
    \/ Fault("lost") /\ (Resume(pr) \/ (At(pr, "push") /\ UNCHANGED proc))

\* The server's storeAndIndexMeta.
Store(pr) ==
    LET p == proc[pr].path
        t == proc[pr].time
    IN
    /\ At(pr, "store") \/ At(pr, "push")
    /\ doStoreMeta(p, t)
    /\ \/ /\ files' = [files EXCEPT ![p] = @ \union {t}]
          /\ Ends(pr, IF At(pr, "store") THEN "open" ELSE "keep")
       \/ /\ Fault("refused")
          /\ Resume(pr)
          /\ UNCHANGED files
    /\ UNCHANGED <<known, txId, clientVars, clock, history>>

Keep(pr) ==
    /\ At(pr, "keep")
    /\ storeMeta(pr, proc[pr].path, proc[pr].time)
    /\ Resume(pr)
    /\ UNCHANGED <<serverVars, lock, envVars, history>>

\* RemoveHistory removes a version from the server's index, from its own and
\* from the server's storage. The server refuses what it does not list.
xRemoveMeta(pr, p, t) ==
    /\ At(pr, "open")
    /\ t \in Held(copy[pr][p]) \intersect mts[p]
    /\ doStoreMetaTimes(p, mts[p] \ {t})
    /\ \/ /\ proc' = [proc EXCEPT ![pr].step = "unlist", ![pr].path = p, ![pr].time = t]
          /\ UNCHANGED faults
       \/ Fault("lost") /\ UNCHANGED proc
    /\ UNCHANGED <<files, known, txId, clientVars, clock, history>>

Unlist(pr) ==
    /\ At(pr, "unlist")
    /\ Save(pr, [copy[pr] EXCEPT ![proc[pr].path] = Held(@) \ {proc[pr].time}])
    /\ Goto(pr, "remove")
    /\ UNCHANGED <<serverVars, lock, envVars, history>>

Remove(pr) ==
    /\ At(pr, "remove")
    /\ files' = [files EXCEPT ![proc[pr].path] = @ \ {proc[pr].time}]
    /\ Ends(pr, "open")
    /\ UNCHANGED <<mts, known, txId, noted, clientVars, clock, history>>

----------------------------------------------------------------------------
OpenStep(pr) ==
    \/ Initialize(pr) \/ Ask(pr) \/ AskLost(pr) \/ AskFails(pr)
    \/ LoadIndex(pr) \/ NewPIndex(pr) \/ Merge(pr) \/ Close(pr) \/ Crash(pr)

WorkStep(pr) ==
    \/ \E p \in Paths : Read(pr, p) \/ (\E isContent \in BOOLEAN : Stamp(pr, p, isContent))
    \/ \E p \in Paths, t \in Times : xRemoveMeta(pr, p, t)
    \/ Store(pr) \/ Keep(pr) \/ Unlist(pr) \/ Remove(pr)

Next == \E pr \in Processes : OpenStep(pr) \/ WorkStep(pr)

Spec == Init /\ [][Next]_vars

----------------------------------------------------------------------------
(* Properties *)

\* What the server has answered and no process has merged yet.
InFlight(cl, p) ==
    UNION {Held(proc[pr].answer[p]) : pr \in {q \in Processes : client(q) = cl}}

Pending(cl, p) == Held(noted[cl][txId[cl]][p])

\* Whatever the server lists is in the client's index, in an answer on its way
\* or noted for the next update: between both ends of the replication no
\* change is forgotten. The clients are excepted for which an answer was lost,
\* not merged, or left by an update that was not stored, and those whose index
\* was opened by two processes at once: from then on the code says nothing.
ChangesAccounted ==
    \A cl \in known \ dropped, p \in Paths :
        mts[p] \subseteq Held(local[cl][p]) \union InFlight(cl, p) \union Pending(cl, p)

\* A client that comes back does not find the changes of all its previous
\* sessions: the server keeps two transactions per client at most. Updates that
\* are not stored leave more of them, which the next one that is purges.
TwoTransactions ==
    \A cl \in Clients, n \in Txs :
        noted[cl][n] # NoLists =>
            cl \in known /\ n <= txId[cl] /\ (cl \in unpurged \/ n >= txId[cl] - 1)

\* At most one process of a client works with its index, however the lock was
\* left by those that were killed. The code guarantees it only as long as no
\* process loads the file between another's loading and locking it.
OneSession ==
    \A pr, other \in Processes :
        /\ client(pr) = client(other) /\ client(pr) \notin raced
        /\ {proc[pr].step, proc[other].step} \subseteq Session
        => pr = other

\* A process opens the DSS with all that the server lists for the paths which
\* the client's index knows (the others are asked of the server). What changed
\* since it asked, or another process has yet to merge, is excepted, and so is
\* an index opened twice at once. The code does not guarantee it: an answer is
\* dropped with the process that holds it.
KnownPathsUpToDate ==
    [][\A pr \in Processes : At(pr, "merge") /\ At(pr, "open")' /\ client(pr) \notin raced =>
          \A p \in Paths : local'[client(pr)][p] # NoEntry =>
              mts[p] \subseteq local'[client(pr)][p] \union Pending(client(pr), p)
                                \union InFlight(client(pr), p)']_vars
=============================================================================
