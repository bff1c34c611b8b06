------------------------- MODULE ClientIndexProofs -------------------------
(***************************************************************************)
(* For any number of clients, processes and paths: the types, one session  *)
(* per client, two transactions per client, and every change accounted for *)
(* between the server and its clients, each but for what the code excepts. *)
(***************************************************************************)
EXTENDS ClientIndex, TLAPS

\* Where a version that the server lists can be found for a client.
Returning(cl, p, t) ==
    \/ \E q \in Processes : client(q) = cl /\ t \in Held(proc[q].answer[p])
    \/ t \in Pending(cl, p)

Accounted(cl, p, t) == t \in Held(local[cl][p]) \/ Returning(cl, p, t)

\* A process holds an answer from the time it is given to the time it merges it.
AnswersHeld ==
    \A pr \in Processes :
        proc[pr].answer # NoLists => proc[pr].step \in {"openIndex", "lock", "merge"}

\* A process that was answered, or told that its client is known, belongs to a
\* client that the server knows.
AnsweredKnown ==
    \A pr \in Processes :
        proc[pr].wasKnown \/ proc[pr].step \in {"openIndex", "lock"} \union Session =>
            client(pr) \in known

\* What is being written or removed has a time.
Stamped ==
    \A pr \in Processes :
        proc[pr].step \in Session \ {"merge", "open"} => proc[pr].time \in Times

\* A process has the index, or has loaded it and is about to lock it.
Opened(pr) == proc[pr].step \in Session \/ (At(pr, "lock") /\ ~proc[pr].refused)

\* Unless they opened it at once, one process of a client has its index, the
\* lock is set while it works, and its copy is what the file holds.
OneOpened ==
    \A pr, other \in Processes :
        /\ client(pr) = client(other) /\ client(pr) \notin raced
        /\ Opened(pr) /\ Opened(other)
        => pr = other

SessionLocked ==
    \A pr \in Processes :
        proc[pr].step \in Session /\ client(pr) \notin raced => lock[client(pr)]

CopySaved ==
    \A pr \in Processes :
        Opened(pr) /\ client(pr) \notin raced => copy[pr] = local[client(pr)]

RacedDropped == raced \subseteq dropped

\* A version that is about to leave a client's index may have been stored again
\* by a request sent twice: it is then on its way back.
UnlistedReturns ==
    \A pr \in Processes :
        At(pr, "unlist") /\ client(pr) \notin dropped /\ proc[pr].time \in mts[proc[pr].path] =>
            Returning(client(pr), proc[pr].path, proc[pr].time)

AllAccounted ==
    \A cl \in known \ dropped, p \in Paths : \A t \in mts[p] : Accounted(cl, p, t)

IInv ==
    /\ TypeOK
    /\ Stamped
    /\ AnswersHeld
    /\ AnsweredKnown
    /\ OneOpened
    /\ SessionLocked
    /\ CopySaved
    /\ RacedDropped
    /\ TwoTransactions
    /\ UnlistedReturns
    /\ AllAccounted

----------------------------------------------------------------------------
(* Types *)

ProcType == [step : Steps, wasKnown : BOOLEAN, refused : BOOLEAN, answer : Lists,
             path : Paths, time : 0 .. MaxTime]

\* The transactions are numbers, and below the bound there is a next one.
LEMMA TxsNumbers ==
    /\ Txs \subseteq Nat
    /\ \A cl \in Clients, n \in Nat : n < MaxTx[cl] => n + 1 \in Txs
BY ClientsAssigned, BoundsNatural DEF Txs

\* An answer, or nothing, is a list of times for each path.
LEMMA ListTypes ==
    /\ NoLists \in Lists
    /\ \A times \in [Paths -> SUBSET Times] : times \in Lists
    /\ \A lists \in Lists : Sent(lists) \in Lists
    /\ \A old, new \in Lists : merged(old, new) \in Lists
    /\ \A lists \in Lists, p \in Paths : Held(lists[p]) \in SUBSET Times
BY DEF NoLists, Lists, Sent, merged, Held

\* A process that is closed, or open and idle, is well formed.
LEMMA IdleTypes ==
    Closed \in ProcType /\ [Closed EXCEPT !.step = "open"] \in ProcType
<1>1. (CHOOSE p \in Paths : TRUE) \in Paths
  BY PathsExist
<1>2. 0 \in 0 .. MaxTime
  BY BoundsNatural
<1>. QED
  BY <1>1, <1>2, ListTypes DEF Closed, ProcType, Steps

\* The server's index stays well formed when a list of times changes.
LEMMA NotedTypes ==
    ASSUME TypeOK, NEW p \in Paths, NEW list \in SUBSET Times, doStoreMetaTimes(p, list)
    PROVE  mts' \in [Paths -> SUBSET Times] /\ noted' \in [Clients -> [Txs -> Lists]]
<1>1. mts' \in [Paths -> SUBSET Times]
  BY DEF TypeOK, doStoreMetaTimes
<1>2. ASSUME NEW c \in Clients
      PROVE  [noted[c] EXCEPT ![txId[c]][p] = list] \in [Txs -> Lists]
  <2>1. [noted[c][txId[c]] EXCEPT ![p] = list] \in Lists
    BY DEF TypeOK, Lists
  <2>. QED
    BY <2>1 DEF TypeOK
<1>3. noted' \in [Clients -> [Txs -> Lists]]
  BY <1>2 DEF TypeOK, doStoreMetaTimes
<1>. QED
  BY <1>1, <1>3

\* A process that is closed, or open and idle, holds nothing.
LEMMA IdleFields ==
    /\ Closed.step = "closed" /\ [Closed EXCEPT !.step = "open"].step = "open"
    /\ Closed.answer = NoLists /\ [Closed EXCEPT !.step = "open"].answer = NoLists
    /\ ~Closed.wasKnown /\ ~[Closed EXCEPT !.step = "open"].wasKnown
BY DEF Closed

\* A process that saves its index has it in its copy; the file holds the same,
\* unless two processes opened it at once.
LEMMA SaveIs ==
    ASSUME TypeOK, NEW pr \in Processes, NEW lists \in Lists, Save(pr, lists)
    PROVE  /\ copy' \in [Processes -> Lists] /\ local' \in [Clients -> Lists]
           /\ copy'[pr] = lists /\ \A q \in Processes \ {pr} : copy'[q] = copy[q]
           /\ \A cl \in Clients \ {client(pr)} : local'[cl] = local[cl]
           /\ client(pr) \notin raced => local'[client(pr)] = lists
<1>1. client(pr) \in Clients
  BY ClientsAssigned DEF client
<1>2. PICK file \in FilesWith(pr, lists) : local' = [local EXCEPT ![client(pr)] = file]
  BY DEF Save
<1>3. file \in Lists /\ (client(pr) \notin raced => file = lists)
  BY DEF FilesWith
<1>4. copy' = [copy EXCEPT ![pr] = lists]
  BY DEF Save
<1>5. copy \in [Processes -> Lists] /\ local \in [Clients -> Lists]
  BY DEF TypeOK
<1>. QED
  BY <1>1, <1>2, <1>3, <1>4, <1>5

\* The lock is a flag of each client; setting one leaves the others.
LEMMA LockIs ==
    ASSUME TypeOK, NEW pr \in Processes, NEW isSet \in BOOLEAN, SaveLock(pr, isSet)
    PROVE  /\ lock' \in [Clients -> BOOLEAN]
           /\ \A cl \in Clients \ {client(pr)} : lock'[cl] = lock[cl]
           /\ client(pr) \notin raced => lock'[client(pr)] = isSet
<1>1. client(pr) \in Clients /\ lock \in [Clients -> BOOLEAN]
  BY ClientsAssigned DEF client, TypeOK
<1>2. CASE lock' = [lock EXCEPT ![client(pr)] = isSet]
  BY <1>1, <1>2
<1>3. CASE client(pr) \in raced /\ UNCHANGED lock
  BY <1>1, <1>3
<1>. QED
  BY <1>2, <1>3 DEF SaveLock

\* The times of one path of an index may change.
LEMMA ListChanged ==
    ASSUME NEW lists \in Lists, NEW p \in Paths, NEW list \in SUBSET Times
    PROVE  /\ [lists EXCEPT ![p] = list] \in Lists
           /\ Held([lists EXCEPT ![p] = list][p]) = list
           /\ \A p2 \in Paths \ {p} : [lists EXCEPT ![p] = list][p2] = lists[p2]
BY NoEntryDistinct DEF Lists, Held

\* Type correctness: every action keeps every variable in its type.
LEMMA TypeStep ==
    ASSUME TypeOK, Stamped, [Next]_vars
    PROVE  TypeOK'
<1>. USE ListTypes, IdleTypes, TxsNumbers, ClientsAssigned, BoundsNatural
<1>0. proc \in [Processes -> ProcType]
  BY DEF TypeOK, ProcType
<1>. SUFFICES ASSUME NEW pr \in Processes, OpenStep(pr) \/ WorkStep(pr) PROVE TypeOK'
  BY DEF Next, TypeOK, vars, serverVars, clientVars, envVars, history
<1>c. client(pr) \in Clients /\ copy[pr] \in Lists /\ local[client(pr)] \in Lists
  BY DEF client, TypeOK
<1>e. ASSUME End(pr) \/ Resume(pr) \/ (\E step \in Steps : Goto(pr, step)) \/ UNCHANGED proc
      PROVE  proc' \in [Processes -> ProcType]
  BY <1>0, <1>e DEF End, Resume, Goto, ProcType
<1>d. ASSUME Drop(pr) \/ UNCHANGED history
      PROVE  dropped' \in SUBSET Clients /\ raced' \in SUBSET Clients /\ unpurged' \in SUBSET Clients
  BY <1>c, <1>d DEF TypeOK, Drop, history
<1>f. ASSUME faults' = faults \/ (\E kind \in Faults : Fault(kind))
      PROVE  faults' \in 0 .. MaxFaults
  BY <1>f DEF TypeOK, Fault
<1>k. ASSUME End(pr) \/ UNCHANGED copy PROVE copy' \in [Processes -> Lists]
  BY <1>k DEF TypeOK, End
<1>p. ASSUME Purged(pr) PROVE unpurged' \in SUBSET Clients
  BY <1>p DEF TypeOK, Purged
<1>g. ASSUME UNCHANGED serverVars \/ Serve(pr)
      PROVE  /\ mts' \in [Paths -> SUBSET Times] /\ files' \in [Paths -> SUBSET Times]
             /\ known' \in SUBSET Clients /\ txId' \in [Clients -> Txs]
             /\ noted' \in [Clients -> [Txs -> Lists]]
  <2>1. CASE UNCHANGED serverVars
    BY <2>1 DEF TypeOK, serverVars
  <2>2. CASE Serve(pr) /\ proc[pr].wasKnown
    <3>1. txId[client(pr)] \in Nat /\ txId[client(pr)] + 1 \in Txs
      BY <1>c, <2>2 DEF TypeOK, Serve, updateClient
    <3>. DEFINE kept == [n \in Txs |-> IF n < txId[client(pr)] THEN NoLists
                                      ELSE noted[client(pr)][n]]
    <3>2. kept \in [Txs -> Lists]
      BY <1>c DEF TypeOK
    <3>3. /\ noted' = [noted EXCEPT ![client(pr)] = kept]
          /\ txId' = [txId EXCEPT ![client(pr)] = txId[client(pr)] + 1]
          /\ UNCHANGED <<known, mts, files>>
      BY <2>2 DEF Serve, updateClient
    <3>. HIDE DEF kept
    <3>. QED
      BY <1>c, <3>1, <3>2, <3>3 DEF TypeOK
  <2>3. CASE Serve(pr) /\ ~proc[pr].wasKnown
    <3>1. 0 \in Txs
      BY <1>c DEF Txs
    <3>. QED
      BY <1>c, <2>3, <3>1 DEF TypeOK, Serve, recordClient
  <2>. QED
    BY <1>g, <2>1, <2>2, <2>3
<1>1. CASE Initialize(pr)
  <2>1. proc' \in [Processes -> ProcType]
    <3>. DEFINE isKnown == client(pr) \in known
    <3>1. isKnown \in BOOLEAN
      OBVIOUS
    <3>2. proc' = [proc EXCEPT ![pr].step = "ask", ![pr].wasKnown = isKnown]
      BY <1>1 DEF Initialize
    <3>. HIDE DEF isKnown
    <3>. QED
      BY <1>0, <3>1, <3>2 DEF ProcType, Steps
  <2>. QED
    BY <1>1, <1>g, <1>d, <2>1 DEF Initialize, TypeOK, ProcType, clientVars, envVars
<1>2. CASE Ask(pr)
  <2>1. Answer(pr) \in Lists
    BY <1>c DEF Answer, TypeOK
  <2>2. proc' \in [Processes -> ProcType] /\ copy' \in [Processes -> Lists]
    BY <1>0, <1>2, <1>e, <1>k, <2>1 DEF Ask, ProcType, Steps
  <2>3. unpurged' \in SUBSET Clients
    BY <1>2, <1>p DEF Ask, TypeOK
  <2>. QED
    BY <1>2, <1>g, <2>2, <2>3 DEF Ask, TypeOK, ProcType, envVars
<1>3. CASE AskLost(pr)
  <2>1. proc' \in [Processes -> ProcType] /\ copy' \in [Processes -> Lists]
    BY <1>3, <1>e, <1>k DEF AskLost
  <2>2. unpurged' \in SUBSET Clients /\ dropped' \in SUBSET Clients /\ faults' \in 0 .. MaxFaults
    BY <1>3, <1>c, <1>p, <1>f DEF AskLost, Fault, TypeOK
  <2>. QED
    BY <1>3, <1>g, <2>1, <2>2 DEF AskLost, TypeOK, ProcType
<1>4. CASE AskFails(pr)
  <2>1. proc' \in [Processes -> ProcType] /\ copy' \in [Processes -> Lists]
    BY <1>4, <1>e, <1>k DEF AskFails
  <2>2. txId' \in [Clients -> Txs]
    <3>1. txId[client(pr)] \in Nat /\ txId \in [Clients -> Txs]
      BY <1>c DEF TypeOK
    <3>2. txId[client(pr)] < MaxTx[client(pr)] => txId[client(pr)] + 1 \in Txs
      BY <1>c, <3>1
    <3>. QED
      BY <1>4, <1>c, <3>1, <3>2 DEF AskFails
  <2>3. dropped' \in SUBSET Clients /\ raced' \in SUBSET Clients /\ unpurged' \in SUBSET Clients
    BY <1>4, <1>c DEF AskFails, TypeOK, history
  <2>4. faults' \in 0 .. MaxFaults
    BY <1>4, <1>f DEF AskFails, Fault
  <2>. QED
    BY <1>4, <2>1, <2>2, <2>3, <2>4 DEF AskFails, TypeOK, ProcType
<1>5. CASE LoadIndex(pr)
  <2>1. proc' \in [Processes -> ProcType]
    BY <1>5, <1>0, <1>e DEF LoadIndex, ProcType, Steps
  <2>2. copy' \in [Processes -> Lists]
    BY <1>5, <1>c DEF LoadIndex, TypeOK
  <2>3. dropped' \in SUBSET Clients /\ raced' \in SUBSET Clients
    BY <1>5, <1>c DEF LoadIndex, TypeOK
  <2>. QED
    BY <1>5, <1>g, <2>1, <2>2, <2>3 DEF LoadIndex, TypeOK, ProcType, envVars
<1>16. CASE NewPIndex(pr)
  <2>1. proc' \in [Processes -> ProcType] /\ copy' \in [Processes -> Lists]
    BY <1>16, <1>e, <1>k DEF NewPIndex, Steps
  <2>2. lock' \in [Clients -> BOOLEAN]
    BY <1>16, LockIs DEF NewPIndex, TypeOK
  <2>. QED
    BY <1>16, <1>d, <1>g, <2>1, <2>2 DEF NewPIndex, TypeOK, ProcType, envVars
<1>6. CASE Merge(pr)
  <2>1. local' \in [Clients -> Lists] /\ copy' \in [Processes -> Lists]
    <3>1. proc[pr].answer \in Lists
      BY <1>0 DEF ProcType
    <3>2. merged(copy[pr], proc[pr].answer) \in Lists
      BY <1>c, <3>1
    <3>. QED
      BY <1>6, <3>1, <3>2, SaveIs DEF Merge, TypeOK
  <2>2. faults' \in 0 .. MaxFaults
    BY <1>6, <1>f DEF Merge, Fault
  <2>. QED
    BY <1>6, <1>e, <1>d, <1>g, <2>1, <2>2 DEF Merge, TypeOK, ProcType
<1>7. CASE Close(pr)
  BY <1>7, <1>e, <1>g, <1>k, <1>d, LockIs DEF Close, TypeOK, ProcType, envVars
<1>8. CASE Crash(pr)
  BY <1>8, <1>d, <1>e, <1>f, <1>g, <1>k DEF Crash, Fault, TypeOK, ProcType
<1>9. ASSUME NEW p \in Paths, Read(pr, p) PROVE TypeOK'
  <2>1. [copy[pr] EXCEPT ![p] = files[p]] \in Lists
    BY <1>c, ListChanged DEF TypeOK
  <2>2. local' \in [Clients -> Lists] /\ copy' \in [Processes -> Lists]
    BY <1>9, <2>1, SaveIs DEF Read
  <2>. QED
    BY <1>9, <1>g, <1>d, <2>2 DEF Read, TypeOK, envVars
<1>s. ASSUME NEW p \in Paths, NEW t \in Times, storeMeta(pr, p, t)
      PROVE  local' \in [Clients -> Lists] /\ copy' \in [Processes -> Lists]
  <2>1. Held(copy[pr][p]) \union {t} \in SUBSET Times
    BY <1>c
  <2>2. [copy[pr] EXCEPT ![p] = Held(@) \union {t}] \in Lists
    BY <1>c, <2>1, ListChanged
  <2>. QED
    BY <1>s, <2>2, SaveIs DEF storeMeta
<1>10. ASSUME NEW p \in Paths, NEW isContent \in BOOLEAN, Stamp(pr, p, isContent) PROVE TypeOK'
  <2>1. local' \in [Clients -> Lists] /\ copy' \in [Processes -> Lists]
    BY <1>10, <1>s DEF Stamp, TypeOK
  <2>2. clock' \in 0 .. MaxTime /\ proc' \in [Processes -> ProcType]
    <3>1. clock + 1 \in 0 .. MaxTime
      BY <1>10 DEF Stamp, Times, TypeOK
    <3>2. PICK step \in Steps :
             proc' = [proc EXCEPT ![pr].step = step, ![pr].path = p, ![pr].time = clock + 1]
      <4>1. CASE isContent
        BY <1>10, <4>1 DEF Stamp, Steps
      <4>2. CASE ~isContent
        BY <1>10, <4>2 DEF Stamp, Steps
      <4>. QED
        BY <4>1, <4>2
    <3>3. clock' \in 0 .. MaxTime
      BY <1>10, <3>1 DEF Stamp
    <3>4. proc' \in [Processes -> ProcType]
      BY <1>0, <3>1, <3>2 DEF ProcType
    <3>. QED
      BY <3>3, <3>4
  <2>. QED
    BY <1>10, <1>g, <1>d, <2>1, <2>2 DEF Stamp, TypeOK, ProcType
<1>11. ASSUME NEW p \in Paths, NEW t \in Times, xRemoveMeta(pr, p, t) PROVE TypeOK'
  <2>1. mts' \in [Paths -> SUBSET Times] /\ noted' \in [Clients -> [Txs -> Lists]]
    <3>1. mts[p] \ {t} \in SUBSET Times
      BY DEF TypeOK
    <3>. QED
      BY <1>11, <3>1, NotedTypes DEF xRemoveMeta
  <2>2. proc' \in [Processes -> ProcType]
    BY <1>0, <1>11 DEF xRemoveMeta, Times, ProcType, Steps
  <2>. QED
    BY <1>11, <1>f, <1>d, <2>1, <2>2 DEF xRemoveMeta, Fault, TypeOK, ProcType, clientVars
<1>12. CASE Store(pr)
  <2>1. proc[pr].path \in Paths /\ proc[pr].time \in Times
    BY <1>0, <1>12 DEF Store, At, ProcType, Stamped, Session
  <2>2. mts' \in [Paths -> SUBSET Times] /\ noted' \in [Clients -> [Txs -> Lists]]
    <3>1. CASE UNCHANGED <<mts, noted>>
      BY <3>1 DEF TypeOK
    <3>2. CASE doStoreMetaTimes(proc[pr].path, mts[proc[pr].path] \union {proc[pr].time})
      <4>1. mts[proc[pr].path] \union {proc[pr].time} \in SUBSET Times
        BY <2>1 DEF TypeOK
      <4>. QED
        BY <2>1, <3>2, <4>1, NotedTypes
    <3>. QED
      BY <1>12, <3>1, <3>2 DEF Store, doStoreMeta
  <2>3. files' \in [Paths -> SUBSET Times]
    <3>1. files' = [files EXCEPT ![proc[pr].path] = @ \union {proc[pr].time}] \/ files' = files
      BY <1>12 DEF Store
    <3>2. files[proc[pr].path] \union {proc[pr].time} \in SUBSET Times
      BY <2>1 DEF TypeOK
    <3>. QED
      BY <2>1, <3>1, <3>2 DEF TypeOK
  <2>4. proc' \in [Processes -> ProcType] /\ faults' \in 0 .. MaxFaults
    BY <1>12, <1>e, <1>f DEF Store, Ends, Fault, TypeOK, Steps
  <2>. QED
    <3>1. UNCHANGED <<known, txId, local, lock, copy, clock>> /\ UNCHANGED history
      BY <1>12 DEF Store, clientVars
    <3>. QED
      BY <1>d, <2>2, <2>3, <2>4, <3>1 DEF TypeOK, ProcType
<1>13. CASE Keep(pr)
  <2>1. proc[pr].path \in Paths /\ proc[pr].time \in Times
    BY <1>0, <1>13 DEF Keep, At, ProcType, Stamped, Session
  <2>2. local' \in [Clients -> Lists] /\ copy' \in [Processes -> Lists]
    BY <1>13, <1>s, <2>1 DEF Keep
  <2>. QED
    BY <1>13, <1>e, <1>g, <1>d, <2>2 DEF Keep, TypeOK, ProcType, envVars
<1>14. CASE Unlist(pr)
  <2>1. local' \in [Clients -> Lists] /\ copy' \in [Processes -> Lists]
    <3>1. proc[pr].path \in Paths
      BY <1>0 DEF ProcType
    <3>2. Held(copy[pr][proc[pr].path]) \ {proc[pr].time} \in SUBSET Times
      BY <1>c, <3>1
    <3>3. [copy[pr] EXCEPT ![proc[pr].path] = Held(@) \ {proc[pr].time}] \in Lists
      BY <1>c, <3>1, <3>2, ListChanged
    <3>. QED
      BY <1>14, <3>3, SaveIs DEF Unlist
  <2>. QED
    BY <1>14, <1>e, <1>g, <1>d, <2>1 DEF Unlist, TypeOK, ProcType, envVars, Steps
<1>15. CASE Remove(pr)
  <2>1. files' \in [Paths -> SUBSET Times]
    BY <1>15 DEF Remove, TypeOK
  <2>2. proc' \in [Processes -> ProcType] /\ faults' \in 0 .. MaxFaults
    BY <1>15, <1>e, <1>f DEF Remove, Ends, Fault, TypeOK, Steps
  <2>. QED
    BY <1>15, <1>d, <2>1, <2>2 DEF Remove, TypeOK, ProcType, clientVars
<1>. QED
  BY <1>1, <1>2, <1>3, <1>4, <1>5, <1>6, <1>7, <1>8, <1>9, <1>10, <1>11, <1>12, <1>13,
     <1>14, <1>15, <1>16 DEF OpenStep, WorkStep

----------------------------------------------------------------------------
(* Processes and sessions *)

SessionInv ==
    Stamped /\ AnswersHeld /\ AnsweredKnown /\ OneOpened /\ SessionLocked /\ CopySaved /\ RacedDropped

\* A step is one process's: the others stay as they are, with their copies.
LEMMA OneProcess ==
    ASSUME TypeOK, NEW pr \in Processes, OpenStep(pr) \/ WorkStep(pr)
    PROVE  /\ \A q \in Processes \ {pr} : proc'[q] = proc[q] /\ copy'[q] = copy[q]
           /\ known \subseteq known'
<1>1. ASSUME OpenStep(pr) PROVE \A q \in Processes \ {pr} : proc'[q] = proc[q]
  BY <1>1 DEF OpenStep, Initialize, Ask, AskLost, AskFails, LoadIndex, NewPIndex, Merge, Close,
              Crash, End, Resume, Goto, TypeOK
<1>2. ASSUME WorkStep(pr) PROVE \A q \in Processes \ {pr} : proc'[q] = proc[q]
  BY <1>2 DEF WorkStep, Read, Stamp, xRemoveMeta, Store, Keep, Unlist, Remove,
              Ends, Resume, Goto, TypeOK
<1>3. ASSUME OpenStep(pr) PROVE known \subseteq known'
  BY <1>3 DEF OpenStep, Initialize, Ask, AskLost, AskFails, LoadIndex, NewPIndex, Merge, Close,
              Crash, Serve, updateClient, recordClient, serverVars
<1>4. ASSUME WorkStep(pr) PROVE known \subseteq known'
  BY <1>4 DEF WorkStep, Read, Stamp, xRemoveMeta, Store, Keep, Unlist, Remove, serverVars
<1>5. ASSUME OpenStep(pr) PROVE \A q \in Processes \ {pr} : copy'[q] = copy[q]
  BY <1>5 DEF OpenStep, Initialize, Ask, AskLost, AskFails, LoadIndex, NewPIndex, Merge, Close,
              Crash, End, Save, clientVars, TypeOK
<1>6. ASSUME WorkStep(pr) PROVE \A q \in Processes \ {pr} : copy'[q] = copy[q]
  BY <1>6 DEF WorkStep, Read, Stamp, xRemoveMeta, Store, Keep, Unlist, Remove,
              storeMeta, Save, clientVars, TypeOK
<1>. QED
  BY <1>1, <1>2, <1>3, <1>4, <1>5, <1>6

\* What a step may do to its process: hold an answer, be answered, be given a
\* time.
FieldsKept(pr) ==
    /\ proc'[pr].answer # NoLists => proc'[pr].step \in {"openIndex", "lock", "merge"}
    /\ proc'[pr].wasKnown \/ proc'[pr].step \in {"openIndex", "lock"} \union Session =>
          client(pr) \in known'
    /\ proc'[pr].step \in Session \ {"merge", "open"} => proc'[pr].time \in Times

LEMMA FieldsStep ==
    ASSUME SessionInv, NEW pr \in Processes, OpenStep(pr) \/ WorkStep(pr), TypeOK, FieldsKept(pr)
    PROVE  (Stamped /\ AnswersHeld /\ AnsweredKnown)'
BY OneProcess DEF SessionInv, Stamped, AnswersHeld, AnsweredKnown, FieldsKept, client

\* What it may do to the index: it opens none that others have, works with the
\* lock set and saves what it changes, where no two opened the index at once.
IndexKept(pr) ==
    /\ raced \subseteq raced' /\ raced' \subseteq dropped'
    /\ \A cl \in Clients \ {client(pr)} : lock'[cl] = lock[cl] /\ local'[cl] = local[cl]
    /\ client(pr) \notin raced' =>
          /\ \A q \in Processes \ {pr} : client(q) = client(pr) /\ Opened(q) =>
                ~Opened(pr)' /\ lock' = lock /\ local' = local
          /\ proc'[pr].step \in Session => lock'[client(pr)]
          /\ Opened(pr)' => copy'[pr] = local'[client(pr)]

LEMMA IndexStep ==
    ASSUME SessionInv, NEW pr \in Processes, OpenStep(pr) \/ WorkStep(pr), TypeOK, IndexKept(pr)
    PROVE  (OneOpened /\ SessionLocked /\ CopySaved /\ RacedDropped)'
<1>1. \A q \in Processes \ {pr} : Opened(q)' = Opened(q) /\ copy'[q] = copy[q] /\ proc'[q] = proc[q]
  BY OneProcess DEF Opened, At
<1>2. \A q \in Processes : client(q) \in Clients
  BY ClientsAssigned DEF client
<1>3. raced \subseteq raced'
  BY DEF IndexKept
<1>4. OneOpened'
  <2>. SUFFICES ASSUME NEW q \in Processes, NEW other \in Processes, client(q) = client(other),
                       client(q) \notin raced', Opened(q)', Opened(other)', q # other
                PROVE  FALSE
    BY DEF OneOpened, client
  <2>1. CASE q # pr /\ other # pr
    BY <1>1, <1>3, <2>1 DEF SessionInv, OneOpened
  <2>2. CASE q = pr \/ other = pr
    BY <1>1, <2>2 DEF IndexKept
  <2>. QED
    BY <2>1, <2>2
<1>5. SessionLocked'
  <2>. SUFFICES ASSUME NEW q \in Processes, proc'[q].step \in Session, client(q) \notin raced'
                PROVE  lock'[client(q)]
    BY DEF SessionLocked, client
  <2>1. CASE q = pr
    BY <2>1 DEF IndexKept
  <2>2. CASE q # pr
    <3>1. Opened(q) /\ lock[client(q)]
      BY <1>1, <1>3, <2>2 DEF Opened, SessionInv, SessionLocked
    <3>. QED
      BY <1>2, <2>2, <3>1 DEF IndexKept
  <2>. QED
    BY <2>1, <2>2
<1>6. CopySaved'
  <2>. SUFFICES ASSUME NEW q \in Processes, Opened(q)', client(q) \notin raced'
                PROVE  copy'[q] = local'[client(q)]
    BY DEF CopySaved, client
  <2>1. CASE q = pr
    BY <2>1 DEF IndexKept
  <2>2. CASE q # pr
    <3>1. Opened(q) /\ copy'[q] = local[client(q)]
      BY <1>1, <1>3, <2>2 DEF SessionInv, CopySaved
    <3>. QED
      BY <1>2, <2>2, <3>1 DEF IndexKept
  <2>. QED
    BY <2>1, <2>2
<1>. QED
  BY <1>4, <1>5, <1>6 DEF RacedDropped, IndexKept

\* A step that leaves the file and the history alone, and opens nothing.
LEMMA IndexUnchanged ==
    ASSUME SessionInv, TypeOK, NEW pr \in Processes, UNCHANGED <<local, lock, raced>>,
           dropped \subseteq dropped',
           Opened(pr)' => Opened(pr) /\ copy'[pr] = copy[pr],
           proc'[pr].step \in Session => proc[pr].step \in Session
    PROVE  IndexKept(pr)
<1>1. raced' \subseteq dropped' /\ raced \subseteq raced'
  BY DEF SessionInv, RacedDropped
<1>2. ASSUME client(pr) \notin raced'
      PROVE  /\ \A q \in Processes \ {pr} : client(q) = client(pr) /\ Opened(q) => ~Opened(pr)'
             /\ proc'[pr].step \in Session => lock'[client(pr)]
             /\ Opened(pr)' => copy'[pr] = local'[client(pr)]
  BY <1>2 DEF SessionInv, OneOpened, SessionLocked, CopySaved
<1>. QED
  BY <1>1, <1>2 DEF IndexKept

\* A step of a process that saves its index.
LEMMA IndexSaved ==
    ASSUME SessionInv, TypeOK, NEW pr \in Processes, NEW lists \in Lists, Save(pr, lists),
           UNCHANGED <<lock, raced>>, dropped \subseteq dropped', proc[pr].step \in Session
    PROVE  IndexKept(pr)
<1>1. raced' \subseteq dropped' /\ raced \subseteq raced'
  BY DEF SessionInv, RacedDropped
<1>2. \A cl \in Clients \ {client(pr)} : local'[cl] = local[cl]
  BY SaveIs
<1>3. Opened(pr)
  BY DEF Opened
<1>4. ASSUME client(pr) \notin raced'
      PROVE  /\ \A q \in Processes \ {pr} : client(q) = client(pr) => ~Opened(q)
             /\ lock'[client(pr)] /\ copy'[pr] = local'[client(pr)]
  <2>1. \A q \in Processes \ {pr} : client(q) = client(pr) => ~Opened(q)
    BY <1>3, <1>4 DEF SessionInv, OneOpened
  <2>2. lock'[client(pr)]
    BY <1>4 DEF SessionInv, SessionLocked
  <2>3. copy'[pr] = local'[client(pr)]
    BY <1>4, SaveIs
  <2>. QED
    BY <2>1, <2>2, <2>3
<1>. QED
  BY <1>1, <1>2, <1>4 DEF IndexKept

\* Answers are held between the request and the merge, by processes of known
\* clients; one process at a time has the index, which it has locked.
LEMMA SessionStep ==
    ASSUME TypeOK, SessionInv, [Next]_vars
    PROVE  SessionInv'
<1>. SUFFICES ASSUME NEW pr \in Processes, OpenStep(pr) \/ WorkStep(pr) PROVE SessionInv'
  BY DEF Next, SessionInv, Stamped, AnswersHeld, AnsweredKnown, OneOpened, SessionLocked,
         CopySaved, RacedDropped, Opened, At, client, vars, serverVars, clientVars, envVars, history
<1>. SUFFICES FieldsKept(pr) /\ IndexKept(pr)
  BY FieldsStep, IndexStep DEF SessionInv
<1>a. /\ proc[pr].answer # NoLists => proc[pr].step \in {"openIndex", "lock", "merge"}
      /\ proc[pr].wasKnown \/ proc[pr].step \in {"openIndex", "lock"} \union Session =>
            client(pr) \in known'
      /\ proc[pr].step \in Session \ {"merge", "open"} => proc[pr].time \in Times
  BY OneProcess DEF SessionInv, Stamped, AnswersHeld, AnsweredKnown
<1>c. client(pr) \in Clients /\ copy[pr] \in Lists /\ proc[pr] \in ProcType
  BY ClientsAssigned DEF client, TypeOK, ProcType
<1>d. Drop(pr) \/ UNCHANGED history => dropped \subseteq dropped' /\ raced' = raced
  BY DEF Drop, history
<1>e. ASSUME End(pr)
      PROVE  FieldsKept(pr) /\ ~Opened(pr)' /\ proc'[pr].step \notin Session
  <2>1. proc'[pr] = Closed
    BY <1>e DEF End, TypeOK
  <2>. QED
    BY <2>1, IdleFields DEF FieldsKept, Opened, At, Session
<1>r. ASSUME Resume(pr), proc[pr].step \in Session
      PROVE  FieldsKept(pr) /\ proc'[pr].step \in Session
  <2>1. proc'[pr] = [Closed EXCEPT !.step = "open"]
    BY <1>r DEF Resume, TypeOK
  <2>. QED
    BY <1>a, <1>r, <2>1, IdleFields DEF FieldsKept, Session
<1>g. ASSUME NEW step \in {"keep", "remove"}, Goto(pr, step), proc[pr].step \in Session \ {"merge", "open"}
      PROVE  FieldsKept(pr) /\ proc'[pr].step \in Session
  <2>1. proc'[pr] = [proc[pr] EXCEPT !.step = step]
    BY <1>g DEF Goto, TypeOK
  <2>2. proc'[pr].step = step /\ proc'[pr].answer = proc[pr].answer /\ proc'[pr].time = proc[pr].time
    BY <1>c, <2>1 DEF ProcType
  <2>3. proc[pr].answer = NoLists /\ client(pr) \in known' /\ proc[pr].time \in Times
    BY <1>a, <1>g DEF Session
  <2>. QED
    BY <2>2, <2>3 DEF FieldsKept, Session
<1>u. ASSUME UNCHANGED proc PROVE FieldsKept(pr)
  BY <1>a, <1>u DEF FieldsKept
<1>1. CASE Initialize(pr)
  <2>1. /\ proc'[pr].step = "ask" /\ proc'[pr].answer = proc[pr].answer
        /\ (proc'[pr].wasKnown <=> client(pr) \in known)
    BY <1>1, <1>c DEF Initialize, TypeOK, ProcType
  <2>2. proc[pr].answer = NoLists
    BY <1>1, <1>a DEF Initialize, At
  <2>3. FieldsKept(pr)
    BY <1>1, <2>1, <2>2 DEF FieldsKept, Session, Initialize, serverVars
  <2>4. ~Opened(pr)' /\ proc'[pr].step \notin Session
    BY <2>1 DEF Opened, At, Session
  <2>. QED
    BY <1>1, <1>d, <2>3, <2>4, IndexUnchanged DEF Initialize, clientVars
<1>2. CASE Ask(pr)
  <2>1. UNCHANGED <<local, lock, raced, dropped>>
    BY <1>2 DEF Ask
  <2>2. CASE Accepted(pr)
    <3>1. proc'[pr] = [proc[pr] EXCEPT !.step = "openIndex", !.answer = Answer(pr)]
      BY <1>2, <2>2 DEF Ask, TypeOK
    <3>2. proc'[pr].step = "openIndex" /\ proc'[pr].wasKnown = proc[pr].wasKnown
      BY <1>c, <3>1 DEF ProcType
    <3>3. client(pr) \in known'
      BY <1>2, <2>2, <1>a DEF Ask, Accepted, Serve, recordClient
    <3>4. FieldsKept(pr) /\ ~Opened(pr)' /\ proc'[pr].step \notin Session
      BY <3>2, <3>3 DEF FieldsKept, Opened, At, Session
    <3>. QED
      BY <2>1, <3>4, IndexUnchanged
  <2>3. CASE ~Accepted(pr)
    BY <1>2, <1>e, <2>1, <2>3, IndexUnchanged DEF Ask
  <2>. QED
    BY <2>2, <2>3
<1>3. CASE AskLost(pr)
  <2>1. UNCHANGED <<local, lock, raced>> /\ dropped \subseteq dropped'
    BY <1>3 DEF AskLost
  <2>2. ~Opened(pr)' /\ proc'[pr].step \notin Session
    BY <1>3, <1>e DEF AskLost, Opened, At, Session
  <2>. QED
    BY <1>3, <1>e, <1>u, <2>1, <2>2, IndexUnchanged DEF AskLost
<1>4. CASE AskFails(pr)
  <2>1. UNCHANGED <<local, lock, raced>> /\ dropped \subseteq dropped'
    BY <1>4 DEF AskFails, history
  <2>. QED
    BY <1>4, <1>e, <2>1, IndexUnchanged DEF AskFails
<1>5. CASE LoadIndex(pr)
  <2>1. UNCHANGED <<local, lock, known>> /\ copy'[pr] = local[client(pr)]
    BY <1>5 DEF LoadIndex, serverVars, TypeOK
  <2>2. raced \subseteq raced' /\ raced' \subseteq dropped'
    BY <1>5 DEF LoadIndex, SessionInv, RacedDropped
  <2>3. proc'[pr].step = "lock" /\ proc'[pr].answer = proc[pr].answer
    BY <1>5, <1>c DEF LoadIndex, Goto, TypeOK, ProcType
  <2>4. FieldsKept(pr)
    BY <1>5, <1>a, <2>3 DEF FieldsKept, LoadIndex, At, Session
  <2>5. ASSUME client(pr) \notin raced', Opened(pr)', NEW q \in Processes \ {pr},
               client(q) = client(pr), Opened(q)
        PROVE  FALSE
    <3>1. ~proc'[pr].refused
      BY <2>3, <2>5 DEF Opened, At, Session
    <3>2. (lock[client(pr)] => Unlockable(pr)) /\ ~Overlapped(pr)
      <4>1. ~(proc' = [proc EXCEPT ![pr].step = "lock", ![pr].refused = TRUE])
        BY <1>c, <3>1 DEF TypeOK, ProcType
      <4>. QED
        BY <1>5, <2>5, <4>1 DEF LoadIndex
    <3>3. proc[q].step \in Session
      BY <2>5, <3>2 DEF Overlapped, Opened
    <3>4. lock[client(pr)]
      BY <2>2, <2>5, <3>3 DEF SessionInv, SessionLocked
    <3>. QED
      BY <2>5, <3>2, <3>3, <3>4 DEF Unlockable
  <2>6. proc'[pr].step \notin Session
    BY <2>3 DEF Session
  <2>7. IndexKept(pr)
    BY <2>1, <2>2, <2>5, <2>6 DEF IndexKept
  <2>. QED
    BY <2>4, <2>7
<1>6. CASE NewPIndex(pr) /\ proc[pr].refused
  BY <1>6, <1>e, <1>d, IndexUnchanged DEF NewPIndex
<1>7. CASE NewPIndex(pr) /\ ~proc[pr].refused
  <2>1. proc'[pr] = [proc[pr] EXCEPT !.step = "merge"] /\ At(pr, "lock")
    BY <1>7 DEF NewPIndex, Goto, TypeOK
  <2>2. proc'[pr].step = "merge" /\ Opened(pr)
    BY <1>7, <1>c, <2>1 DEF ProcType, Opened
  <2>3. FieldsKept(pr)
    BY <1>a, <2>1, <2>2 DEF FieldsKept, Session, At
  <2>4. SaveLock(pr, TRUE) /\ UNCHANGED <<local, copy, raced, dropped>>
    BY <1>7 DEF NewPIndex, history
  <2>5. ASSUME client(pr) \notin raced
        PROVE  /\ \A q \in Processes \ {pr} : client(q) = client(pr) => ~Opened(q)
               /\ lock'[client(pr)] /\ copy'[pr] = local'[client(pr)]
    <3>1. \A q \in Processes \ {pr} : client(q) = client(pr) => ~Opened(q)
      BY <2>2, <2>5 DEF SessionInv, OneOpened
    <3>2. lock'[client(pr)]
      BY <2>4, <2>5, LockIs
    <3>3. copy'[pr] = local'[client(pr)]
      BY <2>2, <2>4, <2>5 DEF SessionInv, CopySaved
    <3>. QED
      BY <3>1, <3>2, <3>3
  <2>6. \A cl \in Clients \ {client(pr)} : lock'[cl] = lock[cl]
    BY <2>4, LockIs
  <2>7. IndexKept(pr)
    BY <2>4, <2>5, <2>6 DEF IndexKept, SessionInv, RacedDropped
  <2>. QED
    BY <2>3, <2>7
<1>8. CASE Merge(pr)
  <2>1. Resume(pr) /\ proc[pr].step \in Session /\ lock' = lock
    BY <1>8 DEF Merge, At, Session
  <2>2. dropped \subseteq dropped' /\ raced' = raced
    BY <1>8, <1>d DEF Merge
  <2>3. proc[pr].answer \in Lists /\ merged(copy[pr], proc[pr].answer) \in Lists
    BY <1>c, ListTypes DEF ProcType
  <2>4. CASE UNCHANGED <<copy, local>>
    <3>1. Opened(pr)
      BY <2>1 DEF Opened
    <3>. QED
      BY <1>r, <2>1, <2>2, <2>4, <3>1, IndexUnchanged
  <2>5. CASE \E lists \in Lists : Save(pr, lists)
    BY <1>r, <2>1, <2>2, <2>5, IndexSaved
  <2>. QED
    BY <1>8, <2>3, <2>4, <2>5 DEF Merge
<1>9. CASE Close(pr)
  <2>1. End(pr) /\ SaveLock(pr, FALSE) /\ UNCHANGED <<local, raced, dropped>> /\ Opened(pr)
    BY <1>9 DEF Close, history, Opened, At, Session
  <2>2. \A cl \in Clients \ {client(pr)} : lock'[cl] = lock[cl]
    BY <2>1, LockIs
  <2>3. client(pr) \notin raced =>
           \A q \in Processes \ {pr} : client(q) = client(pr) => ~Opened(q)
    BY <2>1 DEF SessionInv, OneOpened
  <2>4. IndexKept(pr)
    BY <1>e, <2>1, <2>2, <2>3 DEF IndexKept, SessionInv, RacedDropped
  <2>. QED
    BY <1>e, <2>1, <2>4
<1>10. CASE Crash(pr)
  <2>1. UNCHANGED <<local, lock, raced>> /\ dropped \subseteq dropped' /\ End(pr)
    BY <1>10, <1>d DEF Crash
  <2>. QED
    BY <1>e, <2>1, IndexUnchanged
<1>11. ASSUME NEW p \in Paths, Read(pr, p) PROVE FieldsKept(pr) /\ IndexKept(pr)
  <2>1. [copy[pr] EXCEPT ![p] = files[p]] \in Lists
    BY <1>c, ListChanged DEF TypeOK
  <2>. QED
    BY <1>11, <1>d, <1>u, <2>1, IndexSaved DEF Read, At, Session
<1>s. ASSUME NEW p \in Paths, NEW t \in Times, storeMeta(pr, p, t), UNCHANGED <<lock, raced>>,
             dropped' = dropped, proc[pr].step \in Session
      PROVE  IndexKept(pr)
  <2>1. Held(copy[pr][p]) \union {t} \in SUBSET Times
    BY <1>c, ListTypes
  <2>2. [copy[pr] EXCEPT ![p] = Held(@) \union {t}] \in Lists
    BY <1>c, <2>1, ListChanged
  <2>. QED
    BY <1>s, <2>2, IndexSaved DEF storeMeta
<1>12. ASSUME NEW p \in Paths, NEW isContent \in BOOLEAN, Stamp(pr, p, isContent)
       PROVE  FieldsKept(pr) /\ IndexKept(pr)
  <2>1. /\ proc'[pr].step \in {"push", "store"} /\ proc'[pr].answer = proc[pr].answer
        /\ proc'[pr].time = clock + 1
    BY <1>12, <1>c DEF Stamp, TypeOK, ProcType
  <2>2. clock + 1 \in Times /\ proc[pr].step = "open" /\ UNCHANGED <<lock, raced, dropped>>
    BY <1>12 DEF Stamp, At, history
  <2>3. FieldsKept(pr)
    BY <1>a, <2>1, <2>2 DEF FieldsKept, Session
  <2>4. CASE isContent
    <3>1. UNCHANGED <<copy, local>> /\ Opened(pr) /\ proc[pr].step \in Session
      BY <1>12, <2>2, <2>4 DEF Stamp, Opened, Session
    <3>. QED
      BY <2>2, <2>3, <3>1, IndexUnchanged
  <2>5. CASE ~isContent
    <3>1. storeMeta(pr, p, clock + 1) /\ proc[pr].step \in Session
      BY <1>12, <2>2, <2>5 DEF Stamp, Session
    <3>. QED
      BY <1>s, <2>2, <2>3, <3>1
  <2>. QED
    BY <2>4, <2>5
<1>n. ASSUME UNCHANGED <<clientVars, history>>, proc[pr].step \in Session PROVE IndexKept(pr)
  <2>1. Opened(pr)
    BY <1>n DEF Opened
  <2>. QED
    BY <1>n, <1>d, <2>1, IndexUnchanged DEF clientVars
<1>13. ASSUME NEW p \in Paths, NEW t \in Times, xRemoveMeta(pr, p, t)
       PROVE  FieldsKept(pr) /\ IndexKept(pr)
  <2>1. proc[pr].step = "open" /\ UNCHANGED <<clientVars, history>>
    BY <1>13 DEF xRemoveMeta, At
  <2>2. CASE proc' = [proc EXCEPT ![pr].step = "unlist", ![pr].path = p, ![pr].time = t]
    <3>1. proc'[pr].step = "unlist" /\ proc'[pr].time = t /\ proc'[pr].answer = proc[pr].answer
      BY <1>c, <2>2 DEF TypeOK, ProcType
    <3>2. FieldsKept(pr)
      BY <1>a, <2>1, <3>1 DEF FieldsKept, Session
    <3>. QED
      BY <1>n, <2>1, <3>2 DEF Session
  <2>. QED
    BY <1>13, <1>n, <1>u, <2>1, <2>2 DEF xRemoveMeta, Session
<1>14. CASE Store(pr)
  <2>1. proc[pr].step \in Session \ {"merge", "open"} /\ UNCHANGED <<clientVars, history>>
    BY <1>14 DEF Store, At, Session
  <2>2. Resume(pr) \/ Goto(pr, "keep") \/ UNCHANGED proc
    BY <1>14 DEF Store, Ends
  <2>. QED
    BY <1>n, <1>r, <1>g, <1>u, <2>1, <2>2
<1>15. CASE Keep(pr)
  <2>1. /\ proc[pr].step \in Session \ {"merge", "open"} /\ UNCHANGED <<lock, raced, dropped>>
        /\ Resume(pr) /\ storeMeta(pr, proc[pr].path, proc[pr].time)
    BY <1>15 DEF Keep, At, Session, history
  <2>2. proc[pr].path \in Paths /\ proc[pr].time \in Times
    BY <1>a, <1>c, <2>1 DEF ProcType
  <2>. QED
    BY <1>r, <1>s, <2>1, <2>2
<1>16. CASE Unlist(pr)
  <2>1. /\ proc[pr].step \in Session \ {"merge", "open"} /\ UNCHANGED <<lock, raced, dropped>>
        /\ Goto(pr, "remove")
    BY <1>16 DEF Unlist, At, Session, history
  <2>2. proc[pr].path \in Paths
    BY <1>c DEF ProcType
  <2>3. Held(copy[pr][proc[pr].path]) \ {proc[pr].time} \in SUBSET Times
    BY <1>c, <2>2, ListTypes
  <2>4. [copy[pr] EXCEPT ![proc[pr].path] = Held(@) \ {proc[pr].time}] \in Lists
    BY <1>c, <2>2, <2>3, ListChanged
  <2>5. IndexKept(pr)
    BY <1>16, <2>1, <2>4, IndexSaved DEF Unlist
  <2>. QED
    BY <1>g, <2>1, <2>5
<1>17. CASE Remove(pr)
  <2>1. proc[pr].step \in Session \ {"merge", "open"} /\ UNCHANGED <<clientVars, history>>
    BY <1>17 DEF Remove, At, Session
  <2>2. Resume(pr) \/ UNCHANGED proc
    BY <1>17, <2>1 DEF Remove, Ends
  <2>. QED
    BY <1>n, <1>r, <1>u, <2>1, <2>2
<1>. QED
  BY <1>1, <1>2, <1>3, <1>4, <1>5, <1>6, <1>7, <1>8, <1>9, <1>10, <1>11, <1>12, <1>13, <1>14,
     <1>15, <1>16, <1>17 DEF OpenStep, WorkStep

----------------------------------------------------------------------------
(* The server's transactions *)

\* An update whose transaction fails: the client's next one is current.
NotStored(pr) ==
    /\ txId' = [txId EXCEPT ![client(pr)] = @ + 1]
    /\ client(pr) \in dropped' /\ unpurged' = unpurged \union {client(pr)}
    /\ UNCHANGED <<mts, known, noted>>

\* What the server's index goes through: nothing, a request of a client that
\* opens the DSS, or a new list of times.
LEMMA ServerMoves ==
    ASSUME TypeOK, Stamped, NEW pr \in Processes, OpenStep(pr) \/ WorkStep(pr)
    PROVE  \/ UNCHANGED <<mts, known, txId, noted, unpurged>>
           \/ At(pr, "ask") /\ Accepted(pr) /\ Serve(pr) /\ Purged(pr)
           \/ NotStored(pr)
           \/ /\ UNCHANGED <<known, txId, unpurged>>
              /\ \E p \in Paths, list \in SUBSET Times : doStoreMetaTimes(p, list)
<1>1. CASE Store(pr)
  <2>1. proc[pr].path \in Paths /\ proc[pr].time \in Times
    BY <1>1 DEF Store, At, TypeOK, Stamped, Session
  <2>2. mts[proc[pr].path] \union {proc[pr].time} \in SUBSET Times
    BY <2>1 DEF TypeOK
  <2>. QED
    BY <1>1, <2>1, <2>2 DEF Store, doStoreMeta, history
<1>2. ASSUME NEW p \in Paths, NEW t \in Times, xRemoveMeta(pr, p, t)
      PROVE  doStoreMetaTimes(p, mts[p] \ {t}) /\ mts[p] \ {t} \in SUBSET Times
             /\ UNCHANGED <<known, txId, unpurged>>
  BY <1>2 DEF xRemoveMeta, TypeOK, history
<1>3. CASE AskFails(pr)
  BY <1>3 DEF AskFails, NotStored, history
<1>4. CASE OpenStep(pr)
  BY <1>3, <1>4 DEF OpenStep, Initialize, Ask, AskLost, LoadIndex, NewPIndex, Merge, Close, Crash,
                    Drop, serverVars, history
<1>5. CASE WorkStep(pr)
  BY <1>1, <1>2, <1>5 DEF WorkStep, Read, Stamp, Keep, Unlist, Remove, serverVars, history
<1>. QED
  BY <1>4, <1>5

\* Where a transaction of a client may hold something.
MayHold(cl, n) ==
    cl \in known /\ n <= txId[cl] /\ (cl \in unpurged \/ n >= txId[cl] - 1)

\* The server keeps two transactions of a client, unless updates were not
\* stored, and none before it knows it.
LEMMA TransactionsStep ==
    ASSUME TypeOK, Stamped, TwoTransactions, [Next]_vars
    PROVE  TwoTransactions'
<1>. SUFFICES ASSUME NEW pr \in Processes, OpenStep(pr) \/ WorkStep(pr) PROVE TwoTransactions'
  BY DEF Next, TwoTransactions, vars, serverVars, history
<1>. USE TxsNumbers
<1>c. client(pr) \in Clients
  BY ClientsAssigned DEF client
<1>h. \A cl \in Clients, n \in Txs : noted[cl][n] # NoLists => MayHold(cl, n)
  BY DEF TwoTransactions, MayHold
<1>. SUFFICES ASSUME NEW cl \in Clients, NEW n \in Txs, noted'[cl][n] # NoLists
              PROVE  MayHold(cl, n)'
  BY DEF TwoTransactions, MayHold
<1>t. txId[cl] \in Nat /\ n \in Nat
  BY DEF TypeOK
<1>1. CASE UNCHANGED <<mts, known, txId, noted, unpurged>>
  BY <1>1, <1>h DEF MayHold
<1>2. CASE Serve(pr) /\ Purged(pr) /\ proc[pr].wasKnown
  <2>1. /\ noted' = [noted EXCEPT ![client(pr)] =
                       [m \in Txs |-> IF m < txId[client(pr)] THEN NoLists ELSE @[m]]]
        /\ txId' = [txId EXCEPT ![client(pr)] = @ + 1]
        /\ known' = known /\ unpurged' = unpurged \ {client(pr)}
    BY <1>2 DEF Serve, updateClient, Purged
  <2>2. CASE cl = client(pr)
    <3>1. noted'[cl][n] = IF n < txId[cl] THEN NoLists ELSE noted[cl][n]
      BY <2>1, <2>2 DEF TypeOK
    <3>2. ~(n < txId[cl]) /\ noted[cl][n] # NoLists
      BY <3>1
    <3>3. cl \in known /\ n = txId[cl]
      BY <1>h, <1>t, <3>2 DEF MayHold
    <3>4. txId'[cl] = txId[cl] + 1
      BY <2>1, <2>2 DEF TypeOK
    <3>. QED
      BY <1>t, <2>1, <3>3, <3>4 DEF MayHold
  <2>3. CASE cl # client(pr)
    <3>1. noted'[cl] = noted[cl] /\ txId'[cl] = txId[cl]
      BY <2>1, <2>3 DEF TypeOK
    <3>. QED
      BY <1>h, <2>1, <2>3, <3>1 DEF MayHold
  <2>. QED
    BY <2>2, <2>3
<1>3. CASE Serve(pr) /\ Purged(pr) /\ Accepted(pr) /\ ~proc[pr].wasKnown
  <2>1. client(pr) \notin known /\ known' = known \union {client(pr)} /\ noted' = noted
        /\ txId' = [txId EXCEPT ![client(pr)] = 0] /\ unpurged' = unpurged
    BY <1>3 DEF Serve, Accepted, recordClient, Purged
  <2>2. MayHold(cl, n) /\ cl # client(pr)
    BY <1>h, <2>1 DEF MayHold
  <2>3. txId'[cl] = txId[cl]
    BY <2>1, <2>2 DEF TypeOK
  <2>. QED
    BY <2>1, <2>2, <2>3 DEF MayHold
<1>4. CASE NotStored(pr)
  <2>1. MayHold(cl, n) /\ known' = known
    BY <1>4, <1>h DEF NotStored
  <2>2. CASE cl = client(pr)
    <3>1. txId'[cl] = txId[cl] + 1 /\ cl \in unpurged'
      BY <1>4, <2>2 DEF NotStored, TypeOK
    <3>. QED
      BY <1>t, <2>1, <3>1 DEF MayHold
  <2>3. CASE cl # client(pr)
    <3>1. txId'[cl] = txId[cl] /\ (cl \in unpurged' <=> cl \in unpurged)
      BY <1>4, <2>3 DEF NotStored, TypeOK
    <3>. QED
      BY <2>1, <3>1 DEF MayHold
  <2>. QED
    BY <2>2, <2>3
<1>5. ASSUME NEW p \in Paths, NEW list \in SUBSET Times, doStoreMetaTimes(p, list),
             UNCHANGED <<known, txId, unpurged>>
      PROVE  MayHold(cl, n)'
  <2>1. noted'[cl] = IF cl \in known THEN [noted[cl] EXCEPT ![txId[cl]][p] = list] ELSE noted[cl]
    BY <1>5 DEF doStoreMetaTimes
  <2>2. n # txId[cl] \/ cl \notin known => noted'[cl][n] = noted[cl][n]
    BY <2>1 DEF TypeOK
  <2>3. CASE n = txId[cl] /\ cl \in known
    BY <1>t, <1>5, <2>3 DEF MayHold
  <2>4. CASE n # txId[cl] \/ cl \notin known
    BY <1>h, <1>5, <2>2, <2>4 DEF MayHold
  <2>. QED
    BY <2>3, <2>4
<1>. QED
  BY <1>1, <1>2, <1>3, <1>4, <1>5, ServerMoves

\* What is noted for a client that is known after a new list of times.
LEMMA NotedNow ==
    ASSUME TypeOK, NEW p \in Paths, NEW list \in SUBSET Times, doStoreMetaTimes(p, list),
           txId' = txId, NEW cl \in known, NEW p2 \in Paths
    PROVE  /\ mts'[p2] = IF p2 = p THEN list ELSE mts[p2]
           /\ Pending(cl, p2)' = IF p2 = p THEN list ELSE Pending(cl, p2)
<1>1. noted'[cl] = [noted[cl] EXCEPT ![txId[cl]][p] = list]
  BY DEF doStoreMetaTimes, TypeOK
<1>2. noted'[cl][txId[cl]][p2] = IF p2 = p THEN list ELSE noted[cl][txId[cl]][p2]
  BY <1>1 DEF TypeOK, Lists
<1>3. Held(list) = list
  BY NoEntryDistinct DEF Held
<1>. QED
  BY <1>2, <1>3 DEF doStoreMetaTimes, TypeOK, Pending, Held

----------------------------------------------------------------------------
(* Every change accounted for *)

\* An answer holds the versions it is made from, a merged list those of both.
LEMMA HeldLists ==
    /\ \A p \in Paths : Held(NoLists[p]) = {}
    /\ \A lists \in Lists, p \in Paths : Held(Sent(lists)[p]) = Held(lists[p])
    /\ \A old, new \in Lists, p \in Paths :
          Held(merged(old, new)[p]) = Held(old[p]) \union Held(new[p])
<1>1. \A p \in Paths : Held(NoLists[p]) = {}
  BY DEF Held, NoLists
<1>2. ASSUME NEW lists \in Lists, NEW p \in Paths PROVE Held(Sent(lists)[p]) = Held(lists[p])
  BY DEF Held, Sent, Lists
<1>3. ASSUME NEW old \in Lists, NEW new \in Lists, NEW p \in Paths
      PROVE  Held(merged(old, new)[p]) = Held(old[p]) \union Held(new[p])
  <2>1. merged(old, new)[p] = IF new[p] = NoEntry THEN old[p] ELSE Held(old[p]) \union new[p]
    BY DEF merged
  <2>2. CASE new[p] = NoEntry
    BY <2>1, <2>2 DEF Held
  <2>3. CASE new[p] # NoEntry
    <3>1. Held(old[p]) \in SUBSET Times /\ new[p] \in SUBSET Times
      BY <2>3 DEF Held, Lists
    <3>2. Held(old[p]) \union new[p] \in SUBSET Times
      BY <3>1
    <3>3. Held(old[p]) \union new[p] # NoEntry
      BY <3>2, NoEntryDistinct
    <3>. QED
      BY <2>1, <2>3, <3>3 DEF Held
  <2>. QED
    BY <2>2, <2>3
<1>. QED
  BY <1>1, <1>2, <1>3

Answered(pr, p) == Held(proc[pr].answer[p])

\* A step that leaves the server's index alone accounts for every change when,
\* for each client whose answers were not dropped, either the process is given
\* the whole index or what leaves an answer, the notes or the client's index is
\* found further on.
LEMMA Flow ==
    ASSUME AllAccounted, NEW pr \in Processes, mts' = mts,
           \A q \in Processes \ {pr} : proc'[q] = proc[q],
           \A cl \in known' \ dropped', p \in Paths :
              \/ client(pr) = cl /\ mts[p] \subseteq Answered(pr, p)'
              \/ /\ cl \in known \ dropped
                 /\ Held(local[cl][p]) \subseteq Held(local'[cl][p])
                 /\ client(pr) = cl =>
                       Answered(pr, p) \subseteq Answered(pr, p)' \union Held(local'[cl][p])
                 /\ \/ Pending(cl, p) \subseteq Pending(cl, p)'
                    \/ client(pr) = cl /\ Pending(cl, p) \subseteq Answered(pr, p)'
    PROVE  AllAccounted'
<1>. SUFFICES ASSUME NEW cl \in known' \ dropped', NEW p \in Paths, NEW t \in mts[p]
              PROVE  Accounted(cl, p, t)'
  BY DEF AllAccounted
<1>. USE DEF Accounted, Returning, Answered, client
<1>1. CASE client(pr) = cl /\ mts[p] \subseteq Answered(pr, p)'
  BY <1>1
<1>2. CASE /\ cl \in known \ dropped
           /\ Held(local[cl][p]) \subseteq Held(local'[cl][p])
           /\ client(pr) = cl =>
                 Answered(pr, p) \subseteq Answered(pr, p)' \union Held(local'[cl][p])
           /\ \/ Pending(cl, p) \subseteq Pending(cl, p)'
              \/ client(pr) = cl /\ Pending(cl, p) \subseteq Answered(pr, p)'
  <2>1. Accounted(cl, p, t)
    BY <1>2 DEF AllAccounted
  <2>2. CASE t \in Held(local[cl][p])
    BY <1>2, <2>2
  <2>3. CASE t \in Pending(cl, p)
    BY <1>2, <2>3
  <2>4. ASSUME NEW q \in Processes, client(q) = cl, t \in Answered(q, p)
        PROVE  Accounted(cl, p, t)'
    <3>1. CASE q = pr
      BY <1>2, <2>4, <3>1
    <3>2. CASE q # pr
      BY <2>4, <3>2
    <3>. QED
      BY <3>1, <3>2
  <2>. QED
    BY <2>1, <2>2, <2>3, <2>4
<1>. QED
  BY <1>1, <1>2

\* The same for the versions that are about to leave an index: they are still
\* on their way back after a step that leaves the server's index alone.
LEMMA ReturnsKept ==
    ASSUME UnlistedReturns, NEW pr \in Processes, mts' = mts, dropped \subseteq dropped',
           \A q \in Processes \ {pr} : proc'[q] = proc[q],
           proc'[pr].step # "unlist",
           \A q \in Processes \ {pr}, p \in Paths :
              At(q, "unlist") /\ client(q) \notin dropped' =>
                 /\ client(pr) = client(q) => Answered(pr, p) \subseteq Answered(pr, p)'
                 /\ \/ Pending(client(q), p) \subseteq Pending(client(q), p)'
                    \/ /\ client(pr) = client(q)
                       /\ Pending(client(q), p) \subseteq Answered(pr, p)',
           TypeOK
    PROVE  UnlistedReturns'
<1>. SUFFICES ASSUME NEW q \in Processes, proc'[q].step = "unlist", client(q) \notin dropped',
                     proc'[q].time \in mts[proc'[q].path]
              PROVE  Returning(client(q), proc[q].path, proc[q].time)'
  BY DEF UnlistedReturns, At, client
<1>. DEFINE cl == client(q)
           p == proc[q].path
           t == proc[q].time
<1>1. q # pr /\ proc'[q] = proc[q] /\ p \in Paths
  BY DEF TypeOK
<1>2. Returning(cl, p, t)
  BY <1>1 DEF UnlistedReturns, At
<1>3. client(pr) = cl => Answered(pr, p) \subseteq Answered(pr, p)'
  BY <1>1 DEF At
<1>4. \/ Pending(cl, p) \subseteq Pending(cl, p)'
      \/ client(pr) = cl /\ Pending(cl, p) \subseteq Answered(pr, p)'
  BY <1>1 DEF At
<1>5. \/ \E other \in Processes : client(other) = cl /\ t \in Held(proc'[other].answer[p])
      \/ t \in Pending(cl, p)'
  <2>1. CASE t \in Pending(cl, p)
    BY <1>4, <2>1 DEF Answered
  <2>2. ASSUME NEW other \in Processes, client(other) = cl, t \in Answered(other, p)
        PROVE  t \in Held(proc'[other].answer[p])
    <3>1. CASE other = pr
      BY <1>3, <2>2, <3>1 DEF Answered
    <3>2. CASE other # pr
      BY <2>2, <3>2 DEF Answered
    <3>. QED
      BY <3>1, <3>2
  <2>. QED
    BY <1>2, <2>1, <2>2 DEF Returning, Answered
<1>. QED
  BY <1>1, <1>5 DEF Returning, Pending, client

\* A request of a client leaves the notes of the others as they are.
LEMMA ServedElsewhere ==
    ASSUME TypeOK, NEW pr \in Processes, Serve(pr), NEW cl \in Clients, cl # client(pr),
           NEW p \in Paths
    PROVE  Pending(cl, p)' = Pending(cl, p) /\ (cl \in known' => cl \in known)
BY DEF Serve, updateClient, recordClient, TypeOK, Pending

\* A new list of times is noted for every client the server knows, so that it
\* is accounted for, and so is a version that is about to leave an index.
LEMMA ListNoted ==
    ASSUME TypeOK, AnsweredKnown', AllAccounted, UnlistedReturns, NEW pr \in Processes,
           NEW p \in Paths, NEW list \in SUBSET Times, doStoreMetaTimes(p, list),
           UNCHANGED <<known, txId, local, dropped>>,
           \A q \in Processes \ {pr} : proc'[q] = proc[q],
           proc'[pr].answer = proc[pr].answer,
           proc'[pr].step = "unlist" => proc'[pr].path = p
    PROVE  AllAccounted' /\ UnlistedReturns'
<1>. DEFINE back(cl, p2, t) ==
              \/ \E q \in Processes : client(q) = cl /\ t \in Held(proc'[q].answer[p2])
              \/ t \in Held(noted'[cl][txId'[cl]][p2])
<1>0. \A q \in Processes : proc'[q].answer = proc[q].answer
  OBVIOUS
<1>1. ASSUME NEW cl \in known, NEW p2 \in Paths, NEW t,
             p2 # p => Returning(cl, p2, t), p2 = p => t \in list
      PROVE  back(cl, p2, t)
  <2>1. CASE p2 = p
    BY <1>1, <2>1, NotedNow DEF Pending
  <2>2. CASE p2 # p
    <3>1. Pending(cl, p2)' = Pending(cl, p2)
      BY <2>2, NotedNow
    <3>. QED
      BY <1>0, <1>1, <2>2, <3>1 DEF Returning, Pending
  <2>. QED
    BY <2>1, <2>2
<1>2. \A p2 \in Paths : mts'[p2] = IF p2 = p THEN list ELSE mts[p2]
  BY DEF doStoreMetaTimes, TypeOK
<1>3. AllAccounted'
  <2>. SUFFICES ASSUME NEW cl \in known \ dropped, NEW p2 \in Paths, NEW t \in mts'[p2]
                PROVE  t \in Held(local[cl][p2]) \/ back(cl, p2, t)
    BY DEF AllAccounted, Accounted, Returning, client, Pending
  <2>1. CASE p2 = p
    BY <1>1, <1>2, <2>1
  <2>2. CASE p2 # p
    <3>1. Accounted(cl, p2, t)
      BY <1>2, <2>2 DEF AllAccounted
    <3>. QED
      BY <1>1, <2>2, <3>1 DEF Accounted
  <2>. QED
    BY <2>1, <2>2
<1>4. UnlistedReturns'
  <2>. SUFFICES ASSUME NEW q \in Processes, proc'[q].step = "unlist", client(q) \notin dropped,
                       proc'[q].time \in mts'[proc'[q].path], proc'[q].path \in Paths
                PROVE  back(client(q), proc'[q].path, proc'[q].time)
    <3>1. \A q \in Processes : proc'[q].step = "unlist" => proc'[q].path \in Paths
      BY DEF TypeOK
    <3>. QED
      BY <3>1 DEF UnlistedReturns, At, Returning, client, Pending
  <2>1. client(q) \in known
    BY DEF AnsweredKnown, Session, client
  <2>2. CASE proc'[q].path = p
    BY <1>1, <1>2, <2>1, <2>2
  <2>3. CASE proc'[q].path # p
    <3>1. proc'[q] = proc[q]
      BY <2>3
    <3>2. proc[q].time \in mts[proc[q].path]
      BY <1>2, <2>3, <3>1
    <3>. QED
      BY <1>1, <2>1, <2>3, <3>1, <3>2 DEF UnlistedReturns, At
  <2>. QED
    BY <2>2, <2>3
<1>. QED
  BY <1>3, <1>4

\* A step with no request to the server and no answer merged: nothing is lost
\* on the way unless it is recorded as dropped, and no list of the clients'
\* indexes shrinks.
LEMMA QuietStep ==
    ASSUME TypeOK, AllAccounted, UnlistedReturns, NEW pr \in Processes,
           UNCHANGED <<mts, known, txId, noted>>, dropped \subseteq dropped',
           \A q \in Processes \ {pr} : proc'[q] = proc[q],
           proc'[pr].answer = proc[pr].answer \/ client(pr) \in dropped',
           proc'[pr].step # "unlist",
           \A cl \in known \ dropped', p \in Paths :
              Held(local[cl][p]) \subseteq Held(local'[cl][p])
    PROVE  AllAccounted' /\ UnlistedReturns'
<1>1. \A cl \in known, p \in Paths : Pending(cl, p)' = Pending(cl, p)
  BY DEF Pending
<1>2. \A q \in Processes, p \in Paths :
         At(q, "unlist") => Pending(client(q), p)' = Pending(client(q), p)
  BY DEF Pending, client
<1>3. client(pr) \notin dropped' => \A p \in Paths : Answered(pr, p)' = Answered(pr, p)
  BY DEF Answered
<1>4. AllAccounted'
  BY <1>1, <1>3, Flow
<1>5. UnlistedReturns'
  BY <1>2, <1>3, ReturnsKept
<1>. QED
  BY <1>4, <1>5

\* Every action leaves every change accounted for.
LEMMA AccountedStep ==
    ASSUME TypeOK, SessionInv, SessionInv', UnlistedReturns, AllAccounted, [Next]_vars
    PROVE  AllAccounted' /\ UnlistedReturns'
<1>1. CASE UNCHANGED vars
  BY <1>1 DEF vars, serverVars, clientVars, envVars, history, AllAccounted, UnlistedReturns, Accounted,
              Returning, Pending, At, client
<1>. SUFFICES ASSUME NEW pr \in Processes, OpenStep(pr) \/ WorkStep(pr)
              PROVE  AllAccounted' /\ UnlistedReturns'
  BY <1>1 DEF Next
<1>o. \A q \in Processes \ {pr} : proc'[q] = proc[q]
  BY OneProcess
<1>c. /\ client(pr) \in Clients /\ dropped \in SUBSET Clients /\ proc[pr] \in ProcType
      /\ copy[pr] \in Lists /\ known \subseteq Clients
  BY ClientsAssigned DEF client, TypeOK, ProcType
<1>d. /\ Drop(pr) => client(pr) \in dropped' /\ dropped \subseteq dropped'
      /\ UNCHANGED history => dropped' = dropped
  BY DEF Drop, history
<1>n. proc[pr].step \notin {"openIndex", "lock", "merge"} => proc[pr].answer = NoLists
  BY DEF SessionInv, AnswersHeld
<1>i. /\ End(pr) => proc'[pr] = Closed
      /\ Resume(pr) => proc'[pr] = [Closed EXCEPT !.step = "open"]
      /\ \A step : Goto(pr, step) => proc'[pr].step = step /\ proc'[pr].answer = proc[pr].answer
  BY DEF End, Resume, Goto, TypeOK
<1>2. CASE Initialize(pr)
  <2>1. proc'[pr].step = "ask" /\ proc'[pr].answer = proc[pr].answer
    BY <1>2 DEF Initialize, TypeOK
  <2>. QED
    BY <1>2, <1>d, <1>o, <2>1, QuietStep DEF Initialize, serverVars, clientVars
<1>3. CASE Ask(pr) /\ ~Accepted(pr)
  BY <1>3, <1>o, <1>n, <1>i, QuietStep, IdleFields DEF Ask, At, serverVars
<1>4. CASE Ask(pr) /\ Accepted(pr)
  <2>1. Serve(pr) /\ mts' = mts /\ UNCHANGED <<local, dropped>>
    BY <1>4 DEF Ask, Serve
  <2>2. proc'[pr].step = "openIndex" /\ proc'[pr].answer = Answer(pr)
    BY <1>4 DEF Ask, TypeOK
  <2>3. \A p \in Paths : Answered(pr, p) = {}
    BY <1>4, <1>n, HeldLists DEF Ask, At, Answered
  <2>4. CASE proc[pr].wasKnown
    <3>1. known' = known
      BY <2>1, <2>4 DEF Serve, updateClient
    <3>2. \A p \in Paths : Pending(client(pr), p) = Answered(pr, p)'
      <4>1. noted[client(pr)][txId[client(pr)]] \in Lists
        BY <1>c DEF TypeOK
      <4>. QED
        BY <2>2, <2>4, <4>1, HeldLists DEF Answer, Answered, Pending
    <3>3. \A cl \in known, p \in Paths : cl # client(pr) => Pending(cl, p)' = Pending(cl, p)
      BY <2>1, ServedElsewhere DEF TypeOK
    <3>4. \A q \in Processes, p \in Paths :
             client(q) # client(pr) => Pending(client(q), p)' = Pending(client(q), p)
      BY <2>1, ServedElsewhere, ClientsAssigned DEF client
    <3>5. AllAccounted'
      BY <1>o, <2>1, <2>3, <3>1, <3>2, <3>3, Flow
    <3>6. UnlistedReturns'
      BY <1>o, <2>1, <2>2, <2>3, <3>2, <3>4, ReturnsKept
    <3>. QED
      BY <3>5, <3>6
  <2>5. CASE ~proc[pr].wasKnown
    <3>1. client(pr) \notin known /\ UNCHANGED noted
      BY <1>4, <2>1, <2>5 DEF Accepted, Serve, recordClient
    <3>2. \A p \in Paths : mts[p] \subseteq Answered(pr, p)'
      <4>1. mts \in Lists /\ \A p \in Paths : Held(mts[p]) = mts[p]
        BY NoEntryDistinct DEF TypeOK, Lists, Held
      <4>. QED
        BY <2>2, <2>5, <4>1, HeldLists DEF Answer, Answered
    <3>3. \A cl \in known' \ {client(pr)}, p \in Paths :
             cl \in known /\ Pending(cl, p)' = Pending(cl, p)
      BY <1>c, <2>1, <2>5, ServedElsewhere DEF Serve, recordClient, TypeOK
    <3>4. \A q \in Processes : At(q, "unlist") => client(q) # client(pr)
      BY <3>1 DEF SessionInv, AnsweredKnown, At, Session
    <3>5. \A q \in Processes, p \in Paths :
             client(q) # client(pr) => Pending(client(q), p)' = Pending(client(q), p)
      BY <2>1, ServedElsewhere, ClientsAssigned DEF client
    <3>6. AllAccounted'
      BY <1>o, <2>1, <2>3, <3>2, <3>3, Flow
    <3>7. UnlistedReturns'
      BY <1>o, <2>1, <2>2, <3>4, <3>5, ReturnsKept
    <3>. QED
      BY <3>6, <3>7
  <2>. QED
    BY <2>4, <2>5
<1>5. CASE AskLost(pr)
  <2>0. client(pr) \in dropped' /\ dropped \subseteq dropped'
    BY <1>5 DEF AskLost
  <2>1. Serve(pr) /\ mts' = mts /\ local' = local
    BY <1>5 DEF AskLost, Serve
  <2>2. proc'[pr].step # "unlist"
    BY <1>5, <1>i DEF AskLost, At, Closed
  <2>3. \A cl \in known' \ dropped', p \in Paths :
           cl # client(pr) /\ cl \in known /\ Pending(cl, p)' = Pending(cl, p)
    BY <1>c, <2>0, <2>1, ServedElsewhere DEF Serve, updateClient, recordClient, TypeOK
  <2>4. \A q \in Processes, p \in Paths :
           client(q) # client(pr) => Pending(client(q), p)' = Pending(client(q), p)
    BY <2>1, ServedElsewhere, ClientsAssigned DEF client
  <2>5. AllAccounted'
    BY <1>o, <2>0, <2>1, <2>3, Flow
  <2>6. UnlistedReturns'
    BY <1>o, <2>0, <2>1, <2>2, <2>4, ReturnsKept
  <2>. QED
    BY <2>5, <2>6
<1>6. CASE AskFails(pr)
  <2>1. UNCHANGED <<mts, known, noted, local>> /\ dropped \subseteq dropped'
    BY <1>6 DEF AskFails, history
  <2>2. proc'[pr].answer = proc[pr].answer /\ proc'[pr].step # "unlist"
    BY <1>6, <1>n, <1>i, IdleFields DEF AskFails, At
  <2>3. CASE UNCHANGED <<txId, faults, history>>
    BY <1>o, <2>1, <2>2, <2>3, QuietStep
  <2>4. CASE NotStored(pr)
    <3>1. \A cl \in known \ dropped', p \in Paths :
             cl # client(pr) /\ Pending(cl, p)' = Pending(cl, p)
      BY <1>c, <2>4 DEF NotStored, TypeOK, Pending
    <3>2. \A q \in Processes, p \in Paths :
             client(q) \notin dropped' => Pending(client(q), p)' = Pending(client(q), p)
      BY <2>4, ClientsAssigned DEF NotStored, TypeOK, Pending, client
    <3>3. \A p \in Paths : Answered(pr, p) \subseteq Answered(pr, p)'
      BY <2>2 DEF Answered
    <3>4. AllAccounted'
      BY <1>o, <2>1, <3>1, <3>3, Flow
    <3>5. UnlistedReturns'
      BY <1>o, <2>1, <2>2, <3>2, <3>3, ReturnsKept
    <3>. QED
      BY <3>4, <3>5
  <2>. QED
    BY <1>6, <2>3, <2>4 DEF AskFails, NotStored
<1>7. CASE LoadIndex(pr)
  <2>1. UNCHANGED <<mts, known, txId, noted, local>> /\ dropped \subseteq dropped'
    BY <1>7 DEF LoadIndex, serverVars
  <2>2. proc'[pr].step = "lock" /\ proc'[pr].answer = proc[pr].answer
    BY <1>7, <1>c DEF LoadIndex, Goto, TypeOK, ProcType
  <2>. QED
    BY <1>o, <2>1, <2>2, QuietStep
<1>18. CASE NewPIndex(pr)
  <2>1. UNCHANGED <<mts, known, txId, noted, local>> /\ dropped \subseteq dropped'
    BY <1>18, <1>d DEF NewPIndex, serverVars
  <2>2. /\ proc'[pr].answer = proc[pr].answer \/ client(pr) \in dropped'
        /\ proc'[pr].step # "unlist"
    <3>1. CASE proc[pr].refused
      BY <1>18, <1>d, <1>i, <3>1, IdleFields DEF NewPIndex
    <3>2. CASE ~proc[pr].refused
      <4>1. proc'[pr] = [proc[pr] EXCEPT !.step = "merge"]
        BY <1>18, <3>2 DEF NewPIndex, Goto, TypeOK
      <4>. QED
        BY <1>c, <4>1 DEF ProcType
    <3>. QED
      BY <3>1, <3>2
  <2>. QED
    BY <1>o, <2>1, <2>2, QuietStep
<1>8. CASE Merge(pr)
  <2>1. UNCHANGED <<mts, known, txId, noted>> /\ Resume(pr) /\ dropped \subseteq dropped'
    BY <1>8, <1>d DEF Merge, serverVars
  <2>2. \A cl \in known, p \in Paths : Pending(cl, p)' = Pending(cl, p)
    BY <2>1 DEF Pending
  <2>3. \A cl \in known \ dropped', p \in Paths :
           /\ Held(local[cl][p]) \subseteq Held(local'[cl][p])
           /\ client(pr) = cl => Answered(pr, p) \subseteq Held(local'[cl][p])
    <3>1. proc[pr].answer \in Lists /\ merged(copy[pr], proc[pr].answer) \in Lists
      BY <1>c, ListTypes DEF ProcType
    <3>2. client(pr) \notin dropped' => client(pr) \notin raced /\ copy[pr] = local[client(pr)]
      BY <1>8, <2>1 DEF Merge, At, SessionInv, CopySaved, RacedDropped, Opened, Session
    <3>3. CASE proc[pr].wasKnown /\ Save(pr, merged(copy[pr], proc[pr].answer))
      <4>1. \A cl \in known \ {client(pr)} : local'[cl] = local[cl]
        BY <1>c, <3>1, <3>3, SaveIs
      <4>2. client(pr) \notin dropped' =>
               local'[client(pr)] = merged(local[client(pr)], proc[pr].answer)
        BY <3>1, <3>2, <3>3, SaveIs
      <4>3. \A p \in Paths : Held(merged(copy[pr], proc[pr].answer)[p]) =
                               Held(copy[pr][p]) \union Answered(pr, p)
        BY <1>c, <3>1, HeldLists DEF Answered
      <4>. QED
        BY <3>2, <4>1, <4>2, <4>3
    <3>4. CASE Save(pr, proc[pr].answer) /\ (copy[pr] = NoLists \/ Drop(pr))
      <4>1. \A cl \in known \ {client(pr)} : local'[cl] = local[cl]
        BY <1>c, <3>1, <3>4, SaveIs
      <4>2. client(pr) \notin dropped' =>
               local'[client(pr)] = proc[pr].answer /\ local[client(pr)] = NoLists
        BY <1>d, <3>1, <3>2, <3>4, SaveIs
      <4>3. \A p \in Paths : Held(NoLists[p]) = {}
        BY HeldLists
      <4>. QED
        BY <4>1, <4>2, <4>3 DEF Answered
    <3>5. CASE Drop(pr) /\ UNCHANGED <<copy, local>>
      BY <1>d, <3>5
    <3>. QED
      BY <1>8, <3>3, <3>4, <3>5 DEF Merge
  <2>4. AllAccounted'
    BY <1>o, <2>1, <2>2, <2>3, Flow
  <2>5. \A q \in Processes \ {pr} :
           At(q, "unlist") /\ client(q) \notin dropped' => client(pr) # client(q)
    BY <1>8, <2>1 DEF Merge, At, SessionInv, OneOpened, RacedDropped, Opened, Session
  <2>6. \A q \in Processes, p \in Paths : Pending(client(q), p)' = Pending(client(q), p)
    BY <2>1 DEF Pending, client
  <2>7. proc'[pr].step # "unlist"
    BY <2>1, <1>i, IdleFields
  <2>8. UnlistedReturns'
    BY <1>o, <2>1, <2>5, <2>6, <2>7, ReturnsKept
  <2>. QED
    BY <2>4, <2>8
<1>9. CASE Close(pr)
  BY <1>9, <1>d, <1>o, <1>n, <1>i, QuietStep, IdleFields DEF Close, At, serverVars
<1>10. CASE Crash(pr)
  <2>1. proc'[pr] = Closed
    BY <1>10, <1>i DEF Crash
  <2>2. Drop(pr) \/ (UNCHANGED dropped /\ proc[pr].answer = NoLists)
    BY <1>10, <1>d, <1>n DEF Crash
  <2>. QED
    BY <1>10, <1>o, <1>d, <2>1, <2>2, QuietStep, IdleFields DEF Crash, serverVars
<1>. DEFINE grown == \A cl \in known \ dropped, p \in Paths :
                       Held(local[cl][p]) \subseteq Held(local'[cl][p])
<1>v. ASSUME NEW p \in Paths, NEW list \in SUBSET Times, proc[pr].step \in Session,
             Save(pr, [copy[pr] EXCEPT ![p] = list])
      PROVE  /\ \A cl \in known \ dropped, p2 \in Paths :
                   cl # client(pr) \/ p2 # p => local'[cl][p2] = local[cl][p2]
             /\ client(pr) \notin dropped =>
                   copy[pr] = local[client(pr)] /\ Held(local'[client(pr)][p]) = list
  <2>1. [copy[pr] EXCEPT ![p] = list] \in Lists
    BY <1>c, ListChanged
  <2>2. client(pr) \notin dropped => client(pr) \notin raced /\ copy[pr] = local[client(pr)]
    BY <1>v DEF SessionInv, CopySaved, RacedDropped, Opened
  <2>3. \A cl \in known \ {client(pr)} : local'[cl] = local[cl]
    BY <1>c, <1>v, <2>1, SaveIs
  <2>4. client(pr) \notin dropped => local'[client(pr)] = [copy[pr] EXCEPT ![p] = list]
    BY <1>v, <2>1, <2>2, SaveIs
  <2>5. /\ Held([copy[pr] EXCEPT ![p] = list][p]) = list
        /\ \A p2 \in Paths \ {p} : [copy[pr] EXCEPT ![p] = list][p2] = copy[pr][p2]
    <3>1. copy[pr] \in [Paths -> (SUBSET Times) \union {NoEntry}]
      BY <1>c DEF Lists
    <3>2. Held(list) = list
      BY NoEntryDistinct DEF Held
    <3>3. [copy[pr] EXCEPT ![p] = list][p] = list
      BY <3>1
    <3>. QED
      BY <3>1, <3>2, <3>3
  <2>. DEFINE new == [copy[pr] EXCEPT ![p] = list]
  <2>. HIDE DEF new
  <2>6. client(pr) \notin dropped =>
           /\ copy[pr] = local[client(pr)] /\ Held(local'[client(pr)][p]) = list
           /\ \A p2 \in Paths \ {p} : local'[client(pr)][p2] = local[client(pr)][p2]
    BY <2>2, <2>4, <2>5
  <2>. QED
    BY <2>3, <2>6
<1>s. ASSUME NEW p \in Paths, NEW t \in Times, storeMeta(pr, p, t), proc[pr].step \in Session
      PROVE  grown
  <2>1. Held(copy[pr][p]) \union {t} \in SUBSET Times
    BY <1>c, ListTypes
  <2>2. Save(pr, [copy[pr] EXCEPT ![p] = Held(copy[pr][p]) \union {t}])
    BY <1>s DEF storeMeta
  <2>. QED
    BY <1>s, <1>v, <2>1, <2>2
<1>11. ASSUME NEW p \in Paths, Read(pr, p) PROVE AllAccounted' /\ UnlistedReturns'
  <2>1. files[p] \in SUBSET Times /\ copy[pr][p] = NoEntry /\ proc[pr].step \in Session
    BY <1>11 DEF Read, TypeOK, At, Session
  <2>2. grown
    <3>1. Save(pr, [copy[pr] EXCEPT ![p] = files[p]])
      BY <1>11 DEF Read
    <3>2. /\ \A cl \in known \ dropped, p2 \in Paths :
                cl # client(pr) \/ p2 # p => local'[cl][p2] = local[cl][p2]
          /\ client(pr) \notin dropped => copy[pr] = local[client(pr)]
      BY <1>v, <2>1, <3>1
    <3>3. client(pr) \notin dropped => Held(local[client(pr)][p]) = {}
      BY <2>1, <3>2 DEF Held
    <3>. QED
      BY <3>2, <3>3
  <2>. QED
    BY <1>11, <1>d, <1>o, <2>2, QuietStep DEF Read, At, serverVars
<1>12. ASSUME NEW p \in Paths, NEW isContent \in BOOLEAN, Stamp(pr, p, isContent)
       PROVE  AllAccounted' /\ UnlistedReturns'
  <2>1. grown
    BY <1>12, <1>s DEF Stamp, At, Session
  <2>2. proc'[pr].step # "unlist" /\ proc'[pr].answer = proc[pr].answer
    BY <1>12 DEF Stamp, TypeOK
  <2>. QED
    BY <1>12, <1>d, <1>o, <2>1, <2>2, QuietStep DEF Stamp, serverVars
<1>13. CASE Keep(pr)
  <2>1. grown
    BY <1>13, <1>s, <1>c DEF Keep, At, ProcType, SessionInv, Stamped, Session
  <2>. QED
    BY <1>13, <1>d, <1>o, <1>n, <1>i, <2>1, QuietStep, IdleFields DEF Keep, At, serverVars
<1>14. CASE Remove(pr)
  <2>1. proc'[pr].answer = proc[pr].answer /\ proc'[pr].step # "unlist"
    BY <1>14, <1>i, <1>n, IdleFields DEF Remove, Ends, At
  <2>. QED
    BY <1>14, <1>d, <1>o, <2>1, QuietStep DEF Remove, clientVars
<1>15. CASE Store(pr)
  <2>1. proc[pr].path \in Paths /\ proc[pr].time \in Times
    BY <1>15, <1>c DEF Store, At, ProcType, SessionInv, Stamped, Session
  <2>2. UNCHANGED <<known, txId, local, dropped>>
    BY <1>15, <1>d DEF Store, clientVars
  <2>3. proc'[pr].answer = proc[pr].answer /\ proc'[pr].step # "unlist"
    <3>1. proc[pr].answer = NoLists /\ proc[pr].step \in {"store", "push"}
      BY <1>15, <1>n DEF Store, At
    <3>2. Resume(pr) \/ Goto(pr, "keep") \/ UNCHANGED proc
      BY <1>15 DEF Store, Ends
    <3>3. CASE Resume(pr)
      BY <1>i, <3>1, <3>3, IdleFields
    <3>4. CASE Goto(pr, "keep") \/ UNCHANGED proc
      BY <1>i, <3>1, <3>4
    <3>. QED
      BY <3>2, <3>3, <3>4
  <2>4. CASE UNCHANGED <<mts, noted>>
    BY <1>o, <2>2, <2>3, <2>4, QuietStep
  <2>5. CASE doStoreMetaTimes(proc[pr].path, mts[proc[pr].path] \union {proc[pr].time})
    <3>1. mts[proc[pr].path] \union {proc[pr].time} \in SUBSET Times
      BY <2>1 DEF TypeOK
    <3>. QED
      BY <1>o, <2>1, <2>2, <2>3, <2>5, <3>1, ListNoted DEF SessionInv
  <2>. QED
    BY <1>15, <2>4, <2>5 DEF Store, doStoreMeta
<1>16. ASSUME NEW p \in Paths, NEW t \in Times, xRemoveMeta(pr, p, t)
       PROVE  AllAccounted' /\ UnlistedReturns'
  <2>1. mts[p] \ {t} \in SUBSET Times /\ doStoreMetaTimes(p, mts[p] \ {t})
    BY <1>16 DEF xRemoveMeta, TypeOK
  <2>2. UNCHANGED <<known, txId, local, dropped>>
    BY <1>16, <1>d DEF xRemoveMeta, clientVars
  <2>3. proc'[pr].answer = proc[pr].answer /\ (proc'[pr].step = "unlist" => proc'[pr].path = p)
    BY <1>16 DEF xRemoveMeta, At, TypeOK
  <2>. QED
    BY <1>o, <2>1, <2>2, <2>3, ListNoted DEF SessionInv
<1>17. CASE Unlist(pr)
  <2>. DEFINE p == proc[pr].path
              t == proc[pr].time
  <2>1. UNCHANGED <<mts, known, txId, noted, dropped>> /\ At(pr, "unlist") /\ p \in Paths
    BY <1>17, <1>c, <1>d DEF Unlist, serverVars, ProcType
  <2>2. proc'[pr].step = "remove" /\ \A q \in Processes : proc'[q].answer = proc[q].answer
    BY <1>17, <1>i, <1>o DEF Unlist
  <2>3. \A cl \in Clients, p2 \in Paths : \A t2 :
           Returning(cl, p2, t2) => Returning(cl, p2, t2)'
    BY <2>1, <2>2 DEF Returning, Pending, client
  <2>4. \A cl \in known \ dropped, p2 \in Paths :
           Held(local[cl][p2]) \ (IF cl = client(pr) /\ p2 = p THEN {t} ELSE {})
              \subseteq Held(local'[cl][p2])
    <3>1. Held(copy[pr][p]) \ {t} \in SUBSET Times
      BY <1>c, <2>1, ListTypes
    <3>2. Save(pr, [copy[pr] EXCEPT ![p] = Held(copy[pr][p]) \ {t}]) /\ proc[pr].step \in Session
      BY <1>17 DEF Unlist, At, Session
    <3>. HIDE DEF p, t
    <3>3. client(pr) \notin dropped =>
             /\ copy[pr] = local[client(pr)]
             /\ Held(local'[client(pr)][p]) = Held(copy[pr][p]) \ {t}
      BY <1>v, <2>1, <3>1, <3>2
    <3>4. \A cl \in known \ dropped, p2 \in Paths :
             cl # client(pr) \/ p2 # p => local'[cl][p2] = local[cl][p2]
      BY <1>v, <2>1, <3>1, <3>2
    <3>. QED
      BY <3>3, <3>4
  <2>5. AllAccounted'
    <3>. SUFFICES ASSUME NEW cl \in known \ dropped, NEW p2 \in Paths, NEW t2 \in mts[p2]
                  PROVE  Accounted(cl, p2, t2)'
      BY <2>1 DEF AllAccounted
    <3>1. Accounted(cl, p2, t2) /\ cl \in Clients
      BY DEF AllAccounted, TypeOK
    <3>2. CASE cl = client(pr) /\ p2 = p /\ t2 = t
      BY <2>1, <2>3, <3>1, <3>2 DEF UnlistedReturns, Accounted
    <3>3. CASE ~(cl = client(pr) /\ p2 = p /\ t2 = t)
      BY <2>3, <2>4, <3>1, <3>3 DEF Accounted
    <3>. QED
      BY <3>2, <3>3
  <2>6. UnlistedReturns'
    <3>1. \A q \in Processes, p2 \in Paths :
             /\ Answered(q, p2)' = Answered(q, p2)
             /\ Pending(client(q), p2)' = Pending(client(q), p2)
      BY <2>1, <2>2 DEF Answered, Pending, client
    <3>. QED
      BY <1>o, <2>1, <2>2, <3>1, ReturnsKept
  <2>. QED
    BY <2>5, <2>6
<1>. QED
  BY <1>2, <1>3, <1>4, <1>5, <1>6, <1>7, <1>8, <1>9, <1>10, <1>11, <1>12, <1>13, <1>14, <1>15,
     <1>16, <1>17, <1>18 DEF OpenStep, WorkStep

----------------------------------------------------------------------------
(* The theorems *)

\* The inductive invariant: what each part needs of the others.
THEOREM ClientIndexInvariant == Spec => []IInv
<1>1. Init => IInv
  <2>. SUFFICES ASSUME Init PROVE IInv
    OBVIOUS
  <2>1. mts \in [Paths -> SUBSET Times]
    BY PriorBounded, BoundsNatural DEF Init, Times
  <2>2. txId \in [Clients -> Txs] /\ noted \in [Clients -> [Txs -> Lists]]
    <3>1. \A cl \in Clients : 0 \in Txs
      BY BoundsNatural DEF Txs
    <3>. QED
      BY <3>1, ListTypes DEF Init
  <2>3. TypeOK
    BY <2>1, <2>2, PriorBounded, BoundsNatural, ListTypes, IdleTypes DEF Init, TypeOK, ProcType
  <2>4. SessionInv
    BY IdleFields DEF Init, SessionInv, Stamped, AnswersHeld, AnsweredKnown, OneOpened,
                      SessionLocked, CopySaved, RacedDropped, Opened, At, Session
  <2>5. TwoTransactions /\ UnlistedReturns /\ AllAccounted
    BY IdleFields DEF Init, TwoTransactions, UnlistedReturns, AllAccounted, At
  <2>. QED
    BY <2>3, <2>4, <2>5 DEF IInv, SessionInv
<1>2. IInv /\ [Next]_vars => IInv'
  <2>. SUFFICES ASSUME IInv, [Next]_vars PROVE IInv'
    OBVIOUS
  <2>1. TypeOK'
    BY TypeStep DEF IInv
  <2>2. SessionInv /\ SessionInv'
    BY SessionStep DEF IInv, SessionInv
  <2>3. TwoTransactions'
    BY TransactionsStep DEF IInv
  <2>4. AllAccounted' /\ UnlistedReturns'
    BY <2>2, AccountedStep DEF IInv
  <2>. QED
    BY <2>1, <2>2, <2>3, <2>4 DEF IInv, SessionInv
<1>. QED
  BY <1>1, <1>2, PTL DEF Spec

\* Every variable keeps its type.
THEOREM ClientIndexTypeOK == Spec => []TypeOK
<1>1. IInv => TypeOK
  BY DEF IInv
<1>. QED
  BY <1>1, ClientIndexInvariant, PTL

\* At most one process of a client works with its index, unless one loaded the
\* file between another's loading and locking it.
THEOREM ClientIndexOneSession == Spec => []OneSession
<1>1. IInv => OneSession
  BY DEF IInv, OneOpened, OneSession, Opened
<1>. QED
  BY <1>1, ClientIndexInvariant, PTL

\* The server keeps two transactions of each client at most, once an update of
\* it is stored.
THEOREM ClientIndexTwoTransactions == Spec => []TwoTransactions
<1>1. IInv => TwoTransactions
  BY DEF IInv
<1>. QED
  BY <1>1, ClientIndexInvariant, PTL

\* Between the server and a client no change is forgotten, until an answer is
\* dropped, an update not stored or the client's index opened twice at once.
THEOREM ClientIndexChangesAccounted == Spec => []ChangesAccounted
<1>1. IInv => ChangesAccounted
  <2>. SUFFICES ASSUME AllAccounted, NEW cl \in known \ dropped, NEW p \in Paths,
                       NEW t \in mts[p]
                PROVE  t \in Held(local[cl][p]) \union InFlight(cl, p) \union Pending(cl, p)
    BY DEF IInv, ChangesAccounted
  <2>1. Accounted(cl, p, t)
    BY DEF AllAccounted
  <2>2. (\E q \in Processes : client(q) = cl /\ t \in Held(proc[q].answer[p]))
           => t \in InFlight(cl, p)
    BY DEF InFlight
  <2>. QED
    BY <2>1, <2>2 DEF Accounted, Returning
<1>. QED
  BY <1>1, ClientIndexInvariant, PTL
=============================================================================
