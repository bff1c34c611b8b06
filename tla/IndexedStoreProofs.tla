------------------------- MODULE IndexedStoreProofs -------------------------
(***************************************************************************)
(* What TLAPS proves of the metadata of an object store and of its index,  *)
(* for any entries, goroutines, uses and bounds.                           *)
(*                                                                         *)
(* Some properties need that goroutines do not disturb each other the way  *)
(* the code allows: a removal runs alone, and an index that does not list  *)
(* what the storage holds is used by one goroutine.                        *)
(***************************************************************************)
EXTENDS IndexedStore, FiniteSetTheorems, WellFoundedInduction, TLAPS

Alone == \E th \in Threads : use.threads = {th}

Undisturbed == Alone \/ "remove" \notin use.ops

-----------------------------------------------------------------------------
(* The inductive invariant                                                 *)

Writing(th) == call[th].step \in {"index", "create", "write"}
Loading(th) == call[th].step \in {"load", "fetch", "keep"}

\* Nobody works without a process, nor out of the use; what a call does is a
\* part of its operation, and it does it with what it needs.
RestingAt(th) ==
    /\ call[th].step # "idle" => up /\ th \in use.threads /\ call[th].op \in use.ops
    /\ call[th].step \in {"stamp", "index", "create", "write"} => call[th].op = "write"
    /\ call[th].step \in {"select", "unindex", "delete"} => call[th].op = "remove"
    /\ call[th].step \in {"fill", "fetch", "keep"} => call[th].todo # {}
    /\ call[th].step = "fill" => call[th].todo \subseteq call[th].seen
    /\ Writing(th) => call[th].time \in 1 .. clock

\* Without an index nothing is listed. While the index is rebuilt nobody works.
Resting ==
    /\ \A th \in Threads : RestingAt(th)
    /\ rebuild # "none" => up /\ kind = "bdb" /\ \A th \in Threads : call[th].step = "idle"
    /\ kind = "no" => imts = NoTimes /\ imeta = NoMetas

\* The clock is ahead of every version.
Clocked ==
    \A p \in Paths : stored[p] \union gone[p] \union failed[p] \subseteq 1 .. clock

\* A version that is being written is new: nobody else writes it, it is not
\* whole nor removed, and it has a file once that is created.
FreshAt(th) ==
    LET p == call[th].path  t == call[th].time IN
    /\ Writing(th) => t \notin whole[p] \union gone[p] /\ (Alone => t = clock)
    /\ call[th].step \in {"index", "create"} => t \notin stored[p]
    /\ call[th].step = "write" => t \in stored[p]

Fresh ==
    /\ \A th \in Threads : FreshAt(th)
    /\ \A th, other \in Threads : Writing(th) /\ Writing(other) /\ th # other =>
          call[th].time # call[other].time

\* What was acknowledged is in the storage.
Stored ==
    \A p \in Paths : acked[p] \subseteq whole[p] /\ whole[p] \subseteq stored[p]

\* Where the versions that the index lists come from.
Backed(p) ==
    stored[p] \union failed[p] \union
        {call[th].time : th \in {h \in Threads : call[h].path = p /\ call[h].step = "create"}}

\* What a call read in the index or in the storage has the same origin, and was
\* not removed.
ReadAt(th) ==
    LET p == call[th].path IN
    /\ call[th].step = "fill" => call[th].seen \subseteq Backed(p) \ gone[p]
    /\ Loading(th) => call[th].todo \subseteq Backed(p) \ gone[p]

\* What is being removed is not listed any more.
RemovedAt(th) ==
    LET p == call[th].path  t == call[th].time IN
    call[th].step = "delete" =>
        /\ t \notin acked[p] \union imeta[p]
        /\ imts[p] # NoEntry => t \notin imts[p]

\* What was removed is nowhere.
Gone ==
    /\ \A p \in Paths : gone[p] \intersect (stored[p] \union imeta[p]) = {}
    /\ \A p \in Paths : imts[p] # NoEntry => gone[p] \intersect imts[p] = {}
    /\ "remove" \notin use.ops => gone = NoMetas

Core ==
    /\ Clocked /\ Fresh /\ Stored /\ ListedBacked /\ Gone
    /\ \A th \in Threads : ReadAt(th) /\ RemovedAt(th)

\* With a bdb index: what was acknowledged is listed and its metadata indexed,
\* and the versions listed without metadata are older.
Indexed ==
    kind = "bdb" => \A p \in Paths :
        /\ acked[p] \subseteq imeta[p]
        /\ imts[p] = NoEntry => acked[p] = {}
        /\ imts[p] # NoEntry =>
              /\ acked[p] \subseteq imts[p]
              /\ \A x \in imts[p] \ imeta[p], a \in acked[p] : x < a

\* Between several goroutines, none of which removes versions, every path keeps
\* a version, and a bdb index has the metadata of all it lists.
Written == ~Alone => \A p \in Paths : acked[p] # {}

Warm ==
    ~Alone /\ kind = "bdb" => \A p \in Paths :
        imts[p] # NoEntry /\ imts[p] # {} /\ imts[p] \subseteq imeta[p]

\* A memory index is never repaired, and forgets only versions older than those
\* it lists.
MemoryNewest ==
    kind = "memory" =>
        /\ ~lock
        /\ \A p \in Paths : imts[p] # NoEntry =>
              /\ imts[p] # {}
              /\ \A a \in acked[p] \ imts[p], u \in imts[p] : a < u

\* Then the storage is never asked.
WarmAt(th) ==
    kind = "bdb" /\ ~Alone =>
        /\ call[th].step \notin {"list", "fill", "fetch"}
        /\ Loading(th) => call[th].todo \subseteq imeta[call[th].path]

\* A goroutine that is alone fills the index with what the storage holds, and
\* asks the storage for what the index has not; unless it removes versions, it
\* wants the newest one only.
FillsAt(th) ==
    Alone =>
        LET p == call[th].path IN
        /\ call[th].step \in {"list", "fill"} => imts[p] = NoEntry \/ kind = "no"
        /\ call[th].step = "fill" => call[th].seen = stored[p]
        /\ Loading(th) /\ kind # "no" => imts[p] # NoEntry /\ call[th].todo \subseteq imts[p]
        /\ call[th].step = "fetch" => Oldest(call[th].todo) \notin imeta[p]
        /\ call[th].step = "fill" /\ call[th].op # "remove" =>
              \A x \in call[th].todo, u \in call[th].seen : u <= x
        /\ Loading(th) /\ kind # "no" /\ call[th].op # "remove" =>
              \A x \in call[th].todo, u \in imts[p] : u <= x

\* A version is in the index before it is in the storage.
IndexFirstAt(th) ==
    LET p == call[th].path IN
    kind # "no" /\ call[th].step \in {"create", "write"} =>
        imts[p] # NoEntry /\ call[th].time \in imts[p] \intersect imeta[p]

\* A reader has seen the versions that were acknowledged when it began.
ReadsAt(th) ==
    call[th].op = "read" =>
        /\ call[th].step # "idle" => call[th].floor \in acked[call[th].path] \union {0}
        /\ call[th].step \notin {"query", "list"} => call[th].time >= call[th].floor

Kept ==
    /\ Indexed /\ Warm /\ MemoryNewest /\ Written
    /\ \A th \in Threads : WarmAt(th) /\ FillsAt(th) /\ IndexFirstAt(th) /\ ReadsAt(th)

Careful == CarefulUse(use)

\* The inductive invariant, in three layers.
IInv ==
    /\ TypeOK /\ Resting
    /\ Undisturbed => Core
    /\ Careful => Written
    /\ Careful /\ ~emptied => Kept

-----------------------------------------------------------------------------
(* The newest version of a set, and the types                              *)

\* A set of versions that is not empty has a newest one, which Newest returns.
LEMMA NewestIs ==
    ASSUME NEW times \in SUBSET Times, times # {}
    PROVE  Newest(times) \in times /\ \A t \in times : t <= Newest(times)
<1>1. \E t \in times : \A u \in times : u <= t
  <2> DEFINE Older == {MaxTime - t : t \in times}
             Less == {ss \in Nat \X Nat : ss[1] < ss[2]}
  <2>1. \A t \in times : t \in Nat /\ MaxTime - t \in Nat
    BY TimeBound DEF Times
  <2>2. Older \subseteq Nat /\ Older # {}
    BY <2>1
  <2>3. IsWellFoundedOn(Less, Nat)
    BY NatLessThanWellFounded DEF OpToRel
  <2>4. PICK least \in Older : \A d \in Older : <<d, least>> \notin Less
    <3> HIDE DEF Older, Less
    <3> QED
      BY <2>2, <2>3, WFMin
  <2>5. \A d \in Older : ~ (d < least)
    BY <2>2, <2>4
  <2>6. PICK t \in times : least = MaxTime - t
    BY <2>4
  <2>7. ASSUME NEW u \in times PROVE u <= t
    <3>1. ~ (MaxTime - u < MaxTime - t)
      BY <2>5, <2>6
    <3>2. QED
      BY <3>1, <2>1, TimeBound
  <2>8. QED
    BY <2>7
<1>2. QED
  BY <1>1 DEF Newest

\* It has an oldest one too, which Oldest returns.
LEMMA OldestIs ==
    ASSUME NEW times \in SUBSET Times, times # {}
    PROVE  Oldest(times) \in times /\ \A t \in times : Oldest(times) <= t
<1>1. \E t \in times : \A u \in times : t <= u
  <2> DEFINE Less == {ss \in Nat \X Nat : ss[1] < ss[2]}
  <2>1. times \subseteq Nat
    BY DEF Times
  <2>2. IsWellFoundedOn(Less, Nat)
    BY NatLessThanWellFounded DEF OpToRel
  <2>3. PICK t \in times : \A u \in times : <<u, t>> \notin Less
    <3> HIDE DEF Less
    <3> QED
      BY <2>1, <2>2, WFMin
  <2>4. ASSUME NEW u \in times PROVE t <= u
    <3>1. t \in Nat /\ u \in Nat /\ ~ (u < t)
      BY <2>1, <2>3
    <3>2. QED
      BY <3>1
  <2>5. QED
    BY <2>4
<1>2. QED
  BY <1>1 DEF Oldest

\* The newest version of any set, 0 of none, is a time.
LEMMA NewestType ==
    ASSUME NEW times \in SUBSET Times
    PROVE  Newest(times) \in 0 .. MaxTime /\ (times # {} => Newest(times) \in 1 .. MaxTime)
<1>1. CASE times = {}
  BY <1>1, TimeBound DEF Newest
<1>2. CASE times # {}
  <2>1. Newest(times) \in times
    BY <1>2, NewestIs
  <2>2. Newest(times) \in 1 .. MaxTime
    BY <2>1 DEF Times
  <2>3. QED
    BY <2>2, TimeBound
<1>3. QED
  BY <1>1, <1>2

LEMMA IdleType ==
    /\ Idle \in Call
    /\ Idle.step = "idle" /\ Idle.op = "none" /\ Idle.todo = {} /\ Idle.seen = {}
    /\ Idle.time = 0 /\ Idle.floor = 0
<1>1. (CHOOSE p \in Paths : TRUE) \in Paths
  BY PathsExist
<1>2. 0 \in 0 .. MaxTime
  BY TimeBound
<1>3. QED
  BY <1>1, <1>2 DEF Idle, Call, Steps

\* A call keeps its type when it goes on, ends, fails, or takes what it read.
LEMMA GotoType ==
    ASSUME call \in [Threads -> Call], NEW th \in Threads, NEW step \in Steps, Goto(th, step)
    PROVE  call' \in [Threads -> Call]
BY DEF Goto, Call

LEMMA FinishType ==
    ASSUME call \in [Threads -> Call], NEW th \in Threads, Finish(th)
    PROVE  call' \in [Threads -> Call]
BY IdleType DEF Finish

LEMMA FailType ==
    ASSUME call \in [Threads -> Call], NEW th \in Threads, Fail(th)
    PROVE  call' \in [Threads -> Call]
<1>1. CASE call[th].op = "write"
  BY <1>1 DEF Fail, Call, Steps
<1>2. CASE call[th].op # "write"
  BY <1>2, FinishType DEF Fail
<1>3. QED
  BY <1>1, <1>2

LEMMA ChooseType ==
    ASSUME call \in [Threads -> Call], NEW th \in Threads, NEW times \in SUBSET Times,
           NEW step \in Steps, Choose(th, times, step)
    PROVE  call' \in [Threads -> Call]
<1>1. CASE times = {} /\ call[th].op # "read"
  BY <1>1, FailType DEF Choose
<1>2. CASE ~ (times = {} /\ call[th].op # "read")
  <2>1. Wanted(th, times) \in SUBSET Times \/ times = {}
    BY NewestType DEF Wanted, Times
  <2>2. Newest(times) \in 0 .. MaxTime /\ 0 \in 0 .. MaxTime
    BY NewestType, TimeBound
  <2> DEFINE todo == IF times = {} THEN {} ELSE Wanted(th, times)
             time == IF call[th].op = "read" THEN Newest(times) ELSE 0
             next == IF times = {} THEN "idle" ELSE step
  <2>3. todo \in SUBSET Times /\ time \in 0 .. MaxTime /\ next \in Steps
    BY <2>1, <2>2 DEF Steps
  <2>4. call' = [call EXCEPT ![th].step = next, ![th].seen = times,
                             ![th].todo = todo, ![th].time = time]
    BY <1>2 DEF Choose
  <2> HIDE DEF todo, time, next
  <2> DEFINE c == [call[th] EXCEPT !.step = next, !.seen = times, !.todo = todo, !.time = time]
  <2>5. c \in Call
    BY <2>3 DEF Call
  <2>6. call' = [call EXCEPT ![th] = c]
    BY <2>4
  <2> HIDE DEF c
  <2>7. QED
    BY <2>5, <2>6
<1>3. QED
  BY <1>1, <1>2

\* The index keeps its types whatever is stored in it or removed from it.
LEMMA IndexTypes ==
    ASSUME TypeOK, NEW p \in Paths, NEW t \in Times, NEW times \in SUBSET Times,
           storeMeta(p, t) \/ storeMetaTimes(p, times) \/ (hasMeta(p, t) /\ removeMeta(p, t))
    PROVE  imts' \in [Paths -> (SUBSET Times) \union {NoEntry}] /\ imeta' \in [Paths -> SUBSET Times]
<1>1. CASE storeMeta(p, t)
  <2>1. ((IF imts[p] = NoEntry THEN {} ELSE imts[p]) \union {t}) \in SUBSET Times
    BY DEF TypeOK
  <2>2. QED
    BY <1>1, <2>1 DEF storeMeta, TypeOK, indexVars
<1>2. CASE storeMetaTimes(p, times)
  BY <1>2 DEF storeMetaTimes, TypeOK
<1>3. CASE hasMeta(p, t) /\ removeMeta(p, t)
  <2> DEFINE kept == IF kind = "memory" /\ imts[p] = {t} THEN NoEntry ELSE imts[p] \ {t}
  <2>1. CASE kind = "no"
    BY <1>3, <2>1 DEF removeMeta, TypeOK, indexVars
  <2>2. CASE kind # "no"
    <3>1. imts' = [imts EXCEPT ![p] = kept] /\ imeta' = [imeta EXCEPT ![p] = @ \ {t}]
      BY <1>3, <2>2 DEF removeMeta
    <3>2. kept \in (SUBSET Times) \union {NoEntry}
      BY <1>3, <2>2 DEF hasMeta, TypeOK
    <3>3. QED
      BY <3>1, <3>2 DEF TypeOK
  <2>3. QED
    BY <2>1, <2>2
<1>4. QED
  BY <1>1, <1>2, <1>3

\* The types hold to begin with.
LEMMA InitTypeOK == Init => TypeOK
<1> SUFFICES ASSUME Init PROVE TypeOK
  OBVIOUS
<1>1. stored \in [Paths -> SUBSET Times]
  BY UsesComplete, TimeBound DEF Init, Times
<1>2. UNION {stored[p] : p \in Paths} \in SUBSET Times
  BY <1>1
<1>3. clock \in 0 .. MaxTime
  BY <1>2, NewestType DEF Init
<1>4. imts \in [Paths -> (SUBSET Times) \union {NoEntry}] /\ imeta \in [Paths -> SUBSET Times]
  BY <1>1 DEF Init, NoTimes, NoMetas
<1>5. call \in [Threads -> Call]
  BY IdleType DEF Init
<1>6. QED
  BY <1>1, <1>3, <1>4, <1>5 DEF Init, TypeOK, NoMetas, Phases

\* One step of a goroutine keeps the types.
LEMMA ThreadTypeOK ==
    ASSUME TypeOK, Resting, NEW th \in use.threads,
           (\E op \in use.ops, p \in Paths : Begin(th, op, p))
               \/ ReadStep(th) \/ WriteStep(th) \/ RemoveStep(th)
    PROVE  TypeOK'
<1> DEFINE c == call[th]
<1>1. th \in Threads /\ call \in [Threads -> Call] /\ c \in Call /\ Call' = Call
  <2>1. UNCHANGED use
    BY DEF ReadStep, WriteStep, RemoveStep, Begin, QueryTimes, ListStorage, ListFails, FillIndex,
           LoadMeta, FetchMeta, KeepMeta, Loaded, Stamp, IndexMeta, CreateFile, WriteFile,
           StoreFails, SelectPeriod, xRemoveMeta, DeleteFile, DeleteFails, procVars
  <2>2. QED
    BY <2>1, UsesComplete, SMTT(40) DEF TypeOK, Call
<1>2. /\ c.path \in Paths /\ c.seen \in SUBSET Times /\ c.todo \in SUBSET Times
      /\ c.time \in 0 .. MaxTime
  BY <1>1 DEF Call
<1>3. CASE \E op \in use.ops, p \in Paths : Begin(th, op, p)
  <2>1. PICK op \in use.ops, p \in Paths : Begin(th, op, p)
    BY <1>3
  <2> DEFINE d == [Idle EXCEPT !.step = "query", !.op = op, !.path = p,
                               !.floor = Newest(acked[p])]
  <2>2. Newest(acked[p]) \in 0 .. MaxTime
    BY NewestType DEF TypeOK
  <2>3. d \in Call
    BY <2>2, IdleType DEF Call, Steps
  <2>4. call' = [call EXCEPT ![th] = d]
    BY <2>1 DEF Begin
  <2> HIDE DEF d
  <2>5. call' \in [Threads -> Call]
    BY <1>1, <2>3, <2>4
  <2>6. QED
    BY <2>1, <2>5, <1>1 DEF Begin, TypeOK, procVars, storeVars, indexVars, histVars
<1>4. CASE QueryTimes(th) \/ ListStorage(th) \/ ListFails(th) \/ LoadMeta(th) \/ FetchMeta(th)
             \/ Loaded(th)
  <2>1. call' \in [Threads -> Call]
    <3>1. CASE QueryTimes(th)
      BY <3>1, <1>1, <1>2, GotoType, ChooseType DEF QueryTimes, TypeOK, Steps
    <3>2. CASE ListStorage(th)
      BY <3>2, <1>1, <1>2, ChooseType DEF ListStorage, TypeOK, Steps
    <3>3. CASE ListFails(th)
      BY <3>3, <1>1, FailType DEF ListFails
    <3>4. CASE LoadMeta(th)
      BY <3>4, <1>1, GotoType DEF LoadMeta, Steps
    <3>5. CASE FetchMeta(th)
      BY <3>5, <1>1, GotoType, FailType DEF FetchMeta, Steps
    <3>6. CASE Loaded(th)
      <4>1. c.op \in {"read", "write", "remove"}
        BY <3>6, <1>1, UsesComplete DEF Loaded, At, Resting, RestingAt, TypeOK
      <4>2. \E step \in Steps : Goto(th, step)
        BY <3>6, <4>1 DEF Loaded, Steps
      <4>3. QED
        BY <4>2, <1>1, GotoType
    <3>7. QED
      BY <1>4, <3>1, <3>2, <3>3, <3>4, <3>5, <3>6
  <2>2. UNCHANGED <<procVars, storeVars, indexVars, clock, histVars>>
    BY <1>4 DEF QueryTimes, ListStorage, ListFails, LoadMeta, FetchMeta, Loaded
  <2>3. QED
    BY <2>1, <2>2, <1>1 DEF TypeOK, procVars, storeVars, indexVars, histVars

<1>5. CASE FillIndex(th)
  <2>1. call' \in [Threads -> Call]
    BY <1>5, <1>1, GotoType DEF FillIndex, Steps
  <2>2. QED
    BY <1>5, <2>1, <1>1, <1>2, TimeBound, IndexTypes
    DEF FillIndex, TypeOK, procVars, storeVars, histVars, storeMetaTimes
<1>6. CASE KeepMeta(th)
  <2>1. Oldest(c.todo) \in Times
    BY <1>6, <1>1, <1>2, OldestIs DEF KeepMeta, At, Resting, RestingAt, Times
  <2> DEFINE d == [c EXCEPT !.step = "load", !.todo = @ \ {Oldest(c.todo)}]
  <2>2. d \in Call /\ call' = [call EXCEPT ![th] = d]
    BY <1>6, <1>1, <1>2 DEF KeepMeta, Call, Steps
  <2> HIDE DEF d
  <2>3. call' \in [Threads -> Call]
    BY <2>2, <1>1
  <2>4. imts' \in [Paths -> (SUBSET Times) \union {NoEntry}] /\ imeta' \in [Paths -> SUBSET Times]
    BY <1>6, <1>2, <2>1, IndexTypes DEF KeepMeta
  <2>5. QED
    BY <1>6, <2>3, <2>4, <1>1 DEF KeepMeta, TypeOK, procVars, storeVars, histVars
<1>7. CASE Stamp(th)
  <2>1. clock' \in 0 .. MaxTime
    BY <1>7, UsesComplete, TimeBound DEF Stamp, TypeOK
  <2> DEFINE d == [c EXCEPT !.step = "index", !.time = clock']
  <2>2. d \in Call /\ call' = [call EXCEPT ![th] = d]
    BY <1>7, <1>1, <1>2, <2>1 DEF Stamp, Call, Steps
  <2> HIDE DEF d
  <2>3. call' \in [Threads -> Call]
    BY <2>2, <1>1
  <2>4. QED
    BY <1>7, <2>1, <2>3, <1>1 DEF Stamp, TypeOK, procVars, storeVars, indexVars, histVars
<1>8. CASE IndexMeta(th)
  <2>1. c.time \in Times
    BY <1>8, <1>1, TimeBound DEF IndexMeta, At, Resting, RestingAt, Writing, TypeOK, Times
  <2>2. call' \in [Threads -> Call]
    BY <1>8, <1>1, GotoType DEF IndexMeta, Steps
  <2>3. imts' \in [Paths -> (SUBSET Times) \union {NoEntry}] /\ imeta' \in [Paths -> SUBSET Times]
    BY <1>8, <1>2, <2>1, IndexTypes DEF IndexMeta
  <2>4. QED
    BY <1>8, <2>2, <2>3, <1>1 DEF IndexMeta, TypeOK, procVars, storeVars, histVars
<1>9. CASE CreateFile(th) \/ WriteFile(th) \/ StoreFails(th)
  <2>1. c.time \in Times
    BY <1>9, <1>1, TimeBound
    DEF CreateFile, WriteFile, StoreFails, At, Resting, RestingAt, Writing, TypeOK, Times
  <2>2. call' \in [Threads -> Call]
    BY <1>9, <1>1, GotoType, FinishType DEF CreateFile, WriteFile, StoreFails, Steps
  <2>3. CASE CreateFile(th)
    BY <2>3, <2>1, <2>2, <1>1 DEF CreateFile, TypeOK, procVars, indexVars, histVars
  <2>4. CASE WriteFile(th)
    BY <2>4, <2>1, <2>2, <1>1 DEF WriteFile, TypeOK, procVars, indexVars
  <2>5. CASE StoreFails(th)
    BY <2>5, <2>1, <2>2, <1>1 DEF StoreFails, TypeOK, procVars, indexVars
  <2>6. QED
    BY <1>9, <2>3, <2>4, <2>5
<1>10. CASE SelectPeriod(th)
  <2>1. PICK period \in SUBSET c.seen :
          IF period = {} THEN Finish(th)
          ELSE call' = [call EXCEPT ![th].step = "unindex", ![th].todo = period]
    BY <1>10 DEF SelectPeriod
  <2> DEFINE d == [c EXCEPT !.step = "unindex", !.todo = period]
  <2>2. d \in Call
    BY <1>1, <1>2 DEF Call, Steps
  <2>3. Finish(th) \/ call' = [call EXCEPT ![th] = d]
    BY <2>1
  <2> HIDE DEF d
  <2>4. call' \in [Threads -> Call]
    BY <2>2, <2>3, <1>1, FinishType
  <2>5. QED
    BY <1>10, <2>4, <1>1 DEF SelectPeriod, TypeOK, procVars, storeVars, indexVars, histVars
<1>11. CASE xRemoveMeta(th)
  <2>1. CASE c.todo = {}
    BY <1>11, <2>1, <1>1, GotoType
    DEF xRemoveMeta, TypeOK, procVars, storeVars, indexVars, Steps
  <2>2. CASE c.todo # {}
    <3>1. PICK t \in c.todo :
            /\ acked' = [acked EXCEPT ![c.path] = @ \ {t}]
            /\ IF hasMeta(c.path, t)
               THEN /\ removeMeta(c.path, t)
                    /\ call' = [call EXCEPT ![th].step = "delete", ![th].time = t]
               ELSE Finish(th) /\ UNCHANGED indexVars
      BY <1>11, <2>2 DEF xRemoveMeta
    <3>2. t \in Times /\ t \in 0 .. MaxTime
      BY <1>2, TimeBound DEF Times
    <3> DEFINE d == [c EXCEPT !.step = "delete", !.time = t]
    <3>3. d \in Call
      BY <1>1, <3>2 DEF Call, Steps
    <3>4. Finish(th) \/ call' = [call EXCEPT ![th] = d]
      BY <3>1
    <3> HIDE DEF d
    <3>5. call' \in [Threads -> Call]
      BY <3>3, <3>4, <1>1, FinishType
    <3>6. imts' \in [Paths -> (SUBSET Times) \union {NoEntry}] /\ imeta' \in [Paths -> SUBSET Times]
      BY <3>1, <3>2, <1>2, IndexTypes DEF TypeOK, indexVars
    <3>7. QED
      BY <1>11, <3>1, <3>5, <3>6, <1>1 DEF xRemoveMeta, TypeOK, procVars, storeVars
  <2>3. QED
    BY <2>1, <2>2
<1>12. CASE DeleteFile(th)
  <2> DEFINE d == [c EXCEPT !.step = "unindex", !.todo = @ \ {c.time}]
  <2>1. d \in Call
    BY <1>1, <1>2 DEF Call, Steps
  <2>2. Finish(th) \/ call' = [call EXCEPT ![th] = d]
    BY <1>12 DEF DeleteFile
  <2> HIDE DEF d
  <2>3. call' \in [Threads -> Call]
    BY <2>1, <2>2, <1>1, FinishType
  <2>4. /\ stored' \in [Paths -> SUBSET Times] /\ whole' \in [Paths -> SUBSET Times]
        /\ gone' \in [Paths -> SUBSET Times]
    BY <1>12 DEF DeleteFile, TypeOK, storeVars
  <2>5. QED
    BY <1>12, <2>3, <2>4, <1>1 DEF DeleteFile, TypeOK, procVars, indexVars
<1>13. CASE DeleteFails(th)
  <2>1. call' \in [Threads -> Call]
    BY <1>13, <1>1, FinishType DEF DeleteFails
  <2>2. QED
    BY <1>13, <2>1, <1>1 DEF DeleteFails, TypeOK, procVars, storeVars, indexVars, histVars
<1>14. QED
  BY <1>3, <1>4, <1>5, <1>6, <1>7, <1>8, <1>9, <1>10, <1>11, <1>12, <1>13
  DEF ReadStep, WriteStep, RemoveStep

\* A step of the process keeps the types.
LEMMA ProcessTypeOK ==
    ASSUME TypeOK, Resting,
           (\E unlock, autoRepair \in BOOLEAN : Open(unlock, autoRepair))
               \/ Close \/ Crash \/ Reindex \/ ReindexCloses
    PROVE  TypeOK'
<1>1. CASE \E unlock, autoRepair \in BOOLEAN : Open(unlock, autoRepair)
  <2>1. Call' = Call
    BY <1>1 DEF Open, Call
  <2>2. imts' \in [Paths -> (SUBSET Times) \union {NoEntry}]
    BY <1>1 DEF Open, doRepair, TypeOK
  <2>3. QED
    BY <1>1, <2>1, <2>2 DEF Open, TypeOK, storeVars, histVars
<1>2. CASE Close \/ Crash \/ ReindexCloses
  <2>1. Call' = Call /\ UNCHANGED <<use, kind, storeVars, clock, acked, gone>>
    BY <1>2 DEF Close, Crash, ReindexCloses, Call, histVars
  <2>2. call' \in [Threads -> Call] /\ up' \in BOOLEAN /\ rebuild' \in Phases
    BY <1>2, IdleType DEF Close, Crash, ReindexCloses, EndProcess, Phases
  <2>3. failed' \in [Paths -> SUBSET Times]
    <3>1. ASSUME NEW th \in Threads, call[th].step \in {"index", "create", "write"}
          PROVE  call[th].time \in Times
      BY <3>1, TimeBound DEF Resting, RestingAt, Writing, TypeOK, Times
    <3>2. CASE Crash
      BY <3>1, <3>2 DEF Crash, TypeOK
    <3>3. CASE ~Crash
      BY <1>2, <3>3 DEF Close, ReindexCloses, histVars, TypeOK
    <3>4. QED
      BY <3>2, <3>3
  <2>4. lock' \in BOOLEAN
    BY <1>2 DEF Close, Crash, ReindexCloses, TypeOK
  <2>5. LeaveIndex \/ LeaveFile \/ UNCHANGED <<indexVars, emptied>>
    BY <1>2 DEF Close, Crash, ReindexCloses
  <2>6. /\ imts' \in [Paths -> (SUBSET Times) \union {NoEntry}]
        /\ imeta' \in [Paths -> SUBSET Times] /\ emptied' \in BOOLEAN
    BY <2>5 DEF LeaveIndex, LeaveFile, NoTimes, NoMetas, indexVars, TypeOK
  <2>7. QED
    BY <2>1, <2>2, <2>3, <2>4, <2>6 DEF TypeOK, storeVars
<1>3. CASE Reindex
  <2>1. rebuild' \in Phases /\ lock' \in BOOLEAN
    BY <1>3 DEF Reindex, Following, Phases, TypeOK
  <2>2. QED
    BY <1>3, <2>1 DEF Reindex, TypeOK, Call, storeVars, histVars, indexVars
<1>4. QED
  BY <1>1, <1>2, <1>3

\* A goroutine's step leaves the other goroutines, the process and the use alone.
LEMMA ThreadAlters ==
    ASSUME TypeOK, NEW th \in use.threads,
           (\E op \in use.ops, p \in Paths : Begin(th, op, p))
               \/ ReadStep(th) \/ WriteStep(th) \/ RemoveStep(th)
    PROVE  /\ th \in Threads
           /\ up /\ UNCHANGED procVars
           /\ clock' \in {clock, clock + 1}
           /\ \A other \in Threads : other # th => call'[other] = call[other]
<1>1. th \in Threads
  BY UsesComplete DEF TypeOK
<1>2. CASE \E op \in use.ops, p \in Paths : Begin(th, op, p)
  BY <1>1, <1>2 DEF Begin, At, TypeOK
<1>3. CASE ReadStep(th)
  BY <1>1, <1>3 DEF ReadStep, QueryTimes, ListStorage, ListFails, FillIndex, LoadMeta, FetchMeta,
       KeepMeta, Loaded, Choose, Fail, Goto, Finish, At, TypeOK
<1>4. CASE WriteStep(th)
  BY <1>1, <1>4 DEF WriteStep, Stamp, IndexMeta, CreateFile, WriteFile, StoreFails, Goto, Finish,
       At, TypeOK
<1>5. CASE RemoveStep(th)
  BY <1>1, <1>5 DEF RemoveStep, SelectPeriod, xRemoveMeta, DeleteFile, DeleteFails, Goto, Finish, At, TypeOK
<1>6. QED
  BY <1>2, <1>3, <1>4, <1>5, <1>1

\* What a call wants of the versions it read.
LEMMA WantedIs ==
    ASSUME NEW th, NEW times \in SUBSET Times, times # {}
    PROVE  /\ Wanted(th, times) \subseteq times
           /\ Newest(times) \in Wanted(th, times)
           /\ Newest(times) \in times
           /\ call[th].op # "remove" => \A x \in Wanted(th, times), u \in times : u <= x
BY NewestIs DEF Wanted

\* What is left of a call that read something, and of a call that read nothing.
LEMMA ChooseIs ==
    ASSUME call \in [Threads -> Call], NEW th \in Threads, NEW times \in SUBSET Times,
           NEW step \in Steps, Choose(th, times, step)
    PROVE  /\ times # {} =>
                /\ call'[th].step = step /\ call'[th].seen = times
                /\ call'[th].todo = Wanted(th, times)
                /\ call'[th].time = IF call[th].op = "read" THEN Newest(times) ELSE 0
                /\ call'[th].op = call[th].op /\ call'[th].path = call[th].path
                /\ call'[th].floor = call[th].floor
           /\ times = {} => call'[th].todo = {}
           /\ times = {} => \/ call'[th] = Idle
                            \/ /\ call'[th].step = "stamp"
                               /\ call'[th].op = "write" /\ call[th].op = "write"
                               /\ call'[th].path = call[th].path
                            \/ /\ call'[th].step = "idle" /\ call'[th].time = 0
                               /\ call'[th].op = "read" /\ call[th].op = "read"
                               /\ call'[th].path = call[th].path
                               /\ call'[th].floor = call[th].floor
<1>1. CASE times # {}
  <2> DEFINE time == IF call[th].op = "read" THEN Newest(times) ELSE 0
  <2>1. call' = [call EXCEPT ![th].step = step, ![th].seen = times,
                             ![th].todo = Wanted(th, times), ![th].time = time]
    BY <1>1 DEF Choose
  <2> HIDE DEF time
  <2>2. /\ call'[th].step = step /\ call'[th].seen = times /\ call'[th].todo = Wanted(th, times)
        /\ call'[th].time = time /\ call'[th].op = call[th].op
        /\ call'[th].path = call[th].path /\ call'[th].floor = call[th].floor
    BY <2>1 DEF Call
  <2>3. QED
    BY <1>1, <2>2 DEF time
<1>2. CASE times = {} /\ call[th].op # "read"
  <2>1. Fail(th)
    BY <1>2 DEF Choose
  <2>2. CASE call[th].op = "write"
    BY <1>2, <2>1, <2>2 DEF Fail, Call
  <2>3. CASE call[th].op # "write"
    BY <1>2, <2>1, <2>3, IdleType DEF Fail, Finish
  <2>4. QED
    BY <2>2, <2>3
<1>3. CASE times = {} /\ call[th].op = "read"
  <2>1. call' = [call EXCEPT ![th].step = "idle", ![th].seen = {}, ![th].todo = {}, ![th].time = 0]
    BY <1>3 DEF Choose, Newest
  <2>2. QED
    BY <1>3, <2>1 DEF Call
<1>4. QED
  BY <1>1, <1>2, <1>3

\* A call that fails ends, or goes on if it is a write.
LEMMA FailIs ==
    ASSUME call \in [Threads -> Call], NEW th \in Threads, Fail(th)
    PROVE  \/ call'[th] = Idle
           \/ /\ call'[th].step = "stamp" /\ call'[th].todo = {}
              /\ call'[th].op = "write" /\ call[th].op = "write"
              /\ call'[th].path = call[th].path
<1>1. CASE call[th].op = "write"
  BY <1>1 DEF Fail, Call
<1>2. CASE call[th].op # "write"
  BY <1>2 DEF Fail, Finish
<1>3. QED
  BY <1>1, <1>2

\* A call begins by asking the index.
LEMMA BeginIs ==
    ASSUME call \in [Threads -> Call], NEW th \in Threads, NEW op, NEW p, Begin(th, op, p)
    PROVE  /\ call'[th].step = "query" /\ call'[th].op = op /\ call'[th].path = p
           /\ call'[th].floor = Newest(acked[p]) /\ call'[th].todo = {}
<1> DEFINE d == [Idle EXCEPT !.step = "query", !.op = op, !.path = p, !.floor = Newest(acked[p])]
<1>1. call'[th] = d
  BY DEF Begin
<1>2. d.step = "query" /\ d.op = op /\ d.path = p /\ d.floor = Newest(acked[p]) /\ d.todo = {}
  BY DEF Idle
<1> HIDE DEF d
<1>3. QED
  BY <1>1, <1>2

\* A goroutine's step keeps what every goroutine's call relies on.
LEMMA ThreadResting ==
    ASSUME TypeOK, Resting, NEW th \in use.threads,
           (\E op \in use.ops, p \in Paths : Begin(th, op, p))
               \/ ReadStep(th) \/ WriteStep(th) \/ RemoveStep(th)
    PROVE  Resting'
<1> DEFINE c == call[th]
           d == call'[th]
<1>1. /\ th \in Threads /\ call \in [Threads -> Call] /\ c \in Call /\ clock \in Nat
      /\ up' = up /\ up /\ use' = use /\ kind' = kind /\ clock' \in {clock, clock + 1}
  BY ThreadAlters, TimeBound DEF TypeOK, procVars
<1>2. ASSUME NEW other \in Threads, other # th PROVE RestingAt(other)'
  BY <1>1, <1>2, ThreadAlters DEF Resting, RestingAt, Writing
<1>3. RestingAt(th) /\ (c.step # "idle" => c.op \in use.ops)
  BY <1>1 DEF Resting, RestingAt
<1>4. RestingAt(th)'
  <2>1. CASE \E op \in use.ops, p \in Paths : Begin(th, op, p)
    BY <2>1, <1>1, BeginIs DEF RestingAt, Writing
  <2>2. CASE QueryTimes(th)
    <3>1. CASE Goto(th, "list")
      BY <2>2, <3>1, <1>1, <1>3, SMTT(40) DEF QueryTimes, At, Goto, RestingAt, Writing, Call
    <3>2. CASE Choose(th, imts[c.path], "load") /\ imts[c.path] # NoEntry
      <4>1. imts[c.path] \in SUBSET Times
        BY <3>2, <1>1 DEF TypeOK, Call
      <4>2. QED
        BY <2>2, <3>2, <4>1, <1>1, <1>3, ChooseIs, WantedIs, IdleType
        DEF QueryTimes, At, RestingAt, Writing, Steps
    <3>3. QED
      BY <2>2, <3>1, <3>2 DEF QueryTimes
  <2>3. CASE ListStorage(th)
    <3>1. stored[c.path] \in SUBSET Times
      BY <1>1 DEF TypeOK, Call
    <3>2. QED
      BY <2>3, <3>1, <1>1, <1>3, ChooseIs, WantedIs, IdleType
      DEF ListStorage, At, RestingAt, Writing, Steps
  <2>4. CASE ListFails(th)
    BY <2>4, <1>1, <1>3, FailIs, IdleType DEF ListFails, At, RestingAt, Writing
  <2>5. CASE FillIndex(th) \/ LoadMeta(th)
    BY <2>5, <1>1, <1>3 DEF FillIndex, LoadMeta, At, Goto, RestingAt, Writing, Call
  <2>6. CASE FetchMeta(th)
    <3>1. CASE Goto(th, "keep")
      BY <2>6, <3>1, <1>1, <1>3 DEF FetchMeta, At, Goto, RestingAt, Writing, Call
    <3>2. CASE Fail(th)
      BY <2>6, <3>2, <1>1, <1>3, FailIs, IdleType DEF FetchMeta, At, RestingAt, Writing
    <3>3. QED
      BY <2>6, <3>1, <3>2 DEF FetchMeta
  <2>7. CASE KeepMeta(th)
    BY <2>7, <1>1, <1>3 DEF KeepMeta, At, RestingAt, Writing, Call
  <2>8. CASE Loaded(th)
    <3>1. c.op \in {"read", "write", "remove"}
      BY <2>8, <1>1, <1>3, UsesComplete DEF Loaded, At, TypeOK
    <3>2. QED
      BY <2>8, <3>1, <1>1, <1>3 DEF Loaded, At, Goto, RestingAt, Writing, Call
  <2>9. CASE Stamp(th)
    BY <2>9, <1>1, <1>3 DEF Stamp, At, RestingAt, Writing, Call
  <2>10. CASE IndexMeta(th) \/ CreateFile(th)
    BY <2>10, <1>1, <1>3 DEF IndexMeta, CreateFile, At, Goto, RestingAt, Writing, Call
  <2>11. CASE WriteFile(th) \/ StoreFails(th)
    BY <2>11, <1>1, IdleType DEF WriteFile, StoreFails, Finish, RestingAt, Writing
  <2>12. CASE SelectPeriod(th)
    BY <2>12, <1>1, <1>3, IdleType DEF SelectPeriod, At, Finish, RestingAt, Writing, Call
  <2>13. CASE xRemoveMeta(th)
    BY <2>13, <1>1, <1>3, IdleType DEF xRemoveMeta, At, Finish, Goto, RestingAt, Writing, Call
  <2>14. CASE DeleteFile(th) \/ DeleteFails(th)
    BY <2>14, <1>1, <1>3, IdleType DEF DeleteFile, DeleteFails, At, Finish, RestingAt, Writing, Call
  <2>15. QED
    BY <2>1, <2>2, <2>3, <2>4, <2>5, <2>6, <2>7, <2>8, <2>9, <2>10, <2>11, <2>12, <2>13, <2>14
    DEF ReadStep, WriteStep, RemoveStep
<1>5. (kind = "no" => imts = NoTimes /\ imeta = NoMetas)'
  <2>1. kind = "no" => UNCHANGED indexVars
    BY DEF ReadStep, WriteStep, RemoveStep, Begin, QueryTimes, ListStorage, ListFails,
       FillIndex, LoadMeta, FetchMeta, KeepMeta, Loaded, Stamp, IndexMeta, CreateFile, WriteFile,
       StoreFails, SelectPeriod, xRemoveMeta, DeleteFile, DeleteFails, storeMeta, storeMetaTimes, removeMeta,
       indexVars
  <2>2. QED
    BY <2>1, <1>1, SMTT(40) DEF Resting, NoTimes, NoMetas, indexVars
<1>6. rebuild' = "none"
  <2>1. rebuild' = rebuild
    BY ThreadAlters DEF procVars
  <2>2. CASE \E op \in use.ops, p \in Paths : Begin(th, op, p)
    BY <2>1, <2>2 DEF Begin
  <2>3. CASE c.step # "idle"
    BY <1>1, <2>1, <2>3 DEF Resting
  <2>4. QED
    BY <2>2, <2>3
    DEF ReadStep, WriteStep, RemoveStep, QueryTimes, ListStorage, ListFails, FillIndex, LoadMeta,
        FetchMeta, KeepMeta, Loaded, Stamp, IndexMeta, CreateFile, WriteFile, StoreFails,
        SelectPeriod, xRemoveMeta, DeleteFile, DeleteFails, At
<1>7. QED
  BY <1>2, <1>4, <1>5, <1>6 DEF Resting

\* A step of the process keeps it too.
LEMMA ProcessResting ==
    ASSUME TypeOK, Resting,
           (\E unlock, autoRepair \in BOOLEAN : Open(unlock, autoRepair))
               \/ Close \/ Crash \/ Reindex \/ ReindexCloses
    PROVE  Resting'
<1>1. CASE \E unlock, autoRepair \in BOOLEAN : Open(unlock, autoRepair)
  <2>1. \A th \in Threads : call[th].step = "idle"
    BY <1>1 DEF Open, Resting, RestingAt
  <2>2. \A th \in Threads : RestingAt(th)'
    BY <1>1, <2>1 DEF Open, RestingAt, Writing
  <2>3. kind = "no" => imts' = NoTimes
    BY <1>1 DEF Open, Resting, doRepair, NoTimes
  <2>4. QED
    BY <1>1, <2>2, <2>3 DEF Open, Resting, NoTimes, NoMetas
<1>2. CASE Close \/ Crash \/ ReindexCloses
  <2>1. /\ \A th \in Threads : call'[th].step = "idle"
        /\ rebuild' = "none" /\ UNCHANGED <<kind, clock>>
    BY <1>2, IdleType DEF Close, Crash, ReindexCloses, EndProcess
  <2>2. kind = "no" => imts' = NoTimes /\ imeta' = NoMetas
    BY <1>2 DEF Close, Crash, ReindexCloses, LeaveIndex, LeaveFile, Resting, indexVars
  <2>3. QED
    BY <2>1, <2>2 DEF Resting, RestingAt, Writing, NoTimes, NoMetas
<1>3. CASE Reindex
  BY <1>3 DEF Reindex, Quiet, Resting, RestingAt, Writing
<1>4. QED
  BY <1>1, <1>2, <1>3

\* The first layer of the invariant.
LEMMA TypesAndCalls == Spec => [](TypeOK /\ Resting)
<1>1. Init => Resting
  BY IdleType DEF Init, Resting, RestingAt, Writing
<1>2. TypeOK /\ Resting /\ [Next]_vars => (TypeOK /\ Resting)'
  <2> SUFFICES ASSUME TypeOK, Resting, [Next]_vars PROVE (TypeOK /\ Resting)'
    OBVIOUS
  <2>1. CASE UNCHANGED vars
    BY <2>1 DEF vars, procVars, storeVars, indexVars, histVars, TypeOK, Call, Resting, RestingAt,
                Writing, NoTimes, NoMetas
  <2>2. CASE Next
    BY <2>2, ThreadTypeOK, ThreadResting, ProcessTypeOK, ProcessResting DEF Next
  <2>3. QED
    BY <2>1, <2>2
<1>3. QED
  BY <1>1, <1>2, InitTypeOK, PTL DEF Spec

\* The versions, the index and the calls keep their types: no call uses a time
\* that was not given, and none stores what is not a version (odss.go, index.go).
THEOREM IndexedStoreTypeOK == Spec => []TypeOK
BY TypesAndCalls, PTL

-----------------------------------------------------------------------------
(* The second layer: the storage, and what the index lists of it           *)

\* While a goroutine works, the others are idle or remove nothing.
LEMMA OthersKeep ==
    ASSUME Resting, Undisturbed, NEW th \in use.threads, NEW other \in Threads, other # th
    PROVE  /\ call[other].step \notin {"select", "unindex", "delete"}
           /\ Alone => call[other].step = "idle"
BY DEF Resting, RestingAt, Undisturbed, Alone

\* What a call lists or reads next decides alone whether the storage and the
\* index stay in order, when it changes neither.
LEMMA ReadingCore ==
    ASSUME TypeOK, Resting, Undisturbed, Core, NEW th \in Threads,
           UNCHANGED <<procVars, storeVars, indexVars, clock, histVars>>,
           \A other \in Threads : other # th => call'[other] = call[other],
           ~Writing(th), ~Writing(th)', call'[th].step # "delete",
           call'[th].step = "fill" =>
               call'[th].seen \subseteq Backed(call'[th].path) \ gone[call'[th].path],
           Loading(th)' => call'[th].todo \subseteq Backed(call'[th].path) \ gone[call'[th].path]
    PROVE  Core'
<1>1. \A p : Backed(p)' = Backed(p)
  BY DEF Backed, Writing, storeVars, histVars
<1>2. Clocked' /\ Stored' /\ Gone'
  BY DEF Core, Clocked, Stored, Gone, procVars, storeVars, indexVars, histVars, NoMetas
<1>3. Fresh'
  BY DEF Core, Fresh, FreshAt, Writing, Alone, procVars, storeVars, histVars
<1>4. ListedBacked'
  BY <1>1 DEF Core, ListedBacked, Backed, indexVars
<1>5. \A h \in Threads : ReadAt(h)' /\ RemovedAt(h)'
  <2>1. call \in [Threads -> Call] /\ \A h \in Threads : call[h].path \in Paths
    BY DEF TypeOK, Call
  <2>2. ReadAt(th)' /\ RemovedAt(th)'
    BY <1>1 DEF ReadAt, RemovedAt, Loading, histVars
  <2>3. ASSUME NEW h \in Threads, h # th PROVE ReadAt(h)' /\ RemovedAt(h)'
    BY <1>1, <2>1, <2>3 DEF Core, ReadAt, RemovedAt, Loading, indexVars, histVars
  <2>4. QED
    BY <2>2, <2>3
<1>6. QED
  BY <1>2, <1>3, <1>4, <1>5 DEF Core

\* The steps that only read.
LEMMA ReadersCore ==
    ASSUME TypeOK, Resting, Undisturbed, Core, NEW th \in use.threads,
           \/ \E op \in use.ops, p \in Paths : Begin(th, op, p)
           \/ QueryTimes(th) \/ ListStorage(th) \/ ListFails(th) \/ LoadMeta(th) \/ FetchMeta(th)
           \/ Loaded(th) \/ SelectPeriod(th) \/ DeleteFails(th)
    PROVE  Core'
<1> DEFINE c == call[th]
           d == call'[th]
           Fine == /\ ~Writing(th)' /\ d.step # "delete"
                   /\ d.step = "fill" => d.seen \subseteq Backed(d.path) \ gone[d.path]
                   /\ Loading(th)' => d.todo \subseteq Backed(d.path) \ gone[d.path]
<1>1. /\ th \in Threads /\ call \in [Threads -> Call] /\ c \in Call
      /\ \A other \in Threads : other # th => call'[other] = call[other]
      /\ UNCHANGED procVars
  BY ThreadAlters DEF ReadStep, RemoveStep, TypeOK
<1>2. UNCHANGED <<storeVars, indexVars, clock, histVars>>
  BY DEF Begin, QueryTimes, ListStorage, ListFails, LoadMeta, FetchMeta, Loaded, SelectPeriod, DeleteFails
<1>3. ReadAt(th) /\ RestingAt(th) /\ c.path \in Paths
  BY <1>1 DEF Core, Resting, Call
<1>4. CASE \E op \in use.ops, p \in Paths : Begin(th, op, p)
  <2>1. d.step = "query"
    BY <1>4, <1>1, BeginIs
  <2>2. c.step = "idle"
    BY <1>4 DEF Begin, At
  <2>3. ~Writing(th) /\ Fine
    BY <2>1, <2>2 DEF Writing, Loading
  <2>4. QED
    BY <1>1, <1>2, <2>3, ReadingCore
<1>5. CASE QueryTimes(th)
  <2>1. CASE Goto(th, "list")
    <3>1. ~Writing(th) /\ Fine
      BY <1>5, <2>1, <1>1 DEF QueryTimes, At, Goto, Writing, Loading, Call
    <3>2. QED
      BY <1>1, <1>2, <3>1, ReadingCore
  <2>2. CASE Choose(th, imts[c.path], "load") /\ imts[c.path] # NoEntry
    <3>1. imts[c.path] \in SUBSET Times
      BY <2>2, <1>3 DEF TypeOK
    <3>2. imts[c.path] \subseteq Backed(c.path) \ gone[c.path]
      BY <2>2, <1>3 DEF Core, ListedBacked, Backed, Gone
    <3>3. d.step # "delete" /\ ~Writing(th)' /\ d.step # "fill"
      BY <2>2, <3>1, <1>1, ChooseIs, IdleType DEF Writing, Steps
    <3>4. Loading(th)' => d.todo \subseteq imts[c.path] /\ d.path = c.path
      BY <2>2, <3>1, <1>1, ChooseIs, WantedIs, IdleType DEF Loading, Steps
    <3>5. ~Writing(th) /\ Fine
      BY <1>5, <3>2, <3>3, <3>4 DEF QueryTimes, At, Writing
    <3>6. QED
      BY <1>1, <1>2, <3>5, ReadingCore
  <2>3. QED
    BY <1>5, <2>1, <2>2 DEF QueryTimes
<1>6. CASE ListStorage(th)
  <2>1. Choose(th, stored[c.path], "fill") /\ stored[c.path] \in SUBSET Times
    BY <1>6, <1>3 DEF ListStorage, TypeOK
  <2>2. stored[c.path] \subseteq Backed(c.path) \ gone[c.path]
    BY <1>3 DEF Core, Backed, Gone
  <2>3. d.step # "delete" /\ ~Writing(th)' /\ ~Loading(th)'
    BY <2>1, <1>1, ChooseIs, IdleType DEF Writing, Loading, Steps
  <2>4. d.step = "fill" => d.seen = stored[c.path] /\ d.path = c.path
    BY <2>1, <1>1, ChooseIs, IdleType DEF Steps
  <2>5. ~Writing(th) /\ Fine
    BY <1>6, <2>2, <2>3, <2>4 DEF ListStorage, At, Writing
  <2>6. QED
    BY <1>1, <1>2, <2>5, ReadingCore
<1>7. CASE ListFails(th)
  <2>1. ~Writing(th) /\ Fine
    BY <1>7, <1>1, FailIs, IdleType DEF ListFails, At, Writing, Loading
  <2>2. QED
    BY <1>1, <1>2, <2>1, ReadingCore
<1>8. CASE FetchMeta(th)
  <2>1. CASE Goto(th, "keep")
    <3>1. ~Writing(th) /\ Fine
      BY <1>8, <2>1, <1>1, <1>3 DEF FetchMeta, At, Goto, ReadAt, Writing, Loading, Call
    <3>2. QED
      BY <1>1, <1>2, <3>1, ReadingCore
  <2>2. CASE Fail(th)
    <3>1. ~Writing(th) /\ Fine
      BY <1>8, <2>2, <1>1, FailIs, IdleType DEF FetchMeta, At, Writing, Loading
    <3>2. QED
      BY <1>1, <1>2, <3>1, ReadingCore
  <2>3. QED
    BY <1>8, <2>1, <2>2 DEF FetchMeta
<1>9. CASE LoadMeta(th)
  <2>1. ~Writing(th) /\ Fine
    BY <1>9, <1>1, <1>3 DEF LoadMeta, At, Goto, ReadAt, Writing, Loading, Call
  <2>2. QED
    BY <1>1, <1>2, <2>1, ReadingCore
<1>10. CASE Loaded(th)
  <2>1. c.op \in {"read", "write", "remove"}
    BY <1>10, <1>1, <1>3, UsesComplete DEF Loaded, At, RestingAt, TypeOK
  <2>2. ~Writing(th) /\ Fine
    BY <1>10, <2>1, <1>1 DEF Loaded, At, Goto, Writing, Loading, Call
  <2>3. QED
    BY <1>1, <1>2, <2>2, ReadingCore
<1>11. CASE SelectPeriod(th)
  <2>1. ~Writing(th) /\ Fine
    BY <1>11, <1>1, IdleType DEF SelectPeriod, At, Finish, Writing, Loading, Call
  <2>2. QED
    BY <1>1, <1>2, <2>1, ReadingCore
<1>12. CASE DeleteFails(th)
  <2>1. ~Writing(th) /\ Fine
    BY <1>12, <1>1, IdleType DEF DeleteFails, At, Finish, Writing, Loading
  <2>2. QED
    BY <1>1, <1>2, <2>1, ReadingCore
<1>13. QED
  BY <1>4, <1>5, <1>6, <1>7, <1>8, <1>9, <1>10, <1>11, <1>12

\* The steps that store in the index what was read.
LEMMA KeepersCore ==
    ASSUME TypeOK, Resting, Undisturbed, Core, NEW th \in use.threads,
           FillIndex(th) \/ KeepMeta(th)
    PROVE  Core'
<1> DEFINE c == call[th]
           p == c.path
           d == call'[th]
<1>1. /\ th \in Threads /\ call \in [Threads -> Call] /\ c \in Call /\ p \in Paths
      /\ \A other \in Threads : other # th => call'[other] = call[other]
      /\ use' = use /\ kind' = kind
  BY ThreadAlters DEF ReadStep, TypeOK, Call, procVars
<1>2. UNCHANGED <<storeVars, clock, histVars>>
  BY DEF FillIndex, KeepMeta
<1>3. \A other \in Threads : call[other].path \in Paths /\ call[other].step # "delete"
  BY <1>1, OthersKeep DEF Call, FillIndex, KeepMeta, At
<1>4. ReadAt(th) /\ RestingAt(th)
  BY <1>1 DEF Core, Resting
<1>5. c.step \in {"fill", "keep"} /\ d.step = "load" /\ d.path = p
  BY <1>1 DEF FillIndex, KeepMeta, At, Goto, Call
<1>6. \E times \in SUBSET (Backed(p) \ gone[p]) :
        /\ d.todo \subseteq times \union c.todo
        /\ c.step = "fill" => c.todo \subseteq times
        /\ \A q \in Paths : imts'[q] # NoEntry =>
              imts'[q] \subseteq (IF q = p THEN times ELSE {}) \union (IF imts[q] = NoEntry THEN {} ELSE imts[q])
        /\ \A q \in Paths : imeta'[q] \subseteq (IF q = p THEN times ELSE {}) \union imeta[q]
  <2>1. CASE FillIndex(th)
    <3>1. c.seen \subseteq Backed(p) \ gone[p] /\ c.todo \subseteq c.seen
      BY <2>1, <1>4 DEF ReadAt, RestingAt, FillIndex, At
    <3>2. d.todo = c.todo
      BY <2>1, <1>1 DEF FillIndex, Goto, Call
    <3>3. \A q \in Paths : imts'[q] = (IF q = p THEN c.seen ELSE imts[q]) \/ imts'[q] = imts[q]
      BY <2>1, <1>1 DEF FillIndex, storeMetaTimes, TypeOK
    <3>4. imeta' = imeta
      BY <2>1 DEF FillIndex, storeMetaTimes
    <3>5. \A q \in Paths : imts'[q] # NoEntry =>
            imts'[q] \subseteq (IF q = p THEN c.seen ELSE {}) \union (IF imts[q] = NoEntry THEN {} ELSE imts[q])
      BY <3>3
    <3>6. \A q \in Paths : imeta'[q] \subseteq (IF q = p THEN c.seen ELSE {}) \union imeta[q]
      BY <3>4
    <3>7. c.seen \in SUBSET (Backed(p) \ gone[p])
      BY <3>1
    <3> WITNESS c.seen \in SUBSET (Backed(p) \ gone[p])
    <3>8. QED
      BY <3>1, <3>2, <3>5, <3>6
  <2>2. CASE KeepMeta(th)
    <3> DEFINE t == Oldest(c.todo)
    <3>1. t \in Backed(p) \ gone[p]
      BY <2>2, <1>1, <1>4, OldestIs DEF ReadAt, RestingAt, Loading, KeepMeta, At, Call
    <3>2. d.todo \subseteq c.todo
      BY <2>2, <1>1 DEF KeepMeta, Call
    <3> HIDE DEF t
    <3>3. storeMeta(p, t)
      BY <2>2 DEF KeepMeta, t
    <3>4. \A q \in Paths : \/ imts'[q] = imts[q]
                           \/ q = p /\ imts'[q] = (IF imts[q] = NoEntry THEN {} ELSE imts[q]) \union {t}
      BY <3>3, <1>1 DEF storeMeta, TypeOK, indexVars
    <3>5. \A q \in Paths : imeta'[q] \subseteq (IF q = p THEN {t} ELSE {}) \union imeta[q]
      BY <3>3, <1>1 DEF storeMeta, TypeOK, indexVars
    <3>6. \A q \in Paths : imts'[q] # NoEntry =>
            imts'[q] \subseteq (IF q = p THEN {t} ELSE {}) \union (IF imts[q] = NoEntry THEN {} ELSE imts[q])
      BY <3>4
    <3>7. {t} \in SUBSET (Backed(p) \ gone[p])
      BY <3>1 DEF t
    <3>8. c.step = "keep"
      BY <2>2 DEF KeepMeta, At
    <3> WITNESS {t} \in SUBSET (Backed(p) \ gone[p])
    <3>9. QED
      BY <3>2, <3>5, <3>6, <3>8
  <2>3. QED
    BY <2>1, <2>2
<1>7. PICK times \in SUBSET (Backed(p) \ gone[p]) :
        /\ d.todo \subseteq times \union c.todo
        /\ c.step = "fill" => c.todo \subseteq times
        /\ \A q \in Paths : imts'[q] # NoEntry =>
              imts'[q] \subseteq (IF q = p THEN times ELSE {}) \union (IF imts[q] = NoEntry THEN {} ELSE imts[q])
        /\ \A q \in Paths : imeta'[q] \subseteq (IF q = p THEN times ELSE {}) \union imeta[q]
  BY <1>6
<1>8. \A q : Backed(q)' = Backed(q)
  BY <1>1, <1>2, <1>5 DEF Backed, storeVars, histVars
<1>9. Clocked' /\ Stored' /\ Fresh'
  BY <1>1, <1>2, <1>5
  DEF Core, Clocked, Stored, Fresh, FreshAt, Writing, Alone, storeVars, histVars
<1>10. ListedBacked'
  <2>1. \A q \in Paths : imts[q] # NoEntry => imts[q] \subseteq Backed(q)
    BY DEF Core, ListedBacked, Backed
  <2>2. \A q \in Paths : imts'[q] # NoEntry => imts'[q] \subseteq Backed(q)'
    BY <1>7, <1>8, <2>1
  <2>3. QED
    BY <2>2 DEF ListedBacked, Backed
<1>11. Gone'
  <2>1. gone' = gone /\ stored' = stored
    BY <1>2 DEF storeVars, histVars
  <2>2. QED
    BY <1>1, <1>7, <2>1 DEF Core, Gone, NoMetas
<1>12. ASSUME NEW h \in Threads PROVE ReadAt(h)' /\ RemovedAt(h)'
  <2>1. CASE h = th
    <3>1. d.todo \subseteq Backed(p) \ gone[p]
      BY <1>4, <1>5, <1>7 DEF ReadAt, Loading
    <3>2. QED
      BY <2>1, <3>1, <1>2, <1>5, <1>8 DEF ReadAt, RemovedAt, Loading, histVars
  <2>2. CASE h # th
    BY <2>2, <1>1, <1>2, <1>3, <1>8 DEF Core, ReadAt, RemovedAt, Loading, histVars
  <2>3. QED
    BY <2>1, <2>2
<1>13. QED
  BY <1>9, <1>10, <1>11, <1>12 DEF Core

\* The steps of a write.
LEMMA WritersCore ==
    ASSUME TypeOK, Resting, Undisturbed, Core, NEW th \in use.threads, WriteStep(th)
    PROVE  Core'
<1> DEFINE c == call[th]
           p == c.path
           t == c.time
           d == call'[th]
<1>1. /\ th \in Threads /\ call \in [Threads -> Call] /\ c \in Call /\ p \in Paths
      /\ \A other \in Threads : other # th => call'[other] = call[other]
      /\ use' = use /\ kind' = kind
  BY ThreadAlters DEF TypeOK, Call, procVars
<1>2. c.step \in {"stamp", "index", "create", "write"}
  BY DEF WriteStep, Stamp, IndexMeta, CreateFile, WriteFile, StoreFails, At
<1>3. /\ \A other \in Threads : call[other].path \in Paths
      /\ \A other \in Threads : call[other].step # "delete"
      /\ \A other \in Threads : other # th => (Alone => call[other].step = "idle")
  BY <1>1, <1>2, OthersKeep DEF Call
<1>4. FreshAt(th) /\ RestingAt(th) /\ \A other \in Threads : RestingAt(other) /\ FreshAt(other)
  BY <1>1 DEF Core, Fresh, Resting
<1>5. \A q \in Paths : stored[q] \subseteq Times /\ whole[q] \subseteq Times /\ gone[q] \subseteq Times
  BY DEF TypeOK
<1>6. CASE Stamp(th)
  <2>1. /\ d.step = "index" /\ d.time = clock + 1 /\ d.path = p /\ c.step = "stamp"
        /\ clock' = clock + 1 /\ clock \in Nat
    BY <1>6, <1>1, TimeBound DEF Stamp, At, Call, TypeOK
  <2>2. UNCHANGED <<storeVars, indexVars, histVars>>
    BY <1>6 DEF Stamp
  <2>3. \A q : Backed(q)' = Backed(q)
    BY <1>1, <2>1, <2>2 DEF Backed, storeVars, histVars
  <2>4. Clocked' /\ Stored' /\ Gone'
    <3>1. Clocked'
      BY <2>1, <2>2 DEF Core, Clocked, storeVars, histVars
    <3>2. QED
      BY <3>1, <2>2, <1>1 DEF Core, Stored, Gone, storeVars, indexVars, histVars, NoMetas
  <2>5. Fresh'
    <3>1. \A q \in Paths : clock + 1 \notin stored[q] \union whole[q] \union gone[q]
      BY <2>1 DEF Core, Clocked, Stored
    <3>2. \A other \in Threads : Writing(other) => call[other].time # clock + 1
      BY <1>4, <2>1 DEF RestingAt
    <3>3. FreshAt(th)'
      BY <1>1, <2>1, <2>2, <3>1 DEF FreshAt, Writing, storeVars, histVars
    <3>4. ASSUME NEW other \in Threads, other # th PROVE FreshAt(other)'
      BY <1>1, <1>3, <1>4, <2>2, <3>4 DEF FreshAt, Writing, Alone, storeVars, histVars
    <3>5. QED
      BY <1>1, <2>1, <3>2, <3>3, <3>4 DEF Core, Fresh, Writing
  <2>6. ListedBacked'
    BY <2>2, <2>3 DEF Core, ListedBacked, Backed, indexVars
  <2>7. \A h \in Threads : ReadAt(h)' /\ RemovedAt(h)'
    BY <1>1, <1>3, <2>1, <2>2, <2>3 DEF Core, ReadAt, RemovedAt, Loading, histVars
  <2>8. QED
    BY <2>4, <2>5, <2>6, <2>7 DEF Core
<1>7. CASE IndexMeta(th)
  <2>1. /\ d.step = "create" /\ d.time = t /\ d.path = p /\ c.step = "index"
        /\ storeMeta(p, t)
    BY <1>7, <1>1 DEF IndexMeta, At, Goto, Call
  <2>2. UNCHANGED <<storeVars, clock, histVars>>
    BY <1>7 DEF IndexMeta
  <2>3. \A q : Backed(q) \subseteq Backed(q)' /\ (q = p => t \in Backed(q)')
    BY <1>1, <2>1, <2>2 DEF Backed, storeVars, histVars
  <2>4. Clocked' /\ Stored' /\ Fresh'
    BY <1>1, <2>1, <2>2
    DEF Core, Clocked, Stored, Fresh, FreshAt, Writing, Alone, storeVars, histVars
  <2>5. /\ \A q \in Paths : imts'[q] # NoEntry =>
             imts'[q] \subseteq (IF q = p THEN {t} ELSE {}) \union (IF imts[q] = NoEntry THEN {} ELSE imts[q])
        /\ \A q \in Paths : imeta'[q] \subseteq (IF q = p THEN {t} ELSE {}) \union imeta[q]
    <3>1. \A q \in Paths : \/ imts'[q] = imts[q]
                           \/ q = p /\ imts'[q] = (IF imts[q] = NoEntry THEN {} ELSE imts[q]) \union {t}
      BY <2>1, <1>1 DEF storeMeta, TypeOK, indexVars
    <3>2. QED
      BY <3>1, <2>1, <1>1 DEF storeMeta, TypeOK, indexVars
  <2>6. ListedBacked'
    <3>1. \A q \in Paths : imts[q] # NoEntry => imts[q] \subseteq Backed(q)
      BY DEF Core, ListedBacked, Backed
    <3>2. \A q \in Paths : imts'[q] # NoEntry => imts'[q] \subseteq Backed(q)'
      BY <2>3, <2>5, <3>1
    <3>3. QED
      BY <3>2 DEF ListedBacked, Backed
  <2>7. Gone'
    <3>1. t \notin gone[p] /\ gone' = gone /\ stored' = stored
      BY <1>4, <2>1, <2>2 DEF FreshAt, Writing, storeVars, histVars
    <3>2. QED
      BY <1>1, <2>5, <3>1 DEF Core, Gone, NoMetas
  <2>8. \A h \in Threads : ReadAt(h)' /\ RemovedAt(h)'
    BY <1>1, <1>3, <2>1, <2>2, <2>3 DEF Core, ReadAt, RemovedAt, Loading, histVars
  <2>9. QED
    BY <2>4, <2>6, <2>7, <2>8 DEF Core
<1>8. CASE CreateFile(th)
  <2>1. /\ d.step = "write" /\ d.time = t /\ d.path = p /\ c.step = "create"
        /\ stored' = [stored EXCEPT ![p] = @ \union {t}]
    BY <1>8, <1>1 DEF CreateFile, At, Goto, Call
  <2>2. UNCHANGED <<whole, indexVars, clock, histVars>>
    BY <1>8 DEF CreateFile
  <2>3. \A q \in Paths : stored'[q] = stored[q] \union (IF q = p THEN {t} ELSE {})
    BY <2>1 DEF TypeOK
  <2>4. \A q \in Paths : Backed(q) \subseteq Backed(q)'
    BY <1>1, <2>1, <2>2, <2>3 DEF Backed, histVars
  <2>5. t \in 1 .. clock /\ t \notin whole[p] \union gone[p] \union stored[p]
    BY <1>4, <2>1 DEF RestingAt, FreshAt, Writing
  <2>6. Clocked' /\ Stored' /\ Gone'
    BY <1>1, <2>2, <2>3, <2>5
    DEF Core, Clocked, Stored, Gone, indexVars, histVars, NoMetas
  <2>7. Fresh'
    <3>1. FreshAt(th)'
      BY <1>1, <1>4, <2>1, <2>2, <2>3, <2>5 DEF FreshAt, Writing, Alone, histVars
    <3>2. ASSUME NEW other \in Threads, other # th PROVE FreshAt(other)'
      <4>1. Writing(other) => call[other].time # t
        BY <1>1, <2>1, <3>2 DEF Core, Fresh, Writing
      <4>2. QED
        BY <1>1, <1>3, <1>4, <2>2, <2>3, <3>2, <4>1 DEF FreshAt, Writing, Alone, histVars
    <3>3. QED
      BY <1>1, <2>1, <3>1, <3>2 DEF Core, Fresh, Writing
  <2>8. ListedBacked'
    <3>1. \A q \in Paths : imts[q] # NoEntry => imts[q] \subseteq Backed(q)
      BY DEF Core, ListedBacked, Backed
    <3>2. \A q \in Paths : imts'[q] # NoEntry => imts'[q] \subseteq Backed(q)'
      BY <2>2, <2>4, <3>1 DEF indexVars
    <3>3. QED
      BY <3>2 DEF ListedBacked, Backed
  <2>9. \A h \in Threads : ReadAt(h)' /\ RemovedAt(h)'
    BY <1>1, <1>3, <2>1, <2>2, <2>4 DEF Core, ReadAt, RemovedAt, Loading, histVars
  <2>10. QED
    BY <2>6, <2>7, <2>8, <2>9 DEF Core
<1>9. CASE WriteFile(th)
  <2>1. /\ d = Idle /\ c.step = "write"
        /\ \A q \in Paths : /\ whole'[q] = whole[q] \union (IF q = p THEN {t} ELSE {})
                           /\ acked'[q] = acked[q] \union (IF q = p THEN {t} ELSE {})
    BY <1>9, <1>1 DEF WriteFile, At, Finish, TypeOK
  <2>2. UNCHANGED <<stored, indexVars, clock, gone, failed>>
    BY <1>9 DEF WriteFile
  <2>3. \A q : Backed(q)' = Backed(q)
    BY <1>1, <2>1, <2>2, IdleType DEF Backed
  <2>4. t \in stored[p]
    BY <1>4, <2>1 DEF FreshAt
  <2>5. Clocked' /\ Stored' /\ Gone'
    BY <1>1, <2>1, <2>2, <2>4 DEF Core, Clocked, Stored, Gone, indexVars, NoMetas
  <2>6. Fresh'
    <3>1. FreshAt(th)'
      BY <2>1, IdleType DEF FreshAt, Writing
    <3>2. ASSUME NEW other \in Threads, other # th PROVE FreshAt(other)'
      <4>1. Writing(other) => call[other].time # t
        BY <1>1, <2>1, <3>2 DEF Core, Fresh, Writing
      <4>2. QED
        BY <1>1, <1>3, <1>4, <2>1, <2>2, <3>2, <4>1 DEF FreshAt, Writing, Alone
    <3>3. QED
      BY <1>1, <2>1, <3>1, <3>2, IdleType DEF Core, Fresh, Writing
  <2>7. ListedBacked'
    BY <2>2, <2>3 DEF Core, ListedBacked, Backed, indexVars
  <2>8. \A h \in Threads : ReadAt(h)' /\ RemovedAt(h)'
    BY <1>1, <1>3, <2>1, <2>2, <2>3, IdleType DEF Core, ReadAt, RemovedAt, Loading
  <2>9. QED
    BY <2>5, <2>6, <2>7, <2>8 DEF Core
<1>10. CASE StoreFails(th)
  <2>1. /\ d = Idle /\ c.step \in {"create", "write"}
        /\ \A q \in Paths : /\ stored'[q] = stored[q] \ (IF q = p THEN {t} ELSE {})
                           /\ failed'[q] = failed[q] \union (IF q = p THEN {t} ELSE {})
    BY <1>10, <1>1 DEF StoreFails, Finish, TypeOK
  <2>2. UNCHANGED <<whole, indexVars, clock, acked, gone>>
    BY <1>10 DEF StoreFails
  <2>3. \A q \in Paths : Backed(q) \subseteq Backed(q)'
    BY <1>1, <2>1, <2>2, IdleType DEF Backed
  <2>4. t \in 1 .. clock /\ t \notin whole[p]
    BY <1>4, <2>1 DEF RestingAt, FreshAt, Writing
  <2>5. Clocked' /\ Stored' /\ Gone'
    BY <1>1, <2>1, <2>2, <2>4 DEF Core, Clocked, Stored, Gone, indexVars, NoMetas
  <2>6. Fresh'
    <3>1. FreshAt(th)'
      BY <2>1, IdleType DEF FreshAt, Writing
    <3>2. ASSUME NEW other \in Threads, other # th PROVE FreshAt(other)'
      <4>1. Writing(other) => call[other].time # t
        BY <1>1, <2>1, <3>2 DEF Core, Fresh, Writing
      <4>2. QED
        BY <1>1, <1>3, <1>4, <2>1, <2>2, <3>2, <4>1 DEF FreshAt, Writing, Alone
    <3>3. QED
      BY <1>1, <2>1, <3>1, <3>2, IdleType DEF Core, Fresh, Writing
  <2>7. ListedBacked'
    <3>1. \A q \in Paths : imts[q] # NoEntry => imts[q] \subseteq Backed(q)
      BY DEF Core, ListedBacked, Backed
    <3>2. \A q \in Paths : imts'[q] # NoEntry => imts'[q] \subseteq Backed(q)'
      BY <2>2, <2>3, <3>1 DEF indexVars
    <3>3. QED
      BY <3>2 DEF ListedBacked, Backed
  <2>8. \A h \in Threads : ReadAt(h)' /\ RemovedAt(h)'
    BY <1>1, <1>3, <2>1, <2>2, <2>3, IdleType DEF Core, ReadAt, RemovedAt, Loading
  <2>9. QED
    BY <2>5, <2>6, <2>7, <2>8 DEF Core
<1>11. QED
  BY <1>6, <1>7, <1>8, <1>9, <1>10 DEF WriteStep

\* The steps of a removal, which is alone.
LEMMA RemoversCore ==
    ASSUME TypeOK, Resting, Undisturbed, Core, NEW th \in use.threads,
           xRemoveMeta(th) \/ DeleteFile(th)
    PROVE  Core'
<1> DEFINE c == call[th]
           p == c.path
           d == call'[th]
<1>1. /\ th \in Threads /\ call \in [Threads -> Call] /\ c \in Call /\ p \in Paths
      /\ \A other \in Threads : other # th => call'[other] = call[other]
      /\ use' = use /\ kind' = kind /\ clock' = clock /\ failed' = failed
  BY ThreadAlters DEF TypeOK, Call, procVars, RemoveStep, xRemoveMeta, DeleteFile
<1>2. c.step \in {"unindex", "delete"} /\ c.op = "remove" /\ "remove" \in use.ops
  BY <1>1 DEF xRemoveMeta, DeleteFile, At, Resting, RestingAt
<1>3. \A other \in Threads : other # th => call[other].step = "idle" /\ call'[other].step = "idle"
  BY <1>1, <1>2, OthersKeep DEF Undisturbed
<1>4. d.step \in {"query", "idle", "delete", "unindex"}
  BY <1>1, IdleType DEF xRemoveMeta, DeleteFile, Goto, Finish, Call
<1>5. Fresh' /\ \A h \in Threads : ReadAt(h)'
  BY <1>3, <1>4 DEF Fresh, FreshAt, ReadAt, Writing, Loading
<1>6. \A q : Backed(q) = stored[q] \union failed[q] /\ Backed(q)' = stored'[q] \union failed[q]
  BY <1>1, <1>2, <1>3, <1>4 DEF Backed
<1>7. CASE xRemoveMeta(th)
  <2>1. UNCHANGED <<stored, whole, gone>>
    BY <1>7 DEF xRemoveMeta, storeVars
  <2>2. \/ UNCHANGED <<indexVars, acked>> /\ d.step # "delete"
        \/ \E t \in c.todo :
             /\ acked' = [acked EXCEPT ![p] = @ \ {t}]
             /\ \/ UNCHANGED indexVars /\ d.step # "delete"
                \/ hasMeta(p, t) /\ removeMeta(p, t) /\ d.time = t /\ d.path = p
    <3>1. CASE c.todo = {}
      BY <1>7, <1>1, <3>1 DEF xRemoveMeta, Goto, Call
    <3>2. CASE c.todo # {}
      <4>1. PICK t \in c.todo :
              /\ acked' = [acked EXCEPT ![p] = @ \ {t}]
              /\ IF hasMeta(p, t)
                 THEN /\ removeMeta(p, t)
                      /\ call' = [call EXCEPT ![th].step = "delete", ![th].time = t]
                 ELSE Finish(th) /\ UNCHANGED indexVars
        BY <1>7, <3>2 DEF xRemoveMeta
      <4>2. CASE hasMeta(p, t)
        BY <4>1, <4>2, <1>1, ZenonT(60) DEF Call
      <4>3. CASE ~hasMeta(p, t)
        BY <4>1, <4>3, <1>1, IdleType DEF Finish
      <4>4. QED
        BY <4>2, <4>3
    <3>3. QED
      BY <3>1, <3>2
  <2>3. CASE UNCHANGED <<indexVars, acked>> /\ d.step # "delete"
    <3>1. Clocked' /\ Stored' /\ Gone' /\ ListedBacked'
      BY <1>1, <1>6, <2>1, <2>3
      DEF Core, Clocked, Stored, Gone, ListedBacked, Backed, indexVars, NoMetas
    <3>2. \A h \in Threads : RemovedAt(h)'
      BY <1>3, <2>3 DEF RemovedAt
    <3>3. QED
      BY <1>5, <3>1, <3>2 DEF Core
  <2>4. ASSUME NEW t \in c.todo, acked' = [acked EXCEPT ![p] = @ \ {t}],
               \/ UNCHANGED indexVars /\ d.step # "delete"
               \/ hasMeta(p, t) /\ removeMeta(p, t) /\ d.time = t /\ d.path = p
        PROVE  Core'
    <3>1. \A q \in Paths : acked'[q] = acked[q] \ (IF q = p THEN {t} ELSE {})
      BY <2>4 DEF TypeOK
    <3>2. /\ \A q \in Paths : imeta'[q] \subseteq imeta[q]
          /\ \A q \in Paths : imts'[q] # NoEntry => imts[q] # NoEntry /\ imts'[q] \subseteq imts[q]
          /\ d.step = "delete" => t \notin imeta'[p] /\ (imts'[p] # NoEntry => t \notin imts'[p])
      <4>1. CASE UNCHANGED indexVars /\ d.step # "delete"
        BY <4>1 DEF indexVars
      <4>2. CASE hasMeta(p, t) /\ removeMeta(p, t) /\ kind = "no"
        BY <4>2, <1>1 DEF removeMeta, Resting, NoTimes, NoMetas, indexVars
      <4>3. CASE hasMeta(p, t) /\ removeMeta(p, t) /\ kind # "no"
        <5>1. \A q \in Paths : imeta'[q] = IF q = p THEN imeta[p] \ {t} ELSE imeta[q]
          BY <4>3, <1>1 DEF removeMeta, TypeOK
        <5>2. \A q \in Paths : imts'[q] = IF q # p THEN imts[q] ELSE
                  IF kind = "memory" /\ imts[p] = {t} THEN NoEntry ELSE imts[p] \ {t}
          BY <4>3, <1>1 DEF removeMeta, TypeOK
        <5>3. imts[p] # NoEntry
          BY <4>3 DEF hasMeta
        <5>4. QED
          BY <5>1, <5>2, <5>3, <1>1
      <4>4. QED
        BY <2>4, <4>1, <4>2, <4>3
    <3>3. Clocked' /\ Stored' /\ Gone'
      BY <1>1, <2>1, <3>1, <3>2 DEF Core, Clocked, Stored, Gone, NoMetas
    <3>4. ListedBacked'
      <4>1. \A q \in Paths : imts[q] # NoEntry => imts[q] \subseteq Backed(q)
        BY DEF Core, ListedBacked, Backed
      <4>2. \A q \in Paths : imts'[q] # NoEntry => imts'[q] \subseteq Backed(q)'
        BY <1>6, <2>1, <3>2, <4>1
      <4>3. QED
        BY <4>2 DEF ListedBacked, Backed
    <3>5. ASSUME NEW h \in Threads PROVE RemovedAt(h)'
      <4>1. CASE h = th /\ d.step = "delete"
        BY <2>4, <3>1, <3>2, <4>1, <1>1 DEF RemovedAt
      <4>2. CASE ~ (h = th /\ d.step = "delete")
        BY <1>3, <4>2 DEF RemovedAt
      <4>3. QED
        BY <4>1, <4>2
    <3>6. QED
      BY <1>5, <3>3, <3>4, <3>5 DEF Core
  <2>5. QED
    BY <2>2, <2>3, <2>4
<1>8. CASE DeleteFile(th)
  <2> DEFINE t == c.time
  <2>1. /\ RemovedAt(th) /\ c.step = "delete"
        /\ UNCHANGED <<indexVars, acked>>
    BY <1>8, <1>1 DEF DeleteFile, At, Core
  <2>2. CASE t \notin stored[p]
    <3>1. UNCHANGED <<stored, whole, gone>> /\ d = Idle
      BY <1>8, <1>1, <2>2 DEF DeleteFile, Finish, storeVars
    <3>2. Clocked' /\ Stored' /\ Gone' /\ ListedBacked'
      BY <1>1, <1>6, <2>1, <3>1
      DEF Core, Clocked, Stored, Gone, ListedBacked, Backed, indexVars, NoMetas
    <3>3. \A h \in Threads : RemovedAt(h)'
      BY <1>3, <3>1, IdleType DEF RemovedAt
    <3>4. QED
      BY <1>5, <3>2, <3>3 DEF Core
  <2>3. CASE t \in stored[p]
    <3>1. /\ \A q \in Paths : stored'[q] = stored[q] \ (IF q = p THEN {t} ELSE {})
          /\ \A q \in Paths : whole'[q] = whole[q] \ (IF q = p THEN {t} ELSE {})
          /\ \A q \in Paths : gone'[q] = gone[q] \union (IF q = p THEN {t} ELSE {})
          /\ d.step = "unindex"
      BY <1>8, <1>1, <2>3 DEF DeleteFile, TypeOK, Call
    <3>2. t \notin acked[p] \union imeta[p] /\ (imts[p] # NoEntry => t \notin imts[p])
      BY <2>1 DEF RemovedAt
    <3>3. Clocked' /\ Stored'
      BY <1>1, <2>1, <2>3, <3>1, <3>2 DEF Core, Clocked, Stored
    <3>4. Gone'
      BY <1>1, <1>2, <2>1, <3>1, <3>2 DEF Core, Gone, indexVars
    <3>5. ListedBacked'
      <4>1. \A q \in Paths : imts[q] # NoEntry => imts[q] \subseteq Backed(q)
        BY DEF Core, ListedBacked, Backed
      <4>2. \A q \in Paths : imts'[q] # NoEntry => imts'[q] \subseteq Backed(q)'
        BY <1>6, <2>1, <3>1, <3>2, <4>1 DEF indexVars
      <4>3. QED
        BY <4>2 DEF ListedBacked, Backed
    <3>6. \A h \in Threads : RemovedAt(h)'
      BY <1>3, <3>1 DEF RemovedAt
    <3>7. QED
      BY <1>5, <3>3, <3>4, <3>5, <3>6 DEF Core
  <2>4. QED
    BY <2>2, <2>3
<1>9. QED
  BY <1>7, <1>8, SMTT(40)

\* The steps of the process: nobody is at work when it is down.
LEMMA ProcessCore ==
    ASSUME TypeOK, Resting, Undisturbed, Core,
           (\E unlock, autoRepair \in BOOLEAN : Open(unlock, autoRepair))
               \/ Close \/ Crash \/ Reindex \/ ReindexCloses
    PROVE  Core'
<1>1. /\ use' = use /\ UNCHANGED <<storeVars, clock, acked, gone>>
  BY DEF Open, Close, Crash, Reindex, ReindexCloses, histVars
<1>2. \A h \in Threads : call'[h].step = "idle"
  BY IdleType
  DEF Open, Close, Crash, Reindex, ReindexCloses, EndProcess, Quiet, Resting, RestingAt
<1>3. Fresh' /\ Stored' /\ \A h \in Threads : ReadAt(h)' /\ RemovedAt(h)'
  BY <1>1, <1>2
  DEF Core, Fresh, FreshAt, Stored, ReadAt, RemovedAt, Writing, Loading, storeVars
<1>4. \A q \in Paths : /\ failed[q] \subseteq failed'[q]
                       /\ failed'[q] \subseteq 1 .. clock
                       /\ Backed(q) \subseteq stored[q] \union failed'[q]
  <2>1. CASE Crash
    <3>1. \A q \in Paths : failed'[q] = failed[q] \union
              {call[th].time : th \in {h \in Threads :
                  call[h].path = q /\ call[h].step \in {"index", "create", "write"}}}
      BY <2>1 DEF Crash
    <3>2. ASSUME NEW h \in Threads, call[h].step \in {"index", "create", "write"}
          PROVE  call[h].time \in 1 .. clock
      BY <3>2 DEF Resting, RestingAt, Writing
    <3>3. QED
      BY <3>1, <3>2 DEF Core, Clocked, Backed
  <2>2. CASE ~Crash
    <3>1. failed' = failed /\ \A h \in Threads : call[h].step = "idle"
      BY <2>2 DEF Open, Close, Reindex, ReindexCloses, Quiet, Resting, RestingAt, histVars
    <3>2. QED
      BY <3>1 DEF Core, Clocked, Backed
  <2>3. QED
    BY <2>1, <2>2
<1>5. Clocked'
  BY <1>1, <1>4 DEF Core, Clocked, storeVars
<1>6. \A q \in Paths : /\ imeta'[q] \subseteq imeta[q] \union stored[q]
                       /\ imts'[q] # NoEntry =>
                            \/ imts'[q] \subseteq stored[q]
                            \/ imts[q] # NoEntry /\ imts'[q] \subseteq imts[q]
  <2>1. CASE \E unlock, autoRepair \in BOOLEAN : Open(unlock, autoRepair)
    BY <2>1 DEF Open, doRepair
  <2>2. CASE Close \/ Crash \/ ReindexCloses
    BY <2>2 DEF Close, Crash, ReindexCloses, LeaveIndex, LeaveFile, NoTimes, NoMetas, indexVars,
                Core, Stored
  <2>3. CASE Reindex
    BY <2>3 DEF Reindex, indexVars
  <2>4. QED
    BY <2>1, <2>2, <2>3
<1>7. Gone'
  BY <1>1, <1>6 DEF Core, Gone, NoMetas, storeVars
<1>8. ListedBacked'
  <2>1. \A q \in Paths : imts[q] # NoEntry => imts[q] \subseteq Backed(q)
    BY DEF Core, ListedBacked, Backed
  <2>2. \A q \in Paths : imts'[q] # NoEntry => imts'[q] \subseteq stored[q] \union failed'[q]
    BY <1>4, <1>6, <2>1 DEF Backed
  <2>3. QED
    BY <1>1, <2>2 DEF ListedBacked, storeVars
<1>9. QED
  BY <1>3, <1>5, <1>7, <1>8 DEF Core

\* The storage and the index are in order to begin with.
LEMMA InitCore == Init => Core
<1> SUFFICES ASSUME Init PROVE Core
  OBVIOUS
<1>1. stored \in [Paths -> SUBSET Times]
  BY InitTypeOK DEF TypeOK
<1> DEFINE all == UNION {stored[p] : p \in Paths}
<1>2. all \in SUBSET Times /\ \A p \in Paths : stored[p] \subseteq all
  BY <1>1
<1>3. clock = Newest(all)
  BY DEF Init
<1> HIDE DEF all
<1>4. \A p \in Paths : stored[p] \subseteq 1 .. clock
  <2> SUFFICES ASSUME NEW p \in Paths, NEW t \in stored[p] PROVE t \in 1 .. clock
    OBVIOUS
  <2>1. t \in all /\ t \in Times /\ all # {}
    BY <1>2
  <2>2. t <= clock /\ clock \in Times
    BY <1>2, <1>3, <2>1, NewestIs
  <2>3. QED
    BY <2>1, <2>2, TimeBound DEF Times
<1>5. Clocked /\ Stored /\ Gone
  BY <1>4 DEF Init, Clocked, Stored, Gone, NoMetas, NoTimes
<1>6. Fresh /\ \A th \in Threads : ReadAt(th) /\ RemovedAt(th)
  BY IdleType DEF Init, Fresh, FreshAt, ReadAt, RemovedAt, Writing, Loading
<1>7. ListedBacked
  BY DEF Init, ListedBacked, NoTimes
<1>8. QED
  BY <1>5, <1>6, <1>7 DEF Core

\* The second layer of the invariant.
LEMMA StorageAndIndex == Spec => [](Undisturbed => Core)
<1>1. Undisturbed /\ TypeOK /\ Resting /\ Core /\ [Next]_vars => Core'
  <2> SUFFICES ASSUME Undisturbed, TypeOK, Resting, Core, [Next]_vars PROVE Core'
    OBVIOUS
  <2>1. CASE UNCHANGED vars
    <3>1. \A q : Backed(q)' = Backed(q)
      BY <2>1 DEF vars, storeVars, histVars, Backed
    <3>2. Clocked' /\ Stored' /\ Gone' /\ Fresh'
      BY <2>1 DEF vars, procVars, storeVars, indexVars, histVars, Core, Clocked, Stored, Gone,
                  Fresh, FreshAt, Writing, Alone, NoMetas
    <3>3. ListedBacked'
      BY <2>1, <3>1 DEF vars, indexVars, Core, ListedBacked, Backed
    <3>4. \A h \in Threads : ReadAt(h)' /\ RemovedAt(h)'
      BY <2>1, <3>1 DEF vars, indexVars, histVars, Core, ReadAt, RemovedAt, Loading
    <3>5. QED
      BY <3>2, <3>3, <3>4 DEF Core
  <2>2. CASE Next
    BY <2>2, ReadersCore, KeepersCore, WritersCore, RemoversCore, ProcessCore
    DEF Next, ReadStep, RemoveStep
  <2>3. QED
    BY <2>1, <2>2
<1>2. [Next]_vars /\ TypeOK => use' = use
  <2> SUFFICES ASSUME [Next]_vars, TypeOK PROVE use' = use
    OBVIOUS
  <2>1. CASE Next
    BY <2>1, ThreadAlters DEF Next, Open, Close, Crash, Reindex, ReindexCloses, procVars
  <2>2. QED
    BY <2>1 DEF vars, procVars
<1>3. TypeOK /\ Resting /\ (Undisturbed => Core) /\ [Next]_vars => (Undisturbed => Core)'
  BY <1>1, <1>2 DEF Undisturbed, Alone
<1>4. QED
  BY <1>3, InitCore, TypesAndCalls, PTL DEF Spec

\* The index lists nothing but what is stored, what is being written and what a
\* failed write left behind (odss.go:1236-1290, olf.go), when no goroutine
\* removes versions while another one works.
THEOREM IndexedStoreListedBacked == Spec => [](Undisturbed => ListedBacked)
<1>1. (Undisturbed => Core) => (Undisturbed => ListedBacked)
  BY DEF Core
<1>2. QED
  BY <1>1, StorageAndIndex, PTL

\* A version that a goroutine removed, working alone, is never listed again nor
\* read from the index, whatever crashes, repairs and reindexing come after.
THEOREM IndexedStoreGoneStaysGone == Spec => []GoneStaysGone
<1>1. TypeOK /\ (Undisturbed => Core) => GoneStaysGone
  <2> SUFFICES ASSUME TypeOK, Undisturbed => Core, NEW th \in use.threads, use.threads = {th},
                      NEW p \in Paths
               PROVE  gone[p] \intersect (Listed(p) \union imeta[p]) = {}
    BY DEF GoneStaysGone
  <2>1. Core
    BY UsesComplete DEF TypeOK, Undisturbed, Alone
  <2>2. QED
    BY <2>1 DEF Core, Gone, Listed
<1>2. QED
  BY <1>1, TypesAndCalls, StorageAndIndex, PTL

-----------------------------------------------------------------------------
(* The third layer: what the readers are told, in a careful use            *)

\* What a careful use gives.
LEMMA CarefulIs ==
    ASSUME TypeOK, Careful
    PROVE  /\ Undisturbed
           /\ ~Alone => "remove" \notin use.ops /\ kind # "memory"
           /\ kind \in {"bdb", "memory", "no"}
BY UsesComplete DEF Careful, CarefulUse, Alone, Undisturbed, TypeOK

\* A call that only reads keeps what the readers are told if its own reading is
\* in order.
LEMMA ReadingKept ==
    ASSUME TypeOK, Kept, NEW th \in Threads,
           UNCHANGED <<procVars, storeVars, indexVars, clock, histVars>>,
           \A other \in Threads : other # th => call'[other] = call[other],
           WarmAt(th)', FillsAt(th)', ReadsAt(th)', ~Writing(th)'
    PROVE  Kept'
<1>1. (Indexed /\ Warm /\ MemoryNewest /\ Written)'
  BY DEF Kept, Indexed, Warm, Written, MemoryNewest, Alone, procVars, storeVars, indexVars, histVars
<1>2. ASSUME NEW h \in Threads, h # th
      PROVE  WarmAt(h)' /\ FillsAt(h)' /\ IndexFirstAt(h)' /\ ReadsAt(h)'
  BY <1>2 DEF Kept, WarmAt, FillsAt, IndexFirstAt, ReadsAt, Alone, Loading, Newest, Oldest,
              procVars, storeVars, indexVars, histVars
<1>3. IndexFirstAt(th)'
  BY DEF IndexFirstAt, Writing
<1>4. QED
  BY <1>1, <1>2, <1>3 DEF Kept

\* The versions that a read chooses from have one at least as new as those
\* acknowledged when it began.
LEMMA ChosenNew ==
    ASSUME NEW times \in SUBSET Times, NEW floor \in 0 .. MaxTime,
           floor = 0 \/ (\E t \in times : t >= floor)
    PROVE  Newest(times) >= floor
<1>1. Newest(times) \in 0 .. MaxTime
  BY NewestType
<1>2. ASSUME NEW t \in times, t >= floor PROVE Newest(times) >= floor
  <2>1. t <= Newest(times) /\ t \in Times
    BY NewestIs
  <2>2. QED
    BY <1>1, <1>2, <2>1, TimeBound DEF Times
<1>3. QED
  BY <1>1, <1>2, TimeBound

\* A goroutine asks the index.
LEMMA QueryKept ==
    ASSUME TypeOK, Resting, Careful, Core, Kept, NEW th \in use.threads, QueryTimes(th)
    PROVE  Kept'
<1> DEFINE c == call[th]
           p == c.path
           d == call'[th]
<1>1. /\ th \in Threads /\ call \in [Threads -> Call] /\ c \in Call /\ p \in Paths
      /\ \A other \in Threads : other # th => call'[other] = call[other]
      /\ UNCHANGED procVars
  BY ThreadAlters DEF ReadStep, TypeOK, Call
<1>2. UNCHANGED <<storeVars, indexVars, clock, histVars>> /\ c.step = "query"
  BY DEF QueryTimes, At
<1>3. WarmAt(th) /\ FillsAt(th) /\ ReadsAt(th)
  BY <1>1 DEF Kept
<1>4. UNCHANGED <<use, kind, stored, imts, imeta, acked>>
  BY <1>1, <1>2 DEF procVars, storeVars, indexVars, histVars
<1>5. CASE imts[p] = NoEntry
  <2>1. d = [c EXCEPT !.step = "list"]
    BY <1>1, <1>5 DEF QueryTimes, Goto
  <2>2. d.step = "list" /\ d.path = p /\ d.op = c.op /\ d.floor = c.floor
    BY <2>1, <1>1 DEF Call
  <2>3. WarmAt(th)'
    BY <1>1, <1>4, <1>5, <2>2 DEF Kept, Warm, WarmAt, Alone
  <2>4. FillsAt(th)' /\ ReadsAt(th)' /\ ~Writing(th)'
    BY <1>2, <1>3, <1>4, <1>5, <2>2 DEF FillsAt, ReadsAt, Writing, Loading
  <2>5. QED
    BY <1>1, <1>2, <2>3, <2>4, ReadingKept
<1>6. CASE imts[p] # NoEntry
  <2>1. Choose(th, imts[p], "load") /\ imts[p] \in SUBSET Times
    BY <1>1, <1>6 DEF QueryTimes, TypeOK
  <2>2. kind # "no"
    BY <1>1, <1>6 DEF Resting, NoTimes
  <2>3. c.op = "read" => Newest(imts[p]) >= c.floor /\ (imts[p] = {} => c.floor = 0)
    <3> HAVE c.op = "read"
    <3>1. c.floor \in acked[p] \union {0} /\ c.floor \in 0 .. MaxTime
      BY <1>1, <1>2, <1>3 DEF ReadsAt, Call
    <3>2. c.floor = 0 \/ \E t \in imts[p] : t >= c.floor
      <4>1. CASE c.floor \in imts[p]
        BY <3>1, <4>1, TimeBound
      <4>2. CASE c.floor \in acked[p] \ imts[p]
        <5>1. kind = "memory"
          BY <1>1, <1>6, <2>2, <4>2, CarefulIs DEF Kept, Indexed
        <5>2. imts[p] # {} /\ \A u \in imts[p] : c.floor < u
          BY <1>1, <1>6, <4>2, <5>1 DEF Kept, MemoryNewest
        <5>3. QED
          BY <2>1, <3>1, <5>2, TimeBound DEF Times
      <4>3. QED
        BY <3>1, <4>1, <4>2
    <3>3. QED
      BY <2>1, <3>1, <3>2, ChosenNew
  <2>4. CASE imts[p] # {}
    <3>1. /\ d.step = "load" /\ d.path = p /\ d.op = c.op /\ d.floor = c.floor
          /\ d.todo = Wanted(th, imts[p])
          /\ d.time = IF c.op = "read" THEN Newest(imts[p]) ELSE 0
      BY <1>1, <2>1, <2>4, ChooseIs DEF Steps
    <3>2. d.todo \subseteq imts[p]
      BY <2>1, <2>4, <3>1, WantedIs
    <3>3. WarmAt(th)'
      BY <1>1, <1>4, <3>1, <3>2 DEF Kept, Warm, WarmAt, Alone
    <3>4. FillsAt(th)'
      <4>1. d.op # "remove" => \A x \in d.todo, u \in imts[p] : u <= x
        BY <2>1, <2>4, <3>1, WantedIs
      <4>2. QED
        BY <1>4, <1>6, <3>1, <3>2, <4>1 DEF FillsAt, Loading
    <3>5. ReadsAt(th)' /\ ~Writing(th)'
      BY <1>2, <1>3, <1>4, <2>3, <3>1 DEF ReadsAt, Writing
    <3>6. QED
      BY <1>1, <1>2, <3>3, <3>4, <3>5, ReadingKept
  <2>5. CASE imts[p] = {}
    <3>1. d.step \in {"idle", "stamp"}
      BY <1>1, <2>1, <2>5, ChooseIs, IdleType DEF Steps
    <3>2. d.op = "read" => c.op = "read" /\ d.time = 0 /\ d.floor = c.floor /\ d.step = "idle"
      BY <1>1, <2>1, <2>5, ChooseIs, IdleType DEF Steps
    <3>3. WarmAt(th)' /\ FillsAt(th)' /\ ~Writing(th)'
      BY <3>1 DEF WarmAt, FillsAt, Writing, Loading
    <3>4. ReadsAt(th)'
      BY <2>3, <2>5, <3>2 DEF ReadsAt
    <3>5. QED
      BY <1>1, <1>2, <3>3, <3>4, ReadingKept
  <2>6. QED
    BY <2>4, <2>5
<1>7. QED
  BY <1>5, <1>6

\* A goroutine lists the storage.
LEMMA ListKept ==
    ASSUME TypeOK, Resting, Careful, Core, Kept, NEW th \in use.threads, ListStorage(th)
    PROVE  Kept'
<1> DEFINE c == call[th]
           p == c.path
           d == call'[th]
<1>1. /\ th \in Threads /\ call \in [Threads -> Call] /\ c \in Call /\ p \in Paths
      /\ \A other \in Threads : other # th => call'[other] = call[other]
      /\ UNCHANGED procVars
  BY ThreadAlters DEF ReadStep, TypeOK, Call
<1>2. UNCHANGED <<storeVars, indexVars, clock, histVars>> /\ c.step = "list"
  BY DEF ListStorage, At
<1>3. WarmAt(th) /\ FillsAt(th) /\ ReadsAt(th)
  BY <1>1 DEF Kept
<1>4. UNCHANGED <<use, kind, stored, imts, imeta, acked>>
  BY <1>1, <1>2 DEF procVars, storeVars, indexVars, histVars
<1>5. Choose(th, stored[p], "fill") /\ stored[p] \in SUBSET Times
  BY <1>1 DEF ListStorage, TypeOK
<1>6. c.op = "read" => Newest(stored[p]) >= c.floor /\ (stored[p] = {} => c.floor = 0)
  <2> HAVE c.op = "read"
  <2>1. c.floor \in acked[p] \union {0} /\ c.floor \in 0 .. MaxTime
    BY <1>1, <1>2, <1>3 DEF ReadsAt, Call
  <2>2. c.floor = 0 \/ c.floor \in stored[p]
    BY <1>1, <2>1 DEF Core, Stored
  <2>3. c.floor >= c.floor
    BY <2>1, TimeBound
  <2>4. QED
    BY <1>5, <2>1, <2>2, <2>3, ChosenNew
<1>7. WarmAt(th)' /\ ~Writing(th)'
  <2>1. ~ (kind = "bdb" /\ ~Alone)
    BY <1>2, <1>3 DEF WarmAt
  <2>2. d.step \in {"fill", "idle", "stamp"}
    BY <1>1, <1>5, ChooseIs, IdleType DEF Steps
  <2>3. QED
    BY <1>4, <2>1, <2>2 DEF WarmAt, Writing, Alone
<1>8. CASE stored[p] # {}
  <2>1. /\ d.step = "fill" /\ d.path = p /\ d.op = c.op /\ d.floor = c.floor
        /\ d.seen = stored[p] /\ d.todo = Wanted(th, stored[p])
        /\ d.time = IF c.op = "read" THEN Newest(stored[p]) ELSE 0
    BY <1>1, <1>5, <1>8, ChooseIs DEF Steps
  <2>2. FillsAt(th)'
    <3>1. d.op # "remove" => \A x \in d.todo, u \in d.seen : u <= x
      BY <1>5, <1>8, <2>1, WantedIs
    <3>2. QED
      BY <1>2, <1>3, <1>4, <2>1, <3>1 DEF FillsAt, Loading, Alone
  <2>3. ReadsAt(th)'
    BY <1>2, <1>3, <1>4, <1>6, <2>1 DEF ReadsAt
  <2>4. QED
    BY <1>1, <1>2, <1>7, <2>2, <2>3, ReadingKept
<1>9. CASE stored[p] = {}
  <2>1. d.step \in {"idle", "stamp"}
    BY <1>1, <1>5, <1>9, ChooseIs, IdleType DEF Steps
  <2>2. d.op = "read" => c.op = "read" /\ d.time = 0 /\ d.floor = c.floor /\ d.step = "idle"
    BY <1>1, <1>5, <1>9, ChooseIs, IdleType DEF Steps
  <2>3. FillsAt(th)'
    BY <2>1 DEF FillsAt, Loading
  <2>4. ReadsAt(th)'
    BY <1>6, <1>9, <2>2 DEF ReadsAt
  <2>5. QED
    BY <1>1, <1>2, <1>7, <2>3, <2>4, ReadingKept
<1>10. QED
  BY <1>8, <1>9

\* The other steps that only read.
LEMMA ReadersKept ==
    ASSUME TypeOK, Resting, Careful, Core, Kept, NEW th \in use.threads,
           \/ \E op \in use.ops, p \in Paths : Begin(th, op, p)
           \/ ListFails(th) \/ LoadMeta(th) \/ FetchMeta(th) \/ Loaded(th) \/ SelectPeriod(th)
           \/ DeleteFails(th)
    PROVE  Kept'
<1> DEFINE c == call[th]
           p == c.path
           d == call'[th]
<1>1. /\ th \in Threads /\ call \in [Threads -> Call] /\ c \in Call /\ p \in Paths
      /\ \A other \in Threads : other # th => call'[other] = call[other]
      /\ UNCHANGED procVars
  BY ThreadAlters DEF ReadStep, RemoveStep, TypeOK, Call
<1>2. UNCHANGED <<storeVars, indexVars, clock, histVars>>
  BY DEF Begin, ListFails, LoadMeta, FetchMeta, Loaded, SelectPeriod, DeleteFails
<1>3. WarmAt(th) /\ FillsAt(th) /\ ReadsAt(th) /\ RestingAt(th)
  BY <1>1 DEF Kept, Resting
<1>4. UNCHANGED <<use, kind, stored, imts, imeta, acked>>
  BY <1>1, <1>2 DEF procVars, storeVars, indexVars, histVars
<1>5. SUFFICES WarmAt(th)' /\ FillsAt(th)' /\ ReadsAt(th)' /\ ~Writing(th)'
  BY <1>1, <1>2, ReadingKept
<1>6. CASE \E op \in use.ops, q \in Paths : Begin(th, op, q)
  <2>1. PICK op \in use.ops, q \in Paths : Begin(th, op, q)
    BY <1>6
  <2>2. d.step = "query" /\ d.path = q /\ d.floor = Newest(acked[q])
    BY <1>1, <2>1, BeginIs
  <2>3. acked[q] \in SUBSET Times
    BY <2>1 DEF TypeOK
  <2>4. Newest(acked[q]) \in acked[q] \union {0}
    BY <2>3, NewestIs DEF Newest
  <2>5. QED
    BY <1>4, <2>2, <2>4 DEF WarmAt, FillsAt, ReadsAt, Loading, Writing
<1>7. ASSUME Fail(th), c.step \in {"list", "fetch"}
      PROVE  WarmAt(th)' /\ FillsAt(th)' /\ ReadsAt(th)' /\ ~Writing(th)'
  BY <1>1, <1>7, FailIs, IdleType DEF WarmAt, FillsAt, ReadsAt, Loading, Writing
<1>8. CASE ListFails(th)
  BY <1>7, <1>8 DEF ListFails, At
<1>9. CASE LoadMeta(th)
  <2>1. /\ c.step = "load" /\ d.path = p /\ d.op = c.op /\ d.floor = c.floor /\ d.time = c.time
        /\ d.todo = c.todo /\ c.todo # {}
        /\ d.step = IF Oldest(c.todo) \in imeta[p] THEN "keep" ELSE "fetch"
    BY <1>1, <1>9 DEF LoadMeta, At, Goto, Call
  <2>2. Oldest(c.todo) \in c.todo
    BY <1>1, <2>1, OldestIs DEF Call
  <2>3. WarmAt(th)'
    BY <1>3, <1>4, <2>1, <2>2 DEF WarmAt, Loading, Alone
  <2>4. FillsAt(th)'
    BY <1>3, <1>4, <2>1 DEF FillsAt, Loading, Alone, Oldest
  <2>5. ReadsAt(th)' /\ ~Writing(th)'
    BY <1>3, <1>4, <2>1 DEF ReadsAt, Writing
  <2>6. QED
    BY <2>3, <2>4, <2>5
<1>10. CASE FetchMeta(th)
  <2>1. CASE Goto(th, "keep")
    <3>1. /\ c.step = "fetch" /\ d.path = p /\ d.op = c.op /\ d.floor = c.floor /\ d.time = c.time
          /\ d.todo = c.todo /\ d.step = "keep"
      BY <1>1, <1>10, <2>1 DEF FetchMeta, At, Goto, Call
    <3>2. QED
      BY <1>3, <1>4, <3>1 DEF WarmAt, FillsAt, ReadsAt, Loading, Writing, Alone
  <2>2. CASE Fail(th)
    BY <1>7, <1>10, <2>2 DEF FetchMeta, At
  <2>3. QED
    BY <1>10, <2>1, <2>2 DEF FetchMeta
<1>11. CASE Loaded(th)
  <2>1. c.op \in {"read", "write", "remove"}
    BY <1>3, <1>11, UsesComplete DEF Loaded, At, RestingAt, TypeOK
  <2>2. /\ c.step = "load" /\ d.path = p /\ d.op = c.op /\ d.floor = c.floor /\ d.time = c.time
        /\ d.step \in {"idle", "stamp", "select"}
    BY <1>1, <1>11, <2>1 DEF Loaded, At, Goto, Call
  <2>3. QED
    BY <1>3, <1>4, <2>2 DEF WarmAt, FillsAt, ReadsAt, Loading, Writing
<1>12. CASE SelectPeriod(th)
  <2>1. c.op = "remove" /\ (d.op = "remove" \/ d.op = "none") /\ d.step \in {"idle", "unindex"}
    BY <1>1, <1>3, <1>12, IdleType DEF SelectPeriod, At, Finish, RestingAt, Call
  <2>2. QED
    BY <2>1 DEF WarmAt, FillsAt, ReadsAt, Loading, Writing
<1>13. CASE DeleteFails(th)
  BY <1>1, <1>13, IdleType
  DEF DeleteFails, Finish, WarmAt, FillsAt, ReadsAt, Loading, Writing
<1>14. QED
  BY <1>6, <1>8, <1>9, <1>10, <1>11, <1>12, <1>13

\* A goroutine that is not alone may go on with what the others have added to
\* the index.
LEMMA OthersKept ==
    ASSUME TypeOK, Resting, Careful, Kept, NEW th \in use.threads, NEW h \in Threads, h # th,
           call'[h] = call[h], UNCHANGED <<use, kind>>,
           \A p \in Paths : acked[p] \subseteq acked'[p] \/ Alone,
           ~Alone => \A p \in Paths :
               /\ imeta[p] \subseteq imeta'[p]
               /\ imts[p] # NoEntry => imts'[p] # NoEntry /\ imts[p] \subseteq imts'[p]
    PROVE  WarmAt(h)' /\ FillsAt(h)' /\ IndexFirstAt(h)' /\ ReadsAt(h)'
<1>1. Alone' = Alone /\ call[h].path \in Paths /\ WarmAt(h) /\ IndexFirstAt(h) /\ ReadsAt(h)
  BY DEF Alone, TypeOK, Call, Kept
<1>2. CASE Alone
  <2>1. call'[h].step = "idle"
    BY <1>2, OthersKeep, CarefulIs
  <2>2. QED
    BY <1>1, <2>1 DEF WarmAt, FillsAt, IndexFirstAt, ReadsAt, Loading
<1>3. CASE ~Alone
  <2>1. WarmAt(h)' /\ FillsAt(h)'
    BY <1>1, <1>3 DEF WarmAt, FillsAt, Loading
  <2>2. IndexFirstAt(h)' /\ ReadsAt(h)'
    BY <1>1, <1>3 DEF IndexFirstAt, ReadsAt
  <2>3. QED
    BY <2>1, <2>2
<1>4. QED
  BY <1>2, <1>3

\* A goroutine fills the index with what it listed.
LEMMA FillKept ==
    ASSUME TypeOK, Resting, Careful, Core, Kept, NEW th \in use.threads, FillIndex(th)
    PROVE  Kept'
<1> DEFINE c == call[th]
           p == c.path
           d == call'[th]
<1>1. /\ th \in Threads /\ call \in [Threads -> Call] /\ c \in Call /\ p \in Paths
      /\ \A other \in Threads : other # th => call'[other] = call[other]
      /\ UNCHANGED procVars /\ use' = use /\ kind' = kind /\ lock' = lock
  BY ThreadAlters DEF ReadStep, TypeOK, Call, procVars
<1>2. UNCHANGED <<storeVars, clock, histVars>> /\ stored' = stored /\ acked' = acked
  BY DEF FillIndex, storeVars, histVars
<1>3. WarmAt(th) /\ FillsAt(th) /\ ReadsAt(th) /\ RestingAt(th)
  BY <1>1 DEF Kept, Resting
<1>4. /\ c.step = "fill" /\ d.step = "load" /\ d.path = p /\ d.op = c.op /\ d.time = c.time
      /\ d.floor = c.floor /\ d.todo = c.todo
  BY <1>1 DEF FillIndex, At, Goto, Call
<1>5. imeta' = imeta /\ imts' = IF kind = "no" THEN imts ELSE [imts EXCEPT ![p] = c.seen]
  BY DEF FillIndex, storeMetaTimes
<1>6. kind = "no" \/ (Alone /\ imts[p] = NoEntry /\ c.seen = stored[p])
  <2>1. kind = "bdb" => Alone
    BY <1>3, <1>4 DEF WarmAt
  <2>2. kind = "memory" => Alone
    BY CarefulIs
  <2>3. QED
    BY <1>3, <1>4, <2>1, <2>2, CarefulIs DEF FillsAt
<1>7. Alone' = Alone
  BY <1>1 DEF Alone
<1>8. (Indexed /\ Warm /\ MemoryNewest /\ Written)'
  <2>1. CASE kind = "no"
    BY <1>1, <1>2, <1>5, <1>7, <2>1 DEF Kept, Indexed, Warm, Written, MemoryNewest
  <2>2. CASE Alone /\ imts[p] = NoEntry /\ c.seen = stored[p] /\ kind # "no"
    <3>1. \A q \in Paths : imts'[q] = IF q = p THEN c.seen ELSE imts[q]
      BY <1>5, <2>2 DEF TypeOK
    <3>2. c.seen # {} /\ acked[p] \subseteq c.seen
      BY <1>1, <1>3, <1>4, <2>2 DEF RestingAt, Core, Stored
    <3>3. Indexed'
      BY <1>1, <1>2, <1>5, <2>2, <3>1 DEF Kept, Indexed
    <3>4. MemoryNewest'
      BY <1>1, <1>2, <3>1, <3>2 DEF Kept, MemoryNewest
    <3>5. QED
      BY <1>7, <2>2, <3>3, <3>4 DEF Warm, Written
  <2>3. QED
    BY <1>6, <2>1, <2>2
<1>9. WarmAt(th)' /\ FillsAt(th)' /\ IndexFirstAt(th)' /\ ReadsAt(th)'
  <2>1. WarmAt(th)' /\ IndexFirstAt(th)' /\ ReadsAt(th)'
    BY <1>1, <1>2, <1>3, <1>4, <1>6, <1>7, CarefulIs DEF WarmAt, IndexFirstAt, ReadsAt
  <2>2. FillsAt(th)'
    <3>1. kind # "no" => imts'[p] = c.seen /\ c.seen # NoEntry
      BY <1>1, <1>5, NoEntryDistinct DEF TypeOK, Call
    <3>2. c.todo \subseteq c.seen
      BY <1>3, <1>4 DEF RestingAt
    <3>3. Alone /\ c.op # "remove" => \A x \in c.todo, u \in c.seen : u <= x
      BY <1>3, <1>4 DEF FillsAt
    <3>4. QED
      BY <1>1, <1>4, <1>7, <3>1, <3>2, <3>3 DEF FillsAt, Loading
  <2>3. QED
    BY <2>1, <2>2
<1>10. ASSUME NEW h \in Threads, h # th
       PROVE  WarmAt(h)' /\ FillsAt(h)' /\ IndexFirstAt(h)' /\ ReadsAt(h)'
  <2>1. ~Alone => imts' = imts
    BY <1>5, <1>6
  <2>2. QED
    BY <1>1, <1>2, <1>5, <1>10, <2>1, OthersKept
<1>11. QED
  BY <1>8, <1>9, <1>10 DEF Kept

\* A version is stored in the index, and a call goes on with it.
LEMMA StoringKept ==
    ASSUME TypeOK, Resting, Careful, Core, Kept, NEW th \in use.threads,
           KeepMeta(th) \/ IndexMeta(th)
    PROVE  Kept'
<1> DEFINE c == call[th]
           p == c.path
           d == call'[th]
<1>1. /\ th \in Threads /\ call \in [Threads -> Call] /\ c \in Call /\ p \in Paths
      /\ \A other \in Threads : other # th => call'[other] = call[other]
      /\ UNCHANGED procVars /\ use' = use /\ kind' = kind /\ lock' = lock
  BY ThreadAlters DEF ReadStep, WriteStep, TypeOK, Call, procVars
<1>2. UNCHANGED <<storeVars, clock, histVars>> /\ stored' = stored /\ acked' = acked
  BY DEF KeepMeta, IndexMeta, storeVars, histVars
<1>3. WarmAt(th) /\ FillsAt(th) /\ ReadsAt(th) /\ RestingAt(th)
  BY <1>1 DEF Kept, Resting
<1>4. Alone' = Alone
  BY <1>1 DEF Alone
<1>5. \E t \in Times :
        /\ storeMeta(p, t)
        /\ d.path = p /\ d.op = c.op /\ d.floor = c.floor /\ d.time = c.time
        /\ \/ /\ c.step = "keep" /\ d.step = "load" /\ t \in c.todo /\ d.todo \subseteq c.todo
           \/ c.step = "index" /\ d.step = "create" /\ t = c.time /\ t \notin stored[p]
              /\ (Alone => t = clock)
  <2>1. CASE KeepMeta(th)
    <3>1. c.step = "keep" /\ c.todo # {} /\ c.todo \in SUBSET Times
      BY <1>1, <1>3, <2>1 DEF KeepMeta, At, RestingAt, Call
    <3>2. Oldest(c.todo) \in c.todo
      BY <3>1, OldestIs
    <3>3. /\ storeMeta(p, Oldest(c.todo)) /\ d.step = "load" /\ d.todo \subseteq c.todo
          /\ d.path = p /\ d.op = c.op /\ d.floor = c.floor /\ d.time = c.time
      BY <1>1, <2>1 DEF KeepMeta, Call
    <3>4. QED
      BY <3>1, <3>2, <3>3
  <2>2. CASE IndexMeta(th)
    <3>1. /\ storeMeta(p, c.time) /\ c.step = "index" /\ d.step = "create"
          /\ d.path = p /\ d.op = c.op /\ d.floor = c.floor /\ d.time = c.time
      BY <1>1, <2>2 DEF IndexMeta, At, Goto, Call
    <3>2. c.time \in Times
      BY <1>3, <3>1, TimeBound DEF RestingAt, Writing, TypeOK, Times
    <3>3. c.time \notin stored[p] /\ (Alone => c.time = clock)
      BY <1>1, <3>1 DEF Core, Fresh, FreshAt, Writing
    <3>4. QED
      BY <3>1, <3>2, <3>3
  <2>3. QED
    BY <2>1, <2>2
<1>6. PICK t \in Times :
        /\ storeMeta(p, t)
        /\ d.path = p /\ d.op = c.op /\ d.floor = c.floor /\ d.time = c.time
        /\ \/ /\ c.step = "keep" /\ d.step = "load" /\ t \in c.todo /\ d.todo \subseteq c.todo
           \/ c.step = "index" /\ d.step = "create" /\ t = c.time /\ t \notin stored[p]
              /\ (Alone => t = clock)
  BY <1>5
<1>7. CASE kind = "no"
  <2>1. UNCHANGED <<imts, imeta>>
    BY <1>6, <1>7 DEF storeMeta, indexVars
  <2>2. (Indexed /\ Warm /\ MemoryNewest /\ Written)'
    BY <1>1, <1>2, <1>4, <1>7, <2>1 DEF Kept, Indexed, Warm, Written, MemoryNewest
  <2>3. WarmAt(th)' /\ FillsAt(th)' /\ IndexFirstAt(th)' /\ ReadsAt(th)'
    BY <1>1, <1>2, <1>3, <1>6, <1>7 DEF WarmAt, FillsAt, IndexFirstAt, ReadsAt, Loading
  <2>4. \A h \in Threads : h # th => WarmAt(h)' /\ FillsAt(h)' /\ IndexFirstAt(h)' /\ ReadsAt(h)'
    BY <1>1, <1>2, <2>1, OthersKept
  <2>5. QED
    BY <2>2, <2>3, <2>4 DEF Kept
<1>8. CASE kind # "no"
  <2>1. \A q \in Paths : imts'[q] = IF q = p THEN (IF imts[p] = NoEntry THEN {} ELSE imts[p]) \union {t}
                                    ELSE imts[q]
    BY <1>1, <1>6, <1>8 DEF storeMeta, TypeOK
  <2>2. \A q \in Paths : imeta'[q] = imeta[q] \union (IF q = p THEN {t} ELSE {})
    BY <1>1, <1>6, <1>8 DEF storeMeta, TypeOK
  <2>3. imts'[p] # NoEntry
    <3>1. imts'[p] \in SUBSET Times
      BY <1>1, <2>1 DEF TypeOK
    <3>2. QED
      BY <3>1, NoEntryDistinct
  <2>4. Indexed'
    BY <1>1, <1>2, <2>1, <2>2, <2>3 DEF Kept, Indexed
  <2>5. Warm' /\ Written'
    BY <1>1, <1>2, <1>4, <2>1, <2>2, <2>3 DEF Kept, Warm, Written
  <2>6. MemoryNewest'
    <3>1. SUFFICES ASSUME kind = "memory", NEW q \in Paths, imts'[q] # NoEntry
                   PROVE  /\ imts'[q] # {}
                          /\ \A a \in acked[q] \ imts'[q], u \in imts'[q] : a < u
      BY <1>1, <1>2 DEF Kept, MemoryNewest
    <3>2. CASE q # p
      BY <2>1, <3>1, <3>2 DEF Kept, MemoryNewest
    <3>3. CASE q = p /\ c.step = "keep"
      <4>1. imts[p] # NoEntry /\ t \in imts[p]
        BY <1>3, <1>6, <3>1, <3>3, CarefulIs DEF FillsAt, Loading
      <4>2. QED
        BY <2>1, <3>1, <3>3, <4>1 DEF Kept, MemoryNewest
    <3>4. CASE q = p /\ c.step = "index"
      <4>1. t = clock /\ t \notin acked[p] /\ acked[p] \subseteq 1 .. clock
        BY <1>1, <1>6, <3>1, <3>4, CarefulIs DEF Core, Stored, Clocked
      <4>2. \A a \in acked[p] : a < t
        BY <4>1, TimeBound DEF TypeOK
      <4>3. QED
        BY <2>1, <3>1, <3>4, <4>2 DEF Kept, MemoryNewest
    <3>5. QED
      BY <1>6, <3>2, <3>3, <3>4
  <2>7. WarmAt(th)' /\ FillsAt(th)'
    BY <1>1, <1>3, <1>4, <1>6, <2>1, <2>2, <2>3 DEF WarmAt, FillsAt, Loading
  <2>8. IndexFirstAt(th)' /\ ReadsAt(th)'
    BY <1>1, <1>2, <1>3, <1>6, <2>1, <2>2, <2>3 DEF IndexFirstAt, ReadsAt
  <2>9. \A q \in Paths : /\ imeta[q] \subseteq imeta'[q]
                         /\ imts[q] # NoEntry => imts'[q] # NoEntry /\ imts[q] \subseteq imts'[q]
    BY <2>1, <2>2, <2>3
  <2>10. \A h \in Threads : h # th => WarmAt(h)' /\ FillsAt(h)' /\ IndexFirstAt(h)' /\ ReadsAt(h)'
    BY <1>1, <1>2, <2>9, OthersKept
  <2>11. QED
    BY <2>4, <2>5, <2>6, <2>7, <2>8, <2>10 DEF Kept
<1>9. QED
  BY <1>7, <1>8

\* The other steps of a write leave the index alone.
LEMMA WritersKept ==
    ASSUME TypeOK, Resting, Careful, Core, Kept, NEW th \in use.threads,
           Stamp(th) \/ CreateFile(th) \/ WriteFile(th) \/ StoreFails(th)
    PROVE  Kept'
<1> DEFINE c == call[th]
           p == c.path
           t == c.time
           d == call'[th]
<1>1. /\ th \in Threads /\ call \in [Threads -> Call] /\ c \in Call /\ p \in Paths
      /\ \A other \in Threads : other # th => call'[other] = call[other]
      /\ UNCHANGED procVars /\ use' = use /\ kind' = kind /\ lock' = lock
  BY ThreadAlters DEF WriteStep, TypeOK, Call, procVars
<1>2. UNCHANGED <<imts, imeta>> /\ Alone' = Alone
  BY <1>1 DEF Stamp, CreateFile, WriteFile, StoreFails, indexVars, Alone
<1>3. IndexFirstAt(th) /\ RestingAt(th) /\ FreshAt(th)
  BY <1>1 DEF Kept, Resting, Core, Fresh
<1>4. /\ d.step \in {"index", "write", "idle"} /\ d.op # "read"
      /\ d.step = "write" => c.step = "create" /\ d.path = p /\ d.time = t
  <2>1. c.op = "write"
    BY <1>3 DEF Stamp, CreateFile, WriteFile, StoreFails, At, RestingAt
  <2>2. QED
    BY <1>1, <2>1, IdleType DEF Stamp, CreateFile, WriteFile, StoreFails, At, Goto, Finish, Call
<1>5. WarmAt(th)' /\ FillsAt(th)' /\ IndexFirstAt(th)' /\ ReadsAt(th)'
  BY <1>1, <1>2, <1>3, <1>4 DEF WarmAt, FillsAt, IndexFirstAt, ReadsAt, Loading
<1>6. \/ acked' = acked
      \/ /\ c.step = "write"
         /\ \A q \in Paths : acked'[q] = acked[q] \union (IF q = p THEN {t} ELSE {})
  BY DEF Stamp, CreateFile, WriteFile, StoreFails, histVars, TypeOK, At
<1>7. \A h \in Threads : h # th => WarmAt(h)' /\ FillsAt(h)' /\ IndexFirstAt(h)' /\ ReadsAt(h)'
  <2>1. \A q \in Paths : acked[q] \subseteq acked'[q]
    BY <1>6
  <2>2. QED
    BY <1>1, <1>2, <2>1, OthersKept
<1>8. (Indexed /\ Warm /\ MemoryNewest /\ Written)'
  <2>1. CASE acked' = acked
    BY <1>1, <1>2, <2>1 DEF Kept, Indexed, Warm, Written, MemoryNewest
  <2>2. CASE /\ c.step = "write"
             /\ \A q \in Paths : acked'[q] = acked[q] \union (IF q = p THEN {t} ELSE {})
    <3>1. kind # "no" => imts[p] # NoEntry /\ t \in imts[p] \intersect imeta[p]
      BY <1>3, <2>2 DEF IndexFirstAt
    <3>2. kind = "bdb" => \A x \in imts[p] \ imeta[p] : x < t
      <4> SUFFICES ASSUME kind = "bdb", NEW x \in imts[p] \ imeta[p] PROVE x < t
        OBVIOUS
      <4>1. CASE Alone
        <5>1. imts[p] \subseteq Backed(p)
          BY <1>1, <3>1 DEF Core, ListedBacked, Backed
        <5>2. Backed(p) \subseteq 1 .. clock
          BY <1>1 DEF Core, Clocked, Backed, Resting, RestingAt, Writing
        <5>3. t = clock /\ x # t /\ clock \in Nat
          BY <1>3, <2>2, <3>1, <4>1, TimeBound DEF FreshAt, Writing, TypeOK
        <5>4. QED
          BY <5>1, <5>2, <5>3
      <4>2. CASE ~Alone
        BY <1>1, <4>2 DEF Kept, Warm
      <4>3. QED
        BY <4>1, <4>2
    <3>3. Indexed'
      BY <1>1, <1>2, <2>2, <3>1, <3>2 DEF Kept, Indexed
    <3>4. Warm' /\ Written' /\ MemoryNewest'
      BY <1>1, <1>2, <2>2, <3>1 DEF Kept, Warm, Written, MemoryNewest
    <3>5. QED
      BY <3>3, <3>4
  <2>3. QED
    BY <1>6, <2>1, <2>2
<1>9. QED
  BY <1>5, <1>7, <1>8 DEF Kept

\* The steps of a removal, which is alone.
LEMMA RemoversKept ==
    ASSUME TypeOK, Resting, Careful, Core, Kept, NEW th \in use.threads,
           xRemoveMeta(th) \/ DeleteFile(th)
    PROVE  Kept'
<1> DEFINE c == call[th]
           p == c.path
           d == call'[th]
<1>1. /\ th \in Threads /\ call \in [Threads -> Call] /\ c \in Call /\ p \in Paths
      /\ \A other \in Threads : other # th => call'[other] = call[other]
      /\ use' = use /\ kind' = kind /\ lock' = lock
  BY ThreadAlters DEF TypeOK, Call, procVars, RemoveStep
<1>2. c.op = "remove" /\ "remove" \in use.ops /\ Alone /\ Alone'
  <2>1. c.op = "remove" /\ "remove" \in use.ops
    BY <1>1 DEF xRemoveMeta, DeleteFile, At, Resting, RestingAt
  <2>2. QED
    BY <1>1, <2>1, CarefulIs DEF Alone
<1>3. d.step \in {"query", "idle", "delete", "unindex"} /\ d.op # "read"
  BY <1>1, <1>2, IdleType DEF xRemoveMeta, DeleteFile, Goto, Finish, Call
<1>4. WarmAt(th)' /\ FillsAt(th)' /\ IndexFirstAt(th)' /\ ReadsAt(th)'
  BY <1>3 DEF WarmAt, FillsAt, IndexFirstAt, ReadsAt, Loading
<1>5. \A h \in Threads : h # th => WarmAt(h)' /\ FillsAt(h)' /\ IndexFirstAt(h)' /\ ReadsAt(h)'
  BY <1>1, <1>2, OthersKept
<1>6. \/ UNCHANGED <<imts, imeta, acked>>
      \/ \E t \in Times : /\ acked' = [acked EXCEPT ![p] = @ \ {t}]
                          /\ UNCHANGED indexVars \/ (hasMeta(p, t) /\ removeMeta(p, t))
  BY <1>1 DEF xRemoveMeta, DeleteFile, indexVars, Call
<1>7. CASE UNCHANGED <<imts, imeta, acked>>
  BY <1>1, <1>2, <1>4, <1>5, <1>7 DEF Kept, Indexed, Warm, Written, MemoryNewest
<1>8. ASSUME NEW t \in Times, acked' = [acked EXCEPT ![p] = @ \ {t}],
             UNCHANGED indexVars \/ (hasMeta(p, t) /\ removeMeta(p, t))
      PROVE  Kept'
  <2>1. \A q \in Paths : acked'[q] = acked[q] \ (IF q = p THEN {t} ELSE {})
    BY <1>8 DEF TypeOK
  <2>2. Warm' /\ Written'
    BY <1>2 DEF Warm, Written
  <2>3. CASE UNCHANGED indexVars
    BY <1>1, <1>2, <1>4, <1>5, <2>1, <2>2, <2>3 DEF Kept, Indexed, MemoryNewest, indexVars
  <2>4. CASE hasMeta(p, t) /\ removeMeta(p, t) /\ kind = "no"
    BY <1>1, <1>4, <1>5, <2>2, <2>4 DEF Kept, Indexed, MemoryNewest
  <2>5. CASE hasMeta(p, t) /\ removeMeta(p, t) /\ kind # "no"
    <3>1. \A q \in Paths : imeta'[q] = imeta[q] \ (IF q = p THEN {t} ELSE {})
      BY <1>1, <2>5 DEF removeMeta, TypeOK
    <3>2. \A q \in Paths : imts'[q] = IF q # p THEN imts[q] ELSE
              IF kind = "memory" /\ imts[p] = {t} THEN NoEntry ELSE imts[p] \ {t}
      BY <1>1, <2>5 DEF removeMeta, TypeOK
    <3>3. imts[p] # NoEntry /\ t \in imts[p] \intersect imeta[p]
      BY <2>5 DEF hasMeta
    <3>4. imts[p] \ {t} # NoEntry
      BY <1>1, <3>3, NoEntryDistinct DEF TypeOK
    <3>5. Indexed'
      BY <1>1, <2>1, <3>1, <3>2, <3>3, <3>4 DEF Kept, Indexed
    <3>6. MemoryNewest'
      BY <1>1, <2>1, <3>2, <3>3, <3>4 DEF Kept, MemoryNewest
    <3>7. QED
      BY <1>4, <1>5, <2>2, <3>5, <3>6 DEF Kept
  <2>6. QED
    BY <1>8, <2>3, <2>4, <2>5
<1>9. QED
  BY <1>6, <1>7, <1>8

\* What a process that ends leaves in the index.
LEMMA LeavesKept ==
    ASSUME TypeOK, Careful, Core, Written, ~emptied => Kept, ~emptied',
           UNCHANGED <<use, kind, acked>>, lock' = lock \/ ~lock', Resting,
           LeaveIndex \/ (LeaveFile /\ kind # "memory")
    PROVE  (Indexed /\ Warm /\ MemoryNewest /\ Written)'
<1>1. Alone' = Alone
  BY DEF Alone
<1>2. CASE kind = "memory" /\ LeaveIndex
  <2>1. imts' = NoTimes /\ ~emptied /\ Alone /\ ~lock'
    BY <1>2, CarefulIs DEF LeaveIndex, Kept, MemoryNewest
  <2>2. QED
    BY <1>1, <1>2, <2>1 DEF NoTimes, Indexed, Warm, Written, MemoryNewest
<1>3. CASE UNCHANGED <<indexVars, emptied>>
  BY <1>1, <1>3 DEF indexVars, Kept, Indexed, Warm, Written, MemoryNewest
<1>4. CASE /\ imts' = [p \in Paths |-> IF whole[p] = {} THEN NoEntry ELSE whole[p]]
           /\ imeta' = whole /\ kind = "bdb"
  <2>1. \A p \in Paths : whole[p] # NoEntry /\ acked[p] \subseteq whole[p]
    BY NoEntryDistinct DEF TypeOK, Core, Stored
  <2>2. \A p \in Paths : imts'[p] = IF whole[p] = {} THEN NoEntry ELSE whole[p]
    BY <1>4
  <2>3. Indexed'
    BY <1>4, <2>1, <2>2 DEF Indexed
  <2>4. Written' /\ Warm' /\ MemoryNewest'
    BY <1>1, <1>4, <2>1, <2>2 DEF Warm, Written, MemoryNewest
  <2>5. QED
    BY <2>3, <2>4
<1>5. rebuild = "filled" => kind = "bdb"
  BY DEF Resting
<1>6. QED
  BY <1>2, <1>3, <1>4, <1>5 DEF LeaveIndex, LeaveFile

\* The steps of the process.
LEMMA ProcessKept ==
    ASSUME TypeOK, Resting, Careful, Core, Written, ~emptied => Kept,
           (\E unlock, autoRepair \in BOOLEAN : Open(unlock, autoRepair))
               \/ Close \/ Crash \/ Reindex \/ ReindexCloses
    PROVE  Written' /\ (~emptied' => Kept')
<1>1. use' = use /\ kind' = kind /\ acked' = acked /\ Alone' = Alone
  BY DEF Open, Close, Crash, Reindex, ReindexCloses, histVars, Alone
<1>2. Written'
  BY <1>1 DEF Written
<1>3. ASSUME ~emptied', Close \/ Crash \/ ReindexCloses PROVE Kept'
  <2>1. \A h \in Threads : call'[h].step = "idle" /\ call'[h].op = "none"
    BY <1>3, IdleType DEF Close, Crash, ReindexCloses, EndProcess
  <2>2. \A h \in Threads : WarmAt(h)' /\ FillsAt(h)' /\ IndexFirstAt(h)' /\ ReadsAt(h)'
    BY <2>1 DEF WarmAt, FillsAt, IndexFirstAt, ReadsAt, Loading
  <2>3. CASE LeaveIndex \/ (LeaveFile /\ kind # "memory")
    <3>1. lock' = lock \/ ~lock'
      BY <1>3 DEF Close, Crash, ReindexCloses
    <3>2. QED
      BY <1>1, <1>3, <2>2, <2>3, <3>1, LeavesKept DEF Kept
  <2>4. CASE UNCHANGED <<indexVars, emptied>> /\ ~lock'
    BY <1>1, <1>3, <2>2, <2>4 DEF indexVars, Kept, Indexed, Warm, Written, MemoryNewest
  <2>5. ReindexCloses => kind # "memory"
    BY DEF ReindexCloses, Resting
  <2>6. QED
    BY <1>3, <2>3, <2>4, <2>5 DEF Close, Crash, ReindexCloses
<1>4. ASSUME ~emptied', (\E unlock, autoRepair \in BOOLEAN : Open(unlock, autoRepair)) \/ Reindex
      PROVE  Kept'
  <2>1. Kept /\ UNCHANGED <<call, imeta, stored>>
    BY <1>4 DEF Open, Reindex, indexVars, storeVars
  <2>2. \A h \in Threads : call[h].step = "idle"
    BY <1>4 DEF Open, Reindex, Quiet, Resting, RestingAt
  <2>3. \A h \in Threads : WarmAt(h)' /\ FillsAt(h)' /\ IndexFirstAt(h)' /\ ReadsAt(h)'
    BY <1>1, <2>1, <2>2 DEF Kept, WarmAt, FillsAt, IndexFirstAt, ReadsAt, Loading
  <2>4. CASE imts' = imts
    BY <1>1, <1>4, <2>1, <2>3, <2>4
    DEF Open, Reindex, Kept, Indexed, Warm, Written, MemoryNewest
  <2>5. CASE lock /\ doRepair
    <3>1. kind # "memory"
      BY <2>1, <2>5 DEF Kept, MemoryNewest
    <3>2. \A p \in Paths : imts'[p] = IF imts[p] = NoEntry \/ imts[p] \intersect imeta[p] = {}
                                      THEN NoEntry ELSE imts[p] \intersect imeta[p]
      BY <2>5 DEF doRepair
    <3>3. Indexed'
      <4>1. \A p \in Paths : imts[p] # NoEntry => imts[p] \intersect imeta[p] # NoEntry
        BY NoEntryDistinct DEF TypeOK
      <4>2. QED
        BY <1>1, <2>1, <3>1, <3>2, <4>1 DEF Kept, Indexed
    <3>4. Warm'
      <4>1. ASSUME ~Alone, kind = "bdb", NEW p \in Paths
            PROVE  imts'[p] = imts[p] /\ imts[p] # NoEntry /\ imts[p] # {} /\ imts[p] \subseteq imeta[p]
        BY <2>1, <3>2, <4>1 DEF Kept, Warm
      <4>2. QED
        BY <1>1, <2>1, <4>1 DEF Warm
    <3>5. QED
      BY <1>1, <1>2, <2>3, <3>1, <3>3, <3>4 DEF Kept, MemoryNewest
  <2>6. QED
    BY <1>4, <2>4, <2>5 DEF Open, Reindex, indexVars
<1>5. QED
  BY <1>2, <1>3, <1>4

\* To begin with the index lists what the storage holds, or was emptied.
LEMMA InitKept == Init /\ Careful => Written /\ (~emptied => Kept)
<1> SUFFICES ASSUME Init, Careful PROVE Written /\ (~emptied => Kept)
  OBVIOUS
<1>1. TypeOK
  BY InitTypeOK
<1>2. \A p \in Paths : stored[p] # NoEntry
  BY <1>1, NoEntryDistinct DEF TypeOK
<1>3. acked = stored
  BY DEF Init
<1>4. ~Alone => \A p \in Paths : stored[p] # {}
  BY DEF Init, Careful, CarefulUse, Alone
<1>5. Written
  BY <1>3, <1>4 DEF Written
<1>6. ASSUME ~emptied PROVE Kept
  <2>1. kind = "bdb" => /\ imts = [p \in Paths |-> IF stored[p] = {} THEN NoEntry ELSE stored[p]]
                        /\ imeta = stored
    BY <1>6 DEF Init
  <2>2. Indexed
    BY <1>2, <1>3, <2>1 DEF Indexed
  <2>3. Warm
    BY <1>2, <1>4, <2>1 DEF Warm
  <2>4. MemoryNewest
    BY DEF Init, MemoryNewest, NoTimes
  <2>5. \A th \in Threads : WarmAt(th) /\ FillsAt(th) /\ IndexFirstAt(th) /\ ReadsAt(th)
    BY IdleType DEF Init, WarmAt, FillsAt, IndexFirstAt, ReadsAt, Loading
  <2>6. QED
    BY <1>5, <2>2, <2>3, <2>4, <2>5 DEF Kept
<1>7. QED
  BY <1>5, <1>6

\* A goroutine's step does not take the last acknowledged version of an entry
\* while another goroutine is at work.
LEMMA ThreadWritten ==
    ASSUME TypeOK, Resting, Careful, Written, NEW th \in use.threads,
           (\E op \in use.ops, p \in Paths : Begin(th, op, p))
               \/ ReadStep(th) \/ WriteStep(th) \/ RemoveStep(th)
    PROVE  Written'
<1>1. th \in Threads /\ use' = use /\ Alone' = Alone
  BY ThreadAlters DEF procVars, Alone
<1>2. CASE Alone
  BY <1>1, <1>2 DEF Written
<1>3. CASE ~Alone
  <2>1. ~ (xRemoveMeta(th) \/ DeleteFile(th) \/ DeleteFails(th) \/ SelectPeriod(th))
    BY <1>1, <1>3, CarefulIs
    DEF xRemoveMeta, DeleteFile, DeleteFails, SelectPeriod, At, Resting, RestingAt
  <2>2. UNCHANGED acked \/ WriteFile(th)
    BY <2>1
    DEF Begin, ReadStep, WriteStep, RemoveStep, QueryTimes, ListStorage, ListFails, FillIndex,
        LoadMeta, FetchMeta, KeepMeta, Loaded, Stamp, IndexMeta, CreateFile, StoreFails, histVars
  <2>3. \A p \in Paths : acked[p] \subseteq acked'[p]
    BY <2>2 DEF WriteFile, TypeOK
  <2>4. QED
    BY <1>1, <1>3, <2>3 DEF Written
<1>4. QED
  BY <1>2, <1>3

\* The third layer of the invariant.
LEMMA ReadersTold == Spec => [](Careful => Written /\ (~emptied => Kept))
<1>1. Careful /\ TypeOK /\ Resting /\ Core /\ Written /\ (~emptied => Kept) /\ [Next]_vars
        => Written' /\ (~emptied' => Kept')
  <2> SUFFICES ASSUME Careful, TypeOK, Resting, Core, Written, ~emptied => Kept, [Next]_vars
               PROVE  Written' /\ (~emptied' => Kept')
    OBVIOUS
  <2>1. CASE UNCHANGED vars
    BY <2>1 DEF vars, procVars, storeVars, indexVars, histVars, Kept, Indexed, Warm, Written,
                MemoryNewest, WarmAt, FillsAt, IndexFirstAt, ReadsAt, Alone, Loading, Newest, Oldest
  <2>2. ASSUME NEW th \in use.threads,
               (\E op \in use.ops, p \in Paths : Begin(th, op, p))
                   \/ ReadStep(th) \/ WriteStep(th) \/ RemoveStep(th)
        PROVE  Written' /\ (~emptied' => Kept')
    <3>1. Written'
      BY <2>2, ThreadWritten
    <3>2. emptied' = emptied
      BY <2>2, ThreadAlters DEF procVars
    <3>3. Kept => Kept'
      BY <2>2, QueryKept, ListKept, ReadersKept, FillKept, StoringKept, WritersKept, RemoversKept
      DEF ReadStep, WriteStep, RemoveStep
    <3>4. QED
      BY <3>1, <3>2, <3>3
  <2>3. CASE Next
    BY <2>2, <2>3, ProcessKept DEF Next
  <2>4. QED
    BY <2>1, <2>3
<1>2. [Next]_vars /\ TypeOK => use' = use
  <2> SUFFICES ASSUME [Next]_vars, TypeOK PROVE use' = use
    OBVIOUS
  <2>1. CASE Next
    BY <2>1, ThreadAlters DEF Next, Open, Close, Crash, Reindex, ReindexCloses, procVars
  <2>2. QED
    BY <2>1 DEF vars, procVars
<1>3. TypeOK /\ Resting /\ (Undisturbed => Core) /\ (Careful => Written /\ (~emptied => Kept))
        /\ [Next]_vars => (Careful => Written /\ (~emptied => Kept))'
  BY <1>1, <1>2, CarefulIs DEF Careful
<1>4. QED
  BY <1>3, InitKept, TypesAndCalls, StorageAndIndex, PTL DEF Spec

\* The invariant.
THEOREM IndexedStoreInvariant == Spec => []IInv
BY TypesAndCalls, StorageAndIndex, ReadersTold, PTL DEF IInv

\* In a careful use, a version whose write succeeded is stored whole until it is
\* removed, and listed to the next reader, through failures of other writes,
\* crashes, unlocks, repairs and rebuilds of the index, unless a rebuild was cut
\* short and none filled the index since (storeAndIndexMeta, odss.go;
\* reindexPIndex, index.go).
THEOREM IndexedStoreAckedListed == Spec => [](Careful => AckedListed)
<1>1. IInv /\ Careful => AckedListed
  <2> SUFFICES ASSUME IInv, Careful, NEW p \in Paths
               PROVE  /\ acked[p] \subseteq whole[p]
                      /\ kind # "memory" /\ ~emptied => acked[p] \subseteq Listed(p)
    BY DEF AckedListed
  <2>1. TypeOK /\ Resting /\ Core /\ (~emptied => Kept)
    BY CarefulIs DEF IInv
  <2>2. acked[p] \subseteq whole[p] /\ whole[p] \subseteq stored[p]
    BY <2>1 DEF Core, Stored
  <2>3. ASSUME kind = "bdb", ~emptied PROVE acked[p] \subseteq Listed(p)
    BY <2>1, <2>2, <2>3 DEF Kept, Indexed, Listed
  <2>4. CASE kind = "no"
    BY <2>1, <2>2, <2>4 DEF Resting, NoTimes, Listed
  <2>5. QED
    BY <2>1, <2>2, <2>3, <2>4, CarefulIs
<1>2. QED
  BY <1>1, IndexedStoreInvariant, PTL

\* In a careful use, with an index that no rebuild left empty, a read chooses a
\* version at least as new as every write that succeeded before it began
\* (doGetMetaTimesFor, odss.go).
THEOREM IndexedStoreNewestChosen == Spec => [](Careful => NewestChosen)
<1>1. IInv /\ Careful => NewestChosen
  BY DEF IInv, Kept, ReadsAt, NewestChosen
<1>2. QED
  BY <1>1, IndexedStoreInvariant, PTL

\* In a careful use with a bdb index that no rebuild left empty, a call asks the
\* storage only for versions whose write did not succeed, and a read of an entry
\* only if no write of it did (doGetMetaAt, odss.go).
THEOREM IndexedStoreServed == Spec => [](Careful => ServedFromIndex)
<1>1. IInv /\ Careful => ServedFromIndex
  <2> SUFFICES ASSUME IInv, Careful, kind = "bdb", ~emptied, NEW th \in Threads,
                      call[th].step = "fetch"
               PROVE  /\ Oldest(call[th].todo) \notin acked[call[th].path]
                      /\ call[th].op # "remove" => acked[call[th].path] = {}
    BY DEF ServedFromIndex
  <2> DEFINE p == call[th].path
             oldest == Oldest(call[th].todo)
  <2>1. TypeOK /\ Resting /\ Kept
    BY DEF IInv
  <2>2. p \in Paths /\ call[th].todo \in SUBSET Times /\ call[th].todo # {}
    BY <2>1 DEF TypeOK, Call, Resting, RestingAt
  <2>3. Alone
    BY <2>1 DEF Kept, WarmAt
  <2>4. imts[p] # NoEntry /\ call[th].todo \subseteq imts[p] /\ oldest \notin imeta[p]
    BY <2>1, <2>3 DEF Kept, FillsAt, Loading
  <2>5. oldest \in call[th].todo /\ oldest \in imts[p]
    BY <2>2, <2>4, OldestIs
  <2> HIDE DEF oldest
  <2>6. \A a \in acked[p] : a \in imts[p] /\ a \in imeta[p] /\ oldest < a
    BY <2>1, <2>2, <2>4, <2>5 DEF Kept, Indexed
  <2>7. ASSUME call[th].op # "remove", NEW a \in acked[p] PROVE FALSE
    <3>1. a <= oldest
      BY <2>1, <2>3, <2>5, <2>6, <2>7 DEF Kept, FillsAt, Loading
    <3>2. a \in Nat /\ oldest \in Nat
      BY <2>1, <2>2, <2>5 DEF TypeOK, Times
    <3>3. QED
      BY <2>6, <3>1, <3>2
  <2>8. QED
    BY <2>4, <2>6, <2>7 DEF oldest
<1>2. QED
  BY <1>1, IndexedStoreInvariant, PTL
=============================================================================
