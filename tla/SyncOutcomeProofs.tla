------------------------- MODULE SyncOutcomeProofs -------------------------
(***************************************************************************)
(* What TLAPS proves of what the runs of a synchronization leave behind    *)
(* them.                                                                   *)
(*                                                                         *)
(* A run that nothing disturbs and that reports no error leaves each side  *)
(* as it was to be (Synchronized). Its tasks start when their namespace    *)
(* has been merged once and are over before it ends, and the step of a     *)
(* task says how far each side is: as it was (Early), with all that is to  *)
(* be listed (Middle), as it is to be (Final). When the root is done, so   *)
(* is every entry. Sides that such a run left the same stay as they are:   *)
(* the next runs find nothing to write (InSyncIdle).                       *)
(*                                                                         *)
(* Between two object stores, the newest content survives runs that crash  *)
(* or whose writes are refused (NewestSurvives). A run may be anywhere     *)
(* when it stops, so the argument is about what each side had when the run *)
(* began: it still lists that, with contents at least as new (Grown),      *)
(* because a task knows at least what its side had (BothRead) and copies   *)
(* only from the newer side to the older.                                  *)
(***************************************************************************)
EXTENDS SyncProofs

\* A run that nothing has disturbed and that reports no error so far.
Smooth == run = "syncing" /\ upset = {} /\ ~reported

\* A file system holds what its directories list.
Tidy ==
    \A s \in Sides, p \in Paths :
        kind[s] = "fsy" /\ ~Listed(store[s], p) => store[s][p].ch = {}

\* What side s held of p when the run began.
Had(s, p) == Listed(before[s], p)

\* The walk goes down: a task starts when its namespace has been merged once, for
\* everything that one side had, and is done before the namespace ends.
WalkAt(p, up, at) ==
    /\ at # "off" <=> up \in {"children", "rightAfter", "done"} /\ \E s \in Sides : Had(s, p)
    /\ up \in {"rightAfter", "done"} => at \in {"off", "done"}

\* A task knows which sides had its entry, and what they held.
KnowsAt(p, s, t) ==
    t.step # "off" =>
        /\ t.exist[s] <=> Had(s, p)
        /\ s \notin t.failed
        /\ t.exist[s] /\ s \notin t.unread => t.meta[s] = before[s][p]

\* Only the left merge of a namespace that the right side alone had may fail: the
\* first one where the left side is not to have it.
ErrsAt(p, t) ==
    t.err /\ t.step # "done" =>
        /\ t.step \in {"rightBefore", "children", "rightAfter"}
        /\ ~t.exist["left"]
        /\ t.step # "rightAfter" => ~Wanted("left", p)

\* What is copied is new or different.
CopiedAt(t) == t.step = "fill" => Created(t) \/ Updated(t)

\* What side s listed in p, what it is to list, and what it is to hold.
HadIn(s, p) == {q \in Children(p) : Had(s, q)}
WantedIn(s, p) == {q \in Children(p) : Wanted(s, q)}

Final(p, s, e) ==
    /\ e.mtime = Winner(p).mtime
    /\ p \in Spaces => e.ch = WantedIn(s, p)
    /\ p \notin Spaces => e.data = Winner(p).data

\* Side s is as it was, but for namespaces that are made.
Early(p, s, e) ==
    /\ Had(s, p) => e = before[s][p]
    /\ kind[s] = "fsy" /\ ~Had(s, p) => e.ch = {}

\* Side s lists in p all it had and is to have, and already holds what it is to
\* hold if it is not merged again.
Middle(p, s, t, e) ==
    /\ HadIn(s, p) \subseteq e.ch
    /\ Wanted(s, p) =>
        /\ WantedIn(s, p) \subseteq e.ch
        /\ ~(t.exist[s] /\ Updated(t)) => Final(p, s, e)

EarlySteps(s) ==
    {"off", "metas", "leftBefore"} \union (IF s = "left" THEN {} ELSE {"rightBefore"})
MiddleSteps(s) == {"children", IF s = "left" THEN "rightBefore" ELSE "rightAfter"}
LateSteps(s) == {"done"} \union (IF s = "left" THEN {"rightAfter"} ELSE {})

ProgressAt(p, s, t, e) ==
    /\ t.step \in EarlySteps(s) => Early(p, s, e)
    /\ t.step = "fill" /\ s = Origin(t) => Early(p, s, e)
    /\ t.step \in MiddleSteps(s) => Middle(p, s, t, e)
    /\ t.step \in LateSteps(s) /\ Wanted(s, p) => Final(p, s, e)

TaskGoes(p, t) == ErrsAt(p, t) /\ CopiedAt(t) /\ \A s \in Sides : KnowsAt(p, s, t)

Going ==
    /\ task[Root].step # "off"
    /\ \A p \in Paths \ {Root} : WalkAt(p, task[Parent[p]].step, task[p].step)
    /\ \A p \in Paths : TaskGoes(p, task[p])
    /\ \A p \in Paths, s \in Sides : ProgressAt(p, s, task[p], store[s][p])

RInv == TInv /\ Tidy /\ (Smooth => Going) /\ Synchronized

-----------------------------------------------------------------------------
(* What was there and what is wanted follow the tree *)

LEMMA HadFacts ==
    ASSUME NEW s \in Sides
    PROVE  /\ Had(s, Root) /\ Wanted(s, Root)
           /\ \A p \in Paths \ {Root} :
                /\ Had(s, p) <=> p \in before[s][Parent[p]].ch /\ Had(s, Parent[p])
                /\ Wanted(s, p) => Wanted(s, Parent[p])
           /\ \A p \in Paths :
                /\ Wanted(s, p) => \E o \in Sides : Had(o, p)
                /\ Had("left", p) => Wanted(s, p)
<1>1. /\ Had(s, Root)
      /\ \A p \in Paths \ {Root} :
            Had(s, p) <=> p \in before[s][Parent[p]].ch /\ Had(s, Parent[p])
  BY RootListed, ListedStep DEF Had
<1>2. Wanted(s, Root)
  BY RootListed DEF Wanted
<1>3. ASSUME NEW p \in Paths \ {Root}, Wanted(s, p) PROVE Wanted(s, Parent[p])
  <2>1. \A o \in Sides : Listed(before[o], p) => Listed(before[o], Parent[p])
    BY ListedStep
  <2>2. QED
    BY <1>3, <2>1 DEF Wanted, Sides
<1>4. \A p \in Paths : /\ Wanted(s, p) => \E o \in Sides : Had(o, p)
                       /\ Had("left", p) => Wanted(s, p)
  BY DEF Wanted, Had, Sides
<1>5. QED
  BY <1>1, <1>2, <1>3, <1>4

\* So does what is above an entry that was there, or is wanted.
LEMMA HadAbove ==
    ASSUME NEW s \in Sides, NEW p \in Paths, NEW q \in Line(p)
    PROVE  /\ Had(s, p) => Had(s, q)
           /\ Wanted(s, p) => Wanted(s, q)
<1>1. \A o \in Sides : Listed(before[o], p) => Listed(before[o], q)
  BY ListedUp
<1>2. QED
  BY <1>1 DEF Had, Wanted, Sides

\* What a namespace listed of a side that had it is all the side had in it.
LEMMA HadChildren ==
    ASSUME NEW s \in Sides, NEW p \in Paths, before[s][p].ch \subseteq Children(p)
    PROVE  HadIn(s, p) = IF Had(s, p) THEN before[s][p].ch ELSE {}
<1>1. \A q \in Children(p) : Had(s, q) <=> q \in before[s][p].ch /\ Had(s, p)
  BY ChildFacts, HadFacts
<1>2. QED
  BY <1>1 DEF HadIn

\* What is wanted in a namespace, from what both sides had in it.
LEMMA WantedChildren ==
    ASSUME NEW p \in Paths
    PROVE  /\ WantedIn("left", p) = HadIn("left", p) \union (IF bidir /\ ~keep THEN HadIn("right", p) ELSE {})
           /\ WantedIn("right", p) = HadIn("left", p) \union (IF bidir \/ keep THEN HadIn("right", p) ELSE {})
BY DEF WantedIn, HadIn, Wanted, Had

-----------------------------------------------------------------------------
(* What the state of a run says *)

\* What is to be shown of the state a step leads to.
LEMMA GoesOn ==
    ASSUME UNCHANGED runVars, task'[Root].step # "off",
           \A p \in Paths \ {Root} : WalkAt(p, task'[Parent[p]].step, task'[p].step),
           \A p \in Paths : TaskGoes(p, task'[p]),
           \A p \in Paths, s \in Sides : ProgressAt(p, s, task'[p], store'[s][p])
    PROVE  Going'
<1>1. UNCHANGED <<kind, bidir, keep, before>>
  BY DEF runVars, options
<1>2. \A p \in Paths \ {Root} : WalkAt(p, task[Parent[p]].step, task[p].step)'
  BY <1>1 DEF WalkAt, Had
<1>3. \A s \in Sides, p \in Paths : Had(s, p)' = Had(s, p) /\ Wanted(s, p)' = Wanted(s, p)
  BY <1>1 DEF Had, Wanted
<1>4. \A p \in Paths : TaskGoes(p, task[p])'
  BY <1>1 DEF TaskGoes, ErrsAt, CopiedAt, KnowsAt, Had, Wanted, Created, Updated, Sides
<1>5. \A p \in Paths, s \in Sides : ProgressAt(p, s, task[p], store[s][p])'
  BY <1>1 DEF ProgressAt, Early, Middle, Final, EarlySteps, MiddleSteps, LateSteps, Had, Wanted,
              HadIn, WantedIn, Winner, Origin, RTL, Updated
<1>6. QED
  BY <1>2, <1>4, <1>5 DEF Going

\* Below an entry whose task is over, or never starts, all tasks are over or never
\* start.
OverAt(p, at) ==
    /\ at \in {"off", "done"}
    /\ (\E s \in Sides : Had(s, p)) => at = "done"

Over(p) == OverAt(p, task[p].step)

LEMMA OverStep ==
    ASSUME Going, NEW p \in Paths \ {Root},
           task[Parent[p]].step = "rightAfter" \/ Over(Parent[p])
    PROVE  Over(p)
<1>1. WalkAt(p, task[Parent[p]].step, task[p].step)
  BY DEF Going
<1>2. \A s \in Sides : Had(s, p) => Had(s, Parent[p])
  BY HadFacts
<1>3. CASE task[Parent[p]].step = "rightAfter"
  BY <1>1, <1>3 DEF Over, OverAt, WalkAt
<1>4. CASE Over(Parent[p])
  BY <1>1, <1>2, <1>4 DEF Over, OverAt, WalkAt
<1>5. QED
  BY <1>3, <1>4

LEMMA OverBelow ==
    ASSUME Going, NEW q \in Paths, NEW r \in Line(q), Over(r)
    PROVE  Over(q)
<1> DEFINE S == {x \in Paths : r \in Line(x) => Over(x)}
<1>1. Root \in S
  <2>1. Line(Root) = {Root}
    BY AboveIs, TreeRooted DEF Line
  <2>2. QED
    BY <2>1, TreeRooted
<1>2. ASSUME NEW x \in Paths \ {Root}, Parent[x] \in S PROVE x \in S
  <2> SUFFICES ASSUME r \in Line(x) PROVE Over(x)
    OBVIOUS
  <2>1. CASE r = x
    BY <2>1
  <2>2. CASE r # x
    <3>1. r \in Line(Parent[x])
      BY <2>2, ParentIs DEF Line
    <3>2. Over(Parent[x])
      BY <1>2, <3>1
    <3>3. QED
      BY <3>2, OverStep
  <2>3. QED
    BY <2>1, <2>2
<1>3. S = Paths
  <2> HIDE DEF S
  <2>1. S \in SUBSET Paths
    BY DEF S
  <2>2. QED
    BY <1>1, <1>2, <2>1, TreeReached
<1>4. QED
  BY <1>3

LEMMA ParentWorks ==
    ASSUME Going, NEW p \in Paths \ {Root}, task[p].step \notin {"off", "done"}
    PROVE  task[Parent[p]].step = "children"
BY DEF Going, WalkAt

\* What a task that is not over was to find, or to make, is listed.
LEMMA ActiveListed ==
    ASSUME Going, NEW s \in Sides, NEW p \in Paths, task[p].step \notin {"off", "done"},
           Had(s, p) \/ Wanted(s, p)
    PROVE  Listed(store[s], p)
<1> DEFINE S == {x \in Paths : task[x].step \notin {"off", "done"} /\ (Had(s, x) \/ Wanted(s, x))
                                  => Listed(store[s], x)}
<1>1. Root \in S
  BY RootListed, TreeRooted
<1>2. ASSUME NEW x \in Paths \ {Root}, Parent[x] \in S PROVE x \in S
  <2> SUFFICES ASSUME task[x].step \notin {"off", "done"}, Had(s, x) \/ Wanted(s, x)
               PROVE  Listed(store[s], x)
    OBVIOUS
  <2>1. task[Parent[x]].step = "children"
    BY ParentWorks
  <2>2. Had(s, x) => Had(s, Parent[x])
    BY HadFacts
  <2>3. Wanted(s, x) => Wanted(s, Parent[x])
    BY HadFacts
  <2>4. Listed(store[s], Parent[x])
    BY <1>2, <2>1, <2>2, <2>3
  <2>5. Parent[x] \in Paths /\ x \in Children(Parent[x])
    BY ParentIs
  <2>6. Middle(Parent[x], s, task[Parent[x]], store[s][Parent[x]])
    BY <2>1, <2>5 DEF Going, ProgressAt, MiddleSteps
  <2>7. x \in store[s][Parent[x]].ch
    BY <2>3, <2>5, <2>6 DEF Middle, HadIn, WantedIn
  <2>8. QED
    BY <2>4, <2>7, ListedStep
<1>3. S = Paths
  <2> HIDE DEF S
  <2>1. S \in SUBSET Paths
    BY DEF S
  <2>2. QED
    BY <1>1, <1>2, <2>1, TreeReached
<1>4. QED
  BY <1>3

\* A run that still goes well met no fault and reported no error.
LEMMA SmoothStep ==
    ASSUME TInv, UNCHANGED <<runVars, run>>, NEW f \in {"read", "write", "copy", "crash"},
           NoFault \/ Fault(f) \/ Misreads, reported => reported', Smooth'
    PROVE  Smooth /\ NoFault
<1>1. upset = {} /\ ~Fault(f) /\ ~Misreads
  BY DEF Smooth, Fault, Misreads, Mishap, NoFault, noFault
<1>2. QED
  BY <1>1 DEF Smooth

-----------------------------------------------------------------------------
(* What a task derives is what is wanted *)

LEMMA TaskKnows ==
    ASSUME TInv, Going, NEW p \in Paths, task[p].step # "off"
    PROVE  /\ \E s \in Sides : Had(s, p)
           /\ \A s \in Sides :
                /\ task[p].exist[s] <=> Had(s, p)
                /\ s \notin task[p].failed
                /\ Had(s, p) /\ s \notin task[p].unread =>
                      task[p].meta[s] = before[s][p] /\ before[s][p].ch \subseteq Children(p)
<1>1. \A s \in Sides : KnowsAt(p, s, task[p])
  BY DEF Going, TaskGoes
<1>2. \E s \in Sides : Had(s, p)
  <2>1. CASE p = Root
    BY <2>1, HadFacts DEF Sides
  <2>2. CASE p # Root
    BY <2>2 DEF Going, WalkAt
  <2>3. QED
    BY <2>1, <2>2
<1>3. \A s \in Sides : task[p].meta[s].ch \subseteq Children(p)
  BY TaskTyped DEF TaskedAt
<1>4. QED
  BY <1>1, <1>2, <1>3 DEF KnowsAt

Merging == {"leftBefore", "rightBefore", "children", "rightAfter"}

\* The children of a namespace that a task has read are those it had.
LEMMA KnownChildren ==
    ASSUME TInv, Going, NEW p \in Paths, task[p].step \in Merging, NEW s \in Sides
    PROVE  exCh(task[p], s) = HadIn(s, p)
<1>1. /\ task[p].exist[s] <=> Had(s, p)
      /\ Had(s, p) => task[p].meta[s] = before[s][p] /\ before[s][p].ch \subseteq Children(p)
  BY TaskKnows, TaskTyped DEF TaskedAt, Merging
<1>2. CASE Had(s, p)
  BY <1>1, <1>2, HadChildren DEF exCh
<1>3. CASE ~Had(s, p)
  <2>1. \A q \in Children(p) : ~Had(s, q)
    BY <1>3, ChildFacts, HadFacts
  <2>2. HadIn(s, p) = {}
    BY <2>1 DEF HadIn
  <2>3. QED
    BY <1>1, <1>3, <2>2 DEF exCh
<1>4. QED
  BY <1>2, <1>3

LEMMA KnownMerges ==
    ASSUME TInv, Going, NEW p \in Spaces, task[p].step \in Merging
    PROVE  /\ MergedBefore(task[p], "left") = WantedIn("left", p)
           /\ MergedBefore(task[p], "right") = HadIn("left", p) \union HadIn("right", p)
           /\ leftAndRight(task[p]) = HadIn("left", p) \union HadIn("right", p)
           /\ \A s \in Sides :
                /\ MergedAfter(task[p], s) = WantedIn(s, p)
                /\ HadIn(s, p) \subseteq MergedBefore(task[p], s)
                /\ WantedIn(s, p) \subseteq MergedBefore(task[p], s)
           /\ mergedMtime(task[p]) = Winner(p).mtime
<1>1. p \in Paths
  BY TreeRooted
<1>2. exCh(task[p], "left") = HadIn("left", p) /\ exCh(task[p], "right") = HadIn("right", p)
  BY <1>1, KnownChildren DEF Sides
<1>3. /\ MergedBefore(task[p], "left") = WantedIn("left", p)
      /\ MergedBefore(task[p], "right") = HadIn("left", p) \union HadIn("right", p)
      /\ leftAndRight(task[p]) = HadIn("left", p) \union HadIn("right", p)
      /\ MergedAfter(task[p], "left") = WantedIn("left", p)
      /\ MergedAfter(task[p], "right") = WantedIn("right", p)
  BY <1>1, <1>2, WantedChildren DEF MergedBefore, MergedAfter, leftMg, rightMg, leftRight, leftAndRight
<1>4. \A s \in Sides : HadIn(s, p) \subseteq MergedBefore(task[p], s)
                       /\ WantedIn(s, p) \subseteq MergedBefore(task[p], s)
  BY <1>1, <1>3, WantedChildren DEF Sides
<1>5. mergedMtime(task[p]) = Winner(p).mtime
  <2>1. /\ \A s \in Sides : task[p].exist[s] <=> Had(s, p)
        /\ \A s \in Sides : Had(s, p) => task[p].meta[s] = before[s][p]
        /\ \E s \in Sides : Had(s, p)
    BY <1>1, TaskKnows, TaskTyped DEF TaskedAt, Merging
  <2>2. QED
    BY <2>1 DEF mergedMtime, Winner, Had, Sides
<1>6. QED
  BY <1>3, <1>4, <1>5 DEF Sides

\* A namespace that is not to be merged first is already as it is to be, or will
\* be merged in the end.
LEMMA UnneededBefore ==
    ASSUME TInv, Going, NEW p \in Spaces, task[p].step \in Merging, NEW s \in Sides,
           ~NeedsBefore(task[p], s) \/ ~Wanted(s, p), Early(p, s, store[s][p])
    PROVE  Middle(p, s, task[p], store[s][p])
<1> DEFINE t == task[p]
           e == store[s][p]
<1>1. p \in Paths
  BY TreeRooted
<1>2. /\ \A o \in Sides : t.exist[o] <=> Had(o, p)
      /\ \A o \in Sides : Had(o, p) => t.meta[o] = before[o][p] /\ before[o][p].ch \subseteq Children(p)
      /\ \E o \in Sides : Had(o, p)
  BY <1>1, TaskKnows, TaskTyped DEF TaskedAt, Merging
<1>3. Had(s, p) => e = before[s][p] /\ e.ch = HadIn(s, p)
  BY <1>1, <1>2, HadChildren DEF Early
<1>4. ~Had(s, p) => HadIn(s, p) = {}
  BY <1>1, ChildFacts, HadFacts DEF HadIn
<1>5. HadIn(s, p) \subseteq e.ch
  BY <1>3, <1>4
<1>6. ASSUME Wanted(s, p)
      PROVE  Had(s, p) /\ WantedIn(s, p) \subseteq HadIn(s, p)
  <2>1. ~NeedsBefore(t, s)
    BY <1>6
  <2>2. Had(s, p)
    <3>1. Wanted(s, p) /\ ~Had(s, p) => Created(t) /\ RTL(t) = (s = "left")
      BY <1>2 DEF Wanted, Had, Created, RTL, Sides
    <3>2. QED
      BY <1>2, <1>6, <2>1, <3>1 DEF NeedsBefore
  <2>3. MergedBefore(t, s) = HadIn(s, p)
    BY <1>1, <1>2, <2>1, <2>2, KnownChildren DEF NeedsBefore
  <2>4. QED
    BY <2>2, <2>3, KnownMerges
<1>7. ASSUME Wanted(s, p), ~(t.exist[s] /\ Updated(t))
      PROVE  Final(p, s, e)
  <2>1. Had(s, p) /\ WantedIn(s, p) \subseteq HadIn(s, p)
    BY <1>6, <1>7
  <2>2. ~Updated(t)
    BY <1>2, <1>7, <2>1
  <2>3. HadIn(s, p) \subseteq WantedIn(s, p)
    <3>1. CASE s = "left"
      BY <1>1, <3>1, WantedChildren
    <3>2. CASE s = "right" /\ ~Had("left", p)
      BY <1>1, <1>7, <3>2, WantedChildren DEF Wanted, Had
    <3>3. CASE s = "right" /\ Had("left", p)
      <4>1. before["left"][p] = before["right"][p]
        BY <1>2, <2>1, <2>2, <3>3 DEF Updated, Sides
      <4>2. HadIn("right", p) = HadIn("left", p)
        BY <1>1, <1>2, <2>1, <3>3, <4>1, HadChildren DEF Sides
      <4>3. QED
        BY <1>1, <3>3, <4>2, WantedChildren
    <3>4. QED
      BY <3>1, <3>2, <3>3 DEF Sides
  <2>4. e.mtime = Winner(p).mtime
    BY <1>2, <1>3, <2>1, <2>2 DEF Winner, Had, Updated, Sides
  <2>5. QED
    BY <1>3, <2>1, <2>3, <2>4 DEF Final
<1>8. QED
  BY <1>3, <1>5, <1>6, <1>7 DEF Middle

-----------------------------------------------------------------------------
(* What the writes leave *)

\* What is below the wanted entries of a namespace is not below its others.
LEMMA GoneUnwanted ==
    ASSUME NEW p \in Paths, NEW s \in Sides, NEW D \in SUBSET Children(p), NEW q \in Paths,
           Line(q) \intersect (D \ WantedIn(s, p)) # {}
    PROVE  ~Wanted(s, q)
<1>1. PICK r \in Line(q) : r \in D /\ r \notin WantedIn(s, p)
  OBVIOUS
<1>2. ~Wanted(s, r)
  BY <1>1 DEF WantedIn
<1>3. QED
  BY <1>2, HadAbove

\* The first merge of a namespace: it lists what its side had and is to have,
\* children that a file system makes have no task yet, and only a left side that
\* is not to have the namespace refuses it.
LEMMA BeforeRefused ==
    ASSUME TInv, Going, NEW p \in Spaces, NEW s \in Sides,
           task[p].step = (IF s = "left" THEN "leftBefore" ELSE "rightBefore"),
           NeedsBefore(task[p], s), RefusesNs(s, p, MakesBefore(task[p], s))
    PROVE  s = "left" /\ ~task[p].exist["left"] /\ ~Wanted("left", p)
<1> DEFINE t == task[p]
           e == store[s][p]
<1>1. p \in Paths /\ t.step \in Merging
  BY TreeRooted DEF Merging
<1>2. /\ \A o \in Sides : t.exist[o] <=> Had(o, p)
      /\ \E o \in Sides : Had(o, p)
  BY <1>1, TaskKnows DEF Merging
<1>3. Early(p, s, e)
  BY <1>1 DEF Going, ProgressAt, EarlySteps, Sides
<1>4. Had(s, p) \/ Wanted(s, p) => Listed(store[s], p)
  BY <1>1, ActiveListed DEF Merging
<1>5. ~Had(s, p)
  BY <1>2, <1>4 DEF RefusesNs, MakesBefore
<1>6. kind[s] = "fsy" => e.ch = {}
  BY <1>3, <1>5 DEF Early
<1>7. ~Listed(store[s], p)
  BY <1>6 DEF RefusesNs
<1>8. ~Wanted(s, p)
  BY <1>4, <1>7
<1>9. CASE s = "left"
  BY <1>2, <1>5, <1>8, <1>9
<1>10. CASE s = "right"
  <2>1. ~Had("right", p)
    BY <1>5, <1>10
  <2>2. Had("left", p)
    BY <1>2, <2>1 DEF Sides
  <2>3. QED
    BY <1>1, <1>8, <1>10, <2>2, HadFacts
<1>11. QED
  BY <1>9, <1>10 DEF Sides

LEMMA BeforePut ==
    ASSUME TInv, Going, NEW p \in Spaces, NEW s \in Sides,
           task[p].step = (IF s = "left" THEN "leftBefore" ELSE "rightBefore"),
           NeedsBefore(task[p], s), NEW st,
           st = PutNs(s, p, MergedBefore(task[p], s), mergedMtime(task[p]))
    PROVE  /\ st \in Stores
           /\ Middle(p, s, task[p], st[p])
           /\ \A q \in Paths \ {p} :
                \/ st[q] = store[s][q]
                \/ task[q].step = "off" /\ q \in Children(p) /\ Early(q, s, st[q])
<1> DEFINE t == task[p]
           C == MergedBefore(t, s)
           e == store[s][p]
<1>1. p \in Paths /\ t.step \in Merging
  BY TreeRooted DEF Merging
<1>2. /\ \A o \in Sides : t.exist[o] <=> Had(o, p)
      /\ \A o \in Sides : Had(o, p) => t.meta[o] = before[o][p] /\ before[o][p].ch \subseteq Children(p)
      /\ \E o \in Sides : Had(o, p)
  BY <1>1, TaskKnows, TaskTyped DEF TaskedAt, Merging
<1>3. Early(p, s, e)
  BY <1>1 DEF Going, ProgressAt, EarlySteps, Sides
<1>4. C \in SUBSET Children(p)
  BY <1>1, TaskTyped, MergedTyped
<1>5. store[s] \in Stores /\ clock \in Nat /\ t \in TaskRecords
  BY <1>1, StoresTyped, TaskTyped DEF TInv, TypeOK
<1>6. mergedMtime(t) \in Nat
  BY <1>5 DEF mergedMtime, TaskRecords, Entries, Sides
<1>7. NsPut(s, p, C, mergedMtime(t), st)
  BY <1>1, <1>4, <1>5, <1>6, PutNsIs
<1>8. /\ HadIn(s, p) \subseteq C /\ WantedIn(s, p) \subseteq C
      /\ mergedMtime(t) = Winner(p).mtime
  BY <1>1, KnownMerges
<1>9. Had(s, p) => e.ch = HadIn(s, p)
  BY <1>1, <1>2, <1>3, HadChildren DEF Early
<1>10. kind[s] # "object" => e.ch \subseteq C
  <2>1. kind[s] \in {"fsy", "object"}
    BY DEF TInv, TypeOK
  <2>2. QED
    BY <1>3, <1>8, <1>9, <2>1 DEF Early
<1>11. ASSUME NEW q \in Paths \ {p}
       PROVE  \/ st[q] = store[s][q]
              \/ task[q].step = "off" /\ q \in Children(p) /\ Early(q, s, st[q])
  <2>1. CASE kind[s] = "object"
    BY <1>7, <2>1 DEF NsPut
  <2>2. CASE kind[s] # "object" /\ q \notin C \ e.ch
    <3>1. Line(q) \intersect (e.ch \ C) = {}
      BY <1>10, <2>2
    <3>2. QED
      BY <1>7, <2>2, <3>1 DEF NsPut
  <2>3. CASE kind[s] # "object" /\ q \in C \ e.ch
    <3>1. Line(q) \intersect (e.ch \ C) = {}
      BY <1>10, <2>3
    <3>2. st[q].ch = {}
      BY <1>7, <2>3, <3>1 DEF NsPut
    <3>3. q \in Children(p) /\ q # Root /\ Parent[q] = p
      BY <1>1, <1>4, <2>3, ChildFacts
    <3>4. task[q].step = "off"
      BY <1>1, <3>3 DEF Going, WalkAt
    <3>5. ~Had(s, q)
      <4>1. Had(s, q) => Had(s, p) /\ q \in HadIn(s, p)
        BY <3>3, HadFacts DEF HadIn
      <4>2. QED
        BY <1>9, <2>3, <4>1
    <3>6. QED
      BY <3>2, <3>3, <3>4, <3>5 DEF Early
  <2>4. QED
    BY <2>1, <2>2, <2>3
<1>12. ASSUME Wanted(s, p), ~(t.exist[s] /\ Updated(t))
       PROVE  C = WantedIn(s, p)
  <2>1. CASE s = "left"
    BY <1>1, <2>1, KnownMerges
  <2>2. CASE s = "right"
    <3>1. C = HadIn("left", p) \union HadIn("right", p)
      BY <1>1, <2>2, KnownMerges
    <3>2. CASE ~Had("right", p)
      <4>1. HadIn("right", p) = {}
        BY <1>1, <3>2, ChildFacts, HadFacts DEF HadIn, Sides
      <4>2. QED
        BY <1>1, <2>2, <3>1, <4>1, WantedChildren
    <3>3. CASE Had("right", p) /\ ~Had("left", p)
      <4>1. bidir \/ keep
        BY <1>12, <2>2, <3>3 DEF Wanted, Had
      <4>2. QED
        BY <1>1, <2>2, <3>1, <4>1, WantedChildren
    <3>4. CASE Had("right", p) /\ Had("left", p)
      <4>1. before["left"][p] = before["right"][p]
        BY <1>2, <1>12, <2>2, <3>4 DEF Updated, Sides
      <4>2. HadIn("right", p) = HadIn("left", p)
        BY <1>1, <1>2, <3>4, <4>1, HadChildren DEF Sides
      <4>3. QED
        BY <1>1, <2>2, <3>1, <4>2, WantedChildren
    <3>5. QED
      BY <3>2, <3>3, <3>4
  <2>3. QED
    BY <2>1, <2>2 DEF Sides
<1>13. st \in Stores /\ st[p].ch = C /\ st[p].mtime = mergedMtime(t)
  BY <1>7 DEF NsPut
<1>14. Middle(p, s, t, st[p])
  BY <1>8, <1>12, <1>13 DEF Middle, Final
<1>15. QED
  BY <1>11, <1>13, <1>14

LEMMA BeforeWrites ==
    ASSUME TInv, Going, NEW p \in Spaces, NEW s \in Sides,
           task[p].step = (IF s = "left" THEN "leftBefore" ELSE "rightBefore"),
           NEW err, NsWritten(p, s, NeedsBefore(task[p], s), MakesBefore(task[p], s),
                              MergedBefore(task[p], s), err),
           ~Fault("write")
    PROVE  /\ \A r \in Sides \ {s} : store'[r] = store[r]
           /\ Middle(p, s, task[p], store'[s][p])
           /\ \A q \in Paths \ {p} :
                \/ store'[s][q] = store[s][q]
                \/ task[q].step = "off" /\ q \in Children(p) /\ Early(q, s, store'[s][q])
           /\ err => ~task[p].exist["left"] /\ ~Wanted("left", p)
<1> DEFINE t == task[p]
<1>1. p \in Paths /\ t.step \in Merging /\ t.step \notin {"off", "done", "rightAfter"}
  BY TreeRooted DEF Merging
<1>2. Early(p, s, store[s][p])
  BY <1>1 DEF Going, ProgressAt, EarlySteps, Sides
<1>3. ErrsAt(p, t)
  BY <1>1 DEF Going, TaskGoes
<1>4. CASE UNCHANGED store /\ t.err /\ err
  <2>1. ~t.exist["left"] /\ ~Wanted("left", p) /\ s = "right"
    BY <1>1, <1>3, <1>4 DEF ErrsAt, Sides
  <2>2. ~NeedsBefore(t, s)
    <3>1. t.exist["right"] /\ ~Had("left", p)
      BY <1>1, <2>1, TaskKnows DEF Sides, Merging
    <3>2. HadIn("left", p) = {}
      BY <1>1, <3>1, ChildFacts, HadFacts DEF HadIn, Sides
    <3>3. MergedBefore(t, "right") = exCh(t, "right")
      BY <1>1, <3>2, KnownMerges, KnownChildren DEF Sides
    <3>4. QED
      BY <2>1, <3>1, <3>3 DEF NeedsBefore
  <2>3. Middle(p, s, t, store[s][p])
    BY <1>1, <1>2, <2>2, UnneededBefore
  <2>4. QED
    BY <1>4, <2>1, <2>3
<1>5. CASE UNCHANGED store /\ ~NeedsBefore(t, s) /\ ~err
  <2>1. Middle(p, s, t, store[s][p])
    BY <1>1, <1>2, <1>5, UnneededBefore
  <2>2. QED
    BY <1>5, <2>1
<1>6. CASE UNCHANGED store /\ NeedsBefore(t, s) /\ RefusesNs(s, p, MakesBefore(t, s))
  <2>1. s = "left" /\ ~t.exist["left"] /\ ~Wanted("left", p)
    BY <1>6, BeforeRefused
  <2>2. Middle(p, s, t, store[s][p])
    BY <1>1, <1>2, <2>1, UnneededBefore
  <2>3. QED
    BY <1>6, <2>1, <2>2
<1>7. CASE /\ NeedsBefore(t, s) /\ ~err
           /\ store' = [store EXCEPT ![s] = PutNs(s, p, MergedBefore(t, s), mergedMtime(t))]
  <2> DEFINE st == PutNs(s, p, MergedBefore(t, s), mergedMtime(t))
  <2>1. /\ st \in Stores /\ Middle(p, s, t, st[p])
        /\ \A q \in Paths \ {p} :
              \/ st[q] = store[s][q]
              \/ task[q].step = "off" /\ q \in Children(p) /\ Early(q, s, st[q])
    BY <1>7, BeforePut
  <2> HIDE DEF st
  <2>2. store'[s] = st /\ \A r \in Sides \ {s} : store'[r] = store[r]
    BY <1>7, <2>1, StoreSet DEF st, TInv
  <2>3. QED
    BY <1>7, <2>1, <2>2
<1>8. QED
  BY <1>4, <1>5, <1>6, <1>7 DEF NsWritten

\* The last merge of a namespace: a side lists what it is to have, and what it
\* drops is not wanted.
LEMMA AfterPut ==
    ASSUME TInv, Going, NEW p \in Spaces, NEW s \in Sides,
           task[p].step = (IF s = "left" THEN "children" ELSE "rightAfter"),
           \A q \in Children(p) : Over(q), NEW st,
           st = PutNs(s, p, MergedAfter(task[p], s), mergedMtime(task[p]))
    PROVE  /\ st \in Stores
           /\ Wanted(s, p) => Final(p, s, st[p])
           /\ \A q \in Paths \ {p} : ProgressAt(q, s, task[q], st[q])
<1> DEFINE t == task[p]
           C == MergedAfter(t, s)
           e == store[s][p]
<1>1. p \in Paths /\ t.step \in Merging
  BY TreeRooted DEF Merging
<1>2. Middle(p, s, t, e)
  BY <1>1 DEF Going, ProgressAt, MiddleSteps, Sides
<1>3. C \in SUBSET Children(p)
  BY <1>1, TaskTyped, MergedTyped
<1>4. store[s] \in Stores /\ clock \in Nat /\ t \in TaskRecords
  BY <1>1, StoresTyped, TaskTyped DEF TInv, TypeOK
<1>5. mergedMtime(t) \in Nat
  BY <1>4 DEF mergedMtime, TaskRecords, Entries, Sides
<1>6. NsPut(s, p, C, mergedMtime(t), st)
  BY <1>1, <1>3, <1>4, <1>5, PutNsIs
<1>7. C = WantedIn(s, p) /\ mergedMtime(t) = Winner(p).mtime
  BY <1>1, KnownMerges
<1>8. e.ch \subseteq Children(p)
  BY <1>1, <1>4 DEF Stores
<1>9. C \subseteq e.ch
  <2>1. CASE Wanted(s, p)
    BY <1>2, <1>7, <2>1 DEF Middle
  <2>2. CASE ~Wanted(s, p)
    <3>1. WantedIn(s, p) = {}
      BY <1>1, <2>2, ChildFacts, HadFacts DEF WantedIn
    <3>2. QED
      BY <1>7, <3>1
  <2>3. QED
    BY <2>1, <2>2
<1>10. ASSUME NEW q \in Paths \ {p} PROVE ProgressAt(q, s, task[q], st[q])
  <2>1. ProgressAt(q, s, task[q], store[s][q])
    BY DEF Going
  <2>2. CASE kind[s] = "object" \/ Line(q) \intersect (e.ch \ C) = {}
    <3>1. st[q] = store[s][q]
      BY <1>6, <1>9, <2>2 DEF NsPut
    <3>2. QED
      BY <2>1, <3>1
  <2>3. CASE kind[s] # "object" /\ Line(q) \intersect (e.ch \ C) # {}
    <3>1. st[q] = Missing
      BY <1>6, <2>3 DEF NsPut
    <3>2. ~Wanted(s, q)
      BY <1>1, <1>7, <1>8, <2>3, GoneUnwanted
    <3>3. PICK r \in Line(q) : r \in e.ch
      BY <2>3
    <3>4. Over(r) /\ r \in Paths
      BY <1>1, <1>8, <3>3, ChildFacts
    <3>5. Over(q)
      BY <3>3, <3>4, OverBelow
    <3>6. Early(q, s, Missing) \/ Had(s, q)
      BY DEF Early, Missing
    <3>7. QED
      BY <3>1, <3>2, <3>5, <3>6 DEF ProgressAt, Over, OverAt, EarlySteps, MiddleSteps, LateSteps
  <2>4. QED
    BY <2>2, <2>3
<1>11. st \in Stores /\ st[p].ch = C /\ st[p].mtime = mergedMtime(t)
  BY <1>6 DEF NsPut
<1>12. Final(p, s, st[p])
  BY <1>7, <1>11 DEF Final
<1>13. QED
  BY <1>10, <1>11, <1>12

LEMMA AfterWrites ==
    ASSUME TInv, Going, NEW p \in Spaces, NEW s \in Sides,
           task[p].step = (IF s = "left" THEN "children" ELSE "rightAfter"),
           \A q \in Children(p) : Over(q),
           NEW err, NsWritten(p, s, NeedsAfter(task[p], s), MakesAfter(task[p], s),
                              MergedAfter(task[p], s), err),
           ~Fault("write")
    PROVE  /\ \A r \in Sides \ {s} : store'[r] = store[r]
           /\ Wanted(s, p) => Final(p, s, store'[s][p])
           /\ \A q \in Paths \ {p} : ProgressAt(q, s, task[q], store'[s][q])
           /\ s = "left" /\ err => ~task[p].exist["left"]
<1> DEFINE t == task[p]
<1>1. p \in Paths /\ t.step \notin {"off", "done"}
  BY TreeRooted
<1>2. Middle(p, s, t, store[s][p])
  BY <1>1 DEF Going, ProgressAt, MiddleSteps, Sides
<1>3. ErrsAt(p, t)
  BY <1>1 DEF Going, TaskGoes
<1>4. \A q \in Paths, r \in Sides : ProgressAt(q, r, task[q], store[r][q])
  BY DEF Going
<1>5. t.exist[s] <=> Had(s, p)
  BY <1>1, TaskKnows
<1>6. CASE UNCHANGED store /\ t.err
  <2>1. ~t.exist["left"] /\ (s = "left" => ~Wanted(s, p))
    BY <1>1, <1>3, <1>6 DEF ErrsAt
  <2>2. Wanted(s, p) => Final(p, s, store[s][p])
    BY <1>2, <2>1 DEF Middle, Updated
  <2>3. QED
    BY <1>4, <1>6, <2>1, <2>2
<1>7. CASE UNCHANGED store /\ ~NeedsAfter(t, s) /\ ~err
  <2>1. Wanted(s, p) => Final(p, s, store[s][p])
    BY <1>2, <1>7 DEF Middle, NeedsAfter
  <2>2. QED
    BY <1>4, <1>7, <2>1
<1>8. CASE UNCHANGED store /\ RefusesNs(s, p, MakesAfter(t, s))
  <2>1. Had(s, p) \/ Wanted(s, p) => Listed(store[s], p)
    BY <1>1, ActiveListed
  <2>2. t.exist[s] => FALSE
    BY <1>5, <1>8, <2>1 DEF RefusesNs, MakesAfter
  <2>3. Wanted(s, p) => Final(p, s, store[s][p])
    BY <1>2, <2>2 DEF Middle
  <2>4. QED
    BY <1>4, <1>8, <2>2, <2>3
<1>9. CASE /\ ~err
           /\ store' = [store EXCEPT ![s] = PutNs(s, p, MergedAfter(t, s), mergedMtime(t))]
  <2> DEFINE st == PutNs(s, p, MergedAfter(t, s), mergedMtime(t))
  <2>1. /\ st \in Stores /\ (Wanted(s, p) => Final(p, s, st[p]))
        /\ \A q \in Paths \ {p} : ProgressAt(q, s, task[q], st[q])
    BY <1>9, AfterPut
  <2> HIDE DEF st
  <2>2. store'[s] = st /\ \A r \in Sides \ {s} : store'[r] = store[r]
    BY <1>9, <2>1, StoreSet DEF st, TInv
  <2>3. QED
    BY <1>9, <2>1, <2>2
<1>10. QED
  BY <1>6, <1>7, <1>8, <1>9 DEF NsWritten

\* A content that is written only changes its namespace where it is not to be.
LEMMA ContentWrites ==
    ASSUME TInv, Going, NEW p \in Paths \ Spaces, task[p].step \notin {"off", "done"},
           NEW T \in Sides, Wanted(T, p) \/ (T = "left" /\ ~Had("left", p) /\ Had("right", p)),
           NEW m \in Nat, NEW d \in Nat, store' = [store EXCEPT ![T] = PutContent(T, p, m, d)]
    PROVE  /\ \A r \in Sides \ {T} : store'[r] = store[r]
           /\ store'[T][p].mtime = m /\ store'[T][p].data = d
           /\ \A q \in Paths \ {p} : ProgressAt(q, T, task[q], store'[T][q])
<1> DEFINE P == Parent[p]
           st == PutContent(T, p, m, d)
<1>1. /\ p \in Paths \ {Root} /\ P \in Paths /\ P # p /\ P \in Spaces /\ p \in Children(P)
  BY TreeRooted, ParentIs
<1>2. store[T] \in Stores /\ clock \in Nat
  BY StoresTyped DEF TInv, TypeOK
<1>3. ContentPut(T, p, m, d, st)
  BY <1>2, PutContentIs
<1>4. st \in Stores
  BY <1>3 DEF ContentPut
<1> HIDE DEF st
<1>5. store'[T] = st /\ \A r \in Sides \ {T} : store'[r] = store[r]
  BY <1>4, StoreSet DEF st, TInv
<1>6. /\ st[p].mtime = m /\ st[p].data = d
      /\ st[P].ch = store[T][P].ch \union {p}
      /\ p \in store[T][P].ch => st[P] = store[T][P]
      /\ \A q \in Paths \ {p, P} : st[q] = store[T][q]
  BY <1>3 DEF ContentPut
<1>7. \A q \in Paths : ProgressAt(q, T, task[q], store[T][q])
  BY DEF Going
<1>8. task[P].step = "children"
  BY <1>1, ParentWorks
<1>9. Middle(P, T, task[P], store[T][P])
  BY <1>1, <1>7, <1>8 DEF ProgressAt, MiddleSteps
<1>10. CASE p \in store[T][P].ch
  BY <1>5, <1>6, <1>7, <1>10
<1>11. CASE p \notin store[T][P].ch
  <2>1. p \notin HadIn(T, P)
    BY <1>9, <1>11 DEF Middle
  <2>2. ~Wanted(T, p)
    <3>1. Wanted(T, p) => Wanted(T, P) /\ p \in WantedIn(T, P)
      BY <1>1, HadFacts DEF WantedIn
    <3>2. QED
      BY <1>9, <1>11, <3>1 DEF Middle
  <2>3. T = "left" /\ ~Had("left", p) /\ Had("right", p)
    BY <2>2
  <2>4. task[P].exist["left"] => Updated(task[P])
    <3>1. Had("right", P) /\ p \in before["right"][P].ch
      BY <1>1, <2>3, HadFacts DEF Sides
    <3>2. Had("left", P) => p \notin before["left"][P].ch
      BY <1>1, <2>3, HadFacts DEF Sides
    <3>3. /\ \A o \in Sides : task[P].exist[o] <=> Had(o, P)
          /\ \A o \in Sides : Had(o, P) => task[P].meta[o] = before[o][P]
      BY <1>1, <1>8, TaskKnows, TaskTyped DEF TaskedAt
    <3>4. QED
      BY <3>1, <3>2, <3>3 DEF Updated, Sides
  <2>5. Wanted(T, P) /\ ~(task[P].exist["left"] /\ Updated(task[P])) => FALSE
    <3>1. Had("right", p) /\ Had("right", P)
      BY <1>1, <2>3, HadFacts DEF Sides
    <3>2. CASE Had("left", P)
      <4>1. task[P].exist["left"]
        BY <1>1, <1>8, <3>2, TaskKnows DEF Sides
      <4>2. QED
        BY <2>4, <4>1
    <3>3. CASE ~Had("left", P)
      BY <2>2, <2>3, <3>1, <3>3 DEF Wanted, Had
    <3>4. QED
      BY <3>2, <3>3
  <2>6. Middle(P, T, task[P], st[P])
    BY <1>6, <1>9, <2>3, <2>5 DEF Middle
  <2>7. T # Origin(task[P]) \/ task[P].step # "fill"
    BY <1>8
  <2>8. ProgressAt(P, T, task[P], st[P])
    BY <1>8, <2>6 DEF ProgressAt, EarlySteps, LateSteps
  <2>9. QED
    BY <1>5, <1>6, <1>7, <2>8
<1>12. QED
  BY <1>10, <1>11

-----------------------------------------------------------------------------
(* The steps of a task *)

\* A task that goes on starts nothing, and stops once its children are over.
LEMMA WalkOn ==
    ASSUME Going, NEW p \in Paths, NEW step, NEW err, Advances(p, step, err),
           task[p].step \notin {"off", "done"}, step # "off",
           \/ task[p].step \in {"metas", "leftBefore"} /\ step \notin {"children", "rightAfter", "done"}
           \/ step \in {"rightAfter", "done"} /\ \A q \in Children(p) : Over(q)
    PROVE  /\ task'[Root].step # "off"
           /\ \A q \in Paths \ {Root} : WalkAt(q, task'[Parent[q]].step, task'[q].step)
<1>1. task'[p].step = step /\ \A q \in Paths \ {p} : task'[q] = task[q]
  BY DEF Advances, Others
<1>2. task'[Root].step # "off"
  BY <1>1, TreeRooted DEF Going
<1>3. ASSUME NEW q \in Paths \ {Root}
      PROVE  WalkAt(q, task'[Parent[q]].step, task'[q].step)
  <2>1. WalkAt(q, task[Parent[q]].step, task[q].step)
    BY DEF Going
  <2>2. Parent[q] \in Paths /\ Parent[q] # q /\ q \in Children(Parent[q])
    BY ParentIs
  <2>3. CASE q = p
    <3>1. task[Parent[q]].step = "children"
      BY <2>3, ParentWorks
    <3>2. task'[Parent[q]] = task[Parent[q]]
      BY <1>1, <2>2, <2>3
    <3>3. QED
      BY <1>1, <2>1, <2>3, <3>1, <3>2 DEF WalkAt
  <2>4. CASE Parent[q] = p
    <3>1. task'[q] = task[q]
      BY <1>1, <2>2, <2>4
    <3>2. CASE step \in {"rightAfter", "done"} /\ \A x \in Children(p) : Over(x)
      <4>1. OverAt(q, task[q].step)
        BY <2>2, <2>4, <3>2 DEF Over
      <4>2. task[q].step # "off" => \E s \in Sides : Had(s, q)
        BY <2>1 DEF WalkAt
      <4>3. QED
        BY <1>1, <2>4, <3>1, <3>2, <4>1, <4>2 DEF WalkAt, OverAt
    <3>3. CASE /\ task[p].step \in {"metas", "leftBefore"}
               /\ step \notin {"children", "rightAfter", "done"}
      BY <1>1, <2>1, <2>4, <3>1, <3>3 DEF WalkAt
    <3>4. QED
      BY <3>2, <3>3
  <2>5. CASE q # p /\ Parent[q] # p
    BY <1>1, <2>1, <2>2, <2>5
  <2>6. QED
    BY <2>3, <2>4, <2>5
<1>4. QED
  BY <1>2, <1>3

\* It knows what it knew.
LEMMA TasksGoOn ==
    ASSUME Going, NEW p \in Paths, NEW step, NEW err, Advances(p, step, err),
           task[p].step # "off", step = "fill" => Created(task[p]) \/ Updated(task[p]),
           err /\ step # "done" =>
              /\ step \in {"rightBefore", "children", "rightAfter"}
              /\ ~task[p].exist["left"]
              /\ step # "rightAfter" => ~Wanted("left", p)
    PROVE  \A q \in Paths : TaskGoes(q, task'[q])
<1>1. \A q \in Paths : TaskGoes(q, task[q])
  BY DEF Going
<1>2. /\ task'[p].step = step /\ task'[p].err = err
      /\ task'[p].exist = task[p].exist /\ task'[p].meta = task[p].meta
      /\ task'[p].unread = task[p].unread /\ task'[p].failed = task[p].failed
      /\ \A q \in Paths \ {p} : task'[q] = task[q]
  BY DEF Advances, Others
<1>3. TaskGoes(p, task[p])
  BY <1>1
<1>4. ErrsAt(p, task'[p])
  BY <1>2 DEF ErrsAt
<1>5. CopiedAt(task'[p])
  BY <1>2 DEF CopiedAt, Created, Updated
<1>6. \A s \in Sides : KnowsAt(p, s, task'[p])
  BY <1>2, <1>3 DEF TaskGoes, KnowsAt
<1>7. TaskGoes(p, task'[p])
  BY <1>4, <1>5, <1>6 DEF TaskGoes
<1>8. QED
  BY <1>1, <1>2, <1>7

\* One task goes on and the others find the stores as they may.
LEMMA AdvanceGoes ==
    ASSUME Going, UNCHANGED runVars, NEW p \in Paths, NEW step, NEW err, Advances(p, step, err),
           task[p].step \notin {"off", "done"}, step # "off",
           \/ task[p].step \in {"metas", "leftBefore"} /\ step \notin {"children", "rightAfter", "done"}
           \/ step \in {"rightAfter", "done"} /\ \A q \in Children(p) : Over(q),
           step = "fill" => Created(task[p]) \/ Updated(task[p]),
           err /\ step # "done" =>
              /\ step \in {"rightBefore", "children", "rightAfter"}
              /\ ~task[p].exist["left"]
              /\ step # "rightAfter" => ~Wanted("left", p),
           \A s \in Sides : ProgressAt(p, s, task'[p], store'[s][p]),
           \A q \in Paths \ {p}, s \in Sides : ProgressAt(q, s, task[q], store'[s][q])
    PROVE  Going'
<1>1. /\ task'[Root].step # "off"
      /\ \A q \in Paths \ {Root} : WalkAt(q, task'[Parent[q]].step, task'[q].step)
  BY WalkOn
<1>2. \A q \in Paths : TaskGoes(q, task'[q])
  BY TasksGoOn
<1>3. \A q \in Paths, s \in Sides : ProgressAt(q, s, task'[q], store'[s][q])
  BY DEF Advances, Others
<1>4. QED
  BY <1>1, <1>2, <1>3, GoesOn

\* Contents have no children.
LEMMA NoChildren ==
    ASSUME NEW p \in Paths \ Spaces
    PROVE  Children(p) = {}
BY TreeParents DEF Children

\* Metadata is read: it is what it was.
LEMMA ReadMetaGoes ==
    ASSUME TInv, Going, NEW p \in Paths, NEW s \in Sides, ReadMeta(p, s), NoFault, ~Fault("read"), ~Misreads
    PROVE  Going'
<1>1. /\ Others(p) /\ UNCHANGED <<runVars, run, store, reported>>
      /\ task[p].step = "metas" /\ s \in task[p].unread
      /\ task'[p].step = "metas" /\ task'[p].unread = task[p].unread \ {s}
      /\ task'[p].err = task[p].err
      /\ \A o \in Sides \ {s} :
            /\ task'[p].exist[o] = task[p].exist[o] /\ task'[p].meta[o] = task[p].meta[o]
            /\ o \in task'[p].failed <=> o \in task[p].failed
      /\ \/ /\ task'[p].exist = task[p].exist /\ task'[p].failed = task[p].failed
            /\ task'[p].meta[s] = store[s][p]
         \/ ~Listed(store[s], p)
  BY ReadMetaIs
<1>2. /\ TaskGoes(p, task[p])
      /\ \A q \in Paths, o \in Sides : ProgressAt(q, o, task[q], store[o][q])
  BY DEF Going
<1>3. Had(s, p)
  <2>1. task[p].exist[s]
    BY <1>1, TaskTyped DEF TaskedAt
  <2>2. QED
    BY <1>1, <2>1, TaskKnows
<1>4. Listed(store[s], p) /\ store[s][p] = before[s][p]
  <2>1. Listed(store[s], p)
    BY <1>1, <1>3, ActiveListed
  <2>2. Early(p, s, store[s][p])
    BY <1>1, <1>2 DEF ProgressAt, EarlySteps
  <2>3. QED
    BY <1>3, <2>1, <2>2 DEF Early
<1>5. /\ task'[p].exist = task[p].exist /\ task'[p].failed = task[p].failed
      /\ task'[p].meta[s] = before[s][p]
  BY <1>1, <1>4
<1>6. \A o \in Sides : KnowsAt(p, o, task'[p])
  BY <1>1, <1>2, <1>5 DEF TaskGoes, KnowsAt
<1>7. TaskGoes(p, task'[p])
  BY <1>1, <1>2, <1>6 DEF TaskGoes, ErrsAt, CopiedAt
<1>8. \A q \in Paths : task'[q].step = task[q].step
  BY <1>1 DEF Others
<1>9. /\ task'[Root].step # "off"
      /\ \A q \in Paths \ {Root} : WalkAt(q, task'[Parent[q]].step, task'[q].step)
  <2>1. Root \in Paths /\ \A q \in Paths \ {Root} : Parent[q] \in Paths
    BY TreeRooted, ParentIs
  <2>2. QED
    BY <1>8, <2>1 DEF Going
<1>10. \A q \in Paths : TaskGoes(q, task'[q])
  BY <1>1, <1>7 DEF Going, Others
<1>11. \A q \in Paths, o \in Sides : ProgressAt(q, o, task'[q], store'[o][q])
  <2>1. \A o \in Sides : ProgressAt(p, o, task'[p], store'[o][p])
    BY <1>1, <1>2 DEF ProgressAt, EarlySteps, MiddleSteps, LateSteps
  <2>2. QED
    BY <1>1, <1>2, <2>1 DEF Others
<1>12. QED
  BY <1>1, <1>9, <1>10, <1>11, GoesOn

\* A namespace of which one side knows the metadata is to be merged.
LEMMA MergeGoes ==
    ASSUME TInv, Going, NEW p \in Paths, Merge(p), run' = "syncing"
    PROVE  Going'
<1>1. /\ p \in Spaces /\ Evaluated(p) /\ UNCHANGED <<runVars, store>>
      /\ Advances(p, "leftBefore", task[p].err)
  BY MergeIs
<1>2. task[p].step = "metas"
  BY <1>1 DEF Evaluated
<1>3. ~task[p].err
  BY <1>2 DEF Going, TaskGoes, ErrsAt
<1>4. \A q \in Paths, s \in Sides : ProgressAt(q, s, task[q], store'[s][q])
  BY <1>1 DEF Going
<1>5. \A s \in Sides : ProgressAt(p, s, task'[p], store'[s][p])
  BY <1>1, <1>2, <1>4 DEF Advances, ProgressAt, EarlySteps, MiddleSteps, LateSteps
<1>6. QED
  BY <1>1, <1>2, <1>3, <1>4, <1>5, AdvanceGoes

LEMMA LeftBeforeGoes ==
    ASSUME TInv, Going, NEW p \in Paths, LeftBefore(p), NoFault, ~Fault("write")
    PROVE  Going'
<1>1. /\ UNCHANGED runVars /\ p \in Spaces /\ task[p].step = "leftBefore"
      /\ \E err \in BOOLEAN :
            /\ Advances(p, "rightBefore", err)
            /\ NsWritten(p, "left", NeedsBefore(task[p], "left"), MakesBefore(task[p], "left"),
                         MergedBefore(task[p], "left"), err)
  BY LeftBeforeIs
<1>2. PICK err \in BOOLEAN :
            /\ Advances(p, "rightBefore", err)
            /\ NsWritten(p, "left", NeedsBefore(task[p], "left"), MakesBefore(task[p], "left"),
                         MergedBefore(task[p], "left"), err)
  BY <1>1
<1>3. "left" \in Sides /\ "right" \in Sides
  BY DEF Sides
<1>4. /\ \A r \in Sides \ {"left"} : store'[r] = store[r]
      /\ Middle(p, "left", task[p], store'["left"][p])
      /\ \A q \in Paths \ {p} :
            \/ store'["left"][q] = store["left"][q]
            \/ task[q].step = "off" /\ q \in Children(p) /\ Early(q, "left", store'["left"][q])
      /\ err => ~task[p].exist["left"] /\ ~Wanted("left", p)
  BY <1>1, <1>2, <1>3, BeforeWrites
<1>5. \A q \in Paths, s \in Sides : ProgressAt(q, s, task[q], store[s][q])
  BY DEF Going
<1>6. \A q \in Paths \ {p}, s \in Sides : ProgressAt(q, s, task[q], store'[s][q])
  BY <1>4, <1>5 DEF ProgressAt, MiddleSteps, LateSteps, Sides
<1>7. \A s \in Sides : ProgressAt(p, s, task'[p], store'[s][p])
  <2>1. /\ task'[p].step = "rightBefore"
        /\ task'[p].exist = task[p].exist /\ task'[p].meta = task[p].meta
    BY <1>2 DEF Advances
  <2>2. Middle(p, "left", task'[p], store'["left"][p])
    BY <1>4, <2>1 DEF Middle, Updated
  <2>3. Early(p, "right", store'["right"][p])
    BY <1>1, <1>3, <1>4, <1>5 DEF ProgressAt, EarlySteps
  <2>4. QED
    BY <2>1, <2>2, <2>3 DEF ProgressAt, EarlySteps, MiddleSteps, LateSteps, Sides
<1>8. QED
  BY <1>1, <1>2, <1>4, <1>6, <1>7, AdvanceGoes

\* The children tasks of a namespace start, none of them if it is in error.
LEMMA SpawnedTasks ==
    ASSUME TInv, Going, NEW p \in Spaces, task[p].step = "rightBefore", NEW err \in BOOLEAN,
           Spawns(p, err), leftAndRight(task[p]) # {} => ~err,
           err => ~task[p].exist["left"] /\ ~Wanted("left", p)
    PROVE  /\ task'[Root].step # "off"
           /\ \A q \in Paths \ {Root} : WalkAt(q, task'[Parent[q]].step, task'[q].step)
           /\ \A q \in Paths : TaskGoes(q, task'[q])
           /\ \A q \in Paths \ {p} : \/ task'[q] = task[q]
                                     \/ task[q].step = "off" /\ task'[q].step = "metas"
<1> DEFINE t == task[p]
           kids == leftAndRight(t)
<1>1. p \in Paths /\ t.step \in Merging
  BY TreeRooted DEF Merging
<1>2. kids = {q \in Children(p) : \E s \in Sides : Had(s, q)}
  BY <1>1, KnownMerges DEF HadIn, Sides
<1>3. kids \subseteq Children(p) /\ p \notin kids
  BY <1>1, <1>2, ChildFacts
<1>4. /\ task'[p].step = "children" /\ task'[p].err = err
      /\ task'[p].exist = t.exist /\ task'[p].meta = t.meta
      /\ task'[p].unread = t.unread /\ task'[p].failed = t.failed
      /\ \A q \in kids : task'[q] = Task([s \in Sides |-> q \in exCh(t, s)], err)
      /\ \A q \in Paths \ (kids \union {p}) : task'[q] = task[q]
  BY DEF Spawns
<1>5. ASSUME NEW q \in kids
      PROVE  /\ task'[q].step = "metas" /\ ~task'[q].err /\ task'[q].failed = {}
             /\ \A s \in Sides : task'[q].exist[s] <=> Had(s, q)
             /\ \A s \in Sides : task'[q].exist[s] => s \in task'[q].unread
             /\ task[q].step = "off" /\ q \in Paths
  <2> DEFINE exist == [s \in Sides |-> q \in exCh(t, s)]
  <2>1. exist \in [Sides -> BOOLEAN] /\ q \in Paths /\ err = FALSE
    BY <1>1, <1>3, <1>5, ChildFacts
  <2>2. task'[q] = Task(exist, FALSE)
    BY <1>4, <2>1
  <2>3. \A s \in Sides : exist[s] <=> Had(s, q)
    <3>1. \A s \in Sides : exCh(t, s) = HadIn(s, p)
      BY <1>1, KnownChildren
    <3>2. QED
      BY <1>3, <3>1 DEF HadIn
  <2> HIDE DEF exist
  <2>4. /\ task'[q].step = "metas" /\ task'[q].err = FALSE /\ task'[q].failed = {}
        /\ task'[q].exist = exist /\ task'[q].unread = {s \in Sides : exist[s]}
    BY <2>1, <2>2 DEF Task, Off
  <2>5. task[q].step = "off"
    <3>1. q \in Paths \ {Root} /\ Parent[q] = p
      BY <1>1, <1>3, ChildFacts
    <3>2. QED
      BY <3>1 DEF Going, WalkAt
  <2>6. QED
    BY <2>1, <2>3, <2>4, <2>5
<1>6. \A q \in Paths \ {p} : \/ task'[q] = task[q]
                             \/ task[q].step = "off" /\ task'[q].step = "metas"
  BY <1>4, <1>5
<1>7. task'[Root].step # "off"
  BY <1>4, <1>6, TreeRooted DEF Going
<1>8. ASSUME NEW q \in Paths \ {Root}
      PROVE  WalkAt(q, task'[Parent[q]].step, task'[q].step)
  <2>1. WalkAt(q, task[Parent[q]].step, task[q].step)
    BY DEF Going
  <2>2. Parent[q] \in Paths /\ Parent[q] # q /\ q \in Children(Parent[q])
    BY ParentIs
  <2>3. CASE Parent[q] = p
    <3>1. task[q].step = "off"
      BY <2>1, <2>3 DEF WalkAt
    <3>2. q \in kids <=> \E s \in Sides : Had(s, q)
      BY <1>2, <2>2, <2>3
    <3>3. task'[q].step # "off" <=> q \in kids
      BY <1>4, <1>5, <2>2, <2>3, <3>1
    <3>4. QED
      BY <1>4, <2>3, <3>2, <3>3 DEF WalkAt
  <2>4. CASE q = p
    <3>1. task[Parent[q]].step = "children"
      BY <2>4, ParentWorks
    <3>2. task'[Parent[q]] = task[Parent[q]]
      BY <1>6, <2>2, <2>4, <3>1
    <3>3. QED
      BY <1>4, <2>1, <2>4, <3>1, <3>2 DEF WalkAt
  <2>5. CASE Parent[q] # p /\ q # p
    <3>1. q \notin kids
      BY <1>1, <1>3, <2>5, ChildFacts
    <3>2. task'[q] = task[q]
      BY <1>4, <2>5, <3>1
    <3>3. \/ task'[Parent[q]] = task[Parent[q]]
          \/ task[Parent[q]].step = "off" /\ task'[Parent[q]].step = "metas"
      BY <1>6, <2>2, <2>5
    <3>4. QED
      BY <2>1, <3>2, <3>3 DEF WalkAt
  <2>6. QED
    BY <2>3, <2>4, <2>5
<1>9. ASSUME NEW q \in Paths PROVE TaskGoes(q, task'[q])
  <2>1. TaskGoes(q, task[q])
    BY DEF Going
  <2>2. CASE q \in kids
    BY <1>5, <2>2 DEF TaskGoes, ErrsAt, CopiedAt, KnowsAt
  <2>3. CASE q = p
    <3>1. \A s \in Sides : KnowsAt(q, s, task'[q])
      BY <1>1, <1>4, <2>1, <2>3 DEF TaskGoes, KnowsAt
    <3>2. ErrsAt(q, task'[q]) /\ CopiedAt(task'[q])
      BY <1>4, <2>3 DEF ErrsAt, CopiedAt
    <3>3. QED
      BY <3>1, <3>2 DEF TaskGoes
  <2>4. CASE q \notin kids \union {p}
    BY <1>4, <2>1, <2>4
  <2>5. QED
    BY <2>2, <2>3, <2>4
<1>10. QED
  BY <1>6, <1>7, <1>8, <1>9

LEMMA RightBeforeGoes ==
    ASSUME TInv, Going, NEW p \in Paths, RightBefore(p), NoFault, ~Fault("write"), ~reported'
    PROVE  Going'
<1>1. /\ UNCHANGED runVars /\ p \in Spaces /\ task[p].step = "rightBefore"
      /\ \E err \in BOOLEAN :
            /\ Spawns(p, err)
            /\ NsWritten(p, "right", NeedsBefore(task[p], "right"), MakesBefore(task[p], "right"),
                         MergedBefore(task[p], "right"), err)
            /\ reported' = (reported \/ (leftAndRight(task[p]) # {} /\ err))
  BY RightBeforeIs
<1>2. PICK err \in BOOLEAN :
            /\ Spawns(p, err)
            /\ NsWritten(p, "right", NeedsBefore(task[p], "right"), MakesBefore(task[p], "right"),
                         MergedBefore(task[p], "right"), err)
            /\ reported' = (reported \/ (leftAndRight(task[p]) # {} /\ err))
  BY <1>1
<1>3. "left" \in Sides /\ "right" \in Sides
  BY DEF Sides
<1>4. /\ \A r \in Sides \ {"right"} : store'[r] = store[r]
      /\ Middle(p, "right", task[p], store'["right"][p])
      /\ \A q \in Paths \ {p} :
            \/ store'["right"][q] = store["right"][q]
            \/ task[q].step = "off" /\ q \in Children(p) /\ Early(q, "right", store'["right"][q])
      /\ err => ~task[p].exist["left"] /\ ~Wanted("left", p)
  BY <1>1, <1>2, <1>3, BeforeWrites
<1>5. leftAndRight(task[p]) # {} => ~err
  BY <1>2
<1>6. /\ task'[Root].step # "off"
      /\ \A q \in Paths \ {Root} : WalkAt(q, task'[Parent[q]].step, task'[q].step)
      /\ \A q \in Paths : TaskGoes(q, task'[q])
      /\ \A q \in Paths \ {p} : \/ task'[q] = task[q]
                                \/ task[q].step = "off" /\ task'[q].step = "metas"
  BY <1>1, <1>2, <1>4, <1>5, SpawnedTasks
<1>7. \A q \in Paths, s \in Sides : ProgressAt(q, s, task[q], store[s][q])
  BY DEF Going
<1>8. ASSUME NEW q \in Paths \ {p}, NEW s \in Sides PROVE ProgressAt(q, s, task'[q], store'[s][q])
  <2>1. ProgressAt(q, s, task[q], store'[s][q])
    BY <1>4, <1>7 DEF ProgressAt, MiddleSteps, LateSteps, Sides
  <2>2. CASE task'[q] = task[q]
    BY <2>1, <2>2
  <2>3. CASE task[q].step = "off" /\ task'[q].step = "metas"
    BY <2>1, <2>3 DEF ProgressAt, EarlySteps, MiddleSteps, LateSteps
  <2>4. QED
    BY <1>6, <2>2, <2>3
<1>9. \A s \in Sides : ProgressAt(p, s, task'[p], store'[s][p])
  <2>1. /\ task'[p].step = "children"
        /\ task'[p].exist = task[p].exist /\ task'[p].meta = task[p].meta
    BY <1>2 DEF Spawns
  <2>2. Middle(p, "left", task[p], store'["left"][p])
    BY <1>1, <1>3, <1>4, <1>7 DEF ProgressAt, MiddleSteps
  <2>3. \A s \in Sides : Middle(p, s, task'[p], store'[s][p])
    BY <1>4, <2>1, <2>2 DEF Middle, Updated, Sides
  <2>4. QED
    BY <2>1, <2>3 DEF ProgressAt, EarlySteps, MiddleSteps, LateSteps
<1>10. QED
  BY <1>1, <1>6, <1>8, <1>9, GoesOn

LEMMA LeftAfterGoes ==
    ASSUME TInv, Going, NEW p \in Paths, LeftAfter(p), NoFault, ~Fault("write")
    PROVE  Going'
<1>1. /\ UNCHANGED runVars /\ p \in Spaces /\ task[p].step = "children"
      /\ \A q \in leftAndRight(task[p]) : task[q].step = "done"
      /\ \E err \in BOOLEAN :
            /\ Advances(p, "rightAfter", err)
            /\ NsWritten(p, "left", NeedsAfter(task[p], "left"), MakesAfter(task[p], "left"),
                         MergedAfter(task[p], "left"), err)
  BY LeftAfterIs
<1>2. PICK err \in BOOLEAN :
            /\ Advances(p, "rightAfter", err)
            /\ NsWritten(p, "left", NeedsAfter(task[p], "left"), MakesAfter(task[p], "left"),
                         MergedAfter(task[p], "left"), err)
  BY <1>1
<1>3. "left" \in Sides /\ "right" \in Sides
  BY DEF Sides
<1>4. ASSUME NEW q \in Children(p) PROVE Over(q)
  <2>1. q \in Paths \ {Root} /\ Parent[q] = p
    BY <1>4, ChildFacts
  <2>2. WalkAt(q, task[p].step, task[q].step)
    BY <2>1 DEF Going
  <2>3. leftAndRight(task[p]) = HadIn("left", p) \union HadIn("right", p)
    BY <1>1, KnownMerges DEF Merging
  <2>4. (\E s \in Sides : Had(s, q)) => task[q].step = "done"
    BY <1>1, <1>4, <2>3 DEF HadIn, Sides
  <2>5. QED
    BY <1>1, <2>2, <2>4 DEF WalkAt, Over, OverAt
<1>5. /\ \A r \in Sides \ {"left"} : store'[r] = store[r]
      /\ Wanted("left", p) => Final(p, "left", store'["left"][p])
      /\ \A q \in Paths \ {p} : ProgressAt(q, "left", task[q], store'["left"][q])
      /\ err => ~task[p].exist["left"]
  BY <1>1, <1>2, <1>3, <1>4, AfterWrites
<1>6. \A q \in Paths, s \in Sides : ProgressAt(q, s, task[q], store[s][q])
  BY DEF Going
<1>7. \A q \in Paths \ {p}, s \in Sides : ProgressAt(q, s, task[q], store'[s][q])
  BY <1>5, <1>6 DEF Sides
<1>8. \A s \in Sides : ProgressAt(p, s, task'[p], store'[s][p])
  <2>1. /\ task'[p].step = "rightAfter"
        /\ task'[p].exist = task[p].exist /\ task'[p].meta = task[p].meta
    BY <1>2 DEF Advances
  <2>2. Middle(p, "right", task[p], store'["right"][p])
    BY <1>1, <1>3, <1>5, <1>6 DEF ProgressAt, MiddleSteps
  <2>3. Middle(p, "right", task'[p], store'["right"][p])
    BY <2>1, <2>2 DEF Middle, Updated
  <2>4. QED
    BY <1>5, <2>1, <2>3 DEF ProgressAt, EarlySteps, MiddleSteps, LateSteps, Sides
<1>9. QED
  BY <1>1, <1>2, <1>4, <1>5, <1>7, <1>8, AdvanceGoes

LEMMA RightAfterGoes ==
    ASSUME TInv, Going, NEW p \in Paths, RightAfter(p), NoFault, ~Fault("write")
    PROVE  Going'
<1>1. /\ UNCHANGED runVars /\ p \in Spaces /\ task[p].step = "rightAfter"
      /\ \E err \in BOOLEAN :
            /\ Advances(p, "done", err)
            /\ NsWritten(p, "right", NeedsAfter(task[p], "right"), MakesAfter(task[p], "right"),
                         MergedAfter(task[p], "right"), err)
  BY RightAfterIs
<1>2. PICK err \in BOOLEAN :
            /\ Advances(p, "done", err)
            /\ NsWritten(p, "right", NeedsAfter(task[p], "right"), MakesAfter(task[p], "right"),
                         MergedAfter(task[p], "right"), err)
  BY <1>1
<1>3. "left" \in Sides /\ "right" \in Sides
  BY DEF Sides
<1>4. ASSUME NEW q \in Children(p) PROVE Over(q)
  <2>1. q \in Paths \ {Root} /\ Parent[q] = p
    BY <1>4, ChildFacts
  <2>2. QED
    BY <1>1, <2>1, OverStep
<1>5. /\ \A r \in Sides \ {"right"} : store'[r] = store[r]
      /\ Wanted("right", p) => Final(p, "right", store'["right"][p])
      /\ \A q \in Paths \ {p} : ProgressAt(q, "right", task[q], store'["right"][q])
  BY <1>1, <1>2, <1>3, <1>4, AfterWrites
<1>6. \A q \in Paths, s \in Sides : ProgressAt(q, s, task[q], store[s][q])
  BY DEF Going
<1>7. \A q \in Paths \ {p}, s \in Sides : ProgressAt(q, s, task[q], store'[s][q])
  BY <1>5, <1>6 DEF Sides
<1>8. \A s \in Sides : ProgressAt(p, s, task'[p], store'[s][p])
  <2>1. task'[p].step = "done"
    BY <1>2 DEF Advances
  <2>2. Wanted("left", p) => Final(p, "left", store'["left"][p])
    BY <1>1, <1>3, <1>5, <1>6 DEF ProgressAt, LateSteps
  <2>3. QED
    BY <1>5, <2>1, <2>2 DEF ProgressAt, EarlySteps, MiddleSteps, LateSteps, Sides
<1>9. QED
  BY <1>1, <1>2, <1>4, <1>7, <1>8, AdvanceGoes

\* A content that both sides hold alike, or that only the right side has and the
\* left side is not to have, is as it is to be.
LEMMA SkipContentGoes ==
    ASSUME TInv, Going, NEW p \in Paths, SkipContent(p)
    PROVE  Going'
<1>1. /\ UNCHANGED <<runVars, store>> /\ CopyReady(p)
      /\ ~Created(task[p]) /\ ~Updated(task[p]) /\ Advances(p, "done", FALSE)
  BY SkipContentIs
<1>2. task[p].step = "metas" /\ task[p].unread = {} /\ p \notin Spaces
  BY <1>1 DEF CopyReady, Evaluated
<1>3. \A q \in Paths, s \in Sides : ProgressAt(q, s, task[q], store[s][q])
  BY DEF Going
<1>4. ASSUME NEW s \in Sides, Wanted(s, p) PROVE Final(p, s, store[s][p])
  <2>1. /\ \A o \in Sides : task[p].exist[o] <=> Had(o, p)
        /\ \A o \in Sides : Had(o, p) => task[p].meta[o] = before[o][p]
        /\ \E o \in Sides : Had(o, p)
    BY <1>2, TaskKnows
  <2>2. Early(p, s, store[s][p])
    BY <1>2, <1>3 DEF ProgressAt, EarlySteps
  <2>3. CASE Had("left", p) /\ Had("right", p)
    <3>1. before["left"][p] = before["right"][p]
      BY <1>1, <2>1, <2>3 DEF Updated, Sides
    <3>2. store[s][p] = before[s][p] /\ before[s][p] = before["left"][p]
      BY <2>2, <2>3, <3>1 DEF Early, Sides
    <3>3. QED
      BY <1>2, <2>3, <3>1, <3>2 DEF Final, Winner
  <2>4. CASE ~Had("left", p)
    <3>1. Had("right", p) /\ ~bidir
      BY <1>1, <2>1, <2>4 DEF Created, Sides
    <3>2. s = "right"
      BY <1>4, <2>4, <3>1 DEF Wanted, Had, Sides
    <3>3. QED
      BY <1>2, <2>2, <2>4, <3>1, <3>2 DEF Early, Final, Winner, Had
  <2>5. CASE Had("left", p) /\ ~Had("right", p)
    BY <1>1, <2>1, <2>5 DEF Created, Sides
  <2>6. QED
    BY <2>3, <2>4, <2>5
<1>5. \A s \in Sides : ProgressAt(p, s, task'[p], store'[s][p])
  BY <1>1, <1>4 DEF Advances, ProgressAt, EarlySteps, MiddleSteps
<1>6. \A q \in Children(p) : Over(q)
  BY <1>2, NoChildren
<1>7. QED
  BY <1>1, <1>2, <1>3, <1>5, <1>6, AdvanceGoes

\* A copy goes from the side with the content that wins to the other, which is to
\* have it or, asked to keep its contents only, is not the side that had it.
LEMMA CopySides ==
    ASSUME TInv, Going, NEW p \in Paths \ Spaces, task[p].step \notin {"off", "done"},
           task[p].unread = {}, Created(task[p]) \/ Updated(task[p])
    PROVE  LET O == Origin(task[p])
               T == Target(task[p])
           IN /\ O \in Sides /\ T \in Sides /\ O # T /\ Sides = {O, T}
              /\ Had(O, p) /\ task[p].meta[O] = before[O][p] /\ Winner(p) = before[O][p]
              /\ Wanted(T, p) \/ (T = "left" /\ ~Had("left", p) /\ Had("right", p))
<1>1. /\ \A o \in Sides : task[p].exist[o] <=> Had(o, p)
      /\ \A o \in Sides : Had(o, p) => task[p].meta[o] = before[o][p]
      /\ \E o \in Sides : Had(o, p)
  BY TaskKnows
<1>2. CASE RTL(task[p])
  <2>1. bidir /\ Had("right", p)
    BY <1>1, <1>2 DEF RTL, Sides
  <2>2. Had("left", p) => before["right"][p].mtime > before["left"][p].mtime
    BY <1>1, <1>2, <2>1 DEF RTL, Sides
  <2>3. Winner(p) = before["right"][p]
    BY <2>1, <2>2 DEF Winner, Had
  <2>4. Had("left", p) => Wanted("left", p)
    BY HadFacts DEF Sides
  <2>5. QED
    BY <1>1, <1>2, <2>1, <2>3, <2>4 DEF Origin, Target, Other, Sides
<1>3. CASE ~RTL(task[p])
  <2>1. Had("left", p)
    BY <1>1, <1>3 DEF RTL, Created, Updated, Sides
  <2>2. ~(bidir /\ Had("right", p) /\ before["right"][p].mtime > before["left"][p].mtime)
    BY <1>1, <1>3, <2>1 DEF RTL, Sides
  <2>3. Winner(p) = before["left"][p]
    BY <2>1, <2>2 DEF Winner, Had
  <2>4. Wanted("right", p)
    BY <2>1, HadFacts DEF Sides
  <2>5. QED
    BY <1>1, <1>3, <2>1, <2>3, <2>4 DEF Origin, Target, Other, Sides
<1>4. QED
  BY <1>2, <1>3

LEMMA OpenContentGoes ==
    ASSUME TInv, Going, NEW p \in Paths, OpenContent(p), ~reported'
    PROVE  Going'
<1> DEFINE t == task[p]
           O == Origin(t)
           T == Target(t)
<1>1. /\ UNCHANGED runVars /\ CopyReady(p) /\ (Created(t) \/ Updated(t))
      /\ Advances(p, "fill", t.err)
      /\ store' = [store EXCEPT ![T] = Opened(T, p)]
  BY OpenContentIs
<1>2. t.step = "metas" /\ t.unread = {} /\ p \notin Spaces
  BY <1>1 DEF CopyReady, Evaluated
<1>3. /\ O \in Sides /\ T \in Sides /\ O # T /\ Sides = {O, T} /\ Had(O, p)
      /\ Wanted(T, p) \/ (T = "left" /\ ~Had("left", p) /\ Had("right", p))
  BY <1>1, <1>2, CopySides
<1>4. /\ TaskGoes(p, t)
      /\ \A q \in Paths, s \in Sides : ProgressAt(q, s, task[q], store[s][q])
  BY DEF Going
<1>5. ~t.err
  BY <1>2, <1>4 DEF TaskGoes, ErrsAt
<1>6. /\ store'[O] = store[O]
      /\ \A q \in Paths \ {p} : ProgressAt(q, T, task[q], store'[T][q])
  <2>1. CASE kind[T] = "object"
    <3>1. store' = store
      BY <1>1, <1>3, <2>1 DEF Opened, TInv, TypeOK
    <3>2. QED
      BY <1>3, <1>4, <3>1
  <2>2. CASE kind[T] # "object"
    <3> DEFINE new == PutContent(T, p, Now, Empty)
    <3>1. Now \in Nat /\ Empty \in Nat
      BY DEF TInv, TypeOK, Now, Empty
    <3>2. store' = [store EXCEPT ![T] = PutContent(T, p, Now, Empty)]
      BY <1>1, <2>2 DEF Opened
    <3> HIDE DEF T, O
    <3>3. /\ \A r \in Sides \ {T} : store'[r] = store[r]
          /\ \A q \in Paths \ {p} : ProgressAt(q, T, task[q], store'[T][q])
      BY <1>2, <1>3, <3>1, <3>2, ContentWrites
    <3>4. QED
      BY <1>3, <3>3
  <2>3. QED
    BY <2>1, <2>2
<1>7. \A q \in Paths \ {p}, s \in Sides : ProgressAt(q, s, task[q], store'[s][q])
  BY <1>3, <1>4, <1>6
<1>8. \A s \in Sides : ProgressAt(p, s, task'[p], store'[s][p])
  <2>1. task'[p].step = "fill" /\ Origin(task'[p]) = O
    BY <1>1 DEF Advances, Origin, RTL
  <2>2. Early(p, O, store'[O][p])
    BY <1>2, <1>3, <1>4, <1>6 DEF ProgressAt, EarlySteps
  <2>3. QED
    BY <2>1, <2>2 DEF ProgressAt, EarlySteps, MiddleSteps, LateSteps
<1>9. QED
  BY <1>1, <1>2, <1>5, <1>7, <1>8, AdvanceGoes

LEMMA FillContentGoes ==
    ASSUME TInv, Going, NEW p \in Paths, FillContent(p), ~reported', NoFault, ~Fault("copy")
    PROVE  Going'
<1> DEFINE t == task[p]
           O == Origin(t)
           T == Target(t)
           m == t.meta[O]
<1>1. /\ UNCHANGED runVars /\ p \notin Spaces /\ t.step = "fill"
      /\ \/ Closed(p, m.data)
         \/ Closed(p, store[O][p].data)
  BY FillContentIs DEF CloseFailed
<1>2. PICK d : Closed(p, d) /\ d \in {m.data, store[O][p].data}
  BY <1>1
<1>3. /\ store' = [store EXCEPT ![T] = PutContent(T, p, m.mtime, d)]
      /\ Advances(p, "done", FALSE)
  <2>1. Advances(p, "done", Differs(d, m)) /\ ~Differs(d, m)
    BY <1>2 DEF Closed
  <2>2. Differs(d, m) = FALSE
    BY <2>1 DEF Differs
  <2>3. Advances(p, "done", FALSE)
    BY <2>1, <2>2
  <2>4. QED
    BY <1>2, <2>3 DEF Closed
<1>4. /\ TaskGoes(p, t)
      /\ \A q \in Paths, s \in Sides : ProgressAt(q, s, task[q], store[s][q])
  BY DEF Going
<1>5. t.unread = {} /\ (Created(t) \/ Updated(t)) /\ t \in TaskRecords
  BY <1>1, <1>4, TaskTyped DEF TaskedAt, TaskGoes, CopiedAt
<1>6. /\ O \in Sides /\ T \in Sides /\ O # T /\ Sides = {O, T} /\ Had(O, p)
      /\ m = before[O][p] /\ Winner(p) = before[O][p]
      /\ Wanted(T, p) \/ (T = "left" /\ ~Had("left", p) /\ Had("right", p))
  BY <1>1, <1>5, CopySides
<1>7. m \in Entries
  BY <1>5, <1>6 DEF TaskRecords
<1>8. m.mtime \in Nat /\ m.data \in Nat
  BY <1>7 DEF Entries
<1>9. Early(p, O, store[O][p])
  BY <1>1, <1>4, <1>6 DEF ProgressAt
<1>10. Advances(p, "done", FALSE)
  BY <1>3
<1>11. store' = [store EXCEPT ![T] = PutContent(T, p, m.mtime, m.data)]
  BY <1>2, <1>3, <1>6, <1>9 DEF Early
<1> HIDE DEF O, T, m
<1>12. /\ \A r \in Sides \ {T} : store'[r] = store[r]
       /\ store'[T][p].mtime = m.mtime /\ store'[T][p].data = m.data
       /\ \A q \in Paths \ {p} : ProgressAt(q, T, task[q], store'[T][q])
  BY <1>1, <1>6, <1>8, <1>11, ContentWrites
<1>13. \A q \in Paths \ {p}, s \in Sides : ProgressAt(q, s, task[q], store'[s][q])
  BY <1>4, <1>6, <1>12
<1>14. \A s \in Sides : Final(p, s, store'[s][p])
  <2>1. Final(p, T, store'[T][p])
    BY <1>1, <1>6, <1>12 DEF Final
  <2>2. store'[O] = store[O] /\ store[O][p] = Winner(p)
    BY <1>6, <1>9, <1>12 DEF Early
  <2>3. Final(p, O, store'[O][p])
    BY <1>1, <2>2 DEF Final
  <2>4. QED
    BY <1>6, <2>1, <2>3
<1>15. \A s \in Sides : ProgressAt(p, s, task'[p], store'[s][p])
  BY <1>10, <1>14 DEF Advances, ProgressAt, EarlySteps, MiddleSteps
<1>16. \A q \in Children(p) : Over(q)
  BY <1>1, NoChildren
<1>17. QED
  BY <1>1, <1>10, <1>13, <1>15, <1>16, AdvanceGoes

-----------------------------------------------------------------------------
(* File systems stay tidy *)

\* One side is written, and still holds only what it lists.
LEMMA TidyKept ==
    ASSUME TInv, Tidy, UNCHANGED kind, NEW s \in Sides,
           \A r \in Sides \ {s} : store'[r] = store[r],
           kind[s] = "fsy" =>
              \A q \in Paths : ~Listed(store'[s], q) => store'[s][q].ch = {}
    PROVE  Tidy'
<1>1. ASSUME NEW r \in Sides, NEW q \in Paths, kind[r] = "fsy", ~Listed(store'[r], q)
      PROVE  store'[r][q].ch = {}
  <2>1. CASE r = s
    BY <1>1, <2>1
  <2>2. CASE r # s
    <3>1. store'[r] = store[r]
      BY <2>2
    <3>2. QED
      BY <1>1, <3>1 DEF Tidy
  <2>3. QED
    BY <2>1, <2>2
<1>2. QED
  BY <1>1 DEF Tidy

LEMMA TidyNs ==
    ASSUME TInv, Tidy, UNCHANGED kind, NEW s \in Sides, NEW p \in Paths,
           NEW C \in SUBSET Children(p), NEW m \in Nat, Listed(store[s], p),
           store' = [store EXCEPT ![s] = PutNs(s, p, C, m)]
    PROVE  Tidy'
<1> DEFINE st == PutNs(s, p, C, m)
<1>1. store[s] \in Stores /\ clock \in Nat
  BY StoresTyped DEF TInv, TypeOK
<1>2. NsPut(s, p, C, m, st)
  BY <1>1, PutNsIs
<1>3. \A q \in Paths : Listed(store[s], q) /\ (\A r \in Line(q) : r \in store[s][p].ch => r \in C)
                          => Listed(st, q)
  BY PutNsLists
<1> HIDE DEF st
<1>4. st \in Stores
  BY <1>2 DEF NsPut
<1>5. store'[s] = st /\ \A r \in Sides \ {s} : store'[r] = store[r]
  BY <1>4, StoreSet DEF st, TInv
<1>6. ASSUME kind[s] = "fsy", NEW q \in Paths, st[q].ch # {} PROVE Listed(st, q)
  <2>1. CASE q = p
    <3>1. ASSUME NEW r \in Line(p), r \in store[s][p].ch PROVE FALSE
      <4>1. r \in Children(p)
        BY <1>1, <3>1 DEF Stores
      <4>2. r \in Paths \ {Root} /\ Parent[r] = p /\ p \notin Children(p)
        BY <4>1, ChildFacts
      <4>3. Parent[r] \in Above[p]
        BY <4>1, <4>2, AboveFacts DEF Line
      <4>4. QED
        BY <4>2, <4>3, AboveFacts
    <3>2. QED
      BY <1>3, <2>1, <3>1
  <2>2. CASE q # p
    <3>1. /\ st[q].ch \subseteq store[s][q].ch
          /\ Line(q) \intersect (store[s][p].ch \ C) # {} => st[q] = Missing
      BY <1>2, <1>6, <2>2 DEF NsPut
    <3>2. Listed(store[s], q)
      BY <1>6, <3>1 DEF Tidy
    <3>3. Line(q) \intersect (store[s][p].ch \ C) = {}
      BY <1>6, <3>1 DEF Missing
    <3>4. QED
      BY <1>3, <3>2, <3>3
  <2>3. QED
    BY <2>1, <2>2
<1>7. QED
  BY <1>5, <1>6, TidyKept

LEMMA TidyContent ==
    ASSUME TInv, Tidy, UNCHANGED kind, NEW s \in Sides, NEW p \in Paths \ Spaces,
           NEW m \in Nat, NEW d \in Nat, kind[s] = "fsy" => Listed(store[s], Parent[p]),
           store' = [store EXCEPT ![s] = PutContent(s, p, m, d)]
    PROVE  Tidy'
<1> DEFINE st == PutContent(s, p, m, d)
<1>1. store[s] \in Stores /\ clock \in Nat /\ Parent[p] \in Paths
  BY StoresTyped, TreeRooted, ParentIs DEF TInv, TypeOK
<1>2. ContentPut(s, p, m, d, st)
  BY <1>1, PutContentIs
<1>3. \A q \in Paths : Listed(store[s], q) => Listed(st, q)
  BY PutContentLists
<1> HIDE DEF st
<1>4. st \in Stores
  BY <1>2 DEF ContentPut
<1>5. store'[s] = st /\ \A r \in Sides \ {s} : store'[r] = store[r]
  BY <1>4, StoreSet DEF st, TInv
<1>6. ASSUME kind[s] = "fsy", NEW q \in Paths, st[q].ch # {} PROVE Listed(st, q)
  <2>1. q # p
    BY <1>2, <1>6 DEF ContentPut
  <2>2. CASE q = Parent[p]
    BY <1>1, <1>3, <1>6, <2>2
  <2>3. CASE q # Parent[p]
    <3>1. st[q] = store[s][q]
      BY <1>2, <2>1, <2>3 DEF ContentPut
    <3>2. QED
      BY <1>3, <1>6, <3>1 DEF Tidy
  <2>4. QED
    BY <2>2, <2>3
<1>7. QED
  BY <1>5, <1>6, TidyKept

LEMMA TidySame ==
    ASSUME Tidy, UNCHANGED <<kind, store>>
    PROVE  Tidy'
BY DEF Tidy

\* Half a merge writes a namespace that is listed.
LEMMA TidyMerge ==
    ASSUME TInv, Tidy, UNCHANGED kind, NEW p \in Paths, NEW s \in Sides, NEW needed, NEW making,
           NEW C \in SUBSET Children(p), NEW err, NsWritten(p, s, needed, making, C, err)
    PROVE  Tidy'
<1>1. CASE UNCHANGED store
  BY <1>1, TidySame
<1>2. CASE /\ ~RefusesNs(s, p, making)
           /\ store' = [store EXCEPT ![s] = PutNs(s, p, C, mergedMtime(task[p]))]
  <2>1. task[p] \in TaskRecords
    BY TaskTyped
  <2>2. mergedMtime(task[p]) \in Nat
    BY <2>1 DEF mergedMtime, TaskRecords, Entries, Sides
  <2>3. Listed(store[s], p)
    BY <1>2 DEF RefusesNs
  <2>4. QED
    BY <1>2, <2>2, <2>3, TidyNs
<1>3. QED
  BY <1>1, <1>2 DEF NsWritten

LEMMA TidyEdit ==
    ASSUME TInv, Tidy, NEW s \in Sides, NEW p \in Paths \ {Root}, EditEntry(s, p)
    PROVE  Tidy'
<1>1. /\ TInv' /\ EditEffect(s, p, IF p \in Spaces THEN 0 ELSE clock + 2)
      /\ Listed(store[s], Parent[p]) /\ Parent[p] \in Paths \ {p}
      /\ p \in Spaces => p \notin store[s][Parent[p]].ch
      /\ store'[s][p] = [mtime |-> clock + 2, ch |-> {},
                         data |-> IF p \in Spaces THEN Empty ELSE clock + 2]
      /\ store'[s][Parent[p]].ch = store[s][Parent[p]].ch \union {p}
      /\ \A q \in Paths \ {p, Parent[p]} : store'[s][q] = store[s][q]
  BY EditEntryIs
<1>2. UNCHANGED kind /\ \A r \in Sides \ {s} : store'[r] = store[r]
  BY <1>1 DEF EditEffect, options
<1>3. ASSUME kind[s] = "fsy", NEW q \in Paths, store'[s][q].ch # {} PROVE Listed(store'[s], q)
  <2>1. q # p
    BY <1>1, <1>3
  <2>2. CASE q = Parent[p]
    <3>1. p \notin Above[q]
      BY <2>2, ParentIs, AboveFacts DEF Line
    <3>2. QED
      BY <1>1, <2>2, <3>1, EditEntryLists
  <2>3. CASE q # Parent[p]
    <3>1. Listed(store[s], q)
      BY <1>1, <1>3, <2>1, <2>3 DEF Tidy
    <3>2. p \notin Above[q]
      <4>1. ASSUME p \in Above[q] PROVE FALSE
        <5>1. p \in Spaces
          BY <4>1, AboveFacts
        <5>2. Listed(store[s], p)
          BY <3>1, <4>1, ListedUp DEF Line
        <5>3. QED
          BY <1>1, <5>1, <5>2, ListedStep
      <4>2. QED
        BY <4>1
    <3>3. QED
      BY <3>1, <3>2, EditEntryLists
  <2>4. QED
    BY <2>2, <2>3
<1>4. QED
  BY <1>2, <1>3, TidyKept

LEMMA TidyRemove ==
    ASSUME TInv, Tidy, NEW s \in Sides, NEW p \in Paths \ {Root}, RemoveEntry(s, p)
    PROVE  Tidy'
<1>1. /\ EditEffect(s, p, 0) /\ Listed(store[s], p) /\ Parent[p] \in Paths \ {p}
      /\ \A q \in Paths \ {Parent[p]} : p \notin Line(q) => store'[s][q] = store[s][q]
  BY RemoveEntryIs
<1>2. UNCHANGED kind /\ \A r \in Sides \ {s} : store'[r] = store[r]
  BY <1>1 DEF EditEffect, options
<1>3. ASSUME kind[s] = "fsy", NEW q \in Paths, p \in Line(q) PROVE store'[s][q] = Missing
  <2>1. q = p \/ p \in Above[q]
    BY <1>3 DEF Line
  <2>2. store \in [Sides -> Stores]
    BY StoresTyped DEF TInv
  <2>3. QED
    BY <1>3, <2>1, <2>2 DEF RemoveEntry, Edited
<1>4. ASSUME kind[s] = "fsy", NEW q \in Paths, store'[s][q].ch # {} PROVE Listed(store'[s], q)
  <2>1. p \notin Line(q)
    BY <1>3, <1>4 DEF Missing
  <2>2. Listed(store[s], q)
    <3>1. CASE q = Parent[p]
      <4>1. Parent[p] \in Line(p)
        BY ParentIs DEF Line
      <4>2. QED
        BY <1>1, <3>1, <4>1, ListedUp
    <3>2. CASE q # Parent[p]
      BY <1>1, <1>4, <2>1, <3>2 DEF Tidy
    <3>3. QED
      BY <3>1, <3>2
  <2>3. QED
    BY <2>1, <2>2, RemoveEntryLists
<1>5. QED
  BY <1>2, <1>4, TidyKept

LEMMA TidyCloseFailed ==
    ASSUME TInv, Tidy, UNCHANGED kind, NEW p \in Paths \ Spaces, CloseFailed(p)
    PROVE  Tidy'
<1> DEFINE T == Target(task[p])
           new == store'[T]
<1>1. T \in Sides /\ Parent[p] \in Paths
  BY OriginTyped, TreeRooted, ParentIs
<1>2. CASE UNCHANGED store
  BY <1>2, TidySame
<1>3. CASE FileGone(T, p, new) /\ \A r \in Sides \ {T} : store'[r] = store[r]
  <2>1. ASSUME kind[T] = "fsy", NEW q \in Paths, ~Listed(new, q)
        PROVE  new[q].ch = {}
    <3>1. CASE q = p
      BY <1>3, <3>1 DEF FileGone, Missing
    <3>2. CASE q # p
      <4>1. ~Listed(store[T], q)
        BY <1>1, <1>3, <2>1, <3>2, FileGoneLists
      <4>2. store[T][q].ch = {}
        BY <1>1, <2>1, <4>1 DEF Tidy
      <4>3. new[q].ch \subseteq store[T][q].ch
        BY <1>3, <3>2 DEF FileGone
      <4>4. QED
        BY <4>2, <4>3
    <3>3. QED
      BY <3>1, <3>2
  <2> HIDE DEF T
  <2>2. QED
    BY <1>1, <1>3, <2>1, TidyKept
<1>4. QED
  BY <1>2, <1>3, CloseFailedStore

LEMMA EntryTidy ==
    ASSUME TInv, Tidy, NEW p \in Paths, SyncEntry(p)
    PROVE  Tidy'
<1> DEFINE t == task[p]
<1>1. \A s \in Sides : /\ MergedBefore(t, s) \in SUBSET Children(p)
                       /\ MergedAfter(t, s) \in SUBSET Children(p)
  BY TaskTyped, MergedTyped
<1>2. UNCHANGED runVars => UNCHANGED kind
  BY DEF runVars, options
<1>3. "left" \in Sides /\ "right" \in Sides
  BY DEF Sides
<1>4. CASE \E s \in Sides : ReadMeta(p, s)
  BY <1>2, <1>4, TidySame DEF ReadMeta
<1>5. CASE GiveUp(p) \/ Merge(p) \/ SkipContent(p)
  BY <1>2, <1>5, TidySame DEF GiveUp, Merge, SkipContent
<1>6. CASE LeftBefore(p)
  <2>1. /\ UNCHANGED runVars
        /\ \E err \in BOOLEAN : NsWritten(p, "left", NeedsBefore(t, "left"), MakesBefore(t, "left"),
                                          MergedBefore(t, "left"), err)
    BY <1>6, LeftBeforeIs
  <2>2. QED
    BY <1>1, <1>2, <1>3, <2>1, TidyMerge
<1>7. CASE RightBefore(p)
  <2>1. /\ UNCHANGED runVars
        /\ \E err \in BOOLEAN : NsWritten(p, "right", NeedsBefore(t, "right"), MakesBefore(t, "right"),
                                          MergedBefore(t, "right"), err)
    BY <1>7, RightBeforeIs
  <2>2. QED
    BY <1>1, <1>2, <1>3, <2>1, TidyMerge
<1>8. CASE LeftAfter(p)
  <2>1. /\ UNCHANGED runVars
        /\ \E err \in BOOLEAN : NsWritten(p, "left", NeedsAfter(t, "left"), MakesAfter(t, "left"),
                                          MergedAfter(t, "left"), err)
    BY <1>8, LeftAfterIs
  <2>2. QED
    BY <1>1, <1>2, <1>3, <2>1, TidyMerge
<1>9. CASE RightAfter(p)
  <2>1. /\ UNCHANGED runVars
        /\ \E err \in BOOLEAN : NsWritten(p, "right", NeedsAfter(t, "right"), MakesAfter(t, "right"),
                                          MergedAfter(t, "right"), err)
    BY <1>9, RightAfterIs
  <2>2. QED
    BY <1>1, <1>2, <1>3, <2>1, TidyMerge
<1>10. CASE OpenContent(p)
  <2>1. /\ UNCHANGED runVars /\ p \notin Spaces
        /\ \/ UNCHANGED store
           \/ /\ ~RefusesContent(Target(t), p)
              /\ store' = [store EXCEPT ![Target(t)] = Opened(Target(t), p)]
    BY <1>10, OpenContentIs DEF CopyReady
  <2>2. Target(t) \in Sides
    BY OriginTyped
  <2>3. CASE UNCHANGED store
    BY <1>2, <2>1, <2>3, TidySame
  <2>4. CASE /\ ~RefusesContent(Target(t), p)
             /\ store' = [store EXCEPT ![Target(t)] = Opened(Target(t), p)]
    <3>1. CASE kind[Target(t)] = "object"
      <4>1. UNCHANGED store
        BY <2>2, <2>4, <3>1 DEF Opened, TInv, TypeOK
      <4>2. QED
        BY <1>2, <2>1, <4>1, TidySame
    <3>2. CASE kind[Target(t)] # "object"
      <4>1. Now \in Nat /\ Empty \in Nat
        BY DEF TInv, TypeOK, Now, Empty
      <4>2. Listed(store[Target(t)], Parent[p])
        BY <2>4, <3>2 DEF RefusesContent
      <4>3. store' = [store EXCEPT ![Target(t)] = PutContent(Target(t), p, Now, Empty)]
        BY <2>4, <3>2 DEF Opened
      <4>4. QED
        BY <1>2, <2>1, <2>2, <4>1, <4>2, <4>3, TidyContent
    <3>3. QED
      BY <3>1, <3>2
  <2>5. QED
    BY <2>1, <2>3, <2>4
<1>11. CASE FillContent(p)
  <2> DEFINE m == t.meta[Origin(t)]
  <2>1. /\ UNCHANGED runVars /\ p \notin Spaces
        /\ \/ UNCHANGED store
           \/ /\ ~RefusesContent(Target(t), p)
              /\ Closed(p, m.data) \/ Closed(p, store[Origin(t)][p].data) \/ Closed(p, Torn)
           \/ CloseFailed(p)
    BY <1>11, FillContentIs
  <2>2. Target(t) \in Sides /\ Origin(t) \in Sides
    BY OriginTyped
  <2>3. t \in TaskRecords /\ store[Origin(t)] \in Stores
    BY <2>2, TaskTyped, StoresTyped DEF TInv
  <2>4. m \in Entries /\ store[Origin(t)][p] \in Entries
    BY <2>2, <2>3 DEF TaskRecords, Stores
  <2>5. m.mtime \in Nat /\ m.data \in Nat /\ store[Origin(t)][p].data \in Nat /\ Torn \in Nat
    BY <2>4 DEF Entries, Torn
  <2>6. CASE UNCHANGED store
    BY <1>2, <2>1, <2>6, TidySame
  <2>7. ASSUME ~RefusesContent(Target(t), p), NEW d \in Nat, Closed(p, d)
        PROVE  Tidy'
    <3>1. kind[Target(t)] = "fsy" => Listed(store[Target(t)], Parent[p])
      BY <2>7 DEF RefusesContent
    <3>2. store' = [store EXCEPT ![Target(t)] = PutContent(Target(t), p, m.mtime, d)]
      BY <2>7 DEF Closed
    <3> HIDE DEF m
    <3>3. QED
      BY <1>2, <2>1, <2>2, <2>5, <3>1, <3>2, TidyContent
  <2>8. CASE CloseFailed(p)
    BY <1>2, <2>1, <2>8, TidyCloseFailed
  <2>9. QED
    BY <2>1, <2>5, <2>6, <2>7, <2>8
<1>12. QED
  BY <1>4, <1>5, <1>6, <1>7, <1>8, <1>9, <1>10, <1>11 DEF SyncEntry, SyncNs, SyncContent

-----------------------------------------------------------------------------
(* Every step *)

\* A task without an error never gives up: a side it could not read would be one.
LEMMA GiveUpNever ==
    ASSUME TInv, Going, NEW p \in Paths
    PROVE  ~GiveUp(p)
<1> SUFFICES ASSUME GiveUp(p) PROVE FALSE
  OBVIOUS
<1>1. task[p].step # "off" /\ "left" \in task[p].failed
  BY DEF GiveUp, Evaluated, GivesUp
<1>2. QED
  BY <1>1, TaskKnows DEF Sides

LEMMA EntryGoes ==
    ASSUME TInv, Smooth => Going, NEW p \in Paths, SyncEntry(p), Smooth'
    PROVE  Going'
<1>1. ~reported' /\ run' = "syncing" /\ upset' = {}
  BY DEF Smooth
<1>2. ASSUME UNCHANGED <<runVars, run>>, NEW f \in {"read", "write", "copy", "crash"},
             NoFault \/ Fault(f) \/ Misreads, reported => reported'
      PROVE  /\ Going /\ NoFault /\ ~Misreads
             /\ ~Fault("read") /\ ~Fault("write") /\ ~Fault("copy")
  <2>1. Smooth /\ NoFault
    BY <1>2, SmoothStep
  <2>2. ~Misreads /\ \A g \in {"read", "write", "copy", "crash"} : ~Fault(g)
    BY <1>1 DEF Fault, Misreads, Mishap
  <2>3. QED
    BY <2>1, <2>2
<1>3. ASSUME NEW s \in Sides, ReadMeta(p, s) PROVE Going'
  <2>1. UNCHANGED <<runVars, run, reported>> /\ (NoFault \/ Fault("read") \/ Misreads)
    BY <1>3, ReadMetaIs
  <2>2. Going /\ NoFault /\ ~Fault("read") /\ ~Misreads
    BY <1>2, <2>1
  <2>3. QED
    BY <1>3, <2>2, ReadMetaGoes
<1>4. CASE GiveUp(p)
  BY <1>1, <1>4 DEF GiveUp
<1>5. CASE Merge(p)
  <2>1. task[p].step # "off" /\ UNCHANGED runVars /\ NoFault /\ UNCHANGED reported
    BY <1>5 DEF Merge, Evaluated, NoFault
  <2>2. run = "syncing"
    BY <2>1, Running DEF TInv
  <2>3. Going
    BY <1>1, <1>2, <2>1, <2>2
  <2>4. QED
    BY <1>1, <1>5, <2>3, MergeGoes
<1>6. CASE LeftBefore(p)
  <2>1. /\ UNCHANGED <<runVars, run, reported>> /\ (NoFault \/ Fault("write"))
    BY <1>6 DEF LeftBefore, WriteNs
  <2>2. Going /\ NoFault /\ ~Fault("write")
    BY <1>2, <2>1
  <2>3. QED
    BY <1>6, <2>2, LeftBeforeGoes
<1>7. CASE RightBefore(p)
  <2>1. UNCHANGED <<runVars, run>> /\ (NoFault \/ Fault("write")) /\ (reported => reported')
    BY <1>7 DEF RightBefore, WriteNs
  <2>2. Going /\ NoFault /\ ~Fault("write")
    BY <1>2, <2>1
  <2>3. QED
    BY <1>1, <1>7, <2>2, RightBeforeGoes
<1>8. CASE LeftAfter(p)
  <2>1. /\ UNCHANGED <<runVars, run, reported>> /\ (NoFault \/ Fault("write"))
    BY <1>8 DEF LeftAfter, WriteNs
  <2>2. Going /\ NoFault /\ ~Fault("write")
    BY <1>2, <2>1
  <2>3. QED
    BY <1>8, <2>2, LeftAfterGoes
<1>9. CASE RightAfter(p)
  <2>1. /\ UNCHANGED <<runVars, run, reported>> /\ (NoFault \/ Fault("write"))
    BY <1>9 DEF RightAfter, WriteNs
  <2>2. Going /\ NoFault /\ ~Fault("write")
    BY <1>2, <2>1
  <2>3. QED
    BY <1>9, <2>2, RightAfterGoes
<1>10. CASE SkipContent(p)
  <2>1. UNCHANGED <<runVars, run, reported>> /\ NoFault
    BY <1>10, SkipContentIs
  <2>2. Going
    BY <1>2, <2>1
  <2>3. QED
    BY <1>10, <2>2, SkipContentGoes
<1>11. CASE OpenContent(p)
  <2>1. /\ UNCHANGED <<runVars, run>> /\ (reported => reported')
        /\ NoFault \/ Fault("read") \/ Fault("write")
    BY <1>11, OpenContentIs
  <2>2. Going
    <3>1. PICK f \in {"read", "write", "copy", "crash"} : NoFault \/ Fault(f)
      BY <2>1
    <3>2. QED
      BY <1>2, <2>1, <3>1
  <2>3. QED
    BY <1>1, <1>11, <2>2, OpenContentGoes
<1>12. CASE FillContent(p)
  <2>1. /\ UNCHANGED <<runVars, run>> /\ (reported => reported')
        /\ NoFault \/ Fault("copy") \/ Fault("write")
    BY <1>12, FillContentIs DEF Closed, CloseFailed
  <2>2. Going /\ NoFault /\ ~Fault("copy")
    <3>1. PICK f \in {"read", "write", "copy", "crash"} : NoFault \/ Fault(f)
      BY <2>1
    <3>2. QED
      BY <1>2, <2>1, <3>1
  <2>3. QED
    BY <1>1, <1>12, <2>2, FillContentGoes
<1>13. QED
  BY <1>3, <1>4, <1>5, <1>6, <1>7, <1>8, <1>9, <1>10, <1>11, <1>12 DEF SyncEntry, SyncNs, SyncContent

\* A run begins with both sides as they are.
LEMMA BeginRunGoes ==
    ASSUME TInv, Tidy, BeginRun
    PROVE  Going'
<1>1. /\ run # "syncing" /\ before' = store /\ UNCHANGED <<options, store>>
      /\ task'[Root] = Task([s \in Sides |-> TRUE], FALSE)
      /\ \A p \in Paths \ {Root} : task'[p] = Off
  BY BeginRunIs
<1>2. Root \in Paths /\ \A p \in Paths \ {Root} : Parent[p] \in Paths
  BY TreeRooted, ParentIs
<1>3. /\ task'[Root].step = "metas" /\ ~task'[Root].err /\ task'[Root].failed = {}
      /\ task'[Root].exist = [s \in Sides |-> TRUE] /\ task'[Root].unread = Sides
  BY <1>1 DEF Task, Off
<1>4. \A p \in Paths \ {Root} : task'[p].step = "off" /\ ~task'[p].err
  BY <1>1 DEF Off
<1>5. \A p \in Paths : task'[p].step \in {"off", "metas"}
  BY <1>3, <1>4
<1>6. \A p \in Paths \ {Root} : WalkAt(p, task[Parent[p]].step, task[p].step)'
  BY <1>2, <1>4, <1>5 DEF WalkAt
<1>7. \A s \in Sides : Had(s, Root)'
  BY RootListed DEF Had
<1>8. \A p \in Paths, s \in Sides : KnowsAt(p, s, task[p])'
  BY <1>3, <1>4, <1>7 DEF KnowsAt
<1>9. \A p \in Paths : TaskGoes(p, task[p])'
  BY <1>3, <1>4, <1>5, <1>8 DEF TaskGoes, ErrsAt, CopiedAt
<1>10. \A p \in Paths, s \in Sides : Early(p, s, store[s][p])'
  BY <1>1 DEF Early, Had, Tidy, options
<1>11. \A p \in Paths, s \in Sides : ProgressAt(p, s, task[p], store[s][p])'
  BY <1>5, <1>10 DEF ProgressAt, MiddleSteps, LateSteps
<1>12. QED
  BY <1>3, <1>6, <1>9, <1>11 DEF Going

\* A run that ends has reached every entry, and both sides list what they are to.
LEMMA EndRunReaches ==
    ASSUME TInv, Going, task[Root].step = "done", NEW s \in Sides
    PROVE  Reached(s)
<1>1. Over(Root) /\ Root \in Paths
  BY TreeRooted DEF Over, OverAt
<1>2. ASSUME NEW p \in Paths PROVE Over(p)
  BY <1>1, AboveFacts, OverBelow
<1>3. \A p \in Paths : Wanted(s, p) => Final(p, s, store[s][p])
  <2>1. \A p \in Paths : Wanted(s, p) => task[p].step = "done"
    BY <1>2, HadFacts DEF Over, OverAt
  <2>2. QED
    BY <2>1 DEF Going, ProgressAt, LateSteps
<1> DEFINE S == {p \in Paths : Listed(store[s], p) <=> Wanted(s, p)}
<1>4. Root \in S
  BY <1>1, RootListed, HadFacts
<1>5. ASSUME NEW p \in Paths \ {Root}, Parent[p] \in S PROVE p \in S
  <2>1. Parent[p] \in Paths /\ Parent[p] \in Spaces /\ p \in Children(Parent[p])
    BY ParentIs
  <2>2. Listed(store[s], p) <=> p \in store[s][Parent[p]].ch /\ Listed(store[s], Parent[p])
    BY ListedStep
  <2>3. Wanted(s, p) => Wanted(s, Parent[p])
    BY HadFacts
  <2>4. Wanted(s, Parent[p]) => store[s][Parent[p]].ch = WantedIn(s, Parent[p])
    BY <1>3, <2>1 DEF Final
  <2>5. p \in WantedIn(s, Parent[p]) <=> Wanted(s, p)
    BY <2>1 DEF WantedIn
  <2>6. QED
    BY <1>5, <2>2, <2>3, <2>4, <2>5
<1>6. S = Paths
  <2> HIDE DEF S
  <2>1. S \in SUBSET Paths
    BY DEF S
  <2>2. QED
    BY <1>4, <1>5, <2>1, TreeReached
<1>7. \A p \in Paths : Listed(store[s], p) <=> Wanted(s, p)
  BY <1>6
<1>8. QED
  BY <1>3, <1>7 DEF Reached, Final

LEMMA EndRunSynchronized ==
    ASSUME RInv, EndRun
    PROVE  Synchronized'
<1>1. /\ task[Root].step = "done" /\ run' = "finished"
      /\ UNCHANGED <<options, store, before, upset, reported>>
  BY EndRunIs DEF RInv
<1>2. run = "syncing"
  BY <1>1, Running, TreeRooted DEF RInv, TInv
<1>3. upset = {} /\ ~reported => \A s \in Sides : Reached(s)
  BY <1>1, <1>2, EndRunReaches DEF RInv, Smooth
<1>4. (\A s \in Sides : Reached(s)) => (\A s \in Sides : Reached(s))'
  BY <1>1 DEF Reached, Wanted, Winner, options
<1>5. QED
  BY <1>1, <1>3, <1>4 DEF Synchronized

LEMMA InitRuns == Init => RInv
<1> SUFFICES ASSUME Init PROVE RInv
  OBVIOUS
<1>1. TInv /\ run = "idle"
  BY InitTyped DEF Init
<1>2. \A s \in Sides, p \in Paths : store[s][p].ch = {}
  BY DEF Init, Missing
<1>3. QED
  BY <1>1, <1>2 DEF RInv, Tidy, Smooth, Synchronized

LEMMA EditRuns ==
    ASSUME RInv, TInv', NEW s \in Sides, NEW p \in Paths \ {Root}, EditEntry(s, p) \/ RemoveEntry(s, p)
    PROVE  RInv'
<1>1. "edit" \in upset'
  BY DEF EditEntry, RemoveEntry, Edited
<1>2. Tidy'
  BY TidyEdit, TidyRemove, SMTT(40) DEF RInv
<1>3. QED
  BY <1>1, <1>2 DEF RInv, Smooth, Synchronized

\* The steps of a task are those of a run: it goes on, or ends with a panic.
LEMMA StepWorks ==
    ASSUME TInv, NEW p \in Paths, SyncEntry(p)
    PROVE  /\ run = "syncing" /\ (run' = run \/ run' = "failed")
           /\ NoFault \/ Misreads \/ \E f \in {"read", "write", "copy"} : Fault(f)
<1>1. task[p].step # "off"
  BY Zenon DEF SyncEntry, SyncNs, SyncContent, ReadMeta, GiveUp, Merge, Evaluated, LeftBefore,
               RightBefore, LeftAfter, RightAfter, SkipContent, OpenContent, CopyReady, FillContent
<1>2. run = "syncing"
  BY <1>1, Running DEF TInv
<1>3. run' = run \/ run' = "failed"
  BY Zenon DEF SyncEntry, SyncNs, SyncContent, ReadMeta, GiveUp, Merge, LeftBefore,
               RightBefore, LeftAfter, RightAfter, SkipContent, OpenContent, FillContent
<1>4. NoFault \/ Misreads \/ \E f \in {"read", "write", "copy"} : Fault(f)
  <2>1. ASSUME NEW s \in Sides, ReadMeta(p, s) PROVE NoFault \/ Misreads \/ Fault("read")
    BY <2>1, ReadMetaIs
  <2>2. GiveUp(p) \/ SyncNs(p) \/ SyncContent(p) => NoFault \/ Fault("read") \/ Fault("write") \/ Fault("copy")
    BY Zenon DEF SyncNs, SyncContent, GiveUp, Merge, LeftBefore, RightBefore, LeftAfter,
                 RightAfter, WriteNs, SkipContent, OpenContent, FillContent, NoFault
  <2>3. QED
    BY <2>1, <2>2 DEF SyncEntry
<1>5. QED
  BY <1>2, <1>3, <1>4

LEMMA StepRuns == RInv /\ [Next]_vars => RInv'
<1> SUFFICES ASSUME RInv, [Next]_vars PROVE RInv'
  OBVIOUS
<1>1. TInv' /\ TInv /\ Tidy
  BY StepKeepsTypes DEF RInv
<1>2. CASE UNCHANGED vars
  <2>1. Going => Going'
    BY <1>2 DEF vars, options, Going, WalkAt, TaskGoes, ErrsAt, CopiedAt, KnowsAt, ProgressAt, Early,
                Middle, Final, EarlySteps, MiddleSteps, LateSteps, Had, Wanted, HadIn, WantedIn,
                Winner, Origin, RTL, Updated, Created
  <2>2. Synchronized'
    BY <1>2 DEF RInv, Synchronized, Reached, Wanted, Winner, vars, options
  <2>3. Tidy' /\ (Smooth' => Smooth)
    BY <1>1, <1>2, SMTT(40) DEF Tidy, Smooth, vars, options
  <2>4. QED
    BY <1>1, <2>1, <2>2, <2>3 DEF RInv
<1>3. CASE BeginRun
  <2>1. run' = "syncing" /\ UNCHANGED <<kind, store>>
    BY <1>3 DEF BeginRun, options
  <2>2. Tidy'
    BY <1>1, <2>1, TidySame
  <2>3. Going'
    BY <1>1, <1>3, BeginRunGoes
  <2>4. QED
    BY <1>1, <2>1, <2>2, <2>3 DEF RInv, Synchronized
<1>4. CASE EndRun
  <2>1. run' = "finished" /\ UNCHANGED <<kind, store>>
    BY <1>4 DEF EndRun, options
  <2>2. Tidy'
    BY <1>1, <2>1, TidySame
  <2>3. Synchronized'
    BY <1>4, EndRunSynchronized
  <2>4. QED
    BY <1>1, <2>1, <2>2, <2>3 DEF RInv, Smooth
<1>5. ASSUME NEW p \in Paths, SyncEntry(p) PROVE RInv'
  <2>1. run' \in {"syncing", "failed"}
    BY <1>1, <1>5, StepWorks
  <2>2. Tidy'
    BY <1>1, <1>5, EntryTidy
  <2>3. Smooth' => Going'
    BY <1>1, <1>5, EntryGoes DEF RInv
  <2>4. QED
    BY <1>1, <2>1, <2>2, <2>3 DEF RInv, Synchronized
<1>6. CASE Crash
  <2>1. run' = "failed" /\ UNCHANGED <<kind, store>>
    BY <1>6 DEF Crash, runVars, options
  <2>2. Tidy'
    BY <1>1, <2>1, TidySame
  <2>3. QED
    BY <1>1, <2>1, <2>2 DEF RInv, Smooth, Synchronized
<1>7. CASE EditStep
  BY <1>1, <1>7, EditRuns DEF EditStep
<1>8. QED
  BY <1>2, <1>3, <1>4, <1>5, <1>6, <1>7 DEF Next, SyncStep

-----------------------------------------------------------------------------
\* What every task of an undisturbed run leaves behind it, on both sides.
THEOREM SyncRunInvariant == Spec => []RInv
BY InitRuns, StepRuns, PTL DEF Spec

\* Every run that nothing disturbs and that reports no error ends with each side
\* showing what it was to have: whatever the trees, the kinds of the two sides,
\* the modes and the order in which the tasks of the run are served.
THEOREM SyncSynchronized == Spec => []Synchronized
<1>1. RInv => Synchronized
  BY DEF RInv
<1>2. QED
  BY <1>1, SyncRunInvariant, PTL

-----------------------------------------------------------------------------
(* Sides in sync stay as they are *)

\* The data of a namespace says that it has metadata.
SpacesEmpty == \A s \in Sides, p \in Spaces : store[s][p].data \in {Nothing, Empty}

\* Both sides list the same entries, with the same metadata.
SameTrees ==
    \A p \in Paths :
        /\ Listed(store["left"], p) <=> Listed(store["right"], p)
        /\ Listed(store["left"], p) => store["left"][p] = store["right"][p]

\* A run over sides in sync has found nothing to write.
Idling ==
    /\ Smooth /\ before = store
    /\ \A p \in Paths : ~task[p].err /\ task[p].step # "fill"

IInv ==
    /\ RInv /\ SpacesEmpty
    /\ insync => SameTrees
    /\ insync /\ run = "syncing" => Idling

\* Only namespaces are written where namespaces are, and with their own data.
LEMMA NsDataKept ==
    ASSUME TInv, SpacesEmpty, NEW p \in Paths, NEW s \in Sides, NEW needed, NEW making,
           NEW C \in SUBSET Children(p), NEW err, NsWritten(p, s, needed, making, C, err)
    PROVE  SpacesEmpty'
<1>1. CASE UNCHANGED store
  BY <1>1 DEF SpacesEmpty
<1>2. CASE store' = [store EXCEPT ![s] = PutNs(s, p, C, mergedMtime(task[p]))]
  <2> DEFINE st == PutNs(s, p, C, mergedMtime(task[p]))
  <2>1. task[p] \in TaskRecords /\ store[s] \in Stores /\ clock \in Nat
    BY TaskTyped, StoresTyped DEF TInv, TypeOK
  <2>2. mergedMtime(task[p]) \in Nat
    BY <2>1 DEF mergedMtime, TaskRecords, Entries, Sides
  <2>3. NsPut(s, p, C, mergedMtime(task[p]), st)
    BY <2>1, <2>2, PutNsIs
  <2> HIDE DEF st
  <2>4. st \in Stores
    BY <2>3 DEF NsPut
  <2>5. store'[s] = st /\ \A r \in Sides \ {s} : store'[r] = store[r]
    BY <1>2, <2>4, StoreSet DEF st, TInv
  <2>6. \A q \in Paths : st[q] = store[s][q] \/ st[q].data \in {Nothing, Empty}
    BY <2>3 DEF NsPut, Missing
  <2>7. Spaces \subseteq Paths
    BY TreeRooted
  <2>8. QED
    BY <2>5, <2>6, <2>7 DEF SpacesEmpty
<1>3. QED
  BY <1>1, <1>2 DEF NsWritten

LEMMA ContentDataKept ==
    ASSUME TInv, SpacesEmpty, NEW s \in Sides, NEW p \in Paths \ Spaces, NEW m \in Nat, NEW d \in Nat,
           store' = [store EXCEPT ![s] = PutContent(s, p, m, d)]
    PROVE  SpacesEmpty'
<1> DEFINE st == PutContent(s, p, m, d)
<1>1. store[s] \in Stores /\ clock \in Nat
  BY StoresTyped DEF TInv, TypeOK
<1>2. ContentPut(s, p, m, d, st)
  BY <1>1, PutContentIs
<1> HIDE DEF st
<1>3. st \in Stores
  BY <1>2 DEF ContentPut
<1>4. store'[s] = st /\ \A r \in Sides \ {s} : store'[r] = store[r]
  BY <1>3, StoreSet DEF st, TInv
<1>5. \A q \in Spaces : st[q].data = store[s][q].data
  BY <1>2, TreeRooted DEF ContentPut
<1>6. QED
  BY <1>4, <1>5 DEF SpacesEmpty

LEMMA EntryDataKept ==
    ASSUME TInv, SpacesEmpty, NEW p \in Paths, SyncEntry(p)
    PROVE  SpacesEmpty'
<1> DEFINE t == task[p]
<1>1. \A s \in Sides : /\ MergedBefore(t, s) \in SUBSET Children(p)
                       /\ MergedAfter(t, s) \in SUBSET Children(p)
  BY TaskTyped, MergedTyped
<1>2. "left" \in Sides /\ "right" \in Sides
  BY DEF Sides
<1>3. ASSUME UNCHANGED store PROVE SpacesEmpty'
  BY <1>3 DEF SpacesEmpty
<1>4. CASE (\E s \in Sides : ReadMeta(p, s)) \/ GiveUp(p) \/ Merge(p) \/ SkipContent(p)
  BY <1>3, <1>4, Zenon DEF ReadMeta, GiveUp, Merge, SkipContent
<1>5. CASE LeftBefore(p)
  <2>1. \E err \in BOOLEAN : NsWritten(p, "left", NeedsBefore(t, "left"), MakesBefore(t, "left"),
                                       MergedBefore(t, "left"), err)
    BY <1>5, LeftBeforeIs
  <2>2. QED
    BY <1>1, <1>2, <2>1, NsDataKept
<1>6. CASE RightBefore(p)
  <2>1. \E err \in BOOLEAN : NsWritten(p, "right", NeedsBefore(t, "right"), MakesBefore(t, "right"),
                                       MergedBefore(t, "right"), err)
    BY <1>6, RightBeforeIs
  <2>2. QED
    BY <1>1, <1>2, <2>1, NsDataKept
<1>7. CASE LeftAfter(p)
  <2>1. \E err \in BOOLEAN : NsWritten(p, "left", NeedsAfter(t, "left"), MakesAfter(t, "left"),
                                       MergedAfter(t, "left"), err)
    BY <1>7, LeftAfterIs
  <2>2. QED
    BY <1>1, <1>2, <2>1, NsDataKept
<1>8. CASE RightAfter(p)
  <2>1. \E err \in BOOLEAN : NsWritten(p, "right", NeedsAfter(t, "right"), MakesAfter(t, "right"),
                                       MergedAfter(t, "right"), err)
    BY <1>8, RightAfterIs
  <2>2. QED
    BY <1>1, <1>2, <2>1, NsDataKept
<1>9. Target(t) \in Sides /\ Origin(t) \in Sides
  BY OriginTyped
<1>10. CASE OpenContent(p)
  <2>1. p \notin Spaces /\ (UNCHANGED store \/ store' = [store EXCEPT ![Target(t)] = Opened(Target(t), p)])
    BY <1>10, OpenContentIs DEF CopyReady
  <2>2. CASE UNCHANGED store
    BY <1>3, <2>2
  <2>3. CASE store' = [store EXCEPT ![Target(t)] = Opened(Target(t), p)]
    <3>1. Now \in Nat /\ Empty \in Nat
      BY DEF TInv, TypeOK, Now, Empty
    <3>2. CASE kind[Target(t)] = "object"
      <4>1. UNCHANGED store
        BY <1>9, <2>3, <3>2 DEF Opened, TInv, TypeOK
      <4>2. QED
        BY <1>3, <4>1
    <3>3. CASE kind[Target(t)] # "object"
      <4>1. store' = [store EXCEPT ![Target(t)] = PutContent(Target(t), p, Now, Empty)]
        BY <2>3, <3>3 DEF Opened
      <4>2. QED
        BY <1>9, <2>1, <3>1, <4>1, ContentDataKept
    <3>4. QED
      BY <3>2, <3>3
  <2>4. QED
    BY <2>1, <2>2, <2>3
<1>11. CASE FillContent(p)
  <2> DEFINE m == t.meta[Origin(t)]
  <2>1. /\ p \notin Spaces
        /\ \/ UNCHANGED store
           \/ Closed(p, m.data) \/ Closed(p, store[Origin(t)][p].data) \/ Closed(p, Torn)
           \/ CloseFailed(p)
    BY <1>11, FillContentIs
  <2>2. t \in TaskRecords /\ store[Origin(t)] \in Stores
    BY <1>9, TaskTyped, StoresTyped DEF TInv
  <2>3. m \in Entries /\ store[Origin(t)][p] \in Entries
    BY <1>9, <2>2 DEF TaskRecords, Stores
  <2>4. m.mtime \in Nat /\ m.data \in Nat /\ store[Origin(t)][p].data \in Nat /\ Torn \in Nat
    BY <2>3 DEF Entries, Torn
  <2>5. ASSUME NEW d \in Nat, Closed(p, d) PROVE SpacesEmpty'
    <3>1. store' = [store EXCEPT ![Target(t)] = PutContent(Target(t), p, m.mtime, d)]
      BY <2>5 DEF Closed
    <3> HIDE DEF m
    <3>2. QED
      BY <1>9, <2>1, <2>4, <3>1, ContentDataKept
  <2>6. CASE CloseFailed(p)
    <3>1. ASSUME FileGone(Target(t), p, store'[Target(t)]),
                 \A r \in Sides \ {Target(t)} : store'[r] = store[r]
          PROVE  SpacesEmpty'
      <4>1. \A q \in Spaces : store'[Target(t)][q].data = store[Target(t)][q].data
        BY <2>1, <3>1, TreeRooted DEF FileGone
      <4>2. QED
        BY <1>9, <3>1, <4>1 DEF SpacesEmpty
    <3>2. QED
      BY <1>3, <2>1, <2>6, <3>1, CloseFailedStore
  <2>7. QED
    BY <1>3, <2>1, <2>4, <2>5, <2>6
<1>12. QED
  BY <1>4, <1>5, <1>6, <1>7, <1>8, <1>10, <1>11 DEF SyncEntry, SyncNs, SyncContent

LEMMA EditDataKept ==
    ASSUME TInv, SpacesEmpty, NEW s \in Sides, NEW p \in Paths \ {Root},
           EditEntry(s, p) \/ RemoveEntry(s, p)
    PROVE  SpacesEmpty'
<1>1. store \in [Sides -> Stores] /\ store[s] \in Stores /\ Parent[p] \in Paths /\ Spaces \subseteq Paths
  BY StoresTyped, ParentIs, TreeRooted DEF TInv
<1>2. \A C : \A q \in Spaces : \/ Relisted(s, p, C)[q] = store[s][q]
                               \/ Relisted(s, p, C)[q].data = Empty
  BY <1>1 DEF Relisted, Stores
<1>3. ASSUME NEW st, store' = [store EXCEPT ![s] = st],
             \A q \in Spaces : st[q] = store[s][q] \/ st[q].data \in {Nothing, Empty}
      PROVE  SpacesEmpty'
  <2>1. store'[s] = st /\ \A r \in Sides \ {s} : store'[r] = store[r]
    BY <1>1, <1>3
  <2>2. QED
    BY <1>3, <2>1 DEF SpacesEmpty
<1>4. CASE EditEntry(s, p)
  <2> DEFINE ch == store[s][Parent[p]].ch
             C == ch \union {p}
             base == IF p \in ch THEN store[s] ELSE Relisted(s, p, C)
             entry == [mtime |-> clock + 2, ch |-> {},
                       data |-> IF p \in Spaces THEN Empty ELSE clock + 2]
             st == [base EXCEPT ![p] = entry]
  <2>1. store' = [store EXCEPT ![s] = st]
    BY <1>4 DEF EditEntry, Edited
  <2>2. p \in Spaces => entry.data = Empty
    OBVIOUS
  <2> HIDE DEF C, entry
  <2>3. \A q \in Spaces : base[q] = store[s][q] \/ base[q].data = Empty
    BY <1>2
  <2> HIDE DEF base
  <2>4. \A q \in Spaces : st[q] = store[s][q] \/ st[q].data \in {Nothing, Empty}
    <3>1. DOMAIN base = Paths
      BY <1>1 DEF base, Relisted, Stores
    <3>2. \A q \in Paths : st[q] = IF q = p THEN entry ELSE base[q]
      BY <3>1
    <3>3. QED
      BY <1>1, <2>2, <2>3, <3>2
  <2> HIDE DEF st
  <2>5. QED
    BY <1>3, <2>1, <2>4
<1>5. CASE RemoveEntry(s, p)
  <2> DEFINE C == store[s][Parent[p]].ch \ {p}
             unlisted == Relisted(s, p, C)
             st == IF kind[s] = "object" THEN unlisted
                   ELSE [q \in Paths |-> IF q = p \/ p \in Above[q] THEN Missing ELSE unlisted[q]]
  <2>1. store' = [store EXCEPT ![s] = st]
    BY <1>5 DEF RemoveEntry, Edited
  <2> HIDE DEF C
  <2>2. \A q \in Spaces : unlisted[q] = store[s][q] \/ unlisted[q].data = Empty
    BY <1>2
  <2> HIDE DEF unlisted
  <2>3. \A q \in Spaces : st[q] = store[s][q] \/ st[q].data \in {Nothing, Empty}
    BY <1>1, <2>2 DEF Missing
  <2> HIDE DEF st
  <2>4. QED
    BY <1>3, <2>1, <2>3
<1>6. QED
  BY <1>4, <1>5

\* In sync, both sides had the entry of a task and what it read of them is the same.
LEMMA IdleKnows ==
    ASSUME TInv, Going, SameTrees, before = store, NEW p \in Paths, task[p].step # "off"
    PROVE  /\ task[p].exist["left"] /\ task[p].exist["right"]
           /\ task[p].unread = {} => task[p].meta["left"] = task[p].meta["right"]
<1>1. "left" \in Sides /\ "right" \in Sides
  BY DEF Sides
<1>2. Had("left", p) /\ Had("right", p)
  <2>1. \E s \in Sides : Had(s, p)
    BY TaskKnows
  <2>2. QED
    BY <2>1 DEF SameTrees, Had, Sides
<1>3. task[p].exist["left"] /\ task[p].exist["right"]
  BY <1>1, <1>2, TaskKnows
<1>4. ASSUME task[p].unread = {} PROVE task[p].meta["left"] = task[p].meta["right"]
  <2>1. \A s \in Sides : task[p].meta[s] = before[s][p]
    BY <1>2, <1>4, TaskKnows DEF Sides
  <2>2. before["left"][p] = before["right"][p]
    BY <1>2 DEF SameTrees, Had
  <2>3. QED
    BY <1>1, <2>1, <2>2
<1>5. QED
  BY <1>3, <1>4

\* So there is nothing to write: neither a content nor any half of a merge.
LEMMA IdleTask ==
    ASSUME TInv, Going, SameTrees, before = store, NEW p \in Paths, task[p].step # "off",
           task[p].unread = {}
    PROVE  /\ ~NoMeta(task[p]) /\ ~Created(task[p]) /\ ~Updated(task[p])
           /\ \A s \in Sides : ~NeedsBefore(task[p], s) /\ ~NeedsAfter(task[p], s)
<1>1. /\ task[p].exist["left"] /\ task[p].exist["right"]
      /\ task[p].meta["left"] = task[p].meta["right"]
  BY IdleKnows
<1>2. ~NoMeta(task[p]) /\ ~Created(task[p]) /\ ~Updated(task[p])
  BY <1>1 DEF NoMeta, Created, Updated
<1>3. exCh(task[p], "left") = exCh(task[p], "right")
  BY <1>1 DEF exCh
<1>4. \A s \in Sides : MergedBefore(task[p], s) = exCh(task[p], s)
  BY <1>3 DEF MergedBefore, leftMg, rightMg, Sides
<1>5. \A s \in Sides : task[p].exist[s]
  BY <1>1 DEF Sides
<1>6. \A s \in Sides : ~NeedsBefore(task[p], s) /\ ~NeedsAfter(task[p], s)
  BY <1>2, <1>4, <1>5 DEF NeedsBefore, NeedsAfter
<1>7. QED
  BY <1>2, <1>6

\* Half of a merge of sides in sync.
LEMMA IdleWrite ==
    ASSUME TInv, Going, Idling, SameTrees, insync', NEW p \in Paths, task[p].step \in Merging,
           NEW s \in Sides, NEW needed, NEW making, NEW C, NEW err,
           needed => NeedsBefore(task[p], s) \/ NeedsAfter(task[p], s),
           NsWritten(p, s, needed, making, C, err)
    PROVE  UNCHANGED store /\ ~err /\ NoFault
<1>1. task[p].unread = {}
  BY TaskTyped DEF TaskedAt, Merging
<1>2. ~needed
  BY <1>1, IdleTask DEF Idling, Merging
<1>3. ~Fault("write")
  BY DEF Fault, Mishap
<1>4. ~task[p].err
  BY DEF Idling
<1>5. QED
  BY <1>2, <1>3, <1>4 DEF NsWritten

\* One task goes on.
LEMMA IdleAdvance ==
    ASSUME Idling, UNCHANGED <<runVars, run, store, reported>>, NoFault, NEW p \in Paths,
           NEW step, step # "fill", Advances(p, step, FALSE)
    PROVE  Idling'
<1>1. Smooth' /\ before' = store'
  BY DEF Idling, Smooth, runVars, NoFault, noFault
<1>2. \A q \in Paths : ~task'[q].err /\ task'[q].step # "fill"
  BY DEF Idling, Advances, Others
<1>3. QED
  BY <1>1, <1>2 DEF Idling

LEMMA IdleStep ==
    ASSUME TInv, Going, Idling, SameTrees, insync', NEW p \in Paths, SyncEntry(p)
    PROVE  UNCHANGED store /\ Idling'
<1> DEFINE t == task[p]
<1>1. ~Misreads /\ \A f : ~Fault(f)
  BY DEF Fault, Misreads, Mishap
<1>2. before = store /\ \A q \in Paths : ~task[q].err /\ task[q].step # "fill"
  BY DEF Idling
<1>3. "left" \in Sides /\ "right" \in Sides
  BY DEF Sides
<1>4. CASE \E s \in Sides : ReadMeta(p, s)
  <2>1. PICK s \in Sides : ReadMeta(p, s)
    BY <1>4
  <2>2. /\ Others(p) /\ UNCHANGED <<runVars, run, store, reported>> /\ NoFault
        /\ task'[p].step = "metas" /\ ~task'[p].err
    BY <1>1, <1>2, <2>1, ReadMetaIs
  <2>3. Smooth' /\ before' = store'
    BY <2>2 DEF Idling, Smooth, runVars, NoFault, noFault
  <2>4. \A q \in Paths : ~task'[q].err /\ task'[q].step # "fill"
    BY <1>2, <2>2 DEF Others
  <2>5. QED
    BY <2>2, <2>3, <2>4 DEF Idling
<1>5. CASE Merge(p)
  <2>1. /\ Evaluated(p) /\ UNCHANGED <<runVars, store, reported>> /\ NoFault
        /\ NoMeta(t) \/ (run' = run /\ Advances(p, "leftBefore", t.err))
    BY <1>5, MergeIs
  <2>2. ~NoMeta(t)
    BY <1>2, <2>1, IdleTask DEF Evaluated
  <2>3. Advances(p, "leftBefore", FALSE)
    BY <1>2, <2>1, <2>2, TaskTyped DEF Advances, TaskRecords
  <2>4. QED
    BY <2>1, <2>2, <2>3, IdleAdvance
<1>6. CASE LeftBefore(p)
  <2>1. PICK err \in BOOLEAN :
            /\ Advances(p, "rightBefore", err)
            /\ NsWritten(p, "left", NeedsBefore(t, "left"), MakesBefore(t, "left"),
                         MergedBefore(t, "left"), err)
    BY <1>6, LeftBeforeIs
  <2>2. UNCHANGED <<runVars, run, reported>> /\ t.step = "leftBefore"
    BY <1>6, LeftBeforeIs
  <2>3. UNCHANGED store /\ ~err /\ NoFault
    BY <1>3, <2>1, <2>2, IdleWrite DEF Merging
  <2>4. QED
    BY <2>1, <2>2, <2>3, IdleAdvance
<1>7. CASE RightBefore(p)
  <2>1. PICK err \in BOOLEAN :
            /\ Spawns(p, err)
            /\ NsWritten(p, "right", NeedsBefore(t, "right"), MakesBefore(t, "right"),
                         MergedBefore(t, "right"), err)
            /\ reported' = (reported \/ (leftAndRight(t) # {} /\ err))
    BY <1>7, RightBeforeIs
  <2>2. UNCHANGED <<runVars, run>> /\ t.step = "rightBefore"
    BY <1>7, RightBeforeIs
  <2>3. UNCHANGED store /\ ~err /\ NoFault
    BY <1>3, <2>1, <2>2, IdleWrite DEF Merging
  <2>4. \A q \in leftAndRight(t) : ~task'[q].err /\ task'[q].step # "fill"
    BY <2>1, <2>3, ZenonT(60) DEF Spawns, Task, Off
  <2>5. \A q \in Paths : ~task'[q].err /\ task'[q].step # "fill"
    BY <1>2, <2>1, <2>3, <2>4 DEF Spawns
  <2>6. Smooth' /\ before' = store'
    BY <2>1, <2>2, <2>3 DEF Idling, Smooth, runVars, NoFault, noFault
  <2>7. QED
    BY <2>3, <2>5, <2>6 DEF Idling
<1>8. CASE LeftAfter(p)
  <2>1. PICK err \in BOOLEAN :
            /\ Advances(p, "rightAfter", err)
            /\ NsWritten(p, "left", NeedsAfter(t, "left"), MakesAfter(t, "left"),
                         MergedAfter(t, "left"), err)
    BY <1>8, LeftAfterIs
  <2>2. UNCHANGED <<runVars, run, reported>> /\ t.step = "children"
    BY <1>8, LeftAfterIs
  <2>3. UNCHANGED store /\ ~err /\ NoFault
    BY <1>3, <2>1, <2>2, IdleWrite DEF Merging
  <2>4. QED
    BY <2>1, <2>2, <2>3, IdleAdvance
<1>9. CASE RightAfter(p)
  <2>1. PICK err \in BOOLEAN :
            /\ Advances(p, "done", err)
            /\ NsWritten(p, "right", NeedsAfter(t, "right"), MakesAfter(t, "right"),
                         MergedAfter(t, "right"), err)
    BY <1>9, RightAfterIs
  <2>2. UNCHANGED <<runVars, run, reported>> /\ t.step = "rightAfter"
    BY <1>9, RightAfterIs
  <2>3. UNCHANGED store /\ ~err /\ NoFault
    BY <1>3, <2>1, <2>2, IdleWrite DEF Merging
  <2>4. QED
    BY <2>1, <2>2, <2>3, IdleAdvance
<1>10. CASE SkipContent(p)
  <2>1. UNCHANGED <<runVars, run, store, reported>> /\ NoFault /\ Advances(p, "done", FALSE)
    BY <1>10, SkipContentIs
  <2>2. QED
    BY <2>1, IdleAdvance
<1>11. ~GiveUp(p)
  BY GiveUpNever
<1>12. ~OpenContent(p)
  <2> SUFFICES ASSUME OpenContent(p) PROVE FALSE
    OBVIOUS
  <2>1. CopyReady(p) /\ (Created(t) \/ Updated(t))
    BY DEF OpenContent
  <2>2. QED
    BY <1>2, <2>1, IdleTask DEF CopyReady, Evaluated
<1>13. ~FillContent(p)
  BY <1>2 DEF FillContent
<1>14. QED
  BY <1>4, <1>5, <1>6, <1>7, <1>8, <1>9, <1>10, <1>11, <1>12, <1>13 DEF SyncEntry, SyncNs, SyncContent

\* A run that went well, and was to remove what the other side has not, leaves
\* both sides the same.
LEMMA ReachedSame ==
    ASSUME TInv, SpacesEmpty, Described, ~keep, \A s \in Sides : Reached(s),
           \A p \in Paths : Wanted("left", p) <=> Wanted("right", p)
    PROVE  SameTrees
<1>1. "left" \in Sides /\ "right" \in Sides /\ Spaces \subseteq Paths
  BY TreeRooted DEF Sides
<1>2. \A p \in Paths : Listed(store["left"], p) <=> Listed(store["right"], p)
  BY <1>1 DEF Reached
<1>3. ASSUME NEW p \in Paths, Listed(store["left"], p)
      PROVE  store["left"][p] = store["right"][p]
  <2>1. \A s \in Sides : /\ Listed(store[s], p)
                         /\ store[s][p] \in Entries /\ store[s][p].ch \subseteq Children(p)
    <3>1. \A s \in Sides : store[s] \in Stores
      BY StoresTyped DEF TInv
    <3>2. QED
      BY <1>1, <1>2, <1>3, <3>1 DEF Stores, Sides
  <2>2. store["left"][p].mtime = store["right"][p].mtime
    BY <1>1, <2>1 DEF Reached
  <2>3. store["left"][p].data = store["right"][p].data
    <3>1. CASE p \in Spaces
      <4>1. \A s \in Sides : store[s][p].data = Empty
        BY <2>1, <3>1 DEF Described, SpacesEmpty
      <4>2. QED
        BY <1>1, <4>1
    <3>2. CASE p \notin Spaces
      BY <1>1, <2>1, <3>2 DEF Reached
    <3>3. QED
      BY <3>1, <3>2
  <2>4. \A s \in Sides, q \in Children(p) : q \in store[s][p].ch <=> Listed(store[s], q)
    BY <2>1, ChildFacts, ListedStep
  <2>5. \A q \in Children(p) : q \in store["left"][p].ch <=> q \in store["right"][p].ch
    BY <1>1, <1>2, <2>4, ChildFacts
  <2>6. store["left"][p].ch = store["right"][p].ch
    BY <1>1, <2>1, <2>5
  <2>7. QED
    BY <1>1, <2>1, <2>2, <2>3, <2>6 DEF Entries
<1>4. QED
  BY <1>2, <1>3 DEF SameTrees

LEMMA EndRunSame ==
    ASSUME IInv, EndRun, insync'
    PROVE  SameTrees'
<1>1. /\ task[Root].step = "done" /\ UNCHANGED <<options, store, before, upset, reported>>
      /\ upset = {} /\ ~reported /\ ~keep /\ Described
  BY DEF EndRun
<1>2. TInv /\ RInv /\ SpacesEmpty
  BY DEF IInv, RInv
<1>3. run = "syncing"
  BY <1>1, <1>2, Running, TreeRooted DEF TInv
<1>4. Going
  BY <1>1, <1>2, <1>3 DEF RInv, Smooth
<1>5. \A s \in Sides : Reached(s)
  BY <1>1, <1>2, <1>4, EndRunReaches
<1>6. \A p \in Paths : Wanted("left", p) <=> Wanted("right", p)
  BY <1>1 DEF Wanted
<1>7. SameTrees
  BY <1>1, <1>2, <1>5, <1>6, ReachedSame
<1>8. QED
  BY <1>1, <1>7 DEF SameTrees

LEMMA BeginRunIdles ==
    ASSUME TInv, BeginRun
    PROVE  Idling' /\ UNCHANGED <<store, insync>>
<1>1. /\ run' = "syncing" /\ upset' = {} /\ before' = store /\ UNCHANGED <<store, insync>>
      /\ task'[Root] = Task([s \in Sides |-> TRUE], FALSE)
      /\ \A p \in Paths \ {Root} : task'[p] = Off
  BY BeginRunIs
<1>2. ~reported'
  BY DEF BeginRun
<1>3. ~task'[Root].err /\ task'[Root].step # "fill"
  BY <1>1 DEF Task, Off
<1>4. \A p \in Paths \ {Root} : ~task'[p].err /\ task'[p].step # "fill"
  BY <1>1 DEF Off
<1>5. \A p \in Paths : ~task'[p].err /\ task'[p].step # "fill"
  BY <1>3, <1>4
<1>6. QED
  BY <1>1, <1>2, <1>5 DEF Idling, Smooth

-----------------------------------------------------------------------------
LEMMA InitIdles == Init => IInv
<1> SUFFICES ASSUME Init PROVE IInv
  OBVIOUS
<1>1. RInv /\ ~insync
  BY InitRuns DEF Init
<1>2. \A s \in Sides, p \in Paths : store[s][p].data \in {Nothing, Empty}
  BY DEF Init, Missing
<1>3. QED
  BY <1>1, <1>2, TreeRooted DEF IInv, SpacesEmpty

\* Sides in sync stay as they are while nobody edits them and nothing fails.
LEMMA StepIdles ==
    ASSUME IInv, [Next]_vars
    PROVE  IInv' /\ (insync /\ insync' => store' = store)
<1>1. RInv' /\ RInv /\ TInv /\ SpacesEmpty
  BY StepRuns DEF IInv, RInv
<1>2. CASE UNCHANGED vars
  BY <1>1, <1>2 DEF IInv, SpacesEmpty, SameTrees, Idling, Smooth, vars, options
<1>3. CASE BeginRun
  <2>1. Idling' /\ UNCHANGED <<store, insync>>
    BY <1>1, <1>3, BeginRunIdles
  <2>2. QED
    BY <1>1, <2>1 DEF IInv, SpacesEmpty, SameTrees
<1>4. CASE EndRun
  <2>1. run' = "finished" /\ UNCHANGED store
    BY <1>4 DEF EndRun
  <2>2. insync' => SameTrees'
    BY <1>4, EndRunSame
  <2>3. QED
    BY <1>1, <2>1, <2>2 DEF IInv, SpacesEmpty
<1>5. ASSUME NEW p \in Paths, SyncEntry(p)
      PROVE  IInv' /\ (insync /\ insync' => store' = store)
  <2>1. SpacesEmpty'
    BY <1>1, <1>5, EntryDataKept
  <2>2. run = "syncing" /\ (insync' => insync)
    BY <1>1, <1>5, StepWorks DEF NoFault, noFault, Fault, Misreads, Mishap
  <2>3. ASSUME insync' PROVE UNCHANGED store /\ SameTrees' /\ Idling'
    <3>1. SameTrees /\ Idling /\ Going
      BY <1>1, <2>2, <2>3 DEF IInv, RInv, Idling
    <3>2. UNCHANGED store /\ Idling'
      BY <1>1, <1>5, <2>3, <3>1, IdleStep
    <3>3. QED
      BY <3>1, <3>2 DEF SameTrees
  <2>4. QED
    BY <1>1, <2>1, <2>3 DEF IInv
<1>6. CASE Crash
  <2>1. ~insync' /\ UNCHANGED store
    BY <1>6 DEF Crash, Fault, Mishap
  <2>2. QED
    BY <1>1, <2>1 DEF IInv, SpacesEmpty
<1>7. ASSUME NEW s \in Sides, NEW p \in Paths \ {Root}, EditEntry(s, p) \/ RemoveEntry(s, p)
      PROVE  IInv' /\ (insync /\ insync' => store' = store)
  <2>1. ~insync'
    BY <1>7 DEF EditEntry, RemoveEntry, Edited
  <2>2. SpacesEmpty'
    BY <1>1, <1>7, EditDataKept
  <2>3. QED
    BY <1>1, <2>1, <2>2 DEF IInv
<1>8. QED
  BY <1>2, <1>3, <1>4, <1>5, <1>6, <1>7 DEF Next, SyncStep, EditStep

\* Sides in sync hold the same trees, and a run over them finds nothing to do.
THEOREM SyncIdleInvariant == Spec => []IInv
<1>1. IInv /\ [Next]_vars => IInv'
  BY StepIdles
<1>2. QED
  BY <1>1, InitIdles, PTL DEF Spec

\* After a run that ended well, the next ones write nothing, on either side, until
\* a user edits or something fails: whatever the trees, the kinds of the two sides
\* and the order in which the tasks are served.
THEOREM SyncInSyncIdle == Spec => InSyncIdle
<1>1. IInv /\ [Next]_vars => [insync /\ insync' => store' = store]_vars
  BY StepIdles
<1>2. QED
  BY <1>1, SyncIdleInvariant, PTL DEF Spec, InSyncIdle

-----------------------------------------------------------------------------
(* The newest content survives *)

\* What may happen to a run of which the newest content survives.
Benign ==
    /\ bidir /\ ~busy
    /\ happened \subseteq {"crash", "write"}
    /\ \A s \in Sides : kind[s] = "object"

FaultsLeft == faults \subseteq Faults

\* A copy starts from a side that has the content.
Sourced == \A p \in Paths : task[p].step = "fill" => \E s \in Sides : task[p].exist[s]

\* A content has the time it was written at, and no side has a newer one than
\* the one the users wrote last.
Dated ==
    Benign => \A p \in Paths \ Spaces :
        /\ written[p] <= clock
        /\ \A s \in Sides :
              /\ store[s][p].data = store[s][p].mtime
              /\ store[s][p].data <= clock
              /\ written[p] # 0 => store[s][p].data <= written[p]

\* What a side listed when the run began it still lists, and its contents only
\* get newer.
Grown ==
    Benign /\ run = "syncing" =>
        \A s \in Sides, p \in Paths : Listed(before[s], p) =>
            /\ p \in Spaces => before[s][p].ch \subseteq store[s][p].ch
            /\ p \notin Spaces => before[s][p].mtime <= store[s][p].mtime

\* A task knows at least what a side listed when the run began; of a content it
\* knows what the side has now.
ReadAt(p, s, t) ==
    t.step \notin {"off", "done"} =>
        /\ Listed(before[s], p) => t.exist[s]
        /\ t.exist[s] /\ s \notin t.unread =>
              /\ p \in Spaces /\ Listed(before[s], p) => before[s][p].ch \subseteq t.meta[s].ch
              /\ p \notin Spaces => t.meta[s] = store[s][p]

BothRead == Benign => \A p \in Paths, s \in Sides : ReadAt(p, s, task[p])

\* One side had the newest content when the run began.
NewestBefore ==
    Benign /\ run = "syncing" => \A p \in Paths : written[p] # 0 =>
        \E s \in Sides :
            /\ Listed(before[s], p)
            /\ before[s][p].data = written[p] /\ before[s][p].mtime = written[p]

NewestAtRest == Benign /\ run # "syncing" => NewestKept

NInv ==
    KInv /\ FaultsLeft /\ Sourced /\ Dated /\ Grown /\ BothRead /\ NewestBefore /\ NewestAtRest

-----------------------------------------------------------------------------
(* What the parts say of each other *)

LEMMA Known ==
    ASSUME NInv
    PROVE  /\ TInv /\ TypeOK /\ WrittenContents /\ clock \in Nat
           /\ \A s \in Sides : store[s] \in Stores /\ before[s] \in [Paths -> Entries]
           /\ \A p \in Paths : written[p] \in Nat
           /\ Benign => Dated /\ Grown /\ BothRead /\ NewestBefore /\ NewestAtRest
<1>1. TInv /\ TypeOK /\ WrittenContents
  BY DEF NInv, KInv, TInv
<1>2. \A s \in Sides : store[s] \in Stores
  BY <1>1, StoresTyped
<1>3. clock \in Nat /\ before \in [Sides -> [Paths -> Entries]] /\ written \in [Paths -> Nat]
  BY <1>1 DEF TypeOK
<1>4. QED
  BY <1>1, <1>2, <1>3 DEF NInv

LEMMA Stamps ==
    ASSUME NInv, NEW s \in Sides, NEW p \in Paths
    PROVE  /\ store[s][p].mtime \in Nat /\ store[s][p].data \in Nat
           /\ before[s][p].mtime \in Nat /\ before[s][p].data \in Nat
<1>1. store[s][p] \in Entries /\ before[s][p] \in Entries
  BY Known DEF Stores
<1>2. QED
  BY <1>1 DEF Entries

\* What happened stays, and a fault that happens has happened.
LEMMA BenignStep ==
    ASSUME NInv, UNCHANGED runVars,
           NEW f \in {"read", "write", "copy", "crash"}, NoFault \/ Fault(f) \/ Misreads
    PROVE  /\ FaultsLeft'
           /\ Benign' => Benign
           /\ Benign' => ~Misreads
           /\ Benign' /\ Fault(f) => f \in {"crash", "write"}
<1>1. UNCHANGED <<kind, bidir, keep, busy>>
  BY DEF runVars, options
<1>2. faults \subseteq Faults
  BY DEF NInv, FaultsLeft
<1>3. faults' \subseteq faults
  BY DEF NoFault, noFault, Fault, Misreads, Mishap
<1>4. FaultsLeft'
  BY <1>2, <1>3 DEF FaultsLeft
<1>5. Benign' => Benign
  BY <1>1, <1>3 DEF Benign, happened
<1>6. ASSUME Benign', NEW g, Mishap(g)
      PROVE  g \in {"crash", "write"}
  <2>1. g \in Faults /\ g \notin faults'
    BY <1>2, <1>6 DEF Mishap
  <2>2. ~busy' /\ happened' \subseteq {"crash", "write"}
    BY <1>6 DEF Benign
  <2>3. g \in happened'
    BY <2>1, <2>2 DEF happened
  <2>4. QED
    BY <2>2, <2>3
<1>7. QED
  BY <1>4, <1>5, <1>6 DEF Fault, Misreads

\* What a side listed when the run began, it lists.
LEMMA GrownLists ==
    ASSUME NInv, Benign, run = "syncing", NEW s \in Sides, NEW p \in Paths, Listed(before[s], p)
    PROVE  Listed(store[s], p)
<1>1. ASSUME NEW q \in Line(p) \ {Root}, q \in before[s][Parent[q]].ch
      PROVE  q \in store[s][Parent[q]].ch
  <2>1. Parent[q] \in Above[p] /\ Parent[q] \in Paths /\ Parent[q] \in Spaces
    BY AboveFacts
  <2>2. Listed(before[s], Parent[q])
    BY <2>1, ListedUp DEF Line
  <2>3. before[s][Parent[q]].ch \subseteq store[s][Parent[q]].ch
    BY <2>1, <2>2 DEF NInv, Grown
  <2>4. QED
    BY <1>1, <2>3
<1>2. QED
  BY <1>1, ListedKept

\* So whatever the run did, the newest content is still there.
LEMMA NewestHeld ==
    ASSUME NInv, Benign, run = "syncing"
    PROVE  NewestKept
<1> SUFFICES ASSUME NEW p \in Paths, written[p] # 0
             PROVE  \E s \in Sides : Holds(s, p, written[p])
  BY DEF NewestKept
<1>1. p \notin Spaces
  BY Known DEF WrittenContents
<1>2. PICK s \in Sides : /\ Listed(before[s], p)
                         /\ before[s][p].data = written[p] /\ before[s][p].mtime = written[p]
  BY DEF NInv, NewestBefore
<1>3. Listed(store[s], p)
  BY <1>2, GrownLists
<1>4. before[s][p].mtime <= store[s][p].mtime
  BY <1>1, <1>2 DEF NInv, Grown
<1>5. store[s][p].data = store[s][p].mtime /\ store[s][p].data <= written[p]
  BY <1>1 DEF NInv, Dated
<1>6. store[s][p].data = written[p]
  BY <1>2, <1>4, <1>5, Stamps, Known
<1>7. QED
  BY <1>3, <1>6 DEF Holds

\* A step of a task keeps what only depends on the stores of the beginning.
LEMMA RunKeeps ==
    ASSUME NInv, KInv', UNCHANGED <<runVars, run>>, run = "syncing",
           NEW f \in {"read", "write", "copy", "crash"}, NoFault \/ Fault(f) \/ Misreads,
           Sourced', Benign' => Dated' /\ Grown' /\ BothRead'
    PROVE  NInv'
<1>1. FaultsLeft' /\ (Benign' => Benign)
  BY BenignStep
<1>2. UNCHANGED <<before, written>>
  BY DEF runVars
<1>3. Dated' /\ Grown' /\ BothRead'
  BY DEF Dated, Grown, BothRead
<1>4. NewestBefore'
  BY <1>1, <1>2 DEF NInv, NewestBefore
<1>5. NewestAtRest'
  BY DEF NewestAtRest
<1>6. QED
  BY <1>1, <1>3, <1>4, <1>5 DEF NInv

-----------------------------------------------------------------------------
(* What the tasks know *)

\* The contents of both sides are what they were, and the namespaces of the run
\* what they were or more.
SameContents ==
    \A s \in Sides, p \in Paths \ Spaces : store'[s][p] = store[s][p]

\* A task that a step leaves alone, or only advances, knows what it knew.
LEMMA ReadKept ==
    ASSUME NInv, Benign, UNCHANGED before, NEW p \in Paths, NEW s \in Sides,
           p \notin Spaces => store'[s][p] = store[s][p],
           task'[p].step \notin {"off", "done"} =>
              /\ task[p].step \notin {"off", "done"}
              /\ task'[p].exist = task[p].exist /\ task'[p].meta = task[p].meta
              /\ task'[p].unread = task[p].unread
    PROVE  ReadAt(p, s, task[p])'
<1>1. ReadAt(p, s, task[p])
  BY DEF NInv, BothRead
<1>2. CASE task'[p].step \in {"off", "done"}
  BY <1>2 DEF ReadAt
<1>3. CASE task'[p].step \notin {"off", "done"}
  <2>1. CASE p \in Spaces
    BY <1>1, <1>3, <2>1 DEF ReadAt
  <2>2. CASE p \notin Spaces
    BY <1>1, <1>3, <2>2 DEF ReadAt
  <2>3. QED
    BY <2>1, <2>2
<1>4. QED
  BY <1>2, <1>3

LEMMA AdvanceNews ==
    ASSUME NInv, Benign, UNCHANGED before, NEW p \in Paths, NEW step, NEW err,
           Advances(p, step, err), step = "done" \/ task[p].step \notin {"off", "done"},
           \A s \in Sides, q \in Paths \ Spaces :
              task'[q].step = "done" \/ store'[s][q] = store[s][q]
    PROVE  BothRead'
<1>1. ASSUME NEW q \in Paths, NEW s \in Sides
      PROVE  ReadAt(q, s, task[q])'
  <2>1. CASE task'[q].step = "done"
    BY <2>1 DEF ReadAt
  <2>2. CASE task'[q].step # "done"
    <3>1. q \notin Spaces => store'[s][q] = store[s][q]
      BY <2>2
    <3>2. CASE q = p
      BY <2>2, <3>1, <3>2, ReadKept DEF Advances
    <3>3. CASE q # p
      <4>1. task'[q] = task[q]
        BY <3>3 DEF Advances, Others
      <4>2. QED
        BY <3>1, <4>1, ReadKept
    <3>4. QED
      BY <3>2, <3>3
  <2>3. QED
    BY <2>1, <2>2
<1>2. QED
  BY <1>1 DEF BothRead

LEMMA OffNews ==
    ASSUME AllOff
    PROVE  BothRead' /\ Sourced'
<1>1. \A p \in Paths : task'[p].step = "off"
  BY DEF AllOff, Off
<1>2. QED
  BY <1>1 DEF BothRead, ReadAt, Sourced

LEMMA ReadMetaNews ==
    ASSUME NInv, NEW p \in Paths, NEW s \in Sides, ReadMeta(p, s), Benign'
    PROVE  BothRead'
<1>0. TInv /\ run = "syncing"
  BY Known, Running DEF ReadMeta
<1>1. /\ Others(p) /\ UNCHANGED <<runVars, run, store>>
      /\ task[p].step = "metas" /\ task'[p].unread = task[p].unread \ {s}
      /\ \A o \in Sides \ {s} :
            task'[p].exist[o] = task[p].exist[o] /\ task'[p].meta[o] = task[p].meta[o]
      /\ \/ /\ Listed(store[s], p) /\ NoFault
            /\ task'[p].exist = task[p].exist /\ task'[p].meta[s] = store[s][p]
         \/ /\ (~Listed(store[s], p) /\ NoFault) \/ Fault("read")
            /\ ~task'[p].exist[s]
         \/ Misreads
  BY <1>0, ReadMetaIs
<1>2. Benign /\ UNCHANGED before /\ ~Fault("read") /\ ~Misreads
  BY <1>1, BenignStep DEF runVars
<1>3. s \in task[p].unread
  BY DEF ReadMeta
<1>4. ASSUME NEW o \in Sides
      PROVE  ReadAt(p, o, task[p])'
  <2>1. ReadAt(p, o, task[p])
    BY <1>2 DEF NInv, BothRead
  <2>2. CASE o # s
    <3>1. o \in task'[p].unread <=> o \in task[p].unread
      BY <1>1, <2>2
    <3>2. task'[p].exist[o] = task[p].exist[o] /\ task'[p].meta[o] = task[p].meta[o]
      BY <1>1, <2>2
    <3>3. QED
      BY <1>1, <1>2, <2>1, <3>1, <3>2 DEF ReadAt
  <2>3. CASE o = s
    <3>1. Listed(before[s], p) => Listed(store[s], p)
      BY <1>0, <1>2, GrownLists
    <3>2. CASE ~Listed(store[s], p) /\ ~task'[p].exist[s]
      BY <1>2, <2>3, <3>1, <3>2 DEF ReadAt
    <3>3. CASE task'[p].exist = task[p].exist /\ task'[p].meta[s] = store[s][p]
      <4>1. Listed(before[s], p) => task[p].exist[s]
        BY <1>1, <2>1, <2>3 DEF ReadAt
      <4>2. p \in Spaces /\ Listed(before[s], p) => before[s][p].ch \subseteq store[s][p].ch
        BY <1>0, <1>2 DEF NInv, Grown
      <4>3. store'[s][p] = store[s][p]
        BY <1>1
      <4>4. QED
        BY <1>2, <2>3, <3>3, <4>1, <4>2, <4>3 DEF ReadAt
    <3>4. QED
      BY <1>1, <1>2, <3>2, <3>3
  <2>4. QED
    BY <2>2, <2>3
<1>5. ASSUME NEW q \in Paths \ {p}, NEW o \in Sides
      PROVE  ReadAt(q, o, task[q])'
  BY <1>1, <1>2, ReadKept DEF Others
<1>6. QED
  BY <1>4, <1>5 DEF BothRead

\* A child task is told of every side that had the child.
LEMMA SpawnNews ==
    ASSUME NInv, Benign, NEW p \in Spaces, task[p].step = "rightBefore", NEW err \in BOOLEAN,
           Spawns(p, err), UNCHANGED before, SameContents
    PROVE  BothRead'
<1>0. p \in Paths /\ TInv
  BY TreeRooted, Known
<1>1. leftAndRight(task[p]) \subseteq Children(p) /\ task[p].unread = {}
  <2>1. /\ task[p] \in TaskRecords /\ TaskedAt(p, task[p])
        /\ bidir \in BOOLEAN /\ keep \in BOOLEAN
    BY <1>0, TaskTyped
  <2>2. "left" \in Sides
    BY DEF Sides
  <2>3. leftAndRight(task[p]) \in SUBSET Children(p)
    BY <1>0, <2>1, <2>2, MergedTyped
  <2>4. QED
    BY <2>1, <2>3 DEF TaskedAt
<1>2. ASSUME NEW q \in leftAndRight(task[p]), NEW s \in Sides
      PROVE  ReadAt(q, s, task[q])'
  <2> DEFINE exist == [o \in Sides |-> q \in exCh(task[p], o)]
  <2>1. q \in Paths \ {Root} /\ Parent[q] = p
    BY <1>0, <1>1, ChildFacts
  <2>2. exist \in [Sides -> BOOLEAN] /\ exist[s] = (q \in exCh(task[p], s))
    OBVIOUS
  <2>3. task'[q] = Task(exist, err)
    BY DEF Spawns
  <2> HIDE DEF exist
  <2>4. /\ task'[q].step = (IF err THEN "done" ELSE "metas")
        /\ task'[q].exist = exist
        /\ task'[q].unread = (IF err THEN {} ELSE {o \in Sides : exist[o]})
    BY <2>1, <2>2, <2>3, TaskIs
  <2>5. Listed(before[s], q) => exist[s]
    <3> SUFFICES ASSUME Listed(before[s], q)
                 PROVE  q \in exCh(task[p], s)
      BY <2>2
    <3>1. q \in before[s][p].ch /\ Listed(before[s], p)
      BY <2>1, ListedStep
    <3>2. ReadAt(p, s, task[p])
      BY <1>0 DEF NInv, BothRead
    <3>3. task[p].exist[s] /\ before[s][p].ch \subseteq task[p].meta[s].ch
      BY <1>1, <3>1, <3>2 DEF ReadAt
    <3>4. QED
      BY <3>1, <3>3 DEF exCh
  <2>6. CASE err
    BY <2>4, <2>6 DEF ReadAt
  <2>7. CASE ~err
    BY <2>4, <2>5, <2>7 DEF ReadAt
  <2>8. QED
    BY <2>6, <2>7
<1>3. ASSUME NEW q \in Paths \ leftAndRight(task[p]), NEW s \in Sides
      PROVE  ReadAt(q, s, task[q])'
  <2>1. q \notin Spaces => store'[s][q] = store[s][q]
    BY DEF SameContents
  <2>2. CASE q = p
    BY <2>1, <2>2, ReadKept DEF Spawns
  <2>3. CASE q # p
    BY <2>1, <2>3, ReadKept DEF Spawns
  <2>4. QED
    BY <2>2, <2>3
<1>4. QED
  BY <1>2, <1>3 DEF BothRead

-----------------------------------------------------------------------------
(* What the writes leave *)

\* A run has the newer content of the side a task copies from.
Newer(p, s, m, d) ==
    /\ d = m /\ d <= clock /\ (written[p] # 0 => d <= written[p])
    /\ Listed(before[s], p) => before[s][p].mtime <= m

LEMMA NewsKept ==
    ASSUME NInv, Benign, run = "syncing", UNCHANGED <<runVars, run>>,
           \A s \in Sides, p \in Paths :
              \/ store'[s][p] = store[s][p]
              \/ p \in Spaces /\ (Listed(before[s], p) => before[s][p].ch \subseteq store'[s][p].ch)
              \/ /\ p \notin Spaces
                 /\ Newer(p, s, store'[s][p].mtime, store'[s][p].data)
    PROVE  Dated' /\ Grown'
<1>1. UNCHANGED <<clock, before, written>>
  BY DEF runVars
<1>2. Dated'
  <2>1. ASSUME NEW p \in Paths \ Spaces
        PROVE  /\ written[p] <= clock
               /\ \A s \in Sides :
                     /\ store'[s][p].data = store'[s][p].mtime
                     /\ store'[s][p].data <= clock
                     /\ written[p] # 0 => store'[s][p].data <= written[p]
    BY DEF NInv, Dated, Newer
  <2>2. QED
    BY <1>1, <2>1 DEF Dated
<1>3. Grown'
  <2>1. ASSUME NEW s \in Sides, NEW p \in Paths, Listed(before[s], p)
        PROVE  /\ p \in Spaces => before[s][p].ch \subseteq store'[s][p].ch
               /\ p \notin Spaces => before[s][p].mtime <= store'[s][p].mtime
    BY <2>1 DEF NInv, Grown, Newer
  <2>2. QED
    BY <1>1, <2>1 DEF Grown
<1>4. QED
  BY <1>2, <1>3

\* Half a merge between object stores only adds to what its side had.
LEMMA NsNews ==
    ASSUME NInv, Benign, NEW p \in Spaces, NEW s \in Sides, NEW needed, NEW making,
           NEW C \in SUBSET Children(p), NEW err, NsWritten(p, s, needed, making, C, err),
           UNCHANGED <<runVars, run>>,
           task[p].step \in {"leftBefore", "rightBefore", "children", "rightAfter"},
           exCh(task[p], s) \subseteq C
    PROVE  SameContents /\ Dated' /\ Grown'
<1>0. p \in Paths /\ TInv /\ TypeOK /\ run = "syncing"
  BY TreeRooted, Known, Running
<1>1. CASE UNCHANGED store
  <2>1. SameContents
    BY <1>1 DEF SameContents
  <2>2. Dated' /\ Grown'
    BY <1>0, <1>1, NewsKept
  <2>3. QED
    BY <2>1, <2>2
<1>2. CASE store' = [store EXCEPT ![s] = PutNs(s, p, C, mergedMtime(task[p]))]
  <2> DEFINE m == mergedMtime(task[p])
             st == PutNs(s, p, C, m)
  <2>1. task[p] \in TaskRecords /\ TaskedAt(p, task[p])
    BY <1>0, TaskTyped
  <2>2. m \in Nat
    BY <2>1 DEF TaskRecords, Entries, mergedMtime, Sides
  <2> HIDE DEF m
  <2>3. NsPut(s, p, C, m, st)
    BY <1>0, <2>2, PutNsIs, Known
  <2> HIDE DEF st
  <2>4. kind[s] = "object"
    BY DEF Benign
  <2>5. st \in Stores /\ st[p].ch = C /\ \A q \in Paths \ {p} : st[q] = store[s][q]
    BY <2>3, <2>4 DEF NsPut
  <2>6. store'[s] = st /\ \A r \in Sides \ {s} : store'[r] = store[r]
    BY <1>0, <1>2, <2>5, StoreSet DEF st, m
  <2>7. ReadAt(p, s, task[p])
    BY <1>0 DEF NInv, BothRead
  <2>8. task[p].unread = {}
    BY <2>1 DEF TaskedAt
  <2>9. Listed(before[s], p) => before[s][p].ch \subseteq C
    BY <2>7, <2>8 DEF ReadAt, exCh
  <2>10. SameContents
    BY <2>5, <2>6 DEF SameContents
  <2>11. Dated' /\ Grown'
    BY <1>0, <2>5, <2>6, <2>9, NewsKept
  <2>12. QED
    BY <2>10, <2>11
<1>3. QED
  BY <1>1, <1>2 DEF NsWritten

\* In both directions no merge takes a child from a side.
LEMMA TwoWayMerges ==
    ASSUME bidir, NEW t, NEW s \in Sides
    PROVE  exCh(t, s) \subseteq MergedBefore(t, s) /\ exCh(t, s) \subseteq MergedAfter(t, s)
BY DEF Sides, MergedBefore, MergedAfter, leftMg, rightMg, leftRight

\* A copy goes from the side with the newer content, which it has read, to a side
\* that lists the content.
LEMMA CopyNews ==
    ASSUME NInv, Benign, NEW p \in Paths \ Spaces, task[p].step = "fill",
           ~RefusesContent(Target(task[p]), p), UNCHANGED <<runVars, run>>,
           NEW d, d = store[Origin(task[p])][p].data \/ d = task[p].meta[Origin(task[p])].data,
           Closed(p, d)
    PROVE  BothRead' /\ Dated' /\ Grown'
<1> DEFINE t == task[p]
           O == Origin(t)
           T == Target(t)
           m == t.meta[O].mtime
<1>0. TInv /\ TypeOK /\ run = "syncing" /\ bidir
  BY Known, Running DEF Benign
<1>1. O \in Sides /\ T \in Sides /\ O # T
  BY OriginTyped
<1>2. t.unread = {} /\ t.exist \in [Sides -> BOOLEAN]
  BY <1>0, TaskTyped DEF TaskedAt, TaskRecords
<1>3. \A s \in Sides : ReadAt(p, s, t)
  BY DEF NInv, BothRead
<1>4. \A s \in Sides : t.exist[s] => t.meta[s] = store[s][p]
  BY <1>2, <1>3 DEF ReadAt
<1>5. \E s \in Sides : t.exist[s]
  BY DEF NInv, Sourced
<1>6. /\ t.exist[O]
      /\ t.exist[T] => t.meta[T].mtime <= t.meta[O].mtime
  <2>1. CASE RTL(t)
    <3>1. O = "right" /\ T = "left"
      BY <2>1 DEF Origin, Target, Other
    <3>2. t.exist["right"]
      BY <2>1 DEF RTL
    <3>3. t.exist["left"] => t.meta["right"].mtime > t.meta["left"].mtime
      BY <2>1 DEF RTL
    <3>4. t.exist["left"] => t.meta["left"].mtime \in Nat /\ t.meta["right"].mtime \in Nat
      BY <1>4, <3>2, Stamps DEF Sides
    <3>5. QED
      BY <3>1, <3>2, <3>3, <3>4
  <2>2. CASE ~RTL(t)
    <3>1. O = "left" /\ T = "right"
      BY <2>2 DEF Origin, Target, Other
    <3>2. t.exist["left"]
      BY <1>0, <1>5, <2>2 DEF RTL, Sides
    <3>3. t.exist["right"] => ~(t.meta["right"].mtime > t.meta["left"].mtime)
      BY <1>0, <2>2 DEF RTL
    <3>4. t.exist["right"] => t.meta["left"].mtime \in Nat /\ t.meta["right"].mtime \in Nat
      BY <1>4, <3>2, Stamps DEF Sides
    <3>5. QED
      BY <3>1, <3>2, <3>3, <3>4
  <2>3. QED
    BY <2>1, <2>2
<1>7. t.meta[O] = store[O][p] /\ m \in Nat /\ d \in Nat /\ m = store[O][p].mtime
      /\ d = store[O][p].data
  BY <1>1, <1>4, <1>6, Stamps
<1>8. /\ store' = [store EXCEPT ![T] = PutContent(T, p, m, d)]
      /\ Advances(p, "done", Differs(d, t.meta[O]))
  BY DEF Closed
<1> DEFINE st == PutContent(T, p, m, d)
<1> HIDE DEF m, O, T
<1>9. ContentPut(T, p, m, d, st)
  BY <1>1, <1>7, PutContentIs, Known
<1> HIDE DEF st
<1>10. p \in store[T][Parent[p]].ch /\ p # Root
  <2>1. p # Root
    BY TreeRooted
  <2>2. Listed(store[T], p)
    BY <1>1 DEF RefusesContent, Benign, T
  <2>3. QED
    BY <2>1, <2>2, ListedStep
<1>11. st \in Stores /\ st[p].mtime = m /\ st[p].data = d
       /\ \A q \in Paths \ {p} : st[q] = store[T][q]
  BY <1>9, <1>10 DEF ContentPut
<1>12. store'[T] = st /\ \A r \in Sides \ {T} : store'[r] = store[r]
  BY <1>0, <1>1, <1>8, <1>11, StoreSet DEF st
<1>13. Newer(p, T, m, d)
  <2>1. d = m /\ d <= clock /\ (written[p] # 0 => d <= written[p])
    BY <1>1, <1>7 DEF NInv, Dated
  <2>2. ASSUME Listed(before[T], p)
        PROVE  before[T][p].mtime <= m
    <3>1. t.exist[T]
      BY <1>1, <1>3, <2>2 DEF ReadAt
    <3>2. store[T][p].mtime <= m
      BY <1>1, <1>4, <1>6, <3>1 DEF m, O, T
    <3>3. before[T][p].mtime <= store[T][p].mtime
      BY <1>0, <1>1, <2>2 DEF NInv, Grown
    <3>4. QED
      BY <1>1, <1>7, <3>2, <3>3, Stamps
  <2>3. QED
    BY <2>1, <2>2 DEF Newer
<1>14. Dated' /\ Grown'
  BY <1>0, <1>1, <1>11, <1>12, <1>13, NewsKept
<1>15. \A s \in Sides, q \in Paths \ Spaces :
          task'[q].step = "done" \/ store'[s][q] = store[s][q]
  BY <1>1, <1>8, <1>11, <1>12 DEF Advances
<1>16. BothRead'
  <2>1. UNCHANGED before
    BY DEF runVars
  <2>2. QED
    BY <1>8, <1>15, <2>1, AdvanceNews
<1>17. QED
  BY <1>14, <1>16

-----------------------------------------------------------------------------
(* Every step *)

\* A task that is to be copied knows a side that has the content.
LEMMA SourcedKept ==
    ASSUME NInv, NEW p \in Paths, NEW step, NEW err, Advances(p, step, err),
           step = "fill" => \E s \in Sides : task[p].exist[s]
    PROVE  Sourced'
BY DEF NInv, Sourced, Advances, Others

\* Half a merge, and the task advances.
LEMMA HalfMergeNews ==
    ASSUME NInv, KInv', NEW p \in Spaces, NEW s \in Sides, NEW needed, NEW making,
           NEW C \in SUBSET Children(p), NEW err, NsWritten(p, s, needed, making, C, err),
           NEW step, step # "fill", Advances(p, step, err), UNCHANGED <<runVars, run>>,
           task[p].step \in {"leftBefore", "children", "rightAfter"},
           bidir => exCh(task[p], s) \subseteq C
    PROVE  NInv'
<1>0. p \in Paths /\ run = "syncing"
  BY TreeRooted, Known, Running
<1>1. NoFault \/ Fault("write")
  BY DEF NsWritten
<1>2. Sourced'
  BY <1>0, SourcedKept
<1>3. ASSUME Benign'
      PROVE  Dated' /\ Grown' /\ BothRead'
  <2>1. Benign /\ bidir
    BY <1>1, <1>3, BenignStep DEF Benign
  <2>2. SameContents /\ Dated' /\ Grown'
    BY <2>1, NsNews
  <2>3. UNCHANGED before
    BY DEF runVars
  <2>4. BothRead'
    BY <1>0, <2>1, <2>2, <2>3, AdvanceNews DEF SameContents
  <2>5. QED
    BY <2>2, <2>4
<1>4. QED
  BY <1>0, <1>1, <1>2, <1>3, RunKeeps

LEMMA MergesTyped ==
    ASSUME NInv, NEW p \in Paths, NEW s \in Sides
    PROVE  /\ MergedBefore(task[p], s) \in SUBSET Children(p)
           /\ MergedAfter(task[p], s) \in SUBSET Children(p)
BY Known, TaskTyped, MergedTyped

\* A step that writes nothing, when nothing bad happened, and ends or advances one
\* task.
LEMMA QuietNews ==
    ASSUME NInv, KInv', NEW p \in Paths, NEW step, NEW err, Advances(p, step, err),
           UNCHANGED <<runVars, run>>, Benign' => UNCHANGED store,
           NoFault \/ Fault("read") \/ Fault("write"),
           task[p].step \notin {"off", "done"},
           step = "fill" => \E s \in Sides : task[p].exist[s]
    PROVE  NInv'
<1>0. run = "syncing"
  BY Known, Running
<1>1. Sourced'
  BY SourcedKept
<1>2a. PICK f \in {"read", "write", "copy", "crash"} : NoFault \/ Fault(f)
  OBVIOUS
<1>2. ASSUME Benign'
      PROVE  Dated' /\ Grown' /\ BothRead'
  <2>1. Benign /\ UNCHANGED before /\ store' = store
    BY <1>2, <1>2a, BenignStep DEF runVars
  <2>2. Dated' /\ Grown'
    BY <1>0, <2>1, NewsKept
  <2>3. BothRead'
    BY <2>1, AdvanceNews
  <2>4. QED
    BY <2>2, <2>3
<1>3. QED
  BY <1>0, <1>1, <1>2a, <1>2, RunKeeps

\* A run that is over, however it ends.
LEMMA EndedNews ==
    ASSUME NInv, KInv', AllOff, run = "syncing", run' # "syncing",
           UNCHANGED <<options, store, clock, before, written>>,
           FaultsLeft', Benign' => Benign
    PROVE  NInv'
<1>1. BothRead' /\ Sourced'
  BY OffNews
<1>2. Grown' /\ NewestBefore'
  BY DEF Grown, NewestBefore
<1>3. Dated'
  BY DEF NInv, Dated
<1>4. NewestAtRest'
  <2> SUFFICES ASSUME Benign' PROVE NewestKept'
    BY DEF NewestAtRest
  <2>1. NewestKept
    BY NewestHeld
  <2>2. QED
    BY <2>1 DEF NewestKept, Holds, Listed, options
<1>5. QED
  BY <1>1, <1>2, <1>3, <1>4 DEF NInv

LEMMA SyncNsNews ==
    ASSUME NInv, KInv', NEW p \in Paths, SyncNs(p)
    PROVE  NInv'
<1>0. TInv
  BY Known
<1>s. "left" \in Sides /\ "right" \in Sides
  BY DEF Sides
<1>1. CASE Merge(p)
  <2>1. /\ p \in Spaces /\ Evaluated(p) /\ UNCHANGED <<runVars, store>> /\ NoFault
        /\ \/ run' = "failed" /\ AllOff
           \/ run' = run /\ Advances(p, "leftBefore", task[p].err)
    BY <1>0, <1>1, MergeIs
  <2>2. CASE run' = "failed" /\ AllOff
    <3>1. run = "syncing"
      BY <2>1, Known, Running DEF Evaluated
    <3>2. FaultsLeft' /\ (Benign' => Benign)
      BY <2>1, BenignStep
    <3>3. QED
      BY <2>1, <2>2, <3>1, <3>2, EndedNews DEF runVars
  <2>3. CASE run' = run /\ Advances(p, "leftBefore", task[p].err)
    <3>1. task[p].step \notin {"off", "done"}
      BY <2>1 DEF Evaluated
    <3>2. UNCHANGED <<runVars, run, store>>
      BY <2>1, <2>3
    <3>3. QED
      BY <2>1, <2>3, <3>1, <3>2, QuietNews
  <2>4. QED
    BY <2>1, <2>2, <2>3
<1>2. CASE LeftBefore(p)
  <2>1. /\ UNCHANGED <<runVars, run>> /\ p \in Spaces /\ task[p].step = "leftBefore"
        /\ \E err \in BOOLEAN :
              /\ Advances(p, "rightBefore", err)
              /\ NsWritten(p, "left", NeedsBefore(task[p], "left"), MakesBefore(task[p], "left"),
                           MergedBefore(task[p], "left"), err)
    BY <1>0, <1>2, LeftBeforeIs
  <2>2. bidir => exCh(task[p], "left") \subseteq MergedBefore(task[p], "left")
    BY <1>s, TwoWayMerges
  <2>3. QED
    BY <1>s, <2>1, <2>2, MergesTyped, HalfMergeNews
<1>3. CASE LeftAfter(p)
  <2>1. /\ UNCHANGED <<runVars, run>> /\ p \in Spaces /\ task[p].step = "children"
        /\ \E err \in BOOLEAN :
              /\ Advances(p, "rightAfter", err)
              /\ NsWritten(p, "left", NeedsAfter(task[p], "left"), MakesAfter(task[p], "left"),
                           MergedAfter(task[p], "left"), err)
    BY <1>0, <1>3, LeftAfterIs
  <2>2. bidir => exCh(task[p], "left") \subseteq MergedAfter(task[p], "left")
    BY <1>s, TwoWayMerges
  <2>3. QED
    BY <1>s, <2>1, <2>2, MergesTyped, HalfMergeNews
<1>4. CASE RightAfter(p)
  <2>1. /\ UNCHANGED <<runVars, run>> /\ p \in Spaces /\ task[p].step = "rightAfter"
        /\ \E err \in BOOLEAN :
              /\ Advances(p, "done", err)
              /\ NsWritten(p, "right", NeedsAfter(task[p], "right"), MakesAfter(task[p], "right"),
                           MergedAfter(task[p], "right"), err)
    BY <1>0, <1>4, RightAfterIs
  <2>2. bidir => exCh(task[p], "right") \subseteq MergedAfter(task[p], "right")
    BY <1>s, TwoWayMerges
  <2>3. QED
    BY <1>s, <2>1, <2>2, MergesTyped, HalfMergeNews
<1>5. CASE RightBefore(p)
  <2>1. /\ UNCHANGED <<runVars, run>> /\ p \in Spaces /\ task[p].step = "rightBefore"
        /\ \E err \in BOOLEAN :
              /\ Spawns(p, err)
              /\ NsWritten(p, "right", NeedsBefore(task[p], "right"), MakesBefore(task[p], "right"),
                           MergedBefore(task[p], "right"), err)
    BY <1>0, <1>5, RightBeforeIs
  <2>2. PICK err \in BOOLEAN :
              /\ Spawns(p, err)
              /\ NsWritten(p, "right", NeedsBefore(task[p], "right"), MakesBefore(task[p], "right"),
                           MergedBefore(task[p], "right"), err)
    BY <2>1
  <2>3. bidir => exCh(task[p], "right") \subseteq MergedBefore(task[p], "right")
    BY <1>s, TwoWayMerges
  <2>4. (NoFault \/ Fault("write")) /\ run = "syncing"
    BY <2>1, <2>2, Known, Running DEF NsWritten
  <2>5. Sourced'
    <3> SUFFICES ASSUME NEW q \in Paths, task'[q].step = "fill"
                 PROVE  \E s \in Sides : task'[q].exist[s]
      BY DEF Sourced
    <3>1. q # p
      BY <2>2 DEF Spawns
    <3>2. q \notin leftAndRight(task[p])
      <4> SUFFICES ASSUME q \in leftAndRight(task[p]) PROVE FALSE
        OBVIOUS
      <4> DEFINE exist == [s \in Sides |-> q \in exCh(task[p], s)]
      <4>1. exist \in [Sides -> BOOLEAN] /\ task'[q] = Task(exist, err)
        BY <2>2 DEF Spawns
      <4> HIDE DEF exist
      <4>2. CASE err
        <5>1. Task(exist, TRUE).step = "done"
          BY <4>1, TaskIs
        <5>2. QED
          BY <4>1, <4>2, <5>1
      <4>3. CASE ~err
        <5>1. Task(exist, FALSE).step = "metas"
          BY <4>1, TaskIs
        <5>2. QED
          BY <4>1, <4>3, <5>1
      <4>4. QED
        BY <4>2, <4>3
    <3>3. task'[q] = task[q]
      BY <2>2, <3>1, <3>2 DEF Spawns
    <3>4. QED
      BY <3>3 DEF NInv, Sourced
  <2>6. ASSUME Benign'
        PROVE  Dated' /\ Grown' /\ BothRead'
    <3>1. Benign /\ bidir /\ UNCHANGED before
      BY <2>1, <2>4, <2>6, BenignStep DEF Benign, runVars
    <3>2. SameContents /\ Dated' /\ Grown'
      BY <1>s, <2>1, <2>2, <2>3, <3>1, MergesTyped, NsNews
    <3>3. BothRead'
      BY <2>1, <2>2, <3>1, <3>2, SpawnNews
    <3>4. QED
      BY <3>2, <3>3
  <2>7. QED
    BY <2>1, <2>4, <2>5, <2>6, RunKeeps
<1>6. QED
  BY <1>1, <1>2, <1>3, <1>4, <1>5 DEF SyncNs

LEMMA SyncContentNews ==
    ASSUME NInv, KInv', NEW p \in Paths, SyncContent(p)
    PROVE  NInv'
<1>0. TInv
  BY Known
<1>1. CASE SkipContent(p)
  <2>1. /\ UNCHANGED <<runVars, run, store>> /\ NoFault /\ CopyReady(p)
        /\ Advances(p, "done", FALSE)
    BY <1>0, <1>1, SkipContentIs
  <2>2. task[p].step \notin {"off", "done"}
    BY <2>1 DEF CopyReady, Evaluated
  <2>3. QED
    BY <2>1, <2>2, QuietNews
<1>2. CASE OpenContent(p)
  <2>1. /\ UNCHANGED <<runVars, run>> /\ CopyReady(p)
        /\ NoFault \/ Fault("read") \/ Fault("write")
        /\ Created(task[p]) \/ Updated(task[p])
        /\ \/ Advances(p, "done", TRUE) /\ UNCHANGED store
           \/ /\ Advances(p, "fill", task[p].err)
              /\ store' = [store EXCEPT ![Target(task[p])] = Opened(Target(task[p]), p)]
    BY <1>0, <1>2, OpenContentIs
  <2>2. task[p].step \notin {"off", "done"}
    BY <2>1 DEF CopyReady, Evaluated
  <2>3. \E s \in Sides : task[p].exist[s]
    BY <2>1 DEF Created, Updated, Sides
  <2>4. PICK f \in {"read", "write", "copy", "crash"} : NoFault \/ Fault(f)
    BY <2>1
  <2>5. ASSUME Benign' PROVE UNCHANGED store
    <3>1. CASE store' = [store EXCEPT ![Target(task[p])] = Opened(Target(task[p]), p)]
      <4>1. Target(task[p]) \in Sides /\ Benign
        BY <2>1, <2>4, <2>5, OriginTyped, BenignStep
      <4>2. Opened(Target(task[p]), p) = store[Target(task[p])]
        BY <4>1 DEF Benign, Opened
      <4>3. QED
        BY <1>0, <3>1, <4>1, <4>2, StoresTyped DEF TInv
    <3>2. QED
      BY <2>1, <3>1
  <2>6. QED
    BY <2>1, <2>2, <2>3, <2>4, <2>5, QuietNews
<1>3. CASE FillContent(p)
  <2> DEFINE O == Origin(task[p])
             T == Target(task[p])
  <2>1. /\ UNCHANGED <<runVars, run>> /\ p \notin Spaces /\ task[p].step = "fill"
        /\ \/ NoFault /\ Advances(p, "done", TRUE) /\ UNCHANGED store
           \/ /\ ~RefusesContent(T, p)
              /\ \/ Closed(p, task[p].meta[O].data) /\ NoFault
                 \/ Closed(p, store[O][p].data) /\ NoFault
                 \/ Closed(p, Torn) /\ Fault("copy")
                 \/ CloseFailed(p) /\ Fault("write")
    BY <1>0, <1>3, FillContentIs
  <2> HIDE DEF O, T
  <2>2. CASE NoFault /\ Advances(p, "done", TRUE) /\ UNCHANGED store
    BY <2>1, <2>2, QuietNews
  <2>3. ASSUME ~RefusesContent(T, p), NEW d, Closed(p, d),
               \/ d \in {task[p].meta[O].data, store[O][p].data} /\ NoFault
               \/ Fault("copy")
        PROVE  NInv'
    <3>1. run = "syncing" /\ Sourced'
      BY <2>1, <2>3, SourcedKept, Known, Running DEF Closed
    <3>2. NoFault \/ Fault("copy")
      BY <2>3
    <3>3. ASSUME Benign'
          PROVE  Dated' /\ Grown' /\ BothRead'
      <4>1. Benign /\ ~Fault("copy")
        BY <2>1, <3>2, <3>3, BenignStep
      <4>2. QED
        BY <2>1, <2>3, <4>1, CopyNews DEF O, T
    <3>4. QED
      BY <2>1, <3>1, <3>2, <3>3, RunKeeps
  <2>4. CASE CloseFailed(p) /\ Fault("write")
    <3>1. Advances(p, "done", TRUE)
      BY <2>4 DEF CloseFailed
    <3>2. Benign' => Benign /\ Target(task[p]) \in Sides
      BY <2>1, <2>4, BenignStep, OriginTyped
    <3>3. Benign' => UNCHANGED store
      BY <1>0, <2>1, <2>4, <3>2, CloseFailedStore DEF Benign
    <3>4. QED
      BY <2>1, <2>4, <3>1, <3>3, QuietNews
  <2>5. QED
    BY <2>1, <2>2, <2>3, <2>4
<1>4. QED
  BY <1>1, <1>2, <1>3 DEF SyncContent

LEMMA ReadNews ==
    ASSUME NInv, KInv', NEW p \in Paths, NEW s \in Sides, ReadMeta(p, s)
    PROVE  NInv'
<1>0. TInv /\ run = "syncing"
  BY Known, Running DEF ReadMeta
<1>1. /\ Others(p) /\ UNCHANGED <<runVars, run, store>> /\ task'[p].step = "metas"
      /\ NoFault \/ Fault("read") \/ Misreads
  BY <1>0, ReadMetaIs
<1>2. Sourced'
  BY <1>1 DEF NInv, Sourced, Others
<1>3. ASSUME Benign'
      PROVE  Dated' /\ Grown' /\ BothRead'
  <2>1. Benign
    BY <1>1, <1>3, BenignStep
  <2>2. Dated' /\ Grown'
    BY <1>0, <1>1, <2>1, NewsKept
  <2>3. QED
    BY <1>3, <2>2, ReadMetaNews
<1>4. QED
  BY <1>0, <1>1, <1>2, <1>3, RunKeeps

\* A run begins with the newest content on one side.
LEMMA BeginRunNews ==
    ASSUME NInv, KInv', BeginRun
    PROVE  NInv'
<1>1. /\ run # "syncing" /\ run' = "syncing" /\ before' = store
      /\ UNCHANGED <<options, store, clock, faults, insync, written>>
      /\ task'[Root] = Task([s \in Sides |-> TRUE], FALSE)
      /\ \A p \in Paths \ {Root} : task'[p] = Off
  BY Known, BeginRunIs
<1> DEFINE exist == [s \in Sides |-> TRUE]
<1>2. /\ task'[Root].step = "metas" /\ task'[Root].unread = Sides
      /\ \A s \in Sides : task'[Root].exist[s]
  <2>1. exist \in [Sides -> BOOLEAN] /\ Root \in Paths /\ \A s \in Sides : exist[s]
    BY TreeRooted
  <2>2. task'[Root] = Task(exist, FALSE)
    BY <1>1
  <2> HIDE DEF exist
  <2>3. /\ Task(exist, FALSE).step = "metas" /\ Task(exist, FALSE).exist = exist
        /\ Task(exist, FALSE).unread = {s \in Sides : exist[s]}
    BY <2>1, TaskIs
  <2>4. QED
    BY <2>1, <2>2, <2>3
<1>3. Benign' => Benign
  BY <1>1 DEF Benign, happened, options
<1>4. \A p \in Paths \ {Root} : task'[p].step = "off"
  BY <1>1 DEF Off
<1>5. Sourced' /\ FaultsLeft' /\ NewestAtRest'
  BY <1>1, <1>2, <1>4 DEF NInv, Sourced, FaultsLeft, NewestAtRest
<1>6. Dated'
  BY <1>1, <1>3 DEF NInv, Dated
<1>7. Grown'
  <2>1. \A s \in Sides, p \in Paths : store[s][p].mtime <= store[s][p].mtime
    BY Stamps
  <2>2. QED
    BY <1>1, <2>1 DEF Grown
<1>8. BothRead'
  BY <1>2, <1>4 DEF BothRead, ReadAt
<1>9. NewestBefore'
  <2> SUFFICES ASSUME Benign', NEW p \in Paths, written[p] # 0
               PROVE  \E s \in Sides :
                         /\ Listed(store[s], p)
                         /\ store[s][p].data = written[p] /\ store[s][p].mtime = written[p]
    BY <1>1 DEF NewestBefore
  <2>1. p \notin Spaces
    BY Known DEF WrittenContents
  <2>2. PICK s \in Sides : Holds(s, p, written[p])
    BY <1>1, <1>3 DEF NInv, NewestAtRest, NewestKept, Benign
  <2>3. store[s][p].data = store[s][p].mtime
    BY <1>3, <2>1 DEF NInv, Dated
  <2>4. QED
    BY <2>2, <2>3 DEF Holds
<1>10. QED
  BY <1>5, <1>6, <1>7, <1>8, <1>9 DEF NInv

-----------------------------------------------------------------------------
(* Users edit, between the runs *)

LEMMA EditNews ==
    ASSUME NInv, KInv', NEW s \in Sides, NEW p \in Paths \ {Root}, NEW data,
           EditEffect(s, p, data), data = 0 \/ data = clock + 2,
           Benign => \A q \in Paths \ Spaces :
              \/ store'[s][q] = store[s][q] /\ (q = p => data = 0)
              \/ /\ q = p /\ data = clock + 2
                 /\ store'[s][q].mtime = data /\ store'[s][q].data = data,
           Benign => \A q \in Paths \ Spaces :
              written'[q] # 0 /\ (q # p => Listed(store[s], q)) => Listed(store'[s], q)
    PROVE  NInv'
<1>1. /\ clock' = clock + 2 /\ UNCHANGED <<options, task, faults>>
      /\ \A r \in Sides \ {s} : store'[r] = store[r]
      /\ run' = (IF run = "syncing" THEN run ELSE "idle")
      /\ written' = IF ~bidir /\ s = "right" THEN written
                    ELSE [q \in Paths |-> IF q = p THEN data
                                          ELSE IF p \in Above[q] THEN 0 ELSE written[q]]
  BY DEF EditEffect
<1>2. Benign' => Benign /\ bidir /\ run # "syncing"
  <2>1. Benign' => Benign /\ ~busy /\ bidir
    BY <1>1 DEF Benign, happened, options
  <2>2. QED
    BY <2>1 DEF EditEffect, Editable
<1>3. FaultsLeft' /\ Sourced'
  BY <1>1 DEF NInv, FaultsLeft, Sourced
<1>4. Grown' /\ NewestBefore'
  BY <1>1, <1>2 DEF Grown, NewestBefore
<1>5. BothRead'
  <2>1. run # "syncing" => \A q \in Paths : task[q].step = "off"
    BY Known DEF TypeOK, Off
  <2>2. QED
    BY <1>1, <1>2, <2>1 DEF BothRead, ReadAt
<1>6. ASSUME Benign', NEW q \in Paths, written'[q] # 0
      PROVE  /\ q = p => written'[q] = clock + 2
             /\ q # p => written'[q] = written[q]
             /\ q \notin Spaces
  <2>1. q \notin Spaces
    <3>1. WrittenContents'
      BY DEF KInv
    <3>2. QED
      BY <1>6, <3>1 DEF WrittenContents
  <2>2. QED
    BY <1>1, <1>2, <1>6, <2>1
<1>7. Dated'
  <2> SUFFICES ASSUME Benign', NEW q \in Paths \ Spaces
               PROVE  /\ written'[q] <= clock + 2
                      /\ \A r \in Sides :
                            /\ store'[r][q].data = store'[r][q].mtime
                            /\ store'[r][q].data <= clock + 2
                            /\ written'[q] # 0 => store'[r][q].data <= written'[q]
    BY <1>1 DEF Dated
  <2>1. /\ written[q] <= clock
        /\ \A r \in Sides :
              /\ store[r][q].data = store[r][q].mtime
              /\ store[r][q].data <= clock
              /\ written[q] # 0 => store[r][q].data <= written[q]
    BY <1>2 DEF NInv, Dated
  <2>2. clock \in Nat /\ written[q] \in Nat /\ \A r \in Sides : store[r][q].data \in Nat
    BY Known, Stamps
  <2>3. written'[q] <= clock + 2
    BY <1>6, <2>1, <2>2
  <2>4. ASSUME NEW r \in Sides
        PROVE  /\ store'[r][q].data = store'[r][q].mtime
               /\ store'[r][q].data <= clock + 2
               /\ written'[q] # 0 => store'[r][q].data <= written'[q]
    <3>1. CASE store'[r][q] = store[r][q]
      BY <1>6, <2>1, <2>2, <3>1
    <3>2. CASE store'[r][q] # store[r][q]
      <4>1. r = s
        BY <1>1, <3>2
      <4>2. /\ q = p /\ data = clock + 2
            /\ store'[s][q].mtime = data /\ store'[s][q].data = data
        BY <1>2, <3>2, <4>1
      <4>3. QED
        BY <1>6, <2>2, <4>1, <4>2
    <3>3. QED
      BY <3>1, <3>2
  <2>5. QED
    BY <2>3, <2>4
<1>8. NewestAtRest'
  <2> SUFFICES ASSUME Benign', NEW q \in Paths, written'[q] # 0
               PROVE  \E r \in Sides : Holds(r, q, written[q])'
    BY DEF NewestAtRest, NewestKept
  <2>1. q \in Paths \ Spaces
    BY <1>6
  <2>2. CASE q = p
    <3>1. Listed(store'[s], q)
      BY <1>2, <2>1, <2>2
    <3>2. written'[q] = data
      BY <1>1, <1>2, <2>2
    <3>3. store'[s][q].data = data
      BY <1>2, <2>1, <2>2, <3>2
    <3>4. QED
      BY <3>1, <3>2, <3>3 DEF Holds
  <2>3. CASE q # p
    <3>1. written'[q] = written[q] /\ written[q] # 0
      BY <1>6, <2>3
    <3>2. PICK r \in Sides : Holds(r, q, written[q])
      BY <1>2, <3>1 DEF NInv, NewestAtRest, NewestKept, Benign
    <3>3. CASE r # s
      BY <1>1, <3>1, <3>2, <3>3 DEF Holds
    <3>4. CASE r = s
      <4>1. Listed(store'[s], q) /\ store'[s][q] = store[s][q]
        BY <1>2, <2>1, <2>3, <3>2, <3>4 DEF Holds
      <4>2. QED
        BY <3>1, <3>2, <3>4, <4>1 DEF Holds
    <3>5. QED
      BY <3>3, <3>4
  <2>4. QED
    BY <2>2, <2>3
<1>9. QED
  BY <1>3, <1>4, <1>5, <1>7, <1>8 DEF NInv

LEMMA EditEntryNews ==
    ASSUME NInv, KInv', NEW s \in Sides, NEW p \in Paths \ {Root}, EditEntry(s, p)
    PROVE  NInv'
<1> DEFINE data == IF p \in Spaces THEN 0 ELSE clock + 2
<1>1. /\ EditEffect(s, p, data) /\ Parent[p] \in Paths \ {p}
      /\ store'[s][p] = [mtime |-> clock + 2, ch |-> {},
                         data |-> IF p \in Spaces THEN Empty ELSE clock + 2]
      /\ \A q \in Paths \ {p, Parent[p]} : store'[s][q] = store[s][q]
  BY Known, EditEntryIs
<1> HIDE DEF data
<1>2. Parent[p] \in Spaces
  BY ParentIs
<1>3. data = 0 \/ data = clock + 2
  BY DEF data
<1>4. \A q \in Paths \ Spaces :
          \/ store'[s][q] = store[s][q] /\ (q = p => data = 0)
          \/ /\ q = p /\ data = clock + 2
             /\ store'[s][q].mtime = data /\ store'[s][q].data = data
  BY <1>1, <1>2 DEF data
<1>5. ASSUME Benign, NEW q \in Paths \ Spaces, written'[q] # 0, q # p => Listed(store[s], q)
      PROVE  Listed(store'[s], q)
  <2>1. p \notin Above[q]
    <3>1. q \notin Above[q]
      BY AboveFacts
    <3>2. p \in Above[q] => written'[q] = 0
      BY <1>1, <1>5, <3>1 DEF EditEffect, Benign
    <3>3. QED
      BY <1>5, <3>2
  <2>2. QED
    BY <1>5, <2>1, EditEntryLists, Known
<1>6. QED
  BY <1>1, <1>3, <1>4, <1>5, EditNews

LEMMA RemoveEntryNews ==
    ASSUME NInv, KInv', NEW s \in Sides, NEW p \in Paths \ {Root}, RemoveEntry(s, p)
    PROVE  NInv'
<1>1. /\ EditEffect(s, p, 0) /\ Parent[p] \in Paths \ {p}
      /\ kind[s] = "object" => \A q \in Paths \ {Parent[p]} : store'[s][q] = store[s][q]
  BY Known, RemoveEntryIs
<1>2. Parent[p] \in Spaces
  BY ParentIs
<1>3. Benign => \A q \in Paths \ Spaces :
          \/ store'[s][q] = store[s][q] /\ (q = p => 0 = 0)
          \/ /\ q = p /\ 0 = clock + 2
             /\ store'[s][q].mtime = 0 /\ store'[s][q].data = 0
  BY <1>1, <1>2 DEF Benign
<1>4. ASSUME Benign, NEW q \in Paths \ Spaces, written'[q] # 0, q # p => Listed(store[s], q)
      PROVE  Listed(store'[s], q)
  <2>1. p \notin Line(q)
    <3>1. written'[q] = IF q = p THEN 0 ELSE IF p \in Above[q] THEN 0 ELSE written[q]
      BY <1>1, <1>4 DEF EditEffect, Benign
    <3>2. QED
      BY <1>4, <3>1 DEF Line
  <2>2. QED
    BY <1>4, <2>1, RemoveEntryLists, Known DEF Line
<1>5. QED
  BY <1>1, <1>3, <1>4, EditNews

LEMMA InitNews == Init => NInv
<1> SUFFICES ASSUME Init PROVE NInv
  OBVIOUS
<1>1. KInv
  BY InitKeeps
<1>2. \A p \in Paths : task[p].step = "off"
  BY DEF Init, Off
<1>3. Sourced /\ BothRead
  BY <1>2 DEF Sourced, BothRead, ReadAt
<1>4. run # "syncing" /\ (\A p \in Paths : written[p] = 0) /\ clock = 2
  BY DEF Init
<1>5. FaultsLeft /\ Grown /\ NewestBefore /\ NewestAtRest
  BY <1>4 DEF Init, FaultsLeft, Grown, NewestBefore, NewestAtRest, NewestKept
<1>6. Dated
  <2>1. \A s \in Sides, p \in Paths \ Spaces : store[s][p] = Missing
    BY TreeRooted DEF Init
  <2>2. QED
    BY <1>4, <2>1 DEF Dated, Missing, Nothing
<1>7. QED
  BY <1>1, <1>3, <1>5, <1>6 DEF NInv

LEMMA StepNews == NInv /\ [Next]_vars => NInv'
<1> SUFFICES ASSUME NInv, [Next]_vars PROVE NInv'
  OBVIOUS
<1>1. KInv'
  BY StepKeeps DEF NInv
<1>2. CASE BeginRun
  BY <1>1, <1>2, BeginRunNews
<1>3. CASE EndRun
  <2>1. /\ AllOff /\ task[Root].step = "done" /\ run' = "finished"
        /\ UNCHANGED <<options, store, clock, faults, before, written>>
    BY <1>3, Known, EndRunIs
  <2>2. run = "syncing"
    BY <2>1, Known, Running, TreeRooted
  <2>3. FaultsLeft' /\ (Benign' => Benign)
    BY <2>1 DEF NInv, FaultsLeft, Benign, happened, options
  <2>4. QED
    BY <1>1, <2>1, <2>2, <2>3, EndedNews
<1>4. CASE Crash
  <2>1. /\ AllOff /\ run = "syncing" /\ run' = "failed" /\ Fault("crash")
        /\ UNCHANGED <<runVars, store>>
    BY <1>4, Known, CrashIs
  <2>2. FaultsLeft' /\ (Benign' => Benign)
    BY <2>1, BenignStep
  <2>3. QED
    BY <1>1, <2>1, <2>2, EndedNews DEF runVars
<1>5. ASSUME NEW p \in Paths, SyncEntry(p)
      PROVE  NInv'
  <2>1. ASSUME NEW s \in Sides, ReadMeta(p, s)
        PROVE  NInv'
    BY <1>1, <2>1, ReadNews
  <2>2. CASE GiveUp(p)
    <3>1. /\ Advances(p, "done", TRUE) /\ Evaluated(p)
          /\ UNCHANGED <<runVars, run, store>> /\ NoFault
      BY <2>2, Known, GiveUpIs
    <3>2. task[p].step \notin {"off", "done"}
      BY <3>1 DEF Evaluated
    <3>3. QED
      BY <1>1, <3>1, <3>2, QuietNews
  <2>3. CASE SyncNs(p)
    BY <1>1, <2>3, SyncNsNews
  <2>4. CASE SyncContent(p)
    BY <1>1, <2>4, SyncContentNews
  <2>5. QED
    BY <1>5, <2>1, <2>2, <2>3, <2>4 DEF SyncEntry
<1>6. ASSUME NEW s \in Sides, NEW p \in Paths \ {Root}, EditEntry(s, p) \/ RemoveEntry(s, p)
      PROVE  NInv'
  BY <1>1, <1>6, EditEntryNews, RemoveEntryNews
<1>7. CASE UNCHANGED vars
  <2>1. FaultsLeft' /\ Sourced' /\ Dated' /\ Grown' /\ NewestBefore' /\ NewestAtRest'
    BY <1>7 DEF vars, options, NInv, FaultsLeft, Sourced, Dated, Grown, NewestBefore, NewestAtRest,
       NewestKept, Holds, Listed, Benign, happened
  <2>2. BothRead'
    BY <1>7 DEF vars, options, NInv, BothRead, ReadAt, Listed, Benign, happened
  <2>3. QED
    BY <1>1, <2>1, <2>2 DEF NInv
<1>8. QED
  BY <1>2, <1>3, <1>4, <1>5, <1>6, <1>7 DEF Next, SyncStep, EditStep

-----------------------------------------------------------------------------
\* The invariant of the runs in both directions between object stores.
THEOREM SyncNewestInvariant == Spec => []NInv
<1>1. QED
  BY InitNews, StepNews, PTL DEF Spec

\* Between object stores the last content the users wrote anywhere is still on
\* one side at every moment, when users only edit between the runs and nothing
\* but crashes and refused writes happens to these.
THEOREM SyncNewestSurvives == Spec => []NewestSurvives
<1>1. ASSUME NInv
      PROVE  NewestSurvives
  <2> SUFFICES ASSUME \A s \in Sides : kind[s] = "object",
                      happened \subseteq {"crash", "write"}, ~busy, bidir
               PROVE  NewestKept
    BY DEF NewestSurvives, NewestKept
  <2>1. Benign
    BY Known DEF Benign
  <2>2. CASE run = "syncing"
    BY <1>1, <2>1, <2>2, NewestHeld
  <2>3. CASE run # "syncing"
    BY <1>1, <2>1, <2>3 DEF NInv, NewestAtRest
  <2>4. QED
    BY <2>2, <2>3
<1>2. QED
  BY <1>1, SyncNewestInvariant, PTL
=============================================================================
