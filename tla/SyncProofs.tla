----------------------------- MODULE SyncProofs -----------------------------
(***************************************************************************)
(* What TLAPS proves of a synchronization for every tree, any edits, kinds *)
(* of DSS and modes, and whatever fails.                                   *)
(***************************************************************************)
EXTENDS Sync, FiniteSetTheorems, TLAPS

\* The namespaces above p are its own and those above it.
AboveOf(A, p) == IF p = Root THEN {} ELSE {Parent[p]} \union A[Parent[p]]

\* There is a function that says so: q is above p if it is in every set that
\* holds the namespace of p and goes up.
LEMMA AboveExists == \E A : A = [p \in Paths |-> AboveOf(A, p)]
<1> DEFINE Up(S) == \A r \in S \ {Root} : Parent[r] \in S
           Anc(p) == IF p = Root THEN {}
                     ELSE {q \in Paths : \A S \in SUBSET Paths : Parent[p] \in S /\ Up(S) => q \in S}
           A == [p \in Paths |-> Anc(p)]
<1>1. ASSUME NEW p \in Paths \ {Root}
      PROVE  Anc(p) = {Parent[p]} \union Anc(Parent[p])
  <2>1. Parent[p] \in Paths
    BY TreeRooted, TreeParents
  <2>2. CASE Parent[p] = Root
    <3>1. Up({Root}) /\ {Root} \in SUBSET Paths
      BY TreeRooted
    <3>2. QED
      BY <2>1, <2>2, <3>1
  <2>3. CASE Parent[p] # Root
    <3> DEFINE T == {Parent[p]} \union Anc(Parent[p])
    <3>0. Parent[Parent[p]] \in Paths
      BY <2>1, <2>3, TreeRooted, TreeParents
    <3>1. Parent[Parent[p]] \in Anc(Parent[p])
      BY <2>3, <3>0
    <3>2. ASSUME NEW r \in Anc(Parent[p]) \ {Root}
          PROVE  Parent[r] \in Anc(Parent[p])
      <4>1. r \in Paths /\ Parent[r] \in Paths
        BY <2>3, <3>2, TreeRooted, TreeParents
      <4>2. QED
        BY <2>3, <3>2, <4>1
    <3>3. T \in SUBSET Paths /\ Up(T)
      BY <2>1, <3>1, <3>2
    <3>4. Anc(p) \subseteq T
      BY <3>3
    <3>5. Parent[p] \in Anc(p)
      BY <2>1
    <3>6. ASSUME NEW q \in Anc(Parent[p])
          PROVE  q \in Anc(p)
      <4>1. ASSUME NEW S \in SUBSET Paths, Parent[p] \in S, Up(S)
            PROVE  q \in S
        <5>1. Parent[Parent[p]] \in S
          BY <2>3, <4>1
        <5>2. QED
          BY <2>3, <3>6, <4>1, <5>1
      <4>2. q \in Paths
        BY <2>3, <3>6
      <4>3. QED
        BY <4>1, <4>2
    <3>7. QED
      BY <3>4, <3>5, <3>6
  <2>4. QED
    BY <2>2, <2>3
<1>2. Anc(Root) = {}
  OBVIOUS
<1>3. \A p \in Paths : A[p] = AboveOf(A, p)
  <2> SUFFICES ASSUME NEW p \in Paths PROVE A[p] = AboveOf(A, p)
    OBVIOUS
  <2>1. CASE p = Root
    BY <1>2, <2>1 DEF AboveOf
  <2>2. CASE p # Root
    <3>1. Parent[p] \in Paths
      BY <2>2, TreeRooted, TreeParents
    <3>2. A[Parent[p]] = Anc(Parent[p]) /\ A[p] = Anc(p)
      BY <3>1
    <3> HIDE DEF A, Anc
    <3>3. QED
      BY <1>1, <2>2, <3>2 DEF AboveOf
  <2>3. QED
    BY <2>1, <2>2
<1>4. A = [p \in Paths |-> AboveOf(A, p)]
  BY <1>3
<1>5. QED
  BY <1>4

LEMMA AboveIs ==
    ASSUME NEW p \in Paths
    PROVE  Above[p] = IF p = Root THEN {} ELSE {Parent[p]} \union Above[Parent[p]]
<1>1. Above = CHOOSE A : A = [q \in Paths |-> AboveOf(A, q)]
  BY DEF Above, AboveOf
<1>2. Above = [q \in Paths |-> AboveOf(Above, q)]
  <2> HIDE DEF AboveOf
  <2> DEFINE B == CHOOSE A : A = [q \in Paths |-> AboveOf(A, q)]
  <2>1. B = [q \in Paths |-> AboveOf(B, q)]
    BY AboveExists
  <2>2. QED
    BY <1>1, <2>1
<1>3. QED
  BY <1>2 DEF AboveOf

\* p and what is above it, up to the root.
Line(p) == Above[p] \union {p}

\* What is above p are namespaces, and with an entry its own namespace is there.
LEMMA AboveFacts ==
    ASSUME NEW p \in Paths
    PROVE  /\ Above[p] \subseteq Spaces
           /\ p \notin Above[p]
           /\ \A q \in Line(p) \ {Root} : Parent[q] \in Above[p] /\ Parent[q] \in Paths
           /\ \A q \in Above[p] : Line(q) \subseteq Above[p]
           /\ Root \in Line(p)

<1> DEFINE F(q) == /\ Above[q] \subseteq Spaces
                   /\ q \notin Above[q]
                   /\ \A r \in Line(q) \ {Root} : Parent[r] \in Above[q] /\ Parent[r] \in Paths
                   /\ \A r \in Above[q] : Line(r) \subseteq Above[q]
                   /\ Root \in Line(q)
           S == {q \in Paths : F(q)}
<1>1. Root \in S
  <2>1. Root \in Paths
    BY TreeRooted
  <2>2. Above[Root] = {}
    BY <2>1, AboveIs
  <2>3. QED
    BY <2>1, <2>2 DEF Line
<1>2. ASSUME NEW q \in Paths \ {Root}, Parent[q] \in S
      PROVE  F(q)
  <2>1. Above[q] = Line(Parent[q])
    BY AboveIs DEF Line
  <2>2. Parent[q] \in Spaces /\ Parent[q] \in Paths /\ F(Parent[q])
    BY <1>2, TreeRooted, TreeParents
  <2>3. Above[q] \subseteq Spaces
    BY <2>1, <2>2 DEF Line
  <2>4. \A r \in Line(q) \ {Root} : Parent[r] \in Above[q] /\ Parent[r] \in Paths
    BY <2>1, <2>2 DEF Line
  <2>5. \A r \in Above[q] : Line(r) \subseteq Above[q]
    BY <2>1, <2>2 DEF Line
  <2>6. q \notin Above[q]
    <3>1. CASE q = Parent[q]
      BY <2>1, <2>2, <3>1 DEF Line
    <3>2. CASE q \in Above[Parent[q]]
      BY <2>1, <2>2, <3>2 DEF Line
    <3>3. QED
      BY <2>1, <3>1, <3>2 DEF Line
  <2>7. Root \in Line(q)
    BY <2>1, <2>2 DEF Line
  <2>8. QED
    BY <2>3, <2>4, <2>5, <2>6, <2>7
<1>3. S = Paths
  <2>1. \A q \in Paths \ {Root} : Parent[q] \in S => q \in S
    BY <1>2
  <2>2. S \in SUBSET Paths
    OBVIOUS
  <2> HIDE DEF S
  <2>3. QED
    BY <1>1, <2>1, <2>2, TreeReached
<1>4. QED
  BY <1>3

\* An entry is listed if its own namespace lists it and is listed; so is what is
\* above it.
LEMMA ListedStep ==
    ASSUME NEW st, NEW p \in Paths \ {Root}
    PROVE  Listed(st, p) <=> p \in st[Parent[p]].ch /\ Listed(st, Parent[p])
<1>1. Above[p] = Line(Parent[p])
  BY AboveIs DEF Line
<1>2. Parent[p] \in Paths
  BY TreeRooted, TreeParents
<1>3. QED
  BY <1>1, <1>2 DEF Listed, Line

LEMMA ListedUp ==
    ASSUME NEW st, NEW p \in Paths, Listed(st, p), NEW q \in Line(p)
    PROVE  Listed(st, q)
BY AboveFacts DEF Listed, Line

LEMMA RootListed ==
    ASSUME NEW st
    PROVE  Listed(st, Root)
BY AboveIs, TreeRooted DEF Listed

\* What its line lists, lists it.
LEMMA ListedKept ==
    ASSUME NEW st, NEW new, NEW p \in Paths, Listed(st, p),
           \A q \in Line(p) \ {Root} : q \in st[Parent[q]].ch => q \in new[Parent[q]].ch
    PROVE  Listed(new, p)
BY DEF Listed, Line

-----------------------------------------------------------------------------
Stores == {st \in [Paths -> Entries] : \A p \in Paths : st[p].ch \subseteq Children(p)}

TaskRecords ==
    [step : Steps, exist : [Sides -> BOOLEAN], meta : [Sides -> Entries],
     unread : SUBSET Sides, failed : SUBSET Sides, err : BOOLEAN]

\* What a task knows of the children of a namespace are its children; and only
\* namespaces are merged, only contents are copied.
TaskedAt(p, t) ==
    /\ \A s \in Sides : t.meta[s].ch \subseteq Children(p)
    /\ t.step \in {"leftBefore", "rightBefore", "children", "rightAfter"} => p \in Spaces
    /\ t.step = "fill" => p \notin Spaces
    /\ t.unread \subseteq {s \in Sides : t.exist[s]}
    /\ t.step # "metas" => t.unread = {}

Tasked == \A p \in Paths : TaskedAt(p, task[p])

TInv == TypeOK /\ Tasked

LEMMA StoresTyped ==
    ASSUME TypeOK
    PROVE  /\ \A s \in Sides : store[s] \in Stores
           /\ store \in [Sides -> Stores]
           /\ task \in [Paths -> TaskRecords]
BY DEF TypeOK, Stores, TaskRecords

\* What PutNs leaves, entry by entry: the children of a namespace are those it
\* is given, and no other one gets a child.
NsPut(s, p, C, m, st) ==
    LET gone == {q \in Paths : Line(q) \intersect (store[s][p].ch \ C) # {}}
        made == C \ store[s][p].ch
    IN /\ st \in Stores
       /\ st[p].mtime = m /\ st[p].data = Empty /\ st[p].ch = C
       /\ \A q \in Paths \ {p} :
             /\ st[q].ch \subseteq store[s][q].ch
             /\ kind[s] = "object" => st[q] = store[s][q]
             /\ q \notin gone \union made => st[q] = store[s][q]
             /\ kind[s] # "object" /\ q \in gone => st[q] = Missing
             /\ kind[s] # "object" /\ q \in made \ gone =>
                   st[q].mtime = Now /\ st[q].data = Empty /\ st[q].ch = {}

LEMMA PutNsIs ==
    ASSUME NEW s \in Sides, store[s] \in Stores, NEW p \in Paths, NEW C \in SUBSET Children(p),
           NEW m \in Nat, clock \in Nat
    PROVE  NsPut(s, p, C, m, PutNs(s, p, C, m))
<1> DEFINE ns == [mtime |-> m, data |-> Empty, ch |-> C]
           gone == {q \in Paths : Line(q) \intersect (store[s][p].ch \ C) # {}}
           made == C \ store[s][p].ch
           new == [mtime |-> Now, data |-> Empty, ch |-> {}]
           st == PutNs(s, p, C, m)
           old == store[s]
<1>1. Children(p) \subseteq Paths
  BY DEF Children
<1>2. ns \in Entries /\ Missing \in Entries /\ new \in Entries
  BY <1>1 DEF Entries, Missing, Empty, Nothing, Now
<1>3. old \in [Paths -> Entries] /\ \A q \in Paths : old[q].ch \subseteq Children(q)
  BY DEF Stores
<1>4. CASE kind[s] = "object"
  <2>1. st = [old EXCEPT ![p] = ns]
    BY <1>4 DEF PutNs
  <2>2. st[p] = ns /\ \A q \in Paths \ {p} : st[q] = old[q]
    BY <1>3, <2>1
  <2>3. st \in Stores
    BY <1>2, <1>3, <2>1, <2>2 DEF Stores
  <2>4. st[p].mtime = m /\ st[p].data = Empty /\ st[p].ch = C
    BY <2>2
  <2> HIDE DEF st, ns
  <2>5. QED
    BY <1>3, <1>4, <2>2, <2>3, <2>4 DEF st, NsPut
<1>5. CASE kind[s] # "object"
  <2>1. st = [q \in Paths |-> CASE q = p -> ns [] q \in gone -> Missing
                                [] q \in made -> new [] OTHER -> old[q]]
    BY <1>5 DEF PutNs, Line
  <2> HIDE DEF st
  <2>2. p \notin gone
    <3>1. ASSUME NEW q \in old[p].ch PROVE q \notin Line(p)
      <4>1. q \in Paths \ {Root} /\ Parent[q] = p
        BY <1>3, <3>1 DEF Children
      <4>2. CASE q = p
        <5>1. p \in Above[p]
          BY <4>1, <4>2, AboveFacts DEF Line
        <5>2. QED
          BY <5>1, AboveFacts
      <4>3. CASE q \in Above[p]
        <5>1. Parent[q] \in Above[p]
          BY <4>1, <4>3, AboveFacts DEF Line
        <5>2. QED
          BY <4>1, <5>1, AboveFacts
      <4>4. QED
        BY <4>2, <4>3 DEF Line
    <3>2. QED
      BY <3>1
  <2>3. p \notin made
    <3>1. \A q \in Children(p) : Parent[q] = p /\ q \in Paths \ {Root}
      BY DEF Children
    <3>2. p \notin Children(p)
      <4>1. p # Root /\ Parent[p] = p => p \in Above[p]
        BY AboveIs
      <4>2. QED
        BY <3>1, <4>1, AboveFacts
    <3>3. QED
      BY <3>2
  <2>10. gone \intersect made = {}
    <3>1. ASSUME NEW q \in gone, q \in made PROVE FALSE
      <4>1. q \in Paths \ {Root} /\ Parent[q] = p
        BY <3>1 DEF Children
      <4>2. Line(q) = Line(p) \union {q}
        BY <4>1, AboveIs DEF Line
      <4>3. QED
        BY <2>2, <3>1, <4>2
    <3>2. QED
      BY <3>1
  <2>4. ASSUME NEW q \in Paths \ {p}
        PROVE  /\ q \in gone => st[q] = Missing
               /\ q \in made \ gone => st[q] = new
               /\ q \notin gone \union made => st[q] = old[q]
    <3> HIDE DEF gone, made, new, old, ns
    <3>1. QED
      BY <2>1, <2>4, <2>10
  <2>5. st[p] = ns
    <3> HIDE DEF gone, made, new, old, ns
    <3>1. QED
      BY <2>1, <2>2, <2>3
  <2>6. ASSUME NEW q \in Paths \ {p}
        PROVE  st[q].ch \subseteq old[q].ch /\ st[q] \in Entries
    <3>1. \/ st[q] = Missing \/ st[q] = new \/ st[q] = old[q]
      BY <2>4
    <3>2. Missing.ch = {} /\ new.ch = {}
      BY DEF Missing
    <3>3. old[q] \in Entries
      BY <1>3
    <3> HIDE DEF new, old
    <3>4. QED
      BY <1>2, <3>1, <3>2, <3>3
  <2>7. st \in [Paths -> Entries]
    BY <1>2, <2>1, <2>5, <2>6
  <2>8. ASSUME NEW q \in Paths
        PROVE  st[q].ch \subseteq Children(q)
    <3>1. CASE q = p
      <4>1. ns.ch = C
        OBVIOUS
      <4>2. QED
        BY <2>5, <3>1, <4>1
    <3>2. CASE q # p
      <4>1. old[q].ch \subseteq Children(q)
        BY <1>3
      <4>2. QED
        BY <2>6, <3>2, <4>1
    <3>3. QED
      BY <3>1, <3>2
  <2>9. st \in Stores
    <3> HIDE DEF gone, made, new, old, ns
    <3>1. QED
      BY <2>7, <2>8 DEF Stores
  <2>11. st[p].mtime = m /\ st[p].data = Empty /\ st[p].ch = C
    BY <2>5
  <2>12. new.mtime = Now /\ new.data = Empty /\ new.ch = {}
    OBVIOUS
  <2> HIDE DEF gone, made, new
  <2>13. QED
    BY <1>5, <2>4, <2>6, <2>9, <2>11, <2>12 DEF gone, made, st, NsPut
<1>6. QED
  BY <1>4, <1>5

\* A namespace record with other children and another time.
Relists(e, x, n) == [e EXCEPT !.ch = @ \union {x}, !.mtime = n]

LEMMA Relisting ==
    ASSUME NEW e \in Entries, NEW x \in Paths, NEW n \in Nat
    PROVE  /\ Relists(e, x, n) \in Entries
           /\ Relists(e, x, n).ch = e.ch \union {x}
           /\ Relists(e, x, n).data = e.data
<1> DEFINE new == Relists(e, x, n)
<1>1. new.ch = e.ch \union {x} /\ new.mtime = n /\ new.data = e.data
  BY DEF Entries, Relists
<1>2. new = [mtime |-> n, data |-> e.data, ch |-> e.ch \union {x}]
  <2> DEFINE c == e.ch \union {x}
  <2>1. new = [e EXCEPT !.ch = c, !.mtime = n]
    BY DEF Relists
  <2> HIDE DEF c
  <2>2. e = [mtime |-> e.mtime, data |-> e.data, ch |-> e.ch]
    BY DEF Entries
  <2>3. PICK i, j, k : e = [mtime |-> i, data |-> j, ch |-> k]
    BY <2>2
  <2>4. new = [mtime |-> n, data |-> j, ch |-> c]
    BY <2>1, <2>3
  <2>5. QED
    BY <2>3, <2>4 DEF c
<1>3. e.data \in Nat /\ e.ch \union {x} \in SUBSET Paths
  BY DEF Entries
<1>4. QED
  BY <1>1, <1>2, <1>3 DEF Entries

\* What PutContent leaves.
ContentPut(s, p, m, d, st) ==
    /\ st \in Stores
    /\ st[p].mtime = m /\ st[p].data = d /\ st[p].ch = {}
    /\ st[Parent[p]].ch = store[s][Parent[p]].ch \union {p}
    /\ st[Parent[p]].data = store[s][Parent[p]].data
    /\ p \in store[s][Parent[p]].ch => st[Parent[p]] = store[s][Parent[p]]
    /\ \A q \in Paths \ {p, Parent[p]} : st[q] = store[s][q]

LEMMA PutContentIs ==
    ASSUME NEW s \in Sides, store[s] \in Stores, NEW p \in Paths \ Spaces, NEW m \in Nat,
           NEW d \in Nat, clock \in Nat
    PROVE  ContentPut(s, p, m, d, PutContent(s, p, m, d))
<1> DEFINE old == store[s]
           file == [mtime |-> m, data |-> d, ch |-> {}]
           dir == old[Parent[p]]
           dir2 == [dir EXCEPT !.ch = @ \union {p}, !.mtime = Now]
           st == PutContent(s, p, m, d)
<1>1. p # Root /\ Parent[p] \in Paths /\ Parent[p] # p
  BY TreeRooted, TreeParents
<1>2. file \in Entries
  BY DEF Entries
<1>3. old \in [Paths -> Entries] /\ \A q \in Paths : old[q].ch \subseteq Children(q)
  BY DEF Stores
<1>4. p \in Children(Parent[p])
  BY <1>1 DEF Children
<1>5. dir2 \in Entries /\ dir2.ch = dir.ch \union {p} /\ dir2.data = dir.data
  <2>1. dir \in Entries
    BY <1>1, <1>3
  <2>2. p \in Paths /\ Now \in Nat
    BY DEF Now
  <2>3. dir2 = Relists(dir, p, Now)
    BY DEF Relists
  <2> HIDE DEF dir, old, st, file, dir2
  <2>4. QED
    BY <2>1, <2>2, <2>3, Relisting
<1>6. CASE p \in dir.ch
  <2>1. st = [old EXCEPT ![p] = file]
    BY <1>6 DEF PutContent
  <2>2. st[p] = file /\ \A q \in Paths \ {p} : st[q] = old[q]
    BY <1>3, <2>1
  <2>3. st \in Stores
    BY <1>2, <1>3, <2>1, <2>2 DEF Stores
  <2> HIDE DEF st, ContentPut
  <2>4. QED
    BY <1>1, <1>6, <2>2, <2>3 DEF st, ContentPut
<1>7. CASE p \notin dir.ch
  <2>1. st = [old EXCEPT ![p] = file, ![Parent[p]] = dir2]
    BY <1>7 DEF PutContent
  <2> HIDE DEF st, ContentPut
  <2>2. st[p] = file /\ st[Parent[p]] = dir2 /\ \A q \in Paths \ {p, Parent[p]} : st[q] = old[q]
    BY <1>1, <1>3, <2>1
  <2>3. st \in [Paths -> Entries]
    BY <1>2, <1>3, <1>5, <2>1
  <2> HIDE DEF dir2
  <2>4. \A q \in Paths : st[q].ch \subseteq Children(q)
    BY <1>1, <1>3, <1>4, <1>5, <2>2
  <2>5. st \in Stores
    BY <2>3, <2>4 DEF Stores
  <2>6. QED
    BY <1>1, <1>5, <1>7, <2>2, <2>5 DEF st, ContentPut
<1>8. QED
  BY <1>6, <1>7

\* What RemoveFile leaves.
FileGone(s, p, st) ==
    /\ st \in Stores
    /\ st[p] = Missing
    /\ st[Parent[p]].ch = store[s][Parent[p]].ch \ {p}
    /\ st[Parent[p]].data = store[s][Parent[p]].data
    /\ \A q \in Paths \ {p, Parent[p]} : st[q] = store[s][q]

LEMMA RemoveFileIs ==
    ASSUME NEW s \in Sides, store[s] \in Stores, NEW p \in Paths \ Spaces, clock \in Nat
    PROVE  FileGone(s, p, RemoveFile(s, p))
<1> DEFINE old == store[s]
           dir == old[Parent[p]]
           dir2 == [dir EXCEPT !.ch = @ \ {p}, !.mtime = Now]
           st == RemoveFile(s, p)
<1>1. p # Root /\ Parent[p] \in Paths /\ Parent[p] # p
  BY TreeRooted, TreeParents
<1>2. Missing \in Entries /\ Missing.ch = {}
  BY DEF Missing, Entries, Nothing
<1>3. old \in [Paths -> Entries] /\ \A q \in Paths : old[q].ch \subseteq Children(q)
  BY DEF Stores
<1>4. dir2 \in Entries /\ dir2.ch = dir.ch \ {p} /\ dir2.data = dir.data
  <2>1. dir \in Entries
    BY <1>1, <1>3
  <2>2. Now \in Nat
    BY DEF Now
  <2> HIDE DEF dir
  <2>3. QED
    BY <2>1, <2>2 DEF Entries
<1>5. st = [old EXCEPT ![p] = Missing, ![Parent[p]] = dir2]
  BY DEF RemoveFile
<1> HIDE DEF st, dir2
<1>6. st[p] = Missing /\ st[Parent[p]] = dir2 /\ \A q \in Paths \ {p, Parent[p]} : st[q] = old[q]
  BY <1>1, <1>3, <1>5
<1>7. st \in [Paths -> Entries]
  BY <1>2, <1>3, <1>4, <1>5
<1>8. \A q \in Paths : st[q].ch \subseteq Children(q)
  BY <1>1, <1>2, <1>3, <1>4, <1>6
<1>9. st \in Stores
  BY <1>7, <1>8 DEF Stores
<1>10. st[Parent[p]].ch = store[s][Parent[p]].ch \ {p} /\ st[Parent[p]].data = store[s][Parent[p]].data
  BY <1>4, <1>6
<1>11. FileGone(s, p, st)
  BY <1>6, <1>9, <1>10 DEF FileGone
<1>12. QED
  BY <1>11 DEF st

-----------------------------------------------------------------------------
(* What the steps of a run do *)

LEMMA Running ==
    ASSUME TypeOK, NEW p \in Paths, task[p].step # "off"
    PROVE  run = "syncing"
BY DEF TypeOK, Off

LEMMA StoreSet ==
    ASSUME TypeOK, NEW s \in Sides, NEW st \in Stores, store' = [store EXCEPT ![s] = st]
    PROVE  /\ store' \in [Sides -> Stores]
           /\ store'[s] = st
           /\ \A r \in Sides \ {s} : store'[r] = store[r]
BY StoresTyped

LEMMA TaskSet ==
    ASSUME TInv, NEW p \in Paths, NEW r \in TaskRecords, TaskedAt(p, r),
           task' = [task EXCEPT ![p] = r]
    PROVE  /\ task' \in [Paths -> TaskRecords]
           /\ task'[p] = r
           /\ \A q \in Paths \ {p} : task'[q] = task[q]
           /\ Tasked'
<1>1. task \in [Paths -> TaskRecords]
  BY StoresTyped DEF TInv
<1>2. task' \in [Paths -> TaskRecords] /\ task'[p] = r /\ \A q \in Paths \ {p} : task'[q] = task[q]
  BY <1>1
<1>3. \A q \in Paths : TaskedAt(q, task'[q])
  BY <1>2 DEF TInv, Tasked
<1>4. QED
  BY <1>2, <1>3 DEF Tasked, TaskedAt

\* A read that does not report its error.
Misreads == Mishap("misread") /\ misread \subseteq misread' /\ misread' \in SUBSET Paths

\* What a step does to the faults.
LEMMA FaultIs ==
    ASSUME TypeOK, NEW f \in {"read", "write", "copy", "crash"}, NoFault \/ Fault(f) \/ Misreads
    PROVE  /\ faults' \subseteq faults
           /\ upset' \subseteq FaultKinds \union {"edit"}
           /\ upset \subseteq upset'
           /\ "edit" \in upset' => "edit" \in upset
           /\ insync' \in BOOLEAN
           /\ misread \subseteq misread' /\ misread' \in SUBSET Paths
<1>1. CASE NoFault
  BY <1>1 DEF NoFault, noFault, TypeOK
<1>2. CASE Fault(f)
  <2>1. f \in FaultKinds /\ f # "edit"
    BY DEF FaultKinds
  <2>2. QED
    BY <1>2, <2>1 DEF Fault, Mishap, TypeOK
<1>3. CASE Misreads
  <2>1. "misread" \in FaultKinds
    BY DEF FaultKinds
  <2>2. QED
    BY <1>3, <2>1 DEF Misreads, Mishap, TypeOK
<1>4. QED
  BY <1>1, <1>2, <1>3

\* A step of a run keeps the types if the stores and the tasks keep theirs.
LEMMA StepTyped ==
    ASSUME TypeOK, UNCHANGED runVars, store' \in [Sides -> Stores],
           task' \in [Paths -> TaskRecords],
           NEW f \in {"read", "write", "copy", "crash"}, NoFault \/ Fault(f) \/ Misreads,
           reported' \in BOOLEAN, run' \in {"idle", "syncing", "finished", "failed"},
           run' # "syncing" => task' = [p \in Paths |-> Off]
    PROVE  TypeOK'
<1>1. /\ kind' \in [Sides -> {"fsy", "object"}]
      /\ bidir' \in BOOLEAN /\ keep' \in BOOLEAN /\ busy' \in BOOLEAN
      /\ clock' \in Nat /\ before' \in [Sides -> [Paths -> Entries]] /\ written' \in [Paths -> Nat]
  BY DEF TypeOK, runVars, options
<1>2. /\ faults' \subseteq FaultKinds
      /\ upset' \subseteq FaultKinds \union {"edit"}
      /\ insync' \in BOOLEAN /\ misread' \in SUBSET Paths
  BY FaultIs DEF TypeOK
<1>3. /\ store' \in [Sides -> [Paths -> Entries]]
      /\ \A s \in Sides, p \in Paths : store'[s][p].ch \subseteq Children(p)
  BY DEF Stores
<1>4. QED
  BY <1>1, <1>2, <1>3 DEF TypeOK, TaskRecords

\* The same of a step that changes one task.
LEMMA TaskStepTyped ==
    ASSUME TInv, UNCHANGED <<runVars, run>>, store' \in [Sides -> Stores],
           NEW p \in Paths, task[p].step # "off", NEW r \in TaskRecords, TaskedAt(p, r),
           task' = [task EXCEPT ![p] = r],
           NEW f \in {"read", "write", "copy", "crash"}, NoFault \/ Fault(f) \/ Misreads,
           reported' \in BOOLEAN
    PROVE  TInv'
<1>1. task' \in [Paths -> TaskRecords] /\ Tasked'
  BY TaskSet
<1>2. run' = "syncing" /\ UNCHANGED runVars
  BY Running DEF TInv
<1>3. TypeOK'
  BY <1>1, <1>2, StepTyped DEF TInv
<1>4. QED
  BY <1>1, <1>3 DEF TInv

Others(p) == \A q \in Paths \ {p} : task'[q] = task[q]

\* The metadata of one side is read, or is not and the side gone for the task, or
\* is taken for empty.
LEMMA ReadMetaIs ==
    ASSUME TInv, NEW p \in Paths, NEW s \in Sides, ReadMeta(p, s)
    PROVE  LET t == task[p]
               r == task'[p]
           IN /\ TInv'
              /\ Others(p) /\ UNCHANGED <<runVars, run, store, reported>>
              /\ t.step = "metas" /\ s \in t.unread
              /\ r.step = "metas" /\ r.unread = t.unread \ {s} /\ r.err = t.err
              /\ \A o \in Sides \ {s} :
                    /\ r.exist[o] = t.exist[o] /\ r.meta[o] = t.meta[o]
                    /\ o \in r.failed <=> o \in t.failed
              /\ \/ /\ Listed(store[s], p) /\ NoFault
                    /\ r.exist = t.exist /\ r.failed = t.failed /\ r.meta[s] = store[s][p]
                 \/ /\ (~Listed(store[s], p) /\ NoFault) \/ Fault("read")
                    /\ ~r.exist[s] /\ s \in r.failed
                 \/ /\ kind[s] = "object" /\ Misreads
                    /\ misread' = misread \union {q \in {p} : s = "left"}
                    /\ r.exist = t.exist /\ r.failed = t.failed /\ r.meta[s] = Missing
<1> DEFINE t == task[p]
           yes(m) == [t EXCEPT !.unread = @ \ {s}, !.meta[s] = m]
           no == [t EXCEPT !.unread = @ \ {s}, !.exist[s] = FALSE, !.failed = @ \union {s}]
<1>1. t \in TaskRecords /\ store[s][p] \in Entries /\ store[s][p].ch \subseteq Children(p)
  BY StoresTyped DEF TInv, TypeOK
<1>2. t.step = "metas" /\ s \in t.unread /\ UNCHANGED <<runVars, run, store, reported>>
  BY DEF ReadMeta
<1>3. TaskedAt(p, t)
  BY DEF TInv, Tasked
<1>4. ASSUME NEW m \in Entries, m.ch \subseteq Children(p)
      PROVE  /\ yes(m).step = "metas" /\ yes(m).unread = t.unread \ {s} /\ yes(m).err = t.err
             /\ yes(m).exist = t.exist /\ yes(m).failed = t.failed
             /\ yes(m).meta[s] = m /\ \A o \in Sides \ {s} : yes(m).meta[o] = t.meta[o]
             /\ yes(m) \in TaskRecords /\ TaskedAt(p, yes(m))
  <2> DEFINE y == yes(m)
  <2>1. /\ y.step = "metas" /\ y.unread = t.unread \ {s} /\ y.err = t.err
        /\ y.exist = t.exist /\ y.failed = t.failed /\ y.meta = [t.meta EXCEPT ![s] = m]
    BY <1>1, <1>2 DEF TaskRecords
  <2>2. y \in TaskRecords
    BY <1>1, <1>4 DEF TaskRecords, Steps
  <2> HIDE DEF y
  <2>3. y.meta[s] = m /\ \A o \in Sides \ {s} : y.meta[o] = t.meta[o]
    BY <1>1, <2>1 DEF TaskRecords
  <2>4. TaskedAt(p, y)
    BY <1>1, <1>2, <1>3, <1>4, <2>1, <2>3 DEF TaskedAt, TaskRecords
  <2>5. QED
    BY <2>1, <2>2, <2>3, <2>4 DEF y
<1>5. /\ no.step = "metas" /\ no.unread = t.unread \ {s} /\ no.err = t.err
      /\ no.exist = [t.exist EXCEPT ![s] = FALSE] /\ no.failed = t.failed \union {s}
      /\ no.meta = t.meta
  BY <1>1, <1>2 DEF TaskRecords
<1>6. no \in TaskRecords
  BY <1>1 DEF TaskRecords, Steps
<1>7. \/ task' = [task EXCEPT ![p] = yes(store[s][p])] /\ Listed(store[s], p) /\ NoFault
      \/ task' = [task EXCEPT ![p] = no] /\ ~Listed(store[s], p) /\ NoFault
      \/ task' = [task EXCEPT ![p] = no] /\ Fault("read")
      \/ /\ task' = [task EXCEPT ![p] = yes(Missing)] /\ kind[s] = "object" /\ Mishap("misread")
         /\ misread' = misread \union {q \in {p} : s = "left"}
  BY DEF ReadMeta
<1> HIDE DEF yes, no
<1>8. Missing \in Entries /\ Missing.ch \subseteq Children(p)
  BY DEF Missing, Entries, Nothing
<1>9. TaskedAt(p, no)
  BY <1>1, <1>2, <1>3, <1>5 DEF TaskedAt, TaskRecords
<1>10. store' \in [Sides -> Stores] /\ reported' \in BOOLEAN
  BY <1>2, StoresTyped DEF TInv, TypeOK
<1>11. CASE task' = [task EXCEPT ![p] = yes(store[s][p])] /\ Listed(store[s], p) /\ NoFault
  <2>1. TInv'
    BY <1>1, <1>2, <1>4, <1>10, <1>11, TaskStepTyped
  <2>2. task'[p] = yes(store[s][p]) /\ Others(p)
    BY <1>1, <1>4, <1>11, TaskSet DEF Others
  <2>3. QED
    BY <1>1, <1>2, <1>4, <1>11, <2>1, <2>2
<1>12. CASE task' = [task EXCEPT ![p] = no] /\ ((~Listed(store[s], p) /\ NoFault) \/ Fault("read"))
  <2>1. TInv'
    BY <1>2, <1>6, <1>9, <1>10, <1>12, TaskStepTyped
  <2>2. task'[p] = no /\ Others(p)
    BY <1>6, <1>9, <1>12, TaskSet DEF Others
  <2>3. ~no.exist[s] /\ \A o \in Sides \ {s} : no.exist[o] = t.exist[o]
    BY <1>1, <1>5 DEF TaskRecords
  <2>4. QED
    BY <1>2, <1>5, <1>12, <2>1, <2>2, <2>3
<1>13. CASE /\ task' = [task EXCEPT ![p] = yes(Missing)] /\ kind[s] = "object" /\ Mishap("misread")
            /\ misread' = misread \union {q \in {p} : s = "left"}
  <2>1. Misreads
    BY <1>13 DEF Misreads, TInv, TypeOK
  <2>2. TInv'
    BY <1>2, <1>4, <1>8, <1>10, <1>13, <2>1, TaskStepTyped
  <2>3. task'[p] = yes(Missing) /\ Others(p)
    BY <1>4, <1>8, <1>13, TaskSet DEF Others
  <2>4. QED
    BY <1>2, <1>4, <1>8, <1>13, <2>1, <2>2, <2>3
<1>14. QED
  BY <1>7, <1>11, <1>12, <1>13

\* Only the step and the error of the task of p change.
Advances(p, step, err) ==
    /\ Others(p)
    /\ task'[p].step = step /\ task'[p].err = err
    /\ task'[p].exist = task[p].exist /\ task'[p].meta = task[p].meta
    /\ task'[p].unread = task[p].unread /\ task'[p].failed = task[p].failed

LEMMA AdvanceTyped ==
    ASSUME TInv, UNCHANGED <<runVars, run>>, store' \in [Sides -> Stores],
           NEW p \in Paths, task[p].step # "off", task[p].unread = {},
           NEW step \in Steps, NEW err \in BOOLEAN,
           task' = [task EXCEPT ![p] = [task[p] EXCEPT !.step = step, !.err = err]],
           step \in {"leftBefore", "rightBefore", "children", "rightAfter"} => p \in Spaces,
           step = "fill" => p \notin Spaces,
           NEW f \in {"read", "write", "copy", "crash"}, NoFault \/ Fault(f) \/ Misreads,
           reported' \in BOOLEAN
    PROVE  TInv' /\ Advances(p, step, err)
<1> DEFINE r == [task[p] EXCEPT !.step = step, !.err = err]
<1>1. task[p] \in TaskRecords
  BY StoresTyped DEF TInv
<1>2. r \in TaskRecords
  BY <1>1 DEF TaskRecords
<1>3. /\ r.step = step /\ r.err = err /\ r.exist = task[p].exist /\ r.meta = task[p].meta
      /\ r.unread = task[p].unread /\ r.failed = task[p].failed
  BY <1>1 DEF TaskRecords
<1> HIDE DEF r
<1>4. TaskedAt(p, r)
  BY <1>3 DEF TaskedAt, TInv, Tasked
<1>5. task' = [task EXCEPT ![p] = r]
  BY DEF r
<1>6. TInv'
  BY <1>2, <1>4, <1>5, TaskStepTyped
<1>7. task'[p] = r /\ Others(p)
  BY <1>2, <1>4, <1>5, TaskSet DEF Others
<1>8. QED
  BY <1>3, <1>6, <1>7 DEF Advances

LEMMA AdvanceIs ==
    ASSUME TInv, NEW p \in Paths, NEW step \in Steps, NEW err \in BOOLEAN
    PROVE  LET r == [task EXCEPT ![p] = [task[p] EXCEPT !.step = step, !.err = err]]
           IN /\ [task EXCEPT ![p].step = step, ![p].err = err] = r
              /\ task[p].err = err => [task EXCEPT ![p].step = step] = r
<1> DEFINE r == [task EXCEPT ![p] = [task[p] EXCEPT !.step = step, !.err = err]]
<1>1. task \in [Paths -> TaskRecords] /\ task[p] \in TaskRecords
  BY StoresTyped DEF TInv
<1>2. [task EXCEPT ![p].step = step, ![p].err = err] = r
  BY <1>1
<1>4. ASSUME task[p].err = err
      PROVE  [task[p] EXCEPT !.step = step] = [task[p] EXCEPT !.step = step, !.err = err]
  BY <1>1, <1>4 DEF TaskRecords
<1>5. task[p].err = err => [task EXCEPT ![p].step = step] = r
  BY <1>4
<1>6. QED
  BY <1>2, <1>5

LEMMA GiveUpIs ==
    ASSUME TInv, NEW p \in Paths, GiveUp(p)
    PROVE  /\ TInv' /\ Advances(p, "done", TRUE)
           /\ Evaluated(p) /\ GivesUp(task[p])
           /\ UNCHANGED <<runVars, run, store>> /\ NoFault /\ reported'
<1>1. /\ UNCHANGED <<runVars, run>> /\ UNCHANGED store /\ NoFault /\ reported' = TRUE
      /\ task[p].step # "off" /\ task[p].unread = {}
      /\ task' = [task EXCEPT ![p].step = "done", ![p].err = TRUE]
  BY DEF GiveUp, Evaluated, NoFault
<1>2. store' \in [Sides -> Stores]
  BY <1>1, StoresTyped DEF TInv
<1>3. "done" \in Steps
  BY DEF Steps
<1>4. task' = [task EXCEPT ![p] = [task[p] EXCEPT !.step = "done", !.err = TRUE]]
  BY <1>1, <1>3, AdvanceIs
<1>5. TInv' /\ Advances(p, "done", TRUE)
  BY <1>1, <1>2, <1>3, <1>4, AdvanceTyped
<1>6. QED
  BY <1>1, <1>5 DEF GiveUp

AllOff == task' = [q \in Paths |-> Off]

LEMMA OffTyped ==
    /\ [q \in Paths |-> Off] \in [Paths -> TaskRecords]
    /\ \A p \in Paths : TaskedAt(p, Off)
<1>1. Missing \in Entries
  BY DEF Missing, Entries, Nothing
<1>2. Off \in TaskRecords
  BY <1>1 DEF Off, TaskRecords, Steps
<1>3. \A p \in Paths : TaskedAt(p, Off)
  BY DEF TaskedAt, Off, Missing
<1>4. QED
  BY <1>2, <1>3

\* evalNsMerge is over, or panicked, which stops everything.
LEMMA MergeIs ==
    ASSUME TInv, NEW p \in Paths, Merge(p)
    PROVE  /\ TInv'
           /\ p \in Spaces /\ Evaluated(p) /\ ~GivesUp(task[p])
           /\ UNCHANGED <<runVars, store, reported>> /\ NoFault
           /\ \/ NoMeta(task[p]) /\ run' = "failed" /\ AllOff
              \/ ~NoMeta(task[p]) /\ run' = run /\ Advances(p, "leftBefore", task[p].err)
<1>1. /\ UNCHANGED runVars /\ UNCHANGED <<store, reported>> /\ NoFault
      /\ task[p].step # "off" /\ task[p].unread = {}
      /\ p \in Spaces /\ Evaluated(p) /\ ~GivesUp(task[p])
  BY DEF Merge, Evaluated, NoFault
<1>2. store' \in [Sides -> Stores] /\ reported' \in BOOLEAN /\ task[p].err \in BOOLEAN
  BY <1>1, StoresTyped DEF TInv, TypeOK
<1>3. CASE NoMeta(task[p])
  <2>1. run' = "failed" /\ task' = [q \in Paths |-> Off]
    BY <1>3 DEF Merge
  <2>2. task' \in [Paths -> TaskRecords] /\ Tasked'
    <3>1. \A q \in Paths : task'[q] = Off
      BY <2>1
    <3>2. \A q \in Paths : TaskedAt(q, task'[q])
      BY <3>1, OffTyped
    <3>3. QED
      BY <2>1, <3>2, OffTyped DEF Tasked, TaskedAt
  <2>3. TypeOK'
    BY <1>1, <1>2, <2>1, <2>2, StepTyped DEF TInv
  <2>4. QED
    BY <1>1, <1>3, <2>1, <2>2, <2>3 DEF TInv, AllOff
<1>4. CASE ~NoMeta(task[p])
  <2>1. task' = [task EXCEPT ![p].step = "leftBefore"] /\ run' = run
    BY <1>4 DEF Merge
  <2>2. "leftBefore" \in Steps
    BY DEF Steps
  <2>3. task' = [task EXCEPT ![p] = [task[p] EXCEPT !.step = "leftBefore", !.err = task[p].err]]
    BY <1>2, <2>1, <2>2, AdvanceIs
  <2>4. TInv' /\ Advances(p, "leftBefore", task[p].err)
    BY <1>1, <1>2, <2>1, <2>2, <2>3, AdvanceTyped
  <2>5. QED
    BY <1>1, <1>4, <2>1, <2>4
<1>5. QED
  BY <1>3, <1>4

\* One half of a merge: nothing is to be written, or the merge stopped already,
\* or the write is refused or fails, or it is done.
NsWritten(p, s, needed, making, C, err) ==
    /\ store' \in [Sides -> Stores]
    /\ \/ UNCHANGED store /\ task[p].err /\ err /\ NoFault
       \/ UNCHANGED store /\ ~needed /\ ~err /\ ~task[p].err /\ NoFault
       \/ /\ UNCHANGED store /\ needed /\ err /\ ~task[p].err
          /\ (RefusesNs(s, p, making) /\ NoFault) \/ Fault("write")
       \/ /\ needed /\ ~err /\ ~task[p].err /\ ~RefusesNs(s, p, making) /\ NoFault
          /\ store' = [store EXCEPT ![s] = PutNs(s, p, C, mergedMtime(task[p]))]

LEMMA WriteNsIs ==
    ASSUME TInv, NEW p \in Paths, NEW s \in Sides, NEW needed \in BOOLEAN, NEW making \in BOOLEAN,
           NEW C \in SUBSET Children(p), NEW next, WriteNs(p, s, needed, making, C, next)
    PROVE  \E err \in BOOLEAN : task' = next[err] /\ NsWritten(p, s, needed, making, C, err)
<1> DEFINE t == task[p]
           new == PutNs(s, p, C, mergedMtime(t))
<1>1. t \in TaskRecords /\ store \in [Sides -> Stores] /\ store[s] \in Stores /\ clock \in Nat
  BY StoresTyped DEF TInv, TypeOK
<1>2. mergedMtime(t) \in Nat
  BY <1>1 DEF mergedMtime, TaskRecords, Entries, Sides
<1>3. new \in Stores
  <2>1. NsPut(s, p, C, mergedMtime(t), new)
    BY <1>1, <1>2, PutNsIs
  <2>2. QED
    BY <2>1 DEF NsPut
<1>4. [store EXCEPT ![s] = store[s]] = store /\ [store EXCEPT ![s] = new] \in [Sides -> Stores]
  BY <1>1, <1>3
<1>5. t.err \in BOOLEAN
  BY <1>1 DEF TaskRecords
<1> HIDE DEF t, new
<1>6. \/ (t.err \/ ~needed) /\ store' = store /\ task' = next[t.err] /\ NoFault
      \/ ~t.err /\ needed /\ RefusesNs(s, p, making) /\ store' = store /\ task' = next[TRUE] /\ NoFault
      \/ /\ ~t.err /\ needed /\ ~RefusesNs(s, p, making) /\ NoFault
         /\ store' = [store EXCEPT ![s] = new] /\ task' = next[FALSE]
      \/ ~t.err /\ needed /\ store' = store /\ task' = next[TRUE] /\ Fault("write")
  BY <1>4 DEF WriteNs, t, new
<1>7. CASE t.err /\ store' = store /\ task' = next[t.err] /\ NoFault
  <2>1. NsWritten(p, s, needed, making, C, TRUE) /\ task' = next[TRUE]
    BY <1>1, <1>5, <1>7 DEF NsWritten, t
  <2>2. QED
    BY <2>1
<1>8. CASE ~t.err /\ ~needed /\ store' = store /\ task' = next[t.err] /\ NoFault
  <2>1. NsWritten(p, s, needed, making, C, FALSE) /\ task' = next[FALSE]
    BY <1>1, <1>5, <1>8 DEF NsWritten, t
  <2>2. QED
    BY <2>1
<1>9. CASE /\ ~t.err /\ needed /\ store' = store /\ task' = next[TRUE]
           /\ (RefusesNs(s, p, making) /\ NoFault) \/ Fault("write")
  <2>1. NsWritten(p, s, needed, making, C, TRUE) /\ task' = next[TRUE]
    BY <1>1, <1>5, <1>9 DEF NsWritten, t
  <2>2. QED
    BY <2>1
<1>10. CASE /\ ~t.err /\ needed /\ ~RefusesNs(s, p, making) /\ NoFault
            /\ store' = [store EXCEPT ![s] = new] /\ task' = next[FALSE]
  <2>1. NsWritten(p, s, needed, making, C, FALSE) /\ task' = next[FALSE]
    BY <1>4, <1>5, <1>10 DEF NsWritten, t, new
  <2>2. QED
    BY <2>1
<1>11. QED
  BY <1>6, <1>7, <1>8, <1>9, <1>10

LEMMA MergedTyped ==
    ASSUME NEW p \in Paths, NEW t \in TaskRecords, TaskedAt(p, t), NEW s \in Sides,
           bidir \in BOOLEAN, keep \in BOOLEAN
    PROVE  /\ exCh(t, s) \in SUBSET Children(p)
           /\ leftAndRight(t) \in SUBSET Children(p)
           /\ MergedBefore(t, s) \in SUBSET Children(p)
           /\ MergedAfter(t, s) \in SUBSET Children(p)
           /\ NeedsBefore(t, s) \in BOOLEAN /\ NeedsAfter(t, s) \in BOOLEAN
           /\ MakesBefore(t, s) \in BOOLEAN /\ MakesAfter(t, s) \in BOOLEAN
<1>1. \A o \in Sides : exCh(t, o) \in SUBSET Children(p)
  BY DEF exCh, TaskedAt
<1>2. "left" \in Sides /\ "right" \in Sides
  BY DEF Sides
<1>3. /\ leftAndRight(t) \in SUBSET Children(p)
      /\ leftMg(t) \in SUBSET Children(p) /\ rightMg(t) \in SUBSET Children(p)
      /\ leftRight(t) \in SUBSET Children(p)
  BY <1>1, <1>2 DEF leftAndRight, leftMg, rightMg, leftRight
<1>4. MergedBefore(t, s) \in SUBSET Children(p) /\ MergedAfter(t, s) \in SUBSET Children(p)
  BY <1>3 DEF MergedBefore, MergedAfter
<1>5. t.exist[s] \in BOOLEAN
  BY DEF TaskRecords
<1>6. Created(t) \in BOOLEAN /\ Updated(t) \in BOOLEAN
  BY DEF Created, Updated
<1>7. NeedsBefore(t, s) \in BOOLEAN
  BY <1>5, <1>6 DEF NeedsBefore
<1>8. NeedsAfter(t, s) \in BOOLEAN
  BY <1>5, <1>6 DEF NeedsAfter
<1>9. MakesBefore(t, s) \in BOOLEAN /\ MakesAfter(t, s) \in BOOLEAN
  BY <1>5 DEF MakesBefore, MakesAfter
<1>10. QED
  BY <1>1, <1>3, <1>4, <1>7, <1>8, <1>9

LEMMA TaskTyped ==
    ASSUME TInv, NEW p \in Paths
    PROVE  task[p] \in TaskRecords /\ TaskedAt(p, task[p]) /\ bidir \in BOOLEAN /\ keep \in BOOLEAN
BY StoresTyped DEF TInv, TypeOK, Tasked

LEMMA HalfMergeTyped ==
    ASSUME TInv, NEW p \in Spaces, UNCHANGED <<runVars, run, reported>>,
           NEW step \in {"rightBefore", "rightAfter", "done"}, NEW err \in BOOLEAN,
           task[p].step \in {"leftBefore", "children", "rightAfter"},
           task' = Advance(p, step)[err], store' \in [Sides -> Stores],
           NoFault \/ Fault("write")
    PROVE  TInv' /\ Advances(p, step, err)
<1>1. p \in Paths /\ step \in Steps
  BY TreeRooted DEF Steps
<1>2. task' = [task EXCEPT ![p] = [task[p] EXCEPT !.step = step, !.err = err]]
  <2>1. Advance(p, step)[err] = [task EXCEPT ![p] = [task[p] EXCEPT !.step = step, !.err = err]]
    <3>1. Advance(p, step)[err] = [task EXCEPT ![p].step = step, ![p].err = err]
      BY DEF Advance
    <3>2. QED
      BY <1>1, <3>1, AdvanceIs
  <2>2. QED
    BY <2>1
<1>3. task[p].unread = {} /\ reported' \in BOOLEAN
  BY <1>1, TaskTyped DEF TaskedAt, TInv, TypeOK
<1>4. UNCHANGED <<runVars, run>>
  OBVIOUS
<1>5. QED
  BY <1>1, <1>2, <1>3, <1>4, AdvanceTyped

LEMMA LeftBeforeIs ==
    ASSUME TInv, NEW p \in Paths, LeftBefore(p)
    PROVE  LET t == task[p]
           IN /\ TInv' /\ UNCHANGED <<runVars, run, reported>>
              /\ p \in Spaces /\ t.step = "leftBefore"
              /\ \E err \in BOOLEAN :
                    /\ Advances(p, "rightBefore", err)
                    /\ NsWritten(p, "left", NeedsBefore(t, "left"), MakesBefore(t, "left"),
                                 MergedBefore(t, "left"), err)
<1> DEFINE t == task[p]
           needed == NeedsBefore(t, "left")
           making == MakesBefore(t, "left")
           C == MergedBefore(t, "left")
           next == Advance(p, "rightBefore")
<1>1. "left" \in Sides /\ t \in TaskRecords /\ TaskedAt(p, t) /\ bidir \in BOOLEAN /\ keep \in BOOLEAN
  BY TaskTyped DEF Sides
<1>2. needed \in BOOLEAN /\ making \in BOOLEAN /\ C \in SUBSET Children(p)
  BY <1>1, MergedTyped
<1>3. t.step = "leftBefore" /\ UNCHANGED <<runVars, run, reported>>
      /\ WriteNs(p, "left", needed, making, C, next)
  BY DEF LeftBefore
<1>4. p \in Spaces
  BY <1>1, <1>3 DEF TaskedAt
<1> HIDE DEF needed, making, C, next
<1>5. PICK err \in BOOLEAN : task' = next[err] /\ NsWritten(p, "left", needed, making, C, err)
  BY <1>1, <1>2, <1>3, WriteNsIs
<1>6. store' \in [Sides -> Stores] /\ (NoFault \/ Fault("write"))
  BY <1>5 DEF NsWritten
<1>7. task' = Advance(p, "rightBefore")[err]
  BY <1>5 DEF next
<1>8. TInv' /\ Advances(p, "rightBefore", err)
  BY <1>3, <1>4, <1>6, <1>7, HalfMergeTyped
<1>9. QED
  BY <1>3, <1>4, <1>5, <1>8 DEF needed, making, C

LEMMA LeftAfterIs ==
    ASSUME TInv, NEW p \in Paths, LeftAfter(p)
    PROVE  LET t == task[p]
           IN /\ TInv' /\ UNCHANGED <<runVars, run, reported>>
              /\ p \in Spaces /\ t.step = "children"
              /\ \A q \in leftAndRight(t) : task[q].step = "done"
              /\ \E err \in BOOLEAN :
                    /\ Advances(p, "rightAfter", err)
                    /\ NsWritten(p, "left", NeedsAfter(t, "left"), MakesAfter(t, "left"),
                                 MergedAfter(t, "left"), err)
<1> DEFINE t == task[p]
           needed == NeedsAfter(t, "left")
           making == MakesAfter(t, "left")
           C == MergedAfter(t, "left")
           next == Advance(p, "rightAfter")
<1>1. "left" \in Sides /\ t \in TaskRecords /\ TaskedAt(p, t) /\ bidir \in BOOLEAN /\ keep \in BOOLEAN
  BY TaskTyped DEF Sides
<1>2. needed \in BOOLEAN /\ making \in BOOLEAN /\ C \in SUBSET Children(p)
  BY <1>1, MergedTyped
<1>3. t.step = "children" /\ UNCHANGED <<runVars, run, reported>>
      /\ WriteNs(p, "left", needed, making, C, next)
      /\ \A q \in leftAndRight(t) : task[q].step = "done"
  BY DEF LeftAfter
<1>4. p \in Spaces
  BY <1>1, <1>3 DEF TaskedAt
<1> HIDE DEF needed, making, C, next
<1>5. PICK err \in BOOLEAN : task' = next[err] /\ NsWritten(p, "left", needed, making, C, err)
  BY <1>1, <1>2, <1>3, WriteNsIs
<1>6. store' \in [Sides -> Stores] /\ (NoFault \/ Fault("write"))
  BY <1>5 DEF NsWritten
<1>7. task' = Advance(p, "rightAfter")[err]
  BY <1>5 DEF next
<1>8. TInv' /\ Advances(p, "rightAfter", err)
  BY <1>3, <1>4, <1>6, <1>7, HalfMergeTyped
<1>9. QED
  BY <1>3, <1>4, <1>5, <1>8 DEF needed, making, C

LEMMA RightAfterIs ==
    ASSUME TInv, NEW p \in Paths, RightAfter(p)
    PROVE  LET t == task[p]
           IN /\ TInv' /\ UNCHANGED <<runVars, run, reported>>
              /\ p \in Spaces /\ t.step = "rightAfter"
              /\ \E err \in BOOLEAN :
                    /\ Advances(p, "done", err)
                    /\ NsWritten(p, "right", NeedsAfter(t, "right"), MakesAfter(t, "right"),
                                 MergedAfter(t, "right"), err)
<1> DEFINE t == task[p]
           needed == NeedsAfter(t, "right")
           making == MakesAfter(t, "right")
           C == MergedAfter(t, "right")
           next == Advance(p, "done")
<1>1. "right" \in Sides /\ t \in TaskRecords /\ TaskedAt(p, t) /\ bidir \in BOOLEAN /\ keep \in BOOLEAN
  BY TaskTyped DEF Sides
<1>2. needed \in BOOLEAN /\ making \in BOOLEAN /\ C \in SUBSET Children(p)
  BY <1>1, MergedTyped
<1>3. t.step = "rightAfter" /\ UNCHANGED <<runVars, run, reported>>
      /\ WriteNs(p, "right", needed, making, C, next)
  BY DEF RightAfter
<1>4. p \in Spaces
  BY <1>1, <1>3 DEF TaskedAt
<1> HIDE DEF needed, making, C, next
<1>5. PICK err \in BOOLEAN : task' = next[err] /\ NsWritten(p, "right", needed, making, C, err)
  BY <1>1, <1>2, <1>3, WriteNsIs
<1>6. store' \in [Sides -> Stores] /\ (NoFault \/ Fault("write"))
  BY <1>5 DEF NsWritten
<1>7. task' = Advance(p, "done")[err]
  BY <1>5 DEF next
<1>8. TInv' /\ Advances(p, "done", err)
  BY <1>3, <1>4, <1>6, <1>7, HalfMergeTyped
<1>9. QED
  BY <1>3, <1>4, <1>5, <1>8 DEF needed, making, C

\* A child task: to be read on the sides that have the child, or done because
\* its namespace failed.
LEMMA TaskIs ==
    ASSUME NEW p \in Paths, NEW exist \in [Sides -> BOOLEAN], NEW err \in BOOLEAN
    PROVE  LET t == Task(exist, err)
           IN /\ t \in TaskRecords /\ TaskedAt(p, t)
              /\ t.step = (IF err THEN "done" ELSE "metas")
              /\ t.exist = exist /\ t.failed = {} /\ t.err = err
              /\ t.meta = [s \in Sides |-> Missing]
              /\ t.unread = (IF err THEN {} ELSE {s \in Sides : exist[s]})
<1> DEFINE t == Task(exist, err)
           step == IF err THEN "done" ELSE "metas"
           unread == IF err THEN {} ELSE {s \in Sides : exist[s]}
<1>1. Missing \in Entries /\ Missing.ch = {}
  BY DEF Missing, Entries, Nothing
<1>2. t = [step |-> step, exist |-> exist, meta |-> [s \in Sides |-> Missing],
           unread |-> unread, failed |-> {}, err |-> err]
  <2>1. t = [Off EXCEPT !.step = step, !.exist = exist, !.unread = unread, !.err = err]
    BY DEF Task
  <2> HIDE DEF t, step, unread
  <2>2. QED
    BY <2>1 DEF Off
<1>3. step \in Steps /\ unread \in SUBSET Sides
  BY DEF Steps
<1>4. step # "metas" => unread = {}
  OBVIOUS
<1>5. step \in {"done", "metas"} /\ unread \subseteq {s \in Sides : exist[s]}
  OBVIOUS
<1>6. t.step = step /\ t.unread = unread /\ t.exist = exist /\ t.failed = {} /\ t.err = err
      /\ t.meta = [s \in Sides |-> Missing]
  BY <1>2
<1>7. t \in TaskRecords
  <2> HIDE DEF step, unread, t
  <2>1. QED
    BY <1>1, <1>2, <1>3 DEF TaskRecords
<1>8. TaskedAt(p, t)
  <2> HIDE DEF step, unread, t
  <2>1. QED
    BY <1>1, <1>4, <1>5, <1>6 DEF TaskedAt
<1>9. QED
  BY <1>6, <1>7, <1>8

\* The children tasks of p start, those of other namespaces stay.
Spawns(p, err) ==
    LET t == task[p]
    IN /\ task'[p].step = "children" /\ task'[p].err = err
       /\ task'[p].exist = t.exist /\ task'[p].meta = t.meta
       /\ task'[p].unread = t.unread /\ task'[p].failed = t.failed
       /\ \A q \in leftAndRight(t) : task'[q] = Task([s \in Sides |-> q \in exCh(t, s)], err)
       /\ \A q \in Paths \ (leftAndRight(t) \union {p}) : task'[q] = task[q]

LEMMA ChildFacts ==
    ASSUME NEW p \in Paths
    PROVE  /\ p \notin Children(p)
           /\ \A q \in Children(p) : q \in Paths \ {Root} /\ Parent[q] = p
<1>1. \A q \in Children(p) : q \in Paths \ {Root} /\ Parent[q] = p
  BY DEF Children
<1>2. p # Root /\ Parent[p] = p => p \in Above[p]
  BY AboveIs
<1>3. QED
  BY <1>1, <1>2, AboveFacts

LEMMA SpawnTyped ==
    ASSUME TInv, NEW p \in Spaces, task[p].step = "rightBefore",
           NEW err \in BOOLEAN, task' = SpawnChildren(p)[err]
    PROVE  task' \in [Paths -> TaskRecords] /\ Tasked' /\ Spawns(p, err)
<1> DEFINE t == task[p]
           r == [t EXCEPT !.step = "children", !.err = err]
           child(q) == Task([s \in Sides |-> q \in exCh(t, s)], err)
           kids == leftAndRight(t)
<1>1. p \in Paths /\ t \in TaskRecords /\ TaskedAt(p, t) /\ bidir \in BOOLEAN /\ keep \in BOOLEAN
  BY TaskTyped, TreeRooted
<1>2. kids \in SUBSET Children(p)
  BY <1>1, MergedTyped DEF Sides
<1>3. kids \subseteq Paths \ {p}
  BY <1>1, <1>2, ChildFacts
<1>4. r \in TaskRecords
  BY <1>1 DEF TaskRecords, Steps
<1>5. /\ r.step = "children" /\ r.err = err /\ r.exist = t.exist /\ r.meta = t.meta
      /\ r.unread = t.unread /\ r.failed = t.failed
  BY <1>1 DEF TaskRecords
<1>6. TaskedAt(p, r)
  <2> HIDE DEF r
  <2>1. QED
    BY <1>1, <1>5 DEF TaskedAt
<1>7. ASSUME NEW q \in kids PROVE child(q) \in TaskRecords /\ TaskedAt(q, child(q))
  <2>1. [s \in Sides |-> q \in exCh(t, s)] \in [Sides -> BOOLEAN] /\ q \in Paths
    BY <1>3, <1>7
  <2>2. QED
    BY <2>1, TaskIs
<1>8. task' = [q \in Paths |-> IF q = p THEN r ELSE IF q \in kids THEN child(q) ELSE task[q]]
  BY DEF SpawnChildren
<1>9. \A q \in Paths : task[q] \in TaskRecords /\ TaskedAt(q, task[q])
  BY TaskTyped
<1> HIDE DEF r, child, kids
<1>10. task'[p] = r /\ \A q \in kids : task'[q] = child(q)
  BY <1>1, <1>3, <1>8
<1>11. \A q \in Paths \ (kids \union {p}) : task'[q] = task[q]
  BY <1>8
<1>12. \A q \in Paths : task'[q] \in TaskRecords /\ TaskedAt(q, task'[q])
  BY <1>4, <1>6, <1>7, <1>9, <1>10, <1>11
<1>13. task' \in [Paths -> TaskRecords]
  BY <1>8, <1>12
<1>14. Tasked'
  BY <1>12 DEF Tasked, TaskedAt
<1>15. Spawns(p, err)
  BY <1>5, <1>10, <1>11 DEF Spawns, kids, child
<1>16. QED
  BY <1>13, <1>14, <1>15

LEMMA RightBeforeIs ==
    ASSUME TInv, NEW p \in Paths, RightBefore(p)
    PROVE  LET t == task[p]
           IN /\ TInv' /\ UNCHANGED <<runVars, run>>
              /\ p \in Spaces /\ t.step = "rightBefore"
              /\ \E err \in BOOLEAN :
                    /\ Spawns(p, err)
                    /\ NsWritten(p, "right", NeedsBefore(t, "right"), MakesBefore(t, "right"),
                                 MergedBefore(t, "right"), err)
                    /\ reported' = (reported \/ (leftAndRight(t) # {} /\ err))
<1> DEFINE t == task[p]
           needed == NeedsBefore(t, "right")
           making == MakesBefore(t, "right")
           C == MergedBefore(t, "right")
           next == SpawnChildren(p)
<1>1. "right" \in Sides /\ t \in TaskRecords /\ TaskedAt(p, t) /\ bidir \in BOOLEAN /\ keep \in BOOLEAN
  BY TaskTyped DEF Sides
<1>2. needed \in BOOLEAN /\ making \in BOOLEAN /\ C \in SUBSET Children(p)
  BY <1>1, MergedTyped
<1>3. t.step = "rightBefore" /\ UNCHANGED <<runVars, run>>
      /\ WriteNs(p, "right", needed, making, C, next)
      /\ reported' = (reported \/ (leftAndRight(t) # {} /\ task'[p].err))
  BY DEF RightBefore
<1>4. p \in Spaces
  BY <1>1, <1>3 DEF TaskedAt
<1> HIDE DEF needed, making, C, next
<1>5. PICK err \in BOOLEAN : task' = next[err] /\ NsWritten(p, "right", needed, making, C, err)
  BY <1>1, <1>2, <1>3, WriteNsIs
<1>6. store' \in [Sides -> Stores] /\ (NoFault \/ Fault("write"))
  BY <1>5 DEF NsWritten
<1>7. task' = SpawnChildren(p)[err]
  BY <1>5 DEF next
<1>8. task' \in [Paths -> TaskRecords] /\ Tasked' /\ Spawns(p, err)
  BY <1>3, <1>4, <1>7, SpawnTyped
<1>9. task'[p].err = err
  BY <1>8 DEF Spawns
<1>10. UNCHANGED <<runVars, run>> /\ UNCHANGED runVars
  BY <1>3
<1>11. reported' \in BOOLEAN /\ run' = "syncing"
  BY <1>3, <1>10, Running DEF TInv, TypeOK
<1>12. TypeOK'
  BY <1>6, <1>8, <1>10, <1>11, StepTyped DEF TInv
<1>13. TInv'
  BY <1>8, <1>12 DEF TInv
<1>14. reported' = (reported \/ (leftAndRight(t) # {} /\ err))
  BY <1>3, <1>9
<1>15. QED
  BY <1>3, <1>4, <1>5, <1>8, <1>10, <1>13, <1>14 DEF needed, making, C

LEMMA OriginTyped ==
    ASSUME NEW t
    PROVE  /\ Origin(t) \in Sides /\ Target(t) \in Sides /\ Origin(t) # Target(t)
           /\ Sides = {Origin(t), Target(t)}
BY DEF Origin, Target, Other, Sides

LEMMA EndsIs ==
    ASSUME TInv, NEW p \in Paths, NEW err \in BOOLEAN, Ends(p, err),
           task[p].step # "off", task[p].unread = {},
           UNCHANGED <<runVars, run>>, store' \in [Sides -> Stores],
           NEW f \in {"read", "write", "copy", "crash"}, NoFault \/ Fault(f) \/ Misreads
    PROVE  TInv' /\ Advances(p, "done", err) /\ reported' = (reported \/ err)
<1>1. task' = [task EXCEPT ![p].step = "done", ![p].err = err] /\ reported' = (reported \/ err)
  BY DEF Ends
<1>2. "done" \in Steps /\ reported' \in BOOLEAN
  BY <1>1 DEF Steps, TInv, TypeOK
<1>3. task' = [task EXCEPT ![p] = [task[p] EXCEPT !.step = "done", !.err = err]]
  BY <1>1, <1>2, AdvanceIs
<1>4. TInv' /\ Advances(p, "done", err)
  BY <1>2, <1>3, AdvanceTyped
<1>5. QED
  BY <1>1, <1>4

LEMMA SkipContentIs ==
    ASSUME TInv, NEW p \in Paths, SkipContent(p)
    PROVE  /\ TInv' /\ UNCHANGED <<runVars, run, store, reported>> /\ NoFault
           /\ CopyReady(p) /\ ~Created(task[p]) /\ ~Updated(task[p])
           /\ Advances(p, "done", FALSE)
<1>1. /\ UNCHANGED <<runVars, run>> /\ UNCHANGED store /\ NoFault
      /\ task[p].step # "off" /\ task[p].unread = {} /\ Ends(p, FALSE)
      /\ CopyReady(p) /\ ~Created(task[p]) /\ ~Updated(task[p])
  BY DEF SkipContent, NoFault, CopyReady, Evaluated
<1>2. store' \in [Sides -> Stores]
  BY <1>1, StoresTyped DEF TInv
<1>3. TInv' /\ Advances(p, "done", FALSE) /\ reported' = (reported \/ FALSE)
  BY <1>1, <1>2, EndsIs
<1>4. reported' = reported
  BY <1>3 DEF TInv, TypeOK
<1>5. QED
  BY <1>1, <1>3, <1>4

LEMMA OpenedTyped ==
    ASSUME TInv, NEW p \in Paths \ Spaces, NEW s \in Sides
    PROVE  Opened(s, p) \in Stores
<1>1. store[s] \in Stores /\ clock \in Nat
  BY StoresTyped DEF TInv, TypeOK
<1>2. Now \in Nat /\ Empty \in Nat
  BY <1>1 DEF Now, Empty
<1>3. PutContent(s, p, Now, Empty) \in Stores
  <2>1. ContentPut(s, p, Now, Empty, PutContent(s, p, Now, Empty))
    BY <1>1, <1>2, PutContentIs
  <2>2. QED
    BY <2>1 DEF ContentPut
<1>4. QED
  BY <1>1, <1>3 DEF Opened

LEMMA StepIs ==
    ASSUME TInv, NEW p \in Paths, NEW step, task' = [task EXCEPT ![p].step = step]
    PROVE  task' = [task EXCEPT ![p] = [task[p] EXCEPT !.step = step, !.err = task[p].err]]
<1>1. [task[p] EXCEPT !.step = step] = [task[p] EXCEPT !.step = step, !.err = task[p].err]
  BY TaskTyped DEF TaskRecords
<1>2. QED
  BY <1>1

LEMMA OpenContentIs ==
    ASSUME TInv, NEW p \in Paths, OpenContent(p)
    PROVE  LET t == task[p]
               stuck == Unreadable(Origin(t), p) \/ RefusesContent(Target(t), p)
           IN /\ TInv' /\ UNCHANGED <<runVars, run>>
              /\ store' \in [Sides -> Stores]
              /\ CopyReady(p) /\ (Created(t) \/ Updated(t))
              /\ \/ /\ (stuck /\ NoFault) \/ Fault("read") \/ Fault("write")
                    /\ Advances(p, "done", TRUE) /\ UNCHANGED store /\ reported'
                 \/ /\ ~stuck /\ NoFault
                    /\ Advances(p, "fill", t.err) /\ UNCHANGED reported
                    /\ store' = [store EXCEPT ![Target(t)] = Opened(Target(t), p)]
<1> DEFINE t == task[p]
           stuck == Unreadable(Origin(t), p) \/ RefusesContent(Target(t), p)
<1>1. /\ UNCHANGED <<runVars, run>>
      /\ task[p].step # "off" /\ task[p].unread = {} /\ p \notin Spaces
      /\ CopyReady(p) /\ (Created(t) \/ Updated(t))
  BY DEF OpenContent, CopyReady, Evaluated
<1>2. store \in [Sides -> Stores] /\ t.err \in BOOLEAN /\ reported \in BOOLEAN
  BY StoresTyped, TaskTyped DEF TInv, TypeOK, TaskRecords
<1>3. CASE /\ (stuck /\ NoFault) \/ Fault("read") \/ Fault("write")
           /\ Ends(p, TRUE) /\ store' = store
  <2>1. TInv' /\ Advances(p, "done", TRUE) /\ reported' = (reported \/ TRUE)
    BY <1>1, <1>2, <1>3, EndsIs
  <2>2. QED
    BY <1>1, <1>2, <1>3, <2>1
<1>4. CASE /\ ~stuck /\ NoFault
           /\ task' = [task EXCEPT ![p].step = "fill"] /\ reported' = reported
           /\ store' = [store EXCEPT ![Target(t)] = Opened(Target(t), p)]
  <2>2. Target(t) \in Sides /\ Opened(Target(t), p) \in Stores
    BY <1>1, OriginTyped, OpenedTyped
  <2>3. store' \in [Sides -> Stores]
    BY <1>2, <1>4, <2>2
  <2>4. "fill" \in Steps
    BY DEF Steps
  <2>5. task' = [task EXCEPT ![p] = [task[p] EXCEPT !.step = "fill", !.err = t.err]]
    BY <1>4, StepIs
  <2>6. TInv' /\ Advances(p, "fill", t.err)
    <3> DEFINE err == t.err
    <3>1. task' = [task EXCEPT ![p] = [task[p] EXCEPT !.step = "fill", !.err = err]]
      BY <2>5
    <3>2. err \in BOOLEAN /\ reported' \in BOOLEAN /\ UNCHANGED <<runVars, run>> /\ NoFault
      BY <1>1, <1>2, <1>4
    <3> HIDE DEF err, stuck
    <3>3. TInv' /\ Advances(p, "fill", err)
      BY <1>1, <2>3, <2>4, <3>1, <3>2, AdvanceTyped
    <3>4. QED
      BY <3>3 DEF err
  <2>7. QED
    BY <1>1, <1>4, <2>3, <2>6
<1>5. QED
  <2> HIDE DEF t
  <2>1. \/ /\ ~stuck /\ NoFault
           /\ task' = [task EXCEPT ![p].step = "fill"] /\ reported' = reported
           /\ store' = [store EXCEPT ![Target(t)] = Opened(Target(t), p)]
        \/ /\ (stuck /\ NoFault) \/ Fault("read") \/ Fault("write")
           /\ Ends(p, TRUE) /\ store' = store
    BY DEF OpenContent, t
  <2>2. QED
    BY <1>3, <1>4, <2>1 DEF t

\* What Close leaves.
Closed(p, d) ==
    LET t == task[p]
        meta == t.meta[Origin(t)]
    IN /\ store' = [store EXCEPT ![Target(t)] = PutContent(Target(t), p, meta.mtime, d)]
       /\ Advances(p, "done", Differs(d, meta))
       /\ reported' = (reported \/ Differs(d, meta))

\* What a Close that fails leaves.
CloseFailed(p) ==
    LET t == task[p]
    IN /\ store' = [store EXCEPT ![Target(t)] =
                        IF kind[Target(t)] = "object" THEN @ ELSE RemoveFile(Target(t), p)]
       /\ Advances(p, "done", TRUE)
       /\ reported'

LEMMA CloseFailedIs ==
    ASSUME TInv, NEW p \in Paths \ Spaces, task[p].step = "fill", Ends(p, TRUE),
           store' = [store EXCEPT ![Target(task[p])] =
                        IF kind[Target(task[p])] = "object" THEN @ ELSE RemoveFile(Target(task[p]), p)],
           UNCHANGED <<runVars, run>>, Fault("write")
    PROVE  TInv' /\ CloseFailed(p) /\ store' \in [Sides -> Stores]
<1> DEFINE T == Target(task[p])
           new == IF kind[T] = "object" THEN store[T] ELSE RemoveFile(T, p)
<1>1. T \in Sides /\ task[p].unread = {}
  BY OriginTyped, TaskTyped DEF TaskedAt
<1>2. store \in [Sides -> Stores] /\ store[T] \in Stores /\ clock \in Nat
  BY <1>1, StoresTyped DEF TInv, TypeOK
<1>3. RemoveFile(T, p) \in Stores
  <2>1. FileGone(T, p, RemoveFile(T, p))
    BY <1>1, <1>2, RemoveFileIs
  <2>2. QED
    BY <2>1 DEF FileGone
<1>4. store' = [store EXCEPT ![T] = new] /\ new \in Stores
  BY <1>2, <1>3
<1> HIDE DEF new
<1>5. store' \in [Sides -> Stores]
  BY <1>2, <1>4
<1>6. TInv' /\ Advances(p, "done", TRUE) /\ reported' = (reported \/ TRUE)
  BY <1>1, <1>5, EndsIs
<1>7. QED
  BY <1>5, <1>6 DEF CloseFailed

LEMMA CloseIs ==
    ASSUME TInv, NEW p \in Paths \ Spaces, NEW d \in Nat, Close(p, d),
           task[p].step = "fill", UNCHANGED <<runVars, run>>, NoFault \/ Fault("copy")
    PROVE  TInv' /\ Closed(p, d) /\ store' \in [Sides -> Stores]
<1> DEFINE t == task[p]
           meta == t.meta[Origin(t)]
           new == PutContent(Target(t), p, meta.mtime, d)
<1>1. store' = [store EXCEPT ![Target(t)] = new] /\ Ends(p, Differs(d, meta))
  BY DEF Close
<1>2. Target(t) \in Sides /\ Origin(t) \in Sides
  BY OriginTyped
<1>3. t \in TaskRecords /\ t.unread = {}
  BY TaskTyped DEF TaskedAt
<1>4. meta \in Entries
  BY <1>2, <1>3 DEF TaskRecords
<1>5. meta.mtime \in Nat
  BY <1>4 DEF Entries
<1>6. store \in [Sides -> Stores] /\ store[Target(t)] \in Stores /\ clock \in Nat
  BY <1>2, StoresTyped, SMTT(40) DEF TInv, TypeOK
<1>7. new \in Stores
  <2>1. ContentPut(Target(t), p, meta.mtime, d, new)
    BY <1>2, <1>5, <1>6, PutContentIs
  <2>2. QED
    BY <2>1 DEF ContentPut
<1>8. store' \in [Sides -> Stores]
  BY <1>1, <1>6, <1>7
<1> DEFINE err == Differs(d, meta)
<1>9. err \in BOOLEAN /\ Ends(p, err)
  BY <1>1 DEF Differs
<1> HIDE DEF err
<1>10. TInv' /\ Advances(p, "done", err) /\ reported' = (reported \/ err)
  BY <1>3, <1>8, <1>9, EndsIs
<1>11. QED
  BY <1>1, <1>8, <1>10 DEF Closed, err

\* An object store is left as it was, a file system without the file.
LEMMA CloseFailedStore ==
    ASSUME TInv, NEW p \in Paths \ Spaces, CloseFailed(p)
    PROVE  LET T == Target(task[p])
           IN \/ kind[T] = "object" /\ UNCHANGED store
              \/ /\ kind[T] = "fsy" /\ FileGone(T, p, store'[T])
                 /\ \A r \in Sides \ {T} : store'[r] = store[r]
<1> DEFINE T == Target(task[p])
<1>1. T \in Sides /\ store[T] \in Stores /\ clock \in Nat /\ kind[T] \in {"fsy", "object"}
  BY OriginTyped, StoresTyped DEF TInv, TypeOK
<1> HIDE DEF T
<1>2. CASE kind[T] = "object"
  <2>1. store' = [store EXCEPT ![T] = store[T]]
    BY <1>2 DEF CloseFailed, T
  <2>2. UNCHANGED store
    BY <1>1, <2>1, StoresTyped DEF TInv
  <2>3. QED
    BY <1>2, <2>2 DEF T
<1>3. CASE kind[T] # "object"
  <2> DEFINE new == RemoveFile(T, p)
  <2>1. store' = [store EXCEPT ![T] = new]
    BY <1>3 DEF CloseFailed, T
  <2>2. FileGone(T, p, new)
    BY <1>1, RemoveFileIs
  <2> HIDE DEF new
  <2>3. new \in Stores
    BY <2>2 DEF FileGone
  <2>4. store'[T] = new /\ \A r \in Sides \ {T} : store'[r] = store[r]
    BY <1>1, <2>1, <2>3, StoreSet DEF TInv
  <2>5. QED
    BY <1>1, <1>3, <2>2, <2>4 DEF T
<1>4. QED
  BY <1>2, <1>3

LEMMA FillContentIs ==
    ASSUME TInv, NEW p \in Paths, FillContent(p)
    PROVE  LET t == task[p]
               meta == t.meta[Origin(t)]
           IN /\ TInv' /\ UNCHANGED <<runVars, run>>
              /\ store' \in [Sides -> Stores]
              /\ p \notin Spaces /\ t.step = "fill"
              /\ \/ /\ RefusesContent(Target(t), p) /\ NoFault
                    /\ Advances(p, "done", TRUE) /\ UNCHANGED store /\ reported'
                 \/ /\ ~RefusesContent(Target(t), p)
                    /\ \/ Unreadable(Origin(t), p) /\ Closed(p, meta.data) /\ NoFault
                       \/ /\ ~Unreadable(Origin(t), p) /\ NoFault
                          /\ Closed(p, store[Origin(t)][p].data)
                       \/ Closed(p, Torn) /\ Fault("copy")
                       \/ CloseFailed(p) /\ Fault("write")
<1> DEFINE t == task[p]
           meta == t.meta[Origin(t)]
           src == store[Origin(t)][p]
<1>1. UNCHANGED <<runVars, run>> /\ t.step = "fill"
  BY DEF FillContent
<1>2. p \in Paths \ Spaces /\ t.unread = {} /\ t.step # "off" /\ t \in TaskRecords
  BY <1>1, TaskTyped DEF TaskedAt
<1>3. Target(t) \in Sides /\ Origin(t) \in Sides
  BY OriginTyped
<1>4. store \in [Sides -> Stores]
  BY StoresTyped DEF TInv
<1>5. meta \in Entries /\ src \in Entries
  BY <1>2, <1>3, <1>4 DEF TaskRecords, Stores
<1>6. meta.data \in Nat /\ src.data \in Nat /\ Torn \in Nat
  BY <1>5 DEF Entries, Torn
<1>7. CASE RefusesContent(Target(t), p)
  <2>1. Ends(p, TRUE) /\ UNCHANGED store /\ NoFault
    BY <1>7 DEF FillContent
  <2>2. store' \in [Sides -> Stores]
    BY <1>4, <2>1
  <2>3. TInv' /\ Advances(p, "done", TRUE) /\ reported' = (reported \/ TRUE)
    BY <1>1, <1>2, <2>1, <2>2, EndsIs
  <2>4. QED
    BY <1>1, <1>2, <1>7, <2>1, <2>2, <2>3
<1>8. CASE ~RefusesContent(Target(t), p)
  <2>1. \/ /\ Close(p, IF Unreadable(Origin(t), p) THEN meta.data ELSE src.data) /\ NoFault
        \/ Close(p, Torn) /\ Fault("copy")
        \/ /\ Ends(p, TRUE) /\ Fault("write")
           /\ store' = [store EXCEPT ![Target(t)] =
                          IF kind[Target(t)] = "object" THEN @ ELSE RemoveFile(Target(t), p)]
    <3> HIDE DEF t, meta, src
    <3>1. QED
      BY <1>8 DEF FillContent, t, meta, src
  <2>2. CASE Unreadable(Origin(t), p) /\ Close(p, meta.data) /\ NoFault
    <3>1. TInv' /\ Closed(p, meta.data) /\ store' \in [Sides -> Stores]
      BY <1>1, <1>2, <1>6, <2>2, CloseIs
    <3>2. QED
      BY <1>1, <1>2, <1>8, <2>2, <3>1
  <2>3. CASE ~Unreadable(Origin(t), p) /\ Close(p, src.data) /\ NoFault
    <3>1. TInv' /\ Closed(p, src.data) /\ store' \in [Sides -> Stores]
      BY <1>1, <1>2, <1>6, <2>3, CloseIs
    <3>2. QED
      BY <1>1, <1>2, <1>8, <2>3, <3>1
  <2>4. CASE Close(p, Torn) /\ Fault("copy")
    <3>1. TInv' /\ Closed(p, Torn) /\ store' \in [Sides -> Stores]
      BY <1>1, <1>2, <1>6, <2>4, CloseIs
    <3>2. QED
      BY <1>1, <1>2, <1>8, <2>4, <3>1
  <2>5. CASE /\ Ends(p, TRUE) /\ Fault("write")
             /\ store' = [store EXCEPT ![Target(t)] =
                            IF kind[Target(t)] = "object" THEN @ ELSE RemoveFile(Target(t), p)]
    <3>1. TInv' /\ CloseFailed(p) /\ store' \in [Sides -> Stores]
      BY <1>1, <1>2, <2>5, CloseFailedIs
    <3>2. QED
      BY <1>1, <1>2, <1>8, <2>5, <3>1
  <2>6. QED
    BY <2>1, <2>2, <2>3, <2>4, <2>5
<1>9. QED
  BY <1>7, <1>8

-----------------------------------------------------------------------------
(* Runs begin and end, users edit: the types hold *)

LEMMA BeginRunIs ==
    ASSUME TInv, BeginRun
    PROVE  /\ TInv'
           /\ run # "syncing" /\ run' = "syncing" /\ upset' = {} /\ before' = store
           /\ UNCHANGED <<options, store, clock, faults, insync, misread, written>>
           /\ task'[Root] = Task([s \in Sides |-> TRUE], FALSE)
           /\ \A p \in Paths \ {Root} : task'[p] = Off
<1> DEFINE r == Task([s \in Sides |-> TRUE], FALSE)
<1>1. /\ run # "syncing" /\ run' = "syncing" /\ upset' = {} /\ before' = store /\ reported' = FALSE
      /\ UNCHANGED <<options, store, clock, faults, insync, misread, written>>
      /\ task' = [task EXCEPT ![Root] = r]
  BY DEF BeginRun
<1>2. Root \in Paths
  BY TreeRooted
<1>3. r \in TaskRecords /\ TaskedAt(Root, r)
  <2>1. [s \in Sides |-> TRUE] \in [Sides -> BOOLEAN] /\ FALSE \in BOOLEAN
    OBVIOUS
  <2>2. QED
    BY <1>2, <2>1, TaskIs
<1> HIDE DEF r
<1>4. /\ task' \in [Paths -> TaskRecords] /\ task'[Root] = r /\ Tasked'
      /\ \A q \in Paths \ {Root} : task'[q] = task[q]
  BY <1>1, <1>2, <1>3, TaskSet
<1>5. \A q \in Paths : task[q] = Off
  BY <1>1 DEF TInv, TypeOK
<1>6. TypeOK'
  <2>1. /\ kind' \in [Sides -> {"fsy", "object"}]
        /\ bidir' \in BOOLEAN /\ keep' \in BOOLEAN /\ busy' \in BOOLEAN
        /\ clock' \in Nat /\ before' \in [Sides -> [Paths -> Entries]] /\ written' \in [Paths -> Nat]
        /\ store' \in [Sides -> [Paths -> Entries]]
        /\ faults' \subseteq FaultKinds /\ insync' \in BOOLEAN /\ misread' \in SUBSET Paths
        /\ \A s \in Sides, p \in Paths : store'[s][p].ch \subseteq Children(p)
    BY <1>1 DEF TInv, TypeOK, options
  <2>2. QED
    BY <1>1, <1>4, <2>1 DEF TypeOK, TaskRecords
<1>7. QED
  BY <1>1, <1>4, <1>5, <1>6 DEF TInv, r

LEMMA EndedTyped ==
    ASSUME TInv, UNCHANGED <<options, store, clock, before, misread, written>>, AllOff,
           faults' \subseteq faults, upset' \subseteq FaultKinds \union {"edit"},
           reported' \in BOOLEAN, insync' \in BOOLEAN, run' \in {"finished", "failed"}
    PROVE  TInv'
<1>1. task' \in [Paths -> TaskRecords] /\ Tasked'
  <2>1. \A q \in Paths : task'[q] = Off
    BY DEF AllOff
  <2>2. \A q \in Paths : TaskedAt(q, task'[q])
    BY <2>1, OffTyped
  <2>3. QED
    BY <2>2, OffTyped DEF Tasked, TaskedAt, AllOff
<1>2. /\ kind' \in [Sides -> {"fsy", "object"}]
      /\ bidir' \in BOOLEAN /\ keep' \in BOOLEAN /\ busy' \in BOOLEAN
      /\ clock' \in Nat /\ before' \in [Sides -> [Paths -> Entries]] /\ written' \in [Paths -> Nat]
      /\ store' \in [Sides -> [Paths -> Entries]]
      /\ faults' \subseteq FaultKinds /\ misread' \in SUBSET Paths
      /\ \A s \in Sides, p \in Paths : store'[s][p].ch \subseteq Children(p)
  BY DEF TInv, TypeOK, options
<1>3. TypeOK'
  BY <1>1, <1>2 DEF TypeOK, TaskRecords, AllOff
<1>4. QED
  BY <1>1, <1>3 DEF TInv

LEMMA EndRunIs ==
    ASSUME TInv, EndRun
    PROVE  /\ TInv' /\ AllOff /\ task[Root].step = "done" /\ run' = "finished"
           /\ UNCHANGED <<options, store, clock, faults, before, upset, reported, misread, written>>
<1>1. /\ AllOff /\ task[Root].step = "done" /\ run' = "finished"
      /\ UNCHANGED <<options, store, clock, faults, before, upset, reported, misread, written>>
      /\ insync' \in BOOLEAN
  BY DEF EndRun, AllOff
<1>2. /\ reported' \in BOOLEAN /\ faults' \subseteq faults
      /\ upset' \subseteq FaultKinds \union {"edit"}
  BY <1>1 DEF TInv, TypeOK
<1>3. TInv'
  BY <1>1, <1>2, EndedTyped
<1>4. QED
  BY <1>1, <1>3

LEMMA CrashIs ==
    ASSUME TInv, Crash
    PROVE  /\ TInv' /\ AllOff /\ run = "syncing" /\ run' = "failed" /\ Fault("crash")
           /\ UNCHANGED <<runVars, store, reported>>
<1>1. /\ AllOff /\ run = "syncing" /\ run' = "failed" /\ Fault("crash")
      /\ UNCHANGED <<runVars, store, reported>>
  BY DEF Crash, AllOff
<1>2. /\ faults' \subseteq faults /\ insync' \in BOOLEAN
      /\ upset' \subseteq FaultKinds \union {"edit"}
  BY <1>1, FaultIs DEF TInv
<1>3. UNCHANGED <<options, store, clock, before, misread, written>> /\ reported' \in BOOLEAN
  BY <1>1 DEF TInv, TypeOK, runVars, Fault
<1>4. TInv'
  BY <1>1, <1>2, <1>3, EndedTyped
<1>5. QED
  BY <1>1, <1>4

\* What an edit does beside the store.
EditEffect(s, p, data) ==
    /\ Editable
    /\ written' = IF ~bidir /\ s = "right" THEN written
                  ELSE [q \in Paths |-> IF q = p THEN data
                                        ELSE IF p \in Above[q] THEN 0 ELSE written[q]]
    /\ clock' = clock + 2
    /\ upset' = upset \union {"edit"}
    /\ run' = (IF run = "syncing" THEN run ELSE "idle")
    /\ before' = (IF run = "syncing" THEN before ELSE store')
    /\ UNCHANGED <<options, task, faults, reported, misread>>
    /\ \A r \in Sides \ {s} : store'[r] = store[r]
    /\ store' \in [Sides -> Stores]

LEMMA EditedTyped ==
    ASSUME TInv, NEW s \in Sides, NEW st \in Stores, NEW p \in Paths, NEW data \in Nat,
           Editable, Edited(s, st, p, data)
    PROVE  TInv' /\ EditEffect(s, p, data) /\ store'[s] = st
<1>1. /\ store' = [store EXCEPT ![s] = st]
      /\ written' = IF ~bidir /\ s = "right" THEN written
                    ELSE [q \in Paths |-> IF q = p THEN data
                                          ELSE IF p \in Above[q] THEN 0 ELSE written[q]]
      /\ clock' = clock + 2 /\ upset' = upset \union {"edit"} /\ insync' = FALSE
      /\ run' = (IF run = "syncing" THEN run ELSE "idle")
      /\ before' = (IF run = "syncing" THEN before ELSE store')
      /\ UNCHANGED <<options, task, faults, reported, misread>>
  BY DEF Edited
<1>2. store' \in [Sides -> Stores] /\ store'[s] = st /\ \A r \in Sides \ {s} : store'[r] = store[r]
  BY <1>1, StoreSet DEF TInv
<1>3. written' \in [Paths -> Nat]
  BY <1>1 DEF TInv, TypeOK
<1>4. /\ store' \in [Sides -> [Paths -> Entries]]
      /\ \A r \in Sides, q \in Paths : store'[r][q].ch \subseteq Children(q)
  BY <1>2 DEF Stores
<1>5. before' \in [Sides -> [Paths -> Entries]]
  BY <1>1, <1>4 DEF TInv, TypeOK
<1>6. /\ kind' \in [Sides -> {"fsy", "object"}]
      /\ bidir' \in BOOLEAN /\ keep' \in BOOLEAN /\ busy' \in BOOLEAN
      /\ clock' \in Nat /\ faults' \subseteq FaultKinds
      /\ upset' \subseteq FaultKinds \union {"edit"}
      /\ reported' \in BOOLEAN /\ insync' \in BOOLEAN /\ misread' \in SUBSET Paths
      /\ run' \in {"idle", "syncing", "finished", "failed"}
      /\ run' # "syncing" => run # "syncing"
  <2>1. /\ kind' \in [Sides -> {"fsy", "object"}]
        /\ bidir' \in BOOLEAN /\ keep' \in BOOLEAN /\ busy' \in BOOLEAN
        /\ faults' \subseteq FaultKinds /\ reported' \in BOOLEAN /\ misread' \in SUBSET Paths
    BY <1>1 DEF TInv, TypeOK, options
  <2>2. upset' \subseteq FaultKinds \union {"edit"} /\ insync' \in BOOLEAN
    BY <1>1 DEF TInv, TypeOK
  <2>3. clock' \in Nat
    BY <1>1 DEF TInv, TypeOK
  <2>4. /\ run' \in {"idle", "syncing", "finished", "failed"}
        /\ run' # "syncing" => run # "syncing"
    BY <1>1 DEF TInv, TypeOK
  <2>5. QED
    BY <2>1, <2>2, <2>3, <2>4
<1>7. task' = task
  BY <1>1
<1>8. TypeOK'
  BY <1>3, <1>4, <1>5, <1>6, <1>7 DEF TInv, TypeOK
<1>9. Tasked'
  BY <1>7 DEF TInv, Tasked, TaskedAt
<1>10. QED
  BY <1>1, <1>2, <1>8, <1>9 DEF TInv, EditEffect

LEMMA ParentIs ==
    ASSUME NEW p \in Paths \ {Root}
    PROVE  /\ Parent[p] \in Paths /\ Parent[p] \in Spaces /\ Parent[p] # p
           /\ Above[p] = Line(Parent[p]) /\ p \in Children(Parent[p])
<1>1. Parent[p] \in Paths /\ Parent[p] \in Spaces
  BY TreeRooted, TreeParents
<1>2. Above[p] = Line(Parent[p])
  BY AboveIs DEF Line
<1>3. Parent[p] \in Above[p] /\ p \notin Above[p]
  BY <1>2, AboveFacts DEF Line
<1>4. QED
  BY <1>1, <1>2, <1>3 DEF Children

\* The namespace of an edited entry, with p among its children or not.
LEMMA RelistedIs ==
    ASSUME TInv, NEW s \in Sides, NEW p \in Paths \ {Root}, NEW C \in SUBSET Children(Parent[p])
    PROVE  LET st == Relisted(s, p, C)
           IN /\ st \in Stores /\ Parent[p] \in Paths
              /\ st[Parent[p]].ch = C
              /\ \A q \in Paths \ {Parent[p]} : st[q] = store[s][q]
<1> DEFINE dir == [mtime |-> clock + 2, data |-> Empty, ch |-> C]
           st == Relisted(s, p, C)
<1>1. st = [store[s] EXCEPT ![Parent[p]] = dir]
  BY DEF Relisted
<1>2. Parent[p] \in Paths /\ store[s] \in Stores /\ clock \in Nat
  BY TreeRooted, TreeParents, StoresTyped DEF TInv, TypeOK
<1>3. dir \in Entries
  BY <1>2, ChildFacts DEF Entries, Empty
<1>4. store[s] \in [Paths -> Entries] /\ dir.ch = C
  BY <1>2 DEF Stores
<1> HIDE DEF dir, st
<1>5. st[Parent[p]] = dir /\ \A q \in Paths \ {Parent[p]} : st[q] = store[s][q]
  BY <1>1, <1>2, <1>4
<1>6. st \in [Paths -> Entries]
  BY <1>1, <1>3, <1>4
<1>7. \A q \in Paths : st[q].ch \subseteq Children(q)
  BY <1>2, <1>4, <1>5 DEF Stores
<1>8. QED
  BY <1>2, <1>4, <1>5, <1>6, <1>7 DEF Stores, st

LEMMA EditEntryIs ==
    ASSUME TInv, NEW s \in Sides, NEW p \in Paths \ {Root}, EditEntry(s, p)
    PROVE  /\ TInv' /\ EditEffect(s, p, IF p \in Spaces THEN 0 ELSE clock + 2)
           /\ Listed(store[s], Parent[p]) /\ Parent[p] \in Paths \ {p}
           /\ p \in Spaces => p \notin store[s][Parent[p]].ch
           /\ store'[s][p] = [mtime |-> clock + 2, ch |-> {},
                              data |-> IF p \in Spaces THEN Empty ELSE clock + 2]
           /\ store'[s][Parent[p]].ch = store[s][Parent[p]].ch \union {p}
           /\ \A q \in Paths \ {p, Parent[p]} : store'[s][q] = store[s][q]
<1> DEFINE st == store[s]
           dir == st[Parent[p]]
           entry == [mtime |-> clock + 2, ch |-> {},
                     data |-> IF p \in Spaces THEN Empty ELSE clock + 2]
           base == IF p \in dir.ch THEN st ELSE Relisted(s, p, dir.ch \union {p})
           new == [base EXCEPT ![p] = entry]
           data == IF p \in Spaces THEN 0 ELSE clock + 2
<1>1. Editable /\ Listed(st, Parent[p]) /\ (p \in Spaces => p \notin dir.ch)
      /\ Edited(s, new, p, data)
  BY DEF EditEntry
<1>2. Parent[p] \in Paths /\ st \in Stores /\ clock \in Nat
  BY TreeRooted, TreeParents, StoresTyped DEF TInv, TypeOK
<1>3. Parent[p] # p
  BY ParentIs
<1>4. p \in Children(Parent[p]) /\ dir.ch \subseteq Children(Parent[p])
  BY <1>2 DEF Children, Stores
<1>5. entry \in Entries /\ entry.ch = {} /\ data \in Nat
  BY <1>2 DEF Entries, Empty
<1> HIDE DEF entry, data
<1>6. /\ base \in Stores /\ base[Parent[p]].ch = dir.ch \union {p}
      /\ \A q \in Paths \ {Parent[p]} : base[q] = st[q]
  <2>1. CASE p \in dir.ch
    BY <1>2, <2>1
  <2>2. CASE p \notin dir.ch
    <3>1. dir.ch \union {p} \in SUBSET Children(Parent[p])
      BY <1>4
    <3>2. base = Relisted(s, p, dir.ch \union {p})
      BY <2>2
    <3> DEFINE C == dir.ch \union {p}
    <3>3. C \in SUBSET Children(Parent[p]) /\ base = Relisted(s, p, C)
      BY <3>1, <3>2
    <3> HIDE DEF base, C
    <3>4. base \in Stores /\ base[Parent[p]].ch = C /\ \A q \in Paths \ {Parent[p]} : base[q] = st[q]
      BY <3>3, RelistedIs
    <3>5. QED
      BY <3>4 DEF C
  <2>3. QED
    BY <2>1, <2>2
<1> HIDE DEF base
<1>7. new[p] = entry /\ \A q \in Paths \ {p} : new[q] = base[q]
  BY <1>6 DEF Stores
<1>8. new \in [Paths -> Entries]
  BY <1>5, <1>6 DEF Stores
<1> HIDE DEF new
<1>9. \A q \in Paths : new[q].ch \subseteq Children(q)
  BY <1>5, <1>6, <1>7 DEF Stores
<1>10. new \in Stores
  BY <1>8, <1>9 DEF Stores
<1>11. TInv' /\ EditEffect(s, p, data) /\ store'[s] = new
  BY <1>1, <1>5, <1>10, EditedTyped
<1>12. new[Parent[p]].ch = dir.ch \union {p} /\ \A q \in Paths \ {p, Parent[p]} : new[q] = st[q]
  BY <1>2, <1>3, <1>6, <1>7
<1>13. QED
  BY <1>1, <1>2, <1>3, <1>7, <1>11, <1>12 DEF entry, data

LEMMA RemoveEntryIs ==
    ASSUME TInv, NEW s \in Sides, NEW p \in Paths \ {Root}, RemoveEntry(s, p)
    PROVE  LET st == store[s]
               new == store'[s]
           IN /\ TInv' /\ EditEffect(s, p, 0)
              /\ Listed(st, p) /\ Parent[p] \in Paths \ {p}
              /\ new[Parent[p]].ch = st[Parent[p]].ch \ {p}
              /\ \A q \in Paths \ {Parent[p]} :
                    /\ p \notin Line(q) => new[q] = st[q]
                    /\ new[q] = st[q] \/ new[q] = Missing
              /\ kind[s] = "object" => \A q \in Paths \ {Parent[p]} : new[q] = st[q]
<1> DEFINE st == store[s]
           dir == st[Parent[p]]
           unlisted == Relisted(s, p, dir.ch \ {p})
           wiped == [q \in Paths |-> IF q = p \/ p \in Above[q] THEN Missing ELSE unlisted[q]]
           new == IF kind[s] = "object" THEN unlisted ELSE wiped
<1>1. Editable /\ Listed(st, p) /\ Edited(s, new, p, 0)
  BY DEF RemoveEntry
<1>2. Parent[p] \in Paths /\ st \in Stores
  BY TreeRooted, TreeParents, StoresTyped DEF TInv, TypeOK
<1>3. Parent[p] # p /\ p \notin Line(Parent[p])
  <2>1. Above[p] = Line(Parent[p])
    BY AboveIs DEF Line
  <2>2. QED
    BY <2>1, AboveFacts DEF Line
<1>4. dir.ch \ {p} \in SUBSET Children(Parent[p])
  BY <1>2 DEF Stores
<1>5. /\ unlisted \in Stores /\ unlisted[Parent[p]].ch = dir.ch \ {p}
      /\ \A q \in Paths \ {Parent[p]} : unlisted[q] = st[q]
  <2> DEFINE C == dir.ch \ {p}
  <2>1. C \in SUBSET Children(Parent[p]) /\ unlisted = Relisted(s, p, C)
    BY <1>4
  <2> HIDE DEF unlisted, C
  <2>2. /\ unlisted \in Stores /\ unlisted[Parent[p]].ch = C
        /\ \A q \in Paths \ {Parent[p]} : unlisted[q] = st[q]
    BY <2>1, RelistedIs
  <2>3. QED
    BY <2>2 DEF C
<1> HIDE DEF unlisted
<1>6. Missing \in Entries /\ Missing.ch = {}
  BY DEF Missing, Entries, Nothing
<1>7. /\ \A q \in Paths : IF p \in Line(q) THEN wiped[q] = Missing ELSE wiped[q] = unlisted[q]
      /\ wiped \in Stores
  <2>1. \A q \in Paths : IF p \in Line(q) THEN wiped[q] = Missing ELSE wiped[q] = unlisted[q]
    BY DEF Line
  <2>2. wiped \in [Paths -> Entries]
    BY <1>5, <1>6 DEF Stores
  <2> HIDE DEF wiped
  <2>3. \A q \in Paths : wiped[q].ch \subseteq Children(q)
    BY <1>5, <1>6, <2>1 DEF Stores
  <2>4. QED
    BY <2>1, <2>2, <2>3 DEF Stores
<1> HIDE DEF wiped
<1>8. new \in Stores
  BY <1>5, <1>7
<1>9. TInv' /\ EditEffect(s, p, 0) /\ store'[s] = new
  <2> HIDE DEF new
  <2>1. QED
    BY <1>1, <1>8, EditedTyped
<1>10. CASE kind[s] = "object"
  BY <1>1, <1>2, <1>3, <1>5, <1>9, <1>10
<1>11. CASE kind[s] # "object"
  BY <1>1, <1>2, <1>3, <1>5, <1>7, <1>9, <1>11
<1>12. QED
  BY <1>10, <1>11

LEMMA InitTyped == Init => TInv
<1> SUFFICES ASSUME Init PROVE TInv
  OBVIOUS
<1>1. PICK k \in KindPairs, m \in Modes :
          /\ kind = [s \in Sides |-> IF s = "left" THEN k[1] ELSE k[2]]
          /\ bidir = m[1] /\ keep = m[2]
  BY DEF Init
<1>2. kind \in [Sides -> {"fsy", "object"}] /\ bidir \in BOOLEAN /\ keep \in BOOLEAN /\ busy \in BOOLEAN
  BY <1>1, KindsKnown, ModesKnown, BusyKnown DEF Init
<1>3. Missing \in Entries /\ Missing.ch = {}
  BY DEF Missing, Entries, Nothing
<1> DEFINE root == [Missing EXCEPT !.mtime = 1, !.data = Empty]
           empty == [p \in Paths |-> IF p = Root THEN root ELSE Missing]
<1>4. root \in Entries /\ root.ch = {}
  BY DEF Missing, Entries, Empty, Nothing
<1>5. store = [s \in Sides |-> empty] /\ before = store
  BY DEF Init
<1> HIDE DEF root
<1>6. store \in [Sides -> [Paths -> Entries]] /\ before \in [Sides -> [Paths -> Entries]]
  BY <1>3, <1>4, <1>5
<1>7. \A s \in Sides, p \in Paths : store[s][p].ch \subseteq Children(p)
  <2> SUFFICES ASSUME NEW s \in Sides, NEW p \in Paths PROVE store[s][p].ch = {}
    OBVIOUS
  <2>1. store[s][p] = root \/ store[s][p] = Missing
    BY <1>5
  <2> HIDE DEF empty
  <2>2. QED
    BY <1>3, <1>4, <2>1
<1>8. task \in [Paths -> TaskRecords] /\ Tasked /\ task = [p \in Paths |-> Off]
  <2>1. task = [p \in Paths |-> Off]
    BY DEF Init
  <2>2. \A p \in Paths : TaskedAt(p, task[p])
    BY <2>1, OffTyped
  <2>3. QED
    BY <2>1, <2>2, OffTyped DEF Tasked
<1>9. faults \subseteq FaultKinds
  BY FaultsKnown DEF Init
<1>10. /\ run = "idle" /\ clock = 2 /\ upset = {} /\ reported = FALSE /\ insync = FALSE
       /\ misread = {} /\ written \in [Paths -> Nat]
  BY DEF Init
<1>11. TypeOK
  BY <1>2, <1>6, <1>7, <1>8, <1>9, <1>10 DEF TypeOK, TaskRecords
<1>12. QED
  BY <1>8, <1>11 DEF TInv

LEMMA StepKeepsTypes == TInv /\ [Next]_vars => TInv'
<1> SUFFICES ASSUME TInv, [Next]_vars PROVE TInv'
  OBVIOUS
<1>1. CASE BeginRun
  BY <1>1, BeginRunIs
<1>2. CASE EndRun
  BY <1>2, EndRunIs
<1>3. ASSUME NEW p \in Paths, NEW s \in Sides, ReadMeta(p, s) PROVE TInv'
  BY <1>3, ReadMetaIs
<1>4. ASSUME NEW p \in Paths, GiveUp(p) PROVE TInv'
  BY <1>4, GiveUpIs
<1>5. ASSUME NEW p \in Paths, SyncNs(p) PROVE TInv'
  <2>1. CASE Merge(p)
    BY <2>1, MergeIs
  <2>2. CASE LeftBefore(p)
    BY <2>2, LeftBeforeIs
  <2>3. CASE RightBefore(p)
    BY <2>3, RightBeforeIs
  <2>4. CASE LeftAfter(p)
    BY <2>4, LeftAfterIs
  <2>5. CASE RightAfter(p)
    BY <2>5, RightAfterIs
  <2>6. QED
    BY <1>5, <2>1, <2>2, <2>3, <2>4, <2>5 DEF SyncNs
<1>6. ASSUME NEW p \in Paths, SyncContent(p) PROVE TInv'
  <2>1. CASE SkipContent(p)
    BY <2>1, SkipContentIs
  <2>2. CASE OpenContent(p)
    BY <2>2, OpenContentIs
  <2>3. CASE FillContent(p)
    BY <2>3, FillContentIs
  <2>4. QED
    BY <1>6, <2>1, <2>2, <2>3 DEF SyncContent
<1>7. CASE Crash
  BY <1>7, CrashIs
<1>8. ASSUME NEW s \in Sides, NEW p \in Paths \ {Root}, EditEntry(s, p) PROVE TInv'
  BY <1>8, EditEntryIs
<1>9. ASSUME NEW s \in Sides, NEW p \in Paths \ {Root}, RemoveEntry(s, p) PROVE TInv'
  BY <1>9, RemoveEntryIs
<1>10. CASE UNCHANGED vars
  <2>1. UNCHANGED <<runVars, store, task, run, faults, upset, reported, insync, misread>>
    BY <1>10 DEF vars, runVars
  <2>2. UNCHANGED <<kind, bidir, keep, busy, clock, before, written>>
    BY <2>1 DEF runVars, options
  <2>3. TypeOK'
    BY <2>1, <2>2 DEF TInv, TypeOK
  <2>4. Tasked'
    BY <2>1 DEF TInv, Tasked, TaskedAt
  <2>5. QED
    BY <2>3, <2>4 DEF TInv
<1>11. QED
  BY <1>1, <1>2, <1>3, <1>4, <1>5, <1>6, <1>7, <1>8, <1>9, <1>10
     DEF Next, SyncStep, SyncEntry, EditStep

\* The types, and what the tasks of a run are about.
THEOREM SyncTypes == Spec => []TInv
<1>1. Init => TInv
  BY InitTyped
<1>2. TInv /\ [Next]_vars => TInv'
  BY StepKeepsTypes
<1>3. QED
  BY <1>1, <1>2, PTL DEF Spec

\* Both sides hold entries, whatever runs, fails or is edited, and a side lists
\* as children of a namespace only entries below it.
THEOREM SyncTypeOK == Spec => []TypeOK
<1>1. TInv => TypeOK
  BY DEF TInv
<1>2. QED
  BY <1>1, SyncTypes, PTL

-----------------------------------------------------------------------------
(* From left to right: what a run may never do to either side *)

\* No edit at rest is forgotten by the run that follows.
Quiet == run = "syncing" /\ ~busy => "edit" \notin upset

WrittenContents == \A p \in Paths : written[p] # 0 => p \notin Spaces

\* A run from left to right that no edit meets.
Calm == ~bidir /\ "edit" \notin upset

\* Only an object store reads what is there as empty.
Misreader == misread # {} => kind["left"] = "object"

\* Such a run leaves the left side as it was, but for the metadata of its
\* namespaces and the children of those it read as empty.
LeftKept ==
    Calm => \A p \in Paths :
        /\ p \notin misread => store["left"][p].ch = before["left"][p].ch
        /\ p \notin Spaces => store["left"][p] = before["left"][p]

\* What a task knows of the left side is what it was; a task that has to write
\* knows the left side if the entry is there.
LeftReadAt(p, t) ==
    t.step \notin {"off", "done"} =>
        /\ Listed(before["left"], p) /\ Seen(p) => t.exist["left"] \/ "left" \in t.failed
        /\ t.step # "metas" => "left" \notin t.failed
        /\ t.step = "fill" => before["left"][p].data # Nothing
        /\ t.exist["left"] /\ "left" \notin t.unread /\ p \notin misread =>
              /\ t.meta["left"].ch = before["left"][p].ch
              /\ p \notin Spaces => t.meta["left"] = before["left"][p]

LeftRead == Calm => \A p \in Paths : LeftReadAt(p, task[p])

KInv ==
    TInv /\ Quiet /\ WrittenContents /\ Misreader /\ LeftKept /\ LeftRead /\ TargetKept /\ SourceKeptAtRest

LEMMA SameLists ==
    ASSUME NEW st, NEW new, NEW p \in Paths, \A q \in Above[p] : st[q].ch = new[q].ch
    PROVE  Listed(st, p) <=> Listed(new, p)
BY AboveFacts DEF Listed, Line

\* What is above p is in the tree, and p is seen only if it is.
LEMMA SeenUp ==
    ASSUME NEW p \in Paths, Seen(p)
    PROVE  /\ \A q \in Above[p] : q \in Paths /\ q \notin misread /\ Seen(q)
           /\ \A q \in Line(p) : Seen(q)
<1>1. \A q \in Above[p] : q \in Paths
  BY AboveFacts, TreeRooted
<1>2. \A q \in Above[p] : Above[q] \subseteq Above[p]
  BY AboveFacts DEF Line
<1>3. \A q \in Above[p] : Seen(q)
  BY <1>2 DEF Seen
<1>4. QED
  BY <1>1, <1>3 DEF Seen, Line

\* Of a run from left to right that no edit met, the left side lists what it did.
LEMMA LeftLists ==
    ASSUME LeftKept, Calm, NEW p \in Paths, Seen(p)
    PROVE  Listed(before["left"], p) <=> Listed(store["left"], p)
<1>1. \A q \in Above[p] : before["left"][q].ch = store["left"][q].ch
  BY SeenUp DEF LeftKept
<1>2. QED
  BY <1>1, SameLists

LEMMA CalmStep ==
    ASSUME TInv, UNCHANGED runVars,
           NEW f \in {"read", "write", "copy", "crash"}, NoFault \/ Fault(f) \/ Misreads
    PROVE  /\ UNCHANGED <<kind, bidir, keep, busy, before, written, clock>>
           /\ upset \subseteq upset' /\ misread \subseteq misread'
           /\ Calm' <=> Calm
           /\ \A q \in Paths : Seen(q)' => Seen(q)
<1>1. UNCHANGED <<kind, bidir, keep, busy, before, written, clock>>
  BY DEF runVars, options
<1>2. upset \subseteq upset' /\ ("edit" \in upset' => "edit" \in upset) /\ misread \subseteq misread'
  BY FaultIs DEF TInv
<1>3. QED
  BY <1>1, <1>2 DEF Calm, Seen

\* The parts of the invariant that only depend on what is kept of the stores.
LEMMA RunStepKeeps ==
    ASSUME KInv, TInv', UNCHANGED runVars, run = "syncing",
           NEW f \in {"read", "write", "copy", "crash"}, NoFault \/ Fault(f) \/ Misreads, LeftKept'
    PROVE  Quiet' /\ WrittenContents' /\ SourceKeptAtRest'
<1>1. /\ UNCHANGED <<kind, bidir, keep, busy, before, written, clock>> /\ (Calm' <=> Calm)
      /\ \A q \in Paths : Seen(q)' => Seen(q)
  BY CalmStep DEF KInv
<1>2. "edit" \in upset' => "edit" \in upset
  BY FaultIs DEF KInv, TInv
<1>3. Quiet' /\ WrittenContents'
  BY <1>1, <1>2 DEF KInv, Quiet, WrittenContents
<1>4. SourceKeptAtRest'
  <2> SUFFICES ASSUME ~busy, ~bidir, NEW p \in Paths, written[p] # 0, Seen(p)'
               PROVE  Holds("left", p, written[p])'
    BY <1>1 DEF SourceKeptAtRest
  <2>1. Calm /\ Calm' /\ Seen(p)
    BY <1>1 DEF KInv, Quiet, Calm
  <2>2. Holds("left", p, written[p]) /\ p \notin Spaces
    BY <2>1 DEF KInv, SourceKeptAtRest, WrittenContents
  <2>3. store'["left"][p] = store["left"][p]
    BY <1>1, <2>1, <2>2 DEF KInv, LeftKept
  <2>4. Listed(before["left"], p)
    BY <2>1, <2>2, LeftLists DEF KInv, Holds
  <2>5. Listed(store'["left"], p)
    <3>1. \A q \in Above[p] : before["left"][q].ch = store'["left"][q].ch
      <4> SUFFICES ASSUME NEW q \in Above[p] PROVE before["left"][q].ch = store'["left"][q].ch
        OBVIOUS
      <4>1. q \in Paths /\ q \notin misread'
        BY AboveFacts, TreeRooted DEF Seen
      <4>2. QED
        BY <1>1, <2>1, <4>1 DEF LeftKept
    <3>2. QED
      BY <2>4, <3>1, SameLists
  <2>6. QED
    BY <1>1, <2>2, <2>3, <2>5 DEF Holds
<1>5. QED
  BY <1>3, <1>4

\* A step that writes nothing.
LEMMA StoreKept ==
    ASSUME KInv, UNCHANGED runVars, UNCHANGED store,
           NEW f \in {"read", "write", "copy", "crash"}, NoFault \/ Fault(f) \/ Misreads
    PROVE  LeftKept' /\ TargetKept'
<1>1. /\ UNCHANGED <<kind, bidir, keep, busy, before, written, clock>> /\ (Calm' <=> Calm)
      /\ upset \subseteq upset' /\ misread \subseteq misread'
      /\ \A q \in Paths : Seen(q)' => Seen(q)
  BY CalmStep DEF KInv
<1>2. LeftKept'
  BY <1>1 DEF KInv, LeftKept
<1>3. TargetKept'
  <2> SUFFICES ASSUME Calm', NEW p \in Paths,
                      Listed(before["left"], p), Listed(before["right"], p), Seen(p)
               PROVE  /\ \/ Listed(store["right"], p)
                         \/ kind["right"] = "fsy" /\ p \notin Spaces /\ "write" \in upset'
                      /\ kind["right"] = "object" /\ "copy" \notin upset' /\ p \notin Spaces =>
                            store["right"][p].data \in {before[s][p].data : s \in Sides}
    BY <1>1 DEF TargetKept, Calm
  <2>1. QED
    BY <1>1 DEF KInv, TargetKept, Calm
<1>4. QED
  BY <1>2, <1>3

\* A task that only advances knows what it knew.
LEMMA AdvanceReads ==
    ASSUME KInv, NEW p \in Paths, NEW step, NEW err, Advances(p, step, err),
           step = "off" \/ task[p].step \notin {"off", "done"},
           step \notin {"off", "metas", "done"} => GivesUp(task[p]) = FALSE \/ task[p].step # "metas",
           step = "fill" => (Calm => before["left"][p].data # Nothing),
           UNCHANGED runVars, NEW f \in {"read", "write", "copy", "crash"}, NoFault \/ Fault(f) \/ Misreads
    PROVE  LeftRead'
<1>1. /\ UNCHANGED <<kind, bidir, keep, busy, before, written, clock>> /\ (Calm' <=> Calm)
      /\ misread \subseteq misread' /\ \A x \in Paths : Seen(x)' => Seen(x)
  BY CalmStep DEF KInv
<1> SUFFICES ASSUME Calm, NEW q \in Paths PROVE LeftReadAt(q, task[q])'
  BY <1>1 DEF LeftRead
<1>2. LeftReadAt(q, task[q])
  BY DEF KInv, LeftRead
<1>3. CASE q # p
  <2>1. task'[q] = task[q]
    BY <1>3 DEF Advances, Others
  <2>2. QED
    BY <1>1, <1>2, <2>1 DEF LeftReadAt
<1>4. CASE q = p
  <2>1. /\ task'[p].step = step /\ task'[p].exist = task[p].exist /\ task'[p].meta = task[p].meta
        /\ task'[p].unread = task[p].unread /\ task'[p].failed = task[p].failed
    BY DEF Advances
  <2>2. task[p].step = "metas" /\ step \notin {"off", "metas", "done"} => "left" \notin task[p].failed
    BY DEF GivesUp, Calm
  <2>3. QED
    BY <1>1, <1>2, <1>4, <2>1, <2>2 DEF LeftReadAt
<1>5. QED
  BY <1>3, <1>4

\* From left to right, what the left side is to hold is what it held.
LEMMA OneWayMerges ==
    ASSUME ~bidir, NEW t
    PROVE  /\ ~RTL(t) /\ Origin(t) = "left" /\ Target(t) = "right"
           /\ leftMg(t) = exCh(t, "left")
           /\ exCh(t, "left") \subseteq MergedBefore(t, "right")
           /\ exCh(t, "left") \subseteq MergedAfter(t, "right")
           /\ MergedAfter(t, "left") = exCh(t, "left")
           /\ ~NeedsBefore(t, "left")
           /\ NeedsAfter(t, "left") => t.exist["left"]
<1>1. ~RTL(t)
  BY DEF RTL
<1>2. leftMg(t) = exCh(t, "left")
  BY DEF leftMg
<1>3. Origin(t) = "left" /\ Target(t) = "right"
  BY <1>1 DEF Origin, Target, Other
<1>4. exCh(t, "left") \subseteq MergedBefore(t, "right") /\ exCh(t, "left") \subseteq MergedAfter(t, "right")
  BY DEF MergedBefore, MergedAfter, rightMg, leftRight
<1>5. MergedAfter(t, "left") = exCh(t, "left") /\ MergedBefore(t, "left") = exCh(t, "left")
  BY <1>2 DEF MergedAfter, MergedBefore
<1>6. ~t.exist["left"] => ~Created(t)
  BY DEF Created
<1>7. ~NeedsBefore(t, "left")
  BY <1>5, <1>6 DEF NeedsBefore
<1>8. NeedsAfter(t, "left") => t.exist["left"]
  BY <1>6 DEF NeedsAfter
<1>9. QED
  BY <1>1, <1>2, <1>3, <1>4, <1>5, <1>7, <1>8

\* A namespace that is given the children it has loses and gains nothing.
LEMMA SameChildren ==
    ASSUME TInv, NEW s \in Sides, NEW p \in Paths, NEW m \in Nat
    PROVE  LET st == store[s]
               new == PutNs(s, p, st[p].ch, m)
           IN /\ new \in Stores
              /\ \A q \in Paths \ {p} : new[q] = st[q]
              /\ new[p].ch = st[p].ch
<1> DEFINE st == store[s]
           C == st[p].ch
           new == PutNs(s, p, C, m)
<1>1. st \in Stores /\ clock \in Nat
  BY StoresTyped DEF TInv, TypeOK
<1>2. C \in SUBSET Children(p)
  BY <1>1 DEF Stores
<1>3. st[p].ch \ C = {} /\ C \ st[p].ch = {}
  OBVIOUS
<1> HIDE DEF C
<1>4. /\ new \in Stores /\ new[p].ch = C
      /\ \A q \in Paths \ {p} :
            q \notin {x \in Paths : Line(x) \intersect (st[p].ch \ C) # {}} \union (C \ st[p].ch)
                => new[q] = st[q]
  <2>1. NsPut(s, p, C, m, new)
    BY <1>1, <1>2, PutNsIs
  <2>2. QED
    BY <2>1 DEF NsPut
<1>5. \A q \in Paths \ {p} : new[q] = st[q]
  BY <1>3, <1>4
<1>6. new[p].ch = C
  BY <1>4
<1>7. QED
  BY <1>4, <1>5, <1>6 DEF C

\* A namespace that keeps some of the children it lists keeps all that is listed
\* below them.
LEMMA PutNsLists ==
    ASSUME TInv, NEW s \in Sides, NEW p \in Paths, NEW C \in SUBSET Children(p), NEW m \in Nat,
           NEW q \in Paths, Listed(store[s], q),
           \A r \in Line(q) : r \in store[s][p].ch => r \in C
    PROVE  Listed(PutNs(s, p, C, m), q)
<1> DEFINE st == store[s]
           new == PutNs(s, p, C, m)
           gone == {x \in Paths : Line(x) \intersect (st[p].ch \ C) # {}}
           made == C \ st[p].ch
<1>1. st \in Stores /\ clock \in Nat
  BY StoresTyped DEF TInv, TypeOK
<1>2. /\ new[p].ch = C
      /\ \A x \in Paths \ {p} : x \notin gone \union made => new[x] = st[x]
  <2>1. NsPut(s, p, C, m, new)
    BY <1>1, PutNsIs
  <2>2. QED
    BY <2>1 DEF NsPut
<1>3. ASSUME NEW r \in Line(q) \ {Root}, r \in st[Parent[r]].ch
      PROVE  r \in new[Parent[r]].ch
  <2>1. Parent[r] \in Above[q] /\ Parent[r] \in Paths
    BY <1>3, AboveFacts
  <2>2. CASE Parent[r] = p
    <3>1. new[p].ch = C
      BY <1>2
    <3>2. QED
      BY <1>3, <2>2, <3>1
  <2>3. CASE Parent[r] # p
    <3>1. Line(Parent[r]) \subseteq Line(q)
      BY <2>1, AboveFacts DEF Line
    <3>2. Parent[r] \notin gone
      BY <3>1
    <3>3. Parent[r] \notin made
      <4>1. ASSUME Parent[r] \in made PROVE FALSE
        <5>1. Parent[r] \in Paths \ {Root} /\ Parent[Parent[r]] = p
          BY <4>1, ChildFacts
        <5>2. Parent[r] \in Line(q) \ {Root}
          BY <2>1, <5>1 DEF Line
        <5>3. Parent[r] \in st[Parent[Parent[r]]].ch
          BY <5>2 DEF Listed, Line
        <5>4. QED
          BY <4>1, <5>1, <5>3
      <4>2. QED
        BY <4>1
    <3>4. new[Parent[r]] = st[Parent[r]]
      BY <1>2, <2>1, <2>3, <3>2, <3>3
    <3>5. QED
      BY <1>3, <3>4
  <2>4. QED
    BY <2>2, <2>3
<1> HIDE DEF new
<1>4. Listed(new, q)
  BY <1>3, ListedKept
<1>5. QED
  BY <1>4 DEF new

\* A content that is written unlists nothing.
LEMMA PutContentLists ==
    ASSUME TInv, NEW s \in Sides, NEW p \in Paths \ Spaces, NEW m \in Nat, NEW d \in Nat,
           NEW q \in Paths, Listed(store[s], q)
    PROVE  Listed(PutContent(s, p, m, d), q)
<1> DEFINE st == store[s]
           new == PutContent(s, p, m, d)
<1>1. st \in Stores /\ clock \in Nat
  BY StoresTyped DEF TInv, TypeOK
<1>2. /\ new[Parent[p]].ch = st[Parent[p]].ch \union {p}
      /\ \A x \in Paths \ {p, Parent[p]} : new[x] = st[x]
  <2>1. ContentPut(s, p, m, d, new)
    BY <1>1, PutContentIs
  <2>2. QED
    BY <2>1 DEF ContentPut
<1>3. ASSUME NEW r \in Line(q) \ {Root}, r \in st[Parent[r]].ch
      PROVE  r \in new[Parent[r]].ch
  <2>1. Parent[r] \in Spaces /\ Parent[r] \in Paths
    BY <1>3, AboveFacts
  <2>2. Parent[r] # p
    BY <2>1
  <2>3. QED
    BY <1>2, <1>3, <2>1, <2>2
<1> HIDE DEF new
<1>4. Listed(new, q)
  BY <1>3, ListedKept
<1>5. QED
  BY <1>4 DEF new

\* A file that goes unlists nothing else.
LEMMA FileGoneLists ==
    ASSUME NEW s \in Sides, NEW p \in Paths \ Spaces, NEW st, FileGone(s, p, st),
           NEW q \in Paths \ {p}, Listed(store[s], q)
    PROVE  Listed(st, q)
<1>1. ASSUME NEW r \in Line(q) \ {Root}, r \in store[s][Parent[r]].ch
      PROVE  r \in st[Parent[r]].ch
  <2>1. Parent[r] \in Spaces /\ Parent[r] \in Paths
    BY <1>1, AboveFacts
  <2>2. r # p /\ Parent[r] # p
    BY <2>1, AboveFacts DEF Line
  <2>3. QED
    BY <1>1, <2>1, <2>2 DEF FileGone
<1>2. QED
  BY <1>1, ListedKept

\* Nothing is said of a run that goes both ways or that an edit met.
LEMMA Uncalm ==
    ASSUME KInv, ~Calm, UNCHANGED runVars,
           NEW f \in {"read", "write", "copy", "crash"}, NoFault \/ Fault(f) \/ Misreads
    PROVE  LeftKept' /\ TargetKept' /\ LeftRead'
BY CalmStep DEF KInv, LeftKept, TargetKept, LeftRead, Calm

\* Only the right side is written: what is to be shown of it.
LEMMA RightWritten ==
    ASSUME KInv, Calm, UNCHANGED runVars, store'["left"] = store["left"],
           NEW f \in {"read", "write", "copy", "crash"}, NoFault \/ Fault(f) \/ Misreads,
           \A q \in Paths :
              Listed(before["left"], q) /\ Listed(before["right"], q) /\ Seen(q) =>
                /\ \/ Listed(store'["right"], q)
                   \/ kind["right"] = "fsy" /\ q \notin Spaces /\ "write" \in upset'
                /\ kind["right"] = "object" /\ "copy" \notin upset' /\ q \notin Spaces =>
                      \/ store'["right"][q].data = store["right"][q].data
                      \/ store'["right"][q].data = before["left"][q].data
    PROVE  LeftKept' /\ TargetKept'
<1>1. /\ UNCHANGED <<kind, bidir, keep, busy, before, written, clock>> /\ (Calm' <=> Calm)
      /\ upset \subseteq upset' /\ misread \subseteq misread'
      /\ \A q \in Paths : Seen(q)' => Seen(q)
  BY CalmStep DEF KInv
<1>2. LeftKept'
  BY <1>1 DEF KInv, LeftKept
<1>3. TargetKept'
  <2> SUFFICES ASSUME NEW p \in Paths, Listed(before["left"], p), Listed(before["right"], p), Seen(p)
               PROVE  /\ \/ Listed(store'["right"], p)
                         \/ kind["right"] = "fsy" /\ p \notin Spaces /\ "write" \in upset'
                      /\ kind["right"] = "object" /\ "copy" \notin upset' /\ p \notin Spaces =>
                            store'["right"][p].data \in {before[s][p].data : s \in Sides}
    BY <1>1 DEF TargetKept, Calm
  <2>1. kind["right"] = "object" /\ "copy" \notin upset' /\ p \notin Spaces =>
            store["right"][p].data \in {before[s][p].data : s \in Sides}
    BY <1>1 DEF KInv, TargetKept, Calm
  <2>2. before["left"][p].data \in {before[s][p].data : s \in Sides}
    BY DEF Sides
  <2>3. QED
    BY <2>1, <2>2
<1>4. QED
  BY <1>2, <1>3

\* A task past its reads knows the children the left side had.
LEMMA LeftKnown ==
    ASSUME KInv, Calm, NEW p \in Paths, task[p].step \notin {"off", "metas", "done"}
    PROVE  /\ task[p].exist["left"] /\ p \notin misread =>
                /\ task[p].meta["left"].ch = before["left"][p].ch
                /\ p \notin Spaces => task[p].meta["left"] = before["left"][p]
           /\ Listed(before["left"], p) /\ Seen(p) => task[p].exist["left"]
           /\ task[p].step = "fill" => before["left"][p].data # Nothing
<1>1. LeftReadAt(p, task[p]) /\ task[p].unread = {}
  BY TaskTyped DEF KInv, LeftRead, TaskedAt
<1>2. QED
  BY <1>1 DEF LeftReadAt

LEMMA NsRightKeeps ==
    ASSUME KInv, UNCHANGED runVars, NEW p \in Spaces, NEW needed, NEW making, NEW C \in SUBSET Children(p),
           NEW err, NsWritten(p, "right", needed, making, C, err),
           ~bidir => exCh(task[p], "left") \subseteq C,
           task[p].step \in {"rightBefore", "rightAfter"}
    PROVE  LeftKept' /\ TargetKept'
<1> DEFINE t == task[p]
           new == PutNs("right", p, C, mergedMtime(t))
<1>1. p \in Paths /\ "right" \in Sides /\ (NoFault \/ Fault("write"))
  BY TreeRooted DEF NsWritten, Sides
<1>2. CASE ~Calm
  BY <1>1, <1>2, Uncalm
<1>3. CASE UNCHANGED store
  BY <1>1, <1>3, StoreKept
<1>4. CASE Calm /\ store' = [store EXCEPT !["right"] = new]
  <2>1. t \in TaskRecords /\ store["right"] \in Stores /\ clock \in Nat
    BY <1>1, TaskTyped, StoresTyped DEF KInv, TInv, TypeOK
  <2>2. mergedMtime(t) \in Nat
    BY <2>1 DEF mergedMtime, TaskRecords, Entries, Sides
  <2>3. /\ new \in Stores
        /\ \A q \in Paths \ {p} : kind["right"] = "object" => new[q] = store["right"][q]
    <3>1. NsPut("right", p, C, mergedMtime(t), new)
      BY <1>1, <2>1, <2>2, PutNsIs
    <3>2. QED
      BY <3>1 DEF NsPut
  <2> HIDE DEF new
  <2>4. store'["right"] = new /\ store'["left"] = store["left"]
    BY <1>1, <1>4, <2>3, StoreSet DEF KInv, TInv, Sides
  <2>5. ASSUME NEW q \in Paths, Listed(before["left"], q), Seen(q), Listed(store["right"], q)
        PROVE  Listed(new, q)
    <3>1. Listed(store["right"], q)
      BY <2>5
    <3>2. ASSUME NEW r \in Line(q), r \in store["right"][p].ch
          PROVE  r \in C
      <4>1. r \in Paths \ {Root} /\ Parent[r] = p
        BY <1>1, <2>1, <3>2, ChildFacts DEF Stores
      <4>2. Listed(before["left"], r)
        BY <2>5, <3>2, ListedUp
      <4>3. r \in before["left"][p].ch /\ Listed(before["left"], p)
        BY <4>1, <4>2, ListedStep
      <4>4. Seen(p) /\ p \notin misread
        <5>1. p \in Above[q]
          BY <3>2, <4>1, AboveFacts
        <5>2. QED
          BY <2>5, <5>1, SeenUp
      <4>5. t.exist["left"] /\ t.meta["left"].ch = before["left"][p].ch
        BY <1>1, <1>4, <4>3, <4>4, LeftKnown
      <4>6. QED
        BY <1>4, <4>3, <4>5 DEF exCh, Calm
    <3>3. QED
      BY <1>1, <2>2, <3>1, <3>2, PutNsLists DEF KInv, new
  <2>6. \A q \in Paths : kind["right"] = "object" /\ q \notin Spaces => new[q] = store["right"][q]
    BY <2>3
  <2>7. ASSUME NEW q \in Paths, Listed(before["left"], q), Listed(before["right"], q), Seen(q)
        PROVE  \/ Listed(new, q)
               \/ kind["right"] = "fsy" /\ q \notin Spaces /\ "write" \in upset'
    <3>1. \/ Listed(store["right"], q)
          \/ kind["right"] = "fsy" /\ q \notin Spaces /\ "write" \in upset
      BY <1>4, <2>7 DEF KInv, TargetKept, Calm
    <3>2. upset \subseteq upset'
      BY <1>1, CalmStep DEF KInv
    <3>3. QED
      BY <2>5, <2>7, <3>1, <3>2
  <2>8. QED
    BY <1>1, <1>4, <2>4, <2>6, <2>7, RightWritten
<1>5. QED
  BY <1>2, <1>3, <1>4 DEF NsWritten

LEMMA NsLeftKeeps ==
    ASSUME KInv, UNCHANGED runVars, NEW p \in Spaces, NEW making, NEW err,
           NsWritten(p, "left", NeedsAfter(task[p], "left"), making, MergedAfter(task[p], "left"), err),
           task[p].step = "children"
    PROVE  LeftKept' /\ TargetKept'
<1> DEFINE t == task[p]
           new == PutNs("left", p, MergedAfter(t, "left"), mergedMtime(t))
<1>1. p \in Paths /\ "left" \in Sides /\ "right" \in Sides \ {"left"} /\ (NoFault \/ Fault("write"))
  BY TreeRooted DEF NsWritten, Sides
<1>2. CASE ~Calm
  BY <1>1, <1>2, Uncalm
<1>3. CASE UNCHANGED store
  BY <1>1, <1>3, StoreKept
<1>4. CASE Calm /\ NeedsAfter(t, "left") /\ store' = [store EXCEPT !["left"] = new]
  <2>1. /\ UNCHANGED <<kind, bidir, keep, busy, before, written, clock>> /\ (Calm' <=> Calm)
        /\ upset \subseteq upset' /\ misread \subseteq misread'
        /\ \A q \in Paths : Seen(q)' => Seen(q)
    BY <1>1, CalmStep DEF KInv
  <2>2. t \in TaskRecords /\ store["left"] \in Stores /\ clock \in Nat
    BY <1>1, TaskTyped, StoresTyped DEF KInv, TInv, TypeOK
  <2>3. mergedMtime(t) \in Nat
    BY <2>2 DEF mergedMtime, TaskRecords, Entries, Sides
  <2>4. t.exist["left"] /\ MergedAfter(t, "left") = exCh(t, "left")
    BY <1>4, OneWayMerges DEF Calm
  <2>5. p \notin misread => new = PutNs("left", p, store["left"][p].ch, mergedMtime(t))
    <3>1. p \notin misread => exCh(t, "left") = before["left"][p].ch
      BY <1>1, <1>4, <2>4, LeftKnown DEF exCh
    <3>2. p \notin misread => store["left"][p].ch = before["left"][p].ch
      BY <1>1, <1>4 DEF KInv, LeftKept
    <3>3. QED
      BY <2>4, <3>1, <3>2
  <2>6. /\ new \in Stores
        /\ p \notin misread => new[p].ch = store["left"][p].ch
        /\ \A q \in Paths \ {p} : new[q] = store["left"][q]
    <3>1. CASE p \notin misread
      <4> HIDE DEF new
      <4>1. QED
        BY <1>1, <2>3, <2>5, <3>1, SameChildren DEF KInv
    <3>2. CASE p \in misread
      <4>1. kind["left"] = "object"
        BY <3>2 DEF KInv, Misreader
      <4>2. MergedAfter(t, "left") \in SUBSET Children(p)
        BY <1>1, TaskTyped, MergedTyped DEF KInv
      <4>3. NsPut("left", p, MergedAfter(t, "left"), mergedMtime(t), new)
        BY <1>1, <2>2, <2>3, <4>2, PutNsIs
      <4> HIDE DEF new
      <4>4. QED
        BY <3>2, <4>1, <4>3 DEF NsPut
    <3>3. QED
      BY <3>1, <3>2
  <2> HIDE DEF new
  <2>7. store'["left"] = new /\ store'["right"] = store["right"]
    BY <1>1, <1>4, <2>6, StoreSet DEF KInv, TInv
  <2>8. LeftKept'
    <3> SUFFICES ASSUME NEW q \in Paths
                 PROVE  /\ q \notin misread' => new[q].ch = before["left"][q].ch
                        /\ q \notin Spaces => new[q] = before["left"][q]
      BY <1>4, <2>1, <2>7 DEF LeftKept
    <3>1. /\ q \notin misread => store["left"][q].ch = before["left"][q].ch
          /\ q \notin Spaces => store["left"][q] = before["left"][q]
      BY <1>4 DEF KInv, LeftKept
    <3>2. QED
      BY <2>1, <2>6, <3>1
  <2>9. TargetKept'
    <3> SUFFICES ASSUME NEW q \in Paths, Listed(before["left"], q), Listed(before["right"], q), Seen(q)
                 PROVE  /\ \/ Listed(store["right"], q)
                           \/ kind["right"] = "fsy" /\ q \notin Spaces /\ "write" \in upset'
                        /\ kind["right"] = "object" /\ "copy" \notin upset' /\ q \notin Spaces =>
                              store["right"][q].data \in {before[s][q].data : s \in Sides}
      BY <2>1, <2>7 DEF TargetKept, Calm
    <3>1. QED
      BY <1>4, <2>1 DEF KInv, TargetKept, Calm
  <2>10. QED
    BY <2>8, <2>9
<1>5. QED
  BY <1>2, <1>3, <1>4 DEF NsWritten

LEMMA ContentRightKeeps ==
    ASSUME KInv, UNCHANGED runVars, NEW p \in Paths \ Spaces, NEW m \in Nat, NEW d \in Nat,
           store' = [store EXCEPT ![Target(task[p])] = PutContent(Target(task[p]), p, m, d)],
           NEW f \in {"read", "write", "copy", "crash"}, NoFault \/ Fault(f) \/ Misreads,
           Calm => \/ "copy" \in upset' \/ kind["right"] # "object"
                   \/ Listed(before["left"], p) /\ Seen(p) => d = before["left"][p].data
    PROVE  LeftKept' /\ TargetKept'
<1> DEFINE new == PutContent("right", p, m, d)
<1>1. "left" \in Sides \ {"right"} /\ "right" \in Sides
  BY DEF Sides
<1>2. CASE ~Calm
  BY <1>2, Uncalm
<1>3. CASE Calm
  <2>1. store' = [store EXCEPT !["right"] = new]
    BY <1>3, OneWayMerges DEF Calm
  <2>2. store["right"] \in Stores /\ clock \in Nat
    BY <1>1, StoresTyped DEF KInv, TInv, TypeOK
  <2>3. /\ new \in Stores /\ new[p].data = d
        /\ new[Parent[p]].data = store["right"][Parent[p]].data
        /\ \A q \in Paths \ {p, Parent[p]} : new[q] = store["right"][q]
    <3>1. ContentPut("right", p, m, d, new)
      BY <1>1, <2>2, PutContentIs
    <3>2. QED
      BY <3>1 DEF ContentPut
  <2>4. \A q \in Paths : Listed(store["right"], q) => Listed(new, q)
    BY <1>1, PutContentLists DEF KInv
  <2> HIDE DEF new
  <2>5. store'["right"] = new /\ store'["left"] = store["left"]
    BY <1>1, <2>1, <2>3, StoreSet DEF KInv, TInv
  <2>6. ASSUME NEW q \in Paths, Listed(before["left"], q), Listed(before["right"], q), Seen(q)
        PROVE  /\ \/ Listed(store'["right"], q)
                  \/ kind["right"] = "fsy" /\ q \notin Spaces /\ "write" \in upset'
               /\ kind["right"] = "object" /\ "copy" \notin upset' /\ q \notin Spaces =>
                      \/ store'["right"][q].data = store["right"][q].data
                      \/ store'["right"][q].data = before["left"][q].data
    <3>1. \/ Listed(store["right"], q)
          \/ kind["right"] = "fsy" /\ q \notin Spaces /\ "write" \in upset'
      <4>1. upset \subseteq upset'
        BY CalmStep DEF KInv
      <4>2. QED
        BY <1>3, <2>6, <4>1 DEF KInv, TargetKept, Calm
    <3>2. CASE q = p
      BY <1>3, <2>3, <2>4, <2>5, <2>6, <3>1, <3>2
    <3>3. CASE q # p
      BY <2>3, <2>4, <2>5, <3>1, <3>3
    <3>4. QED
      BY <3>2, <3>3
  <2>7. QED
    BY <1>3, <2>5, <2>6, RightWritten
<1>4. QED
  BY <1>2, <1>3

LEMMA ReadMetaReads ==
    ASSUME KInv, NEW p \in Paths, NEW s \in Sides, ReadMeta(p, s)
    PROVE  LeftRead'
<1> DEFINE t == task[p]
           r == task'[p]
<1>1. /\ Others(p) /\ UNCHANGED <<runVars, store>>
      /\ t.step = "metas" /\ r.step = "metas" /\ s \in t.unread /\ r.unread = t.unread \ {s}
      /\ \A o \in Sides \ {s} :
            /\ r.exist[o] = t.exist[o] /\ r.meta[o] = t.meta[o]
            /\ o \in r.failed <=> o \in t.failed
      /\ \/ /\ Listed(store[s], p) /\ NoFault
            /\ r.exist = t.exist /\ r.failed = t.failed /\ r.meta[s] = store[s][p]
         \/ /\ (~Listed(store[s], p) /\ NoFault) \/ Fault("read")
            /\ ~r.exist[s] /\ s \in r.failed
         \/ /\ kind[s] = "object" /\ Misreads
            /\ misread' = misread \union {q \in {p} : s = "left"}
            /\ r.exist = t.exist /\ r.failed = t.failed /\ r.meta[s] = Missing
  BY ReadMetaIs DEF KInv
<1>2. NoFault \/ Fault("read") \/ Misreads
  BY <1>1
<1>3. /\ UNCHANGED <<kind, bidir, keep, busy, before, written, clock>> /\ (Calm' <=> Calm)
      /\ misread \subseteq misread' /\ \A x \in Paths : Seen(x)' => Seen(x)
  BY <1>1, <1>2, CalmStep DEF KInv
<1> SUFFICES ASSUME Calm, NEW q \in Paths PROVE LeftReadAt(q, task[q])'
  BY <1>3 DEF LeftRead
<1>4. LeftReadAt(q, task[q])
  BY DEF KInv, LeftRead
<1>5. CASE q # p
  <2>1. task'[q] = task[q]
    BY <1>1, <1>5 DEF Others
  <2>2. QED
    BY <1>3, <1>4, <2>1 DEF LeftReadAt
<1>6. CASE q = p
  <2>1. "left" \in Sides
    BY DEF Sides
  <2>2. Listed(before["left"], p) /\ Seen(p) => r.exist["left"] \/ "left" \in r.failed
    BY <1>1, <1>4, <1>6, <2>1 DEF LeftReadAt
  <2>3. ASSUME r.exist["left"], "left" \notin r.unread, p \notin misread'
        PROVE  /\ r.meta["left"].ch = before["left"][p].ch
               /\ p \notin Spaces => r.meta["left"] = before["left"][p]
    <3>1. CASE s = "left"
      <4>1. r.meta["left"] = store["left"][p] /\ p \notin misread
        BY <1>1, <1>3, <2>3, <3>1
      <4>2. QED
        BY <4>1 DEF KInv, LeftKept
    <3>2. CASE s # "left"
      <4>1. /\ t.exist["left"] /\ "left" \notin t.unread /\ r.meta["left"] = t.meta["left"]
            /\ p \notin misread
        BY <1>1, <1>3, <2>1, <2>3, <3>2
      <4>2. QED
        BY <1>1, <1>4, <1>6, <4>1 DEF LeftReadAt
    <3>3. QED
      BY <3>1, <3>2
  <2>4. QED
    BY <1>1, <1>3, <1>6, <2>2, <2>3 DEF LeftReadAt
<1>7. QED
  BY <1>5, <1>6

LEMMA SpawnReads ==
    ASSUME KInv, NEW p \in Spaces, task[p].step = "rightBefore", NEW err \in BOOLEAN, Spawns(p, err),
           UNCHANGED runVars, NEW f \in {"read", "write", "copy", "crash"}, NoFault \/ Fault(f) \/ Misreads
    PROVE  LeftRead'
<1> DEFINE t == task[p]
           kids == leftAndRight(t)
<1>1. /\ UNCHANGED <<kind, bidir, keep, busy, before, written, clock>> /\ (Calm' <=> Calm)
      /\ misread \subseteq misread' /\ \A x \in Paths : Seen(x)' => Seen(x)
  BY CalmStep DEF KInv
<1>2. p \in Paths /\ t \in TaskRecords /\ TaskedAt(p, t) /\ bidir \in BOOLEAN /\ keep \in BOOLEAN
  BY TaskTyped, TreeRooted DEF KInv
<1>3. kids \in SUBSET Children(p) /\ "left" \in Sides
  BY <1>2, MergedTyped DEF Sides
<1> SUFFICES ASSUME Calm, NEW q \in Paths PROVE LeftReadAt(q, task[q])'
  BY <1>1 DEF LeftRead
<1>4. LeftReadAt(q, task[q])
  BY DEF KInv, LeftRead
<1>5. CASE q = p
  <2>1. task'[p].step = "children" /\ task'[p].exist = t.exist /\ task'[p].meta = t.meta
        /\ task'[p].unread = t.unread /\ task'[p].failed = t.failed
    BY DEF Spawns
  <2>2. QED
    BY <1>1, <1>4, <1>5, <2>1 DEF LeftReadAt
<1>6. CASE q \in kids
  <2> DEFINE exist == [s \in Sides |-> q \in exCh(t, s)]
             r == task'[q]
  <2>1. r = Task(exist, err)
    BY <1>6 DEF Spawns
  <2>2. exist \in [Sides -> BOOLEAN]
    OBVIOUS
  <2> HIDE DEF exist
  <2>3. /\ r.step = (IF err THEN "done" ELSE "metas") /\ r.exist = exist
        /\ r.unread = (IF err THEN {} ELSE {s \in Sides : exist[s]})
    BY <2>1, <2>2, TaskIs, SMTT(40)
  <2>4. ASSUME Listed(before["left"], q), Seen(q) PROVE exist["left"]
    <3>1. q \in Paths \ {Root} /\ Parent[q] = p
      BY <1>2, <1>3, <1>6, ChildFacts
    <3>2. q \in before["left"][p].ch /\ Listed(before["left"], p)
      BY <2>4, <3>1, ListedStep
    <3>3. t.exist["left"] /\ t.meta["left"].ch = before["left"][p].ch
      <4>1. p \in Above[q]
        BY <3>1, AboveFacts DEF Line
      <4>2. Seen(p) /\ p \notin misread
        BY <2>4, <3>1, <4>1, SeenUp
      <4>3. QED
        BY <1>2, <3>2, <4>2, LeftKnown
    <3>4. QED
      BY <1>3, <3>2, <3>3 DEF exist, exCh
  <2>5. r.step # "done" => \A s \in Sides : r.exist[s] => s \in r.unread
    BY <2>3
  <2>6. QED
    BY <1>1, <1>3, <2>3, <2>4, <2>5 DEF LeftReadAt
<1>7. CASE q \notin kids \union {p}
  <2>1. task'[q] = task[q]
    BY <1>7 DEF Spawns
  <2>2. QED
    BY <1>1, <1>4, <2>1 DEF LeftReadAt
<1>8. QED
  BY <1>5, <1>6, <1>7

LEMMA OffReads ==
    ASSUME AllOff
    PROVE  LeftRead'
<1>1. \A p \in Paths : task'[p].step = "off"
  BY DEF AllOff, Off
<1>2. QED
  BY <1>1 DEF LeftRead, LeftReadAt

LEMMA RunEntryKeeps ==
    ASSUME KInv, TInv', UNCHANGED runVars, run = "syncing",
           NEW f \in {"read", "write", "copy", "crash"}, NoFault \/ Fault(f) \/ Misreads,
           LeftKept', TargetKept', LeftRead', Misreader'
    PROVE  KInv'
BY RunStepKeeps DEF KInv

LEMMA StepOff ==
    ASSUME KInv, NEW p \in Paths, task[p].step # "off"
    PROVE  run = "syncing"
BY Running DEF KInv, TInv

\* Of the steps of the tasks, only reads misread.
LEMMA EntryKeeps ==
    ASSUME KInv, TInv', UNCHANGED runVars, run = "syncing",
           NEW f \in {"read", "write", "copy", "crash"}, NoFault \/ Fault(f),
           LeftKept', TargetKept', LeftRead'
    PROVE  KInv'
<1>1. UNCHANGED <<misread, kind>>
  BY DEF NoFault, noFault, Fault, runVars, options
<1>2. Misreader'
  BY <1>1 DEF KInv, Misreader
<1>3. QED
  BY <1>2, RunEntryKeeps

\* A Close that fails takes the file away and unlists nothing else.
LEMMA CloseFailedKeeps ==
    ASSUME KInv, UNCHANGED runVars, NEW p \in Paths \ Spaces, CloseFailed(p), Fault("write")
    PROVE  LeftKept' /\ TargetKept'
<1> DEFINE new == store'["right"]
<1>1. "left" \in Sides \ {"right"} /\ "right" \in Sides
  BY DEF Sides
<1>2. CASE ~Calm
  BY <1>2, Uncalm
<1>3. CASE Calm /\ UNCHANGED store
  BY <1>3, StoreKept
<1>4. CASE /\ Calm /\ kind["right"] = "fsy" /\ FileGone("right", p, new)
           /\ store'["left"] = store["left"]
  <2>1. \A q \in Paths \ {p} : Listed(store["right"], q) => Listed(new, q)
    BY <1>1, <1>4, FileGoneLists
  <2>2. "write" \in upset' /\ upset \subseteq upset'
    BY DEF Fault, Mishap
  <2>3. ASSUME NEW q \in Paths, Listed(before["left"], q), Listed(before["right"], q), Seen(q)
        PROVE  \/ Listed(new, q)
               \/ kind["right"] = "fsy" /\ q \notin Spaces /\ "write" \in upset'
    <3>1. CASE q = p
      BY <1>4, <2>2, <3>1
    <3>2. CASE q # p
      <4>1. \/ Listed(store["right"], q)
            \/ kind["right"] = "fsy" /\ q \notin Spaces /\ "write" \in upset
        BY <1>4, <2>3 DEF KInv, TargetKept, Calm
      <4>2. QED
        BY <2>1, <2>2, <3>2, <4>1
    <3>3. QED
      BY <3>1, <3>2
  <2>4. QED
    BY <1>4, <2>3, RightWritten
<1>5. Calm => Target(task[p]) = "right"
  BY OneWayMerges DEF Calm
<1>6. QED
  BY <1>1, <1>2, <1>3, <1>4, <1>5, CloseFailedStore DEF KInv

LEMMA SyncNsKeeps ==
    ASSUME KInv, NEW p \in Paths, SyncNs(p)
    PROVE  KInv'
<1>1. CASE Merge(p)
  <2>1. /\ TInv' /\ Evaluated(p) /\ ~GivesUp(task[p])
        /\ UNCHANGED <<runVars, store>> /\ NoFault
        /\ \/ AllOff
           \/ Advances(p, "leftBefore", task[p].err)
    BY <1>1, MergeIs DEF KInv
  <2>2. task[p].step = "metas" /\ run = "syncing" /\ UNCHANGED runVars
    BY <2>1, StepOff DEF Evaluated
  <2>3. NoFault \/ Fault("read")
    BY <2>1
  <2>4. LeftKept' /\ TargetKept'
    BY <2>1, <2>2, <2>3, StoreKept
  <2>5. LeftRead'
    <3>1. CASE AllOff
      BY <3>1, OffReads
    <3>2. CASE Advances(p, "leftBefore", task[p].err)
      <4>1. GivesUp(task[p]) = FALSE
        BY <2>1 DEF GivesUp
      <4>2. QED
        BY <2>2, <2>3, <3>2, <4>1, AdvanceReads
    <3>3. QED
      BY <2>1, <3>1, <3>2
  <2>6. QED
    BY <2>1, <2>2, <2>3, <2>4, <2>5, EntryKeeps
<1>2. CASE LeftBefore(p)
  <2> DEFINE t == task[p]
  <2>1. /\ TInv' /\ UNCHANGED runVars /\ p \in Spaces /\ t.step = "leftBefore"
        /\ \E err \in BOOLEAN :
              /\ Advances(p, "rightBefore", err)
              /\ NsWritten(p, "left", NeedsBefore(t, "left"), MakesBefore(t, "left"),
                           MergedBefore(t, "left"), err)
    BY <1>2, LeftBeforeIs DEF KInv
  <2>2. PICK err \in BOOLEAN :
              /\ Advances(p, "rightBefore", err)
              /\ NsWritten(p, "left", NeedsBefore(t, "left"), MakesBefore(t, "left"),
                           MergedBefore(t, "left"), err)
    BY <2>1
  <2>3. NoFault \/ Fault("write")
    BY <2>2 DEF NsWritten
  <2>4. run = "syncing"
    BY <2>1, StepOff
  <2>5. LeftKept' /\ TargetKept'
    <3>1. CASE ~Calm
      BY <2>1, <2>3, <3>1, Uncalm
    <3>2. CASE Calm
      <4>1. ~NeedsBefore(t, "left")
        BY <3>2, OneWayMerges DEF Calm
      <4>2. UNCHANGED store
        BY <2>2, <4>1 DEF NsWritten
      <4>3. QED
        BY <2>1, <2>3, <4>2, StoreKept
    <3>3. QED
      BY <3>1, <3>2
  <2>6. LeftRead'
    BY <2>1, <2>2, <2>3, AdvanceReads
  <2>7. QED
    BY <2>1, <2>3, <2>4, <2>5, <2>6, EntryKeeps
<1>3. CASE RightBefore(p)
  <2> DEFINE t == task[p]
             C == MergedBefore(t, "right")
  <2>1. /\ TInv' /\ UNCHANGED runVars /\ p \in Spaces /\ t.step = "rightBefore"
        /\ \E err \in BOOLEAN :
              /\ Spawns(p, err)
              /\ NsWritten(p, "right", NeedsBefore(t, "right"), MakesBefore(t, "right"), C, err)
    BY <1>3, RightBeforeIs DEF KInv
  <2>2. PICK err \in BOOLEAN :
              /\ Spawns(p, err)
              /\ NsWritten(p, "right", NeedsBefore(t, "right"), MakesBefore(t, "right"), C, err)
    BY <2>1
  <2>3. NoFault \/ Fault("write")
    BY <2>2 DEF NsWritten
  <2>4. run = "syncing"
    BY <2>1, StepOff
  <2>5. C \in SUBSET Children(p) /\ (~bidir => exCh(t, "left") \subseteq C)
    BY TaskTyped, MergedTyped, OneWayMerges DEF KInv, Sides
  <2>6. LeftKept' /\ TargetKept'
    <3> HIDE DEF C
    <3>1. QED
      BY <2>1, <2>2, <2>5, NsRightKeeps
  <2>7. LeftRead'
    BY <2>1, <2>2, <2>3, SpawnReads
  <2>8. QED
    BY <2>1, <2>3, <2>4, <2>6, <2>7, EntryKeeps
<1>4. CASE LeftAfter(p)
  <2> DEFINE t == task[p]
  <2>1. /\ TInv' /\ UNCHANGED runVars /\ p \in Spaces /\ t.step = "children"
        /\ \E err \in BOOLEAN :
              /\ Advances(p, "rightAfter", err)
              /\ NsWritten(p, "left", NeedsAfter(t, "left"), MakesAfter(t, "left"),
                           MergedAfter(t, "left"), err)
    BY <1>4, LeftAfterIs DEF KInv
  <2>2. PICK err \in BOOLEAN :
              /\ Advances(p, "rightAfter", err)
              /\ NsWritten(p, "left", NeedsAfter(t, "left"), MakesAfter(t, "left"),
                           MergedAfter(t, "left"), err)
    BY <2>1
  <2>3. NoFault \/ Fault("write")
    BY <2>2 DEF NsWritten
  <2>4. run = "syncing"
    BY <2>1, StepOff
  <2>5. LeftKept' /\ TargetKept'
    BY <2>1, <2>2, NsLeftKeeps
  <2>6. LeftRead'
    BY <2>1, <2>2, <2>3, AdvanceReads
  <2>7. QED
    BY <2>1, <2>3, <2>4, <2>5, <2>6, EntryKeeps
<1>5. CASE RightAfter(p)
  <2> DEFINE t == task[p]
             C == MergedAfter(t, "right")
  <2>1. /\ TInv' /\ UNCHANGED runVars /\ p \in Spaces /\ t.step = "rightAfter"
        /\ \E err \in BOOLEAN :
              /\ Advances(p, "done", err)
              /\ NsWritten(p, "right", NeedsAfter(t, "right"), MakesAfter(t, "right"), C, err)
    BY <1>5, RightAfterIs DEF KInv
  <2>2. PICK err \in BOOLEAN :
              /\ Advances(p, "done", err)
              /\ NsWritten(p, "right", NeedsAfter(t, "right"), MakesAfter(t, "right"), C, err)
    BY <2>1
  <2>3. NoFault \/ Fault("write")
    BY <2>2 DEF NsWritten
  <2>4. run = "syncing"
    BY <2>1, StepOff
  <2>5. C \in SUBSET Children(p) /\ (~bidir => exCh(t, "left") \subseteq C)
    BY TaskTyped, MergedTyped, OneWayMerges DEF KInv, Sides
  <2>6. LeftKept' /\ TargetKept'
    <3> HIDE DEF C
    <3>1. QED
      BY <2>1, <2>2, <2>5, NsRightKeeps
  <2>7. LeftRead'
    BY <2>1, <2>2, <2>3, AdvanceReads
  <2>8. QED
    BY <2>1, <2>3, <2>4, <2>6, <2>7, EntryKeeps
<1>6. QED
  BY <1>1, <1>2, <1>3, <1>4, <1>5 DEF SyncNs

LEMMA SyncContentKeeps ==
    ASSUME KInv, NEW p \in Paths, SyncContent(p)
    PROVE  KInv'
<1> DEFINE t == task[p]
           meta == t.meta[Origin(t)]
<1>1. CASE SkipContent(p)
  <2>1. /\ TInv' /\ UNCHANGED <<runVars, store>> /\ NoFault /\ CopyReady(p)
        /\ Advances(p, "done", FALSE)
    BY <1>1, SkipContentIs DEF KInv
  <2>2. task[p].step = "metas" /\ run = "syncing" /\ UNCHANGED runVars
    BY <2>1, StepOff DEF CopyReady, Evaluated
  <2>3. NoFault \/ Fault("read")
    BY <2>1
  <2>4. LeftKept' /\ TargetKept'
    BY <2>1, <2>2, <2>3, StoreKept
  <2>5. LeftRead'
    BY <2>1, <2>2, <2>3, AdvanceReads
  <2>6. QED
    BY <2>1, <2>2, <2>3, <2>4, <2>5, EntryKeeps
<1>2. CASE OpenContent(p)
  <2>1. /\ TInv' /\ UNCHANGED runVars /\ CopyReady(p)
        /\ NoFault \/ Fault("read") \/ Fault("write")
        /\ \/ Advances(p, "done", TRUE) /\ UNCHANGED store
           \/ /\ ~Unreadable(Origin(t), p) /\ Advances(p, "fill", t.err)
              /\ store' = [store EXCEPT ![Target(t)] = Opened(Target(t), p)]
    BY <1>2, OpenContentIs DEF KInv
  <2>2. task[p].step = "metas" /\ run = "syncing" /\ ~GivesUp(t) /\ p \in Paths \ Spaces
    BY <2>1, StepOff DEF CopyReady, Evaluated
  <2>3. PICK f \in {"read", "write", "copy", "crash"} : NoFault \/ Fault(f)
    BY <2>1
  <2>4. LeftRead'
    <3>1. CASE Advances(p, "done", TRUE)
      BY <2>1, <2>2, <2>3, <3>1, AdvanceReads
    <3>2. CASE ~Unreadable(Origin(t), p) /\ Advances(p, "fill", t.err)
      <4>1. GivesUp(task[p]) = FALSE
        BY <2>2 DEF GivesUp
      <4>2. Calm => before["left"][p].data # Nothing
        <5>1. Calm => Origin(t) = "left"
          BY OneWayMerges DEF Calm
        <5>2. Calm => store["left"][p] = before["left"][p]
          BY <2>2 DEF KInv, LeftKept
        <5>3. QED
          BY <3>2, <5>1, <5>2 DEF Unreadable
      <4>3. QED
        BY <2>1, <2>2, <2>3, <3>2, <4>1, <4>2, AdvanceReads
    <3>3. QED
      BY <2>1, <3>1, <3>2
  <2>5. LeftKept' /\ TargetKept'
    <3>1. CASE UNCHANGED store
      BY <2>1, <2>3, <3>1, StoreKept
    <3>2. CASE kind[Target(t)] = "object" /\ store' = [store EXCEPT ![Target(t)] = Opened(Target(t), p)]
      <4>1. store' = [store EXCEPT ![Target(t)] = store[Target(t)]] /\ Target(t) \in Sides
        BY <3>2, OriginTyped DEF Opened
      <4>2. UNCHANGED store
        BY <4>1, StoresTyped DEF KInv, TInv
      <4>3. QED
        BY <2>1, <2>3, <4>2, StoreKept
    <3>3. CASE kind[Target(t)] # "object" /\ store' = [store EXCEPT ![Target(t)] = Opened(Target(t), p)]
      <4>1. store' = [store EXCEPT ![Target(t)] = PutContent(Target(t), p, Now, Empty)]
        BY <3>3 DEF Opened
      <4>2. Now \in Nat /\ Empty \in Nat
        BY DEF KInv, TInv, TypeOK, Now, Empty
      <4>3. Calm => kind["right"] # "object"
        BY <3>3, OneWayMerges DEF Calm
      <4>4. QED
        BY <2>1, <2>2, <2>3, <4>1, <4>2, <4>3, ContentRightKeeps
    <3>4. QED
      BY <2>1, <3>1, <3>2, <3>3
  <2>6. QED
    BY <2>1, <2>2, <2>3, <2>4, <2>5, EntryKeeps
<1>3. CASE FillContent(p)
  <2>1. /\ TInv' /\ UNCHANGED runVars /\ p \in Paths \ Spaces /\ t.step = "fill"
        /\ \/ NoFault /\ Advances(p, "done", TRUE) /\ UNCHANGED store
           \/ Closed(p, meta.data) /\ Unreadable(Origin(t), p) /\ NoFault
           \/ Closed(p, store[Origin(t)][p].data) /\ NoFault
           \/ Closed(p, Torn) /\ Fault("copy")
           \/ CloseFailed(p) /\ Fault("write")
    BY <1>3, FillContentIs DEF KInv
  <2>2. run = "syncing"
    BY <2>1, StepOff
  <2>2a. PICK f \in {"read", "write", "copy", "crash"} : NoFault \/ Fault(f)
    BY <2>1
  <2>3. Origin(t) \in Sides /\ t \in TaskRecords /\ store \in [Sides -> Stores]
    BY OriginTyped, TaskTyped, StoresTyped DEF KInv, TInv
  <2>4. meta \in Entries /\ store[Origin(t)][p] \in Entries
    BY <2>1, <2>3 DEF TaskRecords, Stores
  <2>5. meta.mtime \in Nat /\ meta.data \in Nat /\ store[Origin(t)][p].data \in Nat /\ Torn \in Nat
    BY <2>4 DEF Entries, Torn
  <2>6. ASSUME Calm, Listed(before["left"], p), Seen(p)
        PROVE  /\ ~Unreadable(Origin(t), p)
               /\ store[Origin(t)][p].data = before["left"][p].data
    <3>1. Origin(t) = "left"
      BY <2>6, OneWayMerges DEF Calm
    <3>2. before["left"][p].data # Nothing
      BY <2>1, <2>6, LeftKnown
    <3>3. Listed(store["left"], p)
      BY <2>6, LeftLists DEF KInv
    <3>4. store["left"][p] = before["left"][p]
      BY <2>1, <2>6 DEF KInv, LeftKept
    <3>5. QED
      BY <3>1, <3>2, <3>3, <3>4 DEF Unreadable
  <2>7. LeftRead'
    <3>1. PICK err : Advances(p, "done", err)
      BY <2>1 DEF Closed, CloseFailed
    <3>2. QED
      BY <2>1, <2>2a, <3>1, AdvanceReads
  <2>8. ASSUME NEW d \in Nat, Closed(p, d),
               Calm => \/ "copy" \in upset'
                       \/ Listed(before["left"], p) /\ Seen(p) => d = before["left"][p].data
        PROVE  LeftKept' /\ TargetKept'
    <3>1. store' = [store EXCEPT ![Target(t)] = PutContent(Target(t), p, meta.mtime, d)]
      BY <2>8 DEF Closed
    <3>2. QED
      BY <2>1, <2>2a, <2>5, <2>8, <3>1, ContentRightKeeps
  <2>9. LeftKept' /\ TargetKept'
    <3>1. CASE UNCHANGED store
      BY <2>1, <2>2a, <3>1, StoreKept
    <3>2. CASE Closed(p, meta.data) /\ Unreadable(Origin(t), p)
      BY <2>5, <2>6, <2>8, <3>2
    <3>3. CASE Closed(p, store[Origin(t)][p].data)
      BY <2>5, <2>6, <2>8, <3>3
    <3>4. CASE Closed(p, Torn) /\ Fault("copy")
      <4>1. "copy" \in upset'
        BY <3>4 DEF Fault, Mishap
      <4>2. QED
        BY <2>5, <2>8, <3>4, <4>1
    <3>5. CASE CloseFailed(p) /\ Fault("write")
      BY <2>1, <3>5, CloseFailedKeeps
    <3>6. QED
      BY <2>1, <3>1, <3>2, <3>3, <3>4, <3>5
  <2>10. QED
    BY <2>1, <2>2, <2>2a, <2>7, <2>9, EntryKeeps
<1>4. QED
  BY <1>1, <1>2, <1>3 DEF SyncContent

LEMMA EndedKeeps ==
    ASSUME KInv, TInv', AllOff, run' # "syncing", upset \subseteq upset',
           UNCHANGED <<options, store, clock, before, misread, written>>
    PROVE  KInv'
<1>1. UNCHANGED <<kind, bidir, keep, busy, store, before, misread, written>> /\ (Calm' => Calm)
  BY DEF options, Calm
<1>2. Quiet' /\ WrittenContents' /\ Misreader'
  BY <1>1 DEF KInv, Quiet, WrittenContents, Misreader
<1>3. LeftKept'
  BY <1>1 DEF KInv, LeftKept
<1>4. TargetKept'
  <2> SUFFICES ASSUME Calm', NEW p \in Paths,
                      Listed(before["left"], p), Listed(before["right"], p), Seen(p)
               PROVE  /\ \/ Listed(store["right"], p)
                         \/ kind["right"] = "fsy" /\ p \notin Spaces /\ "write" \in upset'
                      /\ kind["right"] = "object" /\ "copy" \notin upset' /\ p \notin Spaces =>
                            store["right"][p].data \in {before[s][p].data : s \in Sides}
    BY <1>1 DEF TargetKept, Calm, Seen
  <2>1. QED
    BY <1>1 DEF KInv, TargetKept, Calm
<1>5. LeftRead'
  BY OffReads
<1>6. SourceKeptAtRest'
  BY <1>1 DEF KInv, SourceKeptAtRest, Seen, Holds
<1>7. QED
  BY <1>2, <1>3, <1>4, <1>5, <1>6 DEF KInv

LEMMA BeginRunKeeps ==
    ASSUME KInv, BeginRun
    PROVE  KInv'
<1>1. /\ TInv' /\ upset' = {} /\ before' = store /\ UNCHANGED <<options, store, misread, written>>
      /\ task'[Root] = Task([s \in Sides |-> TRUE], FALSE)
      /\ \A p \in Paths \ {Root} : task'[p] = Off
  BY BeginRunIs DEF KInv
<1>2. UNCHANGED <<kind, bidir, keep, busy, store, misread, written>>
  BY <1>1 DEF options
<1>3. Quiet' /\ WrittenContents' /\ LeftKept' /\ Misreader'
  BY <1>1, <1>2 DEF KInv, Quiet, WrittenContents, LeftKept, Misreader
<1>4. TargetKept'
  <2>1. \A p \in Paths : before'["right"][p].data \in {before'[s][p].data : s \in Sides}
    BY DEF Sides
  <2>2. QED
    BY <1>1, <2>1 DEF TargetKept
<1>5. LeftRead'
  <2> SUFFICES ASSUME NEW p \in Paths PROVE LeftReadAt(p, task[p])'
    BY DEF LeftRead
  <2>1. CASE p = Root
    <3> DEFINE exist == [s \in Sides |-> TRUE]
    <3>1. exist \in [Sides -> BOOLEAN] /\ exist["left"] /\ "left" \in Sides
          /\ task'[Root] = Task(exist, FALSE) /\ FALSE \in BOOLEAN
      BY <1>1 DEF Sides
    <3> HIDE DEF exist
    <3>2. /\ task'[Root].exist = exist /\ task'[Root].unread = {s \in Sides : exist[s]}
          /\ task'[Root].step = "metas"
      BY <3>1 DEF Task, Off
    <3>3. QED
      BY <2>1, <3>1, <3>2 DEF LeftReadAt
  <2>2. CASE p # Root
    BY <1>1, <2>2 DEF LeftReadAt, Off
  <2>3. QED
    BY <2>1, <2>2
<1>6. SourceKeptAtRest'
  BY <1>2 DEF KInv, SourceKeptAtRest, Seen, Holds
<1>7. QED
  BY <1>1, <1>3, <1>4, <1>5, <1>6 DEF KInv

\* What users do when no run is on, and to a side that a run does not follow.
LEMMA EditKeeps ==
    ASSUME KInv, TInv', NEW s \in Sides, NEW p \in Paths \ {Root}, NEW data,
           EditEffect(s, p, data), p \in Spaces => data = 0,
           ~bidir /\ s = "left" =>
              \A q \in Paths \ Spaces : written'[q] # 0 /\ (q # p => Holds("left", q, written[q]))
                 => Holds("left", q, written[q])'
    PROVE  KInv'
<1>1. /\ Editable /\ "edit" \in upset'
      /\ written' = IF ~bidir /\ s = "right" THEN written
                    ELSE [q \in Paths |-> IF q = p THEN data
                                          ELSE IF p \in Above[q] THEN 0 ELSE written[q]]
      /\ run' = (IF run = "syncing" THEN run ELSE "idle")
      /\ UNCHANGED <<kind, bidir, keep, busy, misread>>
      /\ \A r \in Sides \ {s} : store'[r] = store[r]
  BY DEF EditEffect, options
<1>2. Quiet'
  BY <1>1 DEF Quiet, Editable
<1>3. WrittenContents' /\ Misreader'
  BY <1>1 DEF KInv, WrittenContents, Misreader
<1>4. LeftKept' /\ LeftRead' /\ TargetKept'
  BY <1>1 DEF LeftKept, LeftRead, TargetKept, Calm
<1>5. SourceKeptAtRest'
  <2> SUFFICES ASSUME ~busy, ~bidir, NEW q \in Paths, written'[q] # 0, Seen(q)
               PROVE  Holds("left", q, written[q])'
    BY <1>1 DEF SourceKeptAtRest, Seen
  <2>1. q \notin Spaces
    BY <1>3 DEF WrittenContents
  <2>2. written[q] # 0 => Holds("left", q, written[q])
    BY DEF KInv, SourceKeptAtRest
  <2>3. CASE s = "right"
    <3>1. written' = written /\ store'["left"] = store["left"]
      BY <1>1, <2>3 DEF Sides
    <3>2. QED
      BY <2>2, <3>1 DEF Holds
  <2>4. CASE s = "left"
    <3>1. q # p => written'[q] = written[q]
      BY <1>1, <2>4
    <3>2. q # p => Holds("left", q, written[q])
      BY <2>2, <3>1
    <3>3. QED
      BY <2>1, <2>4, <3>2
  <2>5. QED
    BY <2>3, <2>4 DEF Sides
<1>6. QED
  BY <1>2, <1>3, <1>4, <1>5 DEF KInv

\* A content the user writes is listed, and what is listed elsewhere stays.
LEMMA EditEntryLists ==
    ASSUME TInv, NEW s \in Sides, NEW p \in Paths \ {Root}, EditEntry(s, p),
           NEW q \in Paths, p \notin Above[q], q # p => Listed(store[s], q)
    PROVE  Listed(store'[s], q)
<1>1. /\ TInv' /\ EditEffect(s, p, IF p \in Spaces THEN 0 ELSE clock + 2)
      /\ Listed(store[s], Parent[p]) /\ Parent[p] \in Paths \ {p}
      /\ store'[s][p] = [mtime |-> clock + 2, ch |-> {},
                         data |-> IF p \in Spaces THEN Empty ELSE clock + 2]
      /\ store'[s][Parent[p]].ch = store[s][Parent[p]].ch \union {p}
      /\ \A x \in Paths \ {p, Parent[p]} : store'[s][x] = store[s][x]
  BY EditEntryIs
<1>2. ASSUME NEW r \in Line(q) \ {Root}, r \in store[s][Parent[r]].ch PROVE r \in store'[s][Parent[r]].ch
  <2>1. Parent[r] \in Above[q] /\ Parent[r] \in Paths
    BY <1>2, AboveFacts
  <2>2. QED
    BY <1>1, <1>2, <2>1
<1>3. CASE q = p
  <2>1. Above[p] = Line(Parent[p])
    BY ParentIs
  <2>2. \A r \in Line(Parent[p]) \ {Root} : r \in store[s][Parent[r]].ch => r \in store'[s][Parent[r]].ch
    BY <1>2, <1>3, <2>1 DEF Line
  <2>3. Listed(store'[s], Parent[p])
    BY <1>1, <2>2, ListedKept
  <2>4. QED
    BY <1>1, <1>3, <2>3, ListedStep
<1>4. CASE q # p
  BY <1>2, <1>4, ListedKept
<1>5. QED
  BY <1>3, <1>4

\* What is not below a removed entry stays listed.
LEMMA RemoveEntryLists ==
    ASSUME TInv, NEW s \in Sides, NEW p \in Paths \ {Root}, RemoveEntry(s, p),
           NEW q \in Paths, p \notin Line(q), Listed(store[s], q)
    PROVE  Listed(store'[s], q)
<1>1. /\ store'[s][Parent[p]].ch = store[s][Parent[p]].ch \ {p}
      /\ \A x \in Paths \ {Parent[p]} : p \notin Line(x) => store'[s][x] = store[s][x]
  BY RemoveEntryIs
<1>2. ASSUME NEW r \in Line(q) \ {Root}, r \in store[s][Parent[r]].ch PROVE r \in store'[s][Parent[r]].ch
  <2>1. Parent[r] \in Above[q] /\ Parent[r] \in Paths
    BY <1>2, AboveFacts
  <2>2. p \notin Line(Parent[r]) /\ r # p
    BY <1>2, <2>1, AboveFacts DEF Line
  <2>3. QED
    BY <1>1, <1>2, <2>1, <2>2
<1>3. QED
  BY <1>2, ListedKept

LEMMA EditEntryKeeps ==
    ASSUME KInv, NEW s \in Sides, NEW p \in Paths \ {Root}, EditEntry(s, p)
    PROVE  KInv'
<1> DEFINE st == store[s]
           new == store'[s]
           data == IF p \in Spaces THEN 0 ELSE clock + 2
<1>1. /\ TInv' /\ EditEffect(s, p, data)
      /\ new[p] = [mtime |-> clock + 2, ch |-> {}, data |-> IF p \in Spaces THEN Empty ELSE clock + 2]
      /\ \A q \in Paths \ {p, Parent[p]} : new[q] = st[q]
  BY EditEntryIs DEF KInv
<1>2. ASSUME ~bidir, s = "left", NEW q \in Paths \ Spaces, written'[q] # 0,
             q # p => Holds("left", q, written[q])
      PROVE  Holds("left", q, written[q])'
  <2>1. /\ p \notin Above[q]
        /\ written'[q] = (IF q = p THEN data ELSE written[q])
    BY <1>1, <1>2, AboveFacts DEF EditEffect
  <2>2. q # p => Listed(st, q) /\ st[q].data = written[q]
    BY <1>2 DEF Holds
  <2>3. Listed(new, q)
    BY <2>1, <2>2, EditEntryLists DEF KInv
  <2>4. CASE q = p
    BY <1>1, <1>2, <2>1, <2>3, <2>4 DEF Holds
  <2>5. CASE q # p
    <3>1. q # Parent[p]
      BY <1>2, ParentIs
    <3>2. QED
      BY <1>1, <1>2, <2>1, <2>2, <2>3, <2>5, <3>1 DEF Holds
  <2>6. QED
    BY <2>4, <2>5
<1>3. QED
  BY <1>1, <1>2, EditKeeps

LEMMA RemoveEntryKeeps ==
    ASSUME KInv, NEW s \in Sides, NEW p \in Paths \ {Root}, RemoveEntry(s, p)
    PROVE  KInv'
<1> DEFINE st == store[s]
           new == store'[s]
<1>1. /\ TInv' /\ EditEffect(s, p, 0)
      /\ \A q \in Paths \ {Parent[p]} : p \notin Line(q) => new[q] = st[q]
  BY RemoveEntryIs DEF KInv
<1>2. ASSUME ~bidir, s = "left", NEW q \in Paths \ Spaces, written'[q] # 0,
             q # p => Holds("left", q, written[q])
      PROVE  Holds("left", q, written[q])'
  <2>1. p \notin Line(q) /\ q # p /\ written'[q] = written[q]
    BY <1>1, <1>2 DEF EditEffect, Line
  <2>2. Listed(st, q) /\ st[q].data = written[q]
    BY <1>2, <2>1 DEF Holds
  <2>3. Listed(new, q)
    BY <2>1, <2>2, RemoveEntryLists DEF KInv
  <2>4. q # Parent[p]
    BY <1>2, ParentIs
  <2>5. QED
    BY <1>1, <1>2, <2>1, <2>2, <2>3, <2>4 DEF Holds
<1>3. QED
  BY <1>1, <1>2, EditKeeps

LEMMA InitKeeps == Init => KInv
<1> SUFFICES ASSUME Init PROVE KInv
  OBVIOUS
<1>1. TInv
  BY InitTyped
<1>2. /\ run = "idle" /\ before = store /\ misread = {} /\ \A p \in Paths : written[p] = 0 /\ task[p] = Off
  BY DEF Init
<1>3. Quiet /\ WrittenContents /\ Misreader /\ LeftKept /\ SourceKeptAtRest
  BY <1>2 DEF Quiet, WrittenContents, Misreader, LeftKept, SourceKeptAtRest
<1>4. LeftRead
  BY <1>2 DEF LeftRead, LeftReadAt, Off
<1>5. TargetKept
  <2>1. \A p \in Paths : before["right"][p].data \in {before[s][p].data : s \in Sides}
    BY DEF Sides
  <2>2. QED
    BY <1>2, <2>1 DEF TargetKept
<1>6. QED
  BY <1>1, <1>3, <1>4, <1>5 DEF KInv

LEMMA StepKeeps == KInv /\ [Next]_vars => KInv'
<1> SUFFICES ASSUME KInv, [Next]_vars PROVE KInv'
  OBVIOUS
<1>1. CASE BeginRun
  BY <1>1, BeginRunKeeps
<1>2. CASE EndRun
  <2>1. /\ TInv' /\ AllOff /\ run' = "finished" /\ upset \subseteq upset'
        /\ UNCHANGED <<options, store, clock, before, misread, written>>
    BY <1>2, EndRunIs DEF KInv
  <2>2. QED
    BY <2>1, EndedKeeps
<1>3. ASSUME NEW p \in Paths, NEW s \in Sides, ReadMeta(p, s) PROVE KInv'
  <2>1. /\ TInv' /\ UNCHANGED <<runVars, store>> /\ task[p].step = "metas"
        /\ NoFault \/ Fault("read") \/ Misreads
        /\ misread' = misread \/ (misread' = misread \union {q \in {p} : s = "left"} /\ kind[s] = "object")
    BY <1>3, ReadMetaIs DEF KInv, NoFault, noFault, Fault
  <2>2. run = "syncing" /\ UNCHANGED runVars
    BY <2>1, StepOff
  <2>3. LeftKept' /\ TargetKept'
    BY <2>1, <2>2, StoreKept
  <2>4. LeftRead'
    BY <1>3, ReadMetaReads
  <2>5. Misreader'
    BY <2>1, <2>2 DEF KInv, Misreader, runVars, options
  <2>6. QED
    BY <2>1, <2>2, <2>3, <2>4, <2>5, RunEntryKeeps
<1>4. ASSUME NEW p \in Paths, GiveUp(p) PROVE KInv'
  <2>1. /\ TInv' /\ Advances(p, "done", TRUE) /\ UNCHANGED <<runVars, store>> /\ NoFault
        /\ task[p].step = "metas"
    BY <1>4, GiveUpIs DEF KInv, Evaluated
  <2>2. run = "syncing" /\ UNCHANGED runVars /\ (NoFault \/ Fault("read"))
    BY <2>1, StepOff
  <2>3. LeftKept' /\ TargetKept'
    BY <2>1, <2>2, StoreKept
  <2>4. LeftRead'
    BY <2>1, <2>2, AdvanceReads
  <2>5. QED
    BY <2>1, <2>2, <2>3, <2>4, EntryKeeps
<1>5. ASSUME NEW p \in Paths, SyncNs(p) PROVE KInv'
  BY <1>5, SyncNsKeeps
<1>6. ASSUME NEW p \in Paths, SyncContent(p) PROVE KInv'
  BY <1>6, SyncContentKeeps
<1>7. CASE Crash
  <2>1. /\ TInv' /\ AllOff /\ run' = "failed" /\ upset \subseteq upset'
        /\ UNCHANGED <<runVars, store, misread>>
    BY <1>7, CrashIs DEF KInv, Fault, Mishap
  <2>2. UNCHANGED <<options, store, clock, before, misread, written>>
    BY <2>1 DEF runVars
  <2>3. QED
    BY <2>1, <2>2, EndedKeeps
<1>8. ASSUME NEW s \in Sides, NEW p \in Paths \ {Root}, EditEntry(s, p) PROVE KInv'
  BY <1>8, EditEntryKeeps
<1>9. ASSUME NEW s \in Sides, NEW p \in Paths \ {Root}, RemoveEntry(s, p) PROVE KInv'
  BY <1>9, RemoveEntryKeeps
<1>10. CASE UNCHANGED vars
  <2>1. TInv'
    BY <1>10, StepKeepsTypes DEF KInv
  <2>2. UNCHANGED <<kind, bidir, keep, busy, store, task, before, misread, written, run, upset>>
    BY <1>10 DEF vars, options
  <2>3. Quiet' /\ WrittenContents' /\ Misreader' /\ LeftKept' /\ SourceKeptAtRest'
    BY <2>2 DEF KInv, Quiet, WrittenContents, Misreader, LeftKept, Calm, SourceKeptAtRest, Seen, Holds
  <2>4. LeftRead' /\ TargetKept'
    BY <2>2 DEF KInv, LeftRead, LeftReadAt, TargetKept, Calm, Seen
  <2>5. QED
    BY <2>1, <2>3, <2>4 DEF KInv
<1>11. QED
  BY <1>1, <1>2, <1>3, <1>4, <1>5, <1>6, <1>7, <1>8, <1>9, <1>10
     DEF Next, SyncStep, SyncEntry, EditStep

\* The invariant of the runs from left to right.
THEOREM SyncInvariant == Spec => []KInv
<1>1. Init => KInv
  BY InitKeeps
<1>2. KInv /\ [Next]_vars => KInv'
  BY StepKeeps
<1>3. QED
  BY <1>1, <1>2, PTL DEF Spec

\* From left to right, when users only edit between the runs, no run takes a
\* content of the left side away, faults or not, but one below a namespace that an
\* object store has read as empty.
THEOREM SyncSourceKeptAtRest == Spec => []SourceKeptAtRest
<1>1. KInv => SourceKeptAtRest
  BY DEF KInv
<1>2. QED
  BY <1>1, SyncInvariant, PTL

\* From left to right, what both sides had stays on the right side at every step
\* of the run, but for what is below a namespace read as empty from the left and
\* the file whose Close failed; and an object store never shows a mixed content.
THEOREM SyncTargetKept == Spec => []TargetKept
<1>1. KInv => TargetKept
  BY DEF KInv
<1>2. QED
  BY <1>1, SyncInvariant, PTL
=============================================================================
