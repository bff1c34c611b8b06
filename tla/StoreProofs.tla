---------------------------- MODULE StoreProofs -----------------------------
(***************************************************************************)
(* What TLAPS proves of an object store DSS, its contents, their purge,    *)
(* the removal of entries and what GetHistory says, for any tree,          *)
(* contents, goroutines, uses and bounds.                                  *)
(***************************************************************************)
EXTENDS Store, FiniteSetTheorems, WellFoundedInduction, TLAPS

Steps == {"idle", "stamp", "query", "push", "index", "store",
          "metas", "contents", "check", "purge", "select", "drop", "unstore"}
Ops == {"none", "updatens", "write", "symlink", "remove", "scan", "removeHistory"}

-----------------------------------------------------------------------------
(* The inductive invariant                                                 *)

\* A call, whatever intervals it has selected.
IsCall(c) ==
    c \in [step : Steps, op : Ops, path : Paths, value : Values, time : 0 .. LastTime,
           entry : Paths, todo : {c.todo}, gone : {c.gone}, report : {c.report},
           split : {c.split}, halfway : {c.halfway}, contents : SUBSET Contents, from : Nat, to : Nat]

\* What a call does is a part of its operation.
StepOfOp(c) ==
    /\ c.step = "idle" => c = Idle
    /\ c.step \in {"stamp", "index", "store"} =>
          c.op \in {"updatens", "write", "symlink", "remove"}
    /\ c.step \in {"query", "push"} => c.op = "write"
    /\ c.step \in {"metas", "contents", "check", "purge"} => c.op = "scan"
    /\ c.step \in {"select", "drop", "unstore"} => c.op = "removeHistory"

\* It writes a list to a namespace, a content or a link to a file; the list of
\* Remove is without the entry. RemoveHistory takes versions of entries.
ValueOfOp(c) ==
    /\ c.op \in {"updatens", "remove"} => c.path \in Namespaces /\ c.value \in SUBSET Paths
    /\ c.op = "write" => c.path \in Files /\ c.value \in Contents
    /\ c.op = "symlink" => c.path \in Files /\ c.value = Link
    /\ c.op = "remove" => /\ c.entry # Root /\ c.path = Parent[c.entry]
                          /\ c.entry \notin c.value
    /\ c.op # "remove" => c.entry = Root
    /\ c.step \in {"contents", "check"} => c.todo \subseteq Versions
    /\ c.step \in {"drop", "unstore"} => \A s \in c.todo : s[1] \in Paths
    /\ c.step = "unstore" => c.gone[1] \in Paths

Calls ==
    /\ call = [th \in Threads |-> call[th]]
    /\ \A th \in Threads :
          IsCall(call[th]) /\ StepOfOp(call[th]) /\ ValueOfOp(call[th])

\* A version has metadata of its kind.
KindAt(p, t) ==
    /\ version[p][t] # NoVersion =>
          version[p][t] \in IF p \in Files THEN FileValues ELSE SUBSET Paths
    /\ t \in indexed[p] \union stored[p] => version[p][t] # NoVersion

Kinds == \A p \in Paths, t \in Times : KindAt(p, t)

Timed(th) == call[th].step \in {"query", "push", "index", "store"}

\* The clock is ahead of every version, and of every call.
Clocked ==
    /\ \A p \in Paths : indexed[p] \union stored[p] \subseteq 1 .. clock
    /\ \A th \in Threads : Timed(th) => call[th].time \in 1 .. clock

\* The version that a call makes is its own: nobody else makes one at its time,
\* and it is not stored; where the index lists it, that is because of the call.
FreshAt(th) ==
    LET p == call[th].path  t == call[th].time IN
    /\ Timed(th) => t \notin stored[p]
    /\ call[th].step = "store" /\ t \in indexed[p] => version[p][t] = call[th].value
    /\ \A u \in Threads \ {th} : Timed(th) /\ Timed(u) => call[u].time # t

Fresh == \A th \in Threads : FreshAt(th)

\* The versions that a write or a removal left halfway are in the index or the storage only.
Balance ==
    \A p \in Paths, t \in Times :
        <<p, t>> \in failed <=> ~ (t \in indexed[p] <=> t \in stored[p])

\* A file is written once its content is in the storage.
Written ==
    \A th \in Threads :
        call[th].op = "write" /\ call[th].step \in {"index", "store"} =>
            call[th].value \in content \union unsure

Referenced(ch) == \E p \in Files : \E t \in stored[p] : version[p][t] = ch

\* Nothing happens beside a scan that is not in doubt: it knows of every version
\* and content, and what it purges is what no version refers to.
ScanAt(th) ==
    LET c == call[th] IN
    c.op = "scan" /\ th \notin doubt =>
        /\ \A u \in Threads \ {th} : call[u] = Idle
        /\ c.step \in {"contents", "check"} => StoredVersions \subseteq c.todo
        /\ c.step = "check" => c.contents = content
        /\ c.step = "purge" =>
              /\ \A ch \in c.contents : ~ Referenced(ch)
              /\ \A ch \in content \ c.contents : Referenced(ch)

Scans == \A th \in Threads : ScanAt(th)

\* After a purge that nobody disturbed there is no garbage.
Settled == settled => \A ch \in content : Referenced(ch)

\* The newest version of the namespace does not list the entry.
Hidden(d, p) == indexed[d] = {} \/ p \notin version[d][Newest(indexed[d])]

\* Remove, where nobody contests it, is alone with the list of the parent, and
\* writes the newest version of it.
RemovingAt(th) ==
    LET c == call[th] IN
    c.op = "remove" /\ c.entry \notin contested =>
        /\ Listing(c.path) = {th}
        /\ c.step = "index" => \A u \in indexed[c.path] : u < c.time
        /\ c.step = "store" => Hidden(c.path, c.entry)

Removal ==
    /\ \A th \in Threads : RemovingAt(th)
    /\ \A p \in removed \ contested : Hidden(Parent[p], p)

IInv ==
    /\ TypeOK /\ Calls
    /\ Kinds /\ Clocked /\ Fresh /\ Balance
    /\ ContentKept /\ Written /\ Scans /\ Settled
    /\ Removal

-----------------------------------------------------------------------------
(* The newest version of a set, and the version that is visible            *)

\* Any set of natural numbers that is not empty has a least one.
LEMMA LeastNat ==
    ASSUME NEW N \in SUBSET Nat, N # {}
    PROVE  \E n \in N : \A m \in N : n <= m
<1> DEFINE Less == {ss \in Nat \X Nat : ss[1] < ss[2]}
<1>1. IsWellFoundedOn(Less, Nat)
  BY NatLessThanWellFounded DEF OpToRel
<1>2. PICK n \in N : \A m \in N : <<m, n>> \notin Less
  <2> HIDE DEF Less
  <2> QED
    BY <1>1, WFMin
<1>3. \A m \in N : ~ (m < n)
  BY <1>2
<1>4. QED
  BY <1>3

\* A set of versions that is not empty has a newest one, which Newest returns.
LEMMA NewestIs ==
    ASSUME NEW times \in SUBSET Times, times # {}
    PROVE  Newest(times) \in times /\ \A t \in times : t <= Newest(times)
<1>1. \A t \in times : t \in Nat /\ LastTime - t \in Nat
  BY TimesNatural DEF Times
<1>2. PICK least \in {LastTime - t : t \in times} :
          \A m \in {LastTime - t : t \in times} : least <= m
  <2>1. {LastTime - t : t \in times} \subseteq Nat /\ {LastTime - t : t \in times} # {}
    BY <1>1
  <2>2. QED
    BY <2>1, LeastNat
<1>3. PICK t \in times : least = LastTime - t
  BY <1>2
<1>4. ASSUME NEW u \in times PROVE u <= t
  <2>1. least <= LastTime - u
    BY <1>2
  <2>2. QED
    BY <2>1, <1>1, <1>3, TimesNatural
<1>5. QED
  BY <1>3, <1>4 DEF Newest

\* The newest version of any set, 0 of none, is a time.
LEMMA NewestType ==
    ASSUME NEW times \in SUBSET Times
    PROVE  Newest(times) \in 0 .. LastTime /\ (times # {} => Newest(times) \in Times)
<1>1. CASE times = {}
  BY <1>1, TimesNatural DEF Newest
<1>2. CASE times # {}
  <2>1. Newest(times) \in times
    BY <1>2, NewestIs
  <2>2. Newest(times) \in 1 .. LastTime
    BY <2>1 DEF Times
  <2>3. QED
    BY <2>2, TimesNatural DEF Times
<1>3. QED
  BY <1>1, <1>2

\* Once a version is added, it or the one that was newest is the newest.
LEMMA NewestOfMore ==
    ASSUME NEW times \in SUBSET Times, NEW t \in Times
    PROVE  /\ Newest(times \union {t}) = t \/ (times # {} /\ Newest(times \union {t}) = Newest(times))
           /\ (\A u \in times : u < t) => Newest(times \union {t}) = t
<1> DEFINE more == times \union {t}
<1>1. more \in SUBSET Times /\ more # {} /\ \A u \in more : u \in Nat
  BY TimesNatural DEF Times
<1>2. Newest(more) \in more /\ \A u \in more : u <= Newest(more)
  <2> HIDE DEF more
  <2> QED
    BY <1>1, NewestIs
<1>3. CASE Newest(more) = t
  BY <1>3
<1>4. CASE Newest(more) # t
  <2>1. Newest(more) \in times /\ t <= Newest(more)
    BY <1>2, <1>4
  <2>2. times # {} /\ Newest(times) \in times /\ \A u \in times : u <= Newest(times)
    BY <2>1, NewestIs
  <2>3. Newest(times) <= Newest(more) /\ Newest(more) <= Newest(times)
    BY <1>2, <2>1, <2>2
  <2>4. Newest(times) = Newest(more)
    BY <2>1, <2>2, <2>3, <1>1
  <2>5. ~ \A u \in times : u < t
    BY <2>1, <1>1
  <2>6. QED
    BY <2>2, <2>4, <2>5
<1>5. QED
  BY <1>3, <1>4

\* What is visible of an entry, where f says what is visible of its namespace.
Seen(f, q, t) ==
    IF q = Root \/ (f[Parent[q]] # 0 /\ q \in version[Parent[q]][f[Parent[q]]])
    THEN Newest({u \in indexed[q] : u <= t})
    ELSE 0

\* There is such a function: it is built from the root down, and an entry is
\* deeper than its namespace.
LEMMA SeenExists ==
    ASSUME NEW t
    PROVE  \E f : f = [q \in Paths |-> Seen(f, q, t)]
<1>1. PICK depth \in [Paths -> 0 .. Cardinality(Paths)] :
          \A p \in Paths \ {Root} : depth[Parent[p]] < depth[p]
  BY TreeRooted
<1>2. Cardinality(Paths) \in Nat
  BY PathsFinite, FS_CardinalityType
<1>3. \A p \in Paths : depth[p] \in Nat /\ Parent[p] \in Paths
  BY <1>2, RootIsNamespace, ParentIsNamespace
<1> DEFINE Good(n, f) == \A q \in Paths : depth[q] < n => f[q] = Seen(f, q, t)
           Bad == {n \in Nat : ~ \E f : DOMAIN f = Paths /\ f = [q \in Paths |-> f[q]] /\ Good(n, f)}
<1>4. Bad = {}
  <2> SUFFICES ASSUME Bad # {} PROVE FALSE
    OBVIOUS
  <2>1. PICK n \in Bad : \A m \in Bad : n <= m
    <3>1. Bad \in SUBSET Nat
      OBVIOUS
    <3> HIDE DEF Bad
    <3>2. QED
      BY <3>1, LeastNat
  <2>2. n # 0
    <3>1. Good(0, [q \in Paths |-> 0])
      BY <1>3
    <3>2. DOMAIN [q \in Paths |-> 0] = Paths
      OBVIOUS
    <3>3. QED
      BY <3>1, <3>2, <2>1
  <2>3. n - 1 \in Nat /\ n - 1 \notin Bad
    BY <2>1, <2>2
  <2>4. PICK f : DOMAIN f = Paths /\ f = [q \in Paths |-> f[q]] /\ Good(n - 1, f)
    BY <2>3
  <2> DEFINE g == [q \in Paths |-> Seen(f, q, t)]
  <2>5. ASSUME NEW q \in Paths, depth[q] < n PROVE g[q] = Seen(g, q, t)
    <3>1. CASE q = Root
      BY <3>1, SMTT(40) DEF Seen
    <3>2. CASE q # Root
      <4>1. depth[Parent[q]] < n - 1
        BY <1>1, <1>3, <2>1, <2>5, <3>2
      <4>2. g[Parent[q]] = f[Parent[q]]
        BY <1>3, <2>4, <4>1
      <4>3. QED
        BY <1>3, <4>2 DEF Seen
    <3>3. QED
      BY <3>1, <3>2
  <2>6. Good(n, g)
    BY <2>5
  <2>7. DOMAIN g = Paths /\ g = [q \in Paths |-> g[q]]
    OBVIOUS
  <2>8. QED
    BY <2>1, <2>6, <2>7
<1>5. PICK f : DOMAIN f = Paths /\ f = [q \in Paths |-> f[q]] /\ Good(Cardinality(Paths) + 1, f)
  BY <1>2, <1>4
<1>6. \A q \in Paths : f[q] = Seen(f, q, t)
  BY <1>1, <1>2, <1>5
<1>7. f = [q \in Paths |-> Seen(f, q, t)]
  BY <1>5, <1>6
<1>8. QED
  BY <1>7

\* An entry is visible where its namespace is and lists it; then its newest
\* version is.
LEMMA VisibleIs ==
    ASSUME NEW t, NEW p \in Paths
    PROVE  VisibleAt(p, t) =
             IF p = Root \/ (/\ VisibleAt(Parent[p], t) # 0
                             /\ p \in version[Parent[p]][VisibleAt(Parent[p], t)])
             THEN Newest({u \in indexed[p] : u <= t})
             ELSE 0
<1> DEFINE V == CHOOSE g : g = [q \in Paths |-> Seen(g, q, t)]
<1>1. V = [q \in Paths |-> Seen(V, q, t)]
  <2> HIDE DEF Seen
  <2> QED
    BY SeenExists
<1>2. \A q : VisibleAt(q, t) = V[q]
  BY DEF VisibleAt, Seen
<1> HIDE DEF V
<1>3. V[p] = Seen(V, p, t)
  BY <1>1
<1>4. QED
  BY <1>2, <1>3 DEF Seen

\* Now the newest version is visible, or none is.
LEMMA VisibleNow ==
    ASSUME TypeOK, NEW p \in Paths
    PROVE  VisibleAt(p, Forever) \in {0, Newest(indexed[p])}
<1>1. {u \in indexed[p] : u <= Forever} = indexed[p]
  BY TimesNatural DEF TypeOK, Times, Forever
<1>2. QED
  BY <1>1, VisibleIs

\* A namespace that lists an entry does so in its newest version.
LEMMA ListsNow ==
    ASSUME TypeOK, Kinds, NEW d \in Namespaces, NEW p, Lists(d, p, Forever)
    PROVE  /\ indexed[d] # {} /\ Newest(indexed[d]) \in Times
           /\ Now(d) = version[d][Newest(indexed[d])]
           /\ Now(d) \in SUBSET Paths /\ p \in Now(d)
<1>1. d \in Paths /\ d \notin Files
  BY RootIsNamespace DEF Files
<1>2. VisibleAt(d, Forever) = Newest(indexed[d]) /\ Newest(indexed[d]) # 0
  BY <1>1, VisibleNow DEF Lists
<1>3. indexed[d] \in SUBSET Times /\ indexed[d] # {}
  BY <1>1, <1>2 DEF TypeOK, Newest
<1>4. Newest(indexed[d]) \in indexed[d] /\ Newest(indexed[d]) \in Times
  BY <1>3, NewestIs
<1>5. version[d][Newest(indexed[d])] \in SUBSET Paths
  BY <1>1, <1>4 DEF Kinds, KindAt
<1>6. QED
  BY <1>2, <1>3, <1>4, <1>5 DEF Now, Lists

\* What is hidden in the newest version is not listed.
LEMMA HiddenIs ==
    ASSUME TypeOK, NEW d \in Paths, NEW p, Hidden(d, p)
    PROVE  ~ Lists(d, p, Forever)
<1>1. CASE indexed[d] = {}
  BY <1>1, VisibleNow DEF Newest, Lists
<1>2. CASE indexed[d] # {}
  BY <1>2, VisibleNow DEF Hidden, Lists
<1>3. QED
  BY <1>1, <1>2

-----------------------------------------------------------------------------
(* What each step does to the call of its goroutine                        *)

NewCall(d) == IsCall(d) /\ StepOfOp(d) /\ ValueOfOp(d)

Becomes(th, d) == call' = [call EXCEPT ![th] = d]

\* The call goes on with what it began with.
Continues(c, d) == d.op = c.op /\ d.path = c.path /\ d.value = c.value /\ d.entry = c.entry

\* It has read the clock before.
ContinuesAt(c, d) == Continues(c, d) /\ d.time = c.time

LEMMA IdleIs ==
    /\ NewCall(Idle)
    /\ Idle.step = "idle" /\ Idle.op = "none" /\ Idle.entry = Root
<1>1. Root \in Paths /\ NoVersion \in Values /\ 0 \in 0 .. LastTime
  BY RootIsNamespace, TimesNatural DEF Values
<1>2. IsCall(Idle)
  BY <1>1 DEF Idle, IsCall, Steps, Ops
<1>3. QED
  BY <1>2 DEF Idle, NewCall, StepOfOp, ValueOfOp

\* The call of one goroutine changes.
LEMMA BecomesIs ==
    ASSUME Calls, NEW th \in Threads, NEW d, NewCall(d), Becomes(th, d)
    PROVE  /\ Calls'
           /\ call'[th] = d
           /\ \A u \in Threads : u # th => call'[u] = call[u]
<1>1. call'[th] = d /\ \A u \in Threads : u # th => call'[u] = call[u]
  BY DEF Calls, Becomes
<1>2. call' = [u \in Threads |-> call'[u]]
  BY DEF Calls, Becomes
<1>3. \A u \in Threads : NewCall(call'[u])
  BY <1>1 DEF Calls, NewCall
<1>4. QED
  BY <1>1, <1>2, <1>3 DEF Calls, NewCall

\* A call of each operation, as it begins.
LEMMA BeginIs ==
    ASSUME TypeOK, Calls, Kinds, NEW th \in Threads, StartCall(th)
    PROVE  \E d : /\ NewCall(d) /\ Becomes(th, d) /\ Begin(th, d.op, d)
                  /\ d.step \in {"stamp", "metas", "select"} /\ d.op # "none" /\ d.report = {}
<1>1. ASSUME NEW d, NewCall(d), Begin(th, d.op, d),
             d.step \in {"stamp", "metas", "select"}, d.op # "none", d.report = {}
      PROVE  \E e : /\ NewCall(e) /\ Becomes(th, e) /\ Begin(th, e.op, e)
                    /\ e.step \in {"stamp", "metas", "select"} /\ e.op # "none" /\ e.report = {}
  BY <1>1 DEF Becomes, Begin
<1>2. /\ Root \in Paths /\ NoVersion \in Values /\ Link \in Values /\ 0 \in 0 .. LastTime
      /\ Namespaces \subseteq Paths /\ Files = Paths \ Namespaces
  BY RootIsNamespace, TimesNatural DEF Values, Files
<1>3. CASE \E n \in Namespaces : \E children \in SUBSET (ChildrenOf(n) \intersect mode.entries) :
               mkupns(th, n, children)
  <2>1. PICK n \in Namespaces, children \in SUBSET Paths : mkupns(th, n, children)
    BY <1>3 DEF ChildrenOf
  <2> DEFINE d == doUpdatens("updatens", n, Root, children)
  <2>2. NewCall(d) /\ d.op = "updatens" /\ d.step = "stamp" /\ d.report = {}
    <3>1. n \in Paths /\ children \in Values
      BY <1>2 DEF Values
    <3>2. QED
      BY <1>2, <3>1 DEF doUpdatens, Idle, NewCall, IsCall, StepOfOp, ValueOfOp, Steps, Ops
  <2>3. Begin(th, "updatens", d)
    BY <2>1 DEF mkupns
  <2> HIDE DEF d
  <2>4. QED
    BY <1>1, <2>2, <2>3
<1>4. CASE \E p \in Files, ch \in mode.contents : getContentWriter(th, p, ch)
  <2>1. PICK p \in Files, ch \in mode.contents : getContentWriter(th, p, ch)
    BY <1>4
  <2> DEFINE d == [Idle EXCEPT !.step = "stamp", !.op = "write", !.path = p, !.value = ch]
  <2>2. NewCall(d) /\ d.op = "write" /\ d.step = "stamp" /\ d.report = {}
    <3>1. p \in Paths /\ ch \in Contents /\ ch \in Values
      BY <1>2, ModesComplete DEF TypeOK, Values
    <3>2. QED
      BY <1>2, <3>1 DEF Idle, NewCall, IsCall, StepOfOp, ValueOfOp, Steps, Ops
  <2>3. Begin(th, "write", d)
    BY <2>1 DEF getContentWriter
  <2> HIDE DEF d
  <2>4. QED
    BY <1>1, <2>2, <2>3
<1>5. CASE \E p \in Files : symlink(th, p)
  <2>1. PICK p \in Files : symlink(th, p)
    BY <1>5
  <2> DEFINE d == doSymlink(p)
  <2>2. NewCall(d) /\ d.op = "symlink" /\ d.step = "stamp" /\ d.report = {}
    BY <1>2 DEF doSymlink, Idle, NewCall, IsCall, StepOfOp, ValueOfOp, Steps, Ops
  <2>3. Begin(th, "symlink", d)
    BY <2>1 DEF symlink
  <2> HIDE DEF d
  <2>4. QED
    BY <1>1, <2>2, <2>3
<1>6. CASE \E p \in Paths : remove(th, p)
  <2>1. PICK p \in Paths : remove(th, p)
    BY <1>6
  <2> DEFINE children == Now(Parent[p]) \ {p}
             d == doUpdatens("remove", Parent[p], p, children)
  <2>2. p # Root /\ Begin(th, "remove", d)
    BY <2>1 DEF remove
  <2>3. Parent[p] \in Namespaces
    BY ParentIsNamespace
  <2>4. children \in SUBSET Paths
    BY <2>1, <2>3, ListsNow DEF remove, hasParent
  <2>5. p \notin children
    OBVIOUS
  <2> HIDE DEF children
  <2>6. NewCall(d) /\ d.op = "remove" /\ d.step = "stamp" /\ d.report = {}
    <3>1. Parent[p] \in Paths /\ children \in Values
      BY <1>2, <2>3, <2>4 DEF Values
    <3>2. QED
      BY <1>2, <2>2, <2>3, <2>4, <2>5, <3>1
      DEF doUpdatens, Idle, NewCall, IsCall, StepOfOp, ValueOfOp, Steps, Ops
  <2> HIDE DEF d
  <2>7. QED
    BY <1>1, <2>2, <2>6
<1>7. CASE scanStorage(th)
  <2> DEFINE d == [Idle EXCEPT !.step = "metas", !.op = "scan"]
  <2>1. NewCall(d) /\ d.op = "scan" /\ d.step = "metas" /\ d.report = {}
    BY <1>2 DEF Idle, NewCall, IsCall, StepOfOp, ValueOfOp, Steps, Ops
  <2>2. Begin(th, "scan", d)
    BY <1>7 DEF scanStorage
  <2> HIDE DEF d
  <2>3. QED
    BY <1>1, <2>1, <2>2
<1>8. CASE \E p \in Paths, w \in mode.periods : removeHistory(th, p, w[1], w[2])
  <2>1. PICK p \in Paths, w \in mode.periods : removeHistory(th, p, w[1], w[2])
    BY <1>8
  <2> DEFINE d == [Idle EXCEPT !.step = "select", !.op = "removeHistory", !.path = p,
                       !.from = w[1], !.to = IF w[2] = 0 THEN Forever ELSE w[2] + Second]
  <2>2. NewCall(d) /\ d.op = "removeHistory" /\ d.step = "select" /\ d.report = {}
    <3>1. w[1] \in Nat /\ w[2] \in Nat
      BY ModesComplete DEF TypeOK
    <3>2. Forever \in Nat /\ w[2] + Second \in Nat
      BY <3>1, TimesNatural DEF Forever
    <3>3. QED
      BY <1>2, <3>1, <3>2 DEF Idle, NewCall, IsCall, StepOfOp, ValueOfOp, Steps, Ops
  <2>3. Begin(th, "removeHistory", d)
    BY <2>1 DEF removeHistory
  <2> HIDE DEF d
  <2>4. QED
    BY <1>1, <2>2, <2>3
<1>9. QED
  BY <1>3, <1>4, <1>5, <1>6, <1>7, <1>8 DEF StartCall

\* A call that goes on, at another step.
LEMMA GotoIs ==
    ASSUME Calls, NEW th \in Threads, NEW step \in Steps \ {"idle", "contents", "check", "drop", "unstore"},
           StepOfOp([call[th] EXCEPT !.step = step]), Goto(th, step)
    PROVE  \E d : /\ NewCall(d) /\ Becomes(th, d)
                  /\ d.step = step /\ ContinuesAt(call[th], d)
<1> DEFINE d == [call[th] EXCEPT !.step = step]
<1>1. IsCall(d) /\ d.step = step /\ ContinuesAt(call[th], d)
  BY DEF Calls, IsCall, ContinuesAt, Continues
<1>2. ValueOfOp(d)
  BY <1>1 DEF Calls, ValueOfOp, ContinuesAt, Continues
<1>3. Becomes(th, d)
  BY DEF Goto, Becomes
<1>4. QED
  BY <1>1, <1>2, <1>3 DEF NewCall

\* The clock is read, and goes forward.
LEMMA StampIs ==
    ASSUME TypeOK, Calls, NEW th \in Threads, Stamp(th)
    PROVE  /\ clock' \in 1 .. LastTime /\ clock < clock' /\ call[th].step = "stamp"
           /\ \E d : /\ NewCall(d) /\ Becomes(th, d) /\ Continues(call[th], d)
                     /\ d.step \in {"query", "index"} /\ d.time = clock'
                     /\ d.step = "index" => d.op # "write"
<1>1. PICK gap \in mode.gaps :
        /\ clock + gap <= mode.last
        /\ clock' = clock + gap
        /\ call' = [call EXCEPT ![th].time = clock + gap,
                                ![th].step = IF call[th].op = "write" THEN "query" ELSE "index"]
  BY DEF Stamp
<1>2. clock' \in 1 .. LastTime /\ clock < clock'
  BY <1>1, ModesComplete, TimesNatural DEF TypeOK, Times
<1> DEFINE step == IF call[th].op = "write" THEN "query" ELSE "index"
           d == [call[th] EXCEPT !.time = clock', !.step = step]
<1>3. clock' \in 0 .. LastTime /\ step \in {"query", "index"} /\ step \in Steps
  BY <1>2 DEF Steps
<1>4. (call[th].op = "write" => step = "query") /\ (step = "query" => call[th].op = "write")
  OBVIOUS
<1>5. Becomes(th, d)
  BY <1>1 DEF Becomes
<1> HIDE DEF step
<1>6. IsCall(d) /\ d.step = step /\ d.time = clock' /\ Continues(call[th], d)
  BY <1>3 DEF Calls, IsCall, Continues
<1>7. call[th].step = "stamp"
  BY DEF Stamp, At
<1> HIDE DEF d
<1>8. StepOfOp(d) /\ ValueOfOp(d)
  BY <1>3, <1>4, <1>6, <1>7 DEF Calls, Continues, StepOfOp, ValueOfOp
<1>9. QED
  BY <1>2, <1>3, <1>4, <1>5, <1>6, <1>7, <1>8 DEF NewCall, Continues

\* These steps change nothing but the call.
LEMMA WorkIs ==
    ASSUME TypeOK, Calls, NEW th \in Threads,
           QueryContent(th) \/ UploadConflicts(th) \/ CallFails(th) \/ SelectHistory(th)
    PROVE  /\ call[th].step \in {"query", "push", "index", "store", "select"}
           /\ UNCHANGED <<mode, content, version, indexed, stored, clock, histVars>>
           /\ \E d : /\ NewCall(d) /\ Becomes(th, d)
                     /\ \/ d = Idle
                        \/ SelectHistory(th) /\ d.op = "removeHistory" /\ d.step = "drop"
                        \/ /\ ContinuesAt(call[th], d) /\ Timed(th)
                           /\ d.op = "write" /\ d.step \in {"push", "index"}
                           /\ d.step = "index" => d.value \in content
<1>1. /\ call[th].step \in {"query", "push", "index", "store", "select"}
      /\ UNCHANGED <<mode, content, version, indexed, stored, clock, histVars>>
  BY DEF QueryContent, UploadConflicts, CallFails, SelectHistory, At, histVars
<1>2. ASSUME Finish(th)
      PROVE  NewCall(Idle) /\ Becomes(th, Idle)
  BY <1>2, IdleIs DEF Finish, Becomes
<1>3. ASSUME NEW step \in {"push", "index"}, Goto(th, step), call[th].step \in {"query", "push"},
             step = "index" => call[th].value \in content
      PROVE  \E d : /\ NewCall(d) /\ Becomes(th, d) /\ ContinuesAt(call[th], d) /\ Timed(th)
                    /\ d.op = "write" /\ d.step \in {"push", "index"}
                    /\ d.step = "index" => d.value \in content
  <2>1. call[th].op = "write" /\ Timed(th)
    BY <1>3 DEF Calls, StepOfOp, Timed
  <2>2. StepOfOp([call[th] EXCEPT !.step = step])
    BY <1>3, <2>1 DEF Calls, IsCall, StepOfOp
  <2>3. step \in Steps \ {"idle", "contents", "check", "drop", "unstore"}
    BY <1>3 DEF Steps
  <2>4. PICK d : NewCall(d) /\ Becomes(th, d) /\ d.step = step /\ ContinuesAt(call[th], d)
    BY <1>3, <2>2, <2>3, GotoIs
  <2>5. QED
    BY <1>3, <2>1, <2>4 DEF ContinuesAt, Continues
<1>4. CASE QueryContent(th)
  <2>1. \E step \in {"push", "index"} :
            Goto(th, step) /\ (step = "index" => call[th].value \in content)
    BY <1>4 DEF QueryContent, queryContent
  <2>2. call[th].step = "query"
    BY <1>4 DEF QueryContent, At
  <2>3. QED
    BY <1>1, <1>3, <2>1, <2>2
<1>5. CASE UploadConflicts(th)
  <2>1. (call[th].value \in content /\ Goto(th, "index")) \/ Finish(th)
    BY <1>5 DEF UploadConflicts, queryContent
  <2>2. call[th].step = "push"
    BY <1>5 DEF UploadConflicts, At
  <2>3. QED
    BY <1>1, <1>2, <1>3, <2>1, <2>2
<1>6. CASE CallFails(th)
  BY <1>1, <1>2, <1>6 DEF CallFails
<1>7. CASE SelectHistory(th)
  <2> DEFINE selected == Selected(call[th])
             split == {v \in Versions : Divided(v)}
             d == [call[th] EXCEPT !.step = "drop", !.todo = selected, !.split = split]
  <2>1. Finish(th) \/ Becomes(th, d)
    BY <1>7 DEF SelectHistory, Becomes
  <2>0. d.todo = Selected(call[th])
    BY DEF Calls, IsCall
  <2> HIDE DEF selected, split
  <2>2. IsCall(d) /\ d.step = "drop" /\ Continues(call[th], d)
    BY DEF Calls, IsCall, Steps, Continues
  <2>3. call[th].op = "removeHistory"
    BY <1>7 DEF SelectHistory, At, Calls, StepOfOp
  <2> HIDE DEF d
  <2>4. NewCall(d) /\ d.op = "removeHistory"
    <3>1. d.todo = Selected(call[th])
      BY <2>0
    <3>2. \A s \in d.todo : s[1] \in Paths
      BY <3>1 DEF Selected
    <3>3. QED
      BY <2>2, <2>3, <3>2 DEF Calls, NewCall, StepOfOp, ValueOfOp, Continues
  <2>5. QED
    BY <1>1, <1>2, <1>7, <2>1, <2>2, <2>4
<1>8. QED
  BY <1>4, <1>5, <1>6, <1>7

\* A content is put in the storage.
LEMMA PushIs ==
    ASSUME TypeOK, Calls, NEW th \in Threads, PushContent(th) \/ Upload(th) \/ UploadLost(th)
    PROVE  /\ call[th].step = "push" /\ call[th].op = "write" /\ Pushed(call[th].value)
           /\ \E d : /\ NewCall(d) /\ Becomes(th, d)
                     /\ d = Idle \/ (ContinuesAt(call[th], d) /\ d.step = "index")
<1>1. call[th].step = "push" /\ Pushed(call[th].value) /\ (Goto(th, "index") \/ Finish(th))
  BY DEF PushContent, Upload, UploadLost, At
<1>2. call[th].op = "write"
  BY <1>1 DEF Calls, StepOfOp
<1>3. CASE Finish(th)
  BY <1>1, <1>2, <1>3, IdleIs DEF Finish, Becomes
<1>4. CASE Goto(th, "index")
  <2>1. StepOfOp([call[th] EXCEPT !.step = "index"])
    BY <1>2 DEF Calls, IsCall, StepOfOp
  <2>2. "index" \in Steps \ {"idle", "contents", "check", "drop", "unstore"}
    BY DEF Steps
  <2>3. QED
    BY <1>1, <1>2, <1>4, <2>1, <2>2, GotoIs
<1>5. QED
  BY <1>1, <1>3, <1>4

\* A version is in the index.
LEMMA IndexIs ==
    ASSUME TypeOK, Calls, NEW th \in Threads, IndexMeta(th)
    PROVE  /\ call[th].step = "index" /\ Timed(th)
           /\ \E d : NewCall(d) /\ Becomes(th, d) /\ ContinuesAt(call[th], d) /\ d.step = "store"
<1>1. call[th].step = "index" /\ Timed(th) /\ Goto(th, "store")
  BY DEF IndexMeta, At, Timed
<1>2. StepOfOp([call[th] EXCEPT !.step = "store"])
  BY <1>1 DEF Calls, IsCall, StepOfOp
<1>3. "store" \in Steps \ {"idle", "contents", "check", "drop", "unstore"}
  BY DEF Steps
<1>4. QED
  BY <1>1, <1>2, <1>3, GotoIs

\* A version is in the storage, and the call ends.
LEMMA StoreIs ==
    ASSUME TypeOK, Calls, NEW th \in Threads, StoreMeta(th) \/ PutMetaLost(th)
    PROVE  /\ call[th].step = "store" /\ Timed(th)
           /\ Stored(call[th].path, call[th].time, call[th].value)
           /\ NewCall(Idle) /\ Becomes(th, Idle)
           /\ removed' = removed \/ (call[th].op = "remove" /\ removed' = removed \union {call[th].entry})
BY IdleIs DEF StoreMeta, PutMetaLost, At, Timed, Finish, Becomes

\* A scan knows of versions.
LEMMA MetasIs ==
    ASSUME TypeOK, Calls, NEW th \in Threads, scanMetaDir(th) \/ scanMetaObjs(th)
    PROVE  /\ call[th].step = "metas"
           /\ UNCHANGED <<mode, content, version, indexed, stored, clock, failed, unsure, removed,
                          contested, settled>>
           /\ doubt' = doubt \/ doubt' = doubt \union {th}
           /\ \E d : /\ NewCall(d) /\ Becomes(th, d) /\ d.op = "scan" /\ d.step = "contents"
                     /\ th \notin doubt' => StoredVersions \subseteq d.todo
<1>1. PICK found \in SUBSET StoredVersions : MetasScanned(th, found)
  <2>1. CASE scanMetaDir(th)
    <3>1. \A p, times : StoredVersions \ ({p} \X times) \in SUBSET StoredVersions
      OBVIOUS
    <3>2. QED
      BY <2>1, <3>1 DEF scanMetaDir
  <2>2. CASE scanMetaObjs(th)
    <3>1. PICK objects \in List(StoredVersions) :
            \/ MetasScanned(th, objects)
            \/ mode.faults /\ \E v \in objects : MetasScanned(th, objects \ {v})
      BY <2>2 DEF scanMetaObjs
    <3>2. objects \in SUBSET StoredVersions /\ \A v : objects \ {v} \in SUBSET StoredVersions
      BY DEF List
    <3>3. QED
      BY <3>1, <3>2
  <2>3. QED
    BY <2>1, <2>2
<1>2. call[th].step = "metas" /\ call[th].op = "scan"
  BY DEF scanMetaDir, scanMetaObjs, At, Calls, StepOfOp
<1> DEFINE d == [call[th] EXCEPT !.step = "contents", !.todo = found]
<1>3. Becomes(th, d)
  BY <1>1 DEF MetasScanned, Becomes
<1>4. IsCall(d) /\ d.step = "contents" /\ d.todo = found /\ Continues(call[th], d)
  <2>1. IsCall(call[th])
    BY DEF Calls
  <2>2. QED
    BY <2>1 DEF IsCall, Steps, Continues
<1>5. found \subseteq Versions
  BY DEF StoredVersions
<1>6. StepOfOp(d) /\ ValueOfOp(d) /\ d.op = "scan"
  <2> HIDE DEF d
  <2>1. QED
    BY <1>2, <1>4, <1>5 DEF Calls, StepOfOp, ValueOfOp, Continues
<1>7. th \notin doubt' => StoredVersions \subseteq found
  <2> SUFFICES ASSUME th \notin doubt', NEW v \in StoredVersions PROVE v \in found
    OBVIOUS
  <2>1. v[1] \in Paths /\ v[2] \in stored[v[1]] /\ v = <<v[1], v[2]>>
    BY DEF StoredVersions, Versions
  <2>2. ~ \E p \in Paths : \E t \in stored[p] : <<p, t>> \notin found
    BY <1>1 DEF MetasScanned
  <2>3. QED
    BY <2>1, <2>2
<1> HIDE DEF d
<1>8. QED
  BY <1>1, <1>2, <1>3, <1>4, <1>6, <1>7 DEF MetasScanned, NewCall

\* A scan knows of contents.
LEMMA ContentsIs ==
    ASSUME TypeOK, Calls, NEW th \in Threads, scanContentDir(th) \/ scanContentObjs(th)
    PROVE  /\ call[th].step = "contents"
           /\ UNCHANGED <<mode, content, version, indexed, stored, clock, failed, unsure, removed,
                          contested, settled>>
           /\ doubt' = doubt \/ doubt' = doubt \union {th}
           /\ \E d : /\ NewCall(d) /\ Becomes(th, d) /\ d.op = "scan" /\ d.step = "check"
                     /\ d.todo = call[th].todo
                     /\ th \notin doubt' => d.contents = content
<1>1. PICK found \in SUBSET content : ContentsScanned(th, found)
  <2>1. content \in SUBSET content /\ List(content) \subseteq SUBSET content
    BY DEF List
  <2>2. QED
    BY <2>1 DEF scanContentDir, scanContentObjs
<1>2. call[th].step = "contents" /\ call[th].op = "scan"
  BY DEF scanContentDir, scanContentObjs, At, Calls, StepOfOp
<1> DEFINE d == [call[th] EXCEPT !.step = "check", !.contents = found]
<1>3. Becomes(th, d)
  BY <1>1 DEF ContentsScanned, Becomes
<1>4. found \subseteq Contents
  BY DEF TypeOK
<1>5. /\ IsCall(d) /\ d.step = "check" /\ d.contents = found /\ d.todo = call[th].todo
      /\ Continues(call[th], d)
  <2>1. IsCall(call[th])
    BY DEF Calls
  <2>2. QED
    BY <1>4, <2>1 DEF IsCall, Steps, Continues
<1> HIDE DEF d
<1>6. StepOfOp(d) /\ ValueOfOp(d) /\ d.op = "scan"
  BY <1>2, <1>5 DEF Calls, StepOfOp, ValueOfOp, Continues
<1>7. QED
  BY <1>1, <1>2, <1>3, <1>5, <1>6 DEF ContentsScanned, NewCall

\* What the versions that a scan knows of refer to.
Existing(todo) == {version[v[1]][v[2]] : v \in {w \in todo : w[2] \in stored[w[1]]}}

\* A scan has read the metadata.
LEMMA CheckIs ==
    ASSUME TypeOK, Calls, NEW th \in Threads, CheckMetas(th)
    PROVE  /\ call[th].step = "check" /\ call[th].op = "scan"
           /\ UNCHANGED <<mode, content, version, indexed, stored, clock, histVars>>
           /\ \E d : /\ NewCall(d) /\ Becomes(th, d) /\ d.op = "scan" /\ d.step = "purge"
                     /\ d.contents = call[th].contents \ Existing(call[th].todo)
<1>1. call[th].step = "check" /\ call[th].op = "scan"
  BY DEF CheckMetas, At, Calls, StepOfOp
<1> DEFINE left == call[th].contents \ Existing(call[th].todo)
           d == [call[th] EXCEPT !.step = "purge", !.contents = left, !.todo = {}]
<1>2. Becomes(th, d)
  BY DEF CheckMetas, Existing, Becomes
<1>3. left \subseteq Contents
  BY DEF Calls, IsCall
<1> HIDE DEF left
<1>4. IsCall(d) /\ d.step = "purge" /\ d.contents = left /\ Continues(call[th], d)
  BY <1>3 DEF Calls, IsCall, Steps, Continues
<1> HIDE DEF d
<1>5. StepOfOp(d) /\ ValueOfOp(d) /\ d.op = "scan"
  BY <1>1, <1>4 DEF Calls, StepOfOp, ValueOfOp, Continues
<1>6. UNCHANGED <<mode, content, version, indexed, stored, clock, histVars>>
  BY DEF CheckMetas
<1>7. QED
  BY <1>1, <1>2, <1>4, <1>5, <1>6 DEF NewCall, left

\* A content is removed, or not, and then the scan is in doubt; at last it ends.
LEMMA PurgeIs ==
    ASSUME TypeOK, Calls, NEW th \in Threads, purgeContent(th)
    PROVE  /\ call[th].step = "purge" /\ call[th].op = "scan"
           /\ UNCHANGED <<mode, version, indexed, stored, clock, failed, removed, contested>>
           /\ \/ /\ NewCall(Idle) /\ Becomes(th, Idle) /\ call[th].contents = {}
                 /\ settled' = (th \notin doubt)
                 /\ UNCHANGED <<content, unsure, doubt>>
              \/ \E ch \in call[th].contents : \E d :
                    /\ NewCall(d) /\ Becomes(th, d) /\ d.op = "scan" /\ d.step = "purge"
                    /\ d.contents = call[th].contents \ {ch}
                    /\ \/ content' = content \ {ch} /\ doubt' = doubt
                       \/ content' \in {content, content \ {ch}} /\ doubt' = doubt \union {th}
                    /\ unsure' = IF th \in doubt THEN unsure \union {ch} ELSE unsure
                    /\ UNCHANGED settled
<1>1. /\ call[th].step = "purge" /\ call[th].op = "scan"
      /\ UNCHANGED <<mode, version, indexed, stored, clock, failed, removed, contested>>
  BY DEF purgeContent, At, Calls, StepOfOp
<1>2. CASE call[th].contents = {}
  BY <1>1, <1>2, IdleIs DEF purgeContent, Finish, Becomes
<1>3. CASE call[th].contents # {}
  <2>1. PICK ch \in call[th].contents :
          /\ removeContent(th, ch)
          /\ call' = [call EXCEPT ![th].contents = @ \ {ch}]
          /\ unsure' = IF th \in doubt THEN unsure \union {ch} ELSE unsure
          /\ UNCHANGED settled
    BY <1>3 DEF purgeContent
  <2> DEFINE left == call[th].contents \ {ch}
             d == [call[th] EXCEPT !.contents = left]
  <2>2. Becomes(th, d)
    BY <2>1 DEF Becomes
  <2>3. left \subseteq Contents
    BY DEF Calls, IsCall
  <2> HIDE DEF left
  <2>4. /\ IsCall(d) /\ d.step = "purge" /\ d.contents = left
        /\ Continues(call[th], d)
    BY <1>1, <2>3 DEF Calls, IsCall, Continues
  <2> HIDE DEF d
  <2>5. NewCall(d) /\ d.op = "scan"
    BY <1>1, <2>4 DEF Calls, NewCall, StepOfOp, ValueOfOp, Continues
  <2>6. \/ content' = content \ {ch} /\ doubt' = doubt
        \/ content' \in {content, content \ {ch}} /\ doubt' = doubt \union {th}
    BY <2>1 DEF removeContent
  <2>7. QED
    BY <1>1, <2>1, <2>2, <2>4, <2>5, <2>6 DEF left
<1>4. QED
  BY <1>2, <1>3

\* A version is taken from the index, or from the storage.
Dropping(q, t) ==
    /\ \/ indexed' = [indexed EXCEPT ![q] = @ \ {t}] /\ stored' = stored
       \/ stored' = [stored EXCEPT ![q] = @ \ {t}] /\ indexed' = indexed
    /\ Taken(q, t)
    /\ \/ UNCHANGED <<indexed, removed, contested>>
       \/ /\ removed' = {e \in removed : Parent[e] # q}
          /\ contested' = contested \union {call[u].entry : u \in Listing(q)}

\* The versions, and what is known of them, stay.
VersionsStay == UNCHANGED <<version, indexed, stored, failed, removed, contested, settled>>

\* The call that has taken the version of an interval from the index.
Unindexing(c, s, bad) ==
    [c EXCEPT !.step = "unstore", !.gone = <<s[1], s[2].at>>, !.halfway = bad,
              !.todo = c.todo \ {s}, !.report = c.report \union {s}]

\* What is to be removed is there, and is taken from the index; or it is not.
LEMMA UnindexIs ==
    ASSUME TypeOK, Calls, NEW th \in Threads, Unindex(th)
    PROVE  /\ call[th].step = "drop" /\ call[th].op = "removeHistory"
           /\ UNCHANGED <<mode, content, stored, clock, unsure, doubt>>
           /\ \E s \in call[th].todo :
                 \/ /\ s[2].at \notin indexed[s[1]]
                    /\ Becomes(th, Idle) /\ VersionsStay
                 \/ /\ s[2].at \in indexed[s[1]]
                    /\ indexed' = [indexed EXCEPT ![s[1]] = @ \ {s[2].at}]
                    /\ Dropping(s[1], s[2].at)
                    /\ Becomes(th, Unindexing(call[th], s, <<s[1], s[2].at>> \in failed))
<1>1. /\ call[th].step = "drop" /\ call[th].op = "removeHistory"
      /\ UNCHANGED <<mode, content, stored, clock, unsure, doubt>>
  BY DEF Unindex, At, Calls, StepOfOp
<1>2. PICK s \in call[th].todo :
          \/ /\ s[2].at \in indexed[s[1]]
             /\ indexed' = [indexed EXCEPT ![s[1]] = @ \ {s[2].at}]
             /\ Taken(s[1], s[2].at)
             /\ removed' = {e \in removed : Parent[e] # s[1]}
             /\ contested' = contested \union {call[u].entry : u \in Listing(s[1])}
             /\ call' = [call EXCEPT ![th].step = "unstore", ![th].gone = <<s[1], s[2].at>>,
                                     ![th].halfway = (<<s[1], s[2].at>> \in failed),
                                     ![th].todo = @ \ {s}, ![th].report = @ \union {s}]
          \/ /\ s[2].at \notin indexed[s[1]]
             /\ Finish(th)
             /\ UNCHANGED <<version, indexed, failed, removed, contested, settled>>
  BY DEF Unindex
<1>3. CASE s[2].at \notin indexed[s[1]]
  BY <1>1, <1>2, <1>3 DEF Finish, Becomes, VersionsStay
<1>4. CASE s[2].at \in indexed[s[1]]
  <2>1. Dropping(s[1], s[2].at) /\ indexed' = [indexed EXCEPT ![s[1]] = @ \ {s[2].at}]
    BY <1>1, <1>2, <1>4 DEF Dropping
  <2>2. PICK bad : bad = (<<s[1], s[2].at>> \in failed)
    OBVIOUS
  <2>3. call' = [call EXCEPT ![th].step = "unstore", ![th].gone = <<s[1], s[2].at>>,
                             ![th].halfway = bad,
                             ![th].todo = @ \ {s}, ![th].report = @ \union {s}]
    BY <1>2, <1>4, <2>2
  <2>4. Becomes(th, Unindexing(call[th], s, bad))
    BY <2>3 DEF Becomes, Unindexing
  <2>5. QED
    BY <1>1, <1>4, <2>1, <2>2, <2>4
<1>5. QED
  BY <1>3, <1>4

\* It is taken from the storage, or is not there, or the storage refuses.
LEMMA UnstoreIs ==
    ASSUME TypeOK, Calls, NEW th \in Threads, Unstore(th) \/ RemovalRefused(th)
    PROVE  /\ call[th].step \in {"drop", "unstore"} /\ call[th].op = "removeHistory"
           /\ UNCHANGED <<mode, content, indexed, clock, unsure, doubt, removed, contested>>
           /\ \/ Becomes(th, Idle)
              \/ call[th].step = "unstore" /\ Becomes(th, [call[th] EXCEPT !.step = "drop"])
           /\ \/ VersionsStay
              \/ /\ call[th].step = "unstore"
                 /\ call[th].gone[2] \in stored[call[th].gone[1]]
                 /\ stored' = [stored EXCEPT ![call[th].gone[1]] = @ \ {call[th].gone[2]}]
                 /\ Dropping(call[th].gone[1], call[th].gone[2])
<1>1. PICK q, t : q = call[th].gone[1] /\ t = call[th].gone[2]
  OBVIOUS
<1>2. /\ call[th].step \in {"drop", "unstore"} /\ call[th].op = "removeHistory"
      /\ UNCHANGED <<mode, content, indexed, clock, unsure, doubt, removed, contested>>
  BY DEF Unstore, RemovalRefused, At, Calls, StepOfOp
<1>3. \/ Finish(th)
      \/ call[th].step = "unstore" /\ Goto(th, "drop")
  BY DEF Unstore, RemovalRefused, At
<1>4. \/ UNCHANGED <<version, stored, failed, settled>>
      \/ call[th].step = "unstore" /\ Unstored(q, t)
  BY <1>1 DEF Unstore, RemovalRefused, At
<1>5. Finish(th) => Becomes(th, Idle)
  BY DEF Finish, Becomes
<1>6. Goto(th, "drop") => Becomes(th, [call[th] EXCEPT !.step = "drop"])
  BY DEF Goto, Becomes
<1>7. ASSUME Unstored(q, t)
      PROVE  /\ t \in stored[q] /\ stored' = [stored EXCEPT ![q] = @ \ {t}]
             /\ Dropping(q, t)
  BY <1>2, <1>7 DEF Unstored, Dropping
<1>8. UNCHANGED <<version, stored, failed, settled>> => VersionsStay
  BY <1>2 DEF VersionsStay
<1>9. QED
  BY <1>1, <1>2, <1>3, <1>4, <1>5, <1>6, <1>7, <1>8

\* The steps of a removal.
DropStep(th) == PassEnds(th) \/ Unindex(th) \/ Unstore(th) \/ RemovalRefused(th)

\* A pass is over.
LEMMA PassEndsIs ==
    ASSUME TypeOK, Calls, NEW th \in Threads, PassEnds(th)
    PROVE  /\ call[th].step = "drop" /\ call[th].op = "removeHistory"
           /\ UNCHANGED <<mode, content, clock, unsure, doubt>> /\ VersionsStay
           /\ Becomes(th, [call[th] EXCEPT !.step = "select"])
BY DEF PassEnds, histVars, VersionsStay, At, Goto, Becomes, Calls, StepOfOp

\* A removal goes on, or ends.
LEMMA DropIs ==
    ASSUME TypeOK, Calls, NEW th \in Threads, DropStep(th)
    PROVE  /\ call[th].step \in {"drop", "unstore"} /\ call[th].op = "removeHistory"
           /\ UNCHANGED <<mode, content, clock, unsure, doubt>>
           /\ \E d : /\ NewCall(d) /\ Becomes(th, d)
                     /\ d = Idle \/ (/\ d.op = "removeHistory"
                                     /\ d.step \in {"select", "drop", "unstore"})
           /\ VersionsStay \/ \E q \in Paths, t \in Times : Dropping(q, t)
<1>0. IsCall(call[th]) /\ StepOfOp(call[th]) /\ ValueOfOp(call[th])
  BY DEF Calls
<1>1. ASSUME NEW step \in {"select", "drop"}, call[th].op = "removeHistory",
             step = "select" \/ call[th].step = "unstore",
             Becomes(th, [call[th] EXCEPT !.step = step])
      PROVE  \E d : /\ NewCall(d) /\ Becomes(th, d)
                    /\ d.op = "removeHistory" /\ d.step \in {"select", "drop", "unstore"}
  <2>1. PICK d : d = [call[th] EXCEPT !.step = step]
    OBVIOUS
  <2>2. step \in Steps
    BY <1>1 DEF Steps
  <2>3. IsCall(d) /\ d.step = step /\ d.todo = call[th].todo /\ Continues(call[th], d)
    BY <1>0, <2>1, <2>2 DEF IsCall, Continues
  <2>4. NewCall(d)
    BY <1>0, <1>1, <2>3 DEF NewCall, StepOfOp, ValueOfOp, Continues
  <2>5. QED
    BY <1>1, <2>1, <2>3, <2>4 DEF Continues
<1>2. CASE PassEnds(th)
  BY <1>1, <1>2, PassEndsIs
<1>3. CASE Unindex(th)
  <2>1. /\ call[th].step = "drop" /\ call[th].op = "removeHistory"
        /\ UNCHANGED <<mode, content, stored, clock, unsure, doubt>>
    BY <1>3, UnindexIs
  <2>2. PICK s \in call[th].todo :
           \/ Becomes(th, Idle) /\ VersionsStay
           \/ /\ s[2].at \in indexed[s[1]]
              /\ Dropping(s[1], s[2].at)
              /\ Becomes(th, Unindexing(call[th], s, <<s[1], s[2].at>> \in failed))
    BY <1>3, UnindexIs
  <2>3. CASE Becomes(th, Idle) /\ VersionsStay
    BY <2>1, <2>3, IdleIs
  <2>4. CASE /\ s[2].at \in indexed[s[1]]
             /\ Dropping(s[1], s[2].at)
             /\ Becomes(th, Unindexing(call[th], s, <<s[1], s[2].at>> \in failed))
    <3>1. s[1] \in Paths
      BY <1>0, <2>1 DEF ValueOfOp
    <3>2. s[2].at \in Times
      BY <2>4, <3>1 DEF TypeOK
    <3>3. PICK d, bad : d = Unindexing(call[th], s, bad) /\ Becomes(th, d)
      BY <2>4
    <3>4. /\ IsCall(d) /\ d.step = "unstore" /\ Continues(call[th], d)
          /\ d.todo = call[th].todo \ {s} /\ d.gone = <<s[1], s[2].at>>
      BY <1>0, <3>3 DEF IsCall, Steps, Unindexing, Continues
    <3>5. NewCall(d) /\ d.op = "removeHistory"
      BY <1>0, <2>1, <3>1, <3>4 DEF NewCall, StepOfOp, ValueOfOp, Continues
    <3>6. QED
      BY <2>1, <2>4, <3>1, <3>2, <3>3, <3>4, <3>5
  <2>5. QED
    BY <2>2, <2>3, <2>4
<1>4. CASE Unstore(th) \/ RemovalRefused(th)
  <2>1. /\ call[th].step \in {"drop", "unstore"} /\ call[th].op = "removeHistory"
        /\ UNCHANGED <<mode, content, indexed, clock, unsure, doubt, removed, contested>>
        /\ \/ Becomes(th, Idle)
           \/ call[th].step = "unstore" /\ Becomes(th, [call[th] EXCEPT !.step = "drop"])
    BY <1>4, UnstoreIs
  <2>2. VersionsStay \/ \E q \in Paths, t \in Times : Dropping(q, t)
    <3>1. SUFFICES ASSUME ~ VersionsStay PROVE \E q \in Paths, t \in Times : Dropping(q, t)
      OBVIOUS
    <3>2. PICK q, t : q = call[th].gone[1] /\ t = call[th].gone[2]
      OBVIOUS
    <3>3. call[th].step = "unstore" /\ t \in stored[q] /\ Dropping(q, t)
      BY <1>4, <3>1, <3>2, UnstoreIs
    <3>4. q \in Paths
      BY <1>0, <3>2, <3>3 DEF ValueOfOp
    <3>5. t \in Times
      BY <3>3, <3>4 DEF TypeOK
    <3>6. QED
      BY <3>3, <3>4, <3>5
  <2>3. QED
    BY <1>1, <2>1, <2>2, IdleIs
<1>5. QED
  BY <1>2, <1>3, <1>4 DEF DropStep

\* What is left after a version is taken.
LEMMA DroppingIs ==
    ASSUME TypeOK, NEW q \in Paths, NEW t \in Times, Dropping(q, t)
    PROVE  /\ version' \in [Paths -> [Times -> Values]]
           /\ indexed' \in [Paths -> SUBSET Times] /\ stored' \in [Paths -> SUBSET Times]
           /\ failed' \subseteq Versions /\ removed' \subseteq removed
           /\ \A p \in Paths, u \in Times :
                 LET it == p = q /\ u = t IN
                 /\ u \in indexed'[p] => u \in indexed[p]
                 /\ u \in stored'[p] => u \in stored[p]
                 /\ version'[p][u] \in {version[p][u], NoVersion}
                 /\ u \in indexed'[p] \union stored'[p] => version'[p][u] = version[p][u]
                 /\ it => /\ ~ (u \in indexed'[p] /\ u \in stored'[p])
                          /\ <<p, u>> \in failed' <=> u \in indexed'[p] \union stored'[p]
                 /\ ~ it => /\ u \in indexed'[p] <=> u \in indexed[p]
                            /\ u \in stored'[p] <=> u \in stored[p]
                            /\ <<p, u>> \in failed' <=> <<p, u>> \in failed
                            /\ version'[p][u] = version[p][u]
           /\ \A p \in Paths : p # q => indexed'[p] = indexed[p]
<1>1. indexed' \in [Paths -> SUBSET Times] /\ stored' \in [Paths -> SUBSET Times]
  BY DEF Dropping, TypeOK
<1>2. PICK left : left = (t \in indexed'[q] \union stored'[q])
  OBVIOUS
<1>3. PICK value : value = IF left THEN version[q][t] ELSE NoVersion
  OBVIOUS
<1>4. version[q] \in [Times -> Values] /\ value \in Values
  BY <1>3 DEF TypeOK, Values
<1>5. version' = [version EXCEPT ![q] = [version[q] EXCEPT ![t] = value]]
  BY <1>2, <1>3 DEF Dropping, Taken
<1>6. version' \in [Paths -> [Times -> Values]]
  BY <1>4, <1>5 DEF TypeOK
<1>7. ASSUME NEW p \in Paths, NEW u \in Times
      PROVE  version'[p][u] = IF p = q /\ u = t THEN value ELSE version[p][u]
  BY <1>4, <1>5 DEF TypeOK
<1>8. ASSUME NEW p \in Paths, NEW u \in Times
      PROVE  /\ u \in indexed'[p] => u \in indexed[p]
             /\ u \in stored'[p] => u \in stored[p]
             /\ ~ (p = q /\ u = t) => (u \in indexed'[p] <=> u \in indexed[p])
             /\ ~ (p = q /\ u = t) => (u \in stored'[p] <=> u \in stored[p])
             /\ p = q /\ u = t => ~ (u \in indexed'[p] /\ u \in stored'[p])
  BY DEF Dropping, TypeOK
<1>9. failed' = IF left THEN failed \union {<<q, t>>} ELSE failed \ {<<q, t>>}
  BY <1>2 DEF Dropping, Taken
<1>10. /\ failed' \subseteq Versions /\ removed' \subseteq removed
       /\ \A p \in Paths : p # q => indexed'[p] = indexed[p]
  <2>1. <<q, t>> \in Versions
    BY DEF Versions
  <2>2. failed' \subseteq Versions
    BY <1>9, <2>1 DEF TypeOK
  <2>3. QED
    BY <2>2 DEF Dropping, TypeOK
<1>11. ASSUME NEW p \in Paths, NEW u \in Times
       PROVE  /\ p = q /\ u = t => (<<p, u>> \in failed' <=> u \in indexed'[p] \union stored'[p])
              /\ ~ (p = q /\ u = t) => (<<p, u>> \in failed' <=> <<p, u>> \in failed)
  BY <1>2, <1>9
<1>12. ASSUME NEW p \in Paths, NEW u \in Times
       PROVE  /\ version'[p][u] \in {version[p][u], NoVersion}
              /\ u \in indexed'[p] \union stored'[p] => version'[p][u] = version[p][u]
  BY <1>2, <1>3, <1>7
<1>13. QED
  BY <1>1, <1>6, <1>7, <1>8, <1>10, <1>11, <1>12

-----------------------------------------------------------------------------
(* What each part of the invariant needs of a step                         *)

\* The types, apart from those of the calls.
StateTyped ==
    /\ mode \in Modes
    /\ content \subseteq Contents
    /\ version \in [Paths -> [Times -> Values]]
    /\ indexed \in [Paths -> SUBSET Times]
    /\ stored \in [Paths -> SUBSET Times]
    /\ clock \in 0 .. LastTime
    /\ failed \subseteq Versions
    /\ unsure \subseteq Contents
    /\ doubt \subseteq Threads
    /\ removed \subseteq Paths /\ contested \subseteq Paths
    /\ settled \in BOOLEAN

LEMMA TypesAfter ==
    ASSUME Calls', StateTyped'
    PROVE  TypeOK'
<1>1. \A th \in Threads : IsCall(call'[th])
  BY DEF Calls
<1>2. \A th \in Threads :
          /\ call'[th].step \in Steps
          /\ call'[th].path \in Paths /\ call'[th].entry \in Paths
          /\ call'[th].value \in Values
          /\ call'[th].time \in 0 .. LastTime
          /\ call'[th].contents \subseteq Contents
  BY <1>1 DEF IsCall
<1>3. QED
  BY <1>2 DEF StateTyped, TypeOK, Steps

\* Where no version changes, and the clock does not go back.
LEMMA VersionsKept ==
    ASSUME TypeOK, Kinds, Clocked, Balance, UNCHANGED <<version, indexed, stored, failed>>,
           clock' \in Nat, clock <= clock'
    PROVE  /\ Kinds' /\ Balance'
           /\ \A p \in Paths : indexed'[p] \union stored'[p] \subseteq 1 .. clock'
<1>1. 1 .. clock \subseteq 1 .. clock'
  BY TimesNatural DEF TypeOK
<1>2. QED
  BY <1>1 DEF Kinds, KindAt, Clocked, Balance

\* Where no content goes.
LEMMA ContentsStay ==
    ASSUME ContentKept, UNCHANGED <<version, stored, failed>>,
           content \union unsure \subseteq content' \union unsure'
    PROVE  ContentKept'
BY DEF ContentKept

LEMMA WrittenStays ==
    ASSUME Calls, Written, NEW th \in Threads, NEW d, NewCall(d), Becomes(th, d),
           content \union unsure \subseteq content' \union unsure',
           d.op = "write" /\ d.step \in {"index", "store"} => d.value \in content' \union unsure'
    PROVE  Written'
BY BecomesIs DEF Written

\* Where a call makes no version, or goes on with the one it makes.
LEMMA FreshStays ==
    ASSUME Calls, Clocked, Fresh, NEW th \in Threads, NEW d, NewCall(d), Becomes(th, d),
           UNCHANGED <<version, indexed, stored>>,
           \/ d.step \notin {"query", "push", "index", "store"}
           \/ ContinuesAt(call[th], d) /\ Timed(th) /\ d.step # "store"
    PROVE  /\ Fresh'
           /\ \A u \in Threads : Timed(u)' => Timed(u) /\ call'[u].time = call[u].time
<1>1. call'[th] = d /\ \A u \in Threads : u # th => call'[u] = call[u]
  BY BecomesIs
<1>2. \A u \in Threads : Timed(u)' =>
          /\ Timed(u) /\ call'[u].time = call[u].time /\ call'[u].path = call[u].path
          /\ call'[u].step = "store" => call[u].step = "store" /\ call'[u].value = call[u].value
  BY <1>1 DEF Timed, ContinuesAt, Continues
<1>3. ASSUME NEW u \in Threads PROVE FreshAt(u)'
  BY <1>2 DEF Fresh, FreshAt, Timed
<1>4. QED
  BY <1>2, <1>3 DEF Fresh

\* Where a call that is not a scan goes on: no scan is undisturbed beside it.
LEMMA ScansDisturbed ==
    ASSUME Calls, Scans, NEW th \in Threads, NEW d, NewCall(d), Becomes(th, d),
           call[th].step # "idle", d.op # "scan", doubt \subseteq doubt'
    PROVE  Scans'
<1>1. call'[th] = d /\ \A u \in Threads : u # th => call'[u] = call[u]
  BY BecomesIs
<1>2. ASSUME NEW u \in Threads, call'[u].op = "scan", u \notin doubt' PROVE FALSE
  <2>1. u # th /\ call[u].op = "scan" /\ u \notin doubt
    BY <1>1, <1>2
  <2>2. call[th] = Idle
    BY <2>1 DEF Scans, ScanAt
  <2>3. QED
    BY <2>2, IdleIs
<1>3. QED
  BY <1>2 DEF Scans, ScanAt

\* Where a scan goes on, it alone matters.
LEMMA ScansAlone ==
    ASSUME Calls, Scans, NEW th \in Threads, NEW d, NewCall(d), Becomes(th, d),
           call[th].step # "idle", doubt \subseteq doubt',
           call[th].op = "scan",
           d.op = "scan" /\ th \notin doubt' =>
               /\ d.step \in {"contents", "check"} => StoredVersions' \subseteq d.todo
               /\ d.step = "check" => d.contents = content'
               /\ d.step = "purge" =>
                     /\ \A ch \in d.contents : ~ Referenced(ch)'
                     /\ \A ch \in content' \ d.contents : Referenced(ch)'
    PROVE  Scans'
<1>1. call'[th] = d /\ \A u \in Threads : u # th => call'[u] = call[u]
  BY BecomesIs
<1>2. ASSUME NEW u \in Threads, u # th, call'[u].op = "scan", u \notin doubt' PROVE FALSE
  <2>1. call[u].op = "scan" /\ u \notin doubt
    BY <1>1, <1>2
  <2>2. call[th] = Idle
    BY <1>2, <2>1 DEF Scans, ScanAt
  <2>3. QED
    BY <2>2, IdleIs
<1>3. ScanAt(th)'
  <2> SUFFICES ASSUME d.op = "scan", th \notin doubt' PROVE ScanAt(th)'
    BY <1>1 DEF ScanAt
  <2>1. \A u \in Threads \ {th} : call'[u] = Idle
    BY <1>1 DEF Scans, ScanAt
  <2>2. QED
    BY <1>1, <2>1 DEF ScanAt
<1>4. QED
  BY <1>2, <1>3 DEF Scans, ScanAt

\* Where a call that updates no list goes on, or any call ends.
LEMMA RemovalStays ==
    ASSUME Calls, Removal, NEW th \in Threads, NEW d, NewCall(d), Becomes(th, d),
           d.op \notin {"updatens", "remove"},
           UNCHANGED <<version, indexed, removed, contested>>
    PROVE  Removal'
<1>1. call'[th] = d /\ \A u \in Threads : u # th => call'[u] = call[u]
  BY BecomesIs
<1>2. ASSUME NEW u \in Threads PROVE RemovingAt(u)'
  <2> SUFFICES ASSUME call'[u].op = "remove", call'[u].entry \notin contested' PROVE RemovingAt(u)'
    BY DEF RemovingAt
  <2>1. u # th /\ call'[u] = call[u] /\ RemovingAt(u)
    BY <1>1 DEF Removal
  <2>2. Listing(call[u].path) = {u}
    BY <2>1 DEF RemovingAt
  <2>3. \A w \in Threads : w \in Listing(call[u].path)' <=> w \in Listing(call[u].path)
    BY <1>1, <2>1, <2>2 DEF Listing
  <2>4. Listing(call[u].path)' = {u}
    BY <2>2, <2>3 DEF Listing
  <2>5. QED
    BY <2>1, <2>4 DEF RemovingAt, Hidden, Newest
<1>3. \A p \in removed' \ contested' : Hidden(Parent[p], p)'
  BY DEF Removal, Hidden
<1>4. QED
  BY <1>2, <1>3 DEF Removal

-----------------------------------------------------------------------------
(* Every step keeps the invariant                                          *)

\* A call that begins leaves the store alone. Scans under way are in doubt, and
\* a removal that is not contested is still alone with its list.
LEMMA BeginKeeps ==
    ASSUME IInv, NEW th \in Threads, StartCall(th)
    PROVE  IInv'
<1>1. PICK d : /\ NewCall(d) /\ Becomes(th, d) /\ Begin(th, d.op, d)
               /\ d.step \in {"stamp", "metas", "select"} /\ d.op # "none"
  BY BeginIs DEF IInv
<1>2. UNCHANGED <<mode, content, version, indexed, stored, clock, failed, unsure, settled>>
  BY <1>1 DEF Begin
<1>3. call[th] = Idle
  BY <1>1 DEF Begin, Allowed, At, IInv, Calls, StepOfOp
<1>4. Calls' /\ call'[th] = d /\ \A u \in Threads : u # th => call'[u] = call[u]
  BY <1>1, BecomesIs DEF IInv
<1>5. d.path \in Paths /\ d.entry \in Paths /\ \A u \in Threads : call[u].entry \in Paths
  BY <1>1 DEF NewCall, IsCall, IInv, Calls
<1> DEFINE contests == d.op \in {"updatens", "remove"} /\ Listing(d.path) # {}
<1>6. /\ contests => contested' = contested \union {d.entry} \union {call[u].entry : u \in Listing(d.path)}
      /\ ~contests => contested' = contested \ {d.entry}
      /\ removed' = removed \ {d.entry}
      /\ doubt' = (doubt \ {th}) \union {u \in Threads : call[u].op = "scan"} \union
                    {u \in {th} : d.op = "scan" /\ ~Quiet}
  BY <1>1 DEF Begin
<1>7. TypeOK'
  <2>1. contested' \subseteq Paths /\ removed' \subseteq Paths /\ doubt' \subseteq Threads
    BY <1>5, <1>6 DEF IInv, TypeOK, Listing
  <2>2. QED
    BY <1>2, <1>4, <2>1, TypesAfter DEF StateTyped, IInv, TypeOK
<1>8. Kinds' /\ Balance' /\ \A p \in Paths : indexed'[p] \union stored'[p] \subseteq 1 .. clock'
  BY <1>2, VersionsKept, TimesNatural DEF IInv, TypeOK
<1>9. Fresh' /\ Clocked'
  BY <1>1, <1>2, <1>8, FreshStays DEF IInv, Clocked
<1>10. ContentKept' /\ Written'
  BY <1>1, <1>2, ContentsStay, WrittenStays DEF IInv
<1>11. Scans'
  <2>1. ASSUME NEW u \in Threads, u # th, call'[u].op = "scan", u \notin doubt' PROVE FALSE
    BY <1>4, <1>6, <2>1
  <2>2. d.op = "scan" => d.step = "metas"
    BY <1>1 DEF NewCall, StepOfOp
  <2>3. d.op = "scan" /\ th \notin doubt' => \A u \in Threads : call[u] = Idle
    BY <1>6 DEF Quiet, At, IInv, Calls, StepOfOp
  <2>4. ScanAt(th)'
    BY <1>4, <2>2, <2>3 DEF ScanAt
  <2>5. QED
    BY <2>1, <2>4 DEF Scans, ScanAt
<1>12. Settled'
  BY <1>2 DEF IInv, Settled, Referenced
<1>13. Removal'
  <2>1. ASSUME NEW u \in Threads, call'[u].op = "remove", call'[u].entry \notin contested'
        PROVE  RemovingAt(u)'
    <3>1. CASE u = th
      <4>1. d.op = "remove" /\ d.entry \notin contested'
        BY <1>4, <2>1, <3>1
      <4>2. ~contests
        BY <1>6, <4>1
      <4>3. Listing(d.path)' = {th}
        BY <1>4, <4>1, <4>2 DEF Listing
      <4>4. QED
        BY <1>1, <1>4, <3>1, <4>3 DEF RemovingAt
    <3>2. CASE u # th
      <4>1. call'[u] = call[u] /\ u \in Listing(call[u].path)
        BY <1>4, <2>1, <3>2 DEF Listing
      <4>2. /\ call[u].entry # Root /\ call[u].path = Parent[call[u].entry]
            /\ d.op = "remove" => d.path = Parent[d.entry]
            /\ d.op # "remove" => d.entry = Root
        BY <1>1, <2>1, <4>1 DEF IInv, Calls, NewCall, ValueOfOp
      <4>3. d.op \in {"updatens", "remove"} => d.path # call[u].path
        <5> SUFFICES ASSUME d.op \in {"updatens", "remove"}, d.path = call[u].path PROVE FALSE
          OBVIOUS
        <5>1. contests
          BY <4>1
        <5>2. QED
          BY <1>6, <2>1, <4>1, <5>1
      <4>4. d.entry # call[u].entry
        BY <4>2, <4>3
      <4>5. call[u].entry \notin contested
        BY <1>6, <2>1, <4>1, <4>4
      <4>6. RemovingAt(u) /\ Listing(call[u].path) = {u}
        BY <2>1, <4>1, <4>5 DEF IInv, Removal, RemovingAt
      <4>7. Listing(call[u].path)' = {u}
        <5>1. \A w \in Threads : w \in Listing(call[u].path)' <=> w = u
          BY <1>4, <2>1, <3>2, <4>1, <4>3, <4>6 DEF Listing
        <5>2. QED
          BY <5>1 DEF Listing
      <4>8. QED
        BY <1>2, <2>1, <4>1, <4>5, <4>6, <4>7 DEF RemovingAt, Hidden
    <3>3. QED
      BY <3>1, <3>2
  <2>2. ASSUME NEW p \in removed' \ contested' PROVE Hidden(Parent[p], p)'
    <3>1. p \in removed \ contested
      BY <1>6, <2>2
    <3>2. QED
      BY <1>2, <3>1 DEF IInv, Removal, Hidden
  <2>3. QED
    BY <2>1, <2>2 DEF Removal, RemovingAt
<1>14. QED
  BY <1>4, <1>7, <1>8, <1>9, <1>10, <1>11, <1>12, <1>13 DEF IInv

\* The time that is given is later than any other.
LEMMA StampKeeps ==
    ASSUME IInv, NEW th \in Threads, Stamp(th)
    PROVE  IInv'
<1>1. /\ UNCHANGED <<mode, content, version, indexed, stored, failed, unsure, doubt, removed,
                     contested, settled>>
      /\ clock' \in 1 .. LastTime /\ clock < clock' /\ call[th].step = "stamp"
  BY StampIs DEF Stamp, histVars, IInv
<1>2. PICK d : /\ NewCall(d) /\ Becomes(th, d) /\ Continues(call[th], d)
               /\ d.step \in {"query", "index"} /\ d.time = clock'
               /\ d.step = "index" => d.op # "write"
  BY StampIs DEF IInv
<1>3. Calls' /\ call'[th] = d /\ \A u \in Threads : u # th => call'[u] = call[u]
  BY <1>2, BecomesIs DEF IInv
<1>4. TypeOK'
  BY <1>1, <1>3, TypesAfter, TimesNatural DEF StateTyped, IInv, TypeOK
<1>5. Kinds' /\ Balance' /\ \A p \in Paths : indexed'[p] \union stored'[p] \subseteq 1 .. clock'
  BY <1>1, VersionsKept, TimesNatural DEF IInv, TypeOK
<1>6. d.path \in Paths /\ d.path = call[th].path /\ clock \in Nat /\ clock' \in Nat
  BY <1>1, <1>2, TimesNatural DEF NewCall, IsCall, Continues, IInv, TypeOK
<1>7. d.time \notin indexed[d.path] \union stored[d.path]
  BY <1>1, <1>2, <1>6 DEF IInv, Clocked
<1>8. \A u \in Threads : u # th /\ Timed(u) => call[u].time \in 1 .. clock /\ call[u].time # d.time
  BY <1>1, <1>2, <1>6 DEF IInv, Clocked
<1>9. Clocked'
  <2>1. \A u \in Threads : Timed(u)' => call'[u].time \in 1 .. clock'
    BY <1>1, <1>2, <1>3, <1>6, <1>8 DEF Timed
  <2>2. QED
    BY <1>5, <2>1 DEF Clocked
<1>10. Fresh'
  <2>1. FreshAt(th)'
    BY <1>1, <1>2, <1>3, <1>7, <1>8 DEF FreshAt, Timed
  <2>2. ASSUME NEW u \in Threads, u # th PROVE FreshAt(u)'
    BY <1>1, <1>2, <1>3, <1>8, <2>2 DEF IInv, Fresh, FreshAt, Timed
  <2>3. QED
    BY <2>1, <2>2 DEF Fresh
<1>11. ContentKept' /\ Written'
  BY <1>1, <1>2, ContentsStay, WrittenStays DEF IInv
<1>12. Scans'
  <2>1. d.op # "scan"
    BY <1>2 DEF NewCall, StepOfOp
  <2>2. QED
    BY <1>1, <1>2, <2>1, ScansDisturbed DEF IInv
<1>13. Settled'
  BY <1>1 DEF IInv, Settled, Referenced
<1>14. Removal'
  <2>1. \A u, w \in Threads : w \in Listing(call[u].path)' <=> w \in Listing(call[u].path)
    <3>1. \A u \in Threads : call'[u].op = call[u].op /\ call'[u].path = call[u].path
      BY <1>2, <1>3 DEF Continues
    <3>2. QED
      BY <3>1 DEF Listing
  <2>2. \A v \in indexed[d.path] : v < d.time
    BY <1>1, <1>2, <1>6 DEF IInv, Clocked
  <2>3. ASSUME NEW u \in Threads PROVE RemovingAt(u)'
    <3>1. RemovingAt(u)
      BY DEF IInv, Removal
    <3>2. Listing(call[u].path)' = Listing(call[u].path)
      BY <2>1 DEF Listing
    <3>3. CASE u = th
      BY <1>1, <1>2, <1>3, <2>2, <3>1, <3>2, <3>3 DEF RemovingAt, Continues
    <3>4. CASE u # th
      BY <1>1, <1>3, <3>1, <3>2, <3>4 DEF RemovingAt, Hidden
    <3>5. QED
      BY <3>3, <3>4
  <2>4. QED
    BY <1>1, <2>3 DEF IInv, Removal, Hidden
<1>15. QED
  BY <1>3, <1>4, <1>5, <1>9, <1>10, <1>11, <1>12, <1>13, <1>14 DEF IInv

\* What a call looks for, and its failures, change nothing else.
LEMMA WorkKeeps ==
    ASSUME IInv, NEW th \in Threads,
           QueryContent(th) \/ UploadConflicts(th) \/ CallFails(th) \/ SelectHistory(th)
    PROVE  IInv'
<1>1. /\ call[th].step \in {"query", "push", "index", "store", "select"}
      /\ UNCHANGED <<mode, content, version, indexed, stored, clock, failed, unsure, doubt, removed,
                     contested, settled>>
  BY WorkIs DEF IInv, histVars
<1>2. PICK d : /\ NewCall(d) /\ Becomes(th, d)
               /\ \/ d = Idle
                  \/ d.op = "removeHistory" /\ d.step = "drop"
                  \/ /\ ContinuesAt(call[th], d) /\ Timed(th)
                     /\ d.op = "write" /\ d.step \in {"push", "index"}
                     /\ d.step = "index" => d.value \in content
  BY WorkIs DEF IInv
<1>3. Calls' /\ TypeOK'
  BY <1>1, <1>2, BecomesIs, TypesAfter DEF StateTyped, IInv, TypeOK
<1>4. Kinds' /\ Balance' /\ \A p \in Paths : indexed'[p] \union stored'[p] \subseteq 1 .. clock'
  BY <1>1, VersionsKept, TimesNatural DEF IInv, TypeOK
<1>5. Fresh' /\ Clocked'
  BY <1>1, <1>2, <1>4, FreshStays, IdleIs DEF IInv, Clocked
<1>6. ContentKept' /\ Written' /\ Settled'
  BY <1>1, <1>2, ContentsStay, WrittenStays, IdleIs DEF IInv, Settled, Referenced
<1>7. Scans' /\ Removal'
  BY <1>1, <1>2, ScansDisturbed, RemovalStays, IdleIs DEF IInv
<1>8. QED
  BY <1>3, <1>4, <1>5, <1>6, <1>7 DEF IInv

\* A content is there, whatever was removed before.
LEMMA PushKeeps ==
    ASSUME IInv, NEW th \in Threads, PushContent(th) \/ Upload(th) \/ UploadLost(th)
    PROVE  IInv'
<1>1. call[th].step = "push" /\ call[th].op = "write" /\ Pushed(call[th].value)
  BY PushIs DEF IInv
<1>2. PICK d : /\ NewCall(d) /\ Becomes(th, d)
               /\ d = Idle \/ (ContinuesAt(call[th], d) /\ d.step = "index")
  BY PushIs DEF IInv
<1>3. /\ UNCHANGED <<mode, version, indexed, stored, clock, failed, doubt, removed, contested>>
      /\ content' = content \union {call[th].value} /\ unsure' = unsure \ {call[th].value}
      /\ settled' = FALSE
  BY <1>1 DEF Pushed
<1>4. call[th].value \in Contents
  BY <1>1 DEF IInv, Calls, ValueOfOp
<1>5. Calls' /\ TypeOK'
  BY <1>2, <1>3, <1>4, BecomesIs, TypesAfter DEF StateTyped, IInv, TypeOK
<1>6. Kinds' /\ Balance' /\ \A p \in Paths : indexed'[p] \union stored'[p] \subseteq 1 .. clock'
  BY <1>3, VersionsKept, TimesNatural DEF IInv, TypeOK
<1>7. Fresh' /\ Clocked'
  BY <1>1, <1>2, <1>3, <1>6, FreshStays, IdleIs DEF IInv, Clocked, Timed
<1>8. ContentKept' /\ Written' /\ Settled'
  BY <1>2, <1>3, ContentsStay, WrittenStays, IdleIs DEF IInv, Settled, ContinuesAt, Continues
<1>9. Scans' /\ Removal'
  BY <1>1, <1>2, <1>3, ScansDisturbed, RemovalStays, IdleIs DEF IInv, ContinuesAt, Continues
<1>10. QED
  BY <1>5, <1>6, <1>7, <1>8, <1>9 DEF IInv

\* The version that a call makes.
LEMMA MakingIs ==
    ASSUME IInv, NEW th \in Threads, call[th].step \in {"index", "store"}
    PROVE  /\ call[th].path \in Paths /\ call[th].time \in Times /\ call[th].value \in Values
           /\ call[th].value # NoVersion
           /\ call[th].value \in IF call[th].path \in Files THEN FileValues ELSE SUBSET Paths
           /\ call[th].op \notin {"updatens", "remove"} => call[th].path \in Files
           /\ call[th].op \in {"updatens", "remove"} => call[th].path \in Namespaces
           /\ call[th].time \in 1 .. clock /\ call[th].op # "scan"
           /\ call[th].time \notin stored[call[th].path]
           /\ \A u \in Threads : u # th /\ Timed(u) => call[u].time # call[th].time
<1>1. Timed(th) /\ call[th].op \in {"updatens", "write", "symlink", "remove"}
  BY DEF Timed, IInv, Calls, StepOfOp
<1>2. call[th].path \in Paths /\ call[th].value \in Values
  BY DEF IInv, Calls, IsCall
<1>3. call[th].time \in 1 .. clock /\ call[th].time \in Times
  BY <1>1, TimesNatural DEF IInv, Clocked, TypeOK, Times
<1>4. /\ call[th].op \notin {"updatens", "remove"} => call[th].path \in Files /\ call[th].value \in FileValues
      /\ call[th].op \in {"updatens", "remove"} =>
             call[th].path \in Namespaces /\ call[th].value \in SUBSET Paths
  BY <1>1 DEF IInv, Calls, ValueOfOp, FileValues
<1>5. call[th].value \in IF call[th].path \in Files THEN FileValues ELSE SUBSET Paths
  BY <1>4 DEF Files
<1>6. call[th].value # NoVersion
  BY <1>4, ValuesDistinct DEF FileValues
<1>7. QED
  BY <1>1, <1>2, <1>3, <1>4, <1>5, <1>6 DEF IInv, Fresh, FreshAt

\* A version is written over what was there.
LEMMA PutIs ==
    ASSUME version \in [Paths -> [Times -> Values]], NEW p \in Paths, NEW t \in Times,
           NEW v \in Values, version' = [version EXCEPT ![p][t] = v]
    PROVE  /\ version' \in [Paths -> [Times -> Values]]
           /\ \A q \in Paths, u \in Times :
                 version'[q][u] = IF q = p /\ u = t THEN v ELSE version[q][u]
<1>1. version' = [version EXCEPT ![p] = [version[p] EXCEPT ![t] = v]]
  OBVIOUS
<1>2. [version[p] EXCEPT ![t] = v] \in [Times -> Values]
  OBVIOUS
<1>3. QED
  BY <1>1, <1>2

\* A version that is indexed is not stored yet: it did not succeed so far.
LEMMA IndexKeeps ==
    ASSUME IInv, NEW th \in Threads, IndexMeta(th)
    PROVE  IInv'
<1> DEFINE p == call[th].path
           t == call[th].time
           v == call[th].value
<1>1. PICK d : NewCall(d) /\ Becomes(th, d) /\ ContinuesAt(call[th], d) /\ d.step = "store"
  BY IndexIs DEF IInv
<1>2. call[th].step = "index" /\ Timed(th)
  BY IndexIs DEF IInv
<1>3. /\ p \in Paths /\ t \in Times /\ v \in Values /\ v # NoVersion
      /\ v \in IF p \in Files THEN FileValues ELSE SUBSET Paths
      /\ call[th].op \notin {"updatens", "remove"} => p \in Files
      /\ call[th].op \in {"updatens", "remove"} => p \in Namespaces
      /\ t \in 1 .. clock /\ call[th].op # "scan"
      /\ t \notin stored[p]
      /\ \A u \in Threads : u # th /\ Timed(u) => call[u].time # t
  BY <1>2, MakingIs
<1>4. /\ UNCHANGED <<mode, content, stored, clock, unsure, doubt, contested>>
      /\ version' = [version EXCEPT ![p][t] = v]
      /\ indexed' = [indexed EXCEPT ![p] = @ \union {t}]
      /\ failed' = failed \union {<<p, t>>}
      /\ removed' = IF p \in Namespaces THEN removed \ v ELSE removed
      /\ settled' = FALSE
  BY DEF IndexMeta
<1>5. /\ d.path = p /\ d.time = t /\ d.value = v /\ d.op = call[th].op /\ d.entry = call[th].entry
      /\ d.step = "store"
  BY <1>1 DEF ContinuesAt, Continues
<1>6. Calls' /\ call'[th] = d /\ \A u \in Threads : u # th => call'[u] = call[u]
  BY <1>1, BecomesIs DEF IInv
<1> HIDE DEF p, t, v
<1>7. /\ version' \in [Paths -> [Times -> Values]]
      /\ \A q \in Paths, u \in Times :
            version'[q][u] = IF q = p /\ u = t THEN v ELSE version[q][u]
  BY <1>3, <1>4, PutIs DEF IInv, TypeOK
<1>8. /\ indexed' \in [Paths -> SUBSET Times] /\ indexed'[p] = indexed[p] \union {t}
      /\ \A q \in Paths : q # p => indexed'[q] = indexed[q]
  BY <1>3, <1>4 DEF IInv, TypeOK
<1>9. TypeOK'
  <2>1. failed' \subseteq Versions /\ removed' \subseteq Paths
    BY <1>3, <1>4 DEF IInv, TypeOK, Versions
  <2>2. QED
    BY <1>4, <1>6, <1>7, <1>8, <2>1, TypesAfter DEF StateTyped, IInv, TypeOK
<1>10. Kinds'
  BY <1>3, <1>4, <1>7, <1>8 DEF IInv, Kinds, KindAt
<1>11. Clocked'
  BY <1>3, <1>4, <1>5, <1>6, <1>8 DEF IInv, Clocked, Timed
<1>12. Fresh'
  <2>1. FreshAt(th)'
    BY <1>3, <1>4, <1>5, <1>6, <1>7 DEF FreshAt, Timed
  <2>2. ASSUME NEW u \in Threads, u # th PROVE FreshAt(u)'
    <3>1. FreshAt(u) /\ call'[u] = call[u] /\ call[u].path \in Paths
      BY <1>6, <2>2 DEF IInv, Fresh, Calls, IsCall
    <3>2. Timed(u) => call[u].time \in Times /\ call[u].time # t
      BY <1>3, <2>2, TimesNatural DEF IInv, Clocked, TypeOK, Times
    <3>3. \A w \in Threads : Timed(w)' => Timed(w) /\ call'[w].time = call[w].time
      BY <1>2, <1>5, <1>6 DEF Timed, p, t, v
    <3>4. Timed(u) => /\ version'[call[u].path][call[u].time] = version[call[u].path][call[u].time]
                      /\ call[u].time \in indexed'[call[u].path] => call[u].time \in indexed[call[u].path]
      BY <1>7, <1>8, <3>1, <3>2
    <3>5. QED
      BY <1>4, <3>1, <3>3, <3>4 DEF FreshAt, Timed
  <2>3. QED
    BY <2>1, <2>2 DEF Fresh
<1>13. Balance'
  BY <1>3, <1>4, <1>8 DEF IInv, Balance
<1>14. ContentKept'
  BY <1>4, <1>7 DEF IInv, ContentKept, Files
<1>15. Written'
  <2>1. d.op = "write" => v \in content \union unsure
    BY <1>2, <1>5 DEF IInv, Written, v
  <2>2. QED
    BY <1>1, <1>4, <1>5, <2>1, WrittenStays DEF IInv
<1>16. Scans'
  BY <1>1, <1>2, <1>3, <1>4, <1>5, ScansDisturbed DEF IInv
<1>17. Settled'
  BY <1>4 DEF Settled
<1>18. Removal'
  <2>1. ASSUME NEW u \in Threads PROVE Listing(call[u].path)' = Listing(call[u].path)
    <3>1. \A w \in Threads : call'[w].op = call[w].op /\ call'[w].path = call[w].path
      BY <1>5, <1>6 DEF p
    <3>2. QED
      BY <3>1 DEF Listing
  <2>2. RemovingAt(th)'
    <3> SUFFICES ASSUME d.op = "remove", d.entry \notin contested PROVE RemovingAt(th)'
      BY <1>4, <1>6 DEF RemovingAt
    <3>1. Listing(p) = {th} /\ \A u \in indexed[p] : u < t
      BY <1>2, <1>5 DEF IInv, Removal, RemovingAt, p, t
    <3>2. Newest(indexed'[p]) = t
      <4>1. indexed[p] \in SUBSET Times
        BY <1>3 DEF IInv, TypeOK
      <4>2. QED
        BY <1>3, <1>8, <3>1, <4>1, NewestOfMore
    <3>3. d.entry \notin v
      BY <1>1, <1>5 DEF NewCall, ValueOfOp
    <3>4. d.entry \notin version'[p][Newest(indexed'[p])]
      BY <1>3, <1>7, <3>2, <3>3
    <3>5. Listing(d.path)' = {th}
      BY <2>1, <1>5, <1>6, <3>1 DEF Listing, p
    <3>6. d.entry \notin version'[d.path][Newest(indexed'[d.path])]
      BY <1>5, <3>4
    <3>7. QED
      BY <1>5, <1>6, <3>5, <3>6 DEF RemovingAt, Hidden
  <2>3. ASSUME NEW u \in Threads, u # th PROVE RemovingAt(u)'
    <3> SUFFICES ASSUME call[u].op = "remove", call[u].entry \notin contested PROVE RemovingAt(u)'
      BY <1>4, <1>6, <2>3 DEF RemovingAt
    <3>1. call'[u] = call[u] /\ RemovingAt(u) /\ Listing(call[u].path) = {u}
      BY <1>6, <2>3 DEF IInv, Removal, RemovingAt
    <3>2. call[u].path \in Paths /\ call[u].path \in Namespaces
      BY DEF IInv, Calls, IsCall, ValueOfOp
    <3>3. call[u].path # p
      BY <1>3, <2>3, <3>1, <3>2 DEF Listing, Files, p
    <3>4. /\ indexed'[call[u].path] = indexed[call[u].path]
          /\ \A w \in Times : version'[call[u].path][w] = version[call[u].path][w]
      BY <1>7, <1>8, <3>2, <3>3
    <3>5. Hidden(call[u].path, call[u].entry) =>
              Hidden(call[u].path, call[u].entry)'
      <4>1. indexed[call[u].path] \in SUBSET Times
        BY <3>2 DEF IInv, TypeOK
      <4>2. indexed[call[u].path] # {} => Newest(indexed[call[u].path]) \in Times
        BY <4>1, NewestType
      <4>3. QED
        BY <3>1, <3>4, <4>2 DEF Hidden
    <3>6. QED
      BY <1>4, <2>1, <3>1, <3>4, <3>5 DEF RemovingAt
  <2>4. ASSUME NEW e \in removed' \ contested' PROVE Hidden(Parent[e], e)'
    <3>1. e \in removed \ contested /\ e \in Paths /\ Hidden(Parent[e], e)
      BY <1>4, <2>4 DEF IInv, TypeOK, Removal
    <3>2. Parent[e] \in Namespaces /\ Parent[e] \in Paths
      BY <3>1, ParentIsNamespace, RootIsNamespace
    <3>3. indexed[Parent[e]] \in SUBSET Times
      BY <3>2 DEF IInv, TypeOK
    <3>4. CASE Parent[e] = p
      <4>1. e \notin v
        BY <1>4, <2>4, <3>2, <3>4
      <4>2. \/ Newest(indexed'[p]) = t
            \/ indexed[p] # {} /\ Newest(indexed'[p]) = Newest(indexed[p])
        BY <1>3, <1>8, <3>3, <3>4, NewestOfMore
      <4>3. indexed[p] # {} => Newest(indexed[p]) \in Times
        BY <3>3, <3>4, NewestType
      <4>4. CASE Newest(indexed'[p]) = t
        <5>1. e \notin version'[p][Newest(indexed'[p])]
          BY <1>3, <1>7, <4>1, <4>4
        <5>2. QED
          BY <3>4, <5>1 DEF Hidden
      <4>5. CASE Newest(indexed'[p]) # t
        <5>1. indexed[p] # {} /\ Newest(indexed'[p]) = Newest(indexed[p])
          BY <4>2, <4>5
        <5>2. e \notin version[p][Newest(indexed[p])]
          BY <3>1, <3>4, <5>1 DEF Hidden
        <5>3. e \notin version'[p][Newest(indexed'[p])]
          BY <1>3, <1>7, <4>3, <4>5, <5>1, <5>2
        <5>4. QED
          BY <3>4, <5>3 DEF Hidden
      <4>6. QED
        BY <4>4, <4>5
    <3>5. CASE Parent[e] # p
      <4>1. indexed[Parent[e]] # {} => Newest(indexed[Parent[e]]) \in Times
        BY <3>3, NewestType
      <4>2. QED
        BY <1>7, <1>8, <3>1, <3>2, <3>5, <4>1 DEF Hidden
    <3>6. QED
      BY <3>4, <3>5
  <2>5. QED
    BY <2>2, <2>3, <2>4 DEF Removal
<1>19. QED
  BY <1>6, <1>9, <1>10, <1>11, <1>12, <1>13, <1>14, <1>15, <1>16, <1>17, <1>18 DEF IInv

\* What is hidden stays so where the index, and what it lists, stay.
LEMMA HiddenStays ==
    ASSUME TypeOK, NEW q \in Paths, NEW e, Hidden(q, e), indexed'[q] = indexed[q],
           \A u \in indexed[q] : version'[q][u] = version[q][u]
    PROVE  Hidden(q, e)'
<1>1. indexed[q] \in SUBSET Times
  BY DEF TypeOK
<1>2. indexed[q] # {} => Newest(indexed[q]) \in indexed[q]
  BY <1>1, NewestIs
<1>3. QED
  BY <1>2 DEF Hidden

\* A version that is stored is the one that is indexed; if RemoveHistory took
\* that away the write did not succeed.
LEMMA StoreKeeps ==
    ASSUME IInv, NEW th \in Threads, StoreMeta(th) \/ PutMetaLost(th)
    PROVE  IInv'
<1> DEFINE p == call[th].path
           t == call[th].time
           v == call[th].value
<1>1. /\ call[th].step = "store" /\ Timed(th) /\ Stored(p, t, v)
      /\ NewCall(Idle) /\ Becomes(th, Idle)
      /\ removed' = removed \/ (call[th].op = "remove" /\ removed' = removed \union {call[th].entry})
  BY StoreIs DEF IInv
<1>2. /\ p \in Paths /\ t \in Times /\ v \in Values /\ v # NoVersion
      /\ v \in IF p \in Files THEN FileValues ELSE SUBSET Paths
      /\ call[th].op \notin {"updatens", "remove"} => p \in Files
      /\ call[th].op \in {"updatens", "remove"} => p \in Namespaces
      /\ t \in 1 .. clock /\ call[th].op # "scan"
      /\ t \notin stored[p]
      /\ \A u \in Threads : u # th /\ Timed(u) => call[u].time # t
  BY <1>1, MakingIs
<1>3. /\ UNCHANGED <<mode, content, indexed, clock, unsure, doubt, contested, settled>>
      /\ stored' = [stored EXCEPT ![p] = @ \union {t}]
      /\ version' = [version EXCEPT ![p][t] = v]
      /\ failed' = IF t \in indexed[p] THEN failed \ {<<p, t>>} ELSE failed \union {<<p, t>>}
  BY <1>1 DEF Stored
<1>4. Calls' /\ call'[th] = Idle /\ \A u \in Threads : u # th => call'[u] = call[u]
  BY <1>1, BecomesIs DEF IInv
<1>5. t \in indexed[p] => version[p][t] = v
  BY <1>1 DEF IInv, Fresh, FreshAt
<1>6. p \in Files /\ v \in Contents => v \in content \union unsure
  <2> SUFFICES ASSUME p \in Files, v \in Contents PROVE v \in content \union unsure
    OBVIOUS
  <2>1. call[th].op = "write"
    BY <1>1, <1>2, ValuesDistinct DEF IInv, Calls, StepOfOp, ValueOfOp, Files
  <2>2. QED
    BY <1>1, <2>1 DEF IInv, Written
<1>7. call[th].op = "remove" => /\ call[th].entry \in Paths /\ p = Parent[call[th].entry]
                                /\ call[th].entry \notin contested => Hidden(p, call[th].entry)
  BY <1>1 DEF IInv, Calls, IsCall, ValueOfOp, Removal, RemovingAt
<1> HIDE DEF p, t, v
<1>8. /\ version' \in [Paths -> [Times -> Values]]
      /\ \A q \in Paths, u \in Times :
            version'[q][u] = IF q = p /\ u = t THEN v ELSE version[q][u]
  BY <1>2, <1>3, PutIs DEF IInv, TypeOK
<1>9. /\ stored' \in [Paths -> SUBSET Times] /\ stored'[p] = stored[p] \union {t}
       /\ \A q \in Paths : q # p => stored'[q] = stored[q]
  BY <1>2, <1>3 DEF IInv, TypeOK
<1>10. TypeOK'
  <2>1. failed' \subseteq Versions /\ removed' \subseteq Paths
    BY <1>1, <1>2, <1>3, <1>7 DEF IInv, TypeOK, Versions
  <2>2. QED
    BY <1>3, <1>4, <1>8, <1>9, <2>1, TypesAfter DEF StateTyped, IInv, TypeOK
<1>11. Kinds'
  <2> SUFFICES ASSUME NEW q \in Paths, NEW u \in Times PROVE KindAt(q, u)'
    BY DEF Kinds
  <2>1. CASE q = p /\ u = t
    BY <1>2, <1>8, <2>1 DEF KindAt
  <2>2. CASE ~ (q = p /\ u = t)
    <3>1. version'[q][u] = version[q][u] /\ (u \in stored'[q] <=> u \in stored[q])
      BY <1>8, <1>9, <2>2
    <3>2. QED
      BY <1>3, <3>1 DEF IInv, Kinds, KindAt
  <2>3. QED
    BY <2>1, <2>2
<1>12. Clocked'
  BY <1>2, <1>3, <1>4, <1>9, IdleIs DEF IInv, Clocked, Timed
<1>13. Fresh'
  <2>1. ASSUME NEW u \in Threads PROVE FreshAt(u)'
    <3>1. CASE u = th
      BY <1>4, <3>1, IdleIs DEF FreshAt, Timed
    <3>2. CASE u # th
      <4>1. FreshAt(u) /\ call'[u] = call[u] /\ call[u].path \in Paths
        BY <1>4, <3>2 DEF IInv, Fresh, Calls, IsCall
      <4>2. Timed(u) => call[u].time \in Times /\ call[u].time # t
        BY <1>2, <3>2, TimesNatural DEF IInv, Clocked, TypeOK, Times
      <4>3. \A w \in Threads : Timed(w)' => Timed(w) /\ call'[w] = call[w]
        BY <1>4, IdleIs DEF Timed
      <4>4. Timed(u) => /\ version'[call[u].path][call[u].time] = version[call[u].path][call[u].time]
                        /\ call[u].time \in stored'[call[u].path] => call[u].time \in stored[call[u].path]
        BY <1>8, <1>9, <4>1, <4>2
      <4>5. QED
        BY <1>3, <4>1, <4>3, <4>4 DEF FreshAt, Timed
    <3>3. QED
      BY <3>1, <3>2
  <2>2. QED
    BY <2>1 DEF Fresh
<1>14. Balance'
  <2> SUFFICES ASSUME NEW q \in Paths, NEW u \in Times
               PROVE  <<q, u>> \in failed' <=> ~ (u \in indexed'[q] <=> u \in stored'[q])
    BY DEF Balance
  <2>1. CASE q = p /\ u = t
    BY <1>3, <1>9, <2>1
  <2>2. CASE ~ (q = p /\ u = t)
    BY <1>3, <1>9, <2>2 DEF IInv, Balance
  <2>3. QED
    BY <2>1, <2>2
<1>15. ContentKept'
  <2> SUFFICES ASSUME NEW q \in Files, NEW u \in Times, u \in stored'[q], <<q, u>> \notin failed',
                      version'[q][u] \in Contents
               PROVE  version'[q][u] \in content' \union unsure'
    BY DEF ContentKept
  <2>1. q \in Paths
    BY DEF Files
  <2>2. CASE q = p /\ u = t
    BY <1>2, <1>3, <1>6, <1>8, <2>2
  <2>3. CASE ~ (q = p /\ u = t)
    <3>1. u \in stored[q] /\ <<q, u>> \notin failed /\ version'[q][u] = version[q][u]
      BY <1>3, <1>8, <1>9, <2>1, <2>3
    <3>2. QED
      BY <1>3, <3>1 DEF IInv, ContentKept
  <2>4. QED
    BY <2>2, <2>3
<1>16. Written'
  BY <1>1, <1>3, WrittenStays, IdleIs DEF IInv
<1>17. Scans'
  BY <1>1, <1>3, ScansDisturbed, IdleIs DEF IInv
<1>18. Settled'
  <2> SUFFICES ASSUME settled, NEW ch \in content PROVE Referenced(ch)'
    BY <1>3 DEF Settled
  <2>1. PICK q \in Files : \E u \in stored[q] : version[q][u] = ch
    BY DEF IInv, Settled, Referenced
  <2>2. PICK u \in stored[q] : version[q][u] = ch
    BY <2>1
  <2>3. q \in Paths /\ u \in Times /\ ~ (q = p /\ u = t)
    BY <1>2, <2>2 DEF Files, IInv, TypeOK
  <2>4. u \in stored'[q] /\ version'[q][u] = ch
    BY <1>8, <1>9, <2>2, <2>3
  <2>5. QED
    BY <2>4 DEF Referenced
<1>19. Removal'
  <2>1. ASSUME NEW q \in Paths, NEW u \in indexed[q] PROVE version'[q][u] = version[q][u]
    BY <1>5, <1>8 DEF IInv, TypeOK
  <2>2. ASSUME NEW u \in Threads PROVE RemovingAt(u)'
    <3> SUFFICES ASSUME call'[u].op = "remove", call'[u].entry \notin contested PROVE RemovingAt(u)'
      BY <1>3 DEF RemovingAt
    <3>1. u # th /\ call'[u] = call[u] /\ RemovingAt(u) /\ Listing(call[u].path) = {u}
      BY <1>4, IdleIs DEF IInv, Removal, RemovingAt
    <3>2. Listing(call[u].path)' = {u}
      <4>1. \A w \in Threads : w \in Listing(call[u].path)' <=> w = u
        BY <1>4, <3>1, IdleIs DEF Listing
      <4>2. QED
        BY <4>1 DEF Listing
    <3>3. call[u].path \in Paths
      BY DEF IInv, Calls, IsCall
    <3>4. Hidden(call[u].path, call[u].entry) => Hidden(call[u].path, call[u].entry)'
      <4>1. ASSUME NEW q \in Paths, NEW e, Hidden(q, e) PROVE Hidden(q, e)'
        BY <1>3, <2>1, <4>1, HiddenStays DEF IInv
      <4>2. QED
        BY <3>1, <3>3, <4>1 DEF Hidden
    <3>5. QED
      BY <1>3, <3>1, <3>2, <3>4 DEF RemovingAt
  <2>3. ASSUME NEW e \in removed' \ contested' PROVE Hidden(Parent[e], e)'
    <3>1. e \in Paths /\ Parent[e] \in Paths /\ Hidden(Parent[e], e)
      <4>1. CASE e \in removed
        BY <1>3, <2>3, <4>1, ParentIsNamespace, RootIsNamespace DEF IInv, TypeOK, Removal
      <4>2. CASE e \notin removed
        BY <1>1, <1>2, <1>3, <1>7, <2>3, <4>2
      <4>3. QED
        BY <4>1, <4>2
    <3>2. QED
      BY <1>3, <2>1, <3>1, HiddenStays DEF IInv
  <2>4. QED
    BY <2>2, <2>3 DEF Removal
<1>20. QED
  BY <1>4, <1>10, <1>11, <1>12, <1>13, <1>14, <1>15, <1>16, <1>17, <1>18, <1>19 DEF IInv

\* A scan that nobody disturbs knows of all versions and of all contents.
LEMMA ScanKeeps ==
    ASSUME IInv, NEW th \in Threads,
           scanMetaDir(th) \/ scanMetaObjs(th) \/ scanContentDir(th) \/ scanContentObjs(th)
    PROVE  IInv'
<1>1. /\ UNCHANGED <<mode, content, version, indexed, stored, clock, failed, unsure, removed,
                     contested, settled>>
      /\ doubt' = doubt \/ doubt' = doubt \union {th}
      /\ call[th].step \in {"metas", "contents"}
      /\ \E d : /\ NewCall(d) /\ Becomes(th, d) /\ d.op = "scan" /\ d.step \in {"contents", "check"}
                /\ th \notin doubt' => /\ StoredVersions \subseteq d.todo
                                       /\ d.step = "check" => d.contents = content
  <2>1. CASE scanMetaDir(th) \/ scanMetaObjs(th)
    <3>1. PICK d : /\ NewCall(d) /\ Becomes(th, d) /\ d.op = "scan" /\ d.step = "contents"
                   /\ th \notin doubt' => StoredVersions \subseteq d.todo
      BY <2>1, MetasIs DEF IInv
    <3>2. QED
      BY <2>1, <3>1, MetasIs DEF IInv
  <2>2. CASE scanContentDir(th) \/ scanContentObjs(th)
    <3>1. PICK d : /\ NewCall(d) /\ Becomes(th, d) /\ d.op = "scan" /\ d.step = "check"
                   /\ d.todo = call[th].todo
                   /\ th \notin doubt' => d.contents = content
      BY <2>2, ContentsIs DEF IInv
    <3>2. /\ call[th].step = "contents"
          /\ UNCHANGED <<mode, content, version, indexed, stored, clock, failed, unsure, removed,
                         contested, settled>>
          /\ doubt' = doubt \/ doubt' = doubt \union {th}
      BY <2>2, ContentsIs DEF IInv
    <3>3. call[th].op = "scan"
      BY <3>2 DEF IInv, Calls, StepOfOp
    <3>4. th \notin doubt' => StoredVersions \subseteq d.todo
      BY <3>1, <3>2, <3>3 DEF IInv, Scans, ScanAt
    <3>5. QED
      BY <3>1, <3>2, <3>4
  <2>3. QED
    BY <2>1, <2>2
<1>2. PICK d : /\ NewCall(d) /\ Becomes(th, d) /\ d.op = "scan" /\ d.step \in {"contents", "check"}
               /\ th \notin doubt' => /\ StoredVersions \subseteq d.todo
                                      /\ d.step = "check" => d.contents = content
  BY <1>1
<1>3. call[th].op = "scan"
  BY <1>1 DEF IInv, Calls, StepOfOp
<1>4. Calls' /\ TypeOK'
  BY <1>1, <1>2, BecomesIs, TypesAfter DEF StateTyped, IInv, TypeOK
<1>5. Kinds' /\ Balance' /\ \A p \in Paths : indexed'[p] \union stored'[p] \subseteq 1 .. clock'
  BY <1>1, VersionsKept, TimesNatural DEF IInv, TypeOK
<1>6. Fresh' /\ Clocked'
  BY <1>1, <1>2, <1>5, FreshStays DEF IInv, Clocked
<1>7. ContentKept' /\ Written' /\ Settled'
  BY <1>1, <1>2, ContentsStay, WrittenStays DEF IInv, Settled, Referenced
<1>8. StoredVersions' = StoredVersions
  BY <1>1 DEF StoredVersions
<1>9. Scans' /\ Removal'
  BY <1>1, <1>2, <1>3, <1>8, ScansAlone, RemovalStays DEF IInv
<1>10. QED
  BY <1>4, <1>5, <1>6, <1>7, <1>9 DEF IInv

\* What the scan then holds is what no version refers to.
LEMMA CheckKeeps ==
    ASSUME IInv, NEW th \in Threads, CheckMetas(th)
    PROVE  IInv'
<1>1. /\ call[th].step = "check" /\ call[th].op = "scan"
      /\ UNCHANGED <<mode, content, version, indexed, stored, clock, failed, unsure, doubt, removed,
                     contested, settled>>
  BY CheckIs DEF IInv, histVars
<1>2. PICK d : /\ NewCall(d) /\ Becomes(th, d) /\ d.op = "scan" /\ d.step = "purge"
               /\ d.contents = call[th].contents \ Existing(call[th].todo)
  BY CheckIs DEF IInv
<1>3. Calls' /\ TypeOK'
  BY <1>1, <1>2, BecomesIs, TypesAfter DEF StateTyped, IInv, TypeOK
<1>4. Kinds' /\ Balance' /\ \A p \in Paths : indexed'[p] \union stored'[p] \subseteq 1 .. clock'
  BY <1>1, VersionsKept, TimesNatural DEF IInv, TypeOK
<1>5. Fresh' /\ Clocked'
  BY <1>1, <1>2, <1>4, FreshStays DEF IInv, Clocked
<1>6. ContentKept' /\ Written' /\ Settled'
  BY <1>1, <1>2, ContentsStay, WrittenStays DEF IInv, Settled, Referenced
<1>7. ASSUME th \notin doubt
      PROVE  /\ \A ch \in d.contents : ~ Referenced(ch)
             /\ \A ch \in content \ d.contents : Referenced(ch)
  <2>1. /\ StoredVersions \subseteq call[th].todo /\ call[th].contents = content
        /\ call[th].todo \subseteq Versions
    BY <1>1, <1>7 DEF IInv, Scans, ScanAt, Calls, ValueOfOp
  <2>2. ASSUME NEW ch \in d.contents, NEW p \in Files, NEW t \in stored[p], version[p][t] = ch
        PROVE  FALSE
    <3>1. p \in Paths /\ t \in Times
      BY DEF Files, IInv, TypeOK
    <3>2. <<p, t>> \in StoredVersions
      BY <3>1 DEF StoredVersions, Versions
    <3>3. <<p, t>> \in call[th].todo
      BY <2>1, <3>2
    <3>4. version[<<p, t>>[1]][<<p, t>>[2]] \in Existing(call[th].todo)
      BY <3>3 DEF Existing
    <3>5. QED
      BY <1>2, <2>2, <3>4
  <2>3. ASSUME NEW ch \in content \ d.contents PROVE Referenced(ch)
    <3>1. ch \in Existing(call[th].todo) /\ ch \in Contents
      BY <1>2, <2>1 DEF IInv, TypeOK
    <3>2. PICK w \in call[th].todo : w[2] \in stored[w[1]] /\ version[w[1]][w[2]] = ch
      BY <3>1 DEF Existing
    <3>3. w[1] \in Paths /\ w[2] \in Times
      BY <2>1, <3>2 DEF Versions
    <3>4. w[1] \in Files
      BY <3>1, <3>2, <3>3, ValuesDistinct DEF IInv, Kinds, KindAt
    <3>5. QED
      BY <3>2, <3>4 DEF Referenced
  <2>4. QED
    BY <2>2, <2>3 DEF Referenced
<1>8. /\ \A ch : Referenced(ch)' <=> Referenced(ch)
      /\ content' = content
  BY <1>1 DEF Referenced
<1>9. Scans' /\ Removal'
  BY <1>1, <1>2, <1>7, <1>8, ScansAlone, RemovalStays DEF IInv
<1>10. QED
  BY <1>3, <1>4, <1>5, <1>6, <1>9 DEF IInv

\* A purge takes no content that a version refers to, unless the scan is in
\* doubt; and after one that is not, none is left that no version refers to.
LEMMA PurgeKeeps ==
    ASSUME IInv, NEW th \in Threads, purgeContent(th)
    PROVE  IInv'
<1>1. /\ call[th].step = "purge" /\ call[th].op = "scan"
      /\ UNCHANGED <<mode, version, indexed, stored, clock, failed, removed, contested>>
  BY PurgeIs DEF IInv
<1>2. \A ch : Referenced(ch)' <=> Referenced(ch)
  BY <1>1 DEF Referenced
<1>3. th \notin doubt =>
          /\ \A ch \in call[th].contents : ~ Referenced(ch)
          /\ \A ch \in content \ call[th].contents : Referenced(ch)
          /\ \A u \in Threads \ {th} : call[u] = Idle
  BY <1>1 DEF IInv, Scans, ScanAt
<1>4. Kinds' /\ Balance' /\ \A p \in Paths : indexed'[p] \union stored'[p] \subseteq 1 .. clock'
  BY <1>1, VersionsKept, TimesNatural DEF IInv, TypeOK
<1>5. CASE /\ NewCall(Idle) /\ Becomes(th, Idle) /\ call[th].contents = {}
           /\ settled' = (th \notin doubt)
           /\ UNCHANGED <<content, unsure, doubt>>
  <2>1. Calls' /\ TypeOK'
    BY <1>1, <1>5, BecomesIs, TypesAfter DEF StateTyped, IInv, TypeOK
  <2>2. Fresh' /\ Clocked'
    BY <1>1, <1>4, <1>5, FreshStays, IdleIs DEF IInv, Clocked
  <2>3. ContentKept' /\ Written'
    BY <1>1, <1>5, ContentsStay, WrittenStays, IdleIs DEF IInv
  <2>4. Settled'
    BY <1>2, <1>3, <1>5 DEF Settled
  <2>5. Scans' /\ Removal'
    BY <1>1, <1>5, ScansAlone, RemovalStays, IdleIs DEF IInv
  <2>6. QED
    BY <1>4, <2>1, <2>2, <2>3, <2>4, <2>5 DEF IInv
<1>6. ASSUME NEW ch \in call[th].contents, NEW d,
             /\ NewCall(d) /\ Becomes(th, d) /\ d.op = "scan" /\ d.step = "purge"
             /\ d.contents = call[th].contents \ {ch}
             /\ \/ content' = content \ {ch} /\ doubt' = doubt
                \/ content' \in {content, content \ {ch}} /\ doubt' = doubt \union {th}
             /\ unsure' = IF th \in doubt THEN unsure \union {ch} ELSE unsure
             /\ UNCHANGED settled
      PROVE  IInv'
  <2>1. ch \in Contents /\ content' \subseteq content
    BY <1>6 DEF IInv, Calls, IsCall
  <2>2. Calls' /\ TypeOK'
    BY <1>1, <1>6, <2>1, BecomesIs, TypesAfter DEF StateTyped, IInv, TypeOK
  <2>3. Fresh' /\ Clocked'
    BY <1>1, <1>4, <1>6, FreshStays DEF IInv, Clocked
  <2>4. CASE th \in doubt
    <3>1. content \union unsure \subseteq content' \union unsure'
      BY <1>6, <2>4
    <3>2. ContentKept' /\ Written'
      BY <1>1, <1>6, <3>1, ContentsStay, WrittenStays DEF IInv
    <3>3. Scans'
      BY <1>1, <1>6, <2>4, ScansAlone DEF IInv
    <3>4. QED
      BY <1>1, <1>2, <1>4, <1>6, <2>1, <2>2, <2>3, <3>2, <3>3, RemovalStays DEF IInv, Settled
  <2>5. CASE th \notin doubt
    <3>1. ~ Referenced(ch) /\ unsure' = unsure /\ content \ {ch} \subseteq content'
      BY <1>3, <1>6, <2>5
    <3>2. ContentKept'
      BY <1>1, <3>1 DEF IInv, ContentKept, Referenced
    <3>3. Written'
      <4>1. \A u \in Threads : call'[u].op # "write"
        BY <1>3, <1>6, <2>5, BecomesIs, IdleIs DEF IInv
      <4>2. QED
        BY <4>1 DEF Written
    <3>4. th \notin doubt' =>
              /\ \A other \in d.contents : ~ Referenced(other)'
              /\ \A other \in content' \ d.contents : Referenced(other)'
      BY <1>2, <1>3, <1>6, <2>5
    <3>5. Scans'
      BY <1>1, <1>6, <3>4, ScansAlone DEF IInv
    <3>6. QED
      BY <1>1, <1>2, <1>4, <1>6, <2>1, <2>2, <2>3, <3>2, <3>3, <3>5, RemovalStays DEF IInv, Settled
  <2>6. QED
    BY <2>4, <2>5
<1>7. QED
  BY <1>5, <1>6, PurgeIs DEF IInv

\* What a removal of history takes is gone from the index, then from the storage;
\* it contests the removals of entries of that namespace.
LEMMA DropKeeps ==
    ASSUME IInv, NEW th \in Threads, DropStep(th)
    PROVE  IInv'
<1>1. /\ call[th].step \in {"drop", "unstore"} /\ call[th].op = "removeHistory"
      /\ UNCHANGED <<mode, content, clock, unsure, doubt>>
  BY DropIs DEF IInv
<1>2. PICK d : /\ NewCall(d) /\ Becomes(th, d)
               /\ d = Idle \/ (/\ d.op = "removeHistory"
                               /\ d.step \in {"select", "drop", "unstore"})
  BY DropIs DEF IInv
<1>3. Calls' /\ call'[th] = d /\ \A u \in Threads : u # th => call'[u] = call[u]
  BY <1>2, BecomesIs DEF IInv
<1>4. Written' /\ Scans'
  BY <1>1, <1>2, WrittenStays, ScansDisturbed, IdleIs DEF IInv
<1>5. CASE VersionsStay
  <2>0. UNCHANGED <<version, indexed, stored, failed, removed, contested, settled>>
    BY <1>5 DEF VersionsStay
  <2>1. TypeOK'
    BY <1>1, <1>3, <2>0, TypesAfter DEF StateTyped, IInv, TypeOK
  <2>2. Kinds' /\ Balance' /\ \A p \in Paths : indexed'[p] \union stored'[p] \subseteq 1 .. clock'
    BY <1>1, <2>0, VersionsKept, TimesNatural DEF IInv, TypeOK
  <2>3. Fresh' /\ Clocked'
    BY <1>1, <1>2, <2>0, <2>2, FreshStays, IdleIs DEF IInv, Clocked
  <2>4. ContentKept' /\ Settled'
    BY <1>1, <2>0, ContentsStay DEF IInv, Settled, Referenced
  <2>5. Removal'
    BY <1>2, <2>0, RemovalStays, IdleIs DEF IInv
  <2>6. QED
    BY <1>3, <1>4, <2>1, <2>2, <2>3, <2>4, <2>5 DEF IInv
<1>6. ASSUME NEW q \in Paths, NEW t \in Times, Dropping(q, t) PROVE IInv'
  <2>1. /\ version' \in [Paths -> [Times -> Values]]
        /\ indexed' \in [Paths -> SUBSET Times] /\ stored' \in [Paths -> SUBSET Times]
        /\ failed' \subseteq Versions /\ removed' \subseteq removed
        /\ \A p \in Paths : p # q => indexed'[p] = indexed[p]
    BY <1>6, DroppingIs DEF IInv
  <2>2. ASSUME NEW p \in Paths, NEW u \in Times
        PROVE  /\ u \in indexed'[p] => u \in indexed[p]
               /\ u \in stored'[p] => u \in stored[p]
               /\ version'[p][u] \in {version[p][u], NoVersion}
               /\ u \in indexed'[p] \union stored'[p] => version'[p][u] = version[p][u]
               /\ p = q /\ u = t => /\ ~ (u \in indexed'[p] /\ u \in stored'[p])
                                    /\ <<p, u>> \in failed' <=> u \in indexed'[p] \union stored'[p]
               /\ ~ (p = q /\ u = t) => /\ u \in indexed'[p] <=> u \in indexed[p]
                                        /\ u \in stored'[p] <=> u \in stored[p]
                                        /\ <<p, u>> \in failed' <=> <<p, u>> \in failed
                                        /\ version'[p][u] = version[p][u]
    BY <1>6, DroppingIs DEF IInv
  <2>3. /\ settled' = FALSE
        /\ \/ UNCHANGED <<indexed, removed, contested>>
           \/ /\ removed' = {e \in removed : Parent[e] # q}
              /\ contested' = contested \union {call[u].entry : u \in Listing(q)}
    BY <1>6 DEF Dropping, Taken
  <2>4. TypeOK'
    <3>1. \A u \in Listing(q) : call[u].entry \in Paths
      BY DEF IInv, Calls, IsCall, Listing
    <3>2. removed' \subseteq Paths /\ contested' \subseteq Paths
      BY <2>1, <2>3, <3>1 DEF IInv, TypeOK
    <3>3. QED
      BY <1>1, <1>3, <2>1, <2>3, <3>2, TypesAfter DEF StateTyped, IInv, TypeOK
  <2>5. Kinds'
    <3> SUFFICES ASSUME NEW p \in Paths, NEW u \in Times PROVE KindAt(p, u)'
      BY DEF Kinds
    <3>1. KindAt(p, u)
      BY DEF IInv, Kinds
    <3>2. QED
      BY <2>2, <3>1 DEF KindAt
  <2>6. Clocked'
    <3>1. ASSUME NEW p \in Paths PROVE indexed'[p] \subseteq indexed[p] /\ stored'[p] \subseteq stored[p]
      BY <2>1, <2>2 DEF IInv, TypeOK
    <3>2. \A u \in Threads : Timed(u)' => Timed(u) /\ call'[u] = call[u]
      BY <1>2, <1>3, IdleIs DEF Timed
    <3>3. QED
      BY <1>1, <3>1, <3>2 DEF IInv, Clocked
  <2>7. Fresh'
    <3>1. ASSUME NEW u \in Threads PROVE FreshAt(u)'
      <4>1. \A w \in Threads : Timed(w)' => Timed(w) /\ call'[w] = call[w]
        BY <1>2, <1>3, IdleIs DEF Timed
      <4>2. FreshAt(u) /\ call[u].path \in Paths
        BY DEF IInv, Fresh, Calls, IsCall
      <4>3. Timed(u) => call[u].time \in Times
        BY TimesNatural DEF IInv, Clocked, TypeOK, Times
      <4>4. Timed(u) =>
                /\ call[u].time \in stored'[call[u].path] => call[u].time \in stored[call[u].path]
                /\ call[u].time \in indexed'[call[u].path] =>
                       /\ call[u].time \in indexed[call[u].path]
                       /\ version'[call[u].path][call[u].time] = version[call[u].path][call[u].time]
        BY <2>2, <4>2, <4>3
      <4>5. QED
        BY <4>1, <4>2, <4>4 DEF FreshAt, Timed
    <3>2. QED
      BY <3>1 DEF Fresh
  <2>8. Balance'
    <3> SUFFICES ASSUME NEW p \in Paths, NEW u \in Times
                 PROVE  <<p, u>> \in failed' <=> ~ (u \in indexed'[p] <=> u \in stored'[p])
      BY DEF Balance
    <3>1. <<p, u>> \in failed <=> ~ (u \in indexed[p] <=> u \in stored[p])
      BY DEF IInv, Balance
    <3>2. QED
      BY <2>2, <3>1
  <2>9. ContentKept'
    <3> SUFFICES ASSUME NEW p \in Files, NEW u \in Times, u \in stored'[p], <<p, u>> \notin failed',
                        version'[p][u] \in Contents
                 PROVE  version'[p][u] \in content' \union unsure'
      BY DEF ContentKept
    <3>1. p \in Paths
      BY DEF Files
    <3>2. u \in stored[p] /\ <<p, u>> \notin failed /\ version'[p][u] = version[p][u]
      BY <2>2, <3>1
    <3>3. QED
      BY <1>1, <3>2 DEF IInv, ContentKept
  <2>10. Settled'
    BY <2>3 DEF Settled
  <2>11. Removal'
    <3>1. ASSUME NEW p \in Paths, indexed'[p] = indexed[p], NEW e, Hidden(p, e) PROVE Hidden(p, e)'
      <4>1. ASSUME NEW u \in indexed[p] PROVE version'[p][u] = version[p][u]
        <5>1. u \in Times /\ u \in indexed'[p]
          BY <3>1 DEF IInv, TypeOK
        <5>2. QED
          BY <2>2, <5>1
      <4>2. QED
        BY <2>1, <3>1, <4>1, HiddenStays DEF IInv
    <3>2. ASSUME NEW u \in Threads PROVE RemovingAt(u)'
      <4> SUFFICES ASSUME call'[u].op = "remove", call'[u].entry \notin contested' PROVE RemovingAt(u)'
        BY DEF RemovingAt
      <4>1. u # th /\ call'[u] = call[u] /\ call[u].entry \notin contested
        BY <1>2, <1>3, <2>3, IdleIs
      <4>2. RemovingAt(u) /\ Listing(call[u].path) = {u}
        BY <4>1 DEF IInv, Removal, RemovingAt
      <4>3. Listing(call[u].path)' = {u}
        <5>1. \A w \in Threads : w \in Listing(call[u].path)' <=> w = u
          BY <1>1, <1>2, <1>3, <4>1, <4>2, IdleIs DEF Listing
        <5>2. QED
          BY <5>1 DEF Listing
      <4>4. call[u].path \in Paths /\ indexed'[call[u].path] = indexed[call[u].path]
        <5>1. call[u].path \in Paths
          BY DEF IInv, Calls, IsCall
        <5>2. CASE UNCHANGED <<indexed, removed, contested>>
          BY <5>1, <5>2
        <5>3. CASE contested' = contested \union {call[w].entry : w \in Listing(q)}
          <6>1. call[u].path # q
            BY <4>1, <4>2, <5>3
          <6>2. QED
            BY <2>1, <5>1, <6>1
        <5>4. QED
          BY <2>3, <5>2, <5>3
      <4>5. Hidden(call[u].path, call[u].entry) => Hidden(call[u].path, call[u].entry)'
        BY <3>1, <4>1, <4>4 DEF Hidden
      <4>6. QED
        BY <2>1, <4>1, <4>2, <4>3, <4>4, <4>5 DEF RemovingAt
    <3>3. ASSUME NEW e \in removed' \ contested' PROVE Hidden(Parent[e], e)'
      <4>1. e \in removed \ contested /\ e \in Paths
        BY <2>1, <2>3, <3>3 DEF IInv, TypeOK
      <4>2. Parent[e] \in Paths /\ Hidden(Parent[e], e)
        BY <4>1, ParentIsNamespace, RootIsNamespace DEF IInv, Removal
      <4>3. indexed'[Parent[e]] = indexed[Parent[e]]
        BY <2>1, <2>3, <3>3, <4>2
      <4>4. QED
        BY <3>1, <4>2, <4>3
    <3>4. QED
      BY <3>2, <3>3 DEF Removal
  <2>12. QED
    BY <1>3, <1>4, <2>4, <2>5, <2>6, <2>7, <2>8, <2>9, <2>10, <2>11 DEF IInv
<1>7. QED
  BY <1>5, <1>6, DropIs DEF IInv

\* After a crash nobody is doing anything; the store is as it was.
LEMMA CrashKeeps ==
    ASSUME IInv, Crash
    PROVE  IInv'
<1>1. /\ UNCHANGED <<mode, content, version, indexed, stored, clock, failed, unsure, doubt, removed,
                     contested, settled>>
      /\ call' = [th \in Threads |-> Idle]
  BY DEF Crash, histVars
<1>2. Calls'
  BY <1>1, IdleIs DEF Calls, NewCall
<1>3. TypeOK'
  BY <1>1, <1>2, TypesAfter DEF StateTyped, IInv, TypeOK
<1>4. Kinds' /\ Balance' /\ \A p \in Paths : indexed'[p] \union stored'[p] \subseteq 1 .. clock'
  BY <1>1, VersionsKept, TimesNatural DEF IInv, TypeOK
<1>5. Clocked' /\ Fresh' /\ Written' /\ Scans'
  BY <1>1, <1>4, IdleIs DEF Clocked, Fresh, FreshAt, Timed, Written, Scans, ScanAt
<1>6. ContentKept' /\ Settled'
  BY <1>1, ContentsStay DEF IInv, Settled, Referenced
<1>7. Removal'
  BY <1>1, IdleIs DEF IInv, Removal, RemovingAt, Hidden
<1>8. QED
  BY <1>2, <1>3, <1>4, <1>5, <1>6, <1>7 DEF IInv

\* The store to begin with.
LEMMA InitIInv == Init => IInv
<1> SUFFICES ASSUME Init PROVE IInv
  OBVIOUS
<1>1. /\ version \in [Paths -> [Times -> Values]]
      /\ \A p \in Paths, t \in Times : version[p][t] # NoVersion =>
             version[p][t] \in IF p \in Files THEN FileValues ELSE SUBSET Paths
  BY PriorsTyped DEF Init
<1>2. indexed = [p \in Paths |-> {t \in Times : version[p][t] # NoVersion}] /\ stored = indexed
  BY DEF Init
<1>3. indexed \in [Paths -> SUBSET Times]
  BY <1>2
<1> DEFINE all == UNION {indexed[p] : p \in Paths}
<1>4. all \in SUBSET Times /\ clock = Newest(all)
  BY <1>3 DEF Init
<1>5. \A p \in Paths : \A t \in indexed[p] : t \in all
  OBVIOUS
<1> HIDE DEF all
<1>6. clock \in 0 .. LastTime
  BY <1>4, NewestType
<1>7. TypeOK
  <2>1. \A th \in Threads : IsCall(call[th])
    BY IdleIs DEF Init, NewCall
  <2>2. \A th \in Threads : call[th].step \in Steps
    BY <2>1 DEF IsCall
  <2>3. content \subseteq Contents
    BY DEF Init
  <2>4. QED
    BY <1>1, <1>2, <1>3, <1>6, <2>1, <2>2, <2>3 DEF Init, IsCall, Steps, TypeOK
<1>8. Calls
  BY IdleIs DEF Init, Calls, NewCall
<1>9. Kinds
  BY <1>1, <1>2 DEF Kinds, KindAt
<1>10. Clocked
  <2>1. ASSUME NEW p \in Paths, NEW t \in indexed[p] PROVE t \in 1 .. clock
    <3>1. t \in all /\ t \in Times
      BY <1>3, <1>5
    <3>2. t <= clock
      BY <1>4, <3>1, NewestIs
    <3>3. QED
      BY <1>6, <3>1, <3>2, TimesNatural DEF Times
  <2>2. QED
    BY <1>2, <2>1, IdleIs DEF Init, Clocked, Timed
<1>11. Fresh /\ Written /\ Scans /\ Removal /\ Settled
  BY IdleIs DEF Init, Fresh, FreshAt, Timed, Written, Scans, ScanAt, Removal, RemovingAt, Settled
<1>12. Balance
  BY <1>2 DEF Init, Balance
<1>13. ContentKept
  BY <1>2, <1>3 DEF Init, ContentKept, Files
<1>14. QED
  BY <1>7, <1>8, <1>9, <1>10, <1>11, <1>12, <1>13 DEF IInv

-----------------------------------------------------------------------------
(* The theorems                                                            *)

LEMMA NextKeeps == IInv /\ [Next]_vars => IInv'
<1> SUFFICES ASSUME IInv, [Next]_vars PROVE IInv'
  OBVIOUS
<1>1. CASE UNCHANGED vars
  <2>1. UNCHANGED <<mode, content, version, indexed, stored, clock, call, failed, unsure, doubt,
                    removed, contested, settled>>
    BY <1>1 DEF vars, histVars
  <2>2. TypeOK' /\ Calls' /\ Kinds' /\ Clocked' /\ Fresh' /\ Balance'
    BY <2>1 DEF IInv, TypeOK, Calls, Kinds, KindAt, Clocked, Fresh, FreshAt, Timed, Balance
  <2>3. ContentKept' /\ Written' /\ Settled'
    BY <2>1 DEF IInv, ContentKept, Written, Settled, Referenced
  <2>4. Scans'
    BY <2>1 DEF IInv, Scans, ScanAt, StoredVersions, Referenced
  <2>5. Removal'
    BY <2>1 DEF IInv, Removal, RemovingAt, Hidden, Listing
  <2>6. QED
    BY <2>2, <2>3, <2>4, <2>5 DEF IInv
<1>2. ASSUME NEW th \in Threads, CallStep(th) PROVE IInv'
  BY <1>2, StampKeeps, WorkKeeps, PushKeeps, IndexKeeps, StoreKeeps, ScanKeeps, CheckKeeps,
     PurgeKeeps, DropKeeps DEF CallStep, DropStep
<1>3. QED
  BY <1>1, <1>2, BeginKeeps, CrashKeeps DEF Next

\* The inductive invariant holds.
THEOREM StoreInvariant == Spec => []IInv
BY InitIInv, NextKeeps, PTL DEF Spec

\* Metadata, contents and calls keep their types: what a namespace holds is a
\* list, and what a call is going to store is one where it updates a namespace
\* (odss.go, doUpdatens and getMetaBytes).
THEOREM StoreTypeOK == Spec => []TypeOK
<1>1. IInv => TypeOK
  BY DEF IInv
<1>2. QED
  BY <1>1, StoreInvariant, PTL

\* Whatever goroutines write, scan, purge and remove at the same time, whatever
\* fails, the content of a version whose write succeeded is there, unless a
\* purge that was disturbed took it (purgeContent and pushContent, odss.go).
THEOREM StoreContentKept == Spec => []ContentKept
<1>1. IInv => ContentKept
  BY DEF IInv
<1>2. QED
  BY <1>1, StoreInvariant, PTL

\* An entry that was removed stays out of its namespace until it is listed
\* again, unless another update of that namespace, or a removal of its history,
\* went on at the same time (Remove and doUpdatens, odss.go).
THEOREM StoreRemovalHolds == Spec => []RemovalHolds
<1>1. IInv => RemovalHolds
  <2> SUFFICES ASSUME IInv, NEW p \in removed \ contested PROVE ~ Lists(Parent[p], p, Forever)
    BY DEF RemovalHolds
  <2>1. TypeOK /\ Hidden(Parent[p], p) /\ p \in Paths
    BY DEF IInv, Removal, TypeOK
  <2>2. Parent[p] \in Paths
    BY <2>1, ParentIsNamespace, RootIsNamespace
  <2>3. QED
    BY <2>1, <2>2, HiddenIs
<1>2. QED
  BY <1>1, StoreInvariant, PTL

\* After a purge that nobody disturbed no content is left that no version refers
\* to, and AuditIndex reports exactly the versions that a write or a removal left
\* halfway, unless it fails on a symbolic link or a content that is missing
\* (scanMetas, purgeContent and auditIndex, odss.go).
THEOREM StorePurgeExact == Spec => []PurgeExact
<1>1. IInv => PurgeExact
  <2> SUFFICES ASSUME IInv, settled
               PROVE  /\ \A ch \in content : Referenced(ch)
                      /\ auditIndex = IF \E p \in Files : \E t \in stored[p] :
                                             version[p][t] \in {Link} \union (Contents \ content)
                                      THEN {"error"} ELSE failed
    BY DEF PurgeExact, Referenced
  <2> DEFINE Wrong(p, t) == version[p][t] \in {Link} \union (Contents \ content)
  <2>1. \A ch \in content : Referenced(ch)
    BY DEF IInv, Settled
  <2>2. ASSUME NEW p \in Files, NEW t \in stored[p]
        PROVE  p \in Paths /\ t \in Times /\ version[p][t] \in FileValues
    <3>1. p \in Paths /\ t \in Times
      BY DEF Files, IInv, TypeOK
    <3>2. QED
      BY <3>1 DEF IInv, Kinds, KindAt
  <2>3. ASSUME NEW p \in Files, NEW t \in stored[p]
        PROVE  Wrong(p, t) <=> version[p][t] \notin content
    <3>1. version[p][t] \in Contents \union {Link} /\ Link \notin content
      BY <2>2, ValuesDistinct DEF FileValues, IInv, TypeOK
    <3>2. QED
      BY <3>1
  <2>4. (\E v \in Versions : v[2] \in stored[v[1]] /\ v[1] \in Files /\ version[v[1]][v[2]] \notin content)
          <=> \E p \in Files : \E t \in stored[p] : Wrong(p, t)
    <3>1. ASSUME NEW p \in Files, NEW t \in stored[p], Wrong(p, t)
          PROVE  \E v \in Versions : v[2] \in stored[v[1]] /\ v[1] \in Files
                                     /\ version[v[1]][v[2]] \notin content
      <4>1. <<p, t>> \in Versions
        BY <2>2 DEF Versions
      <4>2. version[p][t] \notin content
        BY <2>3, <3>1
      <4>3. QED
        BY <4>1, <4>2
    <3>2. ASSUME NEW v \in Versions, v[2] \in stored[v[1]], v[1] \in Files, version[v[1]][v[2]] \notin content
          PROVE  \E p \in Files : \E t \in stored[p] : Wrong(p, t)
      <4>1. Wrong(v[1], v[2])
        BY <2>3, <3>2
      <4>2. QED
        BY <3>2, <4>1
    <3> HIDE DEF Wrong
    <3>3. QED
      BY <3>1, <3>2
  <2>5. ASSUME ~ \E p \in Files : \E t \in stored[p] : Wrong(p, t)
        PROVE  content = Contents \intersect UNION {{version[p][t] : t \in stored[p]} : p \in Files}
    <3>1. ASSUME NEW ch \in content
          PROVE  ch \in Contents \intersect UNION {{version[p][t] : t \in stored[p]} : p \in Files}
      <4>1. ch \in Contents
        BY DEF IInv, TypeOK
      <4>2. PICK p \in Files : \E t \in stored[p] : version[p][t] = ch
        BY <2>1 DEF Referenced
      <4>3. ch \in {version[p][t] : t \in stored[p]}
        BY <4>2
      <4>4. QED
        BY <4>1, <4>3
    <3>2. ASSUME NEW ch \in Contents, NEW p \in Files, ch \in {version[p][t] : t \in stored[p]}
          PROVE  ch \in content
      BY <2>5, <3>2
    <3>3. QED
      BY <3>1, <3>2
  <2>6. UNION {{<<p, t>> : t \in (stored[p] \ indexed[p]) \union (indexed[p] \ stored[p])} : p \in Paths}
          = failed
    <3> DEFINE diff(p) == {<<p, t>> : t \in (stored[p] \ indexed[p]) \union (indexed[p] \ stored[p])}
    <3>1. ASSUME NEW p \in Paths, NEW v \in diff(p) PROVE v \in failed
      <4>1. PICK t \in (stored[p] \ indexed[p]) \union (indexed[p] \ stored[p]) : v = <<p, t>>
        OBVIOUS
      <4>2. t \in Times
        BY DEF IInv, TypeOK
      <4>3. QED
        BY <4>1, <4>2 DEF IInv, Balance
    <3>2. ASSUME NEW v \in failed PROVE \E p \in Paths : v \in diff(p)
      <4>1. PICK p \in Paths, t \in Times : v = <<p, t>>
        BY DEF IInv, TypeOK, Versions
      <4>2. t \in (stored[p] \ indexed[p]) \union (indexed[p] \ stored[p])
        BY <4>1 DEF IInv, Balance
      <4>3. QED
        BY <4>1, <4>2
    <3> HIDE DEF diff
    <3>3. UNION {diff(p) : p \in Paths} = failed
      BY <3>1, <3>2
    <3>4. QED
      BY <3>3 DEF diff
  <2> HIDE DEF Wrong
  <2>7. CASE \E p \in Files : \E t \in stored[p] : Wrong(p, t)
    <3>1. auditIndex = {"error"}
      BY <2>4, <2>7 DEF auditIndex
    <3>2. QED
      BY <2>1, <2>7, <3>1 DEF Wrong
  <2>8. CASE ~ \E p \in Files : \E t \in stored[p] : Wrong(p, t)
    <3>1. auditIndex = failed
      BY <2>4, <2>5, <2>6, <2>8 DEF auditIndex
    <3>2. QED
      BY <2>1, <2>8, <3>1 DEF Wrong
  <2>9. QED
    BY <2>7, <2>8
<1>2. QED
  BY <1>1, StoreInvariant, PTL

-----------------------------------------------------------------------------
(* The history is what is seen                                             *)

\* Instants are rounded down to a multiple of the resolution.
LEMMA AlignIs ==
    ASSUME NEW t \in Nat, NEW r \in Nat \ {0}
    PROVE  /\ Align(t, r) \in Nat
           /\ Align(t, r) <= t /\ t < Align(t, r) + r
BY DEF Align

\* Multiples of the resolution are that far apart.
LEMMA AlignApart ==
    ASSUME NEW t \in Nat, NEW u \in Nat, NEW r \in Nat \ {0}, Align(t, r) < Align(u, r)
    PROVE  Align(t, r) + r <= Align(u, r)
<1> DEFINE k == t \div r
           l == u \div r
<1>1. k \in Nat /\ l \in Nat
  OBVIOUS
<1>2. Align(t, r) = k * r /\ Align(u, r) = l * r
  BY DEF Align
<1> HIDE DEF k, l
<1>3. k + 1 <= l
  <2>1. l <= k => l * r <= k * r
    BY <1>1
  <2>2. QED
    BY <1>1, <1>2, <2>1
<1>4. (k + 1) * r <= l * r
  BY <1>1, <1>3
<1>5. QED
  BY <1>1, <1>2, <1>4

\* An interval holds an instant; the end of what is shown for an instant.
Spans(i, t) == i.start <= t /\ t <= i.end
Until(t, r) == Align(t, r) + r - 1

IntervalRecords == [start : Nat, end : Int, at : Times]

\* What rounding does to the order of instants.
LEMMA AlignOrder ==
    ASSUME NEW t \in Nat, NEW u \in Nat, NEW r \in Nat \ {0}
    PROVE  /\ u <= t => Align(u, r) <= Align(t, r)
           /\ Align(u, r) <= t <=> u <= Until(t, r)
           /\ t < Align(u, r) <=> Until(t, r) < u
           /\ Align(t, r) + 1 = Align(u, r) => r = 1
           /\ r = 1 => Align(t, r) = t
<1>1. /\ Align(t, r) \in Nat /\ Align(t, r) <= t /\ t < Align(t, r) + r
      /\ Align(u, r) \in Nat /\ Align(u, r) <= u /\ u < Align(u, r) + r
  BY AlignIs
<1>2. /\ Align(t, r) < Align(u, r) => Align(t, r) + r <= Align(u, r)
      /\ Align(u, r) < Align(t, r) => Align(u, r) + r <= Align(t, r)
  BY AlignApart
<1>3. QED
  BY <1>1, <1>2 DEF Until

\* The interval of a version.
RawInterval(p, u, r) ==
    [start |-> Align(u, r),
     end   |-> IF Later(p, u) = {} THEN Forever ELSE Align(Next1(p, u), r) - 1,
     at    |-> u]

LEMMA NextIs ==
    ASSUME NEW p, indexed[p] \in SUBSET Times, NEW u \in Times, Later(p, u) # {}
    PROVE  /\ Next1(p, u) \in indexed[p] /\ Next1(p, u) \in Times /\ u < Next1(p, u)
           /\ \A v \in indexed[p] : u < v => Next1(p, u) <= v
<1>1. Later(p, u) \in SUBSET Nat
  BY TimesNatural DEF Later, Times
<1>2. \E n \in Later(p, u) : \A v \in Later(p, u) : n <= v
  BY <1>1, LeastNat
<1>3. Next1(p, u) \in Later(p, u) /\ \A v \in Later(p, u) : Next1(p, u) <= v
  BY <1>2 DEF Next1
<1>4. QED
  BY <1>3 DEF Later

\* Rounded instants of versions.
Marks(times, r) == {Align(u, r) : u \in times}

LEMMA RawIs ==
    ASSUME NEW p, indexed[p] \in SUBSET Times, NEW r \in Nat \ {0}, r <= Second, NEW u \in indexed[p]
    PROVE  LET i == RawInterval(p, u, r)
           IN /\ i \in IntervalRecords
              /\ i.start = Align(u, r) /\ i.at = u
              /\ i.end = Forever \/ (i.end + 1 \in Marks(indexed[p], r) /\ i.end < LastTime)
              /\ \A t \in Nat : t <= LastTime =>
                    (Spans(i, t) <=> u <= Until(t, r) /\ \A v \in indexed[p] : u < v => Until(t, r) < v)
              /\ \A v \in indexed[p] : u < v => i.end < Align(v, r)
<1>0. PICK i : i = RawInterval(p, u, r)
  OBVIOUS
<1>1. /\ LastTime \in Nat /\ Second \in Nat \ {0} /\ Forever \in Nat /\ LastTime < Forever
      /\ Times \subseteq Nat /\ \A v \in Times : v <= LastTime
  BY TimesNatural DEF Times, Forever
<1>2. u \in Times /\ u \in Nat
  BY <1>1
<1>3. Align(u, r) \in Nat
  BY <1>2, AlignIs
<1>4. i.start = Align(u, r) /\ i.at = u
  BY <1>0 DEF RawInterval
<1>5. \A t \in Nat : Align(u, r) <= t <=> u <= Until(t, r)
  BY <1>2, AlignOrder
<1>6. CASE Later(p, u) = {}
  <2>1. i.end = Forever
    BY <1>0, <1>6 DEF RawInterval
  <2>2. \A v \in indexed[p] : ~(u < v)
    BY <1>6 DEF Later
  <2>3. i \in IntervalRecords
    BY <1>0, <1>1, <1>2, <1>3, <1>6 DEF RawInterval, IntervalRecords
  <2>4. \A t \in Nat : t <= LastTime =>
            (Spans(i, t) <=> u <= Until(t, r) /\ \A v \in indexed[p] : u < v => Until(t, r) < v)
    BY <1>1, <1>4, <1>5, <2>1, <2>2 DEF Spans
  <2>5. QED
    BY <1>0, <1>4, <2>1, <2>2, <2>3, <2>4
<1>7. CASE Later(p, u) # {}
  <2> DEFINE n == Next1(p, u)
  <2>1. n \in indexed[p] /\ n \in Nat /\ n <= LastTime /\ u < n /\ \A v \in indexed[p] : u < v => n <= v
    BY <1>1, <1>2, <1>7, NextIs
  <2>2. i.end = Align(n, r) - 1
    BY <1>0, <1>7 DEF RawInterval
  <2> HIDE DEF n
  <2>3. Align(n, r) \in Nat /\ Align(n, r) <= n
    BY <2>1, AlignIs
  <2>4. i \in IntervalRecords
    BY <1>0, <1>2, <1>3, <1>7, <2>3 DEF RawInterval, IntervalRecords, n
  <2>5. i.end + 1 \in Marks(indexed[p], r)
    BY <2>1, <2>2, <2>3 DEF Marks
  <2>6. ASSUME NEW v \in indexed[p], u < v PROVE i.end < Align(v, r)
    <3>1. v \in Nat /\ n <= v
      BY <1>1, <2>1, <2>6
    <3>2. Align(n, r) <= Align(v, r) /\ Align(v, r) \in Nat
      BY <2>1, <3>1, AlignOrder, AlignIs
    <3>3. QED
      BY <2>2, <2>3, <3>2
  <2>7. ASSUME NEW t \in Nat
        PROVE  Spans(i, t) <=> u <= Until(t, r) /\ \A v \in indexed[p] : u < v => Until(t, r) < v
    <3>1. t < Align(n, r) <=> Until(t, r) < n
      BY <2>1, AlignOrder
    <3>2. Until(t, r) \in Int
      BY AlignIs DEF Until
    <3>3. Until(t, r) < n <=> \A v \in indexed[p] : u < v => Until(t, r) < v
      <4>1. ASSUME Until(t, r) < n, NEW v \in indexed[p], u < v PROVE Until(t, r) < v
        <5>1. v \in Nat /\ n <= v
          BY <1>1, <2>1, <4>1
        <5>2. QED
          BY <2>1, <3>2, <4>1, <5>1
      <4>2. QED
        BY <2>1, <4>1
    <3>4. t <= i.end <=> t < Align(n, r)
      BY <2>2, <2>3
    <3>5. QED
      BY <1>4, <1>5, <3>1, <3>3, <3>4 DEF Spans
  <2>8. i.end < LastTime
    BY <1>1, <2>1, <2>2, <2>3
  <2>9. QED
    BY <1>0, <1>4, <2>4, <2>5, <2>6, <2>7, <2>8
<1>8. QED
  BY <1>6, <1>7

\* No instant is in two intervals.
Disjoint(h) == \A i, j \in h, t \in Nat : Spans(i, t) /\ Spans(j, t) => i = j

\* The versions of an entry one after the other: their intervals meet nowhere, and
\* the one that holds an instant is that of the newest version until then.
LEMMA RawHolds ==
    ASSUME NEW p, indexed[p] \in SUBSET Times, NEW r \in Nat \ {0}, r <= Second
    PROVE  LET h == doGetRawHistory(p, r)
           IN /\ h \in SUBSET IntervalRecords /\ Disjoint(h)
              /\ \A i \in h : /\ i.at \in indexed[p] /\ i.start \in Marks(indexed[p], r)
                              /\ i.end = Forever \/ (i.end + 1 \in Marks(indexed[p], r) /\ i.end < LastTime)
              /\ \A t \in Times : LET seen == Newest({u \in indexed[p] : u <= Until(t, r)})
                                  IN /\ seen # 0 <=> \E i \in h : Spans(i, t)
                                     /\ \A i \in h : Spans(i, t) => i.at = seen
<1>0. PICK h : h = {RawInterval(p, u, r) : u \in indexed[p]}
  OBVIOUS
<1>1. doGetRawHistory(p, r) = h
  BY <1>0 DEF doGetRawHistory, RawInterval
<1>2. /\ LastTime \in Nat /\ Times \subseteq Nat /\ \A v \in Times : v <= LastTime /\ v # 0
  BY TimesNatural DEF Times
<1>3. ASSUME NEW i \in h
      PROVE  /\ i \in IntervalRecords /\ i.at \in indexed[p] /\ i = RawInterval(p, i.at, r)
             /\ i.start = Align(i.at, r)
             /\ i.end = Forever \/ (i.end + 1 \in Marks(indexed[p], r) /\ i.end < LastTime)
             /\ \A t \in Nat : t <= LastTime =>
                    (Spans(i, t) <=> i.at <= Until(t, r) /\ \A v \in indexed[p] : i.at < v => Until(t, r) < v)
             /\ \A v \in indexed[p] : i.at < v => i.end < Align(v, r)
  <2>1. PICK u \in indexed[p] : i = RawInterval(p, u, r)
    BY <1>0
  <2>2. QED
    BY <2>1, RawIs
<1>4. \A i \in h : i.start \in Marks(indexed[p], r)
  BY <1>3 DEF Marks
<1>5. Disjoint(h)
  <2>1. ASSUME NEW i \in h, NEW j \in h, NEW t \in Nat, Spans(i, t), Spans(j, t), i.at < j.at
        PROVE  FALSE
    <3>1. i.end < j.start /\ i.end \in Int /\ j.start \in Nat
      BY <1>3, <2>1 DEF IntervalRecords
    <3>2. QED
      BY <2>1, <3>1 DEF Spans
  <2>2. ASSUME NEW i \in h, NEW j \in h, NEW t \in Nat, Spans(i, t), Spans(j, t)
        PROVE  i = j
    <3>1. i.at \in Nat /\ j.at \in Nat
      BY <1>2, <1>3
    <3>2. i.at = j.at
      BY <2>1, <2>2, <3>1
    <3>3. QED
      BY <1>3, <3>2
  <2>3. QED
    BY <2>2 DEF Disjoint
<1>6. ASSUME NEW t \in Times
      PROVE  LET seen == Newest({u \in indexed[p] : u <= Until(t, r)})
             IN /\ seen # 0 <=> \E i \in h : Spans(i, t)
                /\ \A i \in h : Spans(i, t) => i.at = seen
  <2>1. PICK S : S = {u \in indexed[p] : u <= Until(t, r)}
    OBVIOUS
  <2>2. S \in SUBSET Times /\ t \in Nat /\ t <= LastTime
    BY <1>2, <2>1
  <2>3. Until(t, r) \in Int
    BY <2>2, AlignIs DEF Until
  <2>4. ASSUME NEW i \in h, Spans(i, t) PROVE i.at = Newest(S) /\ Newest(S) # 0
    <3>1. i.at \in S
      BY <1>3, <2>1, <2>2, <2>4
    <3>2. Newest(S) \in S /\ i.at <= Newest(S)
      BY <2>2, <3>1, NewestIs
    <3>3. ~(i.at < Newest(S))
      <4>1. Newest(S) <= Until(t, r) /\ Newest(S) \in indexed[p] /\ Newest(S) \in Nat
        BY <1>2, <2>1, <2>2, <3>2
      <4>2. i.at < Newest(S) => Until(t, r) < Newest(S)
        BY <1>3, <2>2, <2>4, <4>1
      <4>3. QED
        BY <2>3, <4>1, <4>2
    <3>4. i.at \in Nat /\ Newest(S) \in Nat /\ Newest(S) # 0
      BY <1>2, <2>2, <3>1, <3>2
    <3>5. QED
      BY <3>2, <3>3, <3>4
  <2>5. ASSUME Newest(S) # 0 PROVE \E i \in h : Spans(i, t)
    <3>1. S # {}
      BY <2>5 DEF Newest
    <3>2. Newest(S) \in S /\ \A u \in S : u <= Newest(S)
      BY <2>2, <3>1, NewestIs
    <3>3. Newest(S) \in indexed[p] /\ Newest(S) <= Until(t, r) /\ Newest(S) \in Nat
      BY <1>2, <2>1, <2>2, <3>2
    <3>4. ASSUME NEW v \in indexed[p], Newest(S) < v PROVE Until(t, r) < v
      <4>1. v \in Nat
        BY <1>2
      <4>2. v \notin S
        BY <3>2, <3>3, <3>4, <4>1
      <4>3. QED
        BY <2>1, <2>3, <4>1, <4>2
    <3>5. RawInterval(p, Newest(S), r) \in h /\ RawInterval(p, Newest(S), r).at = Newest(S)
      BY <1>0, <3>3 DEF RawInterval
    <3>6. Spans(RawInterval(p, Newest(S), r), t)
      BY <2>2, <3>3, <3>4, RawIs
    <3>7. QED
      BY <3>5, <3>6
  <2>6. QED
    BY <2>1, <2>4, <2>5
<1>7. h \in SUBSET IntervalRecords
  BY <1>3
<1>8. QED
  BY <1>1, <1>3, <1>4, <1>5, <1>6, <1>7

-----------------------------------------------------------------------------
(* Pieces that follow each other become one                                *)

\* Intervals that hold instants, none in two of them, as Pieces leaves them.
Neat(pieces) ==
    /\ pieces \in SUBSET IntervalRecords /\ Disjoint(pieces)
    /\ \A i \in pieces : i.start <= i.end /\ i.start <= LastTime

\* Two of them are the same when one begins within the other.
LEMMA NeatApart ==
    ASSUME NEW pieces, Neat(pieces), NEW i \in pieces, NEW j \in pieces
    PROVE  /\ i.start \in Nat /\ i.end \in Int /\ i.start <= i.end
           /\ i.start <= j.start /\ j.start <= i.end => i = j
<1>1. i.start \in Nat /\ i.end \in Int /\ i.start <= i.end /\ j.start \in Nat /\ j.end \in Int /\ j.start <= j.end
  BY DEF Neat, IntervalRecords
<1>2. ASSUME i.start <= j.start, j.start <= i.end PROVE i = j
  <2>1. Spans(i, j.start) /\ Spans(j, j.start)
    BY <1>1, <1>2 DEF Spans
  <2>2. QED
    BY <1>1, <2>1 DEF Neat, Disjoint
<1>3. QED
  BY <1>1, <1>2

\* Two pieces follow each other, one of them has one that follows, and a chain of
\* them is whole.
Joins(p, i, j) == i.end + 1 = j.start /\ version[p][i.at] = version[p][j.at]
Joined(p, pieces, i) == \E j \in pieces : Joins(p, i, j)
Whole(p, pieces, first, last) ==
    /\ first \in pieces /\ last \in pieces
    /\ first.start <= last.start
    /\ ~ \E i \in pieces : Joins(p, i, first)
    /\ ~ Joined(p, pieces, last)
    /\ \A i \in pieces : first.start <= i.start /\ i.start < last.start => Joined(p, pieces, i)

LEMMA MergedIs ==
    ASSUME NEW p, NEW pieces
    PROVE  /\ \A w \in Merged(p, pieces) : \E first, last \in pieces :
                /\ Whole(p, pieces, first, last)
                /\ w = [start |-> first.start, end |-> last.end, at |-> last.at]
           /\ \A first, last \in pieces : Whole(p, pieces, first, last) =>
                [start |-> first.start, end |-> last.end, at |-> last.at] \in Merged(p, pieces)
<1> DEFINE Chains == {v \in pieces \X pieces : Whole(p, pieces, v[1], v[2])}
           Piece(v) == [start |-> v[1].start, end |-> v[2].end, at |-> v[2].at]
<1>1. Merged(p, pieces) = {Piece(v) : v \in Chains}
  BY DEF Merged, Whole, Joined, Joins
<1>2. \A first, last \in pieces : Whole(p, pieces, first, last) => <<first, last>> \in Chains
  OBVIOUS
<1>3. \A v \in Chains : v[1] \in pieces /\ v[2] \in pieces /\ Whole(p, pieces, v[1], v[2])
  OBVIOUS
<1>4. \A first, last : Piece(<<first, last>>) = [start |-> first.start, end |-> last.end, at |-> last.at]
  OBVIOUS
<1> HIDE DEF Chains
<1>5. ASSUME NEW first \in pieces, NEW last \in pieces, Whole(p, pieces, first, last)
      PROVE  [start |-> first.start, end |-> last.end, at |-> last.at] \in Merged(p, pieces)
  <2>1. Piece(<<first, last>>) \in Merged(p, pieces)
    <3> HIDE DEF Piece
    <3> QED
      BY <1>1, <1>2, <1>5
  <2>2. QED
    BY <2>1
<1>6. ASSUME NEW w \in Merged(p, pieces)
      PROVE  \E first, last \in pieces :
                /\ Whole(p, pieces, first, last)
                /\ w = [start |-> first.start, end |-> last.end, at |-> last.at]
  <2>1. PICK v \in Chains : w = Piece(v)
    BY <1>1
  <2>2. QED
    BY <1>3, <2>1
<1>7. QED
  BY <1>5, <1>6

\* Walking along a chain, each instant is in a piece that holds the same metadata as
\* the first.
Covers(p, pieces, first, last) ==
    \A t \in Nat : first.start <= t /\ t <= last.end =>
        \E i \in pieces : /\ Spans(i, t) /\ first.start <= i.start /\ i.start <= last.start
                          /\ version[p][i.at] = version[p][first.at]

LEMMA ChainCovers ==
    ASSUME NEW p, NEW pieces, Neat(pieces), NEW first, NEW last, Whole(p, pieces, first, last)
    PROVE  Covers(p, pieces, first, last)
<1> DEFINE Good(t) == \E i \in pieces :
                          /\ Spans(i, t) /\ first.start <= i.start /\ i.start <= last.start
                          /\ version[p][i.at] = version[p][first.at]
           Bad == {t \in Nat : first.start <= t /\ t <= last.end /\ ~Good(t)}
<1>0. first \in pieces /\ last \in pieces /\ first.start <= last.start
  BY DEF Whole
<1>1. \A i \in pieces : i.start \in Nat /\ i.end \in Int /\ i.start <= i.end
  BY NeatApart
<1>2. Bad = {}
  <2> SUFFICES ASSUME Bad # {} PROVE FALSE
    OBVIOUS
  <2>1. PICK t \in Bad : \A u \in Bad : t <= u
    <3>1. Bad \in SUBSET Nat
      OBVIOUS
    <3> HIDE DEF Bad
    <3>2. QED
      BY <3>1, LeastNat
  <2>2. t \in Nat /\ first.start <= t /\ t <= last.end /\ ~Good(t)
    BY <2>1
  <2>3. first.start < t
    <3>1. Good(first.start)
      BY <1>0, <1>1 DEF Spans
    <3>2. t # first.start
      BY <2>2, <3>1
    <3>3. QED
      BY <1>0, <1>1, <2>2, <3>2
  <2>4. t - 1 \in Nat /\ Good(t - 1)
    <3>1. t - 1 \in Nat /\ first.start <= t - 1 /\ t - 1 <= last.end /\ t - 1 < t
      BY <1>0, <1>1, <2>2, <2>3
    <3>2. t - 1 \notin Bad
      <4> HIDE DEF Bad
      <4>1. t - 1 \in Bad => t <= t - 1
        BY <2>1
      <4>2. QED
        BY <2>2, <3>1, <4>1
    <3>3. QED
      BY <3>1, <3>2
  <2>5. PICK i \in pieces : /\ Spans(i, t - 1) /\ first.start <= i.start /\ i.start <= last.start
                            /\ version[p][i.at] = version[p][first.at]
    BY <2>4
  <2> HIDE DEF Bad
  <2>6. ~Spans(i, t)
    BY <2>2, <2>5
  <2>7. i.end + 1 = t
    BY <1>1, <2>2, <2>5, <2>6 DEF Spans
  <2>8. CASE i.start < last.start
    <3>1. PICK j \in pieces : Joins(p, i, j)
      BY <2>5, <2>8 DEF Whole, Joined
    <3>2. j.start = t /\ version[p][j.at] = version[p][first.at]
      BY <2>5, <2>7, <3>1 DEF Joins
    <3>3. t <= last.start
      <4>1. ~(last.start <= i.end)
        BY <1>0, <2>8, NeatApart, <1>1
      <4>2. QED
        BY <1>0, <1>1, <2>7, <4>1
    <3>4. Spans(j, t)
      BY <1>1, <3>2 DEF Spans
    <3>5. Good(t)
      BY <2>2, <3>2, <3>3, <3>4
    <3>6. QED
      BY <2>2, <3>5
  <2>9. CASE ~(i.start < last.start)
    <3>1. i.start = last.start
      BY <1>0, <1>1, <2>5, <2>9
    <3>2. i = last
      BY <1>0, <1>1, <3>1, NeatApart
    <3>3. QED
      BY <1>0, <1>1, <2>2, <2>7, <3>2
  <2>10. QED
    BY <2>8, <2>9
<1>3. QED
  BY <1>2 DEF Covers

\* Any piece is in a chain.
LEMMA ChainExists ==
    ASSUME NEW p, NEW pieces, Neat(pieces), NEW i \in pieces
    PROVE  \E first, last \in pieces :
              Whole(p, pieces, first, last) /\ first.start <= i.start /\ i.end <= last.end
<1>1. \A j \in pieces : j.start \in Nat /\ j.end \in Int /\ j.start <= j.end
  BY NeatApart
<1> DEFINE Leads(a) == /\ a.start <= i.start
                       /\ \A k \in pieces : a.start <= k.start /\ k.start < i.start => Joined(p, pieces, k)
           Stops(b) == i.start <= b.start /\ ~Joined(p, pieces, b)
           Firsts == {a.start : a \in {x \in pieces : Leads(x)}}
           Lasts == {b.start : b \in {x \in pieces : Stops(x)}}
<1>2. PICK first \in pieces : Leads(first) /\ \A a \in pieces : Leads(a) => first.start <= a.start
  <2>1. Leads(i)
    BY <1>1
  <2>2. Firsts \in SUBSET Nat /\ Firsts # {}
    BY <1>1, <2>1
  <2>3. PICK s \in Firsts : \A u \in Firsts : s <= u
    <3> HIDE DEF Firsts
    <3> QED
      BY <2>2, LeastNat
  <2>4. QED
    BY <2>3
<1>3. ~ \E h \in pieces : Joins(p, h, first)
  <2> SUFFICES ASSUME NEW h \in pieces, Joins(p, h, first) PROVE FALSE
    OBVIOUS
  <2>1. h.end + 1 = first.start /\ h.start < first.start
    BY <1>1 DEF Joins
  <2>2. Joined(p, pieces, h)
    BY <1>2 DEF Joined
  <2>3. ASSUME NEW k \in pieces, h.start <= k.start, k.start < i.start PROVE Joined(p, pieces, k)
    <3>1. CASE first.start <= k.start
      BY <1>2, <2>3, <3>1
    <3>2. CASE ~(first.start <= k.start)
      <4>1. k.start <= h.end
        BY <1>1, <1>2, <2>1, <3>2
      <4>2. h = k
        BY <2>3, <4>1, NeatApart
      <4>3. QED
        BY <2>2, <4>2
    <3>3. QED
      BY <3>1, <3>2
  <2>4. Leads(h)
    <3>1. h.start <= i.start
      BY <1>1, <1>2, <2>1
    <3>2. QED
      BY <2>3, <3>1
  <2>5. QED
    BY <1>1, <1>2, <2>1, <2>4
<1>4. \E b \in pieces : Stops(b)
  <2> DEFINE Rest == {LastTime - x.start : x \in {y \in pieces : i.start <= y.start}}
  <2>1. Rest \in SUBSET Nat /\ Rest # {}
    <3>1. \A x \in pieces : x.start <= LastTime
      BY DEF Neat
    <3>2. QED
      BY <1>1, <3>1, TimesNatural
  <2>2. PICK m \in Rest : \A u \in Rest : m <= u
    <3> HIDE DEF Rest
    <3> QED
      BY <2>1, LeastNat
  <2>3. PICK b \in pieces : i.start <= b.start /\ m = LastTime - b.start
    BY <2>2
  <2>4. ~Joined(p, pieces, b)
    <3> SUFFICES ASSUME NEW c \in pieces, Joins(p, b, c) PROVE FALSE
      BY DEF Joined
    <3>1. b.start < c.start
      BY <1>1 DEF Joins
    <3>2. LastTime - c.start \in Rest
      BY <1>1, <2>3, <3>1
    <3>3. m <= LastTime - c.start
      <4> HIDE DEF Rest
      <4> QED
        BY <2>2, <3>2
    <3>4. QED
      BY <1>1, <2>3, <3>1, <3>3, TimesNatural
  <2>5. QED
    BY <2>3, <2>4
<1>5. PICK last \in pieces : Stops(last) /\ \A b \in pieces : Stops(b) => last.start <= b.start
  <2>1. Lasts \in SUBSET Nat /\ Lasts # {}
    BY <1>1, <1>4
  <2>2. PICK s \in Lasts : \A u \in Lasts : s <= u
    <3> HIDE DEF Lasts
    <3> QED
      BY <2>1, LeastNat
  <2>3. QED
    BY <2>2
<1>6. \A k \in pieces : i.start <= k.start /\ k.start < last.start => Joined(p, pieces, k)
  BY <1>1, <1>5
<1>7. Whole(p, pieces, first, last)
  <2>1. \A k \in pieces : first.start <= k.start /\ k.start < last.start => Joined(p, pieces, k)
    BY <1>1, <1>2, <1>6
  <2>2. first.start <= last.start
    BY <1>1, <1>2, <1>5
  <2>3. QED
    BY <1>2, <1>3, <1>5, <2>1, <2>2 DEF Whole
<1>8. i.end <= last.end
  <2>1. last.start <= i.end => i = last
    BY <1>5, NeatApart
  <2>2. QED
    BY <1>1, <2>1
<1>9. QED
  BY <1>2, <1>7, <1>8

\* What is merged covers the same instants with the same metadata, and no instant
\* twice.
LEMMA MergedHolds ==
    ASSUME NEW p, NEW pieces, Neat(pieces)
    PROVE  LET h == Merged(p, pieces)
           IN /\ h \in SUBSET IntervalRecords /\ Disjoint(h)
              /\ \A w \in h : \E first, last \in pieces :
                    w.start = first.start /\ w.end = last.end /\ w.at = last.at
              /\ \A w \in h, t \in Nat : Spans(w, t) =>
                    \E i \in pieces : Spans(i, t) /\ version[p][i.at] = version[p][w.at]
              /\ \A i \in pieces, t \in Nat : Spans(i, t) => \E w \in h : Spans(w, t)
<1>0. PICK h : h = Merged(p, pieces)
  OBVIOUS
<1>1. \A j \in pieces : j \in IntervalRecords /\ j.start \in Nat /\ j.end \in Int /\ j.start <= j.end
  BY NeatApart DEF Neat
<1>2. ASSUME NEW w \in h
      PROVE  \E first, last \in pieces :
                /\ Whole(p, pieces, first, last)
                /\ w = [start |-> first.start, end |-> last.end, at |-> last.at]
  BY <1>0, MergedIs
<1>3. \A w \in h : \E first, last \in pieces :
          w.start = first.start /\ w.end = last.end /\ w.at = last.at
  BY <1>2
<1>4. h \in SUBSET IntervalRecords
  <2>1. ASSUME NEW w \in h PROVE w \in IntervalRecords
    <3>1. PICK first \in pieces, last \in pieces :
              w = [start |-> first.start, end |-> last.end, at |-> last.at]
      BY <1>2
    <3>2. first.start \in Nat /\ last.end \in Int /\ last.at \in Times
      BY <1>1 DEF IntervalRecords
    <3>3. QED
      BY <3>1, <3>2 DEF IntervalRecords
  <2>2. QED
    BY <2>1
<1>5. ASSUME NEW w \in h, NEW t \in Nat, Spans(w, t)
      PROVE  \E i \in pieces : Spans(i, t) /\ version[p][i.at] = version[p][w.at]
  <2>1. PICK first \in pieces, last \in pieces :
            /\ Whole(p, pieces, first, last)
            /\ w.start = first.start /\ w.end = last.end /\ w.at = last.at
    BY <1>2
  <2>2. first.start <= t /\ t <= last.end
    BY <1>5, <2>1 DEF Spans
  <2> Covers(p, pieces, first, last)
    BY <2>1, ChainCovers
  <2>3. PICK i \in pieces : Spans(i, t) /\ version[p][i.at] = version[p][first.at]
    BY <2>2 DEF Covers
  <2>4. version[p][last.at] = version[p][first.at]
    <3>1. first.start <= last.start /\ last.start \in Nat /\ last.start <= last.end
      BY <1>1, <2>1 DEF Whole
    <3>2. PICK j \in pieces : Spans(j, last.start) /\ version[p][j.at] = version[p][first.at]
      BY <3>1 DEF Covers
    <3>3. j = last
      BY <3>2, NeatApart DEF Spans
    <3>4. QED
      BY <3>2, <3>3
  <2>5. QED
    BY <2>1, <2>3, <2>4
<1>6. ASSUME NEW i \in pieces, NEW t \in Nat, Spans(i, t) PROVE \E w \in h : Spans(w, t)
  <2>1. PICK first \in pieces, last \in pieces :
            Whole(p, pieces, first, last) /\ first.start <= i.start /\ i.end <= last.end
    BY ChainExists
  <2>2. [start |-> first.start, end |-> last.end, at |-> last.at] \in h
    BY <1>0, <2>1, MergedIs
  <2>3. Spans([start |-> first.start, end |-> last.end, at |-> last.at], t)
    BY <1>1, <1>6, <2>1 DEF Spans
  <2>4. QED
    BY <2>2, <2>3
<1>7. Disjoint(h)
  <2>1. ASSUME NEW f1 \in pieces, NEW l1 \in pieces, NEW f2 \in pieces, NEW l2 \in pieces,
               Whole(p, pieces, f1, l1), Whole(p, pieces, f2, l2),
               NEW t \in Nat, f2.start <= t, t <= l1.end, f1.start < f2.start
        PROVE  FALSE
    <3>1. f2.start - 1 \in Nat /\ f1.start <= f2.start - 1 /\ f2.start - 1 <= l1.end
      BY <1>1, <2>1
    <3>2. PICK i \in pieces : Spans(i, f2.start - 1) /\ f1.start <= i.start /\ i.start <= l1.start
      BY <2>1, <3>1, ChainCovers DEF Covers
    <3>3. i.end + 1 = f2.start
      <4>1. i.start <= f2.start - 1 /\ f2.start - 1 <= i.end
        BY <3>2 DEF Spans
      <4>2. ~(f2.start <= i.end)
        <5>1. f2.start <= i.end => i = f2
          BY <1>1, <4>1, NeatApart
        <5>2. QED
          BY <1>1, <4>1, <5>1
      <4>3. QED
        BY <1>1, <4>1, <4>2
    <3>4. CASE i.start < l1.start
      <4>1. PICK j \in pieces : Joins(p, i, j)
        BY <2>1, <3>2, <3>4 DEF Whole, Joined
      <4>2. j.start = f2.start
        BY <3>3, <4>1 DEF Joins
      <4>3. j = f2
        BY <1>1, <4>2, NeatApart
      <4>4. QED
        BY <2>1, <4>1, <4>3 DEF Whole
    <3>5. CASE ~(i.start < l1.start)
      <4>1. i = l1
        BY <1>1, <3>2, <3>5, NeatApart
      <4>2. QED
        BY <1>1, <2>1, <3>3, <4>1
    <3>6. QED
      BY <3>4, <3>5
  <2>2. ASSUME NEW f \in pieces, NEW l1 \in pieces, NEW l2 \in pieces,
               Whole(p, pieces, f, l1), Whole(p, pieces, f, l2), l1.start < l2.start
        PROVE  FALSE
    BY <2>2 DEF Whole
  <2>3. ASSUME NEW w1 \in h, NEW w2 \in h, NEW t \in Nat, Spans(w1, t), Spans(w2, t)
        PROVE  w1 = w2
    <3>1. PICK f1 \in pieces, l1 \in pieces :
              /\ Whole(p, pieces, f1, l1)
              /\ w1 = [start |-> f1.start, end |-> l1.end, at |-> l1.at]
      BY <1>2
    <3>2. PICK f2 \in pieces, l2 \in pieces :
              /\ Whole(p, pieces, f2, l2)
              /\ w2 = [start |-> f2.start, end |-> l2.end, at |-> l2.at]
      BY <1>2
    <3>3. /\ f1.start <= t /\ t <= l1.end /\ f2.start <= t /\ t <= l2.end
      BY <2>3, <3>1, <3>2 DEF Spans
    <3>4. f1.start = f2.start
      <4>1. ~(f1.start < f2.start) /\ ~(f2.start < f1.start)
        BY <2>1, <3>1, <3>2, <3>3
      <4>2. QED
        BY <1>1, <4>1
    <3>5. f1 = f2
      BY <1>1, <3>4, NeatApart
    <3>6. l1.start = l2.start
      <4>1. ~(l1.start < l2.start) /\ ~(l2.start < l1.start)
        BY <2>2, <3>1, <3>2, <3>5
      <4>2. QED
        BY <1>1, <4>1
    <3>7. l1 = l2
      BY <1>1, <3>6, NeatApart
    <3>8. QED
      BY <3>1, <3>2, <3>5, <3>7
  <2>4. QED
    BY <2>3 DEF Disjoint
<1>8. QED
  BY <1>0, <1>3, <1>4, <1>5, <1>6, <1>7

-----------------------------------------------------------------------------
(* From the root down                                                      *)

\* What is built from the root down: base at the root, and elsewhere a step from
\* what the namespace has.
Down(base, step, f, q) == IF q = Root THEN base ELSE step[<<q, f[Parent[q]]>>]

Stays(V, step) == \A q \in Paths, x \in V : step[<<q, x>>] \in V
IsBuilt(f, base, step) == \A q \in Paths : f[q] = Down(base, step, f, q)

LEMMA DownExists ==
    ASSUME NEW V, NEW base \in V, NEW step, Stays(V, step)
    PROVE  \E f \in [Paths -> V] : IsBuilt(f, base, step)
<1>1. PICK depth \in [Paths -> 0 .. Cardinality(Paths)] :
          \A p \in Paths \ {Root} : depth[Parent[p]] < depth[p]
  BY TreeRooted
<1>2. Cardinality(Paths) \in Nat
  BY PathsFinite, FS_CardinalityType
<1>3. \A p \in Paths : depth[p] \in Nat /\ depth[p] < Cardinality(Paths) + 1 /\ Parent[p] \in Paths
  BY <1>2, RootIsNamespace, ParentIsNamespace
<1> DEFINE Good(n, f) == \A q \in Paths : depth[q] < n => f[q] = Down(base, step, f, q)
           Bad == {n \in Nat : ~ \E f \in [Paths -> V] : Good(n, f)}
<1>4. Bad = {}
  <2> SUFFICES ASSUME Bad # {} PROVE FALSE
    OBVIOUS
  <2>1. PICK n \in Bad : \A m \in Bad : n <= m
    <3>1. Bad \in SUBSET Nat
      OBVIOUS
    <3> HIDE DEF Bad
    <3>2. QED
      BY <3>1, LeastNat
  <2>2. n # 0
    <3>1. Good(0, [q \in Paths |-> base])
      BY <1>3
    <3>2. [q \in Paths |-> base] \in [Paths -> V]
      OBVIOUS
    <3>3. QED
      BY <3>1, <3>2, <2>1
  <2>3. n - 1 \in Nat /\ n - 1 \notin Bad
    BY <2>1, <2>2
  <2>4. PICK f \in [Paths -> V] : Good(n - 1, f)
    BY <2>3
  <2> DEFINE g == [q \in Paths |-> Down(base, step, f, q)]
  <2>5. ASSUME NEW q \in Paths, depth[q] < n PROVE g[q] = Down(base, step, g, q)
    <3>1. CASE q = Root
      BY <3>1 DEF Down
    <3>2. CASE q # Root
      <4>1. depth[Parent[q]] < n - 1
        BY <1>1, <1>3, <2>1, <2>5, <3>2
      <4>2. g[Parent[q]] = f[Parent[q]]
        BY <1>3, <2>4, <4>1
      <4>3. QED
        BY <1>3, <4>2 DEF Down
    <3>3. QED
      BY <3>1, <3>2
  <2>6. Good(n, g)
    BY <2>5
  <2>7. g \in [Paths -> V]
    <3>1. ASSUME NEW q \in Paths PROVE g[q] \in V
      <4>1. f[Parent[q]] \in V
        BY <1>3, <2>4
      <4>2. QED
        BY <4>1 DEF Down, Stays
    <3>2. QED
      BY <3>1
  <2>8. QED
    BY <2>1, <2>6, <2>7
<1>5. PICK f \in [Paths -> V] : Good(Cardinality(Paths) + 1, f)
  <2>1. Cardinality(Paths) + 1 \in Nat /\ Cardinality(Paths) + 1 \notin Bad
    <3> HIDE DEF Bad
    <3> QED
      BY <1>2, <1>4
  <2>2. QED
    <3> HIDE DEF Good
    <3> QED
      BY <2>1
<1>6. QED
  BY <1>3, <1>5 DEF IsBuilt

\* A step up: what is below the namespace of an entry has the entry above it too.
LEMMA BelowIs ==
    ASSUME NEW q \in Paths, NEW p \in Paths
    PROVE  /\ Below(p, p)
           /\ q # Root /\ Below(Parent[q], p) => Below(q, p)
<1> DEFINE Bits == {0, 1}
           base == IF Root = p THEN 1 ELSE 0
           step == [x \in Paths \X {0, 1} |-> IF x[1] = p THEN 1 ELSE x[2]]
           B == CHOOSE f : f = [r \in Paths |-> r = p \/ (r # Root /\ f[Parent[r]])]
<1>1. base \in Bits /\ Stays(Bits, step)
  <2>1. base \in Bits
    OBVIOUS
  <2>2. ASSUME NEW r \in Paths, NEW b \in Bits PROVE step[<<r, b>>] \in Bits
    <3>1. <<r, b>> \in Paths \X {0, 1}
      OBVIOUS
    <3>2. step[<<r, b>>] = IF <<r, b>>[1] = p THEN 1 ELSE <<r, b>>[2]
      <4> HIDE DEF Bits
      <4> QED
        BY <3>1, Zenon
    <3>3. QED
      BY <3>2
  <2>3. QED
    <3> HIDE DEF Bits, base, step
    <3> QED
      BY <2>1, <2>2 DEF Stays
<1> HIDE DEF base, step
<1>2. PICK f \in [Paths -> Bits] : IsBuilt(f, base, step)
  <2> HIDE DEF Bits
  <2> QED
    BY <1>1, DownExists
<1> DEFINE g == [r \in Paths |-> f[r] = 1]
<1>3. ASSUME NEW r \in Paths PROVE g[r] = (r = p \/ (r # Root /\ g[Parent[r]]))
  <2>1. CASE r = Root
    <3>1. f[r] = base
      BY <1>2, <2>1 DEF IsBuilt, Down
    <3>2. QED
      BY <2>1, <3>1 DEF base
  <2>2. CASE r # Root
    <3>1. Parent[r] \in Paths /\ <<r, f[Parent[r]]>> \in Paths \X {0, 1}
      BY <1>2, RootIsNamespace, ParentIsNamespace
    <3>2. f[r] = step[<<r, f[Parent[r]]>>]
      BY <1>2, <2>2 DEF IsBuilt, Down
    <3>3. step[<<r, f[Parent[r]]>>] = IF r = p THEN 1 ELSE f[Parent[r]]
      BY <3>1 DEF step
    <3>4. g[r] = (f[r] = 1) /\ g[Parent[r]] = (f[Parent[r]] = 1)
      BY <3>1
    <3>5. QED
      <4> HIDE DEF g
      <4> QED
        BY <2>2, <3>2, <3>3, <3>4
  <2>3. QED
    BY <2>1, <2>2
<1>4. g = [r \in Paths |-> r = p \/ (r # Root /\ g[Parent[r]])]
  <2>1. g = [r \in Paths |-> g[r]]
    OBVIOUS
  <2> HIDE DEF g
  <2>2. QED
    BY <1>3, <2>1
<1>5. B = [r \in Paths |-> r = p \/ (r # Root /\ B[Parent[r]])]
  <2> HIDE DEF g
  <2> QED
    BY <1>4
<1>6. \A r : Below(r, p) = B[r]
  BY DEF Below
<1> HIDE DEF B
<1>7. \A r \in Paths : B[r] = (r = p \/ (r # Root /\ B[Parent[r]]))
  BY <1>5
<1>8. QED
  BY <1>6, <1>7

-----------------------------------------------------------------------------
(* From a namespace to its entries                                         *)

\* The instants of two intervals.
LEMMA ClipIs ==
    ASSUME NEW i \in IntervalRecords, NEW o \in IntervalRecords
    PROVE  /\ Clip(i, o) \in IntervalRecords
           /\ Clip(i, o).at = i.at
           /\ Clip(i, o).start \in {i.start, o.start}
           /\ Clip(i, o).end \in {i.end, o.end}
           /\ \A t \in Nat : Spans(Clip(i, o), t) <=> Spans(i, t) /\ Spans(o, t)
<1>1. /\ i.start \in Nat /\ i.end \in Int /\ i.at \in Times
      /\ o.start \in Nat /\ o.end \in Int
  BY DEF IntervalRecords
<1>2. /\ Clip(i, o).start = IF i.start < o.start THEN o.start ELSE i.start
      /\ Clip(i, o).end = IF i.end > o.end THEN o.end ELSE i.end
      /\ Clip(i, o).at = i.at
  BY DEF Clip
<1>3. Clip(i, o) \in IntervalRecords
  BY <1>1 DEF Clip, IntervalRecords
<1>4. \A t \in Nat : Spans(Clip(i, o), t) <=> Spans(i, t) /\ Spans(o, t)
  BY <1>1, <1>2 DEF Spans
<1>5. QED
  BY <1>2, <1>3, <1>4

\* The intervals of the namespace during which it lists the entry.
Outers(p, outerHistory) == {o \in outerHistory : p \in version[Parent[p]][o.at]}

LEMMA PiecesAre ==
    ASSUME NEW p, NEW h, NEW r
    PROVE  /\ \A c \in Pieces(p, h, r) : \E i \in doGetRawHistory(p, r), o \in Outers(p, h) :
                c = Clip(i, o) /\ (c.end = Forever \/ c.end > c.start)
           /\ \A i \in doGetRawHistory(p, r), o \in Outers(p, h) :
                Clip(i, o).end = Forever \/ Clip(i, o).end > Clip(i, o).start =>
                    Clip(i, o) \in Pieces(p, h, r)
BY DEF Pieces, Outers

LEMMA MergedTyped ==
    ASSUME NEW p, indexed[p] \in SUBSET Times, NEW r \in Nat \ {0}, r <= Second,
           NEW h \in SUBSET IntervalRecords
    PROVE  Merged(p, Pieces(p, h, r)) \in SUBSET IntervalRecords
<1>1. \A c \in Pieces(p, h, r) : c.start \in Nat /\ c.end \in Int /\ c.at \in Times
  <2>1. ASSUME NEW c \in Pieces(p, h, r) PROVE c \in IntervalRecords
    <3>1. PICK i \in doGetRawHistory(p, r), o \in Outers(p, h) : c = Clip(i, o)
      BY PiecesAre
    <3>2. i \in IntervalRecords
      BY <3>1, RawHolds
    <3>3. o \in IntervalRecords
      BY <3>1 DEF Outers
    <3>4. QED
      BY <3>1, <3>2, <3>3, ClipIs
  <2>2. QED
    BY <2>1 DEF IntervalRecords
<1>2. ASSUME NEW w \in Merged(p, Pieces(p, h, r)) PROVE w \in IntervalRecords
  <2>1. PICK first \in Pieces(p, h, r), last \in Pieces(p, h, r) :
            w = [start |-> first.start, end |-> last.end, at |-> last.at]
    BY MergedIs
  <2>2. QED
    BY <1>1, <2>1 DEF IntervalRecords
<1>3. QED
  BY <1>2

\* The history of an entry is made from that of its namespace.
LEMMA HistoryIs ==
    ASSUME indexed \in [Paths -> SUBSET Times], NEW r \in Nat \ {0}, r <= Second, NEW p \in Paths
    PROVE  doGetHistory(p, r) =
             IF p = Root THEN doGetRawHistory(Root, r)
             ELSE Merged(p, Pieces(p, doGetHistory(Parent[p], r), r))
<1> DEFINE Step(f, q) == IF q = Root THEN doGetRawHistory(Root, r)
                         ELSE Merged(q, Pieces(q, f[Parent[q]], r))
           H == CHOOSE f : f = [q \in Paths |-> Step(f, q)]
<1>0. PICK V, base, step :
          /\ V = SUBSET IntervalRecords
          /\ base = doGetRawHistory(Root, r)
          /\ step = [x \in Paths \X V |-> Merged(x[1], Pieces(x[1], x[2], r))]
  OBVIOUS
<1>1. base \in V
  BY <1>0, RawHolds, RootIsNamespace
<1>2. Stays(V, step)
  <2>1. ASSUME NEW q \in Paths, NEW x \in V PROVE step[<<q, x>>] \in V
    <3>1. <<q, x>> \in Paths \X V /\ indexed[q] \in SUBSET Times /\ x \in SUBSET IntervalRecords
      BY <1>0
    <3>2. step[<<q, x>>] = Merged(q, Pieces(q, x, r))
      BY <1>0, <3>1
    <3>3. QED
      BY <1>0, <3>1, <3>2, MergedTyped
  <2>2. QED
    BY <2>1 DEF Stays
<1>3. PICK f \in [Paths -> V] : IsBuilt(f, base, step)
  BY <1>1, <1>2, DownExists
<1>4. ASSUME NEW q \in Paths PROVE f[q] = Step(f, q)
  <2>1. CASE q = Root
    BY <1>0, <1>3, <2>1 DEF IsBuilt, Down
  <2>2. CASE q # Root
    <3>1. <<q, f[Parent[q]]>> \in Paths \X V
      BY <1>3, RootIsNamespace, ParentIsNamespace
    <3>2. f[q] = step[<<q, f[Parent[q]]>>]
      BY <1>3, <2>2 DEF IsBuilt, Down
    <3>3. step[<<q, f[Parent[q]]>>] = Merged(q, Pieces(q, f[Parent[q]], r))
      BY <1>0, <3>1
    <3>4. QED
      BY <2>2, <3>2, <3>3
  <2>3. QED
    BY <2>1, <2>2
<1>5. f = [q \in Paths |-> Step(f, q)]
  <2> HIDE DEF Step
  <2> QED
    BY <1>3, <1>4
<1>6. H = [q \in Paths |-> Step(H, q)]
  <2> HIDE DEF Step
  <2> QED
    BY <1>5
<1>7. \A q : doGetHistory(q, r) = H[q]
  BY DEF doGetHistory
<1> HIDE DEF H
<1>8. H[p] = Step(H, p)
  <2> HIDE DEF Step
  <2> QED
    BY <1>6
<1>9. QED
  BY <1>7, <1>8

\* The versions of an entry and of the namespaces that it is in.
Changes(p) == UNION {indexed[q] : q \in {r \in Paths : Below(p, r)}}

LEMMA ChangesAre ==
    ASSUME indexed \in [Paths -> SUBSET Times], NEW p \in Paths
    PROVE  /\ Changes(p) \in SUBSET Times /\ indexed[p] \subseteq Changes(p)
           /\ p # Root => Changes(Parent[p]) \subseteq Changes(p)
<1>1. Changes(p) \in SUBSET Times
  BY DEF Changes
<1>2. indexed[p] \subseteq Changes(p)
  BY BelowIs DEF Changes
<1>3. ASSUME p # Root PROVE Changes(Parent[p]) \subseteq Changes(p)
  <2>1. \A r \in Paths : Below(Parent[p], r) => Below(p, r)
    BY <1>3, BelowIs
  <2>2. QED
    BY <2>1 DEF Changes
<1>4. QED
  BY <1>1, <1>2, <1>3

\* The intervals say of an instant what is seen at the end of it, and there is one if
\* anything is.
Says(p, h, r, t) ==
    LET seen == VisibleAt(p, Until(t, r))
    IN \A i \in h : Spans(i, t) => seen # 0 /\ version[p][i.at] = version[p][seen]
Covered(p, h, r, t) == VisibleAt(p, Until(t, r)) # 0 => \E i \in h : Spans(i, t)

\* An interval of an entry begins and ends with a version of the entry or of a
\* namespace that it is in.
Marked(p, i, r) ==
    /\ i.at \in indexed[p] /\ i.start \in Marks(Changes(p), r)
    /\ i.end = Forever \/ i.end + 1 \in Marks(Changes(p), r)

\* What HistoryExact needs of the history of the namespace.
Sound(p, h, r) ==
    /\ h \in SUBSET IntervalRecords /\ Disjoint(h)
    /\ \A i \in h : Marked(p, i, r)
    /\ \A t \in Times : Says(p, h, r, t) /\ ((r = 1 /\ Brief(p, t)) \/ Covered(p, h, r, t))

\* Marks one instant apart are of versions one instant apart.
LEMMA MarksNext ==
    ASSUME NEW times \in SUBSET Nat, NEW r \in Nat \ {0}, NEW t \in Nat,
           t \in Marks(times, r), t + 1 \in Marks(times, r)
    PROVE  r = 1 /\ t \in times /\ t + 1 \in times
<1>1. PICK u \in times, v \in times : Align(u, r) = t /\ Align(v, r) = t + 1
  BY DEF Marks
<1>2. r = 1
  BY <1>1, AlignOrder
<1>3. Align(u, r) = u /\ Align(v, r) = v
  BY <1>2, AlignOrder
<1>4. QED
  BY <1>1, <1>2, <1>3

\* A mark is no later than the last version.
LEMMA MarkIs ==
    ASSUME NEW times \in SUBSET Times, NEW r \in Nat \ {0}, NEW m \in Marks(times, r)
    PROVE  m \in Nat /\ m <= LastTime
<1>1. PICK u \in times : Align(u, r) = m
  BY DEF Marks
<1>2. u \in Nat /\ u <= LastTime
  BY TimesNatural DEF Times
<1>3. QED
  BY <1>1, <1>2, TimesNatural, AlignIs

\* A piece is within one interval of the entry and one of its namespace; it is dropped
\* only when it holds one instant, which is brief. Its version is the one that is seen.
LEMMA PiecesSound ==
    ASSUME indexed \in [Paths -> SUBSET Times], NEW r \in Nat \ {0}, r <= Second,
           NEW p \in Paths \ {Root}, NEW h, Sound(Parent[p], h, r)
    PROVE  /\ Neat(Pieces(p, h, r)) /\ Sound(p, Pieces(p, h, r), r)
           /\ \A c \in Pieces(p, h, r) : c.end = Forever \/ c.end > c.start
           /\ \A c \in Pieces(p, h, r), t \in Times :
                 Spans(c, t) => c.at = VisibleAt(p, Until(t, r))
<1> DEFINE raw == doGetRawHistory(p, r)
           outers == Outers(p, h)
<1>0. PICK pieces : pieces = Pieces(p, h, r)
  OBVIOUS
<1>1. /\ Times \subseteq Nat /\ LastTime \in Nat /\ Forever \in Nat /\ LastTime < Forever
      /\ Parent[p] \in Paths /\ indexed[p] \in SUBSET Times
  BY TimesNatural, RootIsNamespace, ParentIsNamespace DEF Times, Forever
<1>2. /\ raw \in SUBSET IntervalRecords /\ Disjoint(raw)
      /\ \A i \in raw : /\ i.at \in indexed[p] /\ i.start \in Marks(indexed[p], r)
                        /\ i.end = Forever \/ i.end + 1 \in Marks(indexed[p], r)
  BY <1>1, RawHolds
<1>3. /\ outers \in SUBSET IntervalRecords /\ Disjoint(outers)
      /\ \A o \in outers : o \in h /\ Marked(Parent[p], o, r) /\ p \in version[Parent[p]][o.at]
  BY DEF Sound, Disjoint, Outers
<1>4. Changes(p) \in SUBSET Times /\ indexed[p] \subseteq Changes(p) /\ Changes(Parent[p]) \subseteq Changes(p)
  BY ChangesAre
<1>5. ASSUME NEW c \in pieces
      PROVE  \E i \in raw, o \in outers : c = Clip(i, o) /\ (c.end = Forever \/ c.end > c.start)
  BY <1>0, PiecesAre
<1>6. ASSUME NEW i \in raw, NEW o \in outers
      PROVE  /\ Marked(p, Clip(i, o), r)
             /\ Clip(i, o).start \in Nat /\ Clip(i, o).start <= LastTime /\ Clip(i, o).end \in Int
  <2>1. /\ Clip(i, o) \in IntervalRecords /\ Clip(i, o).at = i.at
        /\ Clip(i, o).start \in {i.start, o.start} /\ Clip(i, o).end \in {i.end, o.end}
    BY <1>2, <1>3, ClipIs
  <2>2. \A m : m \in Marks(indexed[p], r) \/ m \in Marks(Changes(Parent[p]), r) => m \in Marks(Changes(p), r)
    BY <1>4 DEF Marks
  <2>3. /\ i.at \in indexed[p] /\ i.start \in Marks(Changes(p), r)
        /\ i.end = Forever \/ i.end + 1 \in Marks(Changes(p), r)
    BY <1>2, <2>2
  <2>4. /\ o.start \in Marks(Changes(p), r)
        /\ o.end = Forever \/ o.end + 1 \in Marks(Changes(p), r)
    BY <1>3, <2>2 DEF Marked
  <2>5. Marked(p, Clip(i, o), r)
    BY <2>1, <2>3, <2>4 DEF Marked
  <2>6. Clip(i, o).start \in Nat /\ Clip(i, o).start <= LastTime
    BY <1>4, <2>5, MarkIs DEF Marked
  <2>7. Clip(i, o).end \in Int
    BY <2>1 DEF IntervalRecords
  <2>8. QED
    BY <2>5, <2>6, <2>7
<1> HIDE DEF raw, outers
<1>7. pieces \in SUBSET IntervalRecords
  <2>1. ASSUME NEW c \in pieces PROVE c \in IntervalRecords
    <3>1. PICK i \in raw, o \in outers : c = Clip(i, o)
      BY <1>5
    <3>2. QED
      BY <1>2, <1>3, <3>1, ClipIs
  <2>2. QED
    BY <2>1
<1>8. Disjoint(pieces)
  <2>1. ASSUME NEW c \in pieces, NEW d \in pieces, NEW t \in Nat, Spans(c, t), Spans(d, t)
        PROVE  c = d
    <3>1. PICK i \in raw, o \in outers : c = Clip(i, o)
      BY <1>5
    <3>2. PICK j \in raw, q \in outers : d = Clip(j, q)
      BY <1>5
    <3>3. Spans(i, t) /\ Spans(o, t) /\ Spans(j, t) /\ Spans(q, t)
      BY <1>2, <1>3, <2>1, <3>1, <3>2, ClipIs
    <3>4. i = j /\ o = q
      BY <1>2, <1>3, <3>3 DEF Disjoint
    <3>5. QED
      BY <3>1, <3>2, <3>4
  <2>2. QED
    BY <2>1 DEF Disjoint
<1>9. ASSUME NEW c \in pieces
      PROVE  Marked(p, c, r) /\ c.start <= c.end /\ c.start <= LastTime
  <2>1. PICK i \in raw, o \in outers : c = Clip(i, o) /\ (c.end = Forever \/ c.end > c.start)
    BY <1>5
  <2>2. Marked(p, c, r) /\ c.start \in Nat /\ c.start <= LastTime /\ c.end \in Int
    BY <1>6, <2>1
  <2>3. QED
    BY <1>1, <2>1, <2>2
<1>10. ASSUME NEW t \in Times
       PROVE  /\ \A c \in pieces : Spans(c, t) =>
                    VisibleAt(p, Until(t, r)) # 0 /\ c.at = VisibleAt(p, Until(t, r))
              /\ (r = 1 /\ Brief(p, t)) \/ Covered(p, pieces, r, t)
  <2> DEFINE until == Until(t, r)
             outer == VisibleAt(Parent[p], until)
             seen == VisibleAt(p, until)
             own == Newest({u \in indexed[p] : u <= until})
  <2>1. Brief(Parent[p], t) => Brief(p, t)
    BY <1>4 DEF Brief, Changes
  <2>2. Says(Parent[p], h, r, t) /\ ((r = 1 /\ Brief(p, t)) \/ Covered(Parent[p], h, r, t))
    BY <2>1 DEF Sound
  <2>3. /\ \A o \in h : Spans(o, t) =>
              outer # 0 /\ version[Parent[p]][o.at] = version[Parent[p]][outer]
        /\ (r = 1 /\ Brief(p, t)) \/ (outer # 0 => \E o \in h : Spans(o, t))
    BY <2>2 DEF Says, Covered
  <2>4. seen = IF outer # 0 /\ p \in version[Parent[p]][outer] THEN own ELSE 0
    BY VisibleIs
  <2>5. /\ own # 0 <=> \E i \in raw : Spans(i, t)
        /\ \A i \in raw : Spans(i, t) => i.at = own
    BY <1>1, RawHolds DEF raw
  <2> HIDE DEF until, outer, seen, own
  <2>6. ASSUME NEW c \in pieces, Spans(c, t) PROVE seen # 0 /\ c.at = seen
    <3>1. PICK i \in raw, o \in outers : c = Clip(i, o)
      BY <1>5
    <3>2. Spans(i, t) /\ Spans(o, t) /\ c.at = i.at
      BY <1>1, <1>2, <1>3, <2>6, <3>1, ClipIs
    <3>3. outer # 0 /\ p \in version[Parent[p]][outer]
      BY <1>3, <2>3, <3>2
    <3>4. QED
      BY <2>4, <2>5, <3>2, <3>3
  <2>7. ASSUME ~(r = 1 /\ Brief(p, t)), seen # 0 PROVE \E c \in pieces : Spans(c, t)
    <3>1. outer # 0 /\ p \in version[Parent[p]][outer] /\ own # 0
      BY <2>4, <2>7
    <3>2. PICK o \in h : Spans(o, t)
      BY <2>3, <2>7, <3>1
    <3>3. o \in outers
      BY <2>3, <3>1, <3>2 DEF outers, Outers
    <3>4. PICK i \in raw : Spans(i, t)
      BY <2>5, <3>1
    <3>5. Spans(Clip(i, o), t)
      BY <1>1, <1>2, <1>3, <3>2, <3>3, <3>4, ClipIs
    <3>6. Clip(i, o).end = Forever \/ Clip(i, o).end > Clip(i, o).start
      <4> SUFFICES ASSUME Clip(i, o).end # Forever, ~(Clip(i, o).end > Clip(i, o).start) PROVE FALSE
        OBVIOUS
      <4>1. Clip(i, o).start = t /\ Clip(i, o).end = t
        BY <1>1, <1>6, <3>3, <3>5 DEF Spans
      <4>2. t \in Marks(Changes(p), r) /\ t + 1 \in Marks(Changes(p), r)
        BY <1>6, <3>3, <4>1 DEF Marked
      <4>3. r = 1 /\ t \in Changes(p) /\ t + 1 \in Changes(p)
        BY <1>1, <1>4, <4>2, MarksNext
      <4>4. QED
        BY <2>7, <4>3 DEF Brief, Changes
    <3>7. Clip(i, o) \in pieces
      BY <1>0, <3>3, <3>6, PiecesAre DEF raw, outers
    <3>8. QED
      BY <3>5, <3>7
  <2>8. QED
    BY <2>6, <2>7 DEF Covered, seen, until
<1>11. \A t \in Times : Says(p, pieces, r, t) /\ ((r = 1 /\ Brief(p, t)) \/ Covered(p, pieces, r, t))
  BY <1>10 DEF Says
<1>12. Neat(pieces) /\ Sound(p, pieces, r)
  BY <1>7, <1>8, <1>9, <1>11 DEF Neat, Sound
<1>13. \A c \in pieces : c.end = Forever \/ c.end > c.start
  BY <1>5
<1>14. QED
  BY <1>0, <1>10, <1>12, <1>13

\* Merging pieces changes nothing of what they say.
LEMMA MergedSound ==
    ASSUME NEW p, NEW r, NEW pieces, Neat(pieces), Sound(p, pieces, r)
    PROVE  Sound(p, Merged(p, pieces), r)
<1>0. PICK h : h = Merged(p, pieces)
  OBVIOUS
<1>1. /\ h \in SUBSET IntervalRecords /\ Disjoint(h)
      /\ \A w \in h : \E first, last \in pieces :
            w.start = first.start /\ w.end = last.end /\ w.at = last.at
      /\ \A w \in h, t \in Nat : Spans(w, t) =>
            \E i \in pieces : Spans(i, t) /\ version[p][i.at] = version[p][w.at]
      /\ \A i \in pieces, t \in Nat : Spans(i, t) => \E w \in h : Spans(w, t)
  BY <1>0, MergedHolds
<1>2. ASSUME NEW w \in h PROVE Marked(p, w, r)
  <2>1. PICK first \in pieces, last \in pieces :
            w.start = first.start /\ w.end = last.end /\ w.at = last.at
    BY <1>1
  <2>2. Marked(p, first, r) /\ Marked(p, last, r)
    BY DEF Sound
  <2>3. QED
    BY <2>1, <2>2 DEF Marked
<1>3. ASSUME NEW t \in Times
      PROVE  Says(p, h, r, t) /\ ((r = 1 /\ Brief(p, t)) \/ Covered(p, h, r, t))
  <2> DEFINE seen == VisibleAt(p, Until(t, r))
  <2>1. /\ \A i \in pieces : Spans(i, t) => seen # 0 /\ version[p][i.at] = version[p][seen]
        /\ (r = 1 /\ Brief(p, t)) \/ (seen # 0 => \E i \in pieces : Spans(i, t))
    BY DEF Sound, Says, Covered
  <2>2. t \in Nat
    BY TimesNatural DEF Times
  <2> HIDE DEF seen
  <2>3. (r = 1 /\ Brief(p, t)) \/ (seen # 0 => \E w \in h : Spans(w, t))
    BY <1>1, <2>1, <2>2
  <2>4. ASSUME NEW w \in h, Spans(w, t) PROVE seen # 0 /\ version[p][w.at] = version[p][seen]
    <3>1. PICK i \in pieces : Spans(i, t) /\ version[p][i.at] = version[p][w.at]
      BY <1>1, <2>2, <2>4
    <3>2. QED
      BY <2>1, <3>1
  <2>5. QED
    BY <2>3, <2>4 DEF Says, Covered, seen
<1>4. QED
  BY <1>0, <1>1, <1>2, <1>3 DEF Sound

\* The top namespace is always there: each of its versions has its interval.
LEMMA RootSound ==
    ASSUME indexed \in [Paths -> SUBSET Times], NEW r \in Nat \ {0}, r <= Second
    PROVE  Sound(Root, doGetRawHistory(Root, r), r)
<1>0. PICK h : h = doGetRawHistory(Root, r)
  OBVIOUS
<1>1. Root \in Paths /\ indexed[Root] \in SUBSET Times
  BY RootIsNamespace
<1>2. /\ h \in SUBSET IntervalRecords /\ Disjoint(h)
      /\ \A i \in h : /\ i.at \in indexed[Root] /\ i.start \in Marks(indexed[Root], r)
                      /\ i.end = Forever \/ i.end + 1 \in Marks(indexed[Root], r)
      /\ \A t \in Times : LET seen == Newest({u \in indexed[Root] : u <= Until(t, r)})
                          IN /\ seen # 0 <=> \E i \in h : Spans(i, t)
                             /\ \A i \in h : Spans(i, t) => i.at = seen
  BY <1>0, <1>1, RawHolds
<1>3. indexed[Root] \subseteq Changes(Root)
  BY <1>1, ChangesAre
<1>4. \A i \in h : Marked(Root, i, r)
  BY <1>2, <1>3 DEF Marked, Marks
<1>5. ASSUME NEW t \in Times PROVE Says(Root, h, r, t) /\ Covered(Root, h, r, t)
  <2> DEFINE seen == VisibleAt(Root, Until(t, r))
  <2>1. seen = Newest({u \in indexed[Root] : u <= Until(t, r)})
    BY <1>1, VisibleIs
  <2>2. /\ seen # 0 <=> \E i \in h : Spans(i, t)
        /\ \A i \in h : Spans(i, t) => i.at = seen
    BY <1>2, <2>1
  <2>3. QED
    BY <2>2 DEF Says, Covered
<1>6. QED
  BY <1>0, <1>2, <1>4, <1>5 DEF Sound

\* So the history of every entry is sound: that of its namespace is.
LEMMA HistorySound ==
    ASSUME indexed \in [Paths -> SUBSET Times], NEW r \in Nat \ {0}, r <= Second
    PROVE  \A p \in Paths : Sound(p, doGetHistory(p, r), r)
<1>1. PICK depth \in [Paths -> 0 .. Cardinality(Paths)] :
          \A p \in Paths \ {Root} : depth[Parent[p]] < depth[p]
  BY TreeRooted
<1>2. \A p \in Paths : depth[p] \in Nat /\ Parent[p] \in Paths
  BY PathsFinite, FS_CardinalityType, RootIsNamespace, ParentIsNamespace
<1> DEFINE Wrong == {q \in Paths : ~Sound(q, doGetHistory(q, r), r)}
           Depths == {depth[q] : q \in Wrong}
<1>3. Wrong = {}
  <2> SUFFICES ASSUME Wrong # {} PROVE FALSE
    OBVIOUS
  <2>1. Depths \in SUBSET Nat /\ Depths # {}
    BY <1>2
  <2>2. PICK n \in Depths : \A m \in Depths : n <= m
    <3> HIDE DEF Depths
    <3> QED
      BY <2>1, LeastNat
  <2>3. PICK p \in Wrong : n = depth[p]
    BY <2>2
  <2>4. p \in Paths /\ ~Sound(p, doGetHistory(p, r), r)
    BY <2>3
  <2>5. CASE p = Root
    BY <2>4, <2>5, RootSound, HistoryIs
  <2>6. CASE p # Root
    <3>1. Parent[p] \in Paths /\ depth[Parent[p]] < depth[p]
      BY <1>1, <1>2, <2>4, <2>6
    <3>2. Parent[p] \notin Wrong
      <4>1. Parent[p] \in Wrong => n <= depth[Parent[p]]
        BY <2>2
      <4>2. QED
        BY <1>2, <2>3, <2>4, <3>1, <4>1
    <3>3. PICK h : h = doGetHistory(Parent[p], r)
      OBVIOUS
    <3>4. Sound(Parent[p], h, r)
      BY <3>1, <3>2, <3>3
    <3>5. Neat(Pieces(p, h, r)) /\ Sound(p, Pieces(p, h, r), r)
      BY <2>4, <2>6, <3>4, PiecesSound
    <3>6. Sound(p, Merged(p, Pieces(p, h, r)), r)
      BY <3>5, MergedSound
    <3>7. QED
      BY <2>4, <2>6, <3>3, <3>6, HistoryIs
  <2>7. QED
    BY <2>5, <2>6
<1>4. QED
  BY <1>3

\* GetHistory says of every instant what is seen then, in any tree and however the
\* versions got there: nothing more is needed of a state than that versions have times.
LEMMA SoundExact ==
    ASSUME indexed \in [Paths -> SUBSET Times]
    PROVE  HistoryExact
<1>1. 1 \in Nat \ {0} /\ 1 <= Second /\ Second \in Nat \ {0} /\ Second <= Second
  BY TimesNatural
<1>2. ASSUME NEW r \in {1, Second}, NEW p \in Paths \ {Root}, NEW t \in Times
      PROVE  LET shown == ShownAt(doGetHistory(p, r), t)
                 seen == VisibleAt(p, Align(t, r) + r - 1)
             IN \/ (r = 1 /\ Brief(p, t))
                \/ (seen = 0 /\ shown = {})
                \/ /\ seen # 0 /\ shown # {}
                   /\ \A i \in shown : version[p][i.at] = version[p][seen]
  <2>1. PICK h : h = doGetHistory(p, r)
    OBVIOUS
  <2>2. Sound(p, h, r)
    BY <1>1, <2>1, HistorySound
  <2>3. Says(p, h, r, t) /\ ((r = 1 /\ Brief(p, t)) \/ Covered(p, h, r, t))
    BY <2>2 DEF Sound
  <2>4. \A i : i \in ShownAt(h, t) <=> i \in h /\ Spans(i, t)
    BY DEF ShownAt, Spans
  <2>5. QED
    BY <2>1, <2>3, <2>4 DEF Says, Covered, Until
<1>3. QED
  BY <1>2 DEF HistoryExact

\* StoreHistoryExact: whatever the goroutines do, GetHistory says of every instant, or of
\* every second, what somebody sees who opens the DSS as of then.
THEOREM StoreHistoryExact == Spec => []HistoryExact
<1>1. TypeOK => HistoryExact
  BY SoundExact DEF TypeOK
<1>2. QED
  BY <1>1, StoreTypeOK, PTL

-----------------------------------------------------------------------------
(* What RemoveHistory leaves alone                                         *)

\* The version that is visible after a step, like before.
LEMMA VisibleNext ==
    ASSUME NEW t, NEW p \in Paths
    PROVE  VisibleAt(p, t)' =
             IF p = Root \/ (/\ VisibleAt(Parent[p], t)' # 0
                             /\ p \in version'[Parent[p]][VisibleAt(Parent[p], t)'])
             THEN Newest({u \in indexed'[p] : u <= t})
             ELSE 0
<1>1. VisibleAt(p, t) =
             IF p = Root \/ (/\ VisibleAt(Parent[p], t) # 0
                             /\ p \in version[Parent[p]][VisibleAt(Parent[p], t)])
             THEN Newest({u \in indexed[p] : u <= t})
             ELSE 0
  BY VisibleIs
<1>2. (VisibleAt(p, t) =
             IF p = Root \/ (/\ VisibleAt(Parent[p], t) # 0
                             /\ p \in version[Parent[p]][VisibleAt(Parent[p], t)])
             THEN Newest({u \in indexed[p] : u <= t})
             ELSE 0)'
  BY <1>1, PTL
<1>3. QED
  BY <1>2

\* What is visible at t stays so when every entry that is listed keeps its newest version
\* then, and what is visible keeps its metadata.
LEMMA VisibleStays ==
    ASSUME NEW t,
           \A p \in Paths : \/ p # Root /\ ~ Lists(Parent[p], p, t)
                            \/ Newest({u \in indexed'[p] : u <= t}) = Newest({u \in indexed[p] : u <= t}),
           \A p \in Paths : VisibleAt(p, t) # 0 =>
                                version'[p][VisibleAt(p, t)] = version[p][VisibleAt(p, t)]
    PROVE  \A p \in Paths : VisibleAt(p, t)' = VisibleAt(p, t)
<1>1. PICK depth \in [Paths -> 0 .. Cardinality(Paths)] :
          \A p \in Paths \ {Root} : depth[Parent[p]] < depth[p]
  BY TreeRooted
<1>2. \A p \in Paths : depth[p] \in Nat /\ Parent[p] \in Paths
  BY PathsFinite, FS_CardinalityType, RootIsNamespace, ParentIsNamespace
<1> DEFINE Changed == {p \in Paths : VisibleAt(p, t)' # VisibleAt(p, t)}
           Depths == {depth[p] : p \in Changed}
<1>3. Changed = {}
  <2> SUFFICES ASSUME Changed # {} PROVE FALSE
    OBVIOUS
  <2>1. Depths \in SUBSET Nat /\ Depths # {}
    BY <1>2
  <2>2. PICK n \in Depths : \A m \in Depths : n <= m
    <3> HIDE DEF Depths
    <3> QED
      BY <2>1, LeastNat
  <2>3. PICK p \in Changed : n = depth[p]
    BY <2>2
  <2>4. p \in Paths /\ VisibleAt(p, t)' # VisibleAt(p, t)
    BY <2>3
  <2>5. p # Root => VisibleAt(Parent[p], t)' = VisibleAt(Parent[p], t)
    <3> SUFFICES ASSUME p # Root, Parent[p] \in Changed PROVE FALSE
      BY <1>2, <2>4
    <3>1. n <= depth[Parent[p]]
      BY <2>2
    <3>2. QED
      BY <1>1, <1>2, <2>3, <2>4, <3>1
  <2>6. p # Root /\ VisibleAt(Parent[p], t) # 0 =>
            version'[Parent[p]][VisibleAt(Parent[p], t)] = version[Parent[p]][VisibleAt(Parent[p], t)]
    BY <1>2, <2>4
  <2>7. CASE p = Root
    BY <2>4, <2>7, VisibleIs, VisibleNext
  <2>8. CASE p # Root
    <3>1. VisibleAt(p, t) = IF Lists(Parent[p], p, t) THEN Newest({u \in indexed[p] : u <= t}) ELSE 0
      BY <2>4, <2>8, VisibleIs DEF Lists
    <3>2. VisibleAt(p, t)' = IF Lists(Parent[p], p, t) THEN Newest({u \in indexed'[p] : u <= t}) ELSE 0
      BY <2>4, <2>5, <2>6, <2>8, VisibleNext DEF Lists
    <3>3. QED
      BY <2>4, <2>8, <3>1, <3>2
  <2>9. QED
    BY <2>7, <2>8
<1>4. QED
  BY <1>3

\* Without a version that is not the newest one, the newest one is the same.
LEMMA NewestOfFewer ==
    ASSUME NEW times \in SUBSET Times, NEW t, Newest(times) # t
    PROVE  Newest(times \ {t}) = Newest(times)
<1>1. CASE times = {}
  BY <1>1 DEF Newest
<1>2. CASE times # {}
  <2>1. Newest(times) \in times /\ \A u \in times : u <= Newest(times)
    BY <1>2, NewestIs
  <2>2. PICK fewer \in SUBSET Times : fewer = times \ {t}
    OBVIOUS
  <2>3. Newest(times) \in fewer
    BY <2>1, <2>2
  <2>4. Newest(fewer) \in fewer /\ \A u \in fewer : u <= Newest(fewer)
    BY <2>3, NewestIs
  <2>5. Newest(fewer) <= Newest(times) /\ Newest(times) <= Newest(fewer)
    BY <2>1, <2>2, <2>3, <2>4
  <2>6. Newest(fewer) \in Nat /\ Newest(times) \in Nat
    <3>1. Times \subseteq Nat
      BY DEF Times
    <3>2. QED
      BY <2>1, <2>4, <3>1
  <2>7. QED
    BY <2>2, <2>5, <2>6
<1>3. QED
  BY <1>1, <1>2

\* The index has this version no more; the others are as they were.
Without(q, v) ==
    /\ indexed' = [indexed EXCEPT ![q] = @ \ {v}]
    /\ \A p \in Paths, u \in Times : p # q \/ u # v => version'[p][u] = version[p][u]

LEMMA TakenWithout ==
    ASSUME TypeOK, NEW q \in Paths, NEW v \in Times, Dropping(q, v),
           indexed' = [indexed EXCEPT ![q] = @ \ {v}]
    PROVE  Without(q, v)
<1>1. \A p \in Paths, u \in Times : ~ (p = q /\ u = v) => version'[p][u] = version[p][u]
  <2>1. PICK value : version' = [version EXCEPT ![q] = [version[q] EXCEPT ![v] = value]]
    BY DEF Dropping, Taken
  <2>2. QED
    BY <2>1 DEF TypeOK
<1>2. QED
  BY <1>1 DEF Without

\* The removal of a version changes nothing where it is not seen.
LEMMA DroppedUnseen ==
    ASSUME TypeOK, NEW q \in Paths, NEW v \in Times, Without(q, v), NEW t, VisibleAt(q, t) # v
    PROVE  \A p \in Paths : VisibleAt(p, t)' = VisibleAt(p, t)
<1>0. \A p \in Paths, u \in Times : p # q \/ u # v => version'[p][u] = version[p][u]
  BY DEF Without
<1>1. ASSUME NEW p \in Paths
      PROVE  \/ p # Root /\ ~ Lists(Parent[p], p, t)
             \/ Newest({u \in indexed'[p] : u <= t}) = Newest({u \in indexed[p] : u <= t})
  <2>1. indexed'[p] = IF p = q THEN indexed[p] \ {v} ELSE indexed[p]
    BY DEF Without, TypeOK
  <2>2. CASE p # q
    BY <2>1, <2>2
  <2>3. CASE p = q /\ (p = Root \/ Lists(Parent[p], p, t))
    <3>1. VisibleAt(p, t) = Newest({u \in indexed[p] : u <= t})
      BY <2>3, VisibleIs DEF Lists
    <3>2. PICK times \in SUBSET Times : times = {u \in indexed[p] : u <= t}
      BY DEF TypeOK
    <3>3. {u \in indexed'[p] : u <= t} = times \ {v}
      BY <2>1, <2>3, <3>2
    <3>4. QED
      BY <2>3, <3>1, <3>2, <3>3, NewestOfFewer
  <2>4. QED
    BY <2>2, <2>3
<1>2. ASSUME NEW p \in Paths, VisibleAt(p, t) # 0
      PROVE  version'[p][VisibleAt(p, t)] = version[p][VisibleAt(p, t)]
  <2>1. VisibleAt(p, t) \in Times
    <3>1. PICK times \in SUBSET Times : times = {u \in indexed[p] : u <= t}
      BY DEF TypeOK
    <3>2. VisibleAt(p, t) = Newest(times)
      BY <1>2, <3>1, VisibleIs
    <3>3. times # {}
      BY <1>2, <3>2 DEF Newest
    <3>4. QED
      BY <3>2, <3>3, NewestType
  <2>2. ~ (p = q /\ VisibleAt(p, t) = v)
    OBVIOUS
  <2>3. QED
    BY <1>0, <2>1, <2>2
<1>3. QED
  BY <1>1, <1>2, VisibleStays

-----------------------------------------------------------------------------
(* The intervals of one version                                            *)

Gap(i, j) == i.end + 1 < j.start \/ j.end + 1 < i.start

\* The interval holds each instant at which its version is seen, or one of them at
\* least: the others are in other intervals.
Shown(p, j, r) ==
    \A t \in Times : VisibleAt(p, Until(t, r)) = j.at =>
        Spans(j, t) \/ \E u \in Times : Spans(j, u) /\ VisibleAt(p, Until(u, r)) = j.at

\* There is a gap between two intervals of one version, and each one shows it.
Told(p, h, r) ==
    /\ \A i, j \in h : i.at = j.at => i = j \/ Gap(i, j)
    /\ \A j \in h : Shown(p, j, r)

\* The intervals of the top namespace are each of a version of its own.
LEMMA RootTold ==
    ASSUME indexed \in [Paths -> SUBSET Times], NEW r \in Nat \ {0}, r <= Second
    PROVE  Told(Root, doGetRawHistory(Root, r), r)
<1>0. PICK h : h = doGetRawHistory(Root, r)
  OBVIOUS
<1>1. h = {RawInterval(Root, u, r) : u \in indexed[Root]}
  BY <1>0 DEF doGetRawHistory, RawInterval
<1>2. \A u : RawInterval(Root, u, r).at = u
  BY DEF RawInterval
<1>3. ASSUME NEW i \in h, NEW j \in h, i.at = j.at PROVE i = j
  BY <1>1, <1>2, <1>3
<1>4. ASSUME NEW j \in h, NEW t \in Times, VisibleAt(Root, Until(t, r)) = j.at PROVE Spans(j, t)
  <2>1. Root \in Paths /\ indexed[Root] \in SUBSET Times
    BY RootIsNamespace
  <2>2. VisibleAt(Root, Until(t, r)) = Newest({u \in indexed[Root] : u <= Until(t, r)})
    BY <2>1, VisibleIs
  <2>3. j.at # 0
    <3>1. j.at \in Times
      BY <1>1, <1>2, <1>4, <2>1
    <3>2. QED
      BY <3>1 DEF Times
  <2>4. PICK i \in h : Spans(i, t)
    BY <1>0, <1>4, <2>1, <2>2, <2>3, RawHolds
  <2>5. i.at = j.at
    BY <1>0, <1>4, <2>1, <2>2, <2>4, RawHolds
  <2>6. QED
    BY <1>3, <2>4, <2>5
<1>5. QED
  BY <1>0, <1>3, <1>4 DEF Told, Shown

\* Merged pieces that follow each other hold different metadata, so they are of different
\* versions; the last piece of each shows its version.
LEMMA MergedTold ==
    ASSUME indexed \in [Paths -> SUBSET Times], NEW r \in Nat \ {0}, r <= Second,
           NEW p \in Paths \ {Root}, NEW h, Sound(Parent[p], h, r)
    PROVE  Told(p, Merged(p, Pieces(p, h, r)), r)
<1>0. PICK pieces, merged : pieces = Pieces(p, h, r) /\ merged = Merged(p, pieces)
  OBVIOUS
<1>1. /\ Neat(pieces)
      /\ \A c \in pieces : c.end = Forever \/ c.end > c.start
      /\ \A c \in pieces, t \in Times : Spans(c, t) => c.at = VisibleAt(p, Until(t, r))
  BY <1>0, PiecesSound
<1>2. /\ merged \in SUBSET IntervalRecords /\ Disjoint(merged)
      /\ \A w \in merged, t \in Nat : Spans(w, t) =>
            \E i \in pieces : Spans(i, t) /\ version[p][i.at] = version[p][w.at]
  BY <1>0, <1>1, MergedHolds
<1>3. ASSUME NEW w \in merged
      PROVE  \E first, last \in pieces :
                /\ Whole(p, pieces, first, last)
                /\ w = [start |-> first.start, end |-> last.end, at |-> last.at]
  BY <1>0, MergedIs
<1>4. \A c \in pieces : /\ c.start \in Nat /\ c.end \in Int /\ c.start <= c.end
                        /\ c.start <= LastTime /\ c.at \in Times
  BY <1>1, NeatApart DEF Neat, IntervalRecords
<1>5. /\ LastTime \in Nat /\ Forever \in Nat /\ 0 < Forever
      /\ \A t : t \in Times <=> t \in Nat /\ 1 <= t /\ t <= LastTime
  BY TimesNatural DEF Times, Forever
<1>6. ASSUME NEW i \in merged, NEW j \in merged, i.at = j.at, i.end + 1 = j.start
      PROVE  FALSE
  <2>1. PICK first \in pieces, last \in pieces :
            Whole(p, pieces, first, last) /\ i.end = last.end /\ i.at = last.at
    BY <1>3
  <2>2. PICK next \in pieces, end \in pieces :
            /\ Whole(p, pieces, next, end)
            /\ j.start = next.start /\ j.end = end.end /\ j.at = end.at
    BY <1>3
  <2>3. Spans(j, next.start) /\ next.start \in Nat
    BY <1>4, <2>2 DEF Spans, Whole
  <2>4. PICK c \in pieces : Spans(c, next.start) /\ version[p][c.at] = version[p][j.at]
    BY <1>2, <2>3
  <2>5. c = next
    BY <1>1, <2>4, NeatApart DEF Spans
  <2>6. Joins(p, last, next)
    BY <1>6, <2>1, <2>2, <2>4, <2>5 DEF Joins
  <2>7. QED
    BY <2>1, <2>6 DEF Whole, Joined
<1>7. ASSUME NEW w \in merged PROVE /\ w.start \in Nat /\ w.end \in Int /\ w.start <= w.end
                                    /\ \E u \in Times : Spans(w, u) /\ VisibleAt(p, Until(u, r)) = w.at
  <2>1. PICK first \in pieces, last \in pieces :
            /\ Whole(p, pieces, first, last)
            /\ w.start = first.start /\ w.end = last.end /\ w.at = last.at
    BY <1>3
  <2>2. first.start <= last.start
    BY <2>1 DEF Whole
  <2>3. PICK u \in Times : Spans(last, u)
    <3>1. last.start \in Nat /\ last.end \in Int /\ last.start <= last.end /\ last.start <= LastTime
      BY <1>4
    <3>2. CASE last.start = 0
      <4>1. 1 \in Times
        BY <1>4, <1>5
      <4>2. 1 <= last.end
        BY <1>1, <1>5, <3>1, <3>2
      <4>3. QED
        BY <3>2, <4>1, <4>2 DEF Spans
    <3>3. CASE last.start # 0
      BY <1>5, <3>1, <3>3 DEF Spans
    <3>4. QED
      BY <3>2, <3>3
  <2>4. Spans(w, u)
    BY <1>4, <1>5, <2>1, <2>2, <2>3 DEF Spans
  <2>5. VisibleAt(p, Until(u, r)) = w.at
    BY <1>1, <2>1, <2>3
  <2>6. QED
    BY <1>4, <2>1, <2>2, <2>4, <2>5
<1>8. ASSUME NEW i \in merged, NEW j \in merged, i.at = j.at PROVE i = j \/ Gap(i, j)
  <2>1. /\ i.start \in Nat /\ i.end \in Int /\ i.start <= i.end
        /\ j.start \in Nat /\ j.end \in Int /\ j.start <= j.end
    BY <1>7
  <2>2. i.end + 1 # j.start /\ j.end + 1 # i.start
    BY <1>6, <1>8
  <2>3. CASE i.start <= j.start /\ j.start <= i.end
    <3>1. Spans(i, j.start) /\ Spans(j, j.start)
      BY <2>1, <2>3 DEF Spans
    <3>2. QED
      BY <1>2, <2>1, <3>1 DEF Disjoint
  <2>4. CASE j.start <= i.start /\ i.start <= j.end
    <3>1. Spans(i, i.start) /\ Spans(j, i.start)
      BY <2>1, <2>4 DEF Spans
    <3>2. QED
      BY <1>2, <2>1, <3>1 DEF Disjoint
  <2>5. QED
    BY <2>1, <2>2, <2>3, <2>4 DEF Gap
<1>9. \A w \in merged : Shown(p, w, r)
  BY <1>7 DEF Shown
<1>10. QED
  BY <1>0, <1>8, <1>9 DEF Told

\* So it is with the history of every entry.
LEMMA HistoryTold ==
    ASSUME indexed \in [Paths -> SUBSET Times], NEW r \in Nat \ {0}, r <= Second, NEW p \in Paths
    PROVE  Told(p, doGetHistory(p, r), r)
<1>1. CASE p = Root
  BY <1>1, RootTold, HistoryIs
<1>2. CASE p # Root
  <2>1. Parent[p] \in Paths
    BY RootIsNamespace, ParentIsNamespace
  <2>2. PICK h : h = doGetHistory(Parent[p], r)
    OBVIOUS
  <2>3. Sound(Parent[p], h, r)
    BY <2>1, <2>2, HistorySound
  <2>4. Told(p, Merged(p, Pieces(p, h, r)), r)
    BY <1>2, <2>3, MergedTold
  <2>5. QED
    BY <1>2, <2>2, <2>4, HistoryIs
<1>3. QED
  BY <1>1, <1>2

-----------------------------------------------------------------------------
(* What a pass of RemoveHistory still has to do                            *)

VersionOf(s) == <<s[1], s[2].at>>
Within(c, t) == c.from <= Align(t, Second) /\ Align(t, Second) <= c.to

\* What is still to be removed is in the index, unless another interval of the same
\* version was removed already; each version has one interval there, or apart ones.
Pending(c) ==
    /\ \A s \in c.todo : /\ s[1] \in Paths /\ s[2].at \in Times
                         /\ s[2].at \in indexed[s[1]] \/ \E r \in c.report : Apart(r, s)
    /\ \A r, s \in c.todo : VersionOf(r) = VersionOf(s) => r = s \/ Apart(r, s)

\* It is seen within the period only, until a divided version is removed.
Inside(c) ==
    (\A r \in c.report : VersionOf(r) \notin c.split) =>
        \A s \in c.todo : VersionOf(s) \notin c.split =>
            \A t \in Times : Within(c, t) \/ SeenAt(s[1], t) # s[2].at

\* What was removed is no longer in the index.
Gone(c) == \A r \in c.report : r[1] \in Paths /\ r[2].at \notin indexed[r[1]]

\* The version that was taken from the index is in the storage, unless it was left
\* halfway before.
Taking(c) ==
    /\ c.gone[1] \in Paths /\ c.gone[2] \in Times
    /\ c.gone[2] \notin indexed[c.gone[1]]
    /\ c.gone[2] \in stored[c.gone[1]] \/ c.halfway

Pass(c) ==
    /\ c.step \in {"select", "drop", "unstore"} => Gone(c)
    /\ c.step \in {"drop", "unstore"} => Pending(c) /\ Inside(c)
    /\ c.step = "unstore" => Taking(c)

\* Of a goroutine that is alone.
Alone ==
    /\ \A th \in Threads \ mode.threads : call[th] = Idle
    /\ \A th \in Threads : mode.threads = {th} => Pass(call[th])

\* A multiple of the resolution is rounded to itself.
LEMMA AlignTwice ==
    ASSUME NEW t \in Nat, NEW r \in Nat \ {0}
    PROVE  Align(Align(t, r), r) = Align(t, r)
<1>1. Align(t, r) \in Nat /\ Align(t, r) <= t /\ t < Align(t, r) + r
  BY AlignIs
<1>2. PICK m \in Nat : m = Align(t, r)
  BY <1>1
<1>3. Align(m, r) \in Nat /\ Align(m, r) <= m /\ m < Align(m, r) + r
  BY AlignIs
<1>4. ~(Align(m, r) < m)
  BY <1>2, <1>3, AlignApart
<1>5. QED
  BY <1>2, <1>3, <1>4

\* The intervals that are selected.
LEMMA SelectedIs ==
    ASSUME TypeOK, NEW c, c.from \in Nat, c.to \in Nat
    PROVE  /\ \A s \in Selected(c) : /\ s[1] \in Paths /\ s[2].at \in Times
                                     /\ s[2].at \in indexed[s[1]]
           /\ \A r, s \in Selected(c) : VersionOf(r) = VersionOf(s) => r = s \/ Apart(r, s)
           /\ \A s \in Selected(c) : ~ Divided(VersionOf(s)) =>
                 \A t \in Times : Within(c, t) \/ SeenAt(s[1], t) # s[2].at
<1>1. ASSUME NEW s \in Selected(c)
      PROVE  /\ s[1] \in Paths /\ s[2] \in doGetHistory(s[1], Second)
             /\ s = <<s[1], s[2]>> /\ InPeriod(c, s[2])
  <2>1. \E q \in Paths : \E i \in doGetHistory(q, Second) : s = <<q, i>> /\ InPeriod(c, i)
    BY DEF Selected
  <2>2. QED
    BY <2>1
<1>2. /\ Second \in Nat \ {0} /\ Second <= Second /\ indexed \in [Paths -> SUBSET Times]
      /\ Times \subseteq Nat
  BY TimesNatural DEF TypeOK, Times
<1>3. ASSUME NEW q \in Paths
      PROVE  Sound(q, doGetHistory(q, Second), Second) /\ Told(q, doGetHistory(q, Second), Second)
  BY <1>2, HistorySound, HistoryTold
<1>4. ASSUME NEW q \in Paths, NEW i \in doGetHistory(q, Second)
      PROVE  i \in IntervalRecords /\ Marked(q, i, Second) /\ Shown(q, i, Second)
  BY <1>3 DEF Sound, Told
<1>5. ASSUME NEW s \in Selected(c)
      PROVE  s[1] \in Paths /\ s[2].at \in Times /\ s[2].at \in indexed[s[1]]
  <2>1. s[2].at \in indexed[s[1]]
    BY <1>1, <1>4 DEF Marked
  <2>2. QED
    BY <1>1, <1>2, <2>1
<1>6. ASSUME NEW r \in Selected(c), NEW s \in Selected(c), VersionOf(r) = VersionOf(s)
      PROVE  r = s \/ Apart(r, s)
  <2>1. r[1] = s[1] /\ r[2].at = s[2].at
    BY <1>6 DEF VersionOf
  <2>2. r[2] = s[2] \/ Gap(r[2], s[2])
    BY <1>1, <1>3, <2>1 DEF Told
  <2>3. r = <<r[1], r[2]>> /\ s = <<s[1], s[2]>>
    BY <1>1
  <2>4. QED
    BY <2>1, <2>2, <2>3 DEF Apart, Gap
<1>7. ASSUME NEW s \in Selected(c), ~ Divided(VersionOf(s)), NEW t \in Times, SeenAt(s[1], t) = s[2].at
      PROVE  Within(c, t)
  <2>0. PICK q \in Paths : q = s[1]
    BY <1>1
  <2>1. PICK j \in doGetHistory(q, Second) : q = s[1] /\ j = s[2] /\ InPeriod(c, j)
    BY <1>1, <2>0
  <2>2. \A u : SeenAt(q, u) = VisibleAt(q, Until(u, Second))
    BY DEF SeenAt, Until
  <2>3. PICK i \in doGetHistory(q, Second) : \A u \in Times : SeenAt(q, u) = j.at => Spans(i, u)
    <3>1. VersionOf(s)[1] = q /\ VersionOf(s)[2] = j.at
      BY <2>1 DEF VersionOf
    <3>2. SeenAt(q, t) = j.at
      BY <1>7, <2>1
    <3>3. \E i \in doGetHistory(q, Second) :
              \A u \in {u \in Times : SeenAt(q, u) = j.at} : i.start <= u /\ u <= i.end
      BY <1>7, <3>1, <3>2 DEF Divided
    <3>4. QED
      BY <3>3 DEF Spans
  <2>4. Spans(j, t)
    <3>1. VisibleAt(q, Until(t, Second)) = j.at
      BY <1>7, <2>1, <2>2
    <3>2. CASE Spans(j, t)
      BY <3>2
    <3>3. CASE \E u \in Times : Spans(j, u) /\ VisibleAt(q, Until(u, Second)) = j.at
      <4>1. PICK u \in Times : Spans(j, u) /\ VisibleAt(q, Until(u, Second)) = j.at
        BY <3>3
      <4>2. Spans(i, u) /\ u \in Nat
        BY <1>2, <2>2, <2>3, <4>1
      <4>3. i = j
        BY <1>3, <2>1, <4>1, <4>2 DEF Sound, Disjoint
      <4>4. QED
        BY <2>2, <2>3, <3>1, <4>3
    <3>4. QED
      BY <1>4, <2>1, <3>1, <3>2, <3>3 DEF Shown
  <2>5. PICK m \in Changes(q) : j.start = Align(m, Second)
    BY <1>4, <2>1 DEF Marked, Marks
  <2>6. m \in Nat /\ t \in Nat
    <3>1. Changes(q) \in SUBSET Times
      BY <1>2, ChangesAre
    <3>2. QED
      BY <1>2, <3>1
  <2>7. j.start \in Nat /\ j.end \in Int /\ Align(t, Second) \in Nat /\ Align(t, Second) <= t
    BY <1>2, <1>4, <2>1, <2>6, AlignIs DEF IntervalRecords
  <2>8. j.start <= Align(t, Second)
    <3>1. Align(j.start, Second) = j.start
      BY <1>2, <2>5, <2>6, AlignTwice
    <3>2. j.start <= t
      BY <2>4 DEF Spans
    <3>3. QED
      BY <1>2, <2>6, <2>7, <3>1, <3>2, AlignOrder
  <2>9. c.from <= j.start /\ j.end <= c.to
    BY <2>1 DEF InPeriod
  <2>10. t <= j.end
    BY <2>4 DEF Spans
  <2>11. QED
    BY <2>6, <2>7, <2>8, <2>9, <2>10 DEF Within
<1>8. QED
  BY <1>5, <1>6, <1>7

-----------------------------------------------------------------------------
(* A goroutine that is alone                                               *)

\* What is seen stays so while the index does.
LEMMA SeenStays ==
    ASSUME UNCHANGED <<version, indexed>>, NEW t
    PROVE  \A p \in Paths : SeenAt(p, t)' = SeenAt(p, t)
<1>1. PICK u : u = Align(t, Second) + Second - 1
  OBVIOUS
<1>2. \A p \in Paths : VisibleAt(p, u)' = VisibleAt(p, u)
  BY VisibleStays
<1>3. QED
  BY <1>1, <1>2 DEF SeenAt

\* It is a version that the index lists, or none.
LEMMA SeenIndexed ==
    ASSUME TypeOK, NEW p \in Paths, NEW t
    PROVE  SeenAt(p, t) = 0 \/ SeenAt(p, t) \in indexed[p]
<1>1. PICK u : u = Align(t, Second) + Second - 1
  OBVIOUS
<1>2. PICK times \in SUBSET Times : times = {w \in indexed[p] : w <= u}
  BY DEF TypeOK
<1>3. VisibleAt(p, u) \in {0, Newest(times)}
  BY <1>2, VisibleIs
<1>4. Newest(times) = 0 \/ Newest(times) \in times
  BY NewestIs DEF Newest
<1>5. QED
  BY <1>1, <1>2, <1>3, <1>4 DEF SeenAt

\* Or where the version that is removed is not.
LEMMA DroppedStays ==
    ASSUME TypeOK, NEW q \in Paths, NEW v \in Times, Without(q, v), NEW t, SeenAt(q, t) # v
    PROVE  \A p \in Paths : SeenAt(p, t)' = SeenAt(p, t)
<1>1. PICK u : u = Align(t, Second) + Second - 1
  OBVIOUS
<1>2. VisibleAt(q, u) # v
  BY <1>1 DEF SeenAt
<1>3. \A p \in Paths : VisibleAt(p, u)' = VisibleAt(p, u)
  BY <1>2, DroppedUnseen
<1>4. QED
  BY <1>1, <1>3 DEF SeenAt

\* A step of the other operations does not lead into RemoveHistory.
LEMMA OtherSteps ==
    ASSUME TypeOK, Calls, NEW th \in Threads, CallStep(th)
    PROVE  /\ call[th].step # "idle"
           /\ call[th].step \in {"drop", "unstore"} => DropStep(th)
           /\ \/ SelectHistory(th) \/ DropStep(th)
              \/ \E d : NewCall(d) /\ Becomes(th, d) /\ d.step \notin {"select", "drop", "unstore"}
<1>1. CASE Stamp(th)
  BY <1>1, StampIs
<1>2. CASE QueryContent(th) \/ UploadConflicts(th) \/ CallFails(th)
  <2>1. /\ call[th].step \notin {"idle", "drop", "unstore"}
        /\ \E d : /\ NewCall(d) /\ Becomes(th, d)
                  /\ \/ d = Idle \/ SelectHistory(th) \/ d.step \in {"push", "index"}
    BY <1>2, WorkIs
  <2>2. QED
    BY <2>1, IdleIs
<1>3. CASE PushContent(th) \/ Upload(th) \/ UploadLost(th)
  BY <1>3, PushIs, IdleIs
<1>4. CASE IndexMeta(th)
  BY <1>4, IndexIs
<1>5. CASE StoreMeta(th) \/ PutMetaLost(th)
  BY <1>5, StoreIs, IdleIs
<1>6. CASE scanMetaDir(th) \/ scanMetaObjs(th)
  BY <1>6, MetasIs
<1>7. CASE scanContentDir(th) \/ scanContentObjs(th)
  BY <1>7, ContentsIs
<1>8. CASE CheckMetas(th)
  BY <1>8, CheckIs
<1>9. CASE purgeContent(th)
  BY <1>9, PurgeIs, IdleIs
<1>10. CASE SelectHistory(th)
  BY <1>10, WorkIs
<1>11. CASE DropStep(th)
  <2>1. call[th].step \in {"drop", "unstore"}
    BY <1>11, DropIs
  <2>2. QED
    BY <1>11, <2>1
<1>12. QED
  BY <1>1, <1>2, <1>3, <1>4, <1>5, <1>6, <1>7, <1>8, <1>9, <1>10, <1>11 DEF CallStep, DropStep

\* A call that does not select, or select again, has nothing to keep.
LEMMA PassIdle ==
    ASSUME NEW d, d.step \notin {"select", "drop", "unstore"}, NEW th, call'[th] = d
    PROVE  Pass(call[th])'
BY DEF Pass

\* What is selected is pending, and inside the period.
LEMMA SelectPasses ==
    ASSUME TypeOK, Calls, NEW th \in Threads, SelectHistory(th), Pass(call[th])
    PROVE  Pass(call[th])'
<1>1. /\ call[th].step = "select" /\ UNCHANGED <<version, indexed>>
      /\ call[th].from \in Nat /\ call[th].to \in Nat /\ IsCall(call[th])
  BY DEF SelectHistory, At, Calls, IsCall
<1>2. Gone(call[th])
  BY <1>1 DEF Pass
<1>3. CASE Finish(th)
  <2>1. call'[th] = Idle
    BY <1>3 DEF Finish, Calls
  <2>2. QED
    BY <2>1, PassIdle, IdleIs
<1>4. CASE ~ Finish(th)
  <2> DEFINE selected == Selected(call[th])
             split == {v \in Versions : Divided(v)}
  <2>1. PICK d : d = [call[th] EXCEPT !.step = "drop", !.todo = selected, !.split = split]
    OBVIOUS
  <2>2. call'[th] = d
    BY <1>4, <2>1 DEF SelectHistory, Calls
  <2>3. /\ d.step = "drop" /\ d.todo = selected /\ d.split = split /\ d.report = call[th].report
        /\ d.from = call[th].from /\ d.to = call[th].to
    BY <1>1, <2>1 DEF IsCall
  <2>4. /\ \A s \in selected : /\ s[1] \in Paths /\ s[2].at \in Times
                               /\ s[2].at \in indexed[s[1]]
        /\ \A r, s \in selected : VersionOf(r) = VersionOf(s) => r = s \/ Apart(r, s)
        /\ \A s \in selected : ~ Divided(VersionOf(s)) =>
              \A t \in Times : Within(call[th], t) \/ SeenAt(s[1], t) # s[2].at
    BY <1>1, SelectedIs
  <2>5. ASSUME NEW s \in selected, VersionOf(s) \notin split PROVE ~ Divided(VersionOf(s))
    <3>1. VersionOf(s) \in Versions
      BY <2>4 DEF VersionOf, Versions
    <3>2. QED
      BY <2>5, <3>1
  <2> HIDE DEF selected, split
  <2>6. Gone(d)'
    BY <1>1, <1>2, <2>3 DEF Gone
  <2>7. Pending(d)'
    BY <1>1, <2>3, <2>4 DEF Pending
  <2>8. ASSUME NEW s \in d.todo, VersionOf(s) \notin d.split, NEW t \in Times
        PROVE  Within(d, t) \/ SeenAt(s[1], t)' # s[2].at
    <3>1. Within(call[th], t) \/ SeenAt(s[1], t) # s[2].at
      BY <2>3, <2>4, <2>5, <2>8
    <3>2. SeenAt(s[1], t)' = SeenAt(s[1], t)
      BY <1>1, <2>3, <2>4, <2>8, SeenStays
    <3>3. QED
      BY <2>3, <3>1, <3>2 DEF Within
  <2>9. Inside(d)'
    BY <2>8 DEF Inside
  <2>10. QED
    BY <2>2, <2>3, <2>6, <2>7, <2>9 DEF Pass
<1>5. QED
  BY <1>3, <1>4

\* What is taken from the index is gone; what is pending besides stays there, or is another
\* interval of the same version.
LEMMA UnindexPasses ==
    ASSUME IInv, NEW th \in Threads, Unindex(th), Pass(call[th])
    PROVE  Pass(call[th])'
<1>0. TypeOK /\ Calls /\ Balance /\ IsCall(call[th]) /\ call[th].step = "drop"
  <2>1. TypeOK /\ Calls /\ Balance
    BY DEF IInv
  <2>2. QED
    BY <2>1, UnindexIs DEF Calls
<1>1. Gone(call[th]) /\ Pending(call[th]) /\ Inside(call[th])
  BY <1>0 DEF Pass
<1>2. ASSUME NEW d, Becomes(th, d) PROVE call'[th] = d
  BY <1>0, <1>2 DEF Becomes, Calls
<1>3. CASE Becomes(th, Idle)
  BY <1>2, <1>3, PassIdle, IdleIs
<1>4. ASSUME NEW s \in call[th].todo, s[2].at \in indexed[s[1]],
             indexed' = [indexed EXCEPT ![s[1]] = @ \ {s[2].at}], stored' = stored,
             Dropping(s[1], s[2].at),
             NEW bad, bad = (<<s[1], s[2].at>> \in failed),
             Becomes(th, Unindexing(call[th], s, bad))
      PROVE  Pass(call[th])'
  <2>1. PICK d : d = Unindexing(call[th], s, bad)
    OBVIOUS
  <2>2. call'[th] = d
    BY <1>2, <1>4, <2>1
  <2>3. /\ d.step = "unstore" /\ d.todo = call[th].todo \ {s} /\ d.report = call[th].report \union {s}
        /\ d.split = call[th].split /\ d.from = call[th].from /\ d.to = call[th].to
        /\ d.gone = <<s[1], s[2].at>> /\ d.halfway = bad
    BY <1>0, <2>1 DEF IsCall, Unindexing
  <2>4. s[1] \in Paths /\ s[2].at \in Times
    BY <1>1, <1>4 DEF Pending
  <2>5. /\ \A p \in Paths : indexed'[p] \subseteq indexed[p]
        /\ \A p \in Paths : \A t \in indexed[p] : t \in indexed'[p] \/ (p = s[1] /\ t = s[2].at)
        /\ s[2].at \notin indexed'[s[1]]
    <3>1. indexed \in [Paths -> SUBSET Times]
      BY <1>0 DEF TypeOK
    <3>2. QED
      BY <1>4, <2>4, <3>1
  <2>6. Gone(d)'
    BY <1>1, <2>3, <2>4, <2>5 DEF Gone
  <2>7. ASSUME NEW z \in d.todo
        PROVE  /\ z[1] \in Paths /\ z[2].at \in Times
               /\ z[2].at \in indexed'[z[1]] \/ \E r \in d.report : Apart(r, z)
    <3>1. /\ z \in call[th].todo /\ z # s /\ z[1] \in Paths /\ z[2].at \in Times
          /\ z[2].at \in indexed[z[1]] \/ \E r \in call[th].report : Apart(r, z)
      BY <1>1, <2>3, <2>7 DEF Pending
    <3>2. CASE VersionOf(s) = VersionOf(z)
      <4>1. Apart(s, z)
        BY <1>1, <1>4, <3>1, <3>2 DEF Pending
      <4>2. QED
        BY <2>3, <3>1, <4>1
    <3>3. CASE VersionOf(s) # VersionOf(z)
      <4>1. ~ (z[1] = s[1] /\ z[2].at = s[2].at)
        BY <3>3 DEF VersionOf
      <4>2. QED
        BY <2>3, <2>5, <3>1, <4>1
    <3>4. QED
      BY <3>2, <3>3
  <2>8. \A r, z \in d.todo : VersionOf(r) = VersionOf(z) => r = z \/ Apart(r, z)
    BY <1>1, <2>3 DEF Pending
  <2>9. Pending(d)'
    BY <2>7, <2>8 DEF Pending
  <2>10. ASSUME \A r \in d.report : VersionOf(r) \notin d.split,
                NEW z \in d.todo, VersionOf(z) \notin d.split, NEW t \in Times
         PROVE  Within(d, t) \/ SeenAt(z[1], t)' # z[2].at
    <3>1. \A r \in call[th].report : VersionOf(r) \notin call[th].split
      BY <2>3, <2>10
    <3>2. VersionOf(s) \notin call[th].split /\ z \in call[th].todo /\ VersionOf(z) \notin call[th].split
      BY <2>3, <2>10
    <3>3. /\ Within(call[th], t) \/ SeenAt(z[1], t) # z[2].at
          /\ Within(call[th], t) \/ SeenAt(s[1], t) # s[2].at
      BY <1>1, <1>4, <3>1, <3>2 DEF Inside
    <3>4. CASE Within(call[th], t)
      BY <2>3, <3>4 DEF Within
    <3>5. CASE ~ Within(call[th], t)
      <4>1. Without(s[1], s[2].at)
        BY <1>0, <1>4, <2>4, TakenWithout
      <4>2. SeenAt(z[1], t)' = SeenAt(z[1], t)
        BY <1>0, <2>4, <2>7, <3>3, <3>5, <4>1, DroppedStays
      <4>3. QED
        BY <3>3, <3>5, <4>2
    <3>6. QED
      BY <3>4, <3>5
  <2>11. Inside(d)'
    BY <2>10 DEF Inside
  <2>12. Taking(d)'
    <3>1. s[2].at \in stored[s[1]] \/ <<s[1], s[2].at>> \in failed
      BY <1>0, <1>4, <2>4 DEF Balance
    <3>2. s[2].at \in stored'[s[1]] \/ bad
      BY <1>4, <3>1
    <3>3. d.gone[1] = s[1] /\ d.gone[2] = s[2].at
      BY <2>3
    <3>4. QED
      BY <2>3, <2>4, <2>5, <3>2, <3>3 DEF Taking
  <2>13. QED
    BY <2>2, <2>3, <2>6, <2>9, <2>11, <2>12 DEF Pass
<1>5. QED
  BY <1>0, <1>3, <1>4, UnindexIs

\* What is taken from the storage was not seen any more.
LEMMA UnstorePasses ==
    ASSUME IInv, NEW th \in Threads, Unstore(th) \/ RemovalRefused(th), Pass(call[th])
    PROVE  Pass(call[th])'
<1>0. TypeOK /\ Calls /\ IsCall(call[th])
  BY DEF IInv, Calls
<1>1. CASE Becomes(th, Idle)
  <2>1. call'[th] = Idle
    BY <1>0, <1>1 DEF Becomes, Calls
  <2>2. QED
    BY <2>1, PassIdle, IdleIs
<1>2. CASE call[th].step = "unstore" /\ Becomes(th, [call[th] EXCEPT !.step = "drop"])
  <2>1. PICK d : d = [call[th] EXCEPT !.step = "drop"]
    OBVIOUS
  <2>2. call'[th] = d
    BY <1>0, <1>2, <2>1 DEF Becomes, Calls
  <2>3. /\ d.step = "drop" /\ d.todo = call[th].todo /\ d.report = call[th].report
        /\ d.split = call[th].split /\ d.from = call[th].from /\ d.to = call[th].to
    BY <1>0, <2>1 DEF IsCall
  <2>4. Gone(call[th]) /\ Pending(call[th]) /\ Inside(call[th]) /\ Taking(call[th])
    BY <1>2 DEF Pass
  <2>5. indexed' = indexed
    BY <1>0, UnstoreIs
  <2>6. \A p \in Paths, t \in Times : SeenAt(p, t)' = SeenAt(p, t)
    <3>1. CASE VersionsStay
      BY <3>1, SeenStays DEF VersionsStay
    <3>2. CASE ~ VersionsStay
      <4>1. PICK q \in Paths, v \in Times :
                q = call[th].gone[1] /\ v = call[th].gone[2] /\ v \notin indexed[q]
        BY <2>4 DEF Taking
      <4>2. Dropping(q, v)
        BY <1>0, <3>2, <4>1, UnstoreIs
      <4>3. indexed' = [indexed EXCEPT ![q] = @ \ {v}]
        BY <1>0, <2>5, <4>1 DEF TypeOK
      <4>4. Without(q, v)
        BY <1>0, <4>2, <4>3, TakenWithout
      <4>5. ASSUME NEW t \in Times PROVE SeenAt(q, t) # v
        BY <1>0, <4>1, SeenIndexed, TimesNatural DEF Times
      <4>6. QED
        BY <1>0, <4>4, <4>5, DroppedStays
    <3>3. QED
      BY <3>1, <3>2
  <2>7. Gone(d)' /\ Pending(d)'
    BY <2>3, <2>4, <2>5 DEF Gone, Pending
  <2>8. ASSUME NEW z \in d.todo, NEW t \in Times
        PROVE  SeenAt(z[1], t)' = SeenAt(z[1], t)
    BY <2>3, <2>4, <2>6, <2>8 DEF Pending
  <2>9. Inside(d)'
    BY <2>3, <2>4, <2>8 DEF Inside, Within
  <2>10. QED
    BY <2>2, <2>3, <2>7, <2>9 DEF Pass
<1>3. QED
  BY <1>0, <1>1, <1>2, UnstoreIs

\* The steps of a removal keep the pass.
LEMMA DropPasses ==
    ASSUME IInv, NEW th \in Threads, DropStep(th), Pass(call[th])
    PROVE  Pass(call[th])'
<1>1. CASE PassEnds(th)
  <2>1. /\ TypeOK /\ Calls /\ IsCall(call[th]) /\ call[th].step = "drop"
        /\ VersionsStay /\ Becomes(th, [call[th] EXCEPT !.step = "select"])
    <3>1. TypeOK /\ Calls
      BY DEF IInv
    <3>2. QED
      BY <1>1, <3>1, PassEndsIs DEF Calls
  <2>2. PICK d : d = [call[th] EXCEPT !.step = "select"]
    OBVIOUS
  <2>3. call'[th] = d
    BY <2>1, <2>2 DEF Becomes, Calls
  <2>4. d.step = "select" /\ d.report = call[th].report
    BY <2>1, <2>2 DEF IsCall
  <2>5. Gone(call[th]) /\ indexed' = indexed
    BY <2>1 DEF Pass, VersionsStay
  <2>6. Gone(d)'
    BY <2>4, <2>5 DEF Gone
  <2>7. QED
    BY <2>3, <2>4, <2>6 DEF Pass
<1>2. QED
  BY <1>1, UnindexPasses, UnstorePasses DEF DropStep

\* The use does not change.
LEMMA ModeStays ==
    ASSUME [Next]_vars
    PROVE  mode' = mode
<1>1. ASSUME NEW th, NEW op, NEW c, Begin(th, op, c) PROVE mode' = mode
  BY <1>1 DEF Begin
<1>2. ASSUME NEW th \in Threads, StartCall(th) PROVE mode' = mode
  BY <1>1, <1>2 DEF StartCall, mkupns, getContentWriter, symlink, remove, scanStorage, removeHistory
<1>3. ASSUME NEW th \in Threads, CallStep(th) PROVE mode' = mode
  <2>1. CASE Stamp(th) \/ QueryContent(th) \/ CallFails(th) \/ UploadConflicts(th) \/ CheckMetas(th)
    BY <2>1 DEF Stamp, QueryContent, CallFails, UploadConflicts, CheckMetas
  <2>2. CASE PushContent(th) \/ Upload(th) \/ UploadLost(th) \/ IndexMeta(th)
    BY <2>2 DEF PushContent, Upload, UploadLost, Pushed, IndexMeta
  <2>3. CASE StoreMeta(th) \/ PutMetaLost(th)
    BY <2>3 DEF StoreMeta, PutMetaLost, Stored
  <2>4. CASE scanMetaDir(th) \/ scanMetaObjs(th) \/ scanContentDir(th) \/ scanContentObjs(th)
    BY <2>4 DEF scanMetaDir, scanMetaObjs, MetasScanned, scanContentDir, scanContentObjs, ContentsScanned
  <2>5. CASE purgeContent(th) \/ SelectHistory(th) \/ DropStep(th)
    BY <2>5 DEF purgeContent, SelectHistory, DropStep, PassEnds, Unindex, Unstore, RemovalRefused
  <2>6. QED
    BY <1>3, <2>1, <2>2, <2>3, <2>4, <2>5 DEF CallStep, DropStep
<1>4. Crash => mode' = mode
  BY DEF Crash
<1>5. UNCHANGED vars => mode' = mode
  BY DEF vars
<1>6. QED
  BY <1>2, <1>3, <1>4, <1>5 DEF Next

\* Alone is inductive with IInv.
LEMMA InitAlone == Init => Alone
BY IdleIs DEF Init, Alone, Pass

\* It is about the index and the calls only.
LEMMA AloneStutters ==
    ASSUME Alone, UNCHANGED vars
    PROVE  Alone'
<1>1. UNCHANGED <<mode, version, indexed, stored, call>>
  BY DEF vars
<1>2. ASSUME NEW th \in Threads, Pass(call[th]) PROVE Pass(call[th])'
  <2>1. PICK c : c = call[th]
    OBVIOUS
  <2>2. Gone(c) => Gone(c)'
    BY <1>1 DEF Gone
  <2>3. Pending(c) => Pending(c)'
    BY <1>1 DEF Pending
  <2>4. Pending(c) /\ Inside(c) => Inside(c)'
    <3>1. \A s \in c.todo, t \in Times : s[1] \in Paths => SeenAt(s[1], t)' = SeenAt(s[1], t)
      BY <1>1, SeenStays
    <3>2. QED
      BY <3>1 DEF Inside, Pending, Within
  <2>5. call'[th] = c
    BY <1>1, <2>1
  <2>6. Taking(c) => Taking(c)'
    BY <1>1 DEF Taking
  <2>7. QED
    BY <1>2, <2>1, <2>2, <2>3, <2>4, <2>5, <2>6 DEF Pass
<1>3. QED
  BY <1>1, <1>2 DEF Alone

\* Each step keeps it.
LEMMA AloneKeeps == IInv /\ Alone /\ [Next]_vars => Alone'
<1> SUFFICES ASSUME IInv, Alone, [Next]_vars PROVE Alone'
  OBVIOUS
<1>0. mode' = mode /\ TypeOK /\ Calls /\ Kinds
  BY ModeStays DEF IInv
<1>1. ASSUME NEW th \in mode.threads, th \in Threads, NEW d, NewCall(d), Becomes(th, d),
             mode.threads = {th} => Pass(call[th])'
      PROVE  Alone'
  <2>1. \A u \in Threads : u # th => call'[u] = call[u]
    BY <1>0, <1>1, BecomesIs
  <2>2. QED
    BY <1>0, <1>1, <2>1 DEF Alone
<1>2. ASSUME NEW th \in Threads, StartCall(th) PROVE Alone'
  <2>1. PICK d : /\ NewCall(d) /\ Becomes(th, d) /\ Begin(th, d.op, d)
                 /\ d.step \in {"stamp", "metas", "select"} /\ d.report = {}
    BY <1>0, <1>2, BeginIs
  <2>2. th \in mode.threads
    BY <2>1 DEF Begin, Allowed
  <2>3. call'[th] = d
    BY <1>0, <2>1, BecomesIs
  <2>4. Pass(call[th])'
    BY <2>1, <2>3 DEF Pass, Gone
  <2>5. QED
    BY <1>1, <2>1, <2>2, <2>4
<1>3. ASSUME NEW th \in Threads, CallStep(th) PROVE Alone'
  <2>1. th \in mode.threads
    <3>1. call[th].step # "idle"
      BY <1>0, <1>3, OtherSteps
    <3>2. QED
      BY <3>1, IdleIs DEF Alone
  <2>2. \E d : NewCall(d) /\ Becomes(th, d)
    <3>1. CASE SelectHistory(th)
      BY <1>0, <3>1, WorkIs
    <3>2. CASE DropStep(th)
      BY <1>0, <3>2, DropIs
    <3>3. QED
      BY <1>0, <1>3, <3>1, <3>2, OtherSteps
  <2>3. ASSUME mode.threads = {th} PROVE Pass(call[th])'
    <3>1. Pass(call[th])
      BY <2>3 DEF Alone
    <3>2. CASE SelectHistory(th)
      BY <1>0, <3>1, <3>2, SelectPasses
    <3>3. CASE DropStep(th)
      BY <1>0, <3>1, <3>3, DropPasses DEF IInv
    <3>4. CASE \E d : NewCall(d) /\ Becomes(th, d) /\ d.step \notin {"select", "drop", "unstore"}
      <4>1. PICK d : NewCall(d) /\ Becomes(th, d) /\ d.step \notin {"select", "drop", "unstore"}
        BY <3>4
      <4>2. call'[th] = d
        BY <1>0, <4>1, BecomesIs
      <4>3. QED
        BY <4>1, <4>2, PassIdle
    <3>5. QED
      BY <1>0, <1>3, <3>2, <3>3, <3>4, OtherSteps
  <2>4. QED
    BY <1>1, <2>1, <2>2, <2>3
<1>4. CASE Crash
  <2>1. \A th \in Threads : call'[th] = Idle
    BY <1>4 DEF Crash
  <2>2. QED
    BY <2>1, PassIdle, IdleIs DEF Alone
<1>5. QED
  BY <1>2, <1>3, <1>4, AloneStutters DEF Next

\* It holds in every state.
LEMMA StoreAlone == Spec => [](IInv /\ Alone)
<1>1. Init => IInv /\ Alone
  BY InitIInv, InitAlone
<1>2. (IInv /\ Alone) /\ [Next]_vars => (IInv /\ Alone)'
  BY NextKeeps, AloneKeeps
<1>3. QED
  BY <1>1, <1>2, PTL DEF Spec

-----------------------------------------------------------------------------
(* The theorems about RemoveHistory                                        *)

\* StoreRemovalFails: where nothing refuses, a goroutine that is alone stops RemoveHistory
\* halfway only at a version of which it removed another interval before, or, in files, at
\* one that an earlier write or removal left in the index only.
THEOREM StoreRemovalFails == Spec => RemovalFails
<1>1. ASSUME IInv, Alone, NEW th \in mode.threads, mode.threads = {th},
             Unindex(th) \/ Unstore(th), At(th, "idle")'
      PROVE  \/ /\ At(th, "drop")
                /\ \E s \in call[th].todo, r \in call[th].report : Apart(r, s)
             \/ At(th, "unstore") /\ mode.storage = "files" /\ call[th].halfway
  <2>1. th \in Threads /\ Calls /\ TypeOK /\ IsCall(call[th])
    BY <1>1, ModesComplete DEF IInv, TypeOK, Calls
  <2>2. Pass(call[th])
    BY <1>1, <2>1 DEF Alone
  <2>3. ASSUME NEW d, Becomes(th, d) PROVE d.step = "idle"
    BY <1>1, <2>1, <2>3 DEF Becomes, Calls, At
  <2>4. CASE Unindex(th)
    <3>1. call[th].step = "drop" /\ Pending(call[th])
      BY <2>1, <2>2, <2>4, UnindexIs DEF Pass
    <3>2. \A s, bad : ~ Becomes(th, Unindexing(call[th], s, bad))
      <4>1. \A s, bad : Unindexing(call[th], s, bad).step = "unstore"
        BY <2>1 DEF IsCall, Unindexing
      <4>2. QED
        BY <2>3, <4>1
    <3>3. PICK s \in call[th].todo : s[2].at \notin indexed[s[1]]
      BY <2>1, <2>4, <3>2, UnindexIs
    <3>4. \E r \in call[th].report : Apart(r, s)
      BY <3>1, <3>3 DEF Pending
    <3>5. QED
      BY <3>1, <3>4 DEF At
  <2>5. CASE Unstore(th)
    <3>1. call[th].step = "unstore"
      BY <2>5 DEF Unstore, At
    <3>2. ~ Goto(th, "drop")
      <4>1. [call[th] EXCEPT !.step = "drop"].step = "drop"
        BY <2>1 DEF IsCall
      <4>2. QED
        BY <2>3, <4>1 DEF Goto, Becomes
    <3>3. call[th].gone[2] \notin stored[call[th].gone[1]] /\ mode.storage = "files"
      BY <2>5, <3>2 DEF Unstore
    <3>4. call[th].halfway
      BY <2>2, <3>1, <3>3 DEF Pass, Taking
    <3>5. QED
      BY <3>1, <3>3, <3>4 DEF At
  <2>6. QED
    BY <1>1, <2>4, <2>5
<1>2. IInv /\ Alone => [\A th \in mode.threads :
          mode.threads = {th} /\ (Unindex(th) \/ Unstore(th)) /\ At(th, "idle")' =>
              \/ /\ At(th, "drop")
                 /\ \E s \in call[th].todo, r \in call[th].report : Apart(r, s)
              \/ At(th, "unstore") /\ mode.storage = "files" /\ call[th].halfway]_vars
  BY <1>1
<1>3. QED
  BY <1>2, StoreAlone, PTL DEF RemovalFails

\* StoreRemovalOutside: a goroutine that is alone changes nothing that is seen out of the
\* period of its RemoveHistory, until it removes a version that is seen in two intervals.
THEOREM StoreRemovalOutside == Spec => RemovalOutside
<1>1. ASSUME IInv, Alone, [Next]_vars, NEW th \in mode.threads, mode.threads = {th},
             \A r \in call[th].report : <<r[1], r[2].at>> \notin call[th].split,
             NEW v \in Dropped(th) \ call[th].split, NEW p \in Paths, NEW t \in Times
      PROVE  \/ call[th].from <= Align(t, Second) /\ Align(t, Second) <= call[th].to
             \/ SeenAt(p, t)' = SeenAt(p, t)
  <2>1. th \in Threads /\ Calls /\ TypeOK
    BY <1>1, ModesComplete DEF IInv, TypeOK
  <2>2. /\ v[1] \in Paths /\ v = <<v[1], v[2]>>
        /\ v[2] \in indexed[v[1]] /\ v[2] \notin indexed'[v[1]]
    BY DEF Dropped, Versions
  <2>3. Unindex(th) /\ call[th].step = "drop"
    <3>1. indexed' # indexed
      BY <2>2
    <3>2. PICK u \in Threads : StartCall(u) \/ CallStep(u)
      <4>1. Crash \/ UNCHANGED vars => indexed' = indexed
        BY DEF Crash, vars
      <4>2. Next \/ UNCHANGED vars
        BY <1>1
      <4>3. QED
        BY <3>1, <4>1, <4>2 DEF Next
    <3>3. ~ StartCall(u)
      <4>1. Kinds
        BY <1>1 DEF IInv
      <4>2. QED
        BY <2>1, <3>1, <4>1, BeginIs DEF Begin
    <3>4. u = th
      BY <1>1, <2>1, <3>2, <3>3, OtherSteps, IdleIs DEF Alone
    <3>5. call[th].step = "drop"
      <4>1. v \in Dropped(th)
        OBVIOUS
      <4>2. QED
        BY <4>1 DEF Dropped, At
    <3>6. DropStep(th)
      BY <2>1, <3>2, <3>3, <3>4, <3>5, OtherSteps
    <3>7. QED
      BY <3>1, <3>5, <3>6 DEF DropStep, PassEnds, Unstore, RemovalRefused
  <2>4. PICK s \in call[th].todo :
            /\ indexed' = [indexed EXCEPT ![s[1]] = @ \ {s[2].at}]
            /\ Dropping(s[1], s[2].at)
    <3>1. ~ VersionsStay
      BY <2>2 DEF VersionsStay
    <3>2. QED
      BY <2>1, <2>3, <3>1, UnindexIs
  <2>5. Pending(call[th]) /\ Inside(call[th])
    BY <1>1, <2>1, <2>3 DEF Alone, Pass
  <2>6. s[1] \in Paths /\ s[2].at \in Times
    BY <2>5 DEF Pending
  <2>7. v = VersionOf(s)
    <3>1. v[1] = s[1] /\ v[2] = s[2].at
      BY <2>1, <2>2, <2>4, <2>6 DEF TypeOK
    <3>2. QED
      BY <2>2, <3>1 DEF VersionOf
  <2>8. Within(call[th], t) \/ SeenAt(s[1], t) # s[2].at
    BY <1>1, <2>5, <2>7 DEF Inside, VersionOf
  <2>9. Without(s[1], s[2].at)
    BY <2>1, <2>4, <2>6, TakenWithout
  <2>10. QED
    BY <2>1, <2>6, <2>8, <2>9, DroppedStays DEF Within
<1>2. IInv /\ Alone /\ [Next]_vars =>
      [\A th \in mode.threads :
          /\ mode.threads = {th}
          /\ \A r \in call[th].report : <<r[1], r[2].at>> \notin call[th].split
          => \A v \in Dropped(th) \ call[th].split :
              \A p \in Paths, t \in Times :
                  \/ call[th].from <= Align(t, Second) /\ Align(t, Second) <= call[th].to
                  \/ SeenAt(p, t)' = SeenAt(p, t)]_vars
  BY <1>1
<1>3. QED
  BY <1>2, StoreAlone, PTL DEF RemovalOutside, Spec
=============================================================================
