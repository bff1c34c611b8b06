------------------------------ MODULE History -------------------------------
(***************************************************************************)
(* What a DSS with history shows (cabridss/odss.go): the version of an     *)
(* entry that somebody finds who opens the DSS as of an instant, and the   *)
(* intervals that GetHistory returns.                                      *)
(*                                                                         *)
(* An entry is visible while its namespace is and lists it. Its newest     *)
(* version then is the entry.                                              *)
(***************************************************************************)
EXTENDS Naturals, FiniteSets

CONSTANTS
    Paths,      \* the entries
    Root,       \* the top namespace
    Namespaces, \* the entries that have children
    Parent,     \* the namespace of each entry; the root is its own
    LastTime,   \* bound: no version is later
    Second,     \* how many instants a second has
    NoVersion   \* no metadata

ASSUME RootIsNamespace == Root \in Namespaces /\ Namespaces \subseteq Paths
ASSUME ParentIsNamespace == Parent \in [Paths -> Namespaces] /\ Parent[Root] = Root
ASSUME PathsFinite == IsFiniteSet(Paths)
ASSUME TreeRooted ==
    \E depth \in [Paths -> 0 .. Cardinality(Paths)] :
        \A p \in Paths \ {Root} : depth[Parent[p]] < depth[p]
ASSUME TimesNatural == LastTime \in Nat /\ Second \in Nat \ {0}

Times == 1 .. LastTime
Forever == LastTime + Second + 1

VARIABLES
    version,    \* the metadata of each version: the checksum of its content,
                \* or its children
    indexed     \* the versions of each entry that the index lists

Newest(times) == IF times = {} THEN 0 ELSE CHOOSE t \in times : \A u \in times : u <= t

ChildrenOf(d) == {p \in Paths \ {Root} : Parent[p] = d}

\* The entry is p or beneath it.
Below(q, p) ==
    LET below[r \in Paths] == r = p \/ (r # Root /\ below[Parent[r]])
    IN below[q]

\* The time of the version that is visible at t, 0 if there is none.
VisibleAt(p, t) ==
    LET visible[q \in Paths] ==
            IF q = Root \/ (/\ visible[Parent[q]] # 0
                            /\ q \in version[Parent[q]][visible[Parent[q]]])
            THEN Newest({u \in indexed[q] : u <= t})
            ELSE 0
    IN visible[p]

\* The namespace is visible at t and lists the entry.
Lists(d, p, t) == VisibleAt(d, t) # 0 /\ p \in version[d][VisibleAt(d, t)]

\* The list of a visible namespace.
Now(d) == version[d][VisibleAt(d, Forever)]

-----------------------------------------------------------------------------
Align(t, resolution) == (t \div resolution) * resolution

Later(p, t) == {u \in indexed[p] : u > t}
Next1(p, t) == CHOOSE u \in Later(p, t) : \A v \in Later(p, t) : u <= v

\* doGetRawHistory: an interval for each version, up to the next one.
doGetRawHistory(p, resolution) ==
    {[start |-> Align(t, resolution),
      end   |-> IF Later(p, t) = {} THEN Forever ELSE Align(Next1(p, t), resolution) - 1,
      at    |-> t] : t \in indexed[p]}

\* A fault: an interval keeps the start it had before its namespace listed it.
ClipEnd(i, outer) == [i EXCEPT !.end = IF i.end > outer.end THEN outer.end ELSE i.end]

\* What is left of the interval of an entry within one of its namespace.
Clip(i, outer) ==
    [start |-> IF i.start < outer.start THEN outer.start ELSE i.start,
     end   |-> IF i.end > outer.end THEN outer.end ELSE i.end,
     at    |-> i.at]

\* A fault: intervals that hold no instant are kept.
PiecesAll(p, outerHistory, resolution) ==
    LET outers == {o \in outerHistory : p \in version[Parent[p]][o.at]}
    IN {Clip(i, o) : i \in doGetRawHistory(p, resolution), o \in outers}

\* The parts of the intervals of an entry during which its namespace listed
\* it; those of one instant or less are dropped.
Pieces(p, outerHistory, resolution) ==
    LET outers == {o \in outerHistory : p \in version[Parent[p]][o.at]}
    IN {i \in {Clip(j, o) : j \in doGetRawHistory(p, resolution), o \in outers} :
            i.end = Forever \/ i.end > i.start}

\* Pieces that follow each other and hold the same metadata become one, which
\* stands for the last version.
Merged(p, pieces) ==
    LET Joins(i, j) == i.end + 1 = j.start /\ version[p][i.at] = version[p][j.at]
        Joined(i) == \E j \in pieces : Joins(i, j)
        Whole(first, last) ==
            /\ first.start <= last.start
            /\ ~ \E i \in pieces : Joins(i, first)
            /\ ~ Joined(last)
            /\ \A i \in pieces : first.start <= i.start /\ i.start < last.start => Joined(i)
    IN {[start |-> w[1].start, end |-> w[2].end, at |-> w[2].at] :
            w \in {v \in pieces \X pieces : Whole(v[1], v[2])}}

\* doGetHistory, for one entry.
doGetHistory(p, resolution) ==
    LET history[q \in Paths] ==
            IF q = Root THEN doGetRawHistory(Root, resolution)
            ELSE Merged(q, Pieces(q, history[Parent[q]], resolution))
    IN history[p]

ShownAt(history, t) == {i \in history : i.start <= t /\ t <= i.end}
=============================================================================
