------------------------------ MODULE CsLookup ------------------------------
(***************************************************************************)
(* The search of the Content Store (daemon/table/cs.cpp, cs-entry-impl.cpp)*)
(* in a table sorted by full name.                                         *)
(*                                                                         *)
(* A name is a sequence of components and a component is a number: below   *)
(* FirstGeneric an implicit digest, else a generic component, so that      *)
(* numbers are in the canonical order of components. The selectors modelled*)
(* are ChildSelector and MustBeFresh.                                      *)
(***************************************************************************)
EXTENDS Integers, SequencesExt

CONSTANTS
    FirstGeneric,
    Data,         \* [name, digest, freshness]
    Interest      \* [name, rightmost, mbf]

ASSUME LookupAssumption ==
    /\ FirstGeneric \in Nat
    /\ \A d \in Data : /\ d.name \in Seq(Nat)
                       /\ \A i \in 1 .. Len(d.name) : d.name[i] >= FirstGeneric
                       /\ d.digest \in 0 .. FirstGeneric - 1
                       /\ d.freshness \in Nat
    \* the digest in a full name covers the packet
    /\ \A d, e \in Data : d.name = e.name /\ d.digest = e.digest => d = e
    /\ \A i \in Interest : i.name \in Seq(Nat) /\ {i.rightmost, i.mbf} \subseteq BOOLEAN

FullName(d) == Append(d.name, d.digest)

\* Name::compare(m, n) < 0: the first component that differs decides, and a proper
\* prefix comes first.
NameLess(m, n) ==
    \E i \in 1 .. Len(n) :
        /\ i <= Len(m) + 1
        /\ \A j \in 1 .. i - 1 : m[j] = n[j]
        /\ i <= Len(m) => m[i] < n[i]

\* compareDataWithData(d, e) < 0
DataLess(d, e) == NameLess(d.name, e.name) \/ (d.name = e.name /\ d.digest < e.digest)

IsFullName(q) == q # <<>> /\ q[Len(q)] < FirstGeneric

\* compareQueryWithData(q, d) > 0. A query that is a name without digest comes before
\* the Data of that name.
BeforeQuery(d, q) ==
    IF IsFullName(q)
    THEN \/ NameLess(d.name, Front(q))
         \/ d.name = Front(q) /\ d.digest < Last(q)
    ELSE NameLess(d.name, q)

\* Positions in the table s are 1 .. Len(s), and Len(s) + 1 is end().
lower_bound(s, q) == 1 + Cardinality({i \in 1 .. Len(s) : BeforeQuery(s[i], q)})

\* Name::getSuccessor of a name that is not empty
getSuccessor(q) == [q EXCEPT ![Len(q)] = @ + 1]

getPrefix(q, n) == SubSeq(q, 1, IF n < Len(q) THEN n ELSE Len(q))

\* Interest::matchesData
matchesData(i, d) ==
    IF Len(i.name) = Len(d.name) + 1 THEN i.name = FullName(d) ELSE IsPrefix(i.name, d.name)

\* The positions that Cs::erase and Cs::find look at are first .. last - 1.
RangeFirst(s, q) == lower_bound(s, q)
RangeLast(s, q) == IF q = <<>> THEN Len(s) + 1 ELSE lower_bound(s, getSuccessor(q))

\* Cs::findLeftmost: the first position of [first, last) that satisfies, else last.
findLeftmost(P, first, last) ==
    LET hits == {p \in P : first <= p /\ p < last} IN
    IF hits = {} THEN last ELSE CHOOSE p \in hits : \A r \in hits : p <= r

findRightmostAmongExact(P, first, last) ==
    LET hits == {p \in P : first <= p /\ p < last} IN
    IF hits = {} THEN last ELSE CHOOSE p \in hits : \A r \in hits : r <= p

\* The loop passed over its end condition right == first and runs off the table.
Undefined == 0

\* Mutant: the loop ends at the first child without a match.
FindRightmostGivesUp(s, P, i, first, last) ==
    IF first = last THEN last
    ELSE LET prev == s[last - 1].name
             left == lower_bound(s, getPrefix(prev, Len(i.name) + 1))
         IN  IF Len(prev) = Len(i.name) THEN findRightmostAmongExact(P, first, last)
             ELSE findLeftmost(P, left, last)

\* Cs::findRightmost: children of the Interest name from right to left, the leftmost
\* match under each; the Data of that very name are compared by digest. P are the
\* positions of Data that can satisfy the Interest.
findRightmost(s, P, i, first, last) ==
    LET scan[right \in 0 .. last] ==
            IF right = first THEN last
            ELSE IF right < first THEN Undefined
            ELSE LET prev == s[right - 1].name
                     left == lower_bound(s, getPrefix(prev, Len(i.name) + 1))
                     exact == findRightmostAmongExact(P, first, right)
                     match == findLeftmost(P, left, right)
                 IN  IF Len(prev) = Len(i.name) THEN IF exact = right THEN last ELSE exact
                     ELSE IF match # right THEN match
                     ELSE scan[left]
    IN  scan[last]

\* Cs::find in the table s, of which F are fresh: a position, or RangeLast for a miss.
FindPosition(s, i, F) ==
    LET first == RangeFirst(s, i.name)
        last == RangeLast(s, i.name)
        P == {p \in 1 .. Len(s) : matchesData(i, s[p]) /\ (i.mbf => s[p] \in F)}
    IN  IF i.rightmost THEN findRightmost(s, P, i, first, last)
        ELSE findLeftmost(P, first, last)

Sorted(S) ==
    [p \in 1 .. Cardinality(S) |-> CHOOSE d \in S : Cardinality({e \in S : DataLess(e, d)}) = p - 1]

\* The Data found, as a set of at most one.
Found(S, i, F) ==
    LET s == Sorted(S)
        p == FindPosition(s, i, F)
    IN  IF p \in 1 .. Len(s) /\ p # RangeLast(s, i.name) THEN {s[p]} ELSE {}

-----------------------------------------------------------------------------
(* Reference: what ChildSelector asks for *)

\* Of the Data that satisfy the Interest, those whose full name continues the name
\* of the Interest with the first, or the last, component; the first of them.
Best(S, i, F) ==
    LET matches == {d \in S : /\ IsPrefix(i.name, FullName(d))
                              /\ i.mbf => d \in F}
        child(d) == IF i.name = FullName(d) THEN 0 ELSE FullName(d)[Len(i.name) + 1]
        children == {d \in matches : \A e \in matches :
                        IF i.rightmost THEN child(e) <= child(d) ELSE child(d) <= child(e)}
    IN  {d \in children : \A e \in children : ~DataLess(e, d)}

=============================================================================
