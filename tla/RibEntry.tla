------------------------------ MODULE RibEntry ------------------------------
(***************************************************************************)
(* The RIB: rib/rib-entry, rib/route and the tree that rib/rib keeps.      *)
(*                                                                         *)
(* A RIB is a function from the names that have an entry to the entries.   *)
(* An entry is a record: its routes in the order of their insertion, the   *)
(* counter of routes with the capture flag, its parent in the tree (a set  *)
(* of at most one name) and the faces for which it has an inherited route. *)
(* The children of an entry are the entries whose parent it is. Of an      *)
(* inherited route the code only asks for the face, of a RouteSet, which   *)
(* is ordered by face, for the face and the cost: a RouteSet is a function *)
(* from faces to costs.                                                    *)
(***************************************************************************)
EXTENDS Lists, FiniteSets, FiniteSetsExt, SequencesExt

CONSTANTS
    Name,           \* name prefixes, sequences of components
    Face,           \* face ids
    Origin,         \* who announces a route
    Cost,           \* route costs, integers
    CaptureSpace    \* number of values of m_nRoutesWithCaptureSet, 2^64 in the code

ASSUME RibEntryAssumption ==
    /\ \A n \in Name : n \in Seq(ToSet(n))
    /\ Cost \subseteq Nat
    /\ CaptureSpace \in Nat \ {0}

\* Maps with one key, and with the keys of two maps: f decides where both have a value.
Single(x, value) == [y \in {x} |-> value]
Over(f, g) == [x \in DOMAIN f \cup DOMAIN g |-> IF x \in DOMAIN f THEN f[x] ELSE g[x]]

NoRoutes == [f \in {} |-> 0]      \* an empty RouteSet

\* ev is the expiration event of the route, 0 for none.
Route == [face : Face, origin : Origin, cost : Cost, ci : BOOLEAN, cap : BOOLEAN, ev : Nat]

NewEntry == [routes |-> <<>>, nCapture |-> 0, parent |-> {}, inherited |-> {}]

SameFaceAndOrigin(r, s) == r.face = s.face /\ r.origin = s.origin

findRoute(e, route) == {i \in DOMAIN e.routes : SameFaceAndOrigin(e.routes[i], route)}

hasRoute(e, route) == findRoute(e, route) # {}

hasFaceId(e, f) == \E i \in DOMAIN e.routes : e.routes[i].face = f

hasCapture(e) == e.nCapture > 0

hasChildInheritOnFaceId(e, f) == \E i \in DOMAIN e.routes : e.routes[i].face = f /\ e.routes[i].ci

\* The counter is unsigned: it wraps around when it is taken below zero.
insertRoute(e, route) ==
    [e EXCEPT !.routes = Append(@, route),
              !.nCapture = IF route.cap THEN (@ + 1) % CaptureSpace ELSE @]

eraseRoute(e, route) ==
    LET i == CHOOSE i \in findRoute(e, route) : TRUE
    IN  [e EXCEPT !.routes = RemoveAt(@, i),
                  !.nCapture = IF e.routes[i].cap THEN (@ - 1) % CaptureSpace ELSE @]

(***************************************************************************)
(* Routes of one face, as sets of positions: Cheapest picks the first of   *)
(* the lowest cost, as the loops of the getRouteWithLowestCost functions   *)
(* do.                                                                     *)
(***************************************************************************)
OnFace(e, f) == {i \in DOMAIN e.routes : e.routes[i].face = f}

InheritableOnFace(e, f) == {i \in OnFace(e, f) : e.routes[i].ci}

Precedes(e, i, j) ==
    \/ e.routes[i].cost < e.routes[j].cost
    \/ e.routes[i].cost = e.routes[j].cost /\ i < j

Cheapest(e, S) == e.routes[CHOOSE i \in S : \A j \in S \ {i} : Precedes(e, i, j)]

getRouteWithLowestCostByFaceId(e, f) == Cheapest(e, OnFace(e, f))

getRouteWithLowestCostAndChildInheritByFaceId(e, f) == Cheapest(e, InheritableOnFace(e, f))

\* nth_element sorts up to three elements by insertion, so that it keeps the order
\* of routes of equal cost.
getRouteWithSecondLowestCostByFaceId(e, f) ==
    LET S == OnFace(e, f)
    IN  e.routes[CHOOSE i \in S : Cardinality({j \in S : Precedes(e, j, i)}) = 1]

(***************************************************************************)
(* The tree                                                                *)
(***************************************************************************)
children(rib, n) == {c \in DOMAIN rib : rib[c].parent = {n}}

\* The entries from a name upwards, along the pointers to the parents.
AncestorsAndSelf(rib, n) ==
    LET up[i \in 0 .. Len(n)] == IF i = 0 THEN {n} ELSE UNION {rib[m].parent : m \in up[i - 1]}
    IN  UNION {up[i] : i \in 0 .. Len(n)}

findParent(rib, n) ==
    LET above == {m \in DOMAIN rib : IsStrictPrefix(m, n)}
    IN  {m \in above : \A k \in above : Len(k) <= Len(m)}

Below(rib, n) == {m \in DOMAIN rib : IsPrefix(n, m)}

\* Mutant: routes are inherited whether or not they have CHILD_INHERIT.
AllAncestorRoutes(rib, parent) ==
    LET above == UNION {AncestorsAndSelf(rib, p) : p \in parent}
    IN  [f \in {f \in Face : \E m \in above : hasFaceId(rib[m], f)} |-> 0]

(* The routes that an entry with the given parent inherits: of every ancestor
   up to the first one with capture the routes with CHILD_INHERIT. A set ordered
   by face keeps the route that was inserted first: that of the nearest ancestor,
   and the oldest there. *)
getAncestorRoutes(rib, parent) ==
    LET above == UNION {AncestorsAndSelf(rib, p) : p \in parent}
        open == {m \in above : \A k \in above : hasCapture(rib[k]) => Len(k) <= Len(m)}
        giving(f) == {m \in open : hasChildInheritOnFaceId(rib[m], f)}
        nearest(f) == CHOOSE m \in giving(f) : \A k \in giving(f) : Len(k) <= Len(m)
        cost(e, f) == e.routes[Min(InheritableOnFace(e, f))].cost
    IN  [f \in {f \in Face : giving(f) # {}} |-> cost(rib[nearest(f)], f)]

\* An existing route is overwritten; the counter of routes with capture is left as it was.
InsertIntoEntry(e, route) ==
    LET i == CHOOSE i \in findRoute(e, route) : TRUE
    IN  IF hasRoute(e, route) THEN [e EXCEPT !.routes[i] = route] ELSE insertRoute(e, route)

\* Mutant: the descendants stay where they are.
InsertWithoutAdoption(rib, n, route) ==
    IF n \in DOMAIN rib THEN [rib EXCEPT ![n] = InsertIntoEntry(@, route)]
    ELSE Over(rib, Single(n, [insertRoute(NewEntry, route) EXCEPT !.parent = findParent(rib, n)]))

(* Rib::insert. A new entry takes its place between its parent and those of the
   parent's children that are below it. *)
Insert(rib, n, route) ==
    LET parent == findParent(rib, n)
        entry == [insertRoute(NewEntry, route) EXCEPT !.parent = parent]
        adopted == {m \in Below(rib, n) : rib[m].parent = parent}
    IN  IF n \in DOMAIN rib THEN [rib EXCEPT ![n] = InsertIntoEntry(@, route)]
        ELSE Over(Single(n, entry),
                  [m \in DOMAIN rib |-> IF m \in adopted THEN [rib[m] EXCEPT !.parent = {n}]
                                                        ELSE rib[m]])

\* Rib::erase and eraseEntry: the children of an entry without routes move up.
Erase(rib, n, route) ==
    IF n \notin DOMAIN rib \/ ~hasRoute(rib[n], route) THEN rib
    ELSE LET e == eraseRoute(rib[n], route)
             others == DOMAIN rib \ {n}
         IN  IF e.routes # <<>> THEN [rib EXCEPT ![n] = e]
             ELSE [m \in others |-> IF rib[m].parent = {n}
                                      THEN [rib[m] EXCEPT !.parent = e.parent]
                                      ELSE rib[m]]

=============================================================================
