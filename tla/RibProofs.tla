----------------------------- MODULE RibProofs ------------------------------
(***************************************************************************)
(* Theorems about RibManager, for any names, faces, origins and costs, any *)
(* number of requests and any flags: the tree and the face map agree with  *)
(* the names, updates never get stuck, the FIB has no next hop that the    *)
(* RIB does not know and no expiration of a route is forgotten.            *)
(***************************************************************************)
EXTENDS RibManager, ListFacts

(***************************************************************************)
(* Names, prefixes and parents                                             *)
(***************************************************************************)
\* What IsPrefix says of two names, component by component.
LEMMA PrefixMeans ==
    ASSUME NEW m \in Name, NEW n \in Name
    PROVE  /\ Len(m) \in Nat
           /\ m = n <=> Len(m) = Len(n) /\ \A i \in 1 .. Len(m) : m[i] = n[i]
           /\ IsPrefix(m, n) <=> Len(m) <= Len(n) /\ \A i \in 1 .. Len(m) : m[i] = n[i]
<1> DEFINE S == ToSet(m)
           T == ToSet(n)
<1>1. m \in Seq(S) /\ n \in Seq(T)
  BY RibEntryAssumption
<1> HIDE DEF S, T
<1>2. Len(m) \in Nat /\ Len(n) \in Nat
  BY <1>1, LenProperties, Zenon
<1>3. m = n <=> Len(m) = Len(n) /\ \A i \in 1 .. Len(m) : m[i] = n[i]
  <2>1. m = [i \in 1 .. Len(m) |-> m[i]] /\ n = [i \in 1 .. Len(n) |-> n[i]]
    BY <1>1
  <2> QED
    BY <2>1
<1>4. ASSUME Len(m) <= Len(n)
      PROVE  SubSeq(m, 1, Len(m)) = SubSeq(n, 1, Len(m))
               <=> \A i \in 1 .. Len(m) : m[i] = n[i]
  <2>1. SubSeq(m, 1, Len(m)) = [i \in 1 .. Len(m) |-> m[i]]
    BY <1>1, <1>2
  <2>2. SubSeq(n, 1, Len(m)) = [i \in 1 .. Len(m) |-> n[i]]
    BY <1>1, <1>2, <1>4
  <2> QED
    BY <2>1, <2>2
<1> QED
  BY <1>2, <1>3, <1>4 DEF IsPrefix

LEMMA PrefixFacts ==
    ASSUME NEW k \in Name, NEW m \in Name, NEW n \in Name
    PROVE  /\ IsPrefix(n, n)
           /\ IsStrictPrefix(m, n) => Len(m) < Len(n) /\ IsPrefix(m, n)
           /\ IsPrefix(k, m) /\ IsPrefix(m, n) => IsPrefix(k, n)
           /\ IsPrefix(k, n) /\ IsPrefix(m, n) /\ Len(k) <= Len(m) => IsPrefix(k, m)
           /\ IsPrefix(m, n) /\ Len(m) >= Len(n) => m = n
<1>1. /\ Len(k) \in Nat
      /\ Len(m) \in Nat
      /\ Len(n) \in Nat
  BY PrefixMeans
<1>2. /\ m = n <=> Len(m) = Len(n) /\ \A i \in 1 .. Len(m) : m[i] = n[i]
      /\ IsPrefix(m, n) <=> Len(m) <= Len(n) /\ \A i \in 1 .. Len(m) : m[i] = n[i]
      /\ IsPrefix(k, n) <=> Len(k) <= Len(n) /\ \A i \in 1 .. Len(k) : k[i] = n[i]
      /\ IsPrefix(k, m) <=> Len(k) <= Len(m) /\ \A i \in 1 .. Len(k) : k[i] = m[i]
      /\ IsPrefix(n, n) <=> Len(n) <= Len(n) /\ \A i \in 1 .. Len(n) : n[i] = n[i]
  BY PrefixMeans
<1> QED
  BY <1>1, <1>2 DEF IsStrictPrefix

\* A non-empty set of names that are not longer than a bound has a longest one.
LEMMA LongestName ==
    ASSUME NEW S, S \subseteq Name, S # {}, NEW b \in Nat, \A m \in S : Len(m) <= b
    PROVE  \E m \in S : \A k \in S : Len(k) <= Len(m)
<1> DEFINE T == {b - Len(m) : m \in S}
<1>1. \A m \in S : Len(m) \in Nat
  BY PrefixMeans
<1>2. T \subseteq Nat /\ T # {}
  BY <1>1
<1>3. PICK x \in T : \A y \in T : x <= y
  BY <1>2, LeastNumber, Zenon
<1>4. PICK m \in S : x = b - Len(m)
  BY <1>3
<1>5. ASSUME NEW k \in S PROVE Len(k) <= Len(m)
  <2>1. b - Len(k) \in T
    OBVIOUS
  <2>2. x <= b - Len(k)
    BY <2>1, <1>3
  <2>3. Len(k) \in Nat /\ Len(m) \in Nat
    BY <1>1
  <2> QED
    BY <2>2, <2>3, <1>4
<1> QED
  BY <1>5

\* findParent for a set of names.
ParentIn(D, n) ==
    LET above == {m \in D : IsStrictPrefix(m, n)}
    IN  {m \in above : \A k \in above : Len(k) <= Len(m)}

\* The parent is the one name above that has all the others above it.
LEMMA ParentMeans ==
    ASSUME NEW D, D \subseteq Name, NEW n \in Name
    PROVE  /\ \A m : m \in ParentIn(D, n) <=>
                /\ m \in D
                /\ IsStrictPrefix(m, n)
                /\ \A k \in D : IsStrictPrefix(k, n) => IsPrefix(k, m)
           /\ \A m, k \in ParentIn(D, n) : m = k
           /\ \A k \in D : IsStrictPrefix(k, n) => ParentIn(D, n) # {}
<1> DEFINE above == {m \in D : IsStrictPrefix(m, n)}
<1>1. \A m \in above : m \in Name /\ Len(m) \in Nat /\ Len(m) <= Len(n) /\ IsPrefix(m, n)
  BY PrefixMeans, PrefixFacts
<1>2. ParentIn(D, n) = {m \in above : \A k \in above : Len(k) <= Len(m)}
  BY DEF ParentIn
<1>3. ASSUME NEW m \in above, NEW k \in above
      PROVE  Len(k) <= Len(m) <=> IsPrefix(k, m)
  BY <1>1, PrefixFacts, PrefixMeans
<1>4. ASSUME NEW m \in above, NEW k \in above, Len(k) <= Len(m), Len(m) <= Len(k)
      PROVE  m = k
  BY <1>1, <1>3, <1>4, PrefixFacts
<1>5. ASSUME above # {} PROVE ParentIn(D, n) # {}
  <2>1. above \subseteq Name /\ Len(n) \in Nat /\ \A m \in above : Len(m) <= Len(n)
    BY <1>1, PrefixMeans
  <2>2. \E m \in above : \A k \in above : Len(k) <= Len(m)
    <3> HIDE DEF above
    <3> QED
      BY <2>1, <1>5, LongestName, Zenon
  <2> QED
    BY <2>2, <1>2
<1> QED
  BY <1>2, <1>3, <1>4, <1>5

\* A name that joins takes its place above the names that shared its parent.
LEMMA ParentJoined ==
    ASSUME NEW D, D \subseteq Name, NEW n \in Name, n \notin D
    PROVE  LET E == D \cup {n}
           IN  /\ ParentIn(E, n) = ParentIn(D, n)
               /\ \A m \in D :
                     ParentIn(E, m) = IF IsPrefix(n, m) /\ ParentIn(D, m) = ParentIn(D, n)
                                        THEN {n} ELSE ParentIn(D, m)
<1> DEFINE E == D \cup {n}
<1>1. ~IsStrictPrefix(n, n)
  BY DEF IsStrictPrefix
<1>2. ParentIn(E, n) = ParentIn(D, n)
  BY <1>1 DEF ParentIn
<1>3. ASSUME NEW m \in D
      PROVE  ParentIn(E, m) = IF IsPrefix(n, m) /\ ParentIn(D, m) = ParentIn(D, n)
                                THEN {n} ELSE ParentIn(D, m)
  <2>0. m \in Name /\ E \subseteq Name
    OBVIOUS
  <2>1. /\ \A k : k \in ParentIn(E, m) <=>
              /\ k \in E
              /\ IsStrictPrefix(k, m)
              /\ \A j \in E : IsStrictPrefix(j, m) => IsPrefix(j, k)
        /\ \A k, j \in ParentIn(E, m) : k = j
    BY ParentMeans, <2>0
  <2>2. /\ \A k : k \in ParentIn(D, m) <=>
              /\ k \in D
              /\ IsStrictPrefix(k, m)
              /\ \A j \in D : IsStrictPrefix(j, m) => IsPrefix(j, k)
        /\ \A k, j \in ParentIn(D, m) : k = j
        /\ \A k \in D : IsStrictPrefix(k, m) => ParentIn(D, m) # {}
    BY ParentMeans
  <2>3. /\ \A k : k \in ParentIn(D, n) <=>
              /\ k \in D
              /\ IsStrictPrefix(k, n)
              /\ \A j \in D : IsStrictPrefix(j, n) => IsPrefix(j, k)
        /\ \A k, j \in ParentIn(D, n) : k = j
        /\ \A k \in D : IsStrictPrefix(k, n) => ParentIn(D, n) # {}
    BY ParentMeans
  <2>4. CASE ~IsPrefix(n, m)
    BY <2>4 DEF ParentIn, IsStrictPrefix
  <2>5. CASE IsPrefix(n, m) /\ ParentIn(D, m) = ParentIn(D, n)
    <3>1. IsStrictPrefix(n, m)
      BY <2>5 DEF IsStrictPrefix
    <3>2. ASSUME NEW j \in D, IsStrictPrefix(j, m) PROVE IsPrefix(j, n)
      <4>1. PICK p : p \in ParentIn(D, m)
        BY <2>2, <3>2
      <4>2. p \in D /\ IsStrictPrefix(p, n) /\ IsPrefix(j, p)
        BY <4>1, <2>2, <2>3, <2>5, <3>2
      <4> QED
        BY <4>2, PrefixFacts
    <3>3. n \in ParentIn(E, m)
      BY <3>1, <3>2, <2>1, PrefixFacts
    <3> QED
      BY <3>3, <2>1, <2>5
  <2>6. CASE IsPrefix(n, m) /\ ParentIn(D, m) # ParentIn(D, n)
    <3>1. IsStrictPrefix(n, m)
      BY <2>6 DEF IsStrictPrefix
    <3>2. \A j \in D : IsStrictPrefix(j, n) => IsStrictPrefix(j, m)
      BY <3>1, PrefixFacts, PrefixMeans DEF IsStrictPrefix
    <3>3. PICK p : p \in ParentIn(D, m)
      BY <2>2, <2>3, <3>2, <2>6
    <3>4. p \in D /\ p \in Name /\ IsStrictPrefix(p, m)
      BY <3>3, <2>2
    <3>5. ASSUME ~IsPrefix(n, p) PROVE FALSE
      <4>1. IsPrefix(p, n) /\ p # n
        BY <3>1, <3>4, <3>5, PrefixFacts, PrefixMeans DEF IsStrictPrefix
      <4>2. IsStrictPrefix(p, n)
        BY <4>1 DEF IsStrictPrefix
      <4>3. p \in ParentIn(D, n)
        BY <4>2, <3>2, <3>3, <3>4, <2>2, <2>3
      <4>4. ParentIn(D, m) = {p} /\ ParentIn(D, n) = {p}
        BY <4>3, <3>3, <2>2, <2>3
      <4> QED
        BY <4>4, <2>6
    <3>6. p \in ParentIn(E, m)
      BY <3>3, <3>4, <3>5, <2>1, <2>2
    <3>7. ParentIn(E, m) = {p}
      BY <3>6, <2>1
    <3>8. ParentIn(D, m) = {p}
      BY <3>3, <2>2
    <3> QED
      BY <3>7, <3>8, <2>6
  <2> QED
    BY <2>4, <2>5, <2>6
<1> QED
  BY <1>2, <1>3

\* The names below a name that leaves get its parent.
LEMMA ParentLeft ==
    ASSUME NEW D, D \subseteq Name, NEW n \in D
    PROVE  LET E == D \ {n}
           IN  \A m \in E : ParentIn(E, m) = IF ParentIn(D, m) = {n} THEN ParentIn(D, n)
                                                                   ELSE ParentIn(D, m)
<1> DEFINE E == D \ {n}
<1> SUFFICES ASSUME NEW m \in E
             PROVE  ParentIn(E, m) = IF ParentIn(D, m) = {n} THEN ParentIn(D, n)
                                                             ELSE ParentIn(D, m)
  OBVIOUS
<1>0. m \in Name /\ m # n /\ n \in Name /\ E \subseteq Name
  OBVIOUS
<1>1. /\ \A k : k \in ParentIn(E, m) <=>
            /\ k \in E
            /\ IsStrictPrefix(k, m)
            /\ \A j \in E : IsStrictPrefix(j, m) => IsPrefix(j, k)
      /\ \A k, j \in ParentIn(E, m) : k = j
      /\ \A k \in E : IsStrictPrefix(k, m) => ParentIn(E, m) # {}
  BY ParentMeans, <1>0
<1>2. /\ \A k : k \in ParentIn(D, m) <=>
            /\ k \in D
            /\ IsStrictPrefix(k, m)
            /\ \A j \in D : IsStrictPrefix(j, m) => IsPrefix(j, k)
      /\ \A k, j \in ParentIn(D, m) : k = j
      /\ \A k \in D : IsStrictPrefix(k, m) => ParentIn(D, m) # {}
  BY ParentMeans, <1>0
<1>3. /\ \A k : k \in ParentIn(D, n) <=>
            /\ k \in D
            /\ IsStrictPrefix(k, n)
            /\ \A j \in D : IsStrictPrefix(j, n) => IsPrefix(j, k)
      /\ \A k, j \in ParentIn(D, n) : k = j
  BY ParentMeans, <1>0
<1>4. CASE ParentIn(D, m) = {n}
  <2>1. IsStrictPrefix(n, m) /\ \A j \in D : IsStrictPrefix(j, m) => IsPrefix(j, n)
    BY <1>2, <1>4
  <2>2. ASSUME NEW k \in E PROVE IsStrictPrefix(k, m) <=> IsStrictPrefix(k, n)
    <3>1. k \in Name /\ k # n
      OBVIOUS
    <3>2. IsStrictPrefix(k, m) => IsStrictPrefix(k, n)
      BY <2>1, <3>1 DEF IsStrictPrefix
    <3>3. IsStrictPrefix(k, n) => IsStrictPrefix(k, m)
      BY <2>1, <3>1, <1>0, PrefixFacts, PrefixMeans DEF IsStrictPrefix
    <3> QED
      BY <3>2, <3>3
  <2>3. ~IsStrictPrefix(n, n)
    BY DEF IsStrictPrefix
  <2>4. \A k : k \in ParentIn(E, m) <=> k \in ParentIn(D, n)
    BY <1>1, <1>3, <2>2, <2>3
  <2> QED
    BY <2>4, <1>4
<1>5. CASE ParentIn(D, m) # {n}
  <2>1. CASE ~IsStrictPrefix(n, m)
    BY <2>1, <1>5 DEF ParentIn
  <2>2. CASE IsStrictPrefix(n, m)
    <3>1. PICK p : p \in ParentIn(D, m)
      BY <1>2, <2>2
    <3>2. ParentIn(D, m) = {p} /\ p # n /\ p \in E
      BY <3>1, <1>2, <1>5
    <3>3. p \in ParentIn(E, m)
      BY <3>1, <3>2, <1>1, <1>2
    <3> QED
      BY <3>2, <3>3, <1>1, <1>5
  <2> QED
    BY <2>1, <2>2
<1> QED
  BY <1>4, <1>5

(***************************************************************************)
(* Entries and their routes. An entry has at most one route for a face and *)
(* an origin, so that its routes are a set.                                *)
(***************************************************************************)
Entry == [routes : Seq(Route), nCapture : Nat, parent : SUBSET Name, inherited : SUBSET Face]

\* The route of a request: an unregistration names only the face and the origin.
Target == Route \cup [face : Face, origin : Origin]

RoutesOf(e) == ToSet(e.routes)

RoutesOnce(e) ==
    \A i, j \in DOMAIN e.routes : SameFaceAndOrigin(e.routes[i], e.routes[j]) => i = j

LEMMA SameIsEquivalence ==
    ASSUME NEW x, NEW y, NEW z
    PROVE  /\ SameFaceAndOrigin(x, x)
           /\ SameFaceAndOrigin(x, y) <=> SameFaceAndOrigin(y, x)
           /\ SameFaceAndOrigin(x, y) /\ SameFaceAndOrigin(y, z) => SameFaceAndOrigin(x, z)
BY DEF SameFaceAndOrigin

LEMMA EntryFacts ==
    ASSUME NEW e \in Entry, NEW r, NEW f
    PROVE  /\ DOMAIN e.routes = 1 .. Len(e.routes)
           /\ Len(e.routes) \in Nat
           /\ RoutesOf(e) \subseteq Route
           /\ hasRoute(e, r) <=> \E x \in RoutesOf(e) : SameFaceAndOrigin(x, r)
           /\ hasFaceId(e, f) <=> \E x \in RoutesOf(e) : x.face = f
           /\ e.routes = <<>> <=> RoutesOf(e) = {}
<1>1. e.routes \in Seq(Route)
  BY DEF Entry
<1>2. DOMAIN e.routes = 1 .. Len(e.routes) /\ Len(e.routes) \in Nat
  BY <1>1
<1>3. RoutesOf(e) \subseteq Route
  BY <1>1, <1>2 DEF RoutesOf, ToSet
<1>4. e.routes = <<>> <=> RoutesOf(e) = {}
  <2>1. e.routes = <<>> <=> Len(e.routes) = 0
    BY <1>1
  <2>2. Len(e.routes) = 0 => RoutesOf(e) = {}
    BY <1>2 DEF RoutesOf, ToSet
  <2>3. Len(e.routes) # 0 => e.routes[1] \in RoutesOf(e)
    BY <1>2 DEF RoutesOf, ToSet
  <2> QED
    BY <2>1, <2>2, <2>3
<1> QED
  BY <1>2, <1>3, <1>4 DEF RoutesOf, ToSet, hasRoute, hasFaceId, findRoute

LEMMA CaptureCount ==
    ASSUME NEW k \in Nat
    PROVE  (k + 1) % CaptureSpace \in Nat /\ (k - 1) % CaptureSpace \in Nat
BY RibEntryAssumption

LEMMA InsertedEntry ==
    ASSUME NEW e \in Entry, RoutesOnce(e), NEW route \in Route
    PROVE  LET d == InsertIntoEntry(e, route)
           IN  /\ d \in Entry
               /\ RoutesOnce(d)
               /\ d.parent = e.parent
               /\ d.inherited = e.inherited
               /\ RoutesOf(d) = {x \in RoutesOf(e) : ~SameFaceAndOrigin(x, route)} \cup {route}
<1> DEFINE d == InsertIntoEntry(e, route)
<1>1. /\ e.routes \in Seq(Route)
      /\ DOMAIN e.routes = 1 .. Len(e.routes)
      /\ Len(e.routes) \in Nat
      /\ e.nCapture \in Nat
  BY EntryFacts DEF Entry
<1>2. CASE hasRoute(e, route)
  <2> DEFINE i == CHOOSE i \in findRoute(e, route) : TRUE
  <2>1. i \in DOMAIN e.routes /\ SameFaceAndOrigin(e.routes[i], route)
    BY <1>2 DEF hasRoute, findRoute
  <2>2. d = [e EXCEPT !.routes[i] = route]
    BY <1>2 DEF InsertIntoEntry
  <2> HIDE DEF i, d
  <2>3. /\ d \in Entry
        /\ d.parent = e.parent
        /\ d.inherited = e.inherited
        /\ d.routes = [e.routes EXCEPT ![i] = route]
    <3>1. [e.routes EXCEPT ![i] = route] \in Seq(Route)
      BY <2>1, <1>1
    <3>2. d = [e EXCEPT !.routes = [e.routes EXCEPT ![i] = route]]
      BY <2>2
    <3> QED
      BY <3>1, <3>2 DEF Entry
  <2>4. /\ DOMAIN d.routes = DOMAIN e.routes
        /\ d.routes[i] = route
        /\ \A j \in DOMAIN e.routes : j # i => d.routes[j] = e.routes[j]
    BY <2>1, <2>3
  <2>5. \A j \in DOMAIN e.routes : j # i => ~SameFaceAndOrigin(e.routes[j], route)
    BY <2>1, SameIsEquivalence DEF RoutesOnce
  <2>6. RoutesOnce(d)
    BY <2>4, <2>5, SameIsEquivalence DEF RoutesOnce
  <2>7. RoutesOf(d) = {x \in RoutesOf(e) : ~SameFaceAndOrigin(x, route)} \cup {route}
    BY <2>1, <2>4, <2>5 DEF RoutesOf, ToSet
  <2> QED
    BY <2>3, <2>6, <2>7 DEF d
<1>3. CASE ~hasRoute(e, route)
  <2>1. d = insertRoute(e, route)
    BY <1>3 DEF InsertIntoEntry
  <2> HIDE DEF d
  <2>2. /\ Append(e.routes, route) \in Seq(Route)
        /\ DOMAIN Append(e.routes, route) = 1 .. Len(e.routes) + 1
        /\ Append(e.routes, route)[Len(e.routes) + 1] = route
        /\ \A j \in DOMAIN e.routes : Append(e.routes, route)[j] = e.routes[j]
    BY <1>1
  <2>3. /\ d \in Entry
        /\ d.parent = e.parent
        /\ d.inherited = e.inherited
        /\ d.routes = Append(e.routes, route)
    BY <2>1, <2>2, <1>1, CaptureCount DEF Entry, insertRoute
  <2>4. \A j \in DOMAIN e.routes : ~SameFaceAndOrigin(e.routes[j], route)
    BY <1>3 DEF hasRoute, findRoute
  <2>5. RoutesOnce(d)
    BY <2>2, <2>3, <2>4, <1>1, SameIsEquivalence DEF RoutesOnce
  <2>6. RoutesOf(d) = {x \in RoutesOf(e) : ~SameFaceAndOrigin(x, route)} \cup {route}
    BY <2>2, <2>3, <2>4, <1>1 DEF RoutesOf, ToSet
  <2> QED
    BY <2>3, <2>5, <2>6 DEF d
<1> QED
  BY <1>2, <1>3

LEMMA RemoveAtMembers ==
    ASSUME NEW T, NEW q \in Seq(T), NEW i \in 1 .. Len(q)
    PROVE  /\ RemoveAt(q, i) \in Seq(T)
           /\ Len(RemoveAt(q, i)) = Len(q) - 1
           /\ \A j \in 1 .. Len(q) - 1 : RemoveAt(q, i)[j] = IF j < i THEN q[j] ELSE q[j + 1]
<1> DEFINE a == SubSeq(q, 1, i - 1)
           b == SubSeq(q, i + 1, Len(q))
<1>1. /\ a \in Seq(T)
      /\ Len(a) = i - 1
      /\ \A j \in 1 .. i - 1 : a[j] = q[j]
  OBVIOUS
<1>2. /\ b \in Seq(T)
      /\ Len(b) = Len(q) - i
      /\ \A j \in 1 .. Len(q) - i : b[j] = q[i + j]
  OBVIOUS
<1> HIDE DEF a, b
<1>3. /\ a \o b \in Seq(T)
      /\ Len(a \o b) = Len(q) - 1
  <2>0. a \in Seq(T) /\ b \in Seq(T)
    BY <1>1, <1>2
  <2>1. a \o b \in Seq(T) /\ Len(a \o b) = Len(a) + Len(b)
    BY <2>0, ConcatProperties
  <2>2. Len(q) \in Nat
    OBVIOUS
  <2> QED
    BY <2>1, <2>2, <1>1, <1>2
<1>4. ASSUME NEW j \in 1 .. Len(q) - 1 PROVE (a \o b)[j] = IF j < i THEN q[j] ELSE q[j + 1]
  <2>1. CASE j < i
    BY <2>1, <1>1, <1>2
  <2>2. CASE ~(j < i)
    <3>1. (a \o b)[j] = b[j - (i - 1)]
      BY <2>2, <1>1, <1>2
    <3>2. j - (i - 1) \in 1 .. Len(q) - i /\ i + (j - (i - 1)) = j + 1
      BY <2>2
    <3> QED
      BY <2>2, <3>1, <3>2, <1>2
  <2> QED
    BY <2>1, <2>2
<1> QED
  BY <1>3, <1>4 DEF RemoveAt, a, b

LEMMA ErasedEntry ==
    ASSUME NEW e \in Entry, RoutesOnce(e), NEW route, hasRoute(e, route)
    PROVE  LET d == eraseRoute(e, route)
           IN  /\ d \in Entry
               /\ RoutesOnce(d)
               /\ d.parent = e.parent
               /\ d.inherited = e.inherited
               /\ RoutesOf(d) = {x \in RoutesOf(e) : ~SameFaceAndOrigin(x, route)}
               /\ Len(d.routes) = Len(e.routes) - 1
<1> DEFINE d == eraseRoute(e, route)
           i == CHOOSE i \in findRoute(e, route) : TRUE
<1>1. /\ e.routes \in Seq(Route)
      /\ DOMAIN e.routes = 1 .. Len(e.routes)
      /\ Len(e.routes) \in Nat
      /\ e.nCapture \in Nat
  BY EntryFacts DEF Entry
<1>2. i \in 1 .. Len(e.routes) /\ SameFaceAndOrigin(e.routes[i], route)
  BY <1>1 DEF hasRoute, findRoute
<1>3. d = [e EXCEPT !.routes = RemoveAt(@, i),
                    !.nCapture = IF e.routes[i].cap THEN (@ - 1) % CaptureSpace ELSE @]
  BY DEF eraseRoute
<1> HIDE DEF i, d
<1>4. /\ RemoveAt(e.routes, i) \in Seq(Route)
      /\ Len(RemoveAt(e.routes, i)) = Len(e.routes) - 1
      /\ \A j \in 1 .. Len(e.routes) - 1 :
            RemoveAt(e.routes, i)[j] = IF j < i THEN e.routes[j] ELSE e.routes[j + 1]
  BY <1>1, <1>2, RemoveAtMembers
<1>5. /\ d \in Entry
      /\ d.parent = e.parent
      /\ d.inherited = e.inherited
      /\ d.routes = RemoveAt(e.routes, i)
  BY <1>1, <1>3, <1>4, CaptureCount DEF Entry
<1>6. DOMAIN d.routes = 1 .. Len(e.routes) - 1
  BY <1>4, <1>5
<1> DEFINE was(j) == IF j < i THEN j ELSE j + 1
<1>7. \A j \in DOMAIN d.routes : /\ was(j) \in DOMAIN e.routes \ {i}
                                 /\ d.routes[j] = e.routes[was(j)]
  BY <1>1, <1>2, <1>4, <1>5, <1>6
<1>8. \A j, k \in DOMAIN d.routes : was(j) = was(k) => j = k
  BY <1>1, <1>2, <1>6
<1>9. ASSUME NEW k \in DOMAIN e.routes \ {i} PROVE \E j \in DOMAIN d.routes : was(j) = k
  <2>1. CASE k < i
    BY <2>1, <1>1, <1>2, <1>6
  <2>2. CASE ~(k < i)
    <3>1. k - 1 \in DOMAIN d.routes /\ was(k - 1) = k
      BY <2>2, <1>1, <1>2, <1>6
    <3> QED
      BY <3>1
  <2> QED
    BY <2>1, <2>2
<1>10. \A j \in DOMAIN e.routes : j # i => ~SameFaceAndOrigin(e.routes[j], route)
  BY <1>1, <1>2, SameIsEquivalence DEF RoutesOnce
<1> HIDE DEF was
<1>11. RoutesOnce(d)
  BY <1>7, <1>8 DEF RoutesOnce
<1>12. RoutesOf(d) = {x \in RoutesOf(e) : ~SameFaceAndOrigin(x, route)}
  <2>1. ASSUME NEW x \in RoutesOf(d)
        PROVE  x \in RoutesOf(e) /\ ~SameFaceAndOrigin(x, route)
    BY <1>7, <1>10 DEF RoutesOf, ToSet
  <2>2. ASSUME NEW x \in RoutesOf(e), ~SameFaceAndOrigin(x, route) PROVE x \in RoutesOf(d)
    <3>1. PICK k \in DOMAIN e.routes : x = e.routes[k]
      BY DEF RoutesOf, ToSet
    <3>2. PICK j \in DOMAIN d.routes : was(j) = k
      BY <3>1, <2>2, <1>2, <1>9
    <3> QED
      BY <3>1, <3>2, <1>7 DEF RoutesOf, ToSet
  <2> QED
    BY <2>1, <2>2
<1> QED
  BY <1>4, <1>5, <1>11, <1>12 DEF d

(***************************************************************************)
(* The RIB                                                                 *)
(***************************************************************************)
IsRib(rib) ==
    /\ DOMAIN rib \subseteq Name
    /\ \A n \in DOMAIN rib : rib[n] \in Entry /\ RoutesOnce(rib[n])

IsTree(rib) ==
    \A n \in DOMAIN rib : rib[n].parent = findParent(rib, n) /\ rib[n].routes # <<>>

\* What a name has, with or without an entry.
RoutesAt(rib, n) == IF n \in DOMAIN rib THEN RoutesOf(rib[n]) ELSE {}
InheritedAt(rib, n) == IF n \in DOMAIN rib THEN rib[n].inherited ELSE {}

LEMMA FindParentIn ==
    ASSUME NEW rib, NEW n
    PROVE  findParent(rib, n) = ParentIn(DOMAIN rib, n)
BY DEF findParent, ParentIn

LEMMA RibFacts ==
    ASSUME NEW rib, IsRib(rib)
    PROVE  /\ \A n : RoutesAt(rib, n) \subseteq Route
           /\ \A n : InheritedAt(rib, n) \subseteq Face
           /\ \A n : \A x, y \in RoutesAt(rib, n) : SameFaceAndOrigin(x, y) => x = y
           /\ IsTree(rib) => \A n : n \in DOMAIN rib <=> RoutesAt(rib, n) # {}
<1>1. \A n \in DOMAIN rib : /\ rib[n] \in Entry
                            /\ RoutesOnce(rib[n])
                            /\ rib[n].inherited \subseteq Face
  BY DEF IsRib, Entry
<1>2. \A n \in DOMAIN rib : RoutesOf(rib[n]) \subseteq Route
  BY <1>1, EntryFacts
<1>3. \A n \in DOMAIN rib : \A x, y \in RoutesOf(rib[n]) : SameFaceAndOrigin(x, y) => x = y
  BY <1>1 DEF RoutesOnce, RoutesOf, ToSet
<1>4. \A n \in DOMAIN rib : rib[n].routes # <<>> => RoutesOf(rib[n]) # {}
  BY <1>1, EntryFacts
<1> QED
  BY <1>1, <1>2, <1>3, <1>4 DEF RoutesAt, InheritedAt, IsTree

LEMMA InsertedNewEntry ==
    ASSUME NEW p \in SUBSET Name, NEW route \in Route
    PROVE  LET e == [insertRoute(NewEntry, route) EXCEPT !.parent = p]
           IN  /\ e \in Entry
               /\ RoutesOnce(e)
               /\ e.parent = p
               /\ e.inherited = {}
               /\ RoutesOf(e) = {route}
               /\ e.routes # <<>>
<1> DEFINE e == [insertRoute(NewEntry, route) EXCEPT !.parent = p]
<1>1. Append(<<>>, route) = <<route>> /\ <<route>> \in Seq(Route)
  OBVIOUS
<1>2. 0 \in Nat /\ (0 + 1) % CaptureSpace \in Nat
  BY CaptureCount
<1>3. /\ e \in Entry
      /\ e.parent = p
      /\ e.inherited = {}
      /\ e.routes = <<route>>
  BY <1>1, <1>2 DEF Entry, insertRoute, NewEntry
<1> HIDE DEF e
<1>4. RoutesOnce(e) /\ RoutesOf(e) = {route} /\ e.routes # <<>>
  BY <1>3 DEF RoutesOnce, RoutesOf, ToSet
<1> QED
  BY <1>3, <1>4 DEF e

\* Rib::insert keeps the tree, and changes the routes of the one name.
LEMMA InsertedRib ==
    ASSUME NEW rib, IsRib(rib), IsTree(rib), NEW n \in Name, NEW route \in Route
    PROVE  LET d == Insert(rib, n, route)
           IN  /\ IsRib(d)
               /\ IsTree(d)
               /\ DOMAIN d = DOMAIN rib \cup {n}
               /\ \A m : RoutesAt(d, m) =
                    IF m = n THEN {x \in RoutesAt(rib, n) : ~SameFaceAndOrigin(x, route)}
                                     \cup {route}
                             ELSE RoutesAt(rib, m)
               /\ \A m : InheritedAt(d, m) = InheritedAt(rib, m)
<1> DEFINE d == Insert(rib, n, route)
           D == DOMAIN rib
<1>0. D \subseteq Name
  BY DEF IsRib
<1>1. CASE n \in D
  <2> DEFINE e == InsertIntoEntry(rib[n], route)
  <2>1. d = [rib EXCEPT ![n] = e]
    BY <1>1 DEF Insert
  <2>2. rib[n] \in Entry /\ RoutesOnce(rib[n])
    BY <1>1 DEF IsRib
  <2>3. /\ e \in Entry
        /\ RoutesOnce(e)
        /\ e.parent = rib[n].parent
        /\ e.inherited = rib[n].inherited
        /\ RoutesOf(e) = {x \in RoutesOf(rib[n]) : ~SameFaceAndOrigin(x, route)} \cup {route}
    BY <2>2, InsertedEntry
  <2>4. e.routes # <<>>
    BY <2>3, EntryFacts
  <2> HIDE DEF e, d
  <2>5. /\ DOMAIN d = D
        /\ d[n] = e
        /\ \A m \in D : m # n => d[m] = rib[m]
    BY <1>1, <2>1
  <2>6. IsRib(d)
    BY <2>3, <2>5 DEF IsRib
  <2>7. IsTree(d)
    BY <2>3, <2>4, <2>5, <1>1, FindParentIn DEF IsTree
  <2>8. \A m : RoutesAt(d, m) =
           IF m = n THEN {x \in RoutesAt(rib, n) : ~SameFaceAndOrigin(x, route)} \cup {route}
                    ELSE RoutesAt(rib, m)
    BY <2>3, <2>5, <1>1 DEF RoutesAt
  <2>9. \A m : InheritedAt(d, m) = InheritedAt(rib, m)
    BY <2>3, <2>5, <1>1 DEF InheritedAt
  <2> QED
    BY <2>5, <2>6, <2>7, <2>8, <2>9, <1>1 DEF d
<1>2. CASE n \notin D
  <2> DEFINE parent == findParent(rib, n)
             entry == [insertRoute(NewEntry, route) EXCEPT !.parent = parent]
             adopted == {m \in Below(rib, n) : rib[m].parent = parent}
             rest == [m \in D |-> IF m \in adopted THEN [rib[m] EXCEPT !.parent = {n}]
                                                   ELSE rib[m]]
  <2>1. d = Over(Single(n, entry), rest)
    BY <1>2 DEF Insert
  <2>2. parent \in SUBSET Name
    BY <1>0 DEF findParent
  <2>3. /\ entry \in Entry
        /\ RoutesOnce(entry)
        /\ entry.parent = parent
        /\ entry.inherited = {}
        /\ RoutesOf(entry) = {route}
        /\ entry.routes # <<>>
    <3> HIDE DEF parent
    <3> QED
      BY <2>2, InsertedNewEntry
  <2>4. ASSUME NEW m \in D
        PROVE  /\ rest[m] \in Entry
               /\ RoutesOnce(rest[m])
               /\ rest[m].routes = rib[m].routes
               /\ rest[m].inherited = rib[m].inherited
               /\ rest[m].parent = IF m \in adopted THEN {n} ELSE rib[m].parent
    <3>1. rib[m] \in Entry /\ RoutesOnce(rib[m])
      BY DEF IsRib
    <3>2. {n} \in SUBSET Name
      OBVIOUS
    <3>3. rest[m] = IF m \in adopted THEN [rib[m] EXCEPT !.parent = {n}] ELSE rib[m]
      OBVIOUS
    <3> HIDE DEF rest, adopted
    <3> QED
      BY <3>1, <3>2, <3>3 DEF Entry, RoutesOnce
  <2>5. DOMAIN rest = D
    OBVIOUS
  <2>6. \A m \in D : m \in adopted <=> IsPrefix(n, m) /\ rib[m].parent = parent
    BY DEF Below
  <2> HIDE DEF entry, rest, adopted, d
  <2>7. /\ DOMAIN d = D \cup {n}
        /\ d[n] = entry
        /\ \A m \in D : d[m] = rest[m]
    BY <2>1, <2>5, <1>2 DEF Over, Single
  <2>8. IsRib(d)
    BY <2>3, <2>4, <2>7, <1>0 DEF IsRib
  <2>9. IsTree(d)
    <3>1. \A m \in D : rib[m].parent = ParentIn(D, m) /\ rib[m].routes # <<>>
      BY FindParentIn DEF IsTree
    <3>2. parent = ParentIn(D, n)
      BY FindParentIn
    <3>3. /\ ParentIn(D \cup {n}, n) = ParentIn(D, n)
          /\ \A m \in D :
               ParentIn(D \cup {n}, m) = IF IsPrefix(n, m) /\ ParentIn(D, m) = ParentIn(D, n)
                                           THEN {n} ELSE ParentIn(D, m)
      BY <1>0, <1>2, ParentJoined
    <3> HIDE DEF parent
    <3>4. d[n].parent = ParentIn(D \cup {n}, n) /\ d[n].routes # <<>>
      BY <2>3, <2>7, <3>2, <3>3
    <3>5. ASSUME NEW m \in D
          PROVE  d[m].parent = ParentIn(D \cup {n}, m) /\ d[m].routes # <<>>
      BY <2>4, <2>6, <2>7, <3>1, <3>2, <3>3
    <3> QED
      BY <2>7, <3>4, <3>5, FindParentIn DEF IsTree
  <2>10. \A m : RoutesAt(d, m) =
            IF m = n THEN {x \in RoutesAt(rib, n) : ~SameFaceAndOrigin(x, route)} \cup {route}
                     ELSE RoutesAt(rib, m)
    BY <2>3, <2>4, <2>7, <1>2 DEF RoutesAt, RoutesOf
  <2>11. \A m : InheritedAt(d, m) = InheritedAt(rib, m)
    BY <2>3, <2>4, <2>7, <1>2 DEF InheritedAt
  <2> QED
    BY <2>7, <2>8, <2>9, <2>10, <2>11 DEF d
<1> QED
  BY <1>1, <1>2

\* Rib::erase keeps the tree, and changes the routes of the one name.
LEMMA ErasedRib ==
    ASSUME NEW rib, IsRib(rib), IsTree(rib), NEW n, NEW route
    PROVE  LET d == Erase(rib, n, route)
           IN  /\ IsRib(d)
               /\ IsTree(d)
               /\ \A m : RoutesAt(d, m) =
                    IF m = n THEN {x \in RoutesAt(rib, n) : ~SameFaceAndOrigin(x, route)}
                             ELSE RoutesAt(rib, m)
               /\ \A m : InheritedAt(d, m) = IF m \in DOMAIN d THEN InheritedAt(rib, m) ELSE {}
               /\ DOMAIN rib \ {n} \subseteq DOMAIN d
               /\ DOMAIN d \subseteq DOMAIN rib
<1> DEFINE d == Erase(rib, n, route)
           D == DOMAIN rib
<1>0. D \subseteq Name
  BY DEF IsRib
<1>1. CASE n \notin D \/ ~hasRoute(rib[n], route)
  <2>1. d = rib
    BY <1>1 DEF Erase
  <2>2. RoutesAt(rib, n) = {x \in RoutesAt(rib, n) : ~SameFaceAndOrigin(x, route)}
    <3>1. CASE n \notin D
      BY <3>1 DEF RoutesAt
    <3>2. CASE n \in D
      <4>1. rib[n] \in Entry
        BY <3>2 DEF IsRib
      <4>2. \A x \in RoutesOf(rib[n]) : ~SameFaceAndOrigin(x, route)
        BY <1>1, <3>2, <4>1, EntryFacts
      <4> QED
        BY <3>2, <4>2 DEF RoutesAt
    <3> QED
      BY <3>1, <3>2
  <2> HIDE DEF d
  <2> QED
    BY <2>1, <2>2 DEF InheritedAt, d
<1>2. CASE n \in D /\ hasRoute(rib[n], route)
  <2> DEFINE e == eraseRoute(rib[n], route)
  <2>1. rib[n] \in Entry /\ RoutesOnce(rib[n])
    BY <1>2 DEF IsRib
  <2>2. /\ e \in Entry
        /\ RoutesOnce(e)
        /\ e.parent = rib[n].parent
        /\ e.inherited = rib[n].inherited
        /\ RoutesOf(e) = {x \in RoutesOf(rib[n]) : ~SameFaceAndOrigin(x, route)}
    BY <1>2, <2>1, ErasedEntry
  <2>3. e.routes = <<>> <=> RoutesOf(e) = {}
    BY <2>2, EntryFacts
  <2>4. CASE e.routes # <<>>
    <3>1. d = [rib EXCEPT ![n] = e]
      BY <1>2, <2>4 DEF Erase
    <3> HIDE DEF e, d
    <3>2. /\ DOMAIN d = D
          /\ d[n] = e
          /\ \A m \in D : m # n => d[m] = rib[m]
      BY <1>2, <3>1
    <3>3. IsRib(d)
      BY <2>2, <3>2 DEF IsRib
    <3>4. IsTree(d)
      BY <2>2, <2>4, <3>2, <1>2, FindParentIn DEF IsTree
    <3>5. \A m : RoutesAt(d, m) =
             IF m = n THEN {x \in RoutesAt(rib, n) : ~SameFaceAndOrigin(x, route)}
                      ELSE RoutesAt(rib, m)
      BY <2>2, <3>2, <1>2 DEF RoutesAt
    <3>6. \A m : InheritedAt(d, m) = IF m \in DOMAIN d THEN InheritedAt(rib, m) ELSE {}
      BY <2>2, <3>2, <1>2 DEF InheritedAt
    <3> QED
      BY <3>2, <3>3, <3>4, <3>5, <3>6 DEF d
  <2>5. CASE e.routes = <<>>
    <3>1. d = [m \in D \ {n} |-> IF rib[m].parent = {n} THEN [rib[m] EXCEPT !.parent = e.parent]
                                                        ELSE rib[m]]
      BY <1>2, <2>5 DEF Erase
    <3> HIDE DEF e, d
    <3>2. DOMAIN d = D \ {n}
      BY <3>1
    <3>3. ASSUME NEW m \in D \ {n}
          PROVE  /\ d[m] \in Entry
                 /\ RoutesOnce(d[m])
                 /\ d[m].routes = rib[m].routes
                 /\ d[m].inherited = rib[m].inherited
                 /\ d[m].parent = IF rib[m].parent = {n} THEN rib[n].parent ELSE rib[m].parent
      <4>1. rib[m] \in Entry /\ RoutesOnce(rib[m])
        BY DEF IsRib
      <4>2. e.parent \in SUBSET Name
        BY <2>2 DEF Entry
      <4>3. d[m] = IF rib[m].parent = {n} THEN [rib[m] EXCEPT !.parent = e.parent] ELSE rib[m]
        BY <3>1
      <4> QED
        BY <4>1, <4>2, <4>3, <2>2 DEF Entry, RoutesOnce
    <3>4. IsRib(d)
      BY <3>2, <3>3, <1>0 DEF IsRib
    <3>5. IsTree(d)
      <4>1. \A m \in D : rib[m].parent = ParentIn(D, m) /\ rib[m].routes # <<>>
        BY FindParentIn DEF IsTree
      <4>2. \A m \in D \ {n} :
               ParentIn(D \ {n}, m) = IF ParentIn(D, m) = {n} THEN ParentIn(D, n)
                                                              ELSE ParentIn(D, m)
        BY <1>0, <1>2, ParentLeft
      <4>3. ASSUME NEW m \in D \ {n}
            PROVE  d[m].parent = ParentIn(D \ {n}, m) /\ d[m].routes # <<>>
        BY <3>3, <4>1, <4>2, <1>2
      <4> QED
        BY <3>2, <4>3, FindParentIn DEF IsTree
    <3>6. \A m : RoutesAt(d, m) =
             IF m = n THEN {x \in RoutesAt(rib, n) : ~SameFaceAndOrigin(x, route)}
                      ELSE RoutesAt(rib, m)
      BY <2>2, <2>3, <2>5, <3>2, <3>3, <1>2 DEF RoutesAt, RoutesOf
    <3>7. \A m : InheritedAt(d, m) = IF m \in DOMAIN d THEN InheritedAt(rib, m) ELSE {}
      BY <3>2, <3>3 DEF InheritedAt
    <3> QED
      BY <3>2, <3>4, <3>5, <3>6, <3>7 DEF d
  <2> QED
    BY <2>4, <2>5
<1> QED
  BY <1>1, <1>2

(***************************************************************************)
(* Computed updates. own is a set of <<name, face>>: those for which the   *)
(* RIB will have a route of its own. Updates are balanced when a next hop  *)
(* is only added for an own or an inherited route, and an inherited route  *)
(* is only taken away together with its next hop, or covered by an own     *)
(* one.                                                                    *)
(***************************************************************************)
NextHops == Name \X Face

Adds(u, x) == x \in DOMAIN u.fib /\ u.fib[x].action = "add"
Takes(u, x) == x \in DOMAIN u.fib /\ u.fib[x].action = "remove"
Gains(u, x) == x \in DOMAIN u.inh /\ u.inh[x]
Loses(u, x) == x \in DOMAIN u.inh /\ ~u.inh[x]

Balanced(u, own) ==
    /\ u \in [fib : {u.fib}, inh : {u.inh}, invalid : BOOLEAN]
    /\ DOMAIN u.fib \subseteq NextHops
    /\ \A x \in DOMAIN u.fib : Adds(u, x) \/ Takes(u, x)
    /\ \A x : Adds(u, x) => x \in own \/ Gains(u, x)
    /\ \A x : Loses(u, x) => x \in own \/ Takes(u, x)

LEMMA ThenBalanced ==
    ASSUME NEW own, NEW u, NEW v, Balanced(u, own), Balanced(v, own)
    PROVE  /\ Balanced(Then(u, v), own)
           /\ \A x : x \in DOMAIN Then(u, v).fib <=> x \in DOMAIN u.fib \/ x \in DOMAIN v.fib
           /\ \A x : Adds(v, x) => Adds(Then(u, v), x)
           /\ \A x : Takes(v, x) => Takes(Then(u, v), x)
           /\ \A x : Adds(u, x) /\ x \notin DOMAIN v.fib => Adds(Then(u, v), x)
           /\ Then(u, v).invalid <=> u.invalid \/ v.invalid
<1> DEFINE w == Then(u, v)
<1>1. /\ w.fib = Over(v.fib, u.fib)
      /\ w.inh = Over(v.inh, u.inh)
      /\ w.invalid = (u.invalid \/ v.invalid)
      /\ w \in [fib : {w.fib}, inh : {w.inh}, invalid : BOOLEAN]
  BY DEF Then, Balanced
<1> HIDE DEF w
<1>2. /\ DOMAIN w.fib = DOMAIN u.fib \cup DOMAIN v.fib
      /\ \A x \in DOMAIN v.fib : w.fib[x] = v.fib[x]
      /\ \A x \in DOMAIN u.fib \ DOMAIN v.fib : w.fib[x] = u.fib[x]
  BY <1>1 DEF Over
<1>3. /\ DOMAIN w.inh = DOMAIN u.inh \cup DOMAIN v.inh
      /\ \A x \in DOMAIN v.inh : w.inh[x] = v.inh[x]
      /\ \A x \in DOMAIN u.inh \ DOMAIN v.inh : w.inh[x] = u.inh[x]
  BY <1>1 DEF Over
<1>4. DOMAIN w.fib \subseteq NextHops
  BY <1>2 DEF Balanced
<1>5. \A x \in DOMAIN w.fib : Adds(w, x) \/ Takes(w, x)
  BY <1>2 DEF Balanced, Adds, Takes
<1>6. ASSUME NEW x, Adds(w, x) PROVE x \in own \/ Gains(w, x)
  <2>1. CASE x \in DOMAIN v.fib
    <3>1. Adds(v, x)
      BY <1>2, <1>6, <2>1 DEF Adds
    <3>2. x \in own \/ Gains(v, x)
      BY <3>1 DEF Balanced
    <3> QED
      BY <3>2, <1>3 DEF Gains
  <2>2. CASE x \notin DOMAIN v.fib
    <3>1. Adds(u, x)
      BY <1>2, <1>6, <2>2 DEF Adds
    <3>2. x \in own \/ Gains(u, x)
      BY <3>1 DEF Balanced
    <3>3. Loses(v, x) => x \in own
      BY <2>2 DEF Balanced, Takes
    <3> QED
      BY <3>2, <3>3, <1>3 DEF Gains, Loses
  <2> QED
    BY <2>1, <2>2
<1>7. ASSUME NEW x, Loses(w, x) PROVE x \in own \/ Takes(w, x)
  <2>1. CASE x \in DOMAIN v.inh
    <3>1. Loses(v, x)
      BY <1>3, <1>7, <2>1 DEF Loses
    <3>2. x \in own \/ Takes(v, x)
      BY <3>1 DEF Balanced
    <3> QED
      BY <3>2, <1>2 DEF Takes
  <2>2. CASE x \notin DOMAIN v.inh
    <3>1. Loses(u, x)
      BY <1>3, <1>7, <2>2 DEF Loses
    <3>2. x \in own \/ Takes(u, x)
      BY <3>1 DEF Balanced
    <3>3. Adds(v, x) => x \in own
      BY <2>2 DEF Balanced, Gains
    <3>4. x \in DOMAIN v.fib => Adds(v, x) \/ Takes(v, x)
      BY DEF Balanced
    <3> QED
      BY <3>2, <3>3, <3>4, <1>2 DEF Takes
  <2> QED
    BY <2>1, <2>2
<1>8. Balanced(w, own)
  BY <1>1, <1>4, <1>5, <1>6, <1>7 DEF Balanced
<1>9. /\ \A x : Adds(v, x) => Adds(w, x)
      /\ \A x : Takes(v, x) => Takes(w, x)
      /\ \A x : Adds(u, x) /\ x \notin DOMAIN v.fib => Adds(w, x)
  BY <1>2 DEF Adds, Takes
<1> QED
  BY <1>1, <1>2, <1>8, <1>9 DEF w

LEMMA NoUpdatesBalanced ==
    ASSUME NEW own
    PROVE  /\ Balanced(NoUpdates, own)
           /\ Balanced([NoUpdates EXCEPT !.invalid = TRUE], own)
           /\ DOMAIN NoUpdates.fib = {}
           /\ ~NoUpdates.invalid
           /\ [NoUpdates EXCEPT !.invalid = TRUE].invalid
<1>1. Balanced(NoUpdates, own)
  BY DEF Balanced, Adds, Takes, Gains, Loses, NoUpdates, NoChange
<1>2. Balanced([NoUpdates EXCEPT !.invalid = TRUE], own)
  BY DEF Balanced, Adds, Takes, Gains, Loses, NoUpdates, NoChange
<1> QED
  BY <1>1, <1>2 DEF NoUpdates, NoChange

LEMMA InstallBalanced ==
    ASSUME NEW own, NEW n \in Name, NEW f \in Face, NEW cost
    PROVE  /\ <<n, f>> \in own => Balanced(Install(n, f, cost), own)
           /\ Adds(Install(n, f, cost), <<n, f>>)
           /\ DOMAIN Install(n, f, cost).fib = {<<n, f>>}
           /\ Balanced(Uninstall(n, f), own)
           /\ DOMAIN Uninstall(n, f).fib = {<<n, f>>}
<1> DEFINE x == <<n, f>>
           u == Install(n, f, cost)
           v == Uninstall(n, f)
<1>1. x \in NextHops
  BY DEF NextHops
<1>2. /\ u \in [fib : {u.fib}, inh : {u.inh}, invalid : BOOLEAN]
      /\ u.fib = Single(x, AddNexthop(cost))
      /\ u.inh = NoChange
  BY DEF Install, NoUpdates
<1>3. /\ v \in [fib : {v.fib}, inh : {v.inh}, invalid : BOOLEAN]
      /\ v.fib = Single(x, RemoveNexthop)
      /\ v.inh = NoChange
  BY DEF Uninstall, NoUpdates
<1> HIDE DEF x, u, v
<1>4. /\ DOMAIN u.fib = {x}
      /\ u.fib[x].action = "add"
      /\ DOMAIN u.inh = {}
  BY <1>2 DEF Single, AddNexthop, NoChange
<1>5. /\ DOMAIN v.fib = {x}
      /\ v.fib[x].action = "remove"
      /\ DOMAIN v.inh = {}
  BY <1>3 DEF Single, RemoveNexthop, NoChange
<1>6. x \in own => Balanced(u, own)
  BY <1>1, <1>2, <1>4 DEF Balanced, Adds, Takes, Gains, Loses
<1>7. Balanced(v, own)
  BY <1>1, <1>3, <1>5 DEF Balanced, Adds, Takes, Gains, Loses
<1> QED
  BY <1>4, <1>5, <1>6, <1>7 DEF Adds, x, u, v

LEMMA InheritedBalanced ==
    ASSUME NEW own, NEW n \in Name, NEW routes, DOMAIN routes \subseteq Face,
           NEW gone \in SUBSET Face
    PROVE  /\ Balanced(AddInherited(n, routes), own)
           /\ DOMAIN AddInherited(n, routes).fib = {n} \X DOMAIN routes
           /\ Balanced(RemoveInherited(n, gone), own)
           /\ DOMAIN RemoveInherited(n, gone).fib = {n} \X gone
<1> DEFINE u == AddInherited(n, routes)
           v == RemoveInherited(n, gone)
<1>1. /\ u \in [fib : {u.fib}, inh : {u.inh}, invalid : BOOLEAN]
      /\ u.fib = [x \in {n} \X DOMAIN routes |-> AddNexthop(routes[x[2]])]
      /\ u.inh = [x \in {n} \X DOMAIN routes |-> TRUE]
  BY DEF AddInherited, NoUpdates
<1>2. /\ v \in [fib : {v.fib}, inh : {v.inh}, invalid : BOOLEAN]
      /\ v.fib = [x \in {n} \X gone |-> RemoveNexthop]
      /\ v.inh = [x \in {n} \X gone |-> FALSE]
  BY DEF RemoveInherited, NoUpdates
<1>3. {n} \X DOMAIN routes \subseteq NextHops /\ {n} \X gone \subseteq NextHops
  BY DEF NextHops
<1> HIDE DEF u, v
<1>4. \A x \in DOMAIN u.fib : u.fib[x].action = "add" /\ x \in DOMAIN u.inh /\ u.inh[x]
  BY <1>1 DEF AddNexthop
<1>5. \A x \in DOMAIN v.inh : ~v.inh[x] /\ x \in DOMAIN v.fib
  BY <1>2
<1>6. \A x \in DOMAIN v.fib : v.fib[x].action = "remove"
  BY <1>2 DEF RemoveNexthop
<1>7. DOMAIN u.fib = {n} \X DOMAIN routes /\ \A x \in DOMAIN u.inh : u.inh[x]
  BY <1>1
<1>8. DOMAIN v.fib = {n} \X gone
  BY <1>2
<1>9. Balanced(u, own)
  BY <1>1, <1>3, <1>4, <1>7 DEF Balanced, Adds, Takes, Gains, Loses
<1>10. Balanced(v, own)
  BY <1>2, <1>3, <1>5, <1>6, <1>8 DEF Balanced, Adds, Takes, Gains, Loses
<1> QED
  BY <1>7, <1>8, <1>9, <1>10 DEF u, v

LEMMA RemovalBalanced ==
    ASSUME NEW own, NEW n \in Name, NEW gone \in SUBSET Face
    PROVE  Balanced(RemoveInherited(n, gone), own)
<1> DEFINE routes == NoRoutes
<1>1. DOMAIN routes \subseteq Face
  BY DEF NoRoutes
<1> HIDE DEF routes
<1> QED
  BY <1>1, InheritedBalanced

LEMMA OnlyFaces ==
    ASSUME NEW routes, NEW S, DOMAIN routes \subseteq Face
    PROVE  DOMAIN Only(routes, S) \subseteq Face /\ DOMAIN Only(routes, S) \subseteq S
BY DEF Only

LEMMA AncestorFaces ==
    ASSUME NEW rib, NEW parent
    PROVE  DOMAIN getAncestorRoutes(rib, parent) \subseteq Face
BY DEF getAncestorRoutes

LEMMA SubtreeBalanced ==
    ASSUME NEW own, NEW rib, IsRib(rib), NEW roots, NEW add, DOMAIN add \subseteq Face,
           NEW remove \in SUBSET Face
    PROVE  LET u == modifyChildrensInheritedRoutes(rib, roots, add, remove)
           IN  /\ Balanced(u, own)
               /\ \A x \in DOMAIN u.fib : x[1] \in DOMAIN rib
<1> DEFINE path(d) == {x \in AncestorsAndSelf(rib, d) : AncestorsAndSelf(rib, x) \cap roots # {}}
           reached == {d \in DOMAIN rib : path(d) # {} /\ \A x \in path(d) : ~hasCapture(rib[x])}
           passes(d, f) == \A x \in path(d) : ~hasChildInheritOnFaceId(rib[x], f)
           removed == {x \in reached \X remove :
                           passes(x[1], x[2]) /\ x[2] \in rib[x[1]].inherited}
           added == {x \in reached \X DOMAIN add :
                           passes(x[1], x[2]) /\ ~hasFaceId(rib[x[1]], x[2])}
           less == [NoUpdates EXCEPT !.fib = [x \in removed |-> RemoveNexthop],
                                  !.inh = [x \in removed |-> FALSE]]
           more == [NoUpdates EXCEPT !.fib = [x \in added |-> AddNexthop(add[x[2]])],
                                  !.inh = [x \in added |-> TRUE]]
<1>1. removed \subseteq (DOMAIN rib) \X Face /\ added \subseteq (DOMAIN rib) \X Face
  <2> HIDE DEF path, passes
  <2>1. reached \subseteq DOMAIN rib
    OBVIOUS
  <2> HIDE DEF reached
  <2> QED
    BY <2>1
<1>2. modifyChildrensInheritedRoutes(rib, roots, add, remove) = Then(less, more)
  BY DEF modifyChildrensInheritedRoutes
<1> HIDE DEF removed, added
<1>3. (DOMAIN rib) \X Face \subseteq NextHops
  BY DEF NextHops, IsRib
<1>4. /\ less \in [fib : {less.fib}, inh : {less.inh}, invalid : BOOLEAN]
      /\ less.fib = [x \in removed |-> RemoveNexthop]
      /\ less.inh = [x \in removed |-> FALSE]
  BY DEF NoUpdates
<1>5. /\ more \in [fib : {more.fib}, inh : {more.inh}, invalid : BOOLEAN]
      /\ more.fib = [x \in added |-> AddNexthop(add[x[2]])]
      /\ more.inh = [x \in added |-> TRUE]
  BY DEF NoUpdates
<1> HIDE DEF less, more
<1>6. Balanced(less, own)
  <2>1. \A x \in DOMAIN less.inh : ~less.inh[x] /\ x \in DOMAIN less.fib
    BY <1>4
  <2>2. DOMAIN less.fib = removed /\ \A x \in DOMAIN less.fib : less.fib[x].action = "remove"
    BY <1>4 DEF RemoveNexthop
  <2> QED
    BY <1>1, <1>3, <1>4, <2>1, <2>2 DEF Balanced, Adds, Takes, Gains, Loses
<1>7. Balanced(more, own)
  <2>1. \A x \in DOMAIN more.inh : more.inh[x]
    BY <1>5
  <2>2. \A x \in DOMAIN more.fib : more.fib[x].action = "add" /\ x \in DOMAIN more.inh
    BY <1>5 DEF AddNexthop
  <2>3. DOMAIN more.fib = added
    BY <1>5
  <2> QED
    BY <1>1, <1>3, <1>5, <2>1, <2>2, <2>3 DEF Balanced, Adds, Takes, Gains, Loses
<1>8. /\ Balanced(Then(less, more), own)
      /\ \A x : x \in DOMAIN Then(less, more).fib
                  <=> x \in DOMAIN less.fib \/ x \in DOMAIN more.fib
  BY <1>6, <1>7, ThenBalanced, Zenon
<1>9. \A x \in removed \cup added : x[1] \in DOMAIN rib
  BY <1>1
<1>10. \A x \in DOMAIN Then(less, more).fib : x[1] \in DOMAIN rib
  BY <1>4, <1>5, <1>8, <1>9
<1> QED
  BY <1>2, <1>8, <1>10

LEMMA SingleFace ==
    ASSUME NEW f \in Face, NEW cost, NEW routes, DOMAIN routes \subseteq Face
    PROVE  /\ DOMAIN Single(f, cost) \subseteq Face
           /\ DOMAIN Over(Single(f, cost), routes) \subseteq Face
           /\ DOMAIN NoRoutes \subseteq Face
BY DEF Single, Over, NoRoutes

LEMMA NewRibEntryBalanced ==
    ASSUME NEW own, NEW rib, IsRib(rib), NEW n \in Name \ DOMAIN rib, NEW route \in Route,
           <<n, route.face>> \in own
    PROVE  LET u == createFibUpdatesForNewRibEntry(rib, n, route)
           IN  Balanced(u, own) /\ Adds(u, <<n, route.face>>)
<1> DEFINE x == <<n, route.face>>
           parent == findParent(rib, n)
           ancestorRoutes == getAncestorRoutes(rib, parent)
           below == {m \in Below(rib, n) : rib[m].parent = parent}
           self == Single(route.face, route.cost)
           install == Install(n, route.face, route.cost)
           inherit == AddInherited(n, Only(ancestorRoutes, Face \ {route.face}))
           blocked == DOMAIN ancestorRoutes
           sub(add, remove) == modifyChildrensInheritedRoutes(rib, below, add, remove)
           u == createFibUpdatesForNewRibEntry(rib, n, route)
<1>0. n \in Name /\ n \notin DOMAIN rib /\ route.face \in Face /\ route.ci \in BOOLEAN
      /\ route.cap \in BOOLEAN
  BY DEF Route
<1>1. blocked \subseteq Face
  BY AncestorFaces
<1>2. u = CASE ~route.ci /\ ~route.cap -> Then(install, inherit)
            [] route.ci /\ route.cap -> Then(install, sub(self, blocked))
            [] route.ci /\ ~route.cap ->
                  Then(Then(install, inherit), sub(Over(self, ancestorRoutes), {}))
            [] ~route.ci /\ route.cap -> Then(install, sub(NoRoutes, blocked))
  BY DEF createFibUpdatesForNewRibEntry
<1> HIDE DEF below, u
<1>3. Balanced(install, own) /\ Adds(install, x)
  <2> HIDE DEF install
  <2> QED
    BY <1>0, InstallBalanced DEF install
<1>4. Balanced(inherit, own) /\ x \notin DOMAIN inherit.fib
  <2> DEFINE others == Only(ancestorRoutes, Face \ {route.face})
  <2>1. DOMAIN others \subseteq Face /\ route.face \notin DOMAIN others
    BY <1>1, OnlyFaces
  <2> HIDE DEF others
  <2>2. /\ Balanced(AddInherited(n, others), own)
        /\ DOMAIN AddInherited(n, others).fib = {n} \X DOMAIN others
    BY <1>0, <2>1, InheritedBalanced
  <2> QED
    BY <2>1, <2>2 DEF others
<1> HIDE DEF ancestorRoutes, blocked
<1>5. ASSUME NEW add, DOMAIN add \subseteq Face, NEW remove \in SUBSET Face
      PROVE  Balanced(sub(add, remove), own) /\ x \notin DOMAIN sub(add, remove).fib
  BY <1>0, <1>5, SubtreeBalanced
<1> HIDE DEF install, inherit, sub, self
<1>6. Balanced(Then(install, inherit), own) /\ Adds(Then(install, inherit), x)
  BY <1>3, <1>4, ThenBalanced
<1>7. ASSUME NEW v, Balanced(v, own), Adds(v, x), NEW add, DOMAIN add \subseteq Face,
             NEW remove \in SUBSET Face
      PROVE  LET w == Then(v, sub(add, remove)) IN Balanced(w, own) /\ Adds(w, x)
  BY <1>5, <1>7, ThenBalanced
<1>8. DOMAIN self \subseteq Face /\ DOMAIN Over(self, ancestorRoutes) \subseteq Face
      /\ DOMAIN NoRoutes \subseteq Face
  BY <1>0, <1>1, SingleFace DEF self, blocked
<1>9. {} \in SUBSET Face /\ blocked \in SUBSET Face
  BY <1>1
<1> DEFINE nothing == {}
           Good(w) == Balanced(w, own) /\ Adds(w, x)
<1>10. Good(Then(install, sub(self, blocked)))
  BY <1>3, <1>7, <1>8, <1>9
<1>11. Good(Then(Then(install, inherit), sub(Over(self, ancestorRoutes), nothing)))
  <2>1. nothing \in SUBSET Face
    OBVIOUS
  <2> HIDE DEF nothing
  <2> QED
    BY <1>6, <1>7, <1>8, <2>1
<1>12. Good(Then(install, sub(NoRoutes, blocked)))
  BY <1>3, <1>7, <1>8, <1>9
<1> QED
  BY <1>0, <1>2, <1>6, <1>10, <1>11, <1>12 DEF u

LEMMA NewRouteBalanced ==
    ASSUME NEW own, NEW rib, IsRib(rib), NEW n \in Name, NEW e \in Entry, NEW route,
           route.face \in Face, <<n, route.face>> \in own, NEW turnedOn
    PROVE  LET u == createFibUpdatesForNewRoute(rib, n, e, route, turnedOn)
           IN  /\ Balanced(u, own)
               /\ Adds(u, <<n, route.face>>) \/ OnFace(e, route.face) # {}
<1> DEFINE f == route.face
           cheaper(S) == S # {} /\ Cheapest(e, S).cost < route.cost
           routesToAdd == IF route.ci /\ ~cheaper(InheritableOnFace(e, f))
                            THEN Single(f, route.cost) ELSE NoRoutes
           routesToRemove == IF turnedOn THEN getAncestorRoutes(rib, e.parent) ELSE NoRoutes
           sub == modifyChildrensInheritedRoutes(rib, children(rib, n), routesToAdd,
                                                 DOMAIN routesToRemove)
           install == IF cheaper(OnFace(e, f)) THEN NoUpdates ELSE Install(n, f, route.cost)
           clear == removeInheritedRoutes(n, e, routesToRemove)
<1>1. createFibUpdatesForNewRoute(rib, n, e, route, turnedOn) = Then(Then(clear, sub), install)
  BY DEF createFibUpdatesForNewRoute
<1>2. DOMAIN routesToAdd \subseteq Face /\ DOMAIN routesToRemove \in SUBSET Face
  BY SingleFace, AncestorFaces DEF NoRoutes
<1>3. Balanced(clear, own)
  <2> DEFINE gone == DOMAIN routesToRemove \cap e.inherited
  <2>1. gone \in SUBSET Face
    BY <1>2 DEF Entry
  <2> HIDE DEF gone, routesToRemove
  <2>2. Balanced(RemoveInherited(n, gone), own)
    BY <2>1, RemovalBalanced
  <2> QED
    BY <2>2 DEF removeInheritedRoutes, gone
<1>4. Balanced(sub, own)
  <2> DEFINE faceSet == DOMAIN routesToRemove
             kids == children(rib, n)
  <2> HIDE DEF routesToAdd, faceSet, kids
  <2> QED
    BY <1>2, SubtreeBalanced DEF faceSet, kids
<1>5. Balanced(install, own) /\ (Adds(install, <<n, f>>) \/ OnFace(e, f) # {})
  <2>1. Balanced(Install(n, f, route.cost), own) /\ Adds(Install(n, f, route.cost), <<n, f>>)
    BY InstallBalanced
  <2>2. Balanced(NoUpdates, own)
    BY NoUpdatesBalanced
  <2> QED
    BY <2>1, <2>2
<1> HIDE DEF clear, sub, install
<1>6. Balanced(Then(clear, sub), own)
  BY <1>3, <1>4, ThenBalanced
<1>7. /\ Balanced(Then(Then(clear, sub), install), own)
      /\ Adds(install, <<n, f>>) => Adds(Then(Then(clear, sub), install), <<n, f>>)
  BY <1>5, <1>6, ThenBalanced
<1> QED
  BY <1>1, <1>5, <1>7

LEMMA InheritancesBalanced ==
    ASSUME NEW own, NEW n \in Name, NEW e \in Entry, NEW routes, DOMAIN routes \subseteq Face,
           NEW S
    PROVE  /\ Balanced(addInheritedRoutes(n, e, routes), own)
           /\ Balanced(removeInheritedRoutes(n, e, routes), own)
           /\ Balanced(AddInherited(n, Only(routes, S)), own)
<1> DEFINE gone == DOMAIN routes \cap e.inherited
           T == {f \in Face : ~hasFaceId(e, f)}
           some(U) == Only(routes, U)
           none == {}
<1>1. gone \in SUBSET Face /\ none \in SUBSET Face
  BY DEF Entry
<1>2. ASSUME NEW U PROVE DOMAIN some(U) \subseteq Face
  BY OnlyFaces
<1> HIDE DEF some, gone, none, T
<1>3. ASSUME NEW U PROVE Balanced(AddInherited(n, some(U)), own)
  BY <1>1, <1>2, InheritedBalanced
<1>4. Balanced(RemoveInherited(n, gone), own)
  BY <1>1, RemovalBalanced
<1>5. addInheritedRoutes(n, e, routes) = AddInherited(n, some(T))
  BY DEF addInheritedRoutes, some, T
<1>6. removeInheritedRoutes(n, e, routes) = RemoveInherited(n, gone)
  BY DEF removeInheritedRoutes, gone
<1>7. Balanced(AddInherited(n, Only(routes, S)), own)
  BY <1>3 DEF some
<1> QED
  BY <1>3, <1>4, <1>5, <1>6, <1>7

LEMMA UpdatedRouteBalanced ==
    ASSUME NEW own, NEW rib, IsRib(rib), NEW n \in Name, NEW e \in Entry, NEW route \in Route,
           <<n, route.face>> \in own, NEW existing
    PROVE  Balanced(createFibUpdatesForUpdatedRoute(rib, n, e, route, existing), own)
<1> DEFINE f == route.face
           lowest == getRouteWithLowestCostByFaceId(e, f).cost
           inheritable == InheritableOnFace(e, f)
           prevRoute == getRouteWithLowestCostAndChildInheritByFaceId(e, f)
           isLowestInheritable == inheritable = {} \/ route.cost <= prevRoute.cost
           costDidChange == route.cost # existing.cost
           flagsDidChange == <<route.ci, route.cap>> # <<existing.ci, existing.cap>>
           ancestorRoutes == getAncestorRoutes(rib, e.parent)
           toChildren(add, remove) ==
               modifyChildrensInheritedRoutes(rib, children(rib, n), add, remove)
           install == CASE ~costDidChange -> NoUpdates
                        [] costDidChange /\ route.cost <= lowest -> Install(n, f, route.cost)
                        [] costDidChange /\ existing.cost < lowest /\ lowest < route.cost ->
                               IF inheritable = {} THEN [NoUpdates EXCEPT !.invalid = TRUE]
                                                   ELSE Install(n, f, prevRoute.cost)
                        [] OTHER -> NoUpdates
           cost == IF costDidChange /\ isLowestInheritable /\ ~flagsDidChange /\ route.ci
                     THEN toChildren(Single(f, route.cost), {}) ELSE NoUpdates
           next == IF inheritable # {} THEN Single(f, prevRoute.cost) ELSE Only(ancestorRoutes, {f})
           inherit == CASE ~existing.ci /\ route.ci /\ isLowestInheritable ->
                               toChildren(Single(f, route.cost), {})
                        [] existing.ci /\ ~route.ci -> toChildren(next, {f})
                        [] OTHER -> NoUpdates
           capture == CASE ~existing.cap /\ route.cap ->
                               Then(removeInheritedRoutes(n, e, ancestorRoutes),
                                    toChildren(NoRoutes, DOMAIN ancestorRoutes))
                        [] existing.cap /\ ~route.cap ->
                               Then(addInheritedRoutes(n, e, ancestorRoutes),
                                    toChildren(ancestorRoutes, {}))
                        [] OTHER -> NoUpdates
<1>0. f \in Face
  BY DEF Route
<1>1. createFibUpdatesForUpdatedRoute(rib, n, e, route, existing)
        = Then(Then(install, cost), Then(inherit, capture))
  BY DEF createFibUpdatesForUpdatedRoute
<1>2. /\ DOMAIN ancestorRoutes \subseteq Face
      /\ DOMAIN NoRoutes \subseteq Face
      /\ DOMAIN Single(f, route.cost) \subseteq Face
      /\ DOMAIN next \subseteq Face
      /\ DOMAIN ancestorRoutes \in SUBSET Face
      /\ {f} \in SUBSET Face
      /\ {} \in SUBSET Face
  BY <1>0, AncestorFaces, SingleFace, OnlyFaces
<1>3. ASSUME NEW c PROVE Balanced(Install(n, f, c), own)
  BY <1>0, InstallBalanced
<1>4. Balanced(NoUpdates, own) /\ Balanced([NoUpdates EXCEPT !.invalid = TRUE], own)
  BY NoUpdatesBalanced
<1> HIDE DEF lowest, prevRoute, inheritable
<1>5. Balanced(install, own)
  <2> DEFINE bad == [NoUpdates EXCEPT !.invalid = TRUE]
             a == costDidChange
             b == route.cost <= lowest
             c == existing.cost < lowest /\ lowest < route.cost
             i1 == Install(n, f, route.cost)
             i2 == Install(n, f, prevRoute.cost)
  <2>1. Balanced(i1, own) /\ Balanced(i2, own) /\ Balanced(bad, own)
    BY <1>3, <1>4
  <2>2. install \in {NoUpdates, i1, i2, bad}
    <3> HIDE DEF i1, i2, bad
    <3> QED
      BY DEF i1, i2, bad
  <2> HIDE DEF i1, i2, bad, install
  <2> QED
    BY <2>1, <2>2, <1>4
<1>6. ASSUME NEW add, DOMAIN add \subseteq Face, NEW remove \in SUBSET Face
      PROVE  Balanced(toChildren(add, remove), own)
  <2> DEFINE kids == children(rib, n)
  <2> HIDE DEF kids
  <2>1. Balanced(modifyChildrensInheritedRoutes(rib, kids, add, remove), own)
    BY <1>6, SubtreeBalanced
  <2> QED
    BY <2>1 DEF kids
<1> DEFINE none == {}
<1>7. none \in SUBSET Face
  OBVIOUS
<1>8. Balanced(cost, own) /\ Balanced(inherit, own)
  <2> DEFINE one == Single(f, route.cost)
             it == {f}
             c1 == toChildren(one, none)
             c2 == toChildren(next, it)
  <2>1. Balanced(c1, own) /\ Balanced(c2, own)
    <3> HIDE DEF one, it, none, next, toChildren
    <3> QED
      BY <1>2, <1>6, <1>7 DEF one, it
  <2>2. cost \in {c1, NoUpdates} /\ inherit \in {c1, c2, NoUpdates}
    <3> HIDE DEF toChildren, next, isLowestInheritable, flagsDidChange, costDidChange
    <3> QED
      OBVIOUS
  <2> HIDE DEF c1, c2, cost, inherit
  <2> QED
    BY <2>1, <2>2, <1>4
<1>9. Balanced(capture, own)
  <2> DEFINE all == DOMAIN ancestorRoutes
             k1 == Then(removeInheritedRoutes(n, e, ancestorRoutes), toChildren(NoRoutes, all))
             k2 == Then(addInheritedRoutes(n, e, ancestorRoutes),
                        toChildren(ancestorRoutes, none))
  <2>1. /\ Balanced(removeInheritedRoutes(n, e, ancestorRoutes), own)
        /\ Balanced(addInheritedRoutes(n, e, ancestorRoutes), own)
    <3> HIDE DEF ancestorRoutes
    <3> QED
      BY <1>2, InheritancesBalanced
  <2>2. Balanced(toChildren(NoRoutes, all), own) /\ Balanced(toChildren(ancestorRoutes, none), own)
    <3> HIDE DEF all, none, toChildren, ancestorRoutes
    <3> QED
      BY <1>2, <1>6, <1>7 DEF all
  <2>3. Balanced(k1, own) /\ Balanced(k2, own)
    <3> HIDE DEF all, none, toChildren, ancestorRoutes
    <3> QED
      BY <2>1, <2>2, ThenBalanced
  <2>4. capture \in {k1, k2, NoUpdates}
    <3> HIDE DEF toChildren, ancestorRoutes
    <3> QED
      OBVIOUS
  <2> HIDE DEF k1, k2, capture
  <2> QED
    BY <2>3, <2>4, <1>4
<1> HIDE DEF install, cost, inherit, capture
<1>10. Balanced(Then(install, cost), own) /\ Balanced(Then(inherit, capture), own)
  BY <1>5, <1>8, <1>9, ThenBalanced
<1> QED
  BY <1>1, <1>10, ThenBalanced

LEMMA ErasedRouteBalanced ==
    ASSUME NEW own, NEW rib, IsRib(rib), NEW n \in Name, NEW temp \in Entry, NEW route \in Route,
           NEW turnedOff
    PROVE  LET u == createFibUpdatesForErasedRoute(rib, n, temp, route, turnedOff)
           IN  Balanced(u, own) /\ <<n, route.face>> \in DOMAIN u.fib
<1> DEFINE f == route.face
           ancestorRoutes == getAncestorRoutes(rib, temp.parent)
           unblocks == turnedOff /\ temp.routes # <<>>
           routesToAdd == IF (route.cap /\ unblocks) \/ (route.ci /\ ~route.cap /\ ~hasCapture(temp))
                            THEN ancestorRoutes ELSE NoRoutes
           toRemove == IF route.ci THEN {f} ELSE {}
           more == addInheritedRoutes(n, temp, ancestorRoutes)
           sub == modifyChildrensInheritedRoutes(rib, children(rib, n), routesToAdd, toRemove)
           again == AddInherited(n, Only(ancestorRoutes, {f}))
           self == IF route.cap /\ unblocks THEN more ELSE NoUpdates
           below == IF route.ci \/ route.cap THEN sub ELSE NoUpdates
           uncovered == IF ~hasCapture(temp) /\ temp.routes # <<>> THEN again ELSE NoUpdates
           gone == Uninstall(n, f)
<1>0. f \in Face
  BY DEF Route
<1>1. createFibUpdatesForErasedRoute(rib, n, temp, route, turnedOff)
        = Then(Then(gone, self), Then(below, uncovered))
  BY DEF createFibUpdatesForErasedRoute
<1>2. /\ DOMAIN ancestorRoutes \subseteq Face
      /\ DOMAIN routesToAdd \subseteq Face
      /\ toRemove \in SUBSET Face
  BY <1>0, AncestorFaces DEF NoRoutes
<1> HIDE DEF ancestorRoutes, toRemove, routesToAdd
<1>3. Balanced(NoUpdates, own)
  BY NoUpdatesBalanced
<1>4. Balanced(more, own) /\ Balanced(again, own)
  <2> DEFINE it == {f}
  <2> HIDE DEF it
  <2> QED
    BY <1>2, InheritancesBalanced DEF it
<1>5. Balanced(sub, own)
  <2> DEFINE kids == children(rib, n)
  <2> HIDE DEF kids
  <2> QED
    BY <1>2, SubtreeBalanced DEF kids
<1>6. Balanced(gone, own) /\ <<n, f>> \in DOMAIN gone.fib
  BY <1>0, InstallBalanced
<1> HIDE DEF more, sub, again, gone
<1>7. Balanced(self, own) /\ Balanced(below, own) /\ Balanced(uncovered, own)
  BY <1>3, <1>4, <1>5
<1> HIDE DEF self, below, uncovered
<1>8. /\ Balanced(Then(gone, self), own)
      /\ <<n, f>> \in DOMAIN Then(gone, self).fib
      /\ Balanced(Then(below, uncovered), own)
  BY <1>6, <1>7, ThenBalanced
<1> DEFINE a == Then(gone, self)
           b == Then(below, uncovered)
<1> HIDE DEF a, b
<1>9. Balanced(Then(a, b), own) /\ <<n, f>> \in DOMAIN Then(a, b).fib
  BY <1>8, ThenBalanced DEF a, b
<1> QED
  BY <1>1, <1>9 DEF a, b

LEMMA ErasedRibEntryBalanced ==
    ASSUME NEW own, NEW n \in Name, NEW e \in Entry
    PROVE  LET u == createFibUpdatesForErasedRibEntry(n, e)
           IN  Balanced(u, own) /\ \A f \in e.inherited : Takes(u, <<n, f>>)
<1> DEFINE u == createFibUpdatesForErasedRibEntry(n, e)
<1>1. /\ u \in [fib : {u.fib}, inh : {u.inh}, invalid : BOOLEAN]
      /\ u.fib = [x \in {n} \X e.inherited |-> RemoveNexthop]
      /\ u.inh = NoChange
  BY DEF createFibUpdatesForErasedRibEntry, NoUpdates
<1> HIDE DEF u
<1>2. {n} \X e.inherited \subseteq NextHops
  BY DEF NextHops, Entry
<1>3. DOMAIN u.fib = {n} \X e.inherited /\ \A x \in DOMAIN u.fib : u.fib[x].action = "remove"
  BY <1>1 DEF RemoveNexthop
<1>4. DOMAIN u.inh = {}
  BY <1>1 DEF NoChange
<1> QED
  BY <1>1, <1>2, <1>3, <1>4 DEF Balanced, Adds, Takes, Gains, Loses, u

\* With more than one route on a face the second cheapest is well defined.
LEMMA SecondRoute ==
    ASSUME NEW e \in Entry, NEW f, Cardinality(OnFace(e, f)) > 1
    PROVE  /\ getRouteWithSecondLowestCostByFaceId(e, f).face = f
           /\ \E i, j \in OnFace(e, f) : i # j
<1> DEFINE S == OnFace(e, f)
           R == {x \in S \X S : Precedes(e, x[1], x[2])}
<1>1. e.routes \in Seq(Route) /\ DOMAIN e.routes = 1 .. Len(e.routes) /\ Len(e.routes) \in Nat
  BY EntryFacts DEF Entry
<1>2. S \subseteq 1 .. Len(e.routes)
  BY <1>1 DEF OnFace
<1>3. IsFiniteSet(S) /\ Cardinality(S) \in Nat
  <2>1. IsFiniteSet(1 .. Len(e.routes))
    BY <1>1, FS_Interval
  <2>2. IsFiniteSet(S)
    BY <1>2, <2>1, FS_Subset
  <2> QED
    BY <2>2, FS_CardinalityType
<1>4. \A i \in S : i \in Int /\ e.routes[i].cost \in Int /\ e.routes[i].face = f
  <2>1. \A i \in S : e.routes[i] \in Route /\ i \in Int /\ e.routes[i].face = f
    BY <1>1, <1>2 DEF OnFace
  <2>2. \A r \in Route : r.cost \in Int
    <3>1. Cost \subseteq Int
      BY RibEntryAssumption
    <3>2. \A r \in Route : r.cost \in Cost
      BY DEF Route
    <3> QED
      BY <3>1, <3>2
  <2> HIDE DEF S
  <2> QED
    BY <2>1, <2>2
<1>5. \A i, j \in S : <<i, j>> \in R <=> Precedes(e, i, j)
  OBVIOUS
<1> HIDE DEF R
<1>6. /\ \A x \in S : <<x, x>> \notin R
      /\ \A x, y, z \in S : <<x, y>> \in R /\ <<y, z>> \in R => <<x, z>> \in R
      /\ \A x, y \in S : x = y \/ <<x, y>> \in R \/ <<y, x>> \in R
  <2>1. \A x \in S : ~Precedes(e, x, x)
    BY <1>4 DEF Precedes
  <2>2. \A x, y, z \in S : Precedes(e, x, y) /\ Precedes(e, y, z) => Precedes(e, x, z)
    BY <1>4 DEF Precedes
  <2>3. \A x, y \in S : x = y \/ Precedes(e, x, y) \/ Precedes(e, y, x)
    BY <1>4 DEF Precedes
  <2> HIDE DEF S
  <2> QED
    BY <1>5, <2>1, <2>2, <2>3
<1>7. PICK i \in S : Cardinality({j \in S : <<j, i>> \in R}) = 1
  <2> DEFINE p == 2
  <2>1. p \in 1 .. Cardinality(S) /\ p - 1 = 1
    BY <1>3
  <2> HIDE DEF p, S
  <2>2. \E x \in S : Cardinality({y \in S : <<y, x>> \in R}) = p - 1
    BY <1>3, <1>6, <2>1, RankExists
  <2> QED
    BY <2>1, <2>2
<1>8. {j \in S : <<j, i>> \in R} = {j \in S : Precedes(e, j, i)}
  BY <1>5
<1>9. getRouteWithSecondLowestCostByFaceId(e, f)
        = e.routes[CHOOSE k \in S : Cardinality({j \in S : Precedes(e, j, k)}) = 1]
  BY DEF getRouteWithSecondLowestCostByFaceId
<1> HIDE DEF S
<1>10. (CHOOSE k \in S : Cardinality({j \in S : Precedes(e, j, k)}) = 1) \in S
  BY <1>7, <1>8
<1>11. \E k, j \in S : k # j
  <2>1. PICK j \in S : <<j, i>> \in R
    <3> DEFINE T == {j \in S : <<j, i>> \in R}
    <3>1. Cardinality(T) = 1 /\ Cardinality({}) = 0
      BY <1>7, FS_EmptySet
    <3> HIDE DEF T
    <3>2. T # {}
      BY <3>1
    <3> QED
      BY <3>2 DEF T
  <2> QED
    BY <2>1, <1>6
<1> QED
  BY <1>4, <1>9, <1>10, <1>11 DEF S

\* The next hops for which a RIB has a route of its own.
OwnHops(rib) == {x \in NextHops : \E r \in RoutesAt(rib, x[1]) : r.face = x[2]}

LEMMA RegistrationBalanced ==
    ASSUME NEW rib, IsRib(rib), IsTree(rib), NEW n \in Name, NEW route \in Route
    PROVE  LET u == computeUpdatesForRegistration(rib, n, route)
               x == <<n, route.face>>
           IN  /\ Balanced(u, OwnHops(Insert(rib, n, route)))
               /\ Adds(u, x) \/ x \in OwnHops(rib)
<1> DEFINE u == computeUpdatesForRegistration(rib, n, route)
           x == <<n, route.face>>
           own == OwnHops(Insert(rib, n, route))
<1>1. x \in NextHops
  BY DEF NextHops, Route
<1>2. x \in own
  <2>0. \A m : RoutesAt(Insert(rib, n, route), m) =
           IF m = n THEN {r \in RoutesAt(rib, n) : ~SameFaceAndOrigin(r, route)} \cup {route}
                    ELSE RoutesAt(rib, m)
    BY InsertedRib
  <2>1. route \in RoutesAt(Insert(rib, n, route), n)
    BY <2>0
  <2> QED
    BY <1>1, <2>1 DEF OwnHops
<1> HIDE DEF own
<1>3. CASE n \notin DOMAIN rib
  <2>1. u = createFibUpdatesForNewRibEntry(rib, n, route)
    BY <1>3 DEF computeUpdatesForRegistration
  <2> QED
    BY <1>2, <1>3, <2>1, NewRibEntryBalanced DEF own
<1>4. CASE n \in DOMAIN rib
  <2> DEFINE e == rib[n]
  <2>1. e \in Entry /\ RoutesOnce(e) /\ route.face \in Face
    BY <1>4 DEF IsRib, Route
  <2>2. OnFace(e, route.face) # {} => x \in OwnHops(rib)
    BY <1>1, <1>4 DEF OwnHops, OnFace, RoutesAt, RoutesOf, ToSet
  <2>3. CASE ~hasRoute(e, route)
    <3> DEFINE on == ~hasCapture(e) /\ route.cap
    <3>1. u = createFibUpdatesForNewRoute(rib, n, e, route, on)
      BY <1>4, <2>3 DEF computeUpdatesForRegistration
    <3> HIDE DEF e, on
    <3>2. /\ Balanced(createFibUpdatesForNewRoute(rib, n, e, route, on), own)
          /\ \/ Adds(createFibUpdatesForNewRoute(rib, n, e, route, on), x)
             \/ OnFace(e, route.face) # {}
      BY <1>2, <2>1, NewRouteBalanced
    <3> QED
      BY <3>1, <3>2, <2>2 DEF own
  <2>4. CASE hasRoute(e, route)
    <3> DEFINE i == CHOOSE i \in findRoute(e, route) : TRUE
               d == [e EXCEPT !.routes[i] = route]
               existing == e.routes[i]
    <3>1. u = createFibUpdatesForUpdatedRoute(rib, n, d, route, existing)
      BY <1>4, <2>4 DEF computeUpdatesForRegistration
    <3>2. d = InsertIntoEntry(e, route)
      BY <2>4 DEF InsertIntoEntry
    <3>3. d \in Entry
      BY <2>1, <3>2, InsertedEntry
    <3> HIDE DEF d, existing
    <3>4. Balanced(createFibUpdatesForUpdatedRoute(rib, n, d, route, existing), own)
      BY <1>2, <3>3, UpdatedRouteBalanced
    <3>5. OnFace(e, route.face) # {}
      BY <2>4 DEF hasRoute, findRoute, OnFace, SameFaceAndOrigin
    <3> QED
      BY <2>2, <3>1, <3>4, <3>5 DEF own
  <2> QED
    BY <2>3, <2>4
<1> QED
  BY <1>3, <1>4

LEMMA UnregistrationBalanced ==
    ASSUME NEW rib, IsRib(rib), IsTree(rib), NEW n \in Name, NEW route
    PROVE  LET u == computeUpdatesForUnregistration(rib, n, route)
               d == Erase(rib, n, route)
           IN  /\ Balanced(u, OwnHops(d))
               /\ \A x \in OwnHops(rib) : x \in OwnHops(d) \/ x \in DOMAIN u.fib
               /\ n \notin DOMAIN d => \A f \in InheritedAt(rib, n) : Takes(u, <<n, f>>)
<1> DEFINE u == computeUpdatesForUnregistration(rib, n, route)
           d == Erase(rib, n, route)
           own == OwnHops(d)
           e == rib[n]
<1>1. /\ \A m : RoutesAt(d, m) =
             IF m = n THEN {x \in RoutesAt(rib, n) : ~SameFaceAndOrigin(x, route)}
                      ELSE RoutesAt(rib, m)
      /\ IsRib(d)
      /\ IsTree(d)
  BY ErasedRib
<1>2. CASE n \notin DOMAIN rib \/ ~hasRoute(e, route)
  <2>1. u = NoUpdates /\ d = rib
    BY <1>2 DEF computeUpdatesForUnregistration, Erase
  <2>2. Balanced(NoUpdates, own)
    BY NoUpdatesBalanced
  <2>3. n \notin DOMAIN rib => InheritedAt(rib, n) = {}
    BY DEF InheritedAt
  <2> HIDE DEF u, d
  <2> QED
    BY <2>1, <2>2, <2>3 DEF u, d
<1>3. CASE n \in DOMAIN rib /\ hasRoute(e, route)
  <2> DEFINE i == CHOOSE i \in findRoute(e, route) : TRUE
             existing == e.routes[i]
             temp == eraseRoute(e, route)
             off == hasCapture(e) /\ ~hasCapture(temp)
             erased == createFibUpdatesForErasedRoute(rib, n, temp, existing, off)
             second == getRouteWithSecondLowestCostByFaceId(e, route.face)
             again == createFibUpdatesForNewRoute(rib, n, temp, second, FALSE)
             next == IF Cardinality(OnFace(e, route.face)) > 1 THEN again ELSE NoUpdates
             whole == createFibUpdatesForErasedRibEntry(n, e)
             last == IF Len(e.routes) = 1 THEN whole ELSE NoUpdates
  <2>1. u = Then(Then(erased, next), last)
    BY <1>3 DEF computeUpdatesForUnregistration
  <2>2. e \in Entry /\ RoutesOnce(e)
    BY <1>3 DEF IsRib
  <2>3. /\ existing \in Route
        /\ existing.face = route.face
        /\ SameFaceAndOrigin(existing, route)
        /\ existing \in RoutesOf(e)
    <3>1. i \in DOMAIN e.routes /\ SameFaceAndOrigin(existing, route)
      BY <1>3 DEF hasRoute, findRoute
    <3>2. existing \in RoutesOf(e)
      BY <3>1 DEF RoutesOf, ToSet
    <3>3. RoutesOf(e) \subseteq Route
      BY <2>2, EntryFacts
    <3> HIDE DEF existing
    <3> QED
      BY <3>1, <3>2, <3>3 DEF SameFaceAndOrigin
  <2>4. route.face \in Face
    BY <2>3 DEF Route
  <2>5. /\ temp \in Entry
        /\ RoutesOf(temp) = {x \in RoutesOf(e) : ~SameFaceAndOrigin(x, route)}
        /\ Len(temp.routes) = Len(e.routes) - 1
    BY <1>3, <2>2, ErasedEntry
  <2>6. RoutesAt(d, n) = RoutesOf(temp)
    BY <1>1, <1>3, <2>5 DEF RoutesAt
  <2> HIDE DEF u, d, e, existing, temp, off, second
  <2>7. Balanced(erased, own) /\ <<n, route.face>> \in DOMAIN erased.fib
    <3> HIDE DEF own
    <3> QED
      BY <2>3, <2>5, ErasedRouteBalanced
  <2>8. Balanced(next, own)
    <3>1. Balanced(NoUpdates, own)
      BY NoUpdatesBalanced
    <3>2. ASSUME Cardinality(OnFace(e, route.face)) > 1 PROVE Balanced(again, own)
      <4>1. second.face = route.face /\ \E k, j \in OnFace(e, route.face) : k # j
        BY <2>2, <3>2, SecondRoute DEF second
      <4>2. PICK k \in OnFace(e, route.face) : ~SameFaceAndOrigin(e.routes[k], route)
        <5>1. PICK k, j \in OnFace(e, route.face) : k # j
          BY <4>1
        <5>2. k \in DOMAIN e.routes /\ j \in DOMAIN e.routes
          BY DEF OnFace
        <5>3. ~SameFaceAndOrigin(e.routes[k], e.routes[j])
          BY <5>1, <5>2, <2>2 DEF RoutesOnce
        <5>4. ~SameFaceAndOrigin(e.routes[k], route) \/ ~SameFaceAndOrigin(e.routes[j], route)
          BY <5>3 DEF SameFaceAndOrigin
        <5> QED
          BY <5>4
      <4>3. e.routes[k] \in RoutesOf(temp) /\ e.routes[k].face = route.face
        BY <4>2, <2>5 DEF OnFace, RoutesOf, ToSet
      <4>4. <<n, second.face>> \in own
        BY <2>4, <2>6, <4>1, <4>3 DEF OwnHops, NextHops
      <4> DEFINE on == FALSE
      <4> HIDE DEF on, own
      <4>5. Balanced(createFibUpdatesForNewRoute(rib, n, temp, second, on), own)
        BY <2>4, <2>5, <4>1, <4>4, NewRouteBalanced
      <4> QED
        BY <4>5 DEF on
    <3> HIDE DEF again
    <3> QED
      BY <3>1, <3>2
  <2>9. Balanced(last, own) /\ (Len(e.routes) = 1 => \A f \in e.inherited : Takes(last, <<n, f>>))
    <3>1. Balanced(NoUpdates, own)
      BY NoUpdatesBalanced
    <3>2. Balanced(whole, own) /\ \A f \in e.inherited : Takes(whole, <<n, f>>)
      BY <2>2, ErasedRibEntryBalanced
    <3> HIDE DEF whole
    <3> QED
      BY <3>1, <3>2
  <2> HIDE DEF erased, next, last, own
  <2>10. Balanced(Then(erased, next), own) /\ <<n, route.face>> \in DOMAIN Then(erased, next).fib
    BY <2>7, <2>8, ThenBalanced
  <2> DEFINE both == Then(erased, next)
  <2> HIDE DEF both
  <2>11. /\ Balanced(Then(both, last), own)
         /\ <<n, route.face>> \in DOMAIN Then(both, last).fib
         /\ \A x : Takes(last, x) => Takes(Then(both, last), x)
    BY <2>9, <2>10, ThenBalanced DEF both
  <2>12. Balanced(u, own) /\ <<n, route.face>> \in DOMAIN u.fib
    BY <2>1, <2>11 DEF both
  <2>13. \A x : Takes(last, x) => Takes(u, x)
    BY <2>1, <2>11 DEF both
  <2>14. ASSUME NEW x \in OwnHops(rib) PROVE x \in own \/ x \in DOMAIN u.fib
    <3>1. PICK r \in RoutesAt(rib, x[1]) : r.face = x[2]
      BY DEF OwnHops
    <3>2. x \in NextHops
      BY DEF OwnHops
    <3>3. CASE r \in RoutesAt(d, x[1])
      BY <3>1, <3>2, <3>3 DEF own, OwnHops
    <3>4. CASE r \notin RoutesAt(d, x[1])
      <4>1. x[1] = n /\ SameFaceAndOrigin(r, route)
        BY <3>1, <3>4, <1>1
      <4>2. x = <<n, route.face>>
        <5>1. x = <<x[1], x[2]>>
          BY <3>2 DEF NextHops
        <5>2. x[2] = route.face
          BY <3>1, <4>1 DEF SameFaceAndOrigin
        <5> QED
          BY <4>1, <5>1, <5>2
      <4> QED
        BY <4>2, <2>12
    <3> QED
      BY <3>3, <3>4
  <2>15. ASSUME n \notin DOMAIN d PROVE \A f \in InheritedAt(rib, n) : Takes(u, <<n, f>>)
    <3>1. RoutesOf(temp) = {}
      BY <2>6, <2>15 DEF RoutesAt
    <3>2. temp.routes = <<>>
      BY <3>1, <2>5, EntryFacts
    <3>3. Len(e.routes) = 1
      <4> DEFINE L == Len(e.routes)
                 K == Len(temp.routes)
      <4>1. K = 0
        BY <3>2
      <4>2. L \in Nat
        BY <2>2, EntryFacts
      <4>3. K = L - 1
        BY <2>5
      <4> HIDE DEF L, K
      <4>4. L = 1
        BY <4>1, <4>2, <4>3
      <4> QED
        BY <4>4 DEF L
    <3>4. InheritedAt(rib, n) = e.inherited
      BY <1>3 DEF InheritedAt, e
    <3> QED
      BY <3>3, <3>4, <2>9, <2>13
  <2> QED
    BY <2>12, <2>14, <2>15 DEF u, d, own
<1> QED
  BY <1>2, <1>3

(***************************************************************************)
(* The RIB service. ServiceOK collects what its fields are, with the tree  *)
(* and the face map as the names say.                                      *)
(***************************************************************************)
Actions == {"register", "unregister", "remove-face"}

Batch == {b \in [action : Actions, name : Name, route : Target, id : Nat] :
             b.action = "register" => b.route \in Route}

Timer == [ev : Nat, name : Name, route : Route]

IsUpdate(u) == u.name \in Name /\ u.face \in Face /\ u.action \in {"add", "remove"}

IsCommand(c) ==
    /\ c \in [update : {c.update}, verb : {"add-nexthop", "remove-nexthop"}, batch : Batch,
              nTimeouts : Nat]
    /\ IsUpdate(c.update)

IsService(t) ==
    t \in [rib : {t.rib}, faceMap : {t.faceMap}, queue : {t.queue}, busy : BOOLEAN,
           batchFace : {t.batchFace}, batchUpdates : {t.batchUpdates},
           otherUpdates : {t.otherUpdates}, inhUpdates : {t.inhUpdates}, sent : {t.sent},
           timers : {t.timers}, results : {t.results}, running : BOOLEAN, odd : {t.odd}]

RibOK(t) ==
    /\ IsRib(t.rib)
    /\ IsTree(t.rib)
    /\ t.faceMap \in [Face -> Seq(Name)]
    /\ \A f \in Face : ToSet(t.faceMap[f]) = {n \in DOMAIN t.rib : hasFaceId(t.rib[n], f)}

QueueOK(t) == t.queue \in Seq(Batch)

UpdatesOK(t) ==
    /\ \A u \in t.batchUpdates : IsUpdate(u) /\ u.face = t.batchFace
    /\ \A u \in t.otherUpdates : IsUpdate(u) /\ u.face # t.batchFace

SentOK(t) == \A c \in t.sent : IsCommand(c)

TimersOK(t) == t.timers \subseteq Timer

ServiceOK(t) ==
    IsService(t) /\ RibOK(t) /\ QueueOK(t) /\ UpdatesOK(t) /\ SentOK(t) /\ TimersOK(t)

\* What a change of the RIB leaves alone.
SameBatch(t, v) ==
    /\ v.queue = t.queue
    /\ v.batchFace = t.batchFace
    /\ v.batchUpdates = t.batchUpdates
    /\ v.otherUpdates = t.otherUpdates
    /\ v.inhUpdates = t.inhUpdates
    /\ v.sent = t.sent
    /\ v.odd = t.odd

LEMMA SameBatchKeeps ==
    ASSUME NEW t, NEW v, SameBatch(t, v)
    PROVE  /\ QueueOK(t) <=> QueueOK(v)
           /\ UpdatesOK(t) <=> UpdatesOK(v)
           /\ SentOK(t) <=> SentOK(v)
BY DEF SameBatch, QueueOK, UpdatesOK, SentOK

LEMMA BatchFacts ==
    ASSUME NEW b \in Batch
    PROVE  /\ b.action \in Actions
           /\ b.name \in Name
           /\ b.route \in Target
           /\ b.route.face \in Face
           /\ b.action = "register" => b.route \in Route
BY DEF Batch, Target, Route

LEMMA CancelEffect ==
    ASSUME NEW t, IsService(t), NEW ev
    PROVE  /\ IsService(Cancel(t, ev))
           /\ SameBatch(t, Cancel(t, ev))
           /\ Cancel(t, ev).rib = t.rib
           /\ Cancel(t, ev).faceMap = t.faceMap
           /\ Cancel(t, ev).busy = t.busy
           /\ Cancel(t, ev).running = t.running
           /\ Cancel(t, ev).timers = {x \in t.timers : x.ev # ev}
BY DEF IsService, SameBatch, Cancel

LEMMA TellEffect ==
    ASSUME NEW t, IsService(t), NEW id, NEW result
    PROVE  /\ IsService(Tell(t, id, result))
           /\ SameBatch(t, Tell(t, id, result))
           /\ Tell(t, id, result).rib = t.rib
           /\ Tell(t, id, result).faceMap = t.faceMap
           /\ Tell(t, id, result).busy = t.busy
           /\ Tell(t, id, result).running = t.running
           /\ Tell(t, id, result).timers = t.timers
BY DEF IsService, SameBatch, Tell

\* EventOf is the event of the one route of the entry for the face and the origin.
LEMMA EventOfRoute ==
    ASSUME NEW t, IsRib(t.rib), NEW n, NEW route
    PROVE  \A x \in RoutesAt(t.rib, n) : SameFaceAndOrigin(x, route) => EventOf(t, n, route) = x.ev
<1> SUFFICES ASSUME NEW x \in RoutesAt(t.rib, n), SameFaceAndOrigin(x, route)
             PROVE  EventOf(t, n, route) = x.ev
  OBVIOUS
<1> DEFINE e == t.rib[n]
           i == CHOOSE i \in findRoute(e, route) : TRUE
<1>1. n \in DOMAIN t.rib /\ x \in RoutesOf(e)
  BY DEF RoutesAt
<1>2. e \in Entry /\ RoutesOnce(e)
  BY <1>1 DEF IsRib
<1>3. PICK j \in DOMAIN e.routes : x = e.routes[j]
  BY <1>1 DEF RoutesOf, ToSet
<1>4. j \in findRoute(e, route)
  BY <1>3 DEF findRoute
<1>5. hasRoute(e, route)
  BY <1>4 DEF hasRoute
<1>6. i \in findRoute(e, route)
  BY <1>4
<1>7. i = j
  <2>1. i \in DOMAIN e.routes /\ SameFaceAndOrigin(e.routes[i], route)
    BY <1>6 DEF findRoute
  <2>2. SameFaceAndOrigin(e.routes[i], e.routes[j])
    BY <2>1, <1>3 DEF SameFaceAndOrigin
  <2> QED
    BY <2>1, <2>2, <1>2, <1>3 DEF RoutesOnce
<1>8. EventOf(t, n, route) = e.routes[i].ev
  BY <1>1, <1>5 DEF EventOf
<1> QED
  BY <1>3, <1>7, <1>8

\* The face map lists the names with a route for the face.
FaceListed(rib, faceMap) ==
    /\ faceMap \in [Face -> Seq(Name)]
    /\ \A f \in Face : \A n : n \in Members(faceMap[f])
                                 <=> \E x \in RoutesAt(rib, n) : x.face = f

LEMMA FaceMapMeans ==
    ASSUME NEW rib, NEW faceMap, IsRib(rib)
    PROVE  FaceListed(rib, faceMap) <=>
             /\ faceMap \in [Face -> Seq(Name)]
             /\ \A f \in Face : ToSet(faceMap[f]) = {n \in DOMAIN rib : hasFaceId(rib[n], f)}
<1>1. \A n \in DOMAIN rib : \A f : hasFaceId(rib[n], f) <=> \E x \in RoutesAt(rib, n) : x.face = f
  BY EntryFacts DEF IsRib, RoutesAt
<1>2. \A n : n \notin DOMAIN rib => RoutesAt(rib, n) = {}
  BY DEF RoutesAt
<1>3. ASSUME faceMap \in [Face -> Seq(Name)], NEW f \in Face
      PROVE  ToSet(faceMap[f]) = Members(faceMap[f])
  <2>1. faceMap[f] \in Seq(Name)
    BY <1>3
  <2>2. DOMAIN faceMap[f] = 1 .. Len(faceMap[f])
    BY <2>1
  <2> QED
    BY <2>2 DEF ToSet, Members
<1>4. ASSUME faceMap \in [Face -> Seq(Name)], NEW f \in Face
      PROVE  (\A n : n \in Members(faceMap[f]) <=> \E x \in RoutesAt(rib, n) : x.face = f)
               <=> Members(faceMap[f]) = {n \in DOMAIN rib : hasFaceId(rib[n], f)}
  BY <1>1, <1>2
<1> QED
  BY <1>3, <1>4 DEF FaceListed

LEMMA FaceListedInserted ==
    ASSUME NEW rib, NEW d, NEW faceMap, NEW n \in Name, NEW route \in Route,
           FaceListed(rib, faceMap),
           \A m : RoutesAt(d, m) =
              IF m = n THEN {x \in RoutesAt(rib, n) : ~SameFaceAndOrigin(x, route)} \cup {route}
                       ELSE RoutesAt(rib, m)
    PROVE  /\ FaceListed(d, [faceMap EXCEPT ![route.face] = Append(@, n)])
           /\ (\E x \in RoutesAt(rib, n) : x.face = route.face) => FaceListed(d, faceMap)
<1> DEFINE g == route.face
           longer == Append(faceMap[g], n)
           more == [faceMap EXCEPT ![g] = Append(@, n)]
<1>0. g \in Face /\ faceMap \in [Face -> Seq(Name)]
  BY DEF FaceListed, Route
<1>1. longer \in Seq(Name) /\ \A m : m \in Members(longer) <=> m \in Members(faceMap[g]) \/ m = n
  <2>1. faceMap[g] \in Seq(Name)
    BY <1>0
  <2>2. Append(faceMap[g], n) \in Seq(Name)
          /\ Members(Append(faceMap[g], n)) = Members(faceMap[g]) \cup {n}
    BY <2>1, AppendMembers
  <2> QED
    BY <2>2
<1>2. more \in [Face -> Seq(Name)] /\ more[g] = longer
        /\ \A f \in Face : f # g => more[f] = faceMap[f]
  <2> HIDE DEF longer
  <2>1. more = [faceMap EXCEPT ![g] = longer]
    BY DEF longer
  <2> QED
    BY <1>0, <1>1, <2>1
<1> HIDE DEF longer, more
<1>3. ASSUME NEW f \in Face, NEW m
      PROVE  (\E x \in RoutesAt(d, m) : x.face = f)
               <=> (\E x \in RoutesAt(rib, m) : x.face = f) \/ (m = n /\ f = g)
  BY DEF SameFaceAndOrigin
<1>4. FaceListed(d, more)
  <2> SUFFICES ASSUME NEW f \in Face, NEW m
               PROVE  m \in Members(more[f]) <=> \E x \in RoutesAt(d, m) : x.face = f
    BY <1>2 DEF FaceListed
  <2>1. m \in Members(faceMap[f]) <=> \E x \in RoutesAt(rib, m) : x.face = f
    BY DEF FaceListed
  <2>2. m \in Members(more[f]) <=> m \in Members(faceMap[f]) \/ (m = n /\ f = g)
    BY <1>1, <1>2
  <2> QED
    BY <1>3, <2>1, <2>2
<1>5. ASSUME \E x \in RoutesAt(rib, n) : x.face = g PROVE FaceListed(d, faceMap)
  <2> SUFFICES ASSUME NEW f \in Face, NEW m
               PROVE  m \in Members(faceMap[f]) <=> \E x \in RoutesAt(d, m) : x.face = f
    BY <1>0 DEF FaceListed
  <2>1. m \in Members(faceMap[f]) <=> \E x \in RoutesAt(rib, m) : x.face = f
    BY DEF FaceListed
  <2> QED
    BY <1>3, <1>5, <2>1
<1> QED
  BY <1>4, <1>5 DEF more

LEMMA FaceListedErased ==
    ASSUME NEW rib, NEW d, NEW faceMap, NEW n \in Name, NEW route, route.face \in Face,
           FaceListed(rib, faceMap),
           \A m : RoutesAt(d, m) =
              IF m = n THEN {x \in RoutesAt(rib, n) : ~SameFaceAndOrigin(x, route)}
                       ELSE RoutesAt(rib, m)
    PROVE  LET keeps == \E x \in RoutesAt(d, n) : x.face = route.face
           IN  FaceListed(d, [faceMap EXCEPT ![route.face] =
                                 IF keeps THEN @ ELSE SeqWithout(@, {n})])
<1> DEFINE g == route.face
           keeps == \E x \in RoutesAt(d, n) : x.face = g
           list == IF keeps THEN faceMap[g] ELSE SeqWithout(faceMap[g], {n})
           less == [faceMap EXCEPT ![g] = IF keeps THEN @ ELSE SeqWithout(@, {n})]
<1>0. g \in Face /\ faceMap \in [Face -> Seq(Name)]
  BY DEF FaceListed
<1>1. /\ list \in Seq(Name)
      /\ \A m : m \in Members(list) <=> m \in Members(faceMap[g]) /\ (m # n \/ keeps)
  <2>1. faceMap[g] \in Seq(Name)
    BY <1>0
  <2> DEFINE it == {n}
  <2> HIDE DEF it
  <2>2. SeqWithout(faceMap[g], it) \in Seq(Name)
          /\ Members(SeqWithout(faceMap[g], it)) = Members(faceMap[g]) \ it
    BY <2>1, SeqWithoutMembers
  <2>3. /\ SeqWithout(faceMap[g], {n}) \in Seq(Name)
        /\ \A m : m \in Members(SeqWithout(faceMap[g], {n})) <=> m \in Members(faceMap[g]) /\ m # n
    BY <2>2 DEF it
  <2> HIDE DEF keeps
  <2>4. CASE keeps
    BY <2>1, <2>4
  <2>5. CASE ~keeps
    BY <2>3, <2>5
  <2> QED
    BY <2>4, <2>5
<1>2. less \in [Face -> Seq(Name)] /\ less[g] = list
        /\ \A f \in Face : f # g => less[f] = faceMap[f]
  <2> HIDE DEF list, keeps
  <2>1. less = [faceMap EXCEPT ![g] = list]
    BY DEF list
  <2> QED
    BY <1>0, <1>1, <2>1
<1> HIDE DEF list, less
<1>3. ASSUME NEW f \in Face, NEW m, f # g \/ m # n
      PROVE  (\E x \in RoutesAt(d, m) : x.face = f) <=> (\E x \in RoutesAt(rib, m) : x.face = f)
  BY <1>3 DEF SameFaceAndOrigin
<1>4. keeps => \E x \in RoutesAt(rib, n) : x.face = g
  OBVIOUS
<1>5. FaceListed(d, less)
  <2> SUFFICES ASSUME NEW f \in Face, NEW m
               PROVE  m \in Members(less[f]) <=> \E x \in RoutesAt(d, m) : x.face = f
    BY <1>2 DEF FaceListed
  <2>1. m \in Members(faceMap[f]) <=> \E x \in RoutesAt(rib, m) : x.face = f
    BY DEF FaceListed
  <2>2. CASE f # g
    BY <1>2, <1>3, <2>1, <2>2
  <2>3. CASE f = g /\ m # n
    BY <1>1, <1>2, <1>3, <2>1, <2>3
  <2>4. CASE f = g /\ m = n
    BY <1>1, <1>2, <1>4, <2>1, <2>4
  <2> QED
    BY <2>2, <2>3, <2>4
<1> QED
  BY <1>5 DEF less

Applied(t, b) == IF b.action = "register" THEN RibInsert(t, b.name, b.route)
                                          ELSE RibErase(t, b.name, b.route)

\* The RIB's routes after a batch.
RoutesAfter(t, b, m) ==
    IF m = b.name
      THEN {x \in RoutesAt(t.rib, m) : ~SameFaceAndOrigin(x, b.route)}
              \cup (IF b.action = "register" THEN {b.route} ELSE {})
      ELSE RoutesAt(t.rib, m)

\* A batch applied to the RIB and the face map.
LEMMA AppliedEffect ==
    ASSUME NEW t, IsService(t), RibOK(t), NEW b \in Batch
    PROVE  LET v == Applied(t, b)
           IN  /\ IsService(v)
               /\ RibOK(v)
               /\ SameBatch(t, v)
               /\ v.busy = t.busy
               /\ v.running = t.running
               /\ v.timers = {x \in t.timers : x.ev # EventOf(t, b.name, b.route)}
               /\ v.rib = IF b.action = "register" THEN Insert(t.rib, b.name, b.route)
                                                   ELSE Erase(t.rib, b.name, b.route)
               /\ \A m : RoutesAt(v.rib, m) = RoutesAfter(t, b, m)
               /\ \A m : InheritedAt(v.rib, m) =
                            IF m \in DOMAIN v.rib THEN InheritedAt(t.rib, m) ELSE {}
<1> DEFINE v == Applied(t, b)
           n == b.name
           route == b.route
           w == Cancel(t, EventOf(t, n, route))
<1>0. n \in Name /\ route.face \in Face /\ IsRib(t.rib) /\ IsTree(t.rib)
  BY BatchFacts DEF RibOK
<1>1. /\ IsService(w)
      /\ SameBatch(t, w)
      /\ w.rib = t.rib
      /\ w.faceMap = t.faceMap
      /\ w.busy = t.busy
      /\ w.running = t.running
      /\ w.timers = {x \in t.timers : x.ev # EventOf(t, n, route)}
  BY CancelEffect
<1>2. FaceListed(t.rib, t.faceMap) /\ t.faceMap \in [Face -> Seq(Name)]
  BY <1>0, FaceMapMeans DEF RibOK
<1>3. CASE b.action = "register"
  <2> DEFINE isNew == n \notin DOMAIN t.rib \/ ~hasRoute(t.rib[n], route)
             d == Insert(t.rib, n, route)
             fm == [t.faceMap EXCEPT ![route.face] = IF isNew THEN Append(@, n) ELSE @]
  <2>0. route \in Route
    BY <1>3, BatchFacts
  <2>1. v = [w EXCEPT !.rib = Insert(@, n, route),
                      !.faceMap[route.face] = IF isNew THEN Append(@, n) ELSE @]
    BY <1>3 DEF Applied, RibInsert
  <2> HIDE DEF v, w, isNew
  <2>2. /\ IsService(v)
        /\ SameBatch(w, v)
        /\ v.rib = Insert(w.rib, n, route)
        /\ v.faceMap = [w.faceMap EXCEPT ![route.face] = IF isNew THEN Append(@, n) ELSE @]
        /\ v.busy = w.busy
        /\ v.running = w.running
        /\ v.timers = w.timers
    BY <2>1, <1>1 DEF IsService, SameBatch
  <2>3. /\ IsRib(d)
        /\ IsTree(d)
        /\ DOMAIN d = DOMAIN t.rib \cup {n}
        /\ \A m : RoutesAt(d, m) =
             IF m = n THEN {x \in RoutesAt(t.rib, n) : ~SameFaceAndOrigin(x, route)}
                              \cup {route}
                      ELSE RoutesAt(t.rib, m)
        /\ \A m : InheritedAt(d, m) = InheritedAt(t.rib, m)
    BY <1>0, <2>0, InsertedRib
  <2>4. v.rib = d /\ v.faceMap = fm
    BY <1>1, <2>2
  <2>5. FaceListed(d, fm)
    <3>1. /\ FaceListed(d, [t.faceMap EXCEPT ![route.face] = Append(@, n)])
          /\ (\E x \in RoutesAt(t.rib, n) : x.face = route.face) => FaceListed(d, t.faceMap)
      <4> HIDE DEF d, n, route
      <4> QED
        BY <1>0, <1>2, <2>0, <2>3, FaceListedInserted
    <3>2. CASE isNew
      BY <3>1, <3>2
    <3>3. CASE ~isNew
      <4>1. n \in DOMAIN t.rib /\ hasRoute(t.rib[n], route) /\ t.rib[n] \in Entry
        BY <3>3, <1>0 DEF isNew, IsRib
      <4>2. \E x \in RoutesAt(t.rib, n) : SameFaceAndOrigin(x, route)
        BY <4>1, EntryFacts DEF RoutesAt
      <4>3. FaceListed(d, t.faceMap)
        BY <3>1, <4>2 DEF SameFaceAndOrigin
      <4>4. fm = t.faceMap
        BY <3>3, <1>0, <1>2
      <4> QED
        BY <4>3, <4>4
    <3> QED
      BY <3>2, <3>3
  <2>6. RibOK(v)
    <3> HIDE DEF d, fm
    <3>1. /\ fm \in [Face -> Seq(Name)]
          /\ \A f \in Face : ToSet(fm[f]) = {m \in DOMAIN d : hasFaceId(d[m], f)}
      BY <2>3, <2>5, FaceMapMeans
    <3>2. IsRib(v.rib) /\ IsTree(v.rib)
      BY <2>3, <2>4
    <3>3. /\ v.faceMap \in [Face -> Seq(Name)]
          /\ \A f \in Face : ToSet(v.faceMap[f]) = {m \in DOMAIN v.rib : hasFaceId(v.rib[m], f)}
      BY <2>4, <3>1
    <3> QED
      BY <3>2, <3>3 DEF RibOK
  <2>7. \A m : RoutesAt(v.rib, m) = RoutesAfter(t, b, m)
    BY <1>3, <2>3, <2>4 DEF RoutesAfter
  <2>8. \A m : InheritedAt(v.rib, m) = IF m \in DOMAIN v.rib THEN InheritedAt(t.rib, m) ELSE {}
    BY <2>3, <2>4 DEF InheritedAt
  <2>9. SameBatch(t, v)
    BY <1>1, <2>2 DEF SameBatch
  <2> QED
    BY <1>1, <1>3, <2>2, <2>4, <2>6, <2>7, <2>8, <2>9 DEF v, w
<1>4. CASE b.action # "register"
  <2> DEFINE d == Erase(t.rib, n, route)
             keeps == n \in DOMAIN d /\ hasFaceId(d[n], route.face)
             fm == [t.faceMap EXCEPT ![route.face] = IF keeps THEN @ ELSE SeqWithout(@, {n})]
  <2>1. v = [w EXCEPT !.rib = d,
                      !.faceMap[route.face] = IF keeps THEN @ ELSE SeqWithout(@, {n})]
    BY <1>4 DEF Applied, RibErase
  <2> HIDE DEF v, w, d, keeps
  <2>2. /\ IsService(v)
        /\ SameBatch(w, v)
        /\ v.rib = d
        /\ v.faceMap = [w.faceMap EXCEPT ![route.face] = IF keeps THEN @ ELSE SeqWithout(@, {n})]
        /\ v.busy = w.busy
        /\ v.running = w.running
        /\ v.timers = w.timers
    BY <2>1, <1>1 DEF IsService, SameBatch
  <2>3. /\ IsRib(d)
        /\ IsTree(d)
        /\ \A m : RoutesAt(d, m) =
             IF m = n THEN {x \in RoutesAt(t.rib, n) : ~SameFaceAndOrigin(x, route)}
                      ELSE RoutesAt(t.rib, m)
        /\ \A m : InheritedAt(d, m) = IF m \in DOMAIN d THEN InheritedAt(t.rib, m) ELSE {}
    <3> HIDE DEF n, route
    <3> QED
      BY <1>0, ErasedRib DEF d
  <2>4. v.faceMap = fm
    BY <1>1, <2>2
  <2>5. FaceListed(d, fm)
    <3>1. keeps <=> \E x \in RoutesAt(d, n) : x.face = route.face
      BY <2>3, EntryFacts DEF keeps, IsRib, RoutesAt
    <3> DEFINE keep == \E x \in RoutesAt(d, n) : x.face = route.face
    <3>2. FaceListed(d, [t.faceMap EXCEPT ![route.face] =
                            IF keep THEN @ ELSE SeqWithout(@, {n})])
      <4> HIDE DEF n, route
      <4> QED
        BY <1>0, <1>2, <2>3, FaceListedErased
    <3> HIDE DEF keep
    <3>3. keep = keeps
      BY <3>1 DEF keep, keeps
    <3> QED
      BY <3>2, <3>3
  <2>6. RibOK(v)
    <3> HIDE DEF fm
    <3>1. /\ fm \in [Face -> Seq(Name)]
          /\ \A f \in Face : ToSet(fm[f]) = {m \in DOMAIN d : hasFaceId(d[m], f)}
      BY <2>3, <2>5, FaceMapMeans
    <3> QED
      BY <2>2, <2>3, <2>4, <3>1, ZenonT(60) DEF RibOK
  <2>7. \A m : RoutesAt(v.rib, m) = RoutesAfter(t, b, m)
    BY <1>4, <2>2, <2>3 DEF RoutesAfter
  <2>8. SameBatch(t, v)
    BY <1>1, <2>2 DEF SameBatch
  <2>9. v.rib = Erase(t.rib, n, route)
    BY <2>2 DEF d
  <2> QED
    BY <1>1, <1>4, <2>2, <2>3, <2>6, <2>7, <2>8, <2>9 DEF v, w
<1> QED
  BY <1>3, <1>4

\* The changes of inherited routes, applied to the RIB.
LEMMA InheritEffect ==
    ASSUME NEW t, IsService(t), RibOK(t)
    PROVE  LET v == modifyInheritedRoutes(t)
           IN  /\ IsService(v)
               /\ RibOK(v)
               /\ SameBatch(t, v)
               /\ v.busy = t.busy
               /\ v.timers = t.timers
               /\ v.running => t.running
               /\ DOMAIN v.rib = DOMAIN t.rib
               /\ \A m : RoutesAt(v.rib, m) = RoutesAt(t.rib, m)
               /\ v.running => \A x \in DOMAIN t.inhUpdates : x[1] \in DOMAIN t.rib
               /\ v.running => \A m \in DOMAIN t.rib : \A f \in Face :
                    LET x == <<m, f>>
                        gains == x \in DOMAIN t.inhUpdates /\ t.inhUpdates[x]
                        loses == x \in DOMAIN t.inhUpdates /\ ~t.inhUpdates[x]
                    IN  f \in InheritedAt(v.rib, m)
                          <=> (f \in InheritedAt(t.rib, m) /\ ~loses) \/ gains
<1> DEFINE v == modifyInheritedRoutes(t)
           inh == t.inhUpdates
           names == {x[1] : x \in DOMAIN inh}
           gained(n) == {f \in Face : <<n, f>> \in DOMAIN inh /\ inh[<<n, f>>]}
           lost(n) == {f \in Face : <<n, f>> \in DOMAIN inh /\ ~inh[<<n, f>>]}
           entry(n) == [t.rib[n] EXCEPT !.inherited = (@ \ lost(n)) \cup gained(n)]
           d == [n \in DOMAIN t.rib |-> entry(n)]
<1>1. v = IF names \subseteq DOMAIN t.rib THEN [t EXCEPT !.rib = d]
                                          ELSE [t EXCEPT !.running = FALSE]
  BY DEF modifyInheritedRoutes
<1>2. CASE ~(names \subseteq DOMAIN t.rib)
  <2>1. v = [t EXCEPT !.running = FALSE]
    BY <1>1, <1>2
  <2> HIDE DEF v
  <2>2. /\ IsService(v)
        /\ SameBatch(t, v)
        /\ v.rib = t.rib
        /\ v.faceMap = t.faceMap
        /\ v.busy = t.busy
        /\ v.timers = t.timers
        /\ v.running = FALSE
    BY <2>1 DEF IsService, SameBatch
  <2>3. RibOK(v)
    BY <2>2 DEF RibOK
  <2> QED
    BY <2>2, <2>3 DEF v
<1>3. CASE names \subseteq DOMAIN t.rib
  <2>1. v = [t EXCEPT !.rib = d]
    BY <1>1, <1>3
  <2>2. ASSUME NEW n \in DOMAIN t.rib
        PROVE  /\ entry(n) \in Entry
               /\ entry(n).routes = t.rib[n].routes
               /\ entry(n).parent = t.rib[n].parent
               /\ entry(n).inherited = (t.rib[n].inherited \ lost(n)) \cup gained(n)
    <3>1. t.rib[n] \in Entry
      BY DEF RibOK, IsRib
    <3>2. gained(n) \subseteq Face
      OBVIOUS
    <3> HIDE DEF gained, lost
    <3> QED
      BY <3>1, <3>2 DEF Entry
  <2>3. DOMAIN d = DOMAIN t.rib /\ \A n \in DOMAIN t.rib : d[n] = entry(n)
    OBVIOUS
  <2> HIDE DEF v, d, entry
  <2>4. /\ IsService(v)
        /\ SameBatch(t, v)
        /\ v.rib = d
        /\ v.faceMap = t.faceMap
        /\ v.busy = t.busy
        /\ v.timers = t.timers
        /\ v.running = t.running
    BY <2>1 DEF IsService, SameBatch
  <2>5. IsRib(d)
    BY <2>2, <2>3 DEF RibOK, IsRib, RoutesOnce
  <2>6. IsTree(d)
    <3>1. \A n \in DOMAIN t.rib : /\ t.rib[n].parent = ParentIn(DOMAIN t.rib, n)
                                  /\ t.rib[n].routes # <<>>
      BY FindParentIn DEF RibOK, IsTree
    <3> QED
      BY <2>2, <2>3, <3>1, FindParentIn DEF IsTree
  <2>7. \A m : RoutesAt(d, m) = RoutesAt(t.rib, m)
    BY <2>2, <2>3 DEF RoutesAt, RoutesOf
  <2>8. RibOK(v)
    <3>1. \A n \in DOMAIN t.rib : \A f : hasFaceId(d[n], f) <=> hasFaceId(t.rib[n], f)
      BY <2>2, <2>3 DEF hasFaceId
    <3>2. /\ t.faceMap \in [Face -> Seq(Name)]
          /\ \A f \in Face : ToSet(t.faceMap[f]) = {n \in DOMAIN d : hasFaceId(d[n], f)}
      BY <2>3, <3>1 DEF RibOK
    <3> QED
      BY <2>4, <2>5, <2>6, <3>2 DEF RibOK
  <2>9. \A x \in DOMAIN inh : x[1] \in DOMAIN t.rib
    BY <1>3
  <2>10. \A m \in DOMAIN t.rib : InheritedAt(v.rib, m)
                                   = (InheritedAt(t.rib, m) \ lost(m)) \cup gained(m)
    BY <2>2, <2>3, <2>4 DEF InheritedAt
  <2>11. \A m \in DOMAIN t.rib : \A f \in Face :
                    LET x == <<m, f>>
                        gains == x \in DOMAIN t.inhUpdates /\ t.inhUpdates[x]
                        loses == x \in DOMAIN t.inhUpdates /\ ~t.inhUpdates[x]
                    IN  f \in InheritedAt(v.rib, m)
                          <=> (f \in InheritedAt(t.rib, m) /\ ~loses) \/ gains
    <3> TAKE m \in DOMAIN t.rib
    <3> TAKE f \in Face
    <3>1. /\ f \in gained(m) <=> <<m, f>> \in DOMAIN inh /\ inh[<<m, f>>]
          /\ f \in lost(m) <=> <<m, f>> \in DOMAIN inh /\ ~inh[<<m, f>>]
      OBVIOUS
    <3>2. InheritedAt(v.rib, m) = (InheritedAt(t.rib, m) \ lost(m)) \cup gained(m)
      BY <2>10
    <3> HIDE DEF gained, lost
    <3> QED
      BY <3>1, <3>2
  <2>12. DOMAIN v.rib = DOMAIN t.rib /\ \A m : RoutesAt(v.rib, m) = RoutesAt(t.rib, m)
    BY <2>3, <2>4, <2>7
  <2> QED
    BY <2>4, <2>8, <2>9, <2>11, <2>12 DEF v
<1> QED
  BY <1>2, <1>3

\* x will be known to the RIB once batch b has been applied.
KnownAfter(t, b, x) ==
    LET gains == x \in DOMAIN t.inhUpdates /\ t.inhUpdates[x]
        loses == x \in DOMAIN t.inhUpdates /\ ~t.inhUpdates[x]
        rib == IF b.action = "register" THEN Insert(t.rib, b.name, b.route)
                                        ELSE Erase(t.rib, b.name, b.route)
    IN  \/ \E r \in RoutesAfter(t, b, x[1]) : r.face = x[2]
        \/ gains
        \/ x[1] \in DOMAIN rib /\ x[2] \in InheritedAt(t.rib, x[1]) /\ ~loses

\* x is known to the RIB, as a route or as an inherited one.
Known(rib, x) ==
    (\E r \in RoutesAt(rib, x[1]) : r.face = x[2]) \/ x[2] \in InheritedAt(rib, x[1])

LEMMA SuccessEffect ==
    ASSUME NEW t, IsService(t), RibOK(t), TimersOK(t), NEW b \in Batch
    PROVE  LET v == onFibUpdateSuccess(t, b)
           IN  /\ IsService(v)
               /\ RibOK(v)
               /\ TimersOK(v)
               /\ SameBatch(t, v)
               /\ v.busy = FALSE
               /\ v.timers = {x \in t.timers : x.ev # EventOf(t, b.name, b.route)}
               /\ v.running => t.running
               /\ \A m : RoutesAt(v.rib, m) = RoutesAfter(t, b, m)
               /\ v.running => \A x \in NextHops : KnownAfter(t, b, x) => Known(v.rib, x)
<1> DEFINE a == Applied(t, b)
           i == modifyInheritedRoutes(a)
           f == [i EXCEPT !.busy = FALSE]
           v == onFibUpdateSuccess(t, b)
<1>1. v = Tell(f, b.id, "ok")
  BY DEF onFibUpdateSuccess, Applied
<1>2. /\ IsService(a)
      /\ RibOK(a)
      /\ SameBatch(t, a)
      /\ a.busy = t.busy
      /\ a.running = t.running
      /\ a.timers = {x \in t.timers : x.ev # EventOf(t, b.name, b.route)}
      /\ a.rib = IF b.action = "register" THEN Insert(t.rib, b.name, b.route)
                                          ELSE Erase(t.rib, b.name, b.route)
      /\ \A m : RoutesAt(a.rib, m) = RoutesAfter(t, b, m)
      /\ \A m : InheritedAt(a.rib, m) = IF m \in DOMAIN a.rib THEN InheritedAt(t.rib, m) ELSE {}
  BY AppliedEffect
<1> HIDE DEF a
<1>3. /\ IsService(i)
      /\ RibOK(i)
      /\ SameBatch(a, i)
      /\ i.busy = a.busy
      /\ i.timers = a.timers
      /\ i.running => a.running
      /\ DOMAIN i.rib = DOMAIN a.rib
      /\ \A m : RoutesAt(i.rib, m) = RoutesAt(a.rib, m)
      /\ i.running => \A x \in DOMAIN a.inhUpdates : x[1] \in DOMAIN a.rib
      /\ i.running => \A m \in DOMAIN a.rib : \A g \in Face :
           LET x == <<m, g>>
               gains == x \in DOMAIN a.inhUpdates /\ a.inhUpdates[x]
               loses == x \in DOMAIN a.inhUpdates /\ ~a.inhUpdates[x]
           IN  g \in InheritedAt(i.rib, m) <=> (g \in InheritedAt(a.rib, m) /\ ~loses) \/ gains
  BY <1>2, InheritEffect
<1> HIDE DEF i
<1>4. /\ IsService(f)
      /\ SameBatch(i, f)
      /\ f.rib = i.rib
      /\ f.faceMap = i.faceMap
      /\ f.timers = i.timers
      /\ f.running = i.running
      /\ f.busy = FALSE
  BY <1>3 DEF IsService, SameBatch
<1> HIDE DEF f
<1>5. /\ IsService(v)
      /\ SameBatch(f, v)
      /\ v.rib = f.rib
      /\ v.faceMap = f.faceMap
      /\ v.busy = f.busy
      /\ v.running = f.running
      /\ v.timers = f.timers
  <2> DEFINE id == b.id
             r == "ok"
  <2> HIDE DEF id, r
  <2> QED
    BY <1>1, <1>4, TellEffect DEF id, r
<1> HIDE DEF v
<1>6. RibOK(v)
  BY <1>3, <1>4, <1>5 DEF RibOK
<1>7. SameBatch(t, v)
  BY <1>2, <1>3, <1>4, <1>5 DEF SameBatch
<1>8. TimersOK(v)
  BY <1>2, <1>3, <1>4, <1>5 DEF TimersOK
<1>9. \A m : RoutesAt(v.rib, m) = RoutesAfter(t, b, m)
  BY <1>2, <1>3, <1>4, <1>5
<1>10. ASSUME v.running, NEW x \in NextHops, KnownAfter(t, b, x) PROVE Known(v.rib, x)
  <2> DEFINE gains == x \in DOMAIN t.inhUpdates /\ t.inhUpdates[x]
             loses == x \in DOMAIN t.inhUpdates /\ ~t.inhUpdates[x]
  <2>1. \/ \E r \in RoutesAfter(t, b, x[1]) : r.face = x[2]
        \/ gains
        \/ x[1] \in DOMAIN a.rib /\ x[2] \in InheritedAt(t.rib, x[1]) /\ ~loses
    BY <1>2, <1>10 DEF KnownAfter
  <2>2. x = <<x[1], x[2]>> /\ x[2] \in Face
    BY DEF NextHops
  <2>3. i.running /\ a.inhUpdates = t.inhUpdates
    BY <1>2, <1>4, <1>5, <1>10 DEF SameBatch
  <2>4. gains => x[1] \in DOMAIN a.rib
    BY <1>3, <2>3
  <2>5. x[1] \in DOMAIN a.rib =>
          (x[2] \in InheritedAt(i.rib, x[1])
             <=> (x[2] \in InheritedAt(a.rib, x[1]) /\ ~loses) \/ gains)
    BY <1>3, <2>2, <2>3
  <2>6. x[1] \in DOMAIN a.rib => InheritedAt(a.rib, x[1]) = InheritedAt(t.rib, x[1])
    BY <1>2
  <2> HIDE DEF gains, loses
  <2>7. \/ \E r \in RoutesAfter(t, b, x[1]) : r.face = x[2]
        \/ x[2] \in InheritedAt(i.rib, x[1])
    BY <2>1, <2>4, <2>5, <2>6
  <2>8. v.rib = i.rib
    BY <1>4, <1>5
  <2> QED
    BY <2>7, <2>8, <1>9 DEF Known
<1> QED
  BY <1>2, <1>3, <1>4, <1>5, <1>6, <1>7, <1>8, <1>9, <1>10 DEF v

LEMMA FailureEffect ==
    ASSUME NEW t, IsService(t), NEW b
    PROVE  LET v == onFibUpdateFailure(t, b)
           IN  /\ IsService(v)
               /\ SameBatch(t, v)
               /\ v.rib = t.rib
               /\ v.faceMap = t.faceMap
               /\ v.busy = FALSE
               /\ v.running = t.running
               /\ v.timers = t.timers
<1> DEFINE f == [t EXCEPT !.busy = FALSE]
           id == b.id
           r == "error"
<1>1. /\ IsService(f)
      /\ SameBatch(t, f)
      /\ f.rib = t.rib
      /\ f.faceMap = t.faceMap
      /\ f.busy = FALSE
      /\ f.running = t.running
      /\ f.timers = t.timers
  BY DEF IsService, SameBatch
<1>2. onFibUpdateFailure(t, b) = Tell(f, id, r)
  BY DEF onFibUpdateFailure
<1> HIDE DEF f, id, r
<1>3. /\ IsService(Tell(f, id, r))
      /\ SameBatch(f, Tell(f, id, r))
      /\ Tell(f, id, r).rib = f.rib
      /\ Tell(f, id, r).faceMap = f.faceMap
      /\ Tell(f, id, r).busy = f.busy
      /\ Tell(f, id, r).running = f.running
      /\ Tell(f, id, r).timers = f.timers
  BY <1>1, TellEffect
<1>4. SameBatch(t, Tell(f, id, r))
  BY <1>1, <1>3 DEF SameBatch
<1> QED
  BY <1>1, <1>2, <1>3, <1>4

(***************************************************************************)
(* Sending the FIB updates of a batch                                      *)
(***************************************************************************)
CommandsFor(updates, b) ==
    {[update |-> x, verb |-> Verb(x), batch |-> b, nTimeouts |-> 0] : x \in updates}

LEMMA SendEffect ==
    ASSUME NEW t, IsService(t), NEW updates, NEW b
    PROVE  LET v == sendUpdates(t, updates, b)
           IN  /\ IsService(v)
               /\ v.rib = t.rib
               /\ v.faceMap = t.faceMap
               /\ v.queue = t.queue
               /\ v.busy = t.busy
               /\ v.batchFace = t.batchFace
               /\ v.batchUpdates = t.batchUpdates
               /\ v.otherUpdates = t.otherUpdates
               /\ v.inhUpdates = t.inhUpdates
               /\ v.sent = t.sent \cup CommandsFor(updates, b)
               /\ v.timers = t.timers
               /\ v.running = t.running
               /\ v.odd = t.odd
<1> DEFINE more == CommandsFor(updates, b)
           v == sendUpdates(t, updates, b)
<1>1. v = [t EXCEPT !.sent = @ \cup more]
  BY DEF sendUpdates, CommandsFor
<1> HIDE DEF more, v
<1>2. /\ IsService(v)
      /\ v.rib = t.rib
      /\ v.faceMap = t.faceMap
      /\ v.queue = t.queue
      /\ v.busy = t.busy
      /\ v.batchFace = t.batchFace
      /\ v.batchUpdates = t.batchUpdates
      /\ v.otherUpdates = t.otherUpdates
      /\ v.inhUpdates = t.inhUpdates
      /\ v.sent = t.sent \cup more
      /\ v.timers = t.timers
      /\ v.running = t.running
      /\ v.odd = t.odd
  BY <1>1 DEF IsService
<1> QED
  BY <1>2 DEF v, more

\* A command for each of the updates, and no other.
LEMMA CommandFacts ==
    ASSUME NEW updates, NEW b
    PROVE  /\ \A c \in CommandsFor(updates, b) :
                /\ c.update \in updates
                /\ c.batch = b
                /\ c.verb = Verb(c.update)
                /\ c.nTimeouts = 0
           /\ \A c, d \in CommandsFor(updates, b) : c.update = d.update => c = d
           /\ \A x \in updates : \E c \in CommandsFor(updates, b) : c.update = x
           /\ (\A x \in updates : IsUpdate(x)) /\ b \in Batch =>
                 \A c \in CommandsFor(updates, b) : IsCommand(c)
<1> DEFINE command(x) == [update |-> x, verb |-> Verb(x), batch |-> b, nTimeouts |-> 0]
<1>1. \A c \in CommandsFor(updates, b) : \E x \in updates : c = command(x)
  BY DEF CommandsFor
<1>2. \A x \in updates : command(x) \in CommandsFor(updates, b)
  BY DEF CommandsFor
<1>3. \A x : /\ command(x).update = x
             /\ command(x).verb = Verb(x)
             /\ command(x).batch = b
             /\ command(x).nTimeouts = 0
  OBVIOUS
<1>4. ASSUME NEW x, IsUpdate(x), b \in Batch PROVE IsCommand(command(x))
  <2>1. Verb(x) \in {"add-nexthop", "remove-nexthop"}
    BY DEF Verb
  <2>2. command(x) \in [update : {x}, verb : {"add-nexthop", "remove-nexthop"}, batch : Batch,
                        nTimeouts : Nat]
    BY <2>1, <1>4
  <2> HIDE DEF command
  <2> QED
    BY <1>3, <1>4, <2>2 DEF IsCommand
<1> HIDE DEF command
<1> QED
  BY <1>1, <1>2, <1>3, <1>4

RibWith(rib, b) == IF b.action = "register" THEN Insert(rib, b.name, b.route)
                                            ELSE Erase(rib, b.name, b.route)

LEMMA ComputedBalanced ==
    ASSUME NEW rib, IsRib(rib), IsTree(rib), NEW b \in Batch
    PROVE  LET u == computeUpdates(rib, b)
               d == RibWith(rib, b)
           IN  /\ Balanced(u, OwnHops(d))
               /\ \A x \in OwnHops(rib) : x \in OwnHops(d) \/ x \in DOMAIN u.fib
               /\ b.name \notin DOMAIN d => \A f \in InheritedAt(rib, b.name) : Takes(u, <<b.name, f>>)
               /\ b.action = "register" =>
                    Adds(u, <<b.name, b.route.face>>) \/ <<b.name, b.route.face>> \in OwnHops(rib)
<1> DEFINE n == b.name
           route == b.route
<1>0. n \in Name
  BY BatchFacts
<1>1. CASE b.action = "register"
  <2> DEFINE u == computeUpdatesForRegistration(rib, n, route)
             d == Insert(rib, n, route)
  <2>1. computeUpdates(rib, b) = u /\ RibWith(rib, b) = d
    BY <1>1 DEF computeUpdates, RibWith
  <2>2. route \in Route
    BY <1>1, BatchFacts
  <2> HIDE DEF n, route
  <2>3. /\ Balanced(u, OwnHops(d))
        /\ Adds(u, <<n, route.face>>) \/ <<n, route.face>> \in OwnHops(rib)
    BY <1>0, <2>2, RegistrationBalanced
  <2>4. /\ DOMAIN d = DOMAIN rib \cup {n}
        /\ \A m : RoutesAt(d, m) =
             IF m = n THEN {x \in RoutesAt(rib, n) : ~SameFaceAndOrigin(x, route)} \cup {route}
                      ELSE RoutesAt(rib, m)
    BY <1>0, <2>2, InsertedRib
  <2> HIDE DEF u, d
  <2>5. ASSUME NEW x \in OwnHops(rib) PROVE x \in OwnHops(d)
    <3>1. x \in NextHops
      BY DEF OwnHops
    <3>2. PICK r \in RoutesAt(rib, x[1]) : r.face = x[2]
      BY DEF OwnHops
    <3>3. \E q \in RoutesAt(d, x[1]) : q.face = x[2]
      BY <2>4, <3>2 DEF SameFaceAndOrigin
    <3> QED
      BY <3>1, <3>3 DEF OwnHops
  <2> QED
    BY <2>1, <2>3, <2>4, <2>5 DEF n, route
<1>2. CASE b.action # "register"
  <2>1. /\ computeUpdates(rib, b) = computeUpdatesForUnregistration(rib, n, route)
        /\ RibWith(rib, b) = Erase(rib, n, route)
    BY <1>2 DEF computeUpdates, RibWith
  <2> DEFINE u == computeUpdatesForUnregistration(rib, n, route)
             d == Erase(rib, n, route)
  <2> HIDE DEF n, route
  <2>2. /\ Balanced(u, OwnHops(d))
        /\ \A x \in OwnHops(rib) : x \in OwnHops(d) \/ x \in DOMAIN u.fib
        /\ n \notin DOMAIN d => \A f \in InheritedAt(rib, n) : Takes(u, <<n, f>>)
    BY <1>0, UnregistrationBalanced
  <2> HIDE DEF u, d
  <2> QED
    BY <1>2, <2>1, <2>2 DEF u, d, n
<1> QED
  BY <1>1, <1>2

\* The service once it has computed the updates of the batch at the head of its queue.
Begun(v) ==
    LET b == Head(v.queue)
        t == [v EXCEPT !.busy = TRUE, !.queue = Tail(@)]
    IN  addFibUpdates(IF b.action = "register" THEN t ELSE Cancel(t, EventOf(t, b.name, b.route)),
                      b, computeUpdates(t.rib, b))

\* The update u as the FIB updater keeps it for next hop x.
UpdateFor(u, x) ==
    [name |-> x[1], face |-> x[2], action |-> u.fib[x].action, cost |-> u.fib[x].cost]

LEMMA BegunEffect ==
    ASSUME NEW v, ServiceOK(v), v.queue # <<>>
    PROVE  LET b == Head(v.queue)
               u == computeUpdates(v.rib, b)
               w == Begun(v)
           IN  /\ b \in Batch
               /\ IsService(w)
               /\ w.rib = v.rib
               /\ w.faceMap = v.faceMap
               /\ w.queue = Tail(v.queue)
               /\ w.busy = TRUE
               /\ w.batchFace = b.route.face
               /\ w.batchUpdates = {y \in {UpdateFor(u, x) : x \in DOMAIN u.fib} :
                                       y.face = b.route.face /\ b.action # "remove-face"}
               /\ w.otherUpdates = {y \in {UpdateFor(u, x) : x \in DOMAIN u.fib} :
                                       y.face # b.route.face}
               /\ w.inhUpdates = u.inh
               /\ w.sent = v.sent
               /\ w.timers = IF b.action = "register" THEN v.timers
                             ELSE {x \in v.timers : x.ev # EventOf(v, b.name, b.route)}
               /\ w.running = ~u.invalid
               /\ w.odd = IF IsPlain(v.rib, b) THEN v.odd ELSE v.odd \cup {"update"}
<1> DEFINE b == Head(v.queue)
           u == computeUpdates(v.rib, b)
           t == [v EXCEPT !.busy = TRUE, !.queue = Tail(@)]
           ev == EventOf(t, b.name, b.route)
           k == IF b.action = "register" THEN t ELSE Cancel(t, ev)
           updates == {UpdateFor(u, x) : x \in DOMAIN u.fib}
           mine == {y \in updates : y.face = b.route.face /\ b.action # "remove-face"}
           others == {y \in updates : y.face # b.route.face}
           plain == IsPlain(v.rib, b)
           w == Begun(v)
<1>0. b \in Batch
  BY HeadTailProperties DEF ServiceOK, QueueOK
<1>1. /\ IsService(t)
      /\ t.rib = v.rib
      /\ t.faceMap = v.faceMap
      /\ t.queue = Tail(v.queue)
      /\ t.busy = TRUE
      /\ t.sent = v.sent
      /\ t.timers = v.timers
      /\ t.odd = v.odd
  BY DEF ServiceOK, IsService
<1>2. ev = EventOf(v, b.name, b.route)
  BY <1>1 DEF EventOf
<1>3. w = addFibUpdates(k, b, computeUpdates(t.rib, b))
  BY DEF Begun
<1>4. /\ IsService(k)
      /\ k.rib = v.rib
      /\ k.faceMap = v.faceMap
      /\ k.queue = Tail(v.queue)
      /\ k.busy = TRUE
      /\ k.sent = v.sent
      /\ k.odd = v.odd
      /\ k.timers = IF b.action = "register" THEN v.timers
                    ELSE {x \in v.timers : x.ev # EventOf(v, b.name, b.route)}
  <2>1. /\ IsService(Cancel(t, ev))
        /\ SameBatch(t, Cancel(t, ev))
        /\ Cancel(t, ev).rib = t.rib
        /\ Cancel(t, ev).faceMap = t.faceMap
        /\ Cancel(t, ev).busy = t.busy
        /\ Cancel(t, ev).timers = {x \in t.timers : x.ev # ev}
    <3> HIDE DEF t, ev
    <3> QED
      BY <1>1, CancelEffect
  <2> HIDE DEF t, ev, b
  <2>2. CASE b.action = "register"
    BY <2>2, <1>1
  <2>3. CASE b.action # "register"
    BY <2>1, <2>3, <1>1, <1>2 DEF SameBatch
  <2> QED
    BY <2>2, <2>3
<1> HIDE DEF t, k
<1>5. w = addFibUpdates(k, b, u)
  BY <1>1, <1>3
<1>6. w = [k EXCEPT !.batchFace = b.route.face, !.batchUpdates = mine, !.otherUpdates = others,
                    !.inhUpdates = u.inh, !.running = ~u.invalid,
                    !.odd = IF IsPlain(k.rib, b) THEN @ ELSE @ \cup {"update"}]
  BY <1>5 DEF addFibUpdates, UpdateFor
<1> HIDE DEF w, b, u, mine, others
<1>7. /\ IsService(w)
      /\ w.rib = k.rib
      /\ w.faceMap = k.faceMap
      /\ w.queue = k.queue
      /\ w.busy = k.busy
      /\ w.batchFace = b.route.face
      /\ w.batchUpdates = mine
      /\ w.otherUpdates = others
      /\ w.inhUpdates = u.inh
      /\ w.sent = k.sent
      /\ w.timers = k.timers
      /\ w.running = ~u.invalid
      /\ w.odd = IF IsPlain(k.rib, b) THEN k.odd ELSE k.odd \cup {"update"}
  BY <1>4, <1>6, ZenonT(60) DEF IsService
<1> HIDE DEF updates
<1> QED
  BY <1>0, <1>4, <1>7 DEF w, b, u, mine, others, updates

LEMMA BegunUpdates ==
    ASSUME NEW v, ServiceOK(v), v.queue # <<>>
    PROVE  LET b == Head(v.queue)
               u == computeUpdates(v.rib, b)
               w == Begun(v)
           IN  /\ ServiceOK(w)
               /\ \A y \in w.batchUpdates \cup w.otherUpdates :
                    /\ <<y.name, y.face>> \in DOMAIN u.fib
                    /\ y.action = u.fib[<<y.name, y.face>>].action
               /\ \A x \in DOMAIN u.fib :
                    /\ x[2] # b.route.face => \E y \in w.otherUpdates :
                         y.name = x[1] /\ y.face = x[2] /\ y.action = u.fib[x].action
                    /\ x[2] = b.route.face /\ b.action # "remove-face" => \E y \in w.batchUpdates :
                         y.name = x[1] /\ y.face = x[2] /\ y.action = u.fib[x].action
<1> DEFINE b == Head(v.queue)
           u == computeUpdates(v.rib, b)
           w == Begun(v)
           updates == {UpdateFor(u, x) : x \in DOMAIN u.fib}
<1>1. /\ b \in Batch
      /\ IsService(w)
      /\ w.rib = v.rib
      /\ w.faceMap = v.faceMap
      /\ w.queue = Tail(v.queue)
      /\ w.batchFace = b.route.face
      /\ w.batchUpdates = {y \in updates : y.face = b.route.face /\ b.action # "remove-face"}
      /\ w.otherUpdates = {y \in updates : y.face # b.route.face}
      /\ w.sent = v.sent
      /\ w.timers = IF b.action = "register" THEN v.timers
                    ELSE {x \in v.timers : x.ev # EventOf(v, b.name, b.route)}
  BY BegunEffect
<1>2. DOMAIN u.fib \subseteq NextHops
        /\ \A x \in DOMAIN u.fib : u.fib[x].action \in {"add", "remove"}
  <2>1. IsRib(v.rib) /\ IsTree(v.rib)
    BY DEF ServiceOK, RibOK
  <2> DEFINE own == OwnHops(RibWith(v.rib, b))
  <2>2. Balanced(u, own)
    <3> HIDE DEF b
    <3> QED
      BY <1>1, <2>1, ComputedBalanced
  <2> HIDE DEF own, u
  <2> QED
    BY <2>2 DEF Balanced, Adds, Takes
<1> HIDE DEF u, b, w
<1>3. ASSUME NEW x \in DOMAIN u.fib
      PROVE  /\ x = <<x[1], x[2]>>
             /\ x[1] \in Name
             /\ x[2] \in Face
             /\ UpdateFor(u, x).name = x[1]
             /\ UpdateFor(u, x).face = x[2]
             /\ UpdateFor(u, x).action = u.fib[x].action
             /\ UpdateFor(u, x).action \in {"add", "remove"}
             /\ UpdateFor(u, x) \in updates
  BY <1>2 DEF NextHops, UpdateFor
<1>4. ASSUME NEW y \in updates
      PROVE  IsUpdate(y) /\ <<y.name, y.face>> \in DOMAIN u.fib
               /\ y.action = u.fib[<<y.name, y.face>>].action
  <2>1. PICK x \in DOMAIN u.fib : y = UpdateFor(u, x)
    OBVIOUS
  <2>2. y.name = x[1] /\ y.face = x[2] /\ x = <<x[1], x[2]>>
    BY <1>3, <2>1
  <2>3. y.action = u.fib[x].action /\ IsUpdate(y)
    BY <1>3, <2>1 DEF IsUpdate
  <2>4. x = <<y.name, y.face>>
    BY <2>2
  <2> QED
    BY <2>3, <2>4
<1> HIDE DEF updates
<1>5. ServiceOK(w)
  <2>1. QueueOK(w)
    BY <1>1, HeadTailProperties DEF ServiceOK, QueueOK
  <2>2. UpdatesOK(w)
    BY <1>1, <1>4 DEF UpdatesOK
  <2>3. SentOK(w)
    BY <1>1 DEF ServiceOK, SentOK
  <2>4. TimersOK(w)
    BY <1>1 DEF ServiceOK, TimersOK
  <2>5. RibOK(w)
    BY <1>1 DEF ServiceOK, RibOK
  <2> QED
    BY <1>1, <2>1, <2>2, <2>3, <2>4, <2>5 DEF ServiceOK
<1>6. \A y \in w.batchUpdates \cup w.otherUpdates : y \in updates
  BY <1>1
<1>7. \A x \in DOMAIN u.fib :
         /\ x[2] # b.route.face => UpdateFor(u, x) \in w.otherUpdates
         /\ x[2] = b.route.face /\ b.action # "remove-face" => UpdateFor(u, x) \in w.batchUpdates
  BY <1>1, <1>3
<1>8. \A x \in DOMAIN u.fib :
         /\ x[2] # b.route.face => \E y \in w.otherUpdates :
              y.name = x[1] /\ y.face = x[2] /\ y.action = u.fib[x].action
         /\ x[2] = b.route.face /\ b.action # "remove-face" => \E y \in w.batchUpdates :
              y.name = x[1] /\ y.face = x[2] /\ y.action = u.fib[x].action
  BY <1>3, <1>7
<1> QED
  BY <1>4, <1>5, <1>6, <1>8 DEF u, w, b

LEMMA SuccessOK ==
    ASSUME NEW t, ServiceOK(t), NEW b \in Batch
    PROVE  ServiceOK(onFibUpdateSuccess(t, b))
<1> DEFINE v == onFibUpdateSuccess(t, b)
<1>1. IsService(v) /\ RibOK(v) /\ TimersOK(v) /\ SameBatch(t, v)
  BY SuccessEffect DEF ServiceOK
<1> HIDE DEF v
<1> QED
  BY <1>1, SameBatchKeeps DEF v, ServiceOK

LEMMA FailureOK ==
    ASSUME NEW t, ServiceOK(t), NEW b
    PROVE  ServiceOK(onFibUpdateFailure(t, b))
<1> DEFINE v == onFibUpdateFailure(t, b)
<1>1. IsService(v) /\ SameBatch(t, v) /\ v.rib = t.rib /\ v.faceMap = t.faceMap
        /\ v.timers = t.timers
  BY FailureEffect DEF ServiceOK
<1> HIDE DEF v
<1>2. QueueOK(v) /\ UpdatesOK(v) /\ SentOK(v)
  BY <1>1, SameBatchKeeps DEF ServiceOK
<1>3. RibOK(v) /\ TimersOK(v)
  BY <1>1 DEF ServiceOK, RibOK, TimersOK
<1> QED
  BY <1>1, <1>2, <1>3 DEF v, ServiceOK

LEMMA SendOK ==
    ASSUME NEW t, ServiceOK(t), NEW updates, \A x \in updates : IsUpdate(x), NEW b \in Batch
    PROVE  ServiceOK(sendUpdates(t, updates, b))
<1> DEFINE v == sendUpdates(t, updates, b)
<1>1. /\ IsService(v)
      /\ v.rib = t.rib
      /\ v.faceMap = t.faceMap
      /\ v.queue = t.queue
      /\ v.batchFace = t.batchFace
      /\ v.batchUpdates = t.batchUpdates
      /\ v.otherUpdates = t.otherUpdates
      /\ v.sent = t.sent \cup CommandsFor(updates, b)
      /\ v.timers = t.timers
  BY SendEffect DEF ServiceOK
<1>2. \A c \in CommandsFor(updates, b) : IsCommand(c)
  BY CommandFacts
<1> HIDE DEF v
<1>3. SentOK(v)
  BY <1>1, <1>2 DEF ServiceOK, SentOK
<1>4. RibOK(v) /\ TimersOK(v) /\ QueueOK(v) /\ UpdatesOK(v)
  BY <1>1 DEF ServiceOK, RibOK, TimersOK, QueueOK, UpdatesOK
<1> QED
  BY <1>1, <1>3, <1>4 DEF v, ServiceOK

(***************************************************************************)
(* Progress: while a batch is in progress, every update that it waits for  *)
(* has a command under way.                                                *)
(***************************************************************************)
Pending(t) == IF t.batchUpdates # {} THEN t.batchUpdates ELSE t.otherUpdates

Covered(t) ==
    t.running /\ t.busy =>
        Pending(t) # {} /\ \A u \in Pending(t) : \E c \in t.sent : c.update = u

QueueSent(t) == t.running /\ t.queue # <<>> => t.busy

LEMMA NonBatchKeeps ==
    ASSUME NEW t, ServiceOK(t), t.batchUpdates = {}, NEW b \in Batch
    PROVE  LET v == sendUpdatesForNonBatchFaceId(t, b)
           IN  ServiceOK(v) /\ Covered(v) /\ v.queue = t.queue
<1> DEFINE v == sendUpdatesForNonBatchFaceId(t, b)
<1>1. CASE t.otherUpdates # {}
  <2> DEFINE o == t.otherUpdates
  <2>1. v = sendUpdates(t, o, b)
    BY <1>1 DEF sendUpdatesForNonBatchFaceId
  <2>2. \A x \in o : IsUpdate(x)
    BY DEF ServiceOK, UpdatesOK
  <2> HIDE DEF o
  <2>3. ServiceOK(v)
    BY <2>1, <2>2, SendOK
  <2>4. /\ v.batchUpdates = t.batchUpdates
        /\ v.otherUpdates = t.otherUpdates
        /\ v.sent = t.sent \cup CommandsFor(o, b)
        /\ v.queue = t.queue
    BY <2>1, SendEffect DEF ServiceOK
  <2>5. \A x \in o : \E c \in CommandsFor(o, b) : c.update = x
    BY CommandFacts
  <2> HIDE DEF v
  <2>6. Pending(v) = o
    BY <2>4 DEF Pending, o
  <2>7. Covered(v)
    BY <1>1, <2>4, <2>5, <2>6 DEF Covered, o
  <2> QED
    BY <2>3, <2>4, <2>7 DEF v
<1>2. CASE t.otherUpdates = {}
  <2>1. v = onFibUpdateSuccess(t, b)
    BY <1>2 DEF sendUpdatesForNonBatchFaceId
  <2> DEFINE q == onFibUpdateSuccess(t, b)
  <2>a. q.busy = FALSE /\ SameBatch(t, q)
    BY SuccessEffect DEF ServiceOK
  <2> HIDE DEF q
  <2>2. v.busy = FALSE /\ SameBatch(t, v)
    BY <2>1, <2>a DEF q
  <2>3. ServiceOK(v)
    BY <2>1, SuccessOK
  <2> HIDE DEF v
  <2> QED
    BY <2>2, <2>3 DEF Covered, SameBatch, v
<1> QED
  BY <1>1, <1>2

LEMMA NextBatchKeeps ==
    ASSUME NEW v, ServiceOK(v), v.queue # <<>>, v.running, ~v.busy
    PROVE  LET z == sendNextBatch(v)
           IN  /\ z = sendUpdatesForBatchFaceId(Begun(v), Head(v.queue))
               /\ ServiceOK(z)
               /\ Covered(z)
               /\ z.queue = Tail(v.queue)
<1> DEFINE z == sendNextBatch(v)
           b == Head(v.queue)
           w == Begun(v)
<1>1. z = sendUpdatesForBatchFaceId(w, b)
  BY DEF sendNextBatch, computeAndSendFibUpdates, Begun
<1>2. b \in Batch /\ w.queue = Tail(v.queue)
  BY BegunEffect
<1>3. ServiceOK(w)
  BY BegunUpdates
<1> HIDE DEF w, b
<1>4. CASE w.batchUpdates = {}
  <2>1. z = sendUpdatesForNonBatchFaceId(w, b)
    BY <1>1, <1>4 DEF sendUpdatesForBatchFaceId
  <2> HIDE DEF z
  <2>2. ServiceOK(z) /\ Covered(z) /\ z.queue = w.queue
    BY <1>2, <1>3, <1>4, <2>1, NonBatchKeeps
  <2> QED
    BY <1>1, <1>2, <2>2 DEF w, b, z
<1>5. CASE w.batchUpdates # {}
  <2> DEFINE o == w.batchUpdates
  <2>1. z = sendUpdates(w, o, b)
    BY <1>1, <1>5 DEF sendUpdatesForBatchFaceId
  <2>2. \A x \in o : IsUpdate(x)
    BY <1>3 DEF ServiceOK, UpdatesOK
  <2> HIDE DEF o, z
  <2>3. ServiceOK(z)
    BY <1>2, <1>3, <2>1, <2>2, SendOK
  <2>4. /\ z.batchUpdates = w.batchUpdates
        /\ z.sent = w.sent \cup CommandsFor(o, b)
        /\ z.queue = w.queue
    BY <1>3, <2>1, SendEffect DEF ServiceOK
  <2>5. \A x \in o : \E c \in CommandsFor(o, b) : c.update = x
    BY CommandFacts
  <2>6. Pending(z) = o
    BY <1>5, <2>4 DEF Pending, o
  <2>7. Covered(z)
    BY <1>5, <2>4, <2>5, <2>6 DEF Covered, o
  <2> QED
    BY <1>1, <1>2, <2>3, <2>4, <2>7 DEF w, b, z
<1> QED
  BY <1>4, <1>5

(***************************************************************************)
(* The loop of sendBatchFromQueue, as the run of its rounds                *)
(***************************************************************************)
IsSending(f, t) ==
    /\ f[0] = t
    /\ \A i \in 1 .. Len(t.queue) : f[i] = sendNextBatch(f[i - 1])

LEMMA SendingRuns ==
    ASSUME NEW t, Len(t.queue) \in Nat
    PROVE  \E f : IsSending(f, t) /\ sendBatchFromQueue(t) = f[Len(t.queue)]
<1> DEFINE n == Len(t.queue)
           R(f, i) == IF i = 0 THEN t ELSE sendNextBatch(f[i - 1])
           Part(m) == \E f : f = [i \in 0 .. m |-> R(f, i)]
           P == {m \in Nat : Part(m)}
<1>1. 0 \in P
  <2> DEFINE g == [i \in 0 .. 0 |-> t]
  <2>1. g = [i \in 0 .. 0 |-> R(g, i)]
    OBVIOUS
  <2> QED
    BY <2>1
<1>2. ASSUME NEW m \in Nat, m \in P PROVE m + 1 \in P
  <2>1. PICK f : f = [i \in 0 .. m |-> R(f, i)]
    BY <1>2
  <2> DEFINE g == [i \in 0 .. m + 1 |-> IF i <= m THEN f[i] ELSE R(f, i)]
  <2>2. ASSUME NEW i \in 0 .. m + 1 PROVE g[i] = R(g, i)
    <3>1. i # 0 => i - 1 \in 0 .. m /\ g[i - 1] = f[i - 1]
      OBVIOUS
    <3>2. R(g, i) = R(f, i)
      BY <3>1
    <3>3. i <= m => f[i] = R(f, i)
      BY <2>1
    <3>4. g[i] = R(f, i)
      BY <3>3
    <3> QED
      BY <3>2, <3>4
  <2>3. g = [i \in 0 .. m + 1 |-> R(g, i)]
    BY <2>2
  <2> HIDE DEF g, R
  <2>4. Part(m + 1)
    BY <2>3
  <2> QED
    BY <2>4
<1>3. n \in P
  <2> HIDE DEF P, n
  <2> QED
    BY <1>1, <1>2, NatInductionOnSet DEF n
<1> DEFINE after == CHOOSE f : f = [i \in 0 .. n |-> R(f, i)]
<1>4. after = [i \in 0 .. n |-> R(after, i)]
  BY <1>3
<1>5. sendBatchFromQueue(t) = after[n]
  BY DEF sendBatchFromQueue
<1>6. after[0] = t /\ \A i \in 1 .. n : after[i] = sendNextBatch(after[i - 1])
  <2> HIDE DEF after
  <2> QED
    BY <1>4
<1> HIDE DEF after
<1> QED
  BY <1>5, <1>6 DEF IsSending

\* A round either does nothing or takes the update at the head of the queue.
LEMMA SendingSteps ==
    ASSUME NEW t, ServiceOK(t), NEW f, IsSending(f, t)
    PROVE  LET n == Len(t.queue)
           IN  /\ n \in Nat
               /\ \A i \in 0 .. n : ServiceOK(f[i])
               /\ f[n].running /\ ~f[n].busy => f[n].queue = <<>>
               /\ \A i \in 1 .. n :
                    \/ f[i] = f[i - 1]
                    \/ /\ f[i - 1].running
                       /\ ~f[i - 1].busy
                       /\ f[i - 1].queue # <<>>
                       /\ f[i] = sendNextBatch(f[i - 1])
<1> DEFINE n == Len(t.queue)
           Good(i) == /\ ServiceOK(f[i])
                      /\ f[i].running /\ ~f[i].busy => Len(f[i].queue) = n - i
           P == {i \in Nat : i <= n => Good(i)}
<1>1. n \in Nat
  BY LenProperties DEF ServiceOK, QueueOK
<1>2. f[0] = t /\ \A i \in 1 .. n : f[i] = sendNextBatch(f[i - 1])
  BY DEF IsSending
<1>3. 0 \in P
  BY <1>1, <1>2
<1>4. ASSUME NEW i \in 1 .. n, Good(i - 1)
      PROVE  /\ Good(i)
             /\ \/ f[i] = f[i - 1]
                \/ f[i - 1].running /\ ~f[i - 1].busy /\ f[i - 1].queue # <<>>
  <2> DEFINE v == f[i - 1]
             z == f[i]
             k == Len(v.queue)
  <2>0. z = sendNextBatch(v)
    BY <1>2
  <2>1. CASE ~(v.running /\ ~v.busy)
    <3>1. z = v
      BY <2>0, <2>1 DEF sendNextBatch
    <3> QED
      BY <1>4, <2>1, <3>1
  <2>2. CASE v.running /\ ~v.busy
    <3>1. ServiceOK(v) /\ k = n - (i - 1)
      BY <1>4, <2>2
    <3>2. v.queue \in Seq(Batch)
      BY <3>1 DEF ServiceOK, QueueOK
    <3>3. k > 0
      BY <1>1, <3>1
    <3>4. v.queue # <<>>
      BY <3>2, <3>3
    <3> HIDE DEF v
    <3>5. ServiceOK(z) /\ z.queue = Tail(v.queue)
      BY <2>0, <2>2, <3>1, <3>4, NextBatchKeeps
    <3>6. Len(z.queue) = k - 1
      BY <3>2, <3>4, <3>5, HeadTailProperties
    <3> HIDE DEF k, z
    <3>7. Len(z.queue) = n - i
      BY <1>1, <3>1, <3>6
    <3> QED
      BY <2>2, <3>4, <3>5, <3>7 DEF v, z
  <2> QED
    BY <2>1, <2>2
<1> HIDE DEF Good
<1>5. ASSUME NEW i \in Nat, i \in P PROVE i + 1 \in P
  <2>1. i + 1 <= n => i + 1 \in 1 .. n /\ (i + 1) - 1 = i /\ Good(i)
    BY <1>1, <1>5
  <2> QED
    BY <1>4, <2>1
<1>6. \A i \in 0 .. n : Good(i)
  <2> HIDE DEF P
  <2>1. Nat \subseteq P
    BY <1>3, <1>5, NatInductionOnSet
  <2> QED
    BY <1>1, <2>1 DEF P
<1>7. f[n].running /\ ~f[n].busy => f[n].queue = <<>>
  <2>1. Good(n) /\ n - n = 0
    BY <1>1, <1>6
  <2>2. f[n].queue \in Seq(Batch)
    BY <2>1 DEF Good, ServiceOK, QueueOK
  <2>3. Len(f[n].queue) = 0 => f[n].queue = <<>>
    BY <2>2
  <2> QED
    BY <2>1, <2>3 DEF Good
<1>8. \A i \in 1 .. n : Good(i - 1)
  BY <1>1, <1>6
<1>9. \A i \in 0 .. n : ServiceOK(f[i])
  BY <1>6 DEF Good
<1> HIDE DEF n
<1>10. \A i \in 1 .. n :
         \/ f[i] = f[i - 1]
         \/ f[i - 1].running /\ ~f[i - 1].busy /\ f[i - 1].queue # <<>>
              /\ f[i] = sendNextBatch(f[i - 1])
  BY <1>2, <1>4, <1>8
<1> QED
  BY <1>1, <1>7, <1>9, <1>10 DEF n

LEMMA SendingKeeps ==
    ASSUME NEW t, ServiceOK(t), Covered(t)
    PROVE  LET v == sendBatchFromQueue(t)
           IN  ServiceOK(v) /\ Covered(v) /\ QueueSent(v)
<1> DEFINE n == Len(t.queue)
<1>0. n \in Nat
  BY LenProperties DEF ServiceOK, QueueOK
<1>1. PICK f : IsSending(f, t) /\ sendBatchFromQueue(t) = f[n]
  BY <1>0, SendingRuns
<1>2. /\ \A i \in 0 .. n : ServiceOK(f[i])
      /\ f[n].running /\ ~f[n].busy => f[n].queue = <<>>
      /\ \A i \in 1 .. n :
           \/ f[i] = f[i - 1]
           \/ f[i - 1].running /\ ~f[i - 1].busy /\ f[i - 1].queue # <<>>
                /\ f[i] = sendNextBatch(f[i - 1])
  BY <1>1, SendingSteps
<1> DEFINE S == {f[i] : i \in {j \in 0 .. n : Covered(f[j])}}
<1>3. f[0] \in S
  BY <1>0, <1>1 DEF IsSending
<1>4. ASSUME NEW i \in 1 .. n, f[i - 1] \in S PROVE f[i] \in S
  <2>1. Covered(f[i - 1])
    BY <1>4
  <2>2. ServiceOK(f[i - 1]) /\ i \in 0 .. n
    BY <1>0, <1>2
  <2> DEFINE p == f[i - 1]
             q == f[i]
  <2>3. q = p \/ (p.running /\ ~p.busy /\ p.queue # <<>> /\ q = sendNextBatch(p))
    BY <1>2
  <2>4. Covered(q)
    <3> HIDE DEF p, q
    <3>1. CASE q = p
      BY <2>1, <3>1 DEF p
    <3>2. CASE p.running /\ ~p.busy /\ p.queue # <<>> /\ q = sendNextBatch(p)
      BY <2>2, <3>2, NextBatchKeeps DEF p
    <3> QED
      BY <2>3, <3>1, <3>2
  <2> QED
    BY <2>2, <2>4
<1>5. f[n] \in S
  <2> HIDE DEF S, n
  <2> QED
    BY <1>0, <1>3, <1>4, LoopKeeps
<1>6. Covered(f[n]) /\ ServiceOK(f[n])
  BY <1>0, <1>2, <1>5
<1> QED
  BY <1>1, <1>2, <1>6 DEF QueueSent

(***************************************************************************)
(* Answers. Without(r, c) is the service r after command c was answered,   *)
(* and DropBatch and DropOther after its update left the lists.            *)
(***************************************************************************)
Without(r, c) == [r EXCEPT !.sent = @ \ {c}]
DropBatch(t, c) == [t EXCEPT !.batchUpdates = @ \ {c.update}]
DropOther(t, c) == [t EXCEPT !.otherUpdates = @ \ {c.update}]

LEMMA WithoutEffect ==
    ASSUME NEW r, IsService(r), NEW c
    PROVE  LET t == Without(r, c)
           IN  /\ IsService(t)
               /\ t.rib = r.rib
               /\ t.faceMap = r.faceMap
               /\ t.queue = r.queue
               /\ t.busy = r.busy
               /\ t.batchFace = r.batchFace
               /\ t.batchUpdates = r.batchUpdates
               /\ t.otherUpdates = r.otherUpdates
               /\ t.inhUpdates = r.inhUpdates
               /\ t.sent = r.sent \ {c}
               /\ t.timers = r.timers
               /\ t.running = r.running
               /\ t.odd = r.odd
BY DEF Without, IsService

LEMMA DropBatchEffect ==
    ASSUME NEW t, IsService(t), NEW c
    PROVE  LET v == DropBatch(t, c)
           IN  /\ IsService(v)
               /\ v.rib = t.rib
               /\ v.faceMap = t.faceMap
               /\ v.queue = t.queue
               /\ v.busy = t.busy
               /\ v.batchFace = t.batchFace
               /\ v.batchUpdates = t.batchUpdates \ {c.update}
               /\ v.otherUpdates = t.otherUpdates
               /\ v.inhUpdates = t.inhUpdates
               /\ v.sent = t.sent
               /\ v.timers = t.timers
               /\ v.running = t.running
               /\ v.odd = t.odd
BY DEF DropBatch, IsService

LEMMA DropOtherEffect ==
    ASSUME NEW t, IsService(t), NEW c
    PROVE  LET v == DropOther(t, c)
           IN  /\ IsService(v)
               /\ v.rib = t.rib
               /\ v.faceMap = t.faceMap
               /\ v.queue = t.queue
               /\ v.busy = t.busy
               /\ v.batchFace = t.batchFace
               /\ v.batchUpdates = t.batchUpdates
               /\ v.otherUpdates = t.otherUpdates \ {c.update}
               /\ v.inhUpdates = t.inhUpdates
               /\ v.sent = t.sent
               /\ v.timers = t.timers
               /\ v.running = t.running
               /\ v.odd = t.odd
BY DEF DropOther, IsService

LEMMA AnsweredKeeps ==
    ASSUME NEW r, ServiceOK(r), Covered(r), NEW c \in r.sent
    PROVE  LET t == Without(r, c)
           IN  /\ c.batch \in Batch
               /\ ServiceOK(t)
               /\ ServiceOK(DropBatch(t, c))
               /\ ServiceOK(DropOther(t, c))
               /\ DropBatch(t, c).batchUpdates # {} => Covered(DropBatch(t, c))
               /\ c.update.face # t.batchFace /\ DropOther(t, c).otherUpdates # {} =>
                    Covered(DropOther(t, c))
<1> DEFINE t == Without(r, c)
           x == DropBatch(t, c)
           y == DropOther(t, c)
<1>0. IsService(r)
  BY DEF ServiceOK
<1>1. /\ IsService(t)
      /\ t.rib = r.rib
      /\ t.faceMap = r.faceMap
      /\ t.queue = r.queue
      /\ t.busy = r.busy
      /\ t.batchFace = r.batchFace
      /\ t.batchUpdates = r.batchUpdates
      /\ t.otherUpdates = r.otherUpdates
      /\ t.sent = r.sent \ {c}
      /\ t.timers = r.timers
      /\ t.running = r.running
  BY <1>0, WithoutEffect
<1>a. IsService(t)
  BY <1>1
<1> HIDE DEF t
<1>2. /\ IsService(x)
      /\ x.rib = t.rib
      /\ x.faceMap = t.faceMap
      /\ x.queue = t.queue
      /\ x.busy = t.busy
      /\ x.batchFace = t.batchFace
      /\ x.batchUpdates = t.batchUpdates \ {c.update}
      /\ x.otherUpdates = t.otherUpdates
      /\ x.sent = t.sent
      /\ x.timers = t.timers
      /\ x.running = t.running
  BY <1>a, DropBatchEffect
<1>3. /\ IsService(y)
      /\ y.rib = t.rib
      /\ y.faceMap = t.faceMap
      /\ y.queue = t.queue
      /\ y.busy = t.busy
      /\ y.batchFace = t.batchFace
      /\ y.batchUpdates = t.batchUpdates
      /\ y.otherUpdates = t.otherUpdates \ {c.update}
      /\ y.sent = t.sent
      /\ y.timers = t.timers
      /\ y.running = t.running
  BY <1>a, DropOtherEffect
<1> HIDE DEF x, y
<1>4. c.batch \in Batch
  BY DEF ServiceOK, SentOK, IsCommand
<1>5. ServiceOK(t)
  BY <1>1 DEF ServiceOK, RibOK, QueueOK, UpdatesOK, SentOK, TimersOK
<1>6. ServiceOK(x)
  BY <1>2, <1>5 DEF ServiceOK, RibOK, QueueOK, UpdatesOK, SentOK, TimersOK
<1>7. ServiceOK(y)
  BY <1>3, <1>5 DEF ServiceOK, RibOK, QueueOK, UpdatesOK, SentOK, TimersOK
<1>8. ASSUME x.batchUpdates # {} PROVE Covered(x)
  <2>1. Pending(x) = x.batchUpdates /\ Pending(r) = r.batchUpdates
    BY <1>1, <1>2, <1>8 DEF Pending
  <2>2. ASSUME r.running, r.busy, NEW u \in x.batchUpdates PROVE \E d \in x.sent : d.update = u
    <3>1. u \in r.batchUpdates /\ u # c.update
      BY <1>1, <1>2
    <3>2. PICK d \in r.sent : d.update = u
      BY <2>1, <2>2, <3>1 DEF Covered
    <3> QED
      BY <1>1, <1>2, <3>1, <3>2
  <2> QED
    BY <1>1, <1>2, <1>8, <2>1, <2>2 DEF Covered
<1>9. ASSUME c.update.face # t.batchFace, y.otherUpdates # {} PROVE Covered(y)
  <2>1. Pending(y) \subseteq Pending(r) /\ Pending(y) # {}
    BY <1>1, <1>3, <1>9 DEF Pending
  <2>2. c.update \notin Pending(y)
    BY <1>1, <1>3, <1>9 DEF Pending, ServiceOK, UpdatesOK
  <2>3. ASSUME r.running, r.busy, NEW u \in Pending(y) PROVE \E d \in y.sent : d.update = u
    <3>1. u \in Pending(r) /\ u # c.update
      BY <2>1, <2>2
    <3>2. PICK d \in r.sent : d.update = u
      BY <2>3, <3>1 DEF Covered
    <3> QED
      BY <1>1, <1>3, <3>1, <3>2
  <2> QED
    BY <1>1, <1>3, <2>1, <2>3 DEF Covered
<1> QED
  BY <1>4, <1>5, <1>6, <1>7, <1>8, <1>9 DEF t, x, y

\* An update of another face is done, whatever the answer was.
OtherDone(t, c) ==
    IF DropOther(t, c).otherUpdates = {} THEN onFibUpdateSuccess(DropOther(t, c), c.batch)
                                         ELSE DropOther(t, c)

LEMMA AnswersMean ==
    ASSUME NEW t, NEW c
    PROVE  /\ c.update.face = t.batchFace =>
                /\ onUpdateSuccess(t, c) =
                     IF DropBatch(t, c).batchUpdates = {}
                       THEN sendUpdatesForNonBatchFaceId(DropBatch(t, c), c.batch)
                       ELSE DropBatch(t, c)
                /\ onFaceNotFound(t, c) =
                     onFibUpdateFailure(IF t.sent = {} THEN t ELSE Odd(t, "answer"), c.batch)
           /\ c.update.face # t.batchFace =>
                onUpdateSuccess(t, c) = OtherDone(t, c) /\ onFaceNotFound(t, c) = OtherDone(t, c)
<1>1. ASSUME c.update.face = t.batchFace
      PROVE  onUpdateSuccess(t, c) =
                     IF DropBatch(t, c).batchUpdates = {}
                       THEN sendUpdatesForNonBatchFaceId(DropBatch(t, c), c.batch)
                       ELSE DropBatch(t, c)
  BY <1>1 DEF onUpdateSuccess, DropBatch
<1>2. ASSUME c.update.face = t.batchFace
      PROVE  onFaceNotFound(t, c) =
                     onFibUpdateFailure(IF t.sent = {} THEN t ELSE Odd(t, "answer"), c.batch)
  BY <1>2 DEF onFaceNotFound
<1>3. ASSUME c.update.face # t.batchFace PROVE onUpdateSuccess(t, c) = OtherDone(t, c)
  BY <1>3 DEF onUpdateSuccess, OtherDone, DropOther
<1>4. ASSUME c.update.face # t.batchFace PROVE onFaceNotFound(t, c) = OtherDone(t, c)
  BY <1>4 DEF onFaceNotFound, OtherDone, DropOther
<1> QED
  BY <1>1, <1>2, <1>3, <1>4

LEMMA OddEffect ==
    ASSUME NEW t, IsService(t), NEW kind
    PROVE  LET v == Odd(t, kind)
           IN  /\ IsService(v)
               /\ v.rib = t.rib
               /\ v.faceMap = t.faceMap
               /\ v.queue = t.queue
               /\ v.busy = t.busy
               /\ v.batchFace = t.batchFace
               /\ v.batchUpdates = t.batchUpdates
               /\ v.otherUpdates = t.otherUpdates
               /\ v.inhUpdates = t.inhUpdates
               /\ v.sent = t.sent
               /\ v.timers = t.timers
               /\ v.running = t.running
               /\ v.odd = t.odd \cup {kind}
BY DEF Odd, IsService

LEMMA OddKeeps ==
    ASSUME NEW t, ServiceOK(t), NEW kind
    PROVE  ServiceOK(Odd(t, kind)) /\ (Covered(t) => Covered(Odd(t, kind)))
<1> DEFINE v == Odd(t, kind)
<1>1. /\ IsService(v)
      /\ v.rib = t.rib
      /\ v.faceMap = t.faceMap
      /\ v.queue = t.queue
      /\ v.busy = t.busy
      /\ v.batchFace = t.batchFace
      /\ v.batchUpdates = t.batchUpdates
      /\ v.otherUpdates = t.otherUpdates
      /\ v.sent = t.sent
      /\ v.timers = t.timers
      /\ v.running = t.running
  BY OddEffect DEF ServiceOK
<1> HIDE DEF v
<1>2. ServiceOK(v)
  BY <1>1 DEF ServiceOK, RibOK, QueueOK, UpdatesOK, SentOK, TimersOK
<1>3. Covered(t) => Covered(v)
  BY <1>1 DEF Covered, Pending
<1> QED
  BY <1>2, <1>3 DEF v

LEMMA AnswersKeep ==
    ASSUME NEW r, ServiceOK(r), Covered(r), NEW c \in r.sent
    PROVE  LET t == Without(r, c)
           IN  /\ ServiceOK(onUpdateSuccess(t, c)) /\ Covered(onUpdateSuccess(t, c))
               /\ ServiceOK(onFaceNotFound(t, c)) /\ Covered(onFaceNotFound(t, c))
<1> DEFINE t == Without(r, c)
           b == c.batch
           x == DropBatch(t, c)
           y == DropOther(t, c)
<1>1. /\ b \in Batch
      /\ ServiceOK(t)
      /\ ServiceOK(x)
      /\ ServiceOK(y)
      /\ x.batchUpdates # {} => Covered(x)
      /\ c.update.face # t.batchFace /\ y.otherUpdates # {} => Covered(y)
  BY AnsweredKeeps
<1> HIDE DEF t, b
<1>2. CASE c.update.face = t.batchFace
  <2>1. /\ onUpdateSuccess(t, c) =
             IF x.batchUpdates = {} THEN sendUpdatesForNonBatchFaceId(x, b) ELSE x
        /\ onFaceNotFound(t, c) = onFibUpdateFailure(IF t.sent = {} THEN t ELSE Odd(t, "answer"), b)
    BY <1>2, AnswersMean DEF b
  <2> DEFINE q == sendUpdatesForNonBatchFaceId(x, b)
  <2>2. ASSUME x.batchUpdates = {} PROVE ServiceOK(q) /\ Covered(q)
    <3> HIDE DEF x
    <3> QED
      BY <1>1, <2>2, NonBatchKeeps
  <2> DEFINE kind == "answer"
             p == IF t.sent = {} THEN t ELSE Odd(t, kind)
             z == onFibUpdateFailure(p, b)
  <2>3. ServiceOK(p)
    <3> HIDE DEF kind
    <3>1. ServiceOK(Odd(t, kind))
      BY <1>1, OddKeeps
    <3> QED
      BY <1>1, <3>1
  <2> HIDE DEF p
  <2>4. ServiceOK(z) /\ z.busy = FALSE
    BY <2>3, FailureOK, FailureEffect DEF ServiceOK
  <2> HIDE DEF q, z, x
  <2>5. Covered(z)
    BY <2>4 DEF Covered
  <2>6. onFaceNotFound(t, c) = z
    BY <2>1 DEF z, p
  <2>7. onUpdateSuccess(t, c) = IF x.batchUpdates = {} THEN q ELSE x
    BY <2>1 DEF q
  <2> QED
    BY <1>1, <2>2, <2>4, <2>5, <2>6, <2>7 DEF t
<1>3. CASE c.update.face # t.batchFace
  <2>1. /\ onUpdateSuccess(t, c) = OtherDone(t, c)
        /\ onFaceNotFound(t, c) = OtherDone(t, c)
    BY <1>3, AnswersMean
  <2> DEFINE q == onFibUpdateSuccess(y, b)
  <2>2. ServiceOK(q) /\ q.busy = FALSE
    <3> HIDE DEF y
    <3>1. ServiceOK(q)
      BY <1>1, SuccessOK
    <3>2. q.busy = FALSE
      BY <1>1, SuccessEffect DEF ServiceOK
    <3> QED
      BY <3>1, <3>2
  <2>3. OtherDone(t, c) = IF y.otherUpdates = {} THEN q ELSE y
    BY DEF OtherDone, b
  <2> HIDE DEF q, y
  <2>4. Covered(q)
    BY <2>2 DEF Covered
  <2> QED
    BY <1>1, <1>3, <2>1, <2>2, <2>3, <2>4 DEF t
<1> QED
  BY <1>2, <1>3

(***************************************************************************)
(* The removals of the routes of a face                                    *)
(***************************************************************************)
FaceRemoval(f) == {b \in Batch : b.action = "remove-face" /\ b.route.face = f}

LEMMA FaceRemovalsAre ==
    ASSUME NEW t, RibOK(t), NEW f \in Face
    PROVE  FaceRemovals(t, f) \in Seq(FaceRemoval(f))
<1> DEFINE names == t.faceMap[f]
           n == Len(names)
           T == FaceRemoval(f)
           S == Seq(T)
           mine(e) == SeqWithout(e.routes, {r \in ToSet(e.routes) : r.face # f})
           ofEntry(m) == [i \in 1 .. Len(mine(t.rib[m])) |->
                             Update("remove-face", m, mine(t.rib[m])[i], 0)]
           R(g, i) == IF i = 0 THEN <<>> ELSE g[i - 1] \o ofEntry(names[i])
           upTo == CHOOSE g : g = [i \in 0 .. n |-> R(g, i)]
<1>1. FaceRemovals(t, f) = upTo[n]
  BY DEF FaceRemovals
<1>2. names \in Seq(Name) /\ n \in Nat
  <2>1. names \in Seq(Name)
    BY DEF RibOK
  <2> HIDE DEF names
  <2> QED
    BY <2>1, LenProperties
<1>3. ASSUME NEW i \in 1 .. n
      PROVE names[i] \in DOMAIN t.rib /\ t.rib[names[i]] \in Entry /\ names[i] \in Name
  <2>1. names[i] \in ToSet(names)
    BY <1>2 DEF ToSet
  <2> HIDE DEF names
  <2>2. names[i] \in DOMAIN t.rib
    BY <2>1, SMTT(60) DEF RibOK, names
  <2> QED
    BY <2>2 DEF RibOK, IsRib
<1>4. ASSUME NEW i \in 1 .. n PROVE ofEntry(names[i]) \in S
  <2> DEFINE m == names[i]
             e == t.rib[m]
             gone == {r \in ToSet(e.routes) : r.face # f}
             l == mine(e)
  <2>1. e.routes \in Seq(Route) /\ m \in Name
    BY <1>3 DEF Entry
  <2>2. l = SeqWithout(e.routes, gone)
    OBVIOUS
  <2>3. l \in Seq(Route) /\ Members(l) = Members(e.routes) \ gone
    <3> HIDE DEF e, gone, l
    <3> QED
      BY <2>1, <2>2, SeqWithoutMembers
  <2>4. \A r \in Members(l) : r \in Route /\ r.face = f
    <3>1. \A r \in Members(e.routes) : r \in ToSet(e.routes) /\ r \in Route
      <4> HIDE DEF e
      <4> QED
        BY <2>1, LenProperties DEF Members, ToSet
    <3> HIDE DEF e, l
    <3> QED
      BY <2>3, <3>1
  <2> HIDE DEF l, m
  <2>5. ofEntry(m) = [j \in 1 .. Len(l) |-> Update("remove-face", m, l[j], 0)]
    BY DEF l
  <2>6. \A j \in 1 .. Len(l) : Update("remove-face", m, l[j], 0) \in T
    <3> SUFFICES ASSUME NEW j \in 1 .. Len(l) PROVE Update("remove-face", m, l[j], 0) \in T
      OBVIOUS
    <3>1. l[j] \in Route /\ l[j].face = f
      BY <2>4 DEF Members
    <3> QED
      BY <2>1, <3>1 DEF Update, FaceRemoval, Batch, Actions, Target
  <2>7. Len(l) \in Nat
    BY <2>3, LenProperties
  <2> DEFINE k == Len(l)
             g == [j \in 1 .. k |-> Update("remove-face", m, l[j], 0)]
  <2>8. g \in Seq(T)
    <3> HIDE DEF k
    <3>1. k \in Nat /\ \A j \in 1 .. k : Update("remove-face", m, l[j], 0) \in T
      BY <2>6, <2>7 DEF k
    <3> HIDE DEF T
    <3>2. g \in [1 .. k -> T]
      BY <3>1
    <3> HIDE DEF g
    <3> QED
      BY <3>1, <3>2, SeqDef
  <2> QED
    BY <2>5, <2>8 DEF m
<1> HIDE DEF ofEntry, names, T
<1>5. \A x \in S : \A i \in 1 .. n : x \o ofEntry(names[i]) \in S
  BY <1>4, ConcatProperties
<1> DEFINE F == [i \in 1 .. n |-> [x \in S |-> x \o ofEntry(names[i])]]
<1>6. \E g : g = [i \in 0 .. n |-> R(g, i)]
  <2> DEFINE b == <<>>
  <2>1. F \in [1 .. n -> [S -> S]] /\ b \in S
    <3> HIDE DEF S
    <3>1. F \in [1 .. n -> [S -> S]]
      BY <1>5
    <3>2. <<>> \in Seq(T)
      BY EmptySeq
    <3> QED
      BY <3>1, <3>2 DEF S
  <2>2. PICK g : IsRun(g, S, b, n, F)
    <3> HIDE DEF F, S, n, b
    <3> QED
      BY <1>2, <2>1, LoopRuns
  <2>3. g \in [0 .. n -> S] /\ g[0] = <<>> /\ \A i \in 1 .. n : g[i] = F[i][g[i - 1]]
    BY <2>2 DEF IsRun
  <2> HIDE DEF S, n
  <2>4. ASSUME NEW i \in 1 .. n PROVE g[i] = g[i - 1] \o ofEntry(names[i])
    <3>1. i - 1 \in 0 .. n
      BY <1>2
    <3>2. g[i - 1] \in S
      BY <2>3, <3>1
    <3> QED
      BY <2>3, <3>2
  <2>5. ASSUME NEW i \in 0 .. n PROVE g[i] = R(g, i)
    <3>1. CASE i = 0
      BY <2>3, <3>1
    <3>2. CASE i # 0
      <4>1. i \in 1 .. n
        BY <1>2, <3>2
      <4>2. g[i] = g[i - 1] \o ofEntry(names[i])
        BY <2>4, <4>1
      <4> QED
        BY <3>2, <4>2
    <3> QED
      BY <3>1, <3>2
  <2>6. g = [i \in 0 .. n |-> R(g, i)]
    <3> HIDE DEF R
    <3> QED
      BY <2>3, <2>5
  <2> QED
    BY <2>6
<1>7. upTo = [i \in 0 .. n |-> R(upTo, i)]
  BY <1>6
<1> HIDE DEF upTo, S, n
<1>8. upTo[0] = <<>> /\ \A i \in 1 .. n : upTo[i] = upTo[i - 1] \o ofEntry(names[i])
  BY <1>2, <1>7
<1>9. upTo[0] \in S /\ \A i \in 1 .. n : upTo[i - 1] \in S => upTo[i] \in S
  BY <1>5, <1>8, EmptySeq DEF S
<1>10. upTo[n] \in S
  BY <1>2, <1>9, LoopKeeps
<1> QED
  BY <1>1, <1>10 DEF S, T, n

(***************************************************************************)
(* New updates for the queue                                               *)
(***************************************************************************)
SameWork(t, v) ==
    /\ v.rib = t.rib
    /\ v.faceMap = t.faceMap
    /\ v.busy = t.busy
    /\ v.batchFace = t.batchFace
    /\ v.batchUpdates = t.batchUpdates
    /\ v.otherUpdates = t.otherUpdates
    /\ v.inhUpdates = t.inhUpdates
    /\ v.sent = t.sent
    /\ v.running = t.running

LEMMA SameWorkKeeps ==
    ASSUME NEW t, ServiceOK(t), NEW v, IsService(v), SameWork(t, v), QueueOK(v), TimersOK(v)
    PROVE  ServiceOK(v) /\ (Covered(t) => Covered(v))
<1>1. RibOK(v) /\ UpdatesOK(v) /\ SentOK(v)
  BY DEF SameWork, ServiceOK, RibOK, UpdatesOK, SentOK
<1>2. Covered(t) => Covered(v)
  BY DEF SameWork, Covered, Pending
<1> QED
  BY <1>1, <1>2 DEF ServiceOK

LEMMA EnqueueEffect ==
    ASSUME NEW t, ServiceOK(t), NEW b \in Batch
    PROVE  LET v == Enqueue(t, b)
           IN  /\ IsService(v)
               /\ SameWork(t, v)
               /\ v.queue = Append(t.queue, b)
               /\ v.timers = t.timers
               /\ v.odd = t.odd
               /\ QueueOK(v)
               /\ TimersOK(v)
<1> DEFINE v == Enqueue(t, b)
<1>1. /\ IsService(v)
      /\ SameWork(t, v)
      /\ v.queue = Append(t.queue, b)
      /\ v.timers = t.timers
      /\ v.odd = t.odd
  BY DEF Enqueue, ServiceOK, IsService, SameWork
<1> HIDE DEF v
<1>2. QueueOK(v) /\ TimersOK(v)
  BY <1>1, AppendProperties DEF ServiceOK, QueueOK, TimersOK
<1> QED
  BY <1>1, <1>2 DEF v

\* The service with the event and the callbacks of a request.
Requested(t, timers) == [t EXCEPT !.timers = @ \cup timers, !.results = Append(@, <<>>)]

LEMMA RequestedEffect ==
    ASSUME NEW t, ServiceOK(t), NEW timers, timers \subseteq Timer
    PROVE  LET v == Requested(t, timers)
           IN  /\ ServiceOK(v)
               /\ SameWork(t, v)
               /\ v.queue = t.queue
               /\ v.timers = t.timers \cup timers
               /\ v.odd = t.odd
               /\ Covered(t) => Covered(v)
<1> DEFINE v == Requested(t, timers)
<1>1. /\ IsService(v)
      /\ SameWork(t, v)
      /\ v.queue = t.queue
      /\ v.timers = t.timers \cup timers
      /\ v.odd = t.odd
  BY DEF Requested, ServiceOK, IsService, SameWork
<1> HIDE DEF v
<1>2. QueueOK(v) /\ TimersOK(v)
  BY <1>1 DEF ServiceOK, QueueOK, TimersOK
<1>3. ServiceOK(v) /\ (Covered(t) => Covered(v))
  BY <1>1, <1>2, SameWorkKeeps
<1> QED
  BY <1>1, <1>3 DEF v

TimersFor(n, route, id) ==
    IF route.ev = 0 THEN {} ELSE {[ev |-> id, name |-> n, route |-> route]}

LEMMA AddRouteMeans ==
    ASSUME NEW t, ServiceOK(t), NEW n \in Name, NEW route \in Route, NEW id \in Nat
    PROVE  LET b == Update("register", n, route, id)
           IN  /\ b \in Batch
               /\ TimersFor(n, route, id) \subseteq Timer
               /\ beginAddRoute(t, n, route, id) =
                    sendBatchFromQueue(Enqueue(Requested(t, TimersFor(n, route, id)), b))
<1> DEFINE b == Update("register", n, route, id)
           x == [ev |-> id, name |-> n, route |-> route]
           k == IF route.ev = 0 THEN t ELSE [t EXCEPT !.timers = @ \cup {x}]
           timers == TimersFor(n, route, id)
<1>1. b \in Batch
  BY DEF Update, Batch, Actions, Target
<1>2. timers \subseteq Timer
  BY DEF TimersFor, Timer
<1>3. beginAddRoute(t, n, route, id) =
        sendBatchFromQueue(Enqueue([k EXCEPT !.results = Append(@, <<>>)], b))
  BY DEF beginAddRoute, beginRibUpdate, beginApplyUpdate
<1>4. [k EXCEPT !.results = Append(@, <<>>)] = Requested(t, timers)
  <2>1. CASE route.ev = 0
    <3>1. k = t /\ timers = {}
      BY <2>1 DEF TimersFor
    <3> DEFINE q == Append(t.results, <<>>)
    <3>2. t.timers \cup {} = t.timers
      OBVIOUS
    <3>3. [t EXCEPT !.results = q] = [t EXCEPT !.timers = t.timers, !.results = q]
      <4> HIDE DEF q
      <4> QED
        BY DEF ServiceOK, IsService
    <3> QED
      BY <3>1, <3>2, <3>3 DEF Requested
  <2>2. CASE route.ev # 0
    <3> DEFINE new == {x}
    <3>1. k = [t EXCEPT !.timers = @ \cup new] /\ timers = new
      BY <2>2 DEF TimersFor
    <3> HIDE DEF new, k
    <3>2. k.results = t.results
      BY <3>1 DEF ServiceOK, IsService
    <3> QED
      BY <3>1, <3>2 DEF Requested, ServiceOK, IsService
  <2> QED
    BY <2>1, <2>2
<1> QED
  BY <1>1, <1>2, <1>3, <1>4

LEMMA RemoveRouteMeans ==
    ASSUME NEW t, ServiceOK(t), NEW n \in Name, NEW route \in Target, NEW id \in Nat
    PROVE  LET b == Update("unregister", n, route, id)
           IN  /\ b \in Batch
               /\ beginRemoveRoute(t, n, route, id) = sendBatchFromQueue(Enqueue(Requested(t, {}), b))
<1> DEFINE b == Update("unregister", n, route, id)
           q == Append(t.results, <<>>)
<1>1. b \in Batch
  BY DEF Update, Batch, Actions
<1>2. beginRemoveRoute(t, n, route, id) = sendBatchFromQueue(Enqueue([t EXCEPT !.results = q], b))
  BY DEF beginRemoveRoute, beginRibUpdate, beginApplyUpdate
<1>3. [t EXCEPT !.results = q] = Requested(t, {})
  <2>1. t.timers \cup {} = t.timers
    OBVIOUS
  <2>2. [t EXCEPT !.results = q] = [t EXCEPT !.timers = t.timers, !.results = q]
    <3> HIDE DEF q
    <3> QED
      BY DEF ServiceOK, IsService
  <2> QED
    BY <2>1, <2>2 DEF Requested
<1> QED
  BY <1>1, <1>2, <1>3

LEMMA ExpiredEffect ==
    ASSUME NEW t, ServiceOK(t), NEW x \in t.timers
    PROVE  LET v == [t EXCEPT !.timers = @ \ {x}]
               b == Update("unregister", x.name, x.route, 0)
           IN  /\ b \in Batch
               /\ ServiceOK(v)
               /\ SameWork(t, v)
               /\ v.queue = t.queue
               /\ v.timers = t.timers \ {x}
               /\ v.odd = t.odd
               /\ Covered(t) => Covered(v)
<1> DEFINE v == [t EXCEPT !.timers = @ \ {x}]
           b == Update("unregister", x.name, x.route, 0)
<1>1. /\ IsService(v)
      /\ SameWork(t, v)
      /\ v.queue = t.queue
      /\ v.timers = t.timers \ {x}
      /\ v.odd = t.odd
  BY DEF ServiceOK, IsService, SameWork
<1>2. x \in Timer
  BY DEF ServiceOK, TimersOK
<1>3. b \in Batch
  BY <1>2 DEF Timer, Update, Batch, Actions, Target
<1> HIDE DEF v
<1>4. QueueOK(v) /\ TimersOK(v)
  BY <1>1 DEF ServiceOK, QueueOK, TimersOK
<1>5. ServiceOK(v) /\ (Covered(t) => Covered(v))
  BY <1>1, <1>4, SameWorkKeeps
<1> QED
  BY <1>1, <1>3, <1>5 DEF v

LEMMA RemoveFaceEffect ==
    ASSUME NEW t, ServiceOK(t), NEW f \in Face
    PROVE  LET v == [t EXCEPT !.queue = @ \o FaceRemovals(t, f)]
           IN  /\ ServiceOK(v)
               /\ SameWork(t, v)
               /\ v.queue = t.queue \o FaceRemovals(t, f)
               /\ v.timers = t.timers
               /\ v.odd = t.odd
               /\ Covered(t) => Covered(v)
<1> DEFINE l == FaceRemovals(t, f)
           v == [t EXCEPT !.queue = @ \o l]
<1>1. l \in Seq(FaceRemoval(f))
  BY FaceRemovalsAre DEF ServiceOK
<1>2. l \in Seq(Batch)
  <2>1. Len(l) \in Nat /\ DOMAIN l = 1 .. Len(l) /\ \A i \in 1 .. Len(l) : l[i] \in Batch
    <3> HIDE DEF l
    <3> QED
      BY <1>1, ElementOfSeq, LenProperties DEF FaceRemoval
  <2>2. l \in [1 .. Len(l) -> Batch]
    <3>1. l \in [1 .. Len(l) -> FaceRemoval(f)]
      <4> HIDE DEF l
      <4> QED
        BY <1>1, LenProperties
    <3> HIDE DEF l
    <3> QED
      BY <3>1 DEF FaceRemoval
  <2> HIDE DEF l
  <2> QED
    BY <2>1, <2>2, SeqDef
<1> HIDE DEF l
<1>3. /\ IsService(v)
      /\ SameWork(t, v)
      /\ v.queue = t.queue \o l
      /\ v.timers = t.timers
      /\ v.odd = t.odd
  BY DEF ServiceOK, IsService, SameWork
<1> HIDE DEF v
<1>4. QueueOK(v) /\ TimersOK(v)
  <2>1. t.queue \in Seq(Batch)
    BY DEF ServiceOK, QueueOK
  <2>2. t.queue \o l \in Seq(Batch)
    BY <1>2, <2>1, ConcatProperties
  <2> QED
    BY <1>3, <2>2 DEF ServiceOK, QueueOK, TimersOK
<1>5. ServiceOK(v) /\ (Covered(t) => Covered(v))
  BY <1>3, <1>4, SameWorkKeeps
<1> QED
  BY <1>3, <1>5 DEF v, l

\* The command that follows one that timed out.
Again(c) == [c EXCEPT !.verb = "add-nexthop", !.nTimeouts = @ + 1]

LEMMA TimeoutEffect ==
    ASSUME NEW r, ServiceOK(r), NEW c \in r.sent
    PROVE  LET d == Again(c)
               v == onUpdateTimeout(Without(r, c), c)
           IN  /\ IsCommand(d)
               /\ d.update = c.update
               /\ d.batch = c.batch
               /\ d.verb = "add-nexthop"
               /\ ServiceOK(v)
               /\ v.rib = r.rib
               /\ v.queue = r.queue
               /\ v.busy = r.busy
               /\ v.batchFace = r.batchFace
               /\ v.batchUpdates = r.batchUpdates
               /\ v.otherUpdates = r.otherUpdates
               /\ v.inhUpdates = r.inhUpdates
               /\ v.timers = r.timers
               /\ v.running => r.running /\ v.sent = (r.sent \ {c}) \cup {d}
               /\ v.odd = r.odd \/ v.odd = r.odd \cup {"retry"}
               /\ v.running /\ c.verb # "add-nexthop" => "retry" \in v.odd
<1> DEFINE d == Again(c)
           t == Without(r, c)
           v == onUpdateTimeout(t, c)
           kind == "retry"
           o == IF c.verb = "add-nexthop" THEN t ELSE Odd(t, kind)
<1>0. IsService(r)
  BY DEF ServiceOK
<1>1. /\ IsService(t)
      /\ t.rib = r.rib
      /\ t.faceMap = r.faceMap
      /\ t.queue = r.queue
      /\ t.busy = r.busy
      /\ t.batchFace = r.batchFace
      /\ t.batchUpdates = r.batchUpdates
      /\ t.otherUpdates = r.otherUpdates
      /\ t.inhUpdates = r.inhUpdates
      /\ t.sent = r.sent \ {c}
      /\ t.timers = r.timers
      /\ t.running = r.running
      /\ t.odd = r.odd
  BY <1>0, WithoutEffect
<1>2. IsCommand(c)
  BY DEF ServiceOK, SentOK
<1>3. IsCommand(d) /\ d.update = c.update /\ d.batch = c.batch /\ d.verb = "add-nexthop"
  <2>1. c.nTimeouts + 1 \in Nat
    BY <1>2 DEF IsCommand
  <2>2. /\ d \in [update : {c.update}, verb : {"add-nexthop", "remove-nexthop"}, batch : Batch,
                  nTimeouts : Nat]
        /\ d.update = c.update
        /\ d.batch = c.batch
        /\ d.verb = "add-nexthop"
    BY <1>2, <2>1 DEF IsCommand, Again
  <2> HIDE DEF d
  <2> QED
    BY <1>2, <2>2 DEF IsCommand
<1>4. \A x \in t.sent : IsCommand(x)
  BY <1>1 DEF ServiceOK, SentOK
<1> HIDE DEF t, d
<1>5. CASE ~(c.nTimeouts < MAX_NUM_TIMEOUTS)
  <2>1. v = [t EXCEPT !.running = FALSE]
    BY <1>5 DEF onUpdateTimeout
  <2> HIDE DEF v
  <2>2. /\ IsService(v)
        /\ v.rib = r.rib
        /\ v.faceMap = r.faceMap
        /\ v.queue = r.queue
        /\ v.busy = r.busy
        /\ v.batchFace = r.batchFace
        /\ v.batchUpdates = r.batchUpdates
        /\ v.otherUpdates = r.otherUpdates
        /\ v.inhUpdates = r.inhUpdates
        /\ v.sent = t.sent
        /\ v.timers = r.timers
        /\ v.running = FALSE
        /\ v.odd = r.odd
    BY <1>1, <2>1 DEF IsService
  <2>3. ServiceOK(v)
    BY <1>4, <2>2 DEF ServiceOK, RibOK, QueueOK, UpdatesOK, SentOK, TimersOK
  <2> QED
    BY <1>3, <2>2, <2>3 DEF v, t, d
<1>6. CASE c.nTimeouts < MAX_NUM_TIMEOUTS
  <2> DEFINE one == {d}
  <2>1. v = [o EXCEPT !.sent = @ \cup one]
    BY <1>6 DEF onUpdateTimeout, d, Again
  <2>2. /\ IsService(o)
        /\ o.rib = r.rib
        /\ o.faceMap = r.faceMap
        /\ o.queue = r.queue
        /\ o.busy = r.busy
        /\ o.batchFace = r.batchFace
        /\ o.batchUpdates = r.batchUpdates
        /\ o.otherUpdates = r.otherUpdates
        /\ o.inhUpdates = r.inhUpdates
        /\ o.sent = t.sent
        /\ o.timers = r.timers
        /\ o.running = r.running
    <3> HIDE DEF kind
    <3>1. CASE c.verb = "add-nexthop"
      BY <1>1, <3>1
    <3>2. CASE c.verb # "add-nexthop"
      <4>1. o = Odd(t, kind)
        BY <3>2
      <4> DEFINE q == Odd(t, kind)
      <4>2. /\ IsService(q)
            /\ q.rib = t.rib
            /\ q.faceMap = t.faceMap
            /\ q.queue = t.queue
            /\ q.busy = t.busy
            /\ q.batchFace = t.batchFace
            /\ q.batchUpdates = t.batchUpdates
            /\ q.otherUpdates = t.otherUpdates
            /\ q.inhUpdates = t.inhUpdates
            /\ q.sent = t.sent
            /\ q.timers = t.timers
            /\ q.running = t.running
        BY <1>1, OddEffect
      <4> HIDE DEF q, o
      <4>3. o = q
        BY <4>1 DEF q
      <4> QED
        BY <1>1, <4>2, <4>3
    <3> QED
      BY <3>1, <3>2
  <2>3. /\ c.verb = "add-nexthop" => o.odd = r.odd
        /\ c.verb # "add-nexthop" => o.odd = r.odd \cup {"retry"}
    BY <1>1 DEF Odd, IsService
  <2> HIDE DEF o, v, one
  <2>4. /\ IsService(v)
        /\ v.rib = r.rib
        /\ v.faceMap = r.faceMap
        /\ v.queue = r.queue
        /\ v.busy = r.busy
        /\ v.batchFace = r.batchFace
        /\ v.batchUpdates = r.batchUpdates
        /\ v.otherUpdates = r.otherUpdates
        /\ v.inhUpdates = r.inhUpdates
        /\ v.sent = t.sent \cup one
        /\ v.timers = r.timers
        /\ v.running = r.running
        /\ v.odd = o.odd
    BY <2>1, <2>2 DEF IsService
  <2>5. v.sent = (r.sent \ {c}) \cup {d}
    BY <1>1, <2>4 DEF one
  <2>6. \A x \in v.sent : IsCommand(x)
    BY <1>3, <1>4, <1>1, <2>5
  <2>7. ServiceOK(v)
    BY <2>4, <2>6 DEF ServiceOK, RibOK, QueueOK, UpdatesOK, SentOK, TimersOK
  <2>8. (v.odd = r.odd \/ v.odd = r.odd \cup {"retry"})
          /\ (c.verb # "add-nexthop" => "retry" \in v.odd)
    BY <2>3, <2>4
  <2> QED
    BY <1>3, <2>4, <2>5, <2>7, <2>8 DEF v, t, d
<1> QED
  BY <1>5, <1>6

LEMMA StoppedEffect ==
    ASSUME NEW t, ServiceOK(t)
    PROVE  LET v == [t EXCEPT !.running = FALSE]
           IN  ServiceOK(v) /\ Covered(v) /\ v.running = FALSE /\ v.queue = t.queue
<1> DEFINE v == [t EXCEPT !.running = FALSE]
<1>1. /\ IsService(v)
      /\ v.rib = t.rib
      /\ v.faceMap = t.faceMap
      /\ v.queue = t.queue
      /\ v.batchFace = t.batchFace
      /\ v.batchUpdates = t.batchUpdates
      /\ v.otherUpdates = t.otherUpdates
      /\ v.sent = t.sent
      /\ v.timers = t.timers
      /\ v.running = FALSE
  BY DEF ServiceOK, IsService
<1> HIDE DEF v
<1>2. ServiceOK(v)
  BY <1>1 DEF ServiceOK, RibOK, QueueOK, UpdatesOK, SentOK, TimersOK
<1>3. Covered(v)
  BY <1>1 DEF Covered
<1> QED
  BY <1>1, <1>2, <1>3 DEF v

-----------------------------------------------------------------------------
(* The specification *)

OthersOK ==
    /\ faces \in [Face -> {"new", "up", "down"}]
    /\ requests \in Nat

ServiceInv == OthersOK /\ ServiceOK(s) /\ Covered(s) /\ QueueSent(s)

LEMMA InitService == Init => ServiceInv
<1> SUFFICES ASSUME Init PROVE ServiceInv
  OBVIOUS
<1>1. OthersOK
  BY DEF Init, OthersOK
<1>2. /\ IsService(s)
      /\ s.rib = NoChange
      /\ s.faceMap = [f \in Face |-> <<>>]
      /\ s.queue = <<>>
      /\ s.busy = FALSE
      /\ s.batchUpdates = {}
      /\ s.otherUpdates = {}
      /\ s.sent = {}
      /\ s.timers = {}
  BY DEF Init, IsService
<1>3. DOMAIN s.rib = {}
  BY <1>2 DEF NoChange
<1>4. RibOK(s)
  <2>1. s.faceMap \in [Face -> Seq(Name)] /\ \A f \in Face : s.faceMap[f] = <<>>
    <3>1. <<>> \in Seq(Name)
      BY EmptySeq
    <3> QED
      BY <1>2, <3>1
  <2>2. ToSet(<<>>) = {}
    BY DEF ToSet
  <2> QED
    BY <1>3, <2>1, <2>2 DEF RibOK, IsRib, IsTree
<1>5. QueueOK(s)
  BY <1>2, EmptySeq DEF QueueOK
<1>6. UpdatesOK(s) /\ SentOK(s) /\ TimersOK(s) /\ Covered(s) /\ QueueSent(s)
  BY <1>2 DEF UpdatesOK, SentOK, TimersOK, Covered, QueueSent
<1> QED
  BY <1>1, <1>2, <1>4, <1>5, <1>6 DEF ServiceInv, ServiceOK

\* What the service is once an answer to c with the given code has been handled.
AnswerTo(t, c, code) ==
    CASE code = 200 -> onUpdateSuccess(Without(t, c), c)
      [] code = 410 -> onFaceNotFound(Without(t, c), c)
      [] OTHER -> [t EXCEPT !.running = FALSE]

LEMMA ExecuteCode ==
    ASSUME NEW c
    PROVE  Execute(c).code \in {200, 410, 414}
<1>1. removeNextHop(c).code = 200
  BY DEF removeNextHop
<1>2. addNextHop(c).code \in {200, 410, 414}
  BY DEF addNextHop
<1> QED
  BY <1>1, <1>2 DEF Execute

LEMMA RespondMeans ==
    ASSUME NEW c, Respond(c)
    PROVE  /\ fib' = Execute(c).fib
           /\ s' = sendBatchFromQueue(AnswerTo(s, c, Execute(c).code))
           /\ UNCHANGED <<faces, registered, destroyed, fetched, fetches, requests>>
BY DEF Respond, AnswerTo, Answered, Without

LEMMA AnswerKeeps ==
    ASSUME NEW t, ServiceOK(t), Covered(t), NEW c \in t.sent, NEW code
    PROVE  ServiceOK(AnswerTo(t, c, code)) /\ Covered(AnswerTo(t, c, code))
<1> DEFINE w == Without(t, c)
           x == onUpdateSuccess(w, c)
           y == onFaceNotFound(w, c)
           z == [t EXCEPT !.running = FALSE]
<1>1. ServiceOK(x) /\ Covered(x) /\ ServiceOK(y) /\ Covered(y)
  BY AnswersKeep
<1>2. ServiceOK(z) /\ Covered(z)
  BY StoppedEffect
<1>3. AnswerTo(t, c, code) = x \/ AnswerTo(t, c, code) = y \/ AnswerTo(t, c, code) = z
  <2>1. CASE code = 200
    BY <2>1 DEF AnswerTo
  <2>2. CASE code = 410
    BY <2>2 DEF AnswerTo
  <2>3. CASE code # 200 /\ code # 410
    BY <2>3 DEF AnswerTo
  <2> QED
    BY <2>1, <2>2, <2>3
<1> HIDE DEF x, y, z
<1> QED
  BY <1>1, <1>2, <1>3

LEMMA NextService == ServiceInv /\ [Next]_vars => ServiceInv'
<1> SUFFICES ASSUME ServiceInv, [Next]_vars PROVE ServiceInv'
  OBVIOUS
<1> DEFINE t == s
           v == s'
           Good(q) == ServiceOK(q) /\ Covered(q)
<1>0. OthersOK /\ ServiceOK(t) /\ Covered(t) /\ QueueSent(t)
  BY DEF ServiceInv
<1>1. ASSUME ServiceOK(v), Covered(v), QueueSent(v), OthersOK' PROVE ServiceInv'
  BY <1>1 DEF ServiceInv, ServiceOK, Covered, QueueSent, IsService, RibOK, QueueOK, UpdatesOK,
     SentOK, TimersOK, Pending
<1>2. ASSUME NEW q, Good(q), v = sendBatchFromQueue(q), OthersOK' PROVE ServiceInv'
  <2>1. ServiceOK(sendBatchFromQueue(q)) /\ Covered(sendBatchFromQueue(q))
          /\ QueueSent(sendBatchFromQueue(q))
    BY <1>2, SendingKeeps
  <2> HIDE DEF v
  <2> QED
    BY <1>1, <1>2, <2>1
<1>3. ASSUME NEW q, Good(q), NEW b \in Batch, v = sendBatchFromQueue(Enqueue(q, b)), OthersOK'
      PROVE  ServiceInv'
  <2> DEFINE e == Enqueue(q, b)
  <2>1. IsService(e) /\ SameWork(q, e) /\ QueueOK(e) /\ TimersOK(e)
    BY <1>3, EnqueueEffect
  <2> HIDE DEF e, v
  <2>2. Good(e)
    BY <1>3, <2>1, SameWorkKeeps
  <2> QED
    BY <1>2, <1>3, <2>2 DEF e
<1>4. ASSUME UNCHANGED faces, UNCHANGED requests PROVE OthersOK'
  BY <1>0, <1>4 DEF OthersOK
<1>5. ASSUME UNCHANGED s, OthersOK' PROVE ServiceInv'
  BY <1>0, <1>1, <1>5
<1>6. ASSUME NEW c \in s.sent, Respond(c) PROVE ServiceInv'
  <2> DEFINE code == Execute(c).code
             q == AnswerTo(t, c, code)
  <2>1. v = sendBatchFromQueue(q) /\ UNCHANGED faces /\ UNCHANGED requests
    BY <1>6, RespondMeans
  <2>2. Good(q)
    <3> HIDE DEF code, t
    <3> QED
      BY <1>0, <1>6, AnswerKeeps DEF t
  <2> HIDE DEF q, Good, v
  <2> QED
    BY <1>2, <1>4, <2>1, <2>2
<1>7. ASSUME NEW c \in s.sent, Timeout(c) PROVE ServiceInv'
  <2> DEFINE d == Again(c)
             w == Without(t, c)
  <2>1. v = onUpdateTimeout(w, c) /\ UNCHANGED faces /\ UNCHANGED requests
    BY <1>7 DEF Timeout, Answered, Without
  <2> DEFINE o == onUpdateTimeout(w, c)
  <2>2. /\ d.update = c.update
        /\ ServiceOK(o)
        /\ o.queue = t.queue
        /\ o.busy = t.busy
        /\ o.batchUpdates = t.batchUpdates
        /\ o.otherUpdates = t.otherUpdates
        /\ o.running => t.running /\ o.sent = (t.sent \ {c}) \cup {d}
    BY <1>0, <1>7, TimeoutEffect
  <2> HIDE DEF o, d
  <2>3. Covered(o)
    <3>1. Pending(o) = Pending(t)
      BY <2>2 DEF Pending
    <3>2. ASSUME o.running, o.busy, NEW u \in Pending(o) PROVE \E x \in o.sent : x.update = u
      <4>1. PICK x \in t.sent : x.update = u
        BY <1>0, <2>2, <3>1, <3>2 DEF Covered
      <4> QED
        BY <2>2, <3>2, <4>1
    <3> QED
      BY <1>0, <2>2, <3>1, <3>2 DEF Covered
  <2>4. QueueSent(o)
    BY <1>0, <2>2 DEF QueueSent
  <2>5. v = o
    BY <2>1 DEF o
  <2> HIDE DEF v
  <2> QED
    BY <1>1, <1>4, <2>1, <2>2, <2>3, <2>4, <2>5
<1>8. ASSUME NEW x \in s.timers, onRouteExpiration(x) PROVE ServiceInv'
  <2> DEFINE q == [t EXCEPT !.timers = @ \ {x}]
             b == Update("unregister", x.name, x.route, 0)
  <2>1. v = sendBatchFromQueue(Enqueue(q, b)) /\ UNCHANGED faces /\ UNCHANGED requests
    BY <1>8 DEF onRouteExpiration, beginApplyUpdate
  <2>2. b \in Batch /\ Good(q)
    BY <1>0, <1>8, ExpiredEffect
  <2> HIDE DEF q, b, Good, v
  <2> QED
    BY <1>3, <1>4, <2>1, <2>2
<1>9. ASSUME NEW n \in Name, NEW f \in Face, NEW o \in Origin, unregisterEntry(n, f, o)
      PROVE  ServiceInv'
  <2> DEFINE route == [face |-> f, origin |-> o]
             id == requests + 1
             no == {}
             q == Requested(t, no)
             b == Update("unregister", n, route, id)
  <2>1. v = beginRemoveRoute(t, n, route, id) /\ UNCHANGED faces /\ requests' = requests + 1
    BY <1>9 DEF unregisterEntry
  <2>2. id \in Nat /\ route \in Target
    BY <1>0 DEF OthersOK, Target
  <2>3. OthersOK'
    BY <1>0, <2>1 DEF OthersOK
  <2>4. b \in Batch /\ v = sendBatchFromQueue(Enqueue(q, b))
    <3> HIDE DEF id, route, v
    <3> QED
      BY <1>0, <2>1, <2>2, RemoveRouteMeans DEF no
  <2>5. Good(q)
    <3>1. no \subseteq Timer
      OBVIOUS
    <3> HIDE DEF no
    <3> QED
      BY <1>0, <3>1, RequestedEffect
  <2> HIDE DEF q, b, Good, v
  <2> QED
    BY <1>3, <2>3, <2>4, <2>5
<1>10. ASSUME NEW n \in Name, NEW f \in Face, NEW o \in Origin, NEW cost \in Cost,
              NEW ci \in BOOLEAN, NEW cap \in BOOLEAN, NEW expires \in Expiring,
              registerEntry(n, f, o, cost, ci, cap, expires)
       PROVE  ServiceInv'
  <2> DEFINE id == requests + 1
             ev == IF expires THEN id ELSE 0
             route == [face |-> f, origin |-> o, cost |-> cost, ci |-> ci, cap |-> cap, ev |-> ev]
             timers == TimersFor(n, route, id)
             q == Requested(t, timers)
             b == Update("register", n, route, id)
  <2>1. v = beginAddRoute(t, n, route, id) /\ UNCHANGED faces /\ requests' = requests + 1
    BY <1>10 DEF registerEntry
  <2>2. id \in Nat /\ ev \in Nat
    BY <1>0 DEF OthersOK
  <2>3. route \in Route
    <3> HIDE DEF ev
    <3> QED
      BY <2>2 DEF Route
  <2>4. OthersOK'
    BY <1>0, <2>1 DEF OthersOK
  <2>5. b \in Batch /\ timers \subseteq Timer /\ v = sendBatchFromQueue(Enqueue(q, b))
    <3> HIDE DEF id, route, v
    <3> QED
      BY <1>0, <2>1, <2>2, <2>3, AddRouteMeans
  <2>6. Good(q)
    <3> HIDE DEF timers
    <3> QED
      BY <1>0, <2>5, RequestedEffect
  <2> HIDE DEF q, b, Good, v
  <2> QED
    BY <1>3, <2>4, <2>5, <2>6
<1>11. ASSUME NEW f \in Face, CreateFace(f) \/ DestroyFace(f) PROVE ServiceInv'
  <2>1. UNCHANGED s /\ UNCHANGED requests
          /\ \E x \in {"up", "down"} : faces' = [faces EXCEPT ![f] = x]
    BY <1>11 DEF CreateFace, DestroyFace
  <2>2. OthersOK'
    BY <1>0, <2>1 DEF OthersOK
  <2> QED
    BY <1>5, <2>1, <2>2
<1>12. ASSUME NEW f \in Face, onFaceDestroyedEvent(f) PROVE ServiceInv'
  <2> DEFINE kind == "stale"
             p == IF faces[f] = "down" THEN t ELSE Odd(t, kind)
             q == [p EXCEPT !.queue = @ \o FaceRemovals(p, f)]
  <2>1. v = sendBatchFromQueue(q) /\ UNCHANGED faces /\ UNCHANGED requests
    BY <1>12 DEF onFaceDestroyedEvent, beginRemoveFace
  <2>2. Good(p)
    <3> HIDE DEF kind, t
    <3>1. Good(t)
      BY <1>0
    <3>2. Good(Odd(t, kind))
      BY <1>0, OddKeeps
    <3> HIDE DEF Good
    <3> QED
      BY <3>1, <3>2
  <2>3. Good(q)
    <3> HIDE DEF p
    <3> QED
      BY <2>2, RemoveFaceEffect
  <2> HIDE DEF q, Good, v
  <2> QED
    BY <1>2, <1>4, <2>1, <2>3
<1>13. ASSUME fetchActiveFaces PROVE ServiceInv'
  BY <1>4, <1>5, <1>13 DEF fetchActiveFaces
<1>14. ASSUME NEW active \in fetched,
              removeInvalidFaces(active) \/ onFetchActiveFacesFailure(active)
       PROVE  ServiceInv'
  BY <1>4, <1>5, <1>14 DEF removeInvalidFaces, onFetchActiveFacesFailure
<1>15. CASE UNCHANGED vars
  BY <1>4, <1>5, <1>15 DEF vars
<1>16. CASE Next
  BY <1>6, <1>7, <1>8, <1>9, <1>10, <1>11, <1>12, <1>13, <1>14, <1>16 DEF Next
<1> QED
  BY <1>15, <1>16

(* m_faceMap and the pointers between parents and children agree with the names and
   routes of the RIB after every sequence of requests, expirations, face events and
   answers: what insert and erase maintain piecemeal is what the names say. *)
THEOREM TreeAlwaysMatches == Spec => []TreeMatchesNames
<1>1. ServiceInv => TreeMatchesNames
  BY DEF ServiceInv, ServiceOK, RibOK, IsTree, TreeMatchesNames
<1> QED
  BY <1>1, InitService, NextService, PTL DEF Spec

(* An update is in progress only while a command of it is under way, and the queue is
   not empty only then: whatever the answers and their order, m_isUpdateInProgress is
   never left set with nothing to clear it. *)
THEOREM UpdatesNeverStuck == Spec => []NeverStuck
<1>1. ServiceInv => NeverStuck
  <2> SUFFICES ASSUME ServiceInv, s.running, s.sent = {} PROVE ~s.busy /\ s.queue = <<>>
    BY DEF NeverStuck
  <2>1. Covered(s) /\ QueueSent(s)
    BY DEF ServiceInv
  <2>2. ~s.busy
    BY <2>1 DEF Covered
  <2> QED
    BY <2>1, <2>2 DEF QueueSent
<1> QED
  BY <1>1, InitService, NextService, PTL DEF Spec

(***************************************************************************)
(* One batch at a time. As long as no batch failed with a command under    *)
(* way, the commands under way are for different updates of one batch.     *)
(***************************************************************************)
Orderly(t) == t.running /\ "answer" \notin t.odd

OneBatch(t) ==
    /\ ~t.busy => t.sent = {}
    /\ \A c \in t.sent : c.update \in Pending(t) /\ c.batch.route.face = t.batchFace
    /\ \A c, d \in t.sent : c.batch = d.batch /\ (c.update = d.update => c = d)

\* The service with the commands for the pending updates of batch b sent.
IsSent(t, b, v) ==
    /\ Pending(t) # {}
    /\ IsService(v)
    /\ SameWork([t EXCEPT !.sent = v.sent], v)
    /\ v.queue = t.queue
    /\ v.timers = t.timers
    /\ v.odd = t.odd
    /\ v.sent = t.sent \cup CommandsFor(Pending(t), b)

LEMMA SendShape ==
    ASSUME NEW t, IsService(t), Pending(t) # {}, NEW b
    PROVE  IsSent(t, b, sendUpdates(t, Pending(t), b))
<1> DEFINE p == Pending(t)
           v == sendUpdates(t, p, b)
           w == [t EXCEPT !.sent = v.sent]
<1> HIDE DEF p
<1>1. /\ IsService(v)
      /\ v.rib = t.rib
      /\ v.faceMap = t.faceMap
      /\ v.queue = t.queue
      /\ v.busy = t.busy
      /\ v.batchFace = t.batchFace
      /\ v.batchUpdates = t.batchUpdates
      /\ v.otherUpdates = t.otherUpdates
      /\ v.inhUpdates = t.inhUpdates
      /\ v.sent = t.sent \cup CommandsFor(p, b)
      /\ v.timers = t.timers
      /\ v.running = t.running
      /\ v.odd = t.odd
  BY SendEffect
<1> HIDE DEF v
<1>2. SameWork(w, v)
  BY <1>1 DEF SameWork, IsService
<1> QED
  BY <1>1, <1>2 DEF IsSent, v, p

LEMMA SentFacts ==
    ASSUME NEW t, IsService(t), NEW b, NEW v, IsSent(t, b, v)
    PROVE  /\ v.rib = t.rib
           /\ v.faceMap = t.faceMap
           /\ v.busy = t.busy
           /\ v.batchFace = t.batchFace
           /\ v.batchUpdates = t.batchUpdates
           /\ v.otherUpdates = t.otherUpdates
           /\ v.inhUpdates = t.inhUpdates
           /\ v.running = t.running
           /\ Pending(v) = Pending(t)
           /\ t.sent = {} => v.sent = CommandsFor(Pending(t), b)
<1> DEFINE w == [t EXCEPT !.sent = v.sent]
<1>1. /\ w.rib = t.rib
      /\ w.faceMap = t.faceMap
      /\ w.busy = t.busy
      /\ w.batchFace = t.batchFace
      /\ w.batchUpdates = t.batchUpdates
      /\ w.otherUpdates = t.otherUpdates
      /\ w.inhUpdates = t.inhUpdates
      /\ w.running = t.running
  BY DEF IsService
<1>2. SameWork(w, v)
  BY DEF IsSent
<1> HIDE DEF w
<1>3. /\ v.rib = t.rib
      /\ v.faceMap = t.faceMap
      /\ v.busy = t.busy
      /\ v.batchFace = t.batchFace
      /\ v.batchUpdates = t.batchUpdates
      /\ v.otherUpdates = t.otherUpdates
      /\ v.inhUpdates = t.inhUpdates
      /\ v.running = t.running
  BY <1>1, <1>2 DEF SameWork
<1>4. Pending(v) = Pending(t)
  BY <1>3 DEF Pending
<1>5. v.sent = t.sent \cup CommandsFor(Pending(t), b)
  BY DEF IsSent
<1> QED
  BY <1>3, <1>4, <1>5

\* A batch without updates is applied, the pending updates of another are sent.
LEMMA StartShape ==
    ASSUME NEW t, IsService(t), NEW b
    PROVE  LET v == sendUpdatesForBatchFaceId(t, b)
               w == sendUpdatesForNonBatchFaceId(t, b)
           IN  /\ \/ IsSent(t, b, v)
                  \/ t.batchUpdates = {} /\ t.otherUpdates = {} /\ v = onFibUpdateSuccess(t, b)
               /\ t.batchUpdates = {} =>
                    \/ IsSent(t, b, w)
                    \/ t.otherUpdates = {} /\ w = onFibUpdateSuccess(t, b)
<1> DEFINE v == sendUpdatesForBatchFaceId(t, b)
           w == sendUpdatesForNonBatchFaceId(t, b)
           z == sendUpdates(t, Pending(t), b)
<1>1. Pending(t) # {} => IsSent(t, b, z)
  BY SendShape
<1> HIDE DEF z
<1>2. CASE t.batchUpdates # {}
  <2>1. v = z /\ Pending(t) # {}
    BY <1>2 DEF sendUpdatesForBatchFaceId, Pending, z
  <2> HIDE DEF v, w
  <2> QED
    BY <1>1, <1>2, <2>1 DEF v, w
<1>3. CASE t.batchUpdates = {} /\ t.otherUpdates # {}
  <2>1. v = w /\ w = z /\ Pending(t) # {}
    BY <1>3 DEF sendUpdatesForBatchFaceId, sendUpdatesForNonBatchFaceId, Pending, z
  <2> HIDE DEF v, w
  <2> QED
    BY <1>1, <1>3, <2>1 DEF v, w
<1>4. CASE t.batchUpdates = {} /\ t.otherUpdates = {}
  <2>1. v = w /\ w = onFibUpdateSuccess(t, b)
    BY <1>4 DEF sendUpdatesForBatchFaceId, sendUpdatesForNonBatchFaceId
  <2> HIDE DEF v, w
  <2> QED
    BY <1>4, <2>1 DEF v, w
<1> QED
  BY <1>2, <1>3, <1>4

LEMMA SentOneBatch ==
    ASSUME NEW t, IsService(t), t.sent = {}, t.busy, NEW b, b.route.face = t.batchFace,
           NEW v, IsSent(t, b, v)
    PROVE  /\ OneBatch(v)
           /\ v.sent # {}
           /\ \A c \in v.sent : c.batch = b /\ c.verb = Verb(c.update)
<1>1. /\ v.busy = t.busy
      /\ v.batchFace = t.batchFace
      /\ Pending(v) = Pending(t)
      /\ v.sent = CommandsFor(Pending(t), b)
  BY SentFacts
<1> DEFINE p == Pending(t)
<1>2. /\ \A c \in CommandsFor(p, b) : c.update \in p /\ c.batch = b /\ c.verb = Verb(c.update)
      /\ \A c, d \in CommandsFor(p, b) : c.update = d.update => c = d
      /\ \A x \in p : \E c \in CommandsFor(p, b) : c.update = x
  BY CommandFacts
<1>3. p # {}
  BY DEF IsSent
<1> QED
  BY <1>1, <1>2, <1>3 DEF OneBatch

\* An applied or failed batch leaves nothing under way.
LEMMA DoneOneBatch ==
    ASSUME NEW v, v.sent = {}
    PROVE  OneBatch(v)
BY DEF OneBatch

(***************************************************************************)
(* An answer to c takes its update off the lists; when the list is done,   *)
(* the next one is sent or the batch applied.                              *)
(***************************************************************************)
IsDropped(r, c, q) ==
    /\ ServiceOK(q)
    /\ q.rib = r.rib
    /\ q.queue = r.queue
    /\ q.busy = r.busy
    /\ q.batchFace = r.batchFace
    /\ q.batchUpdates = r.batchUpdates \ {c.update}
    /\ q.otherUpdates = r.otherUpdates \ {c.update}
    /\ q.inhUpdates = r.inhUpdates
    /\ q.sent = r.sent \ {c}
    /\ q.timers = r.timers
    /\ q.running = r.running
    /\ q.odd = r.odd

IsPartial(r, q) == Pending(q) # {} /\ (r.batchUpdates # {} => q.batchUpdates # {})

IsFinished(q, b, v) ==
    /\ q.batchUpdates = {}
    /\ q.sent = {}
    /\ IsSent(q, b, v) \/ (q.otherUpdates = {} /\ v = onFibUpdateSuccess(q, b))

IsFailed(r, c, v) ==
    /\ c.update \in r.batchUpdates
    /\ r.sent \ {c} = {}
    /\ v = onFibUpdateFailure(Without(r, c), c.batch)

LEMMA AnswerShape ==
    ASSUME NEW r, ServiceOK(r), Covered(r), OneBatch(r), NEW c \in r.sent, NEW code,
           Orderly(AnswerTo(r, c, code))
    PROVE  LET v == AnswerTo(r, c, code)
           IN  \/ /\ code = 200 \/ (code = 410 /\ r.batchUpdates = {})
                  /\ \E q : /\ IsDropped(r, c, q)
                            /\ (v = q /\ IsPartial(r, q)) \/ IsFinished(q, c.batch, v)
               \/ code = 410 /\ IsFailed(r, c, v)
<1> DEFINE v == AnswerTo(r, c, code)
           t == Without(r, c)
           b == c.batch
           x == DropBatch(t, c)
           y == DropOther(t, c)
           u == c.update
<1>0. IsService(r)
  BY DEF ServiceOK
<1>1. /\ IsService(t)
      /\ t.rib = r.rib
      /\ t.queue = r.queue
      /\ t.busy = r.busy
      /\ t.batchFace = r.batchFace
      /\ t.batchUpdates = r.batchUpdates
      /\ t.otherUpdates = r.otherUpdates
      /\ t.inhUpdates = r.inhUpdates
      /\ t.sent = r.sent \ {c}
      /\ t.timers = r.timers
      /\ t.running = r.running
      /\ t.odd = r.odd
  BY <1>0, WithoutEffect
<1>a. IsService(t)
  BY <1>1
<1>2. ServiceOK(x) /\ ServiceOK(y)
  BY AnsweredKeeps
<1>3. /\ u \in Pending(r)
      /\ \A d \in r.sent : d.update \in Pending(r) /\ (d.update = u => d = c)
  BY DEF OneBatch
<1>4. code = 200 \/ code = 410
  <2> SUFFICES ASSUME code # 200, code # 410 PROVE FALSE
    OBVIOUS
  <2>1. v = [r EXCEPT !.running = FALSE]
    BY DEF AnswerTo
  <2>2. v.running = FALSE
    BY <1>0, <2>1 DEF IsService
  <2> QED
    BY <2>2 DEF Orderly
<1>5. /\ code = 200 => v = onUpdateSuccess(t, c)
      /\ code = 410 => v = onFaceNotFound(t, c)
  BY DEF AnswerTo
<1> HIDE DEF t, v
<1>6. CASE u.face = t.batchFace
  <2>1. u \in r.batchUpdates /\ u \notin r.otherUpdates /\ Pending(r) = r.batchUpdates
    BY <1>1, <1>3, <1>6 DEF Pending, ServiceOK, UpdatesOK
  <2>2. /\ x.rib = t.rib
        /\ x.queue = t.queue
        /\ x.busy = t.busy
        /\ x.batchFace = t.batchFace
        /\ x.batchUpdates = t.batchUpdates \ {c.update}
        /\ x.otherUpdates = t.otherUpdates
        /\ x.inhUpdates = t.inhUpdates
        /\ x.sent = t.sent
        /\ x.timers = t.timers
        /\ x.running = t.running
        /\ x.odd = t.odd
    BY <1>a, DropBatchEffect
  <2>3. /\ onUpdateSuccess(t, c) = IF x.batchUpdates = {} THEN sendUpdatesForNonBatchFaceId(x, b) ELSE x
        /\ onFaceNotFound(t, c) = onFibUpdateFailure(IF t.sent = {} THEN t ELSE Odd(t, "answer"), b)
    BY <1>6, AnswersMean DEF b
  <2> HIDE DEF x
  <2>4. IsDropped(r, c, x)
    BY <1>1, <1>2, <2>1, <2>2 DEF IsDropped
  <2>5. CASE code = 200 /\ x.batchUpdates # {}
    <3>1. v = x
      BY <1>5, <2>3, <2>5
    <3>2. IsPartial(r, x)
      BY <2>5 DEF IsPartial, Pending
    <3> QED
      BY <2>4, <2>5, <3>1, <3>2 DEF v
  <2>6. CASE code = 200 /\ x.batchUpdates = {}
    <3> DEFINE w == sendUpdatesForNonBatchFaceId(x, b)
    <3>1. v = w
      BY <1>5, <2>3, <2>6
    <3>2. IsService(x)
      BY <1>2 DEF ServiceOK
    <3>3. IsSent(x, b, w) \/ (x.otherUpdates = {} /\ w = onFibUpdateSuccess(x, b))
      BY <2>6, <3>2, StartShape
    <3>4. x.sent = {}
      <4>1. r.batchUpdates \ {u} = {}
        BY <1>1, <2>2, <2>6
      <4> QED
        BY <1>1, <1>3, <2>1, <2>2, <4>1
    <3> HIDE DEF w
    <3>5. IsFinished(x, b, v)
      BY <2>6, <3>1, <3>3, <3>4 DEF IsFinished
    <3> QED
      BY <2>4, <2>6, <3>5 DEF v
  <2>7. CASE code = 410
    <3> DEFINE kind == "answer"
               o == Odd(t, kind)
    <3>1. t.sent = {}
      <4> SUFFICES ASSUME t.sent # {} PROVE FALSE
        OBVIOUS
      <4>1. v = onFibUpdateFailure(o, b)
        BY <1>5, <2>3, <2>7
      <4>2. IsService(o) /\ o.odd = t.odd \cup {kind}
        <5> HIDE DEF kind
        <5> QED
          BY <1>a, OddEffect
      <4> HIDE DEF o
      <4> DEFINE z == onFibUpdateFailure(o, b)
      <4>3. SameBatch(o, z)
        BY <4>2, FailureEffect
      <4> HIDE DEF z
      <4>4. "answer" \in v.odd
        BY <4>1, <4>2, <4>3 DEF SameBatch, z
      <4> QED
        BY <4>4 DEF Orderly, v
    <3>2. v = onFibUpdateFailure(t, b)
      BY <1>5, <2>3, <2>7, <3>1
    <3>3. IsFailed(r, c, v)
      BY <1>1, <2>1, <3>1, <3>2 DEF IsFailed, t
    <3> QED
      BY <2>7, <3>3 DEF v
  <2> QED
    BY <1>4, <2>5, <2>6, <2>7
<1>7. CASE u.face # t.batchFace
  <2>1. u \in r.otherUpdates /\ r.batchUpdates = {} /\ Pending(r) = r.otherUpdates
    BY <1>1, <1>3, <1>7 DEF Pending, ServiceOK, UpdatesOK
  <2>2. /\ y.rib = t.rib
        /\ y.queue = t.queue
        /\ y.busy = t.busy
        /\ y.batchFace = t.batchFace
        /\ y.batchUpdates = t.batchUpdates
        /\ y.otherUpdates = t.otherUpdates \ {c.update}
        /\ y.inhUpdates = t.inhUpdates
        /\ y.sent = t.sent
        /\ y.timers = t.timers
        /\ y.running = t.running
        /\ y.odd = t.odd
    BY <1>a, DropOtherEffect
  <2>3. v = IF y.otherUpdates = {} THEN onFibUpdateSuccess(y, b) ELSE y
    BY <1>4, <1>5, <1>7, AnswersMean DEF OtherDone
  <2> HIDE DEF y
  <2>4. IsDropped(r, c, y)
    BY <1>1, <1>2, <2>1, <2>2 DEF IsDropped
  <2>5. CASE y.otherUpdates # {}
    <3>1. v = y
      BY <2>3, <2>5
    <3>2. IsPartial(r, y)
      BY <1>1, <2>1, <2>2, <2>5 DEF IsPartial, Pending
    <3> QED
      BY <1>4, <2>1, <2>4, <3>1, <3>2 DEF v
  <2>6. CASE y.otherUpdates = {}
    <3>1. v = onFibUpdateSuccess(y, b)
      BY <2>3, <2>6
    <3>2. y.sent = {}
      <4>1. r.otherUpdates \ {u} = {}
        BY <1>1, <2>2, <2>6
      <4> QED
        BY <1>1, <1>3, <2>1, <2>2, <4>1
    <3>3. IsFinished(y, b, v)
      BY <1>1, <2>1, <2>2, <2>6, <3>1, <3>2 DEF IsFinished
    <3> QED
      BY <1>4, <2>1, <2>4, <3>3 DEF v
  <2> QED
    BY <2>5, <2>6
<1> QED
  BY <1>6, <1>7

\* The partial answers leave commands of the same batch under way.
LEMMA PartialOneBatch ==
    ASSUME NEW r, Covered(r), OneBatch(r), r.running, NEW c \in r.sent,
           NEW q, IsDropped(r, c, q), IsPartial(r, q)
    PROVE  OneBatch(q) /\ q.sent # {} /\ \A d \in q.sent : d \in r.sent /\ d.batch = c.batch
<1>0. r.busy
  BY DEF OneBatch
<1>1. Pending(q) = Pending(r) \ {c.update}
  BY DEF IsPartial, IsDropped, Pending
<1>2. PICK u \in Pending(q) : TRUE
  BY DEF IsPartial
<1>3. PICK d \in r.sent : d.update = u
  BY <1>0, <1>1, <1>2 DEF Covered
<1>4. d \in q.sent
  BY <1>1, <1>2, <1>3 DEF IsDropped
<1>5. OneBatch(q)
  BY <1>0, <1>1 DEF OneBatch, IsDropped
<1> QED
  BY <1>4, <1>5 DEF OneBatch, IsDropped

(***************************************************************************)
(* Next hops and routes. B is the set of the batches under way, fb the FIB *)
(* and fs the state of the faces.                                          *)
(***************************************************************************)
HopOf(u) == <<u.name, u.face>>

Updates(t) == t.batchUpdates \cup t.otherUpdates

HopsFor(t, b, fb) ==
    /\ \A x \in DOMAIN fb : \/ KnownAfter(t, b, x)
                            \/ \E u \in Updates(t) : u.action = "remove" /\ HopOf(u) = x
    /\ \A u \in Updates(t) : u.action = "add" => KnownAfter(t, b, HopOf(u))
    /\ t.batchUpdates # {} => \A x \in DOMAIN fb : Known(t.rib, x) \/ x[2] = t.batchFace

GoneFaces(t, fs) ==
    \A i \in 1 .. Len(t.queue) :
        t.queue[i].action = "remove-face" => fs[t.queue[i].route.face] = "down"

HopsOK(t, B, fb, fs) ==
    /\ B = {} => \A x \in DOMAIN fb : Known(t.rib, x)
    /\ \A b \in B : HopsFor(t, b, fb) /\ (b.action = "remove-face" => fs[b.route.face] = "down")
    /\ GoneFaces(t, fs)

\* The FIB has next hops on the faces that exist only.
FibOK(fb, fs) == DOMAIN fb \subseteq NextHops /\ \A x \in DOMAIN fb : fs[x[2]] = "up"

LEMMA RoutesWith ==
    ASSUME NEW t, IsService(t), RibOK(t), NEW b \in Batch
    PROVE  /\ \A m : RoutesAt(RibWith(t.rib, b), m) = RoutesAfter(t, b, m)
           /\ \A m \in DOMAIN t.rib : m # b.name => m \in DOMAIN RibWith(t.rib, b)
<1> DEFINE v == Applied(t, b)
<1>1. /\ RibOK(v)
      /\ v.rib = IF b.action = "register" THEN Insert(t.rib, b.name, b.route)
                                          ELSE Erase(t.rib, b.name, b.route)
      /\ \A m : RoutesAt(v.rib, m) = RoutesAfter(t, b, m)
  BY AppliedEffect
<1>2. v.rib = RibWith(t.rib, b)
  BY <1>1 DEF RibWith
<1> HIDE DEF v
<1>3. ASSUME NEW m \in DOMAIN t.rib, m # b.name PROVE m \in DOMAIN v.rib
  <2>1. RoutesAt(v.rib, m) = RoutesAt(t.rib, m)
    BY <1>1, <1>3 DEF RoutesAfter
  <2>2. RoutesAt(t.rib, m) # {}
    BY RibFacts DEF RibOK
  <2> QED
    BY <2>1, <2>2 DEF RoutesAt
<1> QED
  BY <1>1, <1>2, <1>3

LEMMA BegunHops ==
    ASSUME NEW v, ServiceOK(v), v.queue # <<>>, NEW fb, NEW fs, FibOK(fb, fs),
           NEW B, B = {}, HopsOK(v, B, fb, fs)
    PROVE  LET b == Head(v.queue)
               w == Begun(v)
           IN  HopsOK(w, {b}, fb, fs)
<1> DEFINE b == Head(v.queue)
           w == Begun(v)
           u == computeUpdates(v.rib, b)
           d == RibWith(v.rib, b)
<1>1. /\ b \in Batch
      /\ w.rib = v.rib
      /\ w.queue = Tail(v.queue)
      /\ w.batchFace = b.route.face
      /\ w.inhUpdates = u.inh
  BY BegunEffect
<1>2. /\ ServiceOK(w)
      /\ \A y \in w.batchUpdates \cup w.otherUpdates :
           /\ <<y.name, y.face>> \in DOMAIN u.fib
           /\ y.action = u.fib[<<y.name, y.face>>].action
      /\ \A x \in DOMAIN u.fib :
           /\ x[2] # b.route.face => \E y \in w.otherUpdates :
                y.name = x[1] /\ y.face = x[2] /\ y.action = u.fib[x].action
           /\ x[2] = b.route.face /\ b.action # "remove-face" => \E y \in w.batchUpdates :
                y.name = x[1] /\ y.face = x[2] /\ y.action = u.fib[x].action
  BY BegunUpdates
<1>3. IsRib(v.rib) /\ IsTree(v.rib) /\ IsService(v) /\ RibOK(v) /\ IsService(w) /\ RibOK(w)
  BY <1>2 DEF ServiceOK, RibOK
<1> HIDE DEF b
<1>4. /\ Balanced(u, OwnHops(d))
      /\ \A x \in OwnHops(v.rib) : x \in OwnHops(d) \/ x \in DOMAIN u.fib
      /\ b.name \notin DOMAIN d => \A f \in InheritedAt(v.rib, b.name) : Takes(u, <<b.name, f>>)
  BY <1>1, <1>3, ComputedBalanced
<1>5. \A m : RoutesAt(d, m) = RoutesAfter(w, b, m)
  <2>1. \A m : RoutesAt(RibWith(w.rib, b), m) = RoutesAfter(w, b, m)
    <3> HIDE DEF w
    <3> QED
      BY <1>1, <1>3, RoutesWith
  <2> QED
    BY <1>1, <2>1
<1>6. \A m \in DOMAIN v.rib : m # b.name => m \in DOMAIN d
  BY <1>1, <1>3, RoutesWith
<1> HIDE DEF u, d, w
<1>7. b.action = "remove-face" => fs[b.route.face] = "down"
  <2>1. GoneFaces(v, fs)
    BY DEF HopsOK
  <2>2. v.queue \in Seq(Batch)
    BY DEF ServiceOK, QueueOK
  <2>3. 1 \in 1 .. Len(v.queue) /\ v.queue[1] = b
    BY <2>2 DEF b
  <2> QED
    BY <2>1, <2>3 DEF GoneFaces
<1>8. GoneFaces(w, fs)
  <2>1. GoneFaces(v, fs)
    BY DEF HopsOK
  <2>2. v.queue \in Seq(Batch)
    BY DEF ServiceOK, QueueOK
  <2>3. \A i \in 1 .. Len(w.queue) : i + 1 \in 1 .. Len(v.queue) /\ w.queue[i] = v.queue[i + 1]
    BY <1>1, <2>2
  <2> QED
    BY <2>1, <2>3 DEF GoneFaces
<1>9. \A x : x \in OwnHops(d) \/ Gains(u, x) => KnownAfter(w, b, x)
  BY <1>1, <1>5 DEF OwnHops, Gains, KnownAfter
<1>10. \A x \in DOMAIN u.fib : Adds(u, x) => KnownAfter(w, b, x)
  BY <1>4, <1>9 DEF Balanced
<1>11. ASSUME NEW x \in NextHops, Takes(u, x), fs[x[2]] # "down"
       PROVE  \E y \in Updates(w) : y.action = "remove" /\ HopOf(y) = x
  <2>1. x \in DOMAIN u.fib /\ u.fib[x].action = "remove" /\ x = <<x[1], x[2]>>
    BY <1>11 DEF Takes, NextHops
  <2>2. x[2] # b.route.face \/ b.action # "remove-face"
    BY <1>7, <1>11
  <2>3. \E y \in Updates(w) : y.name = x[1] /\ y.face = x[2] /\ y.action = "remove"
    BY <1>2, <2>1, <2>2 DEF Updates
  <2> QED
    BY <2>1, <2>3 DEF HopOf
<1>12. ASSUME NEW x \in DOMAIN fb
       PROVE  KnownAfter(w, b, x) \/ \E y \in Updates(w) : y.action = "remove" /\ HopOf(y) = x
  <2>1. x \in NextHops /\ fs[x[2]] # "down" /\ Known(v.rib, x)
    BY DEF FibOK, HopsOK
  <2>2. Takes(u, x) => \E y \in Updates(w) : y.action = "remove" /\ HopOf(y) = x
    BY <1>11, <2>1
  <2>3. x \in DOMAIN u.fib => Adds(u, x) \/ Takes(u, x)
    BY <1>4 DEF Balanced
  <2>4. CASE \E r \in RoutesAt(v.rib, x[1]) : r.face = x[2]
    <3>1. x \in OwnHops(v.rib)
      BY <2>1, <2>4 DEF OwnHops
    <3> QED
      BY <1>4, <1>9, <1>10, <2>2, <2>3, <3>1
  <2>5. CASE x[2] \in InheritedAt(v.rib, x[1])
    <3>1. CASE Loses(u, x)
      BY <1>4, <1>9, <2>2, <3>1 DEF Balanced
    <3>2. CASE ~Loses(u, x) /\ x[1] \in DOMAIN d
      BY <1>1, <2>5, <3>2 DEF KnownAfter, Loses, d, RibWith
    <3>3. CASE x[1] \notin DOMAIN d
      <4>1. x[1] \in DOMAIN v.rib
        BY <2>5 DEF InheritedAt
      <4>2. x[1] = b.name
        BY <1>6, <3>3, <4>1
      <4>3. Takes(u, <<b.name, x[2]>>) /\ x = <<x[1], x[2]>>
        BY <1>4, <2>1, <2>5, <3>3, <4>2 DEF NextHops
      <4> QED
        BY <2>2, <4>2, <4>3
    <3> QED
      BY <3>1, <3>2, <3>3
  <2> QED
    BY <2>1, <2>4, <2>5 DEF Known
<1>13. ASSUME NEW y \in Updates(w), y.action = "add" PROVE KnownAfter(w, b, HopOf(y))
  <2>1. HopOf(y) \in DOMAIN u.fib /\ Adds(u, HopOf(y))
    BY <1>2, <1>13 DEF Updates, HopOf, Adds
  <2> QED
    BY <1>10, <2>1
<1>14. \A x \in DOMAIN fb : Known(w.rib, x)
  BY <1>1 DEF HopsOK
<1>15. HopsFor(w, b, fb)
  BY <1>12, <1>13, <1>14 DEF HopsFor
<1> QED
  BY <1>7, <1>8, <1>15 DEF HopsOK, b, w

\* What HopsOK depends on.
SameHops(t, v) ==
    /\ v.rib = t.rib
    /\ v.batchFace = t.batchFace
    /\ v.batchUpdates = t.batchUpdates
    /\ v.otherUpdates = t.otherUpdates
    /\ v.inhUpdates = t.inhUpdates

LEMMA HopsFrame ==
    ASSUME NEW t, NEW v, SameHops(t, v), NEW B, NEW fb, NEW fs, HopsOK(t, B, fb, fs),
           GoneFaces(v, fs)
    PROVE  HopsOK(v, B, fb, fs)
<1>1. \A b, x : KnownAfter(v, b, x) <=> KnownAfter(t, b, x)
  <2>1. \A b, m : RoutesAfter(v, b, m) = RoutesAfter(t, b, m)
    BY DEF RoutesAfter, SameHops
  <2> QED
    BY <2>1 DEF KnownAfter, SameHops
<1>2. Updates(v) = Updates(t)
  BY DEF Updates, SameHops
<1>3. \A b : HopsFor(t, b, fb) => HopsFor(v, b, fb)
  BY <1>1, <1>2 DEF HopsFor, SameHops
<1> QED
  BY <1>3 DEF HopsOK, SameHops

LEMMA AppliedHops ==
    ASSUME NEW t, ServiceOK(t), t.batchUpdates = {}, t.otherUpdates = {}, NEW b \in Batch,
           NEW fb, NEW fs, FibOK(fb, fs), HopsOK(t, {b}, fb, fs),
           NEW v, v = onFibUpdateSuccess(t, b), v.running
    PROVE  HopsOK(v, {}, fb, fs)
<1> DEFINE z == onFibUpdateSuccess(t, b)
<1>1. /\ SameBatch(t, z)
      /\ z.running => \A x \in NextHops : KnownAfter(t, b, x) => Known(z.rib, x)
  BY SuccessEffect DEF ServiceOK
<1> HIDE DEF z
<1>2. v = z
  BY DEF z
<1>3. HopsFor(t, b, fb) /\ GoneFaces(t, fs)
  BY DEF HopsOK
<1>4. \A x \in DOMAIN fb : x \in NextHops /\ KnownAfter(t, b, x)
  BY <1>3 DEF HopsFor, Updates, FibOK
<1>5. \A x \in DOMAIN fb : Known(v.rib, x)
  BY <1>1, <1>2, <1>4
<1>6. GoneFaces(v, fs)
  BY <1>1, <1>2, <1>3 DEF GoneFaces, SameBatch
<1> QED
  BY <1>5, <1>6 DEF HopsOK

LEMMA FailedHops ==
    ASSUME NEW t, NEW b, NEW fb, NEW fs, FibOK(fb, fs), HopsOK(t, {b}, fb, fs),
           t.batchUpdates # {}, fs[t.batchFace] # "up", NEW v, v.rib = t.rib, v.queue = t.queue
    PROVE  HopsOK(v, {}, fb, fs)
<1>1. HopsFor(t, b, fb) /\ GoneFaces(t, fs)
  BY DEF HopsOK
<1>2. \A x \in DOMAIN fb : Known(t.rib, x) \/ x[2] = t.batchFace
  BY <1>1 DEF HopsFor
<1>3. \A x \in DOMAIN fb : Known(v.rib, x)
  BY <1>2 DEF FibOK
<1>4. GoneFaces(v, fs)
  BY <1>1 DEF GoneFaces
<1> QED
  BY <1>3, <1>4 DEF HopsOK

\* fb2 is the FIB fb after command c, executed or not.
IsExecuted(c, fb, fb2, fs) ==
    \/ DOMAIN fb2 = DOMAIN fb /\ c.verb = "add-nexthop"
    \/ /\ c.verb = "add-nexthop"
       /\ DOMAIN fb2 = DOMAIN fb \cup {HopOf(c.update)}
       /\ fs[c.update.face] = "up"
    \/ c.verb # "add-nexthop" /\ DOMAIN fb2 = DOMAIN fb \ {HopOf(c.update)}

LEMMA ExecuteEffect ==
    ASSUME NEW c, IsCommand(c), FibOK(fib, faces)
    PROVE  LET e == Execute(c)
           IN  /\ IsExecuted(c, fib, e.fib, faces)
               /\ FibOK(e.fib, faces)
               /\ e.code = 200 /\ c.verb = "add-nexthop" => faces[c.update.face] = "up"
               /\ e.code = 410 => c.verb = "add-nexthop" /\ faces[c.update.face] # "up"
               /\ e.code # 410 => e.code = 200 \/ e.code = 414
<1> DEFINE e == Execute(c)
           x == <<c.update.name, c.update.face>>
           k == Len(c.update.name)
           a == addNextHop(c)
           r == removeNextHop(c)
           more == Over(Single(x, c.update.cost), fib)
<1>1. x = HopOf(c.update) /\ x \in NextHops /\ x[2] = c.update.face
  BY DEF HopOf, IsCommand, IsUpdate, NextHops
<1>2. DOMAIN more = DOMAIN fib \cup {x}
  BY DEF Over, Single
<1>3. CASE c.verb = "add-nexthop"
  <2>1. e = a
    BY <1>3 DEF Execute
  <2> HIDE DEF more, k
  <2>2. \/ a = [fib |-> fib, code |-> 414]
        \/ a = [fib |-> fib, code |-> 410] /\ faces[c.update.face] # "up"
        \/ a = [fib |-> more, code |-> 200] /\ faces[c.update.face] = "up"
    <3>1. CASE k > FIB_MAX_DEPTH
      BY <3>1 DEF addNextHop, k
    <3>2. CASE ~(k > FIB_MAX_DEPTH) /\ k <= FIB_MAX_DEPTH /\ faces[c.update.face] # "up"
      BY <3>2 DEF addNextHop, k
    <3>3. CASE ~(k > FIB_MAX_DEPTH) /\ ~(k <= FIB_MAX_DEPTH /\ faces[c.update.face] # "up")
      <4>1. k \in Nat /\ FIB_MAX_DEPTH \in Nat
        <5>1. c.update.name \in Name
          BY DEF IsCommand, IsUpdate
        <5>2. c.update.name \in Seq(ToSet(c.update.name))
          BY <5>1, RibEntryAssumption
        <5> QED
          BY <5>2, LenProperties, RibManagerAssumption DEF k
      <4>2. k <= FIB_MAX_DEPTH
        BY <3>3, <4>1
      <4>3. a = [fib |-> more, code |-> 200]
        BY <3>3 DEF addNextHop, k, more
      <4> QED
        BY <3>3, <4>2, <4>3
    <3> QED
      BY <3>1, <3>2, <3>3
  <2>3. CASE e.fib = fib /\ e.code \in {410, 414}
    BY <1>3, <2>1, <2>2, <2>3 DEF IsExecuted
  <2>4. CASE e.fib = more /\ e.code = 200 /\ faces[c.update.face] = "up"
    <3>1. FibOK(more, faces)
      BY <1>1, <1>2, <2>4 DEF FibOK
    <3>2. IsExecuted(c, fib, more, faces)
      BY <1>1, <1>2, <1>3, <2>4 DEF IsExecuted
    <3> HIDE DEF e
    <3> QED
      BY <2>4, <3>1, <3>2 DEF e
  <2> HIDE DEF e, a
  <2> QED
    BY <2>1, <2>2, <2>3, <2>4
<1>4. CASE c.verb # "add-nexthop"
  <2> DEFINE less == [y \in DOMAIN fib \ {x} |-> fib[y]]
  <2>1. e = [fib |-> less, code |-> 200]
    BY <1>4 DEF Execute, removeNextHop
  <2>2. DOMAIN less = DOMAIN fib \ {x}
    OBVIOUS
  <2> HIDE DEF less, e, x
  <2>3. e.fib = less /\ e.code = 200
    BY <2>1
  <2>4. FibOK(less, faces)
    BY <2>2 DEF FibOK
  <2>5. IsExecuted(c, fib, less, faces)
    BY <1>1, <1>4, <2>2 DEF IsExecuted
  <2> QED
    BY <1>4, <2>3, <2>4, <2>5 DEF e
<1> QED
  BY <1>3, <1>4

\* A command for a removal is for a removal, unless a removal was sent again.
VerbsOK(t) ==
    \A c \in t.sent : /\ c.update.action = "add" => c.verb = "add-nexthop"
                      /\ c.update.action # "add" /\ c.verb = "add-nexthop" => "retry" \in t.odd

Regular(t) == t.running /\ t.odd \subseteq {"update"}

LEMMA ExecutedHops ==
    ASSUME NEW r, ServiceOK(r), NEW c \in r.sent, c.update \in Pending(r), NEW b, NEW fb, NEW fs,
           HopsOK(r, {b}, fb, fs), VerbsOK(r), Regular(r), NEW fb2, IsExecuted(c, fb, fb2, fs)
    PROVE  /\ HopsOK(r, {b}, fb2, fs)
           /\ \A q : IsDropped(r, c, q) => HopsOK(q, {b}, fb2, fs)
<1> DEFINE u == c.update
           x == HopOf(u)
<1>1. /\ u \in Updates(r)
      /\ r.batchUpdates # {} => u \in r.batchUpdates
  BY DEF Pending, Updates
<1>2. IsUpdate(u) /\ (r.batchUpdates # {} => x[2] = r.batchFace)
  <2>1. IsUpdate(u) /\ (r.batchUpdates # {} => u.face = r.batchFace)
    BY <1>1 DEF ServiceOK, UpdatesOK, Updates
  <2> QED
    BY <2>1 DEF HopOf
<1>3. HopsFor(r, b, fb) /\ GoneFaces(r, fs)
  BY DEF HopsOK
<1>4. CASE c.verb = "add-nexthop"
  <2>1. u.action = "add"
    BY <1>4 DEF VerbsOK, Regular
  <2>2. KnownAfter(r, b, x)
    BY <1>1, <1>3, <2>1 DEF HopsFor
  <2>3. \A y \in DOMAIN fb2 : y \in DOMAIN fb \/ y = x
    BY <1>4 DEF IsExecuted
  <2>4. \A y \in DOMAIN fb2 : \/ KnownAfter(r, b, y)
                              \/ \E w \in Updates(r) : w # u /\ w.action = "remove" /\ HopOf(w) = y
    <3>1. \A y \in DOMAIN fb : \/ KnownAfter(r, b, y)
                               \/ \E w \in Updates(r) : w.action = "remove" /\ HopOf(w) = y
      BY <1>3 DEF HopsFor
    <3> QED
      BY <2>1, <2>2, <2>3, <3>1
  <2>5. r.batchUpdates # {} => \A y \in DOMAIN fb2 : Known(r.rib, y) \/ y[2] = r.batchFace
    BY <1>2, <1>3, <2>3 DEF HopsFor
  <2> QED
    <3>1. HopsFor(r, b, fb2)
      BY <1>3, <2>4, <2>5 DEF HopsFor
    <3>2. ASSUME NEW q, IsDropped(r, c, q) PROVE HopsOK(q, {b}, fb2, fs)
      <4>1. \A y : KnownAfter(q, b, y) <=> KnownAfter(r, b, y)
        BY <3>2 DEF KnownAfter, RoutesAfter, IsDropped
      <4>2. Updates(q) = Updates(r) \ {u}
        BY <3>2 DEF Updates, IsDropped
      <4>3. HopsFor(q, b, fb2)
        <5>1. \A y \in DOMAIN fb2 : \/ KnownAfter(q, b, y)
                                    \/ \E w \in Updates(q) : w.action = "remove" /\ HopOf(w) = y
          BY <2>4, <4>1, <4>2
        <5>2. \A w \in Updates(q) : w.action = "add" => KnownAfter(q, b, HopOf(w))
          BY <1>3, <4>1, <4>2 DEF HopsFor
        <5>3. q.batchUpdates # {} => \A y \in DOMAIN fb2 : Known(q.rib, y) \/ y[2] = q.batchFace
          BY <2>5, <3>2 DEF IsDropped
        <5> QED
          BY <5>1, <5>2, <5>3 DEF HopsFor
      <4>4. GoneFaces(q, fs)
        BY <1>3, <3>2 DEF GoneFaces, IsDropped
      <4> QED
        BY <4>3, <4>4 DEF HopsOK
    <3> QED
      BY <3>1, <3>2 DEF HopsOK
<1>5. CASE c.verb # "add-nexthop"
  <2>1. DOMAIN fb2 = DOMAIN fb \ {x}
    BY <1>5 DEF IsExecuted
  <2>2. u.action # "add"
    BY <1>5 DEF VerbsOK
  <2>3. \A y \in DOMAIN fb2 : \/ KnownAfter(r, b, y)
                              \/ \E w \in Updates(r) : w # u /\ w.action = "remove" /\ HopOf(w) = y
    BY <1>3, <2>1 DEF HopsFor
  <2>4. r.batchUpdates # {} => \A y \in DOMAIN fb2 : Known(r.rib, y) \/ y[2] = r.batchFace
    BY <1>3, <2>1 DEF HopsFor
  <2>5. HopsFor(r, b, fb2)
    BY <1>3, <2>3, <2>4 DEF HopsFor
  <2>6. ASSUME NEW q, IsDropped(r, c, q) PROVE HopsOK(q, {b}, fb2, fs)
    <3>1. \A y : KnownAfter(q, b, y) <=> KnownAfter(r, b, y)
      BY <2>6 DEF KnownAfter, RoutesAfter, IsDropped
    <3>2. Updates(q) = Updates(r) \ {u}
      BY <2>6 DEF Updates, IsDropped
    <3>3. \A y \in DOMAIN fb2 : \/ KnownAfter(q, b, y)
                                \/ \E w \in Updates(q) : w.action = "remove" /\ HopOf(w) = y
      BY <2>3, <3>1, <3>2
    <3>4. \A w \in Updates(q) : w.action = "add" => KnownAfter(q, b, HopOf(w))
      BY <1>3, <3>1, <3>2 DEF HopsFor
    <3>5. q.batchUpdates # {} => \A y \in DOMAIN fb2 : Known(q.rib, y) \/ y[2] = q.batchFace
      BY <2>4, <2>6 DEF IsDropped
    <3>6. GoneFaces(q, fs)
      BY <1>3, <2>6 DEF GoneFaces, IsDropped
    <3> QED
      BY <3>3, <3>4, <3>5, <3>6 DEF HopsOK, HopsFor
  <2> QED
    BY <1>3, <2>5, <2>6 DEF HopsOK
<1> QED
  BY <1>4, <1>5
(***************************************************************************)
(* What holds of the service between two events, besides ServiceInv.       *)
(***************************************************************************)
Batches(t) == {c.batch : c \in t.sent}

HopsSound(t, fb, fs) ==
    /\ Orderly(t) => OneBatch(t) /\ VerbsOK(t)
    /\ Regular(t) => HopsOK(t, Batches(t), fb, fs)

LEMMA RegularOrderly ==
    ASSUME NEW t, Regular(t)
    PROVE  Orderly(t)
BY DEF Regular, Orderly

\* A service that sends the updates of batch b, or applies it, with nothing under way.
LEMMA StartedSound ==
    ASSUME NEW t, ServiceOK(t), NEW b \in Batch, NEW v, IsSent(t, b, v), NEW fb, NEW fs,
           Orderly(v) => t.sent = {} /\ t.busy /\ b.route.face = t.batchFace,
           Regular(v) => HopsOK(t, {b}, fb, fs)
    PROVE  HopsSound(v, fb, fs)
<1> DEFINE p == Pending(t)
<1>0. IsService(t)
  BY DEF ServiceOK
<1>1. v.sent = t.sent \cup CommandsFor(p, b) /\ v.odd = t.odd /\ v.queue = t.queue
  BY DEF IsSent
<1>2. ASSUME t.sent = {} PROVE VerbsOK(v)
  <2>1. \A c \in CommandsFor(p, b) : c.update \in p /\ c.verb = Verb(c.update)
    BY CommandFacts
  <2> QED
    BY <1>1, <1>2, <2>1 DEF Verb, VerbsOK
<1>3. ASSUME Orderly(v) PROVE OneBatch(v) /\ Batches(v) = {b}
  <2>1. OneBatch(v) /\ v.sent # {} /\ \A c \in v.sent : c.batch = b
    BY <1>0, <1>3, SentOneBatch
  <2> QED
    BY <2>1 DEF Batches
<1>4. ASSUME Regular(v) PROVE HopsOK(v, Batches(v), fb, fs)
  <2>1. Batches(v) = {b}
    BY <1>3, <1>4, RegularOrderly
  <2>2. SameHops(t, v)
    <3>1. /\ v.rib = t.rib
          /\ v.batchFace = t.batchFace
          /\ v.batchUpdates = t.batchUpdates
          /\ v.otherUpdates = t.otherUpdates
          /\ v.inhUpdates = t.inhUpdates
      BY <1>0, SentFacts
    <3> QED
      BY <3>1 DEF SameHops
  <2>3. GoneFaces(v, fs)
    BY <1>1, <1>4 DEF HopsOK, GoneFaces
  <2> DEFINE B == {b}
  <2>4. HopsOK(t, B, fb, fs)
    BY <1>4
  <2> HIDE DEF B
  <2>5. HopsOK(v, B, fb, fs)
    BY <2>2, <2>3, <2>4, HopsFrame
  <2> QED
    BY <2>1, <2>5 DEF B
<1> QED
  BY <1>2, <1>3, <1>4 DEF HopsSound

LEMMA AppliedSound ==
    ASSUME NEW t, ServiceOK(t), t.batchUpdates = {}, t.otherUpdates = {}, NEW b \in Batch,
           NEW fb, NEW fs, FibOK(fb, fs), NEW v, v = onFibUpdateSuccess(t, b),
           Orderly(v) => t.sent = {},
           Regular(v) => HopsOK(t, {b}, fb, fs)
    PROVE  HopsSound(v, fb, fs)
<1> DEFINE z == onFibUpdateSuccess(t, b)
<1>1. SameBatch(t, z)
  BY SuccessEffect DEF ServiceOK
<1> HIDE DEF z
<1>2. v.sent = t.sent /\ v.odd = t.odd
  BY <1>1 DEF SameBatch, z
<1>3. Orderly(v) => OneBatch(v) /\ VerbsOK(v)
  BY <1>2, DoneOneBatch DEF VerbsOK
<1>4. ASSUME Regular(v) PROVE HopsOK(v, Batches(v), fb, fs)
  <2>1. Batches(v) = {}
    BY <1>2, <1>4, RegularOrderly DEF Batches
  <2>2. HopsOK(v, {}, fb, fs)
    BY <1>4, AppliedHops DEF Regular
  <2> QED
    BY <2>1, <2>2
<1> QED
  BY <1>3, <1>4 DEF HopsSound

LEMMA NextBatchSound ==
    ASSUME NEW v, ServiceOK(v), v.queue # <<>>, v.running, ~v.busy, NEW fb, NEW fs, FibOK(fb, fs),
           HopsSound(v, fb, fs)
    PROVE  HopsSound(sendNextBatch(v), fb, fs)
<1> DEFINE b == Head(v.queue)
           w == Begun(v)
           z == sendUpdatesForBatchFaceId(w, b)
<1>1. z = sendNextBatch(v)
  BY NextBatchKeeps
<1>2. /\ b \in Batch
      /\ w.busy = TRUE
      /\ w.batchFace = b.route.face
      /\ w.sent = v.sent
      /\ v.odd \subseteq w.odd
  <2>1. /\ b \in Batch
        /\ w.busy = TRUE
        /\ w.batchFace = b.route.face
        /\ w.sent = v.sent
        /\ w.odd = IF IsPlain(v.rib, b) THEN v.odd ELSE v.odd \cup {"update"}
    BY BegunEffect
  <2> HIDE DEF w, b
  <2> QED
    BY <2>1
<1>3. ServiceOK(w) /\ IsService(w)
  BY BegunUpdates DEF ServiceOK
<1>5. ASSUME NEW q, q.odd = w.odd, Orderly(q) PROVE w.sent = {}
  <2>1. Orderly(v)
    BY <1>2, <1>5 DEF Orderly
  <2> QED
    BY <1>2, <2>1 DEF HopsSound, OneBatch
<1>6. ASSUME NEW q, q.odd = w.odd, Regular(q) PROVE HopsOK(w, {b}, fb, fs)
  <2>1. Regular(v)
    BY <1>2, <1>6 DEF Regular
  <2>2. Batches(v) = {}
    BY <1>2, <1>5, <1>6, RegularOrderly DEF Batches
  <2> DEFINE B == Batches(v)
  <2>3. B = {} /\ HopsOK(v, B, fb, fs)
    BY <2>1, <2>2 DEF HopsSound
  <2> HIDE DEF B
  <2> QED
    BY <2>3, BegunHops
<1>7. IsSent(w, b, z) \/ (w.batchUpdates = {} /\ w.otherUpdates = {} /\ z = onFibUpdateSuccess(w, b))
  <2> HIDE DEF w, b
  <2> QED
    BY <1>3, StartShape
<1> HIDE DEF b, w, z
<1>8. CASE IsSent(w, b, z)
  <2>1. z.odd = w.odd
    BY <1>8 DEF IsSent
  <2>2. Orderly(z) => w.sent = {} /\ w.busy /\ b.route.face = w.batchFace
    BY <1>2, <1>5, <2>1
  <2>3. Regular(z) => HopsOK(w, {b}, fb, fs)
    BY <1>6, <2>1
  <2> QED
    BY <1>1, <1>2, <1>3, <1>8, <2>2, <2>3, StartedSound
<1>9. CASE w.batchUpdates = {} /\ w.otherUpdates = {} /\ z = onFibUpdateSuccess(w, b)
  <2> DEFINE y == onFibUpdateSuccess(w, b)
  <2>1. SameBatch(w, y)
    BY <1>2, <1>3, SuccessEffect DEF ServiceOK
  <2> HIDE DEF y
  <2>2. z.odd = w.odd
    BY <1>9, <2>1 DEF y, SameBatch
  <2>3. Orderly(z) => w.sent = {}
    BY <1>5, <2>2
  <2>4. Regular(z) => HopsOK(w, {b}, fb, fs)
    BY <1>6, <2>2
  <2> QED
    BY <1>1, <1>2, <1>3, <1>9, <2>3, <2>4, AppliedSound
<1> QED
  BY <1>7, <1>8, <1>9

LEMMA SendingSound ==
    ASSUME NEW t, ServiceOK(t), NEW fb, NEW fs, FibOK(fb, fs), HopsSound(t, fb, fs)
    PROVE  HopsSound(sendBatchFromQueue(t), fb, fs)
<1> DEFINE n == Len(t.queue)
<1>0. n \in Nat
  BY LenProperties DEF ServiceOK, QueueOK
<1>1. PICK f : IsSending(f, t) /\ sendBatchFromQueue(t) = f[n]
  BY <1>0, SendingRuns
<1>2. /\ \A i \in 0 .. n : ServiceOK(f[i])
      /\ \A i \in 1 .. n :
           \/ f[i] = f[i - 1]
           \/ f[i - 1].running /\ ~f[i - 1].busy /\ f[i - 1].queue # <<>>
                /\ f[i] = sendNextBatch(f[i - 1])
  BY <1>1, SendingSteps
<1> DEFINE S == {f[i] : i \in {j \in 0 .. n : HopsSound(f[j], fb, fs)}}
<1>3. f[0] \in S
  BY <1>0, <1>1 DEF IsSending
<1>4. ASSUME NEW i \in 1 .. n, f[i - 1] \in S PROVE f[i] \in S
  <2>1. HopsSound(f[i - 1], fb, fs)
    BY <1>4
  <2>2. ServiceOK(f[i - 1]) /\ i \in 0 .. n
    BY <1>0, <1>2
  <2> DEFINE p == f[i - 1]
             q == f[i]
  <2>3. q = p \/ (p.running /\ ~p.busy /\ p.queue # <<>> /\ q = sendNextBatch(p))
    BY <1>2
  <2>4. HopsSound(q, fb, fs)
    <3> HIDE DEF p, q
    <3>1. CASE q = p
      BY <2>1, <3>1 DEF p
    <3>2. CASE p.running /\ ~p.busy /\ p.queue # <<>> /\ q = sendNextBatch(p)
      BY <2>1, <2>2, <3>2, NextBatchSound DEF p
    <3> QED
      BY <2>3, <3>1, <3>2
  <2> QED
    BY <2>2, <2>4
<1>5. f[n] \in S
  <2> HIDE DEF S, n
  <2> QED
    BY <1>0, <1>3, <1>4, LoopKeeps
<1> QED
  BY <1>1, <1>5
\* What was odd stays odd.
LEMMA AnswerOdd ==
    ASSUME NEW r, ServiceOK(r), Covered(r), NEW c \in r.sent, NEW code
    PROVE  r.odd \subseteq AnswerTo(r, c, code).odd
<1> DEFINE v == AnswerTo(r, c, code)
           t == Without(r, c)
           b == c.batch
           x == DropBatch(t, c)
           y == DropOther(t, c)
           kind == "answer"
           o == Odd(t, kind)
           n == sendUpdatesForNonBatchFaceId(x, b)
           s1 == onFibUpdateSuccess(y, b)
           f1 == onFibUpdateFailure(t, b)
           f2 == onFibUpdateFailure(o, b)
           e == [r EXCEPT !.running = FALSE]
<1>0. IsService(r) /\ b \in Batch
  BY DEF ServiceOK, SentOK, IsCommand
<1>1. IsService(t) /\ t.odd = r.odd
  BY <1>0, WithoutEffect
<1>2. ServiceOK(x) /\ ServiceOK(y)
  BY AnsweredKeeps
<1>a. IsService(t)
  BY <1>1
<1>3. e.odd = r.odd
  BY <1>0 DEF IsService
<1> HIDE DEF t, e
<1>4. x.odd = t.odd /\ y.odd = t.odd
  <2>1. x.odd = t.odd
    BY <1>a, DropBatchEffect
  <2>2. y.odd = t.odd
    BY <1>a, DropOtherEffect
  <2> QED
    BY <2>1, <2>2
<1>5. IsService(o) /\ t.odd \subseteq o.odd
  <2>1. IsService(o) /\ o.odd = t.odd \cup {kind}
    <3> HIDE DEF kind
    <3> QED
      BY <1>a, OddEffect
  <2> HIDE DEF o
  <2> QED
    BY <2>1
<1> HIDE DEF x, y, o
<1>6. s1.odd = t.odd
  <2>1. SameBatch(y, s1)
    BY <1>0, <1>2, SuccessEffect DEF ServiceOK
  <2> HIDE DEF s1
  <2> QED
    BY <1>4, <2>1 DEF SameBatch
<1>7. x.batchUpdates = {} => n.odd = t.odd
  <2> SUFFICES ASSUME x.batchUpdates = {} PROVE n.odd = t.odd
    OBVIOUS
  <2> DEFINE s2 == onFibUpdateSuccess(x, b)
  <2>1. SameBatch(x, s2)
    BY <1>0, <1>2, SuccessEffect DEF ServiceOK
  <2>2. IsService(x)
    BY <1>2 DEF ServiceOK
  <2>3. IsSent(x, b, n) \/ (x.otherUpdates = {} /\ n = s2)
    BY <2>2, StartShape
  <2> HIDE DEF s2, n
  <2> QED
    BY <1>4, <2>1, <2>3 DEF SameBatch, IsSent
<1>8. f1.odd = t.odd /\ t.odd \subseteq f2.odd
  <2>1. SameBatch(t, f1)
    BY <1>a, FailureEffect
  <2>2. SameBatch(o, f2)
    BY <1>5, FailureEffect
  <2> HIDE DEF f1, f2
  <2> QED
    BY <1>5, <2>1, <2>2 DEF SameBatch
<1> HIDE DEF n, s1, f1, f2
<1>9. \/ v = onUpdateSuccess(t, c)
      \/ v = onFaceNotFound(t, c)
      \/ v = e
  <2>1. CASE code = 200
    BY <2>1 DEF AnswerTo, t
  <2>2. CASE code = 410
    BY <2>2 DEF AnswerTo, t
  <2>3. CASE code # 200 /\ code # 410
    BY <2>3 DEF AnswerTo, e
  <2> QED
    BY <2>1, <2>2, <2>3
<1>10. /\ onUpdateSuccess(t, c) \in {x, y, s1} \/ (x.batchUpdates = {} /\ onUpdateSuccess(t, c) = n)
       /\ onFaceNotFound(t, c) \in {f1, f2, y, s1}
  <2>1. CASE c.update.face = t.batchFace
    BY <2>1, AnswersMean DEF x, n, o, f1, f2, b, kind
  <2>2. CASE c.update.face # t.batchFace
    BY <2>2, AnswersMean DEF OtherDone, y, s1, b
  <2> QED
    BY <2>1, <2>2
<1> HIDE DEF v
<1> QED
  BY <1>1, <1>3, <1>4, <1>6, <1>7, <1>8, <1>9, <1>10 DEF v

LEMMA AnswerSound ==
    ASSUME NEW r, ServiceOK(r), Covered(r), r.running, NEW c \in r.sent, FibOK(fib, faces),
           HopsSound(r, fib, faces)
    PROVE  HopsSound(AnswerTo(r, c, Execute(c).code), Execute(c).fib, faces)
<1> DEFINE code == Execute(c).code
           fb == Execute(c).fib
           v == AnswerTo(r, c, code)
           b == c.batch
<1>1. IsCommand(c) /\ b \in Batch
  BY DEF ServiceOK, SentOK, IsCommand
<1>2. /\ IsExecuted(c, fib, fb, faces)
      /\ FibOK(fb, faces)
      /\ code = 410 => c.verb = "add-nexthop" /\ faces[c.update.face] # "up"
  BY <1>1, ExecuteEffect
<1> HIDE DEF code, fb
<1>3. r.odd \subseteq v.odd
  BY AnswerOdd
<1> SUFFICES ASSUME Orderly(v) PROVE HopsSound(v, fb, faces)
  <2> HIDE DEF v
  <2>1. ~Orderly(v) => ~Regular(v)
    BY RegularOrderly
  <2>2. ~Orderly(v) => HopsSound(v, fb, faces)
    BY <2>1 DEF HopsSound
  <2> QED
    BY <2>2 DEF v, code, fb
<1>4. Orderly(r)
  BY <1>3 DEF Orderly
<1>5. OneBatch(r) /\ VerbsOK(r) /\ Batches(r) = {b}
  <2>1. OneBatch(r) /\ VerbsOK(r)
    BY <1>4 DEF HopsSound
  <2> QED
    BY <2>1 DEF OneBatch, Batches
<1>6. c.update \in Pending(r) /\ b.route.face = r.batchFace /\ r.busy
  BY <1>5 DEF OneBatch
<1>7. ASSUME Regular(v)
      PROVE  /\ Regular(r)
             /\ HopsOK(r, {b}, fb, faces)
             /\ \A q : IsDropped(r, c, q) => HopsOK(q, {b}, fb, faces)
  <2>1. Regular(r)
    BY <1>3, <1>7 DEF Regular
  <2>2. HopsOK(r, {b}, fib, faces)
    BY <1>5, <2>1 DEF HopsSound
  <2> QED
    BY <1>2, <1>5, <1>6, <2>1, <2>2, ExecutedHops
<1>8. \/ \E q : /\ IsDropped(r, c, q)
                /\ (v = q /\ IsPartial(r, q)) \/ IsFinished(q, c.batch, v)
      \/ code = 410 /\ IsFailed(r, c, v)
  BY <1>5, AnswerShape
<1> HIDE DEF v
<1>9. ASSUME NEW q, IsDropped(r, c, q), v = q, IsPartial(r, q) PROVE HopsSound(v, fb, faces)
  <2>1. OneBatch(q) /\ q.sent # {} /\ \A d \in q.sent : d \in r.sent /\ d.batch = b
    BY <1>5, <1>9, PartialOneBatch
  <2>2. Batches(q) = {b}
    BY <2>1 DEF Batches
  <2>3. VerbsOK(q)
    BY <1>5, <1>9, <2>1 DEF VerbsOK, IsDropped
  <2> QED
    BY <1>7, <1>9, <2>1, <2>2, <2>3 DEF HopsSound
<1>10. ASSUME NEW q, IsDropped(r, c, q), IsFinished(q, b, v) PROVE HopsSound(v, fb, faces)
  <2>1. ServiceOK(q) /\ q.busy = r.busy /\ q.batchFace = r.batchFace
    BY <1>10 DEF IsDropped
  <2>2. q.batchUpdates = {} /\ q.sent = {}
    BY <1>10 DEF IsFinished
  <2>3. Regular(v) => HopsOK(q, {b}, fb, faces)
    BY <1>7, <1>10
  <2>4. CASE IsSent(q, b, v)
    BY <1>1, <1>6, <2>1, <2>2, <2>3, <2>4, StartedSound
  <2>5. CASE q.otherUpdates = {} /\ v = onFibUpdateSuccess(q, b)
    BY <1>1, <1>2, <2>1, <2>2, <2>3, <2>5, AppliedSound
  <2> QED
    BY <1>10, <2>4, <2>5 DEF IsFinished
<1>11. ASSUME code = 410, IsFailed(r, c, v) PROVE HopsSound(v, fb, faces)
  <2> DEFINE t == Without(r, c)
             z == onFibUpdateFailure(t, b)
  <2>1. IsService(t) /\ t.rib = r.rib /\ t.queue = r.queue /\ t.sent = r.sent \ {c} /\ t.odd = r.odd
    BY WithoutEffect DEF ServiceOK
  <2> HIDE DEF t
  <2>2. SameBatch(t, z) /\ z.rib = t.rib
    BY <2>1, FailureEffect
  <2>3. c.update \in r.batchUpdates /\ r.sent \ {c} = {} /\ v = z
    BY <1>11 DEF IsFailed, t
  <2> HIDE DEF z
  <2>4. v.sent = {} /\ v.rib = r.rib /\ v.queue = r.queue
    BY <2>1, <2>2, <2>3 DEF SameBatch
  <2>5. faces[r.batchFace] # "up"
    BY <1>2, <1>11, <2>3 DEF ServiceOK, UpdatesOK
  <2>6. Regular(v) => HopsOK(v, {}, fb, faces)
    BY <1>2, <1>7, <2>3, <2>4, <2>5, FailedHops
  <2>7. Batches(v) = {} /\ VerbsOK(v)
    BY <2>4 DEF Batches, VerbsOK
  <2> QED
    BY <2>4, <2>6, <2>7, DoneOneBatch DEF HopsSound
<1> QED
  BY <1>8, <1>9, <1>10, <1>11
LEMMA TimeoutSound ==
    ASSUME NEW r, ServiceOK(r), Covered(r), r.running, NEW c \in r.sent, FibOK(fib, faces),
           HopsSound(r, fib, faces), NEW fb, fb \in {fib, Execute(c).fib}
    PROVE  FibOK(fb, faces) /\ HopsSound(onUpdateTimeout(Without(r, c), c), fb, faces)
<1> DEFINE d == Again(c)
           v == onUpdateTimeout(Without(r, c), c)
           b == c.batch
<1>1. IsCommand(c) /\ b \in Batch
  BY DEF ServiceOK, SentOK, IsCommand
<1>2. FibOK(fb, faces) /\ (fb = fib \/ IsExecuted(c, fib, fb, faces))
  <2>1. IsExecuted(c, fib, Execute(c).fib, faces) /\ FibOK(Execute(c).fib, faces)
    BY <1>1, ExecuteEffect
  <2> QED
    BY <2>1
<1>3. /\ d.update = c.update
      /\ d.batch = c.batch
      /\ d.verb = "add-nexthop"
      /\ v.rib = r.rib
      /\ v.queue = r.queue
      /\ v.busy = r.busy
      /\ v.batchFace = r.batchFace
      /\ v.batchUpdates = r.batchUpdates
      /\ v.otherUpdates = r.otherUpdates
      /\ v.inhUpdates = r.inhUpdates
      /\ v.running => r.running /\ v.sent = (r.sent \ {c}) \cup {d}
      /\ v.odd = r.odd \/ v.odd = r.odd \cup {"retry"}
      /\ v.running /\ c.verb # "add-nexthop" => "retry" \in v.odd
  BY TimeoutEffect
<1> HIDE DEF d, v
<1>4. ASSUME Orderly(v) PROVE OneBatch(r) /\ VerbsOK(r) /\ v.sent = (r.sent \ {c}) \cup {d}
  BY <1>3, <1>4 DEF HopsSound, Orderly
<1>5. ASSUME Orderly(v) PROVE OneBatch(v) /\ VerbsOK(v) /\ Batches(v) = {b} /\ Batches(r) = {b}
  <2>1. Pending(v) = Pending(r)
    BY <1>3 DEF Pending
  <2>2. /\ c.update \in Pending(r) /\ c.batch.route.face = r.batchFace /\ r.busy
        /\ \A y \in r.sent : y.batch = b /\ (y.update = c.update => y = c)
    BY <1>4, <1>5 DEF OneBatch
  <2>3. OneBatch(v)
    BY <1>3, <1>4, <1>5, <2>1, <2>2 DEF OneBatch
  <2>4. VerbsOK(v)
    BY <1>3, <1>4, <1>5 DEF VerbsOK, Orderly
  <2>5. Batches(v) = {b} /\ Batches(r) = {b}
    BY <1>3, <1>4, <1>5, <2>2 DEF Batches
  <2> QED
    BY <2>3, <2>4, <2>5
<1>6. ASSUME Regular(v) PROVE HopsOK(v, Batches(v), fb, faces)
  <2>1. Orderly(v) /\ Regular(r)
    BY <1>3, <1>6, RegularOrderly DEF Regular
  <2> DEFINE B == {b}
  <2>2. HopsOK(r, B, fib, faces)
    BY <1>5, <2>1 DEF HopsSound
  <2>3. HopsOK(r, B, fb, faces)
    <3>1. CASE fb = fib
      BY <2>2, <3>1
    <3>2. CASE IsExecuted(c, fib, fb, faces)
      <4>1. c.update \in Pending(r) /\ VerbsOK(r)
        BY <1>4, <2>1 DEF OneBatch
      <4> QED
        BY <2>1, <2>2, <3>2, <4>1, ExecutedHops
    <3> QED
      BY <1>2, <3>1, <3>2
  <2>4. SameHops(r, v) /\ GoneFaces(v, faces)
    <3>1. GoneFaces(r, faces)
      BY <2>2 DEF HopsOK
    <3> QED
      BY <1>3, <3>1 DEF SameHops, GoneFaces
  <2> HIDE DEF B
  <2>5. HopsOK(v, B, fb, faces)
    BY <2>3, <2>4, HopsFrame
  <2> QED
    BY <1>5, <2>1, <2>5 DEF B
<1> QED
  BY <1>2, <1>5, <1>6 DEF HopsSound, v

\* A longer queue, with removals of faces that are down only.
LEMMA QueuedSound ==
    ASSUME NEW t, NEW v, SameWork(t, v), t.odd \subseteq v.odd, NEW fb, NEW fs,
           HopsSound(t, fb, fs),
           Regular(v) /\ GoneFaces(t, fs) => GoneFaces(v, fs)
    PROVE  HopsSound(v, fb, fs)
<1>1. Pending(v) = Pending(t) /\ Batches(v) = Batches(t) /\ SameHops(t, v)
  BY DEF SameWork, Pending, Batches, SameHops
<1>2. ASSUME Orderly(v) PROVE OneBatch(v) /\ VerbsOK(v)
  <2>1. Orderly(t)
    BY <1>2 DEF Orderly, SameWork
  <2>2. OneBatch(t) /\ VerbsOK(t)
    BY <2>1 DEF HopsSound
  <2> QED
    BY <1>1, <2>2 DEF OneBatch, VerbsOK, SameWork
<1>3. ASSUME Regular(v) PROVE HopsOK(v, Batches(v), fb, fs)
  <2> DEFINE B == Batches(t)
  <2>1. Regular(t)
    BY <1>3 DEF Regular, SameWork
  <2>2. HopsOK(t, B, fb, fs)
    BY <2>1 DEF HopsSound
  <2>3. GoneFaces(v, fs)
    BY <1>3, <2>2 DEF HopsOK
  <2> HIDE DEF B
  <2>4. HopsOK(v, B, fb, fs)
    BY <1>1, <2>2, <2>3, HopsFrame
  <2> QED
    BY <1>1, <2>4 DEF B
<1> QED
  BY <1>2, <1>3 DEF HopsSound

LEMMA EnqueuedSound ==
    ASSUME NEW t, ServiceOK(t), NEW b \in Batch, b.action # "remove-face", NEW fb, NEW fs,
           HopsSound(t, fb, fs)
    PROVE  HopsSound(Enqueue(t, b), fb, fs)
<1> DEFINE v == Enqueue(t, b)
<1>1. /\ SameWork(t, v)
      /\ v.queue = Append(t.queue, b)
      /\ v.odd = t.odd
  BY EnqueueEffect
<1> HIDE DEF v
<1>2. t.queue \in Seq(Batch)
  BY DEF ServiceOK, QueueOK
<1>3. \A i \in 1 .. Len(v.queue) : (i \in 1 .. Len(t.queue) /\ v.queue[i] = t.queue[i]) \/ v.queue[i] = b
  BY <1>1, <1>2
<1>4. GoneFaces(t, fs) => GoneFaces(v, fs)
  BY <1>3 DEF GoneFaces
<1>5. HopsSound(v, fb, fs)
  BY <1>1, <1>4, QueuedSound
<1> QED
  BY <1>5 DEF v

LEMMA RemovedFaceSound ==
    ASSUME NEW t, ServiceOK(t), NEW f \in Face, NEW fb, NEW fs, HopsSound(t, fb, fs),
           Regular(t) => fs[f] = "down"
    PROVE  HopsSound([t EXCEPT !.queue = @ \o FaceRemovals(t, f)], fb, fs)
<1> DEFINE v == [t EXCEPT !.queue = @ \o FaceRemovals(t, f)]
           q == FaceRemovals(t, f)
<1>1. SameWork(t, v) /\ v.queue = t.queue \o q /\ v.odd = t.odd
  BY RemoveFaceEffect
<1>2. t.queue \in Seq(Batch) /\ q \in Seq(FaceRemoval(f))
  BY FaceRemovalsAre DEF ServiceOK, QueueOK
<1> HIDE DEF v, q
<1>3. \A i \in 1 .. Len(v.queue) : \/ i \in 1 .. Len(t.queue) /\ v.queue[i] = t.queue[i]
                                   \/ v.queue[i] \in FaceRemoval(f)
  BY <1>1, <1>2
<1>4. Regular(v) /\ GoneFaces(t, fs) => GoneFaces(v, fs)
  <2>1. Regular(v) => Regular(t)
    BY <1>1 DEF Regular, SameWork
  <2> QED
    BY <1>3, <2>1 DEF GoneFaces, FaceRemoval
<1>5. HopsSound(v, fb, fs)
  BY <1>1, <1>4, QueuedSound
<1> QED
  BY <1>5 DEF v

\* A face that is down stays so, and a FIB that only lost next hops is as good.
LEMMA FacesSound ==
    ASSUME NEW t, ServiceOK(t), NEW fb, NEW fs, NEW fb2, NEW fs2, HopsSound(t, fb, fs),
           DOMAIN fb2 \subseteq DOMAIN fb, \A f \in Face : fs[f] = "down" => fs2[f] = "down"
    PROVE  HopsSound(t, fb2, fs2)
<1>0. \A b \in Batch : b.route.face \in Face
  BY DEF Batch, Target, Route
<1>1. GoneFaces(t, fs) => GoneFaces(t, fs2)
  <2>1. \A i \in 1 .. Len(t.queue) : t.queue[i].route.face \in Face
    <3>1. t.queue \in Seq(Batch)
      BY DEF ServiceOK, QueueOK
    <3> QED
      BY <1>0, <3>1
  <2> QED
    BY <2>1 DEF GoneFaces
<1>2. \A b : HopsFor(t, b, fb) => HopsFor(t, b, fb2)
  BY DEF HopsFor
<1>3. \A b \in Batches(t) : b.route.face \in Face
  BY <1>0 DEF Batches, ServiceOK, SentOK, IsCommand
<1>4. HopsOK(t, Batches(t), fb, fs) => HopsOK(t, Batches(t), fb2, fs2)
  BY <1>1, <1>2, <1>3 DEF HopsOK
<1> QED
  BY <1>4 DEF HopsSound

HopsInv == ServiceInv /\ FibOK(fib, faces) /\ HopsSound(s, fib, faces)
LEMMA InitHops == Init => HopsInv
<1> SUFFICES ASSUME Init PROVE HopsInv
  OBVIOUS
<1>1. s.sent = {} /\ s.queue = <<>> /\ DOMAIN fib = {}
  BY DEF Init, NoChange
<1>2. Batches(s) = {} /\ OneBatch(s) /\ VerbsOK(s)
  BY <1>1 DEF Batches, OneBatch, VerbsOK
<1>3. GoneFaces(s, faces)
  BY <1>1 DEF GoneFaces
<1>4. HopsOK(s, Batches(s), fib, faces)
  BY <1>1, <1>2, <1>3 DEF HopsOK
<1>5. FibOK(fib, faces)
  BY <1>1 DEF FibOK
<1> QED
  BY <1>2, <1>4, <1>5, InitService DEF HopsInv, HopsSound

LEMMA NextHopsInv == HopsInv /\ [Next]_vars => HopsInv'
<1> SUFFICES ASSUME HopsInv, [Next]_vars PROVE HopsInv'
  OBVIOUS
<1> DEFINE t == s
           v == s'
           fb == fib'
           fs == faces'
           Good(q) == ServiceOK(q) /\ HopsSound(q, fb, fs)
<1>0. /\ OthersOK
      /\ ServiceOK(t)
      /\ Covered(t)
      /\ FibOK(fib, faces)
      /\ HopsSound(t, fib, faces)
  BY DEF HopsInv, ServiceInv
<1>a. ServiceInv'
  BY NextService DEF HopsInv
<1>1. ASSUME FibOK(fb, fs), HopsSound(v, fb, fs) PROVE HopsInv'
  BY <1>a, <1>1 DEF HopsInv, FibOK, HopsSound, Orderly, OneBatch, Pending, VerbsOK, Regular, HopsOK,
        Batches, HopsFor, GoneFaces, Updates, KnownAfter, RoutesAfter, Known, RoutesAt, InheritedAt
<1>2. ASSUME NEW q, Good(q), v = sendBatchFromQueue(q), FibOK(fb, fs) PROVE HopsInv'
  <2> HIDE DEF fb, fs
  <2>1. HopsSound(sendBatchFromQueue(q), fb, fs)
    BY <1>2, SendingSound
  <2> HIDE DEF v
  <2> QED
    BY <1>1, <1>2, <2>1
<1>3. ASSUME NEW q, Good(q), NEW b \in Batch, b.action # "remove-face",
             v = sendBatchFromQueue(Enqueue(q, b)), FibOK(fb, fs)
      PROVE  HopsInv'
  <2> DEFINE e == Enqueue(q, b)
  <2> HIDE DEF fb, fs
  <2>1. IsService(e) /\ SameWork(q, e) /\ QueueOK(e) /\ TimersOK(e)
    BY <1>3, EnqueueEffect
  <2>2. HopsSound(e, fb, fs)
    BY <1>3, EnqueuedSound
  <2> HIDE DEF e, v
  <2>3. Good(e)
    BY <1>3, <2>1, <2>2, SameWorkKeeps
  <2> QED
    BY <1>2, <1>3, <2>3 DEF e
<1>4. ASSUME UNCHANGED <<fib, faces>> PROVE FibOK(fb, fs) /\ Good(t)
  <2>1. fb = fib /\ fs = faces
    BY <1>4
  <2> HIDE DEF fb, fs
  <2> QED
    BY <1>0, <2>1
<1>5. ASSUME UNCHANGED <<s, fib, faces>> PROVE HopsInv'
  <2>1. FibOK(fb, fs) /\ HopsSound(t, fb, fs) /\ v = t
    BY <1>4, <1>5
  <2> HIDE DEF t, v, fb, fs
  <2> QED
    BY <1>1, <2>1
<1>6. ASSUME NEW c \in s.sent, Respond(c), s.running PROVE HopsInv'
  <2> DEFINE q == AnswerTo(t, c, Execute(c).code)
  <2>1. v = sendBatchFromQueue(q) /\ fb = Execute(c).fib /\ fs = faces
    BY <1>6, RespondMeans
  <2>2. HopsSound(q, Execute(c).fib, faces)
    BY <1>0, <1>6, AnswerSound
  <2>3. ServiceOK(q)
    BY <1>0, <1>6, AnswerKeeps
  <2>4. FibOK(Execute(c).fib, faces)
    <3>1. IsCommand(c)
      BY <1>0, <1>6 DEF ServiceOK, SentOK
    <3> QED
      BY <1>0, <3>1, ExecuteEffect
  <2> HIDE DEF q, v, fb, fs
  <2> QED
    BY <1>2, <2>1, <2>2, <2>3, <2>4
<1>7. ASSUME NEW c \in s.sent, Timeout(c), s.running PROVE HopsInv'
  <2> DEFINE o == onUpdateTimeout(Without(t, c), c)
  <2>1. v = o /\ fb \in {fib, Execute(c).fib} /\ fs = faces
    BY <1>7 DEF Timeout, Answered, Without
  <2>2. FibOK(fb, faces) /\ HopsSound(o, fb, faces)
    <3> HIDE DEF fb, fs
    <3> QED
      BY <1>0, <1>7, <2>1, TimeoutSound
  <2> HIDE DEF o, v, fb, fs
  <2> QED
    BY <1>1, <2>1, <2>2
<1>8. ASSUME NEW x \in s.timers, onRouteExpiration(x) PROVE HopsInv'
  <2> DEFINE q == [t EXCEPT !.timers = @ \ {x}]
             b == Update("unregister", x.name, x.route, 0)
  <2>1. v = sendBatchFromQueue(Enqueue(q, b)) /\ UNCHANGED <<fib, faces>>
    BY <1>8 DEF onRouteExpiration, beginApplyUpdate
  <2>2. b \in Batch /\ ServiceOK(q) /\ SameWork(t, q) /\ q.queue = t.queue /\ q.odd = t.odd
    BY <1>0, <1>8, ExpiredEffect
  <2>3. b.action # "remove-face"
    BY DEF Update
  <2> HIDE DEF q, b, v, fb, fs
  <2>4. Good(q)
    <3>1. GoneFaces(t, fs) => GoneFaces(q, fs)
      BY <2>2 DEF GoneFaces
    <3> QED
      BY <1>4, <2>1, <2>2, <3>1, QueuedSound
  <2> QED
    BY <1>3, <1>4, <2>1, <2>2, <2>3, <2>4
<1>9. ASSUME NEW timers, timers \subseteq Timer, UNCHANGED <<fib, faces>>
      PROVE Good(Requested(t, timers))
  <2> DEFINE q == Requested(t, timers)
  <2>1. ServiceOK(q) /\ SameWork(t, q) /\ q.queue = t.queue /\ q.odd = t.odd
    BY <1>0, <1>9, RequestedEffect
  <2> HIDE DEF q, fb, fs
  <2>2. GoneFaces(t, fs) => GoneFaces(q, fs)
    BY <2>1 DEF GoneFaces
  <2>3. Good(q)
    BY <1>4, <1>9, <2>1, <2>2, QueuedSound
  <2> QED
    BY <2>3 DEF q
<1>10. ASSUME NEW n \in Name, NEW f \in Face, NEW o \in Origin, unregisterEntry(n, f, o)
       PROVE  HopsInv'
  <2> DEFINE route == [face |-> f, origin |-> o]
             id == requests + 1
             no == {}
             q == Requested(t, no)
             b == Update("unregister", n, route, id)
  <2>1. v = beginRemoveRoute(t, n, route, id) /\ UNCHANGED <<fib, faces>>
    BY <1>10 DEF unregisterEntry
  <2>2. id \in Nat /\ route \in Target
    BY <1>0 DEF OthersOK, Target
  <2>3. b \in Batch /\ v = sendBatchFromQueue(Enqueue(q, b))
    <3> HIDE DEF id, route, v
    <3> QED
      BY <1>0, <2>1, <2>2, RemoveRouteMeans DEF no
  <2>4. Good(q)
    <3>1. no \subseteq Timer
      OBVIOUS
    <3> HIDE DEF no, Good
    <3> QED
      BY <1>9, <2>1, <3>1
  <2>5. b.action # "remove-face"
    BY DEF Update
  <2> HIDE DEF q, b, Good, v, fb, fs
  <2> QED
    BY <1>3, <1>4, <2>1, <2>3, <2>4, <2>5
<1>11. ASSUME NEW n \in Name, NEW f \in Face, NEW o \in Origin, NEW cost \in Cost,
              NEW ci \in BOOLEAN, NEW cap \in BOOLEAN, NEW expires \in Expiring,
              registerEntry(n, f, o, cost, ci, cap, expires)
       PROVE  HopsInv'
  <2> DEFINE id == requests + 1
             ev == IF expires THEN id ELSE 0
             route == [face |-> f, origin |-> o, cost |-> cost, ci |-> ci, cap |-> cap, ev |-> ev]
             timers == TimersFor(n, route, id)
             q == Requested(t, timers)
             b == Update("register", n, route, id)
  <2>1. v = beginAddRoute(t, n, route, id) /\ UNCHANGED <<fib, faces>>
    BY <1>11 DEF registerEntry
  <2>2. id \in Nat /\ ev \in Nat
    BY <1>0 DEF OthersOK
  <2>3. route \in Route
    <3> HIDE DEF ev
    <3> QED
      BY <2>2 DEF Route
  <2>4. b \in Batch /\ timers \subseteq Timer /\ v = sendBatchFromQueue(Enqueue(q, b))
    <3> HIDE DEF id, route, v
    <3> QED
      BY <1>0, <2>1, <2>2, <2>3, AddRouteMeans
  <2>5. Good(q)
    <3> HIDE DEF timers, Good
    <3> QED
      BY <1>9, <2>1, <2>4
  <2>6. b.action # "remove-face"
    BY DEF Update
  <2> HIDE DEF q, b, Good, v, fb, fs
  <2> QED
    BY <1>3, <1>4, <2>1, <2>4, <2>5, <2>6
<1>12. ASSUME NEW f \in Face, CreateFace(f) \/ DestroyFace(f) PROVE HopsInv'
  <2>1. v = t
    BY <1>12 DEF CreateFace, DestroyFace
  <2>2. DOMAIN fb \subseteq DOMAIN fib /\ FibOK(fb, fs)
          /\ \A g \in Face : faces[g] = "down" => fs[g] = "down"
    <3>1. faces \in [Face -> {"new", "up", "down"}] /\ DOMAIN fib \subseteq NextHops
      BY <1>0 DEF OthersOK, FibOK
    <3>2. \A x \in DOMAIN fib : x[2] \in Face
      BY <3>1 DEF NextHops
    <3>3. CASE CreateFace(f)
      <4>1. fb = fib /\ fs = [faces EXCEPT ![f] = "up"] /\ faces[f] = "new"
        BY <3>3 DEF CreateFace
      <4> HIDE DEF fb, fs
      <4> QED
        BY <1>0, <3>1, <3>2, <4>1 DEF FibOK
    <3>4. CASE DestroyFace(f)
      <4>1. fb = [x \in {x \in DOMAIN fib : x[2] # f} |-> fib[x]]
              /\ fs = [faces EXCEPT ![f] = "down"]
        BY <3>4 DEF DestroyFace
      <4> HIDE DEF fb, fs
      <4>2. DOMAIN fb = {x \in DOMAIN fib : x[2] # f}
        BY <4>1
      <4> QED
        BY <1>0, <3>1, <3>2, <4>1, <4>2 DEF FibOK
    <3> QED
      BY <1>12, <3>3, <3>4
  <2> HIDE DEF fb, fs, v, t
  <2>3. HopsSound(t, fb, fs)
    BY <1>0, <2>2, FacesSound
  <2> QED
    BY <1>1, <2>1, <2>2, <2>3
<1>13. ASSUME NEW f \in Face, onFaceDestroyedEvent(f) PROVE HopsInv'
  <2> DEFINE kind == "stale"
             o == Odd(t, kind)
             p == IF faces[f] = "down" THEN t ELSE o
             q == [p EXCEPT !.queue = @ \o FaceRemovals(p, f)]
  <2>1. v = sendBatchFromQueue(q) /\ UNCHANGED <<fib, faces>>
    BY <1>13 DEF onFaceDestroyedEvent, beginRemoveFace
  <2>2. fs = faces
    BY <2>1
  <2>3. ServiceOK(o) /\ SameWork(t, o) /\ o.queue = t.queue /\ o.odd = t.odd \cup {kind}
    <3> HIDE DEF kind, t
    <3>1. IsService(t)
      BY <1>0 DEF ServiceOK
    <3>2. /\ o.rib = t.rib
          /\ o.faceMap = t.faceMap
          /\ o.queue = t.queue
          /\ o.busy = t.busy
          /\ o.batchFace = t.batchFace
          /\ o.batchUpdates = t.batchUpdates
          /\ o.otherUpdates = t.otherUpdates
          /\ o.inhUpdates = t.inhUpdates
          /\ o.sent = t.sent
          /\ o.running = t.running
          /\ o.odd = t.odd \cup {kind}
      BY <3>1, OddEffect
    <3>3. ServiceOK(o)
      BY <1>0, OddKeeps
    <3> HIDE DEF o
    <3> QED
      BY <3>2, <3>3 DEF SameWork
  <2>4. ~Regular(o)
    BY <2>3 DEF Regular
  <2> HIDE DEF o, v, fb, fs
  <2>5. Good(o)
    <3>1. GoneFaces(t, fs) => GoneFaces(o, fs)
      BY <2>3 DEF GoneFaces
    <3>2. t.odd \subseteq o.odd
      BY <2>3
    <3> QED
      BY <1>4, <2>1, <2>3, <3>1, <3>2, QueuedSound
  <2>6. Good(p) /\ (Regular(p) => fs[f] = "down")
    BY <1>4, <2>1, <2>2, <2>4, <2>5
  <2> HIDE DEF p
  <2>7. Good(q)
    <3>1. ServiceOK(q)
      BY <2>6, RemoveFaceEffect
    <3>2. HopsSound(q, fb, fs)
      BY <2>6, RemovedFaceSound
    <3> QED
      BY <3>1, <3>2
  <2> HIDE DEF q, Good
  <2> QED
    BY <1>2, <1>4, <2>1, <2>7
<1>14. ASSUME fetchActiveFaces PROVE HopsInv'
  BY <1>5, <1>14 DEF fetchActiveFaces
<1>15. ASSUME NEW active \in fetched,
              removeInvalidFaces(active) \/ onFetchActiveFacesFailure(active)
       PROVE  HopsInv'
  BY <1>5, <1>15 DEF removeInvalidFaces, onFetchActiveFacesFailure
<1>16. CASE UNCHANGED vars
  BY <1>5, <1>16 DEF vars
<1>17. CASE Next
  BY <1>6, <1>7, <1>8, <1>10, <1>11, <1>12, <1>13, <1>14, <1>15, <1>17 DEF Next
<1> QED
  BY <1>16, <1>17

(* When all updates are done, every next hop in the FIB is one that the RIB knows as a
   route or an inherited route and will remove with it, whatever was registered, in
   which order the FIB answered, which faces went and which commands were repeated,
   as long as no batch failed with another command under way, no removal was sent
   again as an addition, and no live face was removed on account of an old dataset. *)
THEOREM NextHopsKnown == Spec => []NoOrphanNextHop
<1>1. HopsInv => NoOrphanNextHop
  <2> SUFFICES ASSUME HopsInv, Quiescent, s.odd \subseteq {"update"}, NEW x \in DOMAIN fib
               PROVE  /\ x[1] \in DOMAIN s.rib
                      /\ hasFaceId(s.rib[x[1]], x[2]) \/ x[2] \in s.rib[x[1]].inherited
    BY DEF NoOrphanNextHop
  <2>1. Regular(s) /\ Batches(s) = {}
    BY DEF Regular, Quiescent, Batches
  <2>2. Known(s.rib, x)
    BY <2>1 DEF HopsInv, HopsSound, HopsOK
  <2>3. x[1] \in DOMAIN s.rib
    BY <2>2 DEF Known, RoutesAt, InheritedAt
  <2>4. s.rib[x[1]] \in Entry
    BY <2>3 DEF HopsInv, ServiceInv, ServiceOK, RibOK, IsRib
  <2> DEFINE e == s.rib[x[1]]
             f == x[2]
  <2>5. hasFaceId(e, f) <=> \E r \in RoutesOf(e) : r.face = f
    <3> HIDE DEF e, f
    <3> QED
      BY <2>4, EntryFacts DEF e
  <2> QED
    BY <2>2, <2>3, <2>5 DEF Known, RoutesAt, InheritedAt
<1> QED
  BY <1>1, InitHops, NextHopsInv, PTL DEF Spec
(***************************************************************************)
(* Expiration of routes. The line is the batch under way, if any, and the  *)
(* queue behind it; k is the number of requests so far.                    *)
(***************************************************************************)
Line(t) == IF t.sent = {} THEN t.queue ELSE <<(CHOOSE c \in t.sent : TRUE).batch>> \o t.queue

Removes(b, n, x) == b.action # "register" /\ b.name = n /\ SameFaceAndOrigin(b.route, x)
Fires(timers, ev) == \E y \in timers : y.ev = ev
Awaited(line, i, n, x) == \E j \in 1 .. Len(line) : i < j /\ Removes(line[j], n, x)
Expires(b) == b.action = "register" /\ b.route.ev # 0

\* The route of the RIB with an event, and the one that batch i of the line adds, has
\* its event pending, or a removal stands in the line behind it.
WillEnd(rib, timers, line, fs) ==
    /\ \A n : \A x \in RoutesAt(rib, n) :
          x.ev # 0 /\ fs[x.face] # "down" => Fires(timers, x.ev) \/ Awaited(line, 0, n, x)
    /\ \A i \in 1 .. Len(line) :
          Expires(line[i]) =>
             Fires(timers, line[i].route.ev) \/ Awaited(line, i, line[i].name, line[i].route)

\* No two of them have the same event.
EventsOnce(rib, line) ==
    /\ \A n, m : \A x \in RoutesAt(rib, n), y \in RoutesAt(rib, m) :
          x.ev # 0 /\ x.ev = y.ev => n = m /\ x = y
    /\ \A n : \A x \in RoutesAt(rib, n) : \A i \in 1 .. Len(line) :
          Expires(line[i]) => line[i].route.ev # x.ev
    /\ \A i, j \in 1 .. Len(line) :
          Expires(line[i]) /\ Expires(line[j]) /\ line[i].route.ev = line[j].route.ev => i = j

\* An event that fires names its route.
EventsFit(rib, timers, line) ==
    \A y \in timers :
        /\ \A n : \A x \in RoutesAt(rib, n) :
              x.ev # 0 /\ x.ev = y.ev => y.name = n /\ SameFaceAndOrigin(y.route, x)
        /\ \A i \in 1 .. Len(line) :
              Expires(line[i]) /\ line[i].route.ev = y.ev =>
                 y.name = line[i].name /\ SameFaceAndOrigin(y.route, line[i].route)

\* Events have the numbers of requests so far.
EventsBelow(rib, timers, line, k) ==
    /\ \A n : \A x \in RoutesAt(rib, n) : x.ev # 0 => x.ev <= k
    /\ \A y \in timers : y.ev <= k
    /\ \A i \in 1 .. Len(line) : Expires(line[i]) => line[i].route.ev <= k

FacesSeen(rib, fs) == \A n : \A x \in RoutesAt(rib, n) : fs[x.face] # "new"

Lasting(rib, timers, line, fs, k) ==
    /\ WillEnd(rib, timers, line, fs)
    /\ EventsOnce(rib, line)
    /\ EventsFit(rib, timers, line)
    /\ EventsBelow(rib, timers, line, k)
    /\ FacesSeen(rib, fs)

\* Event e is that of the route of n for the face and the origin, or there is none.
IsEventOf(rib, n, route, e) ==
    \/ \E x \in RoutesAt(rib, n) : SameFaceAndOrigin(x, route) /\ x.ev = e
    \/ e = 0 /\ \A x \in RoutesAt(rib, n) : ~SameFaceAndOrigin(x, route)

LEMMA EventOfIs ==
    ASSUME NEW t, RibOK(t), NEW n, NEW route
    PROVE  IsEventOf(t.rib, n, route, EventOf(t, n, route))
<1>1. \A x \in RoutesAt(t.rib, n) : SameFaceAndOrigin(x, route) => EventOf(t, n, route) = x.ev
  BY EventOfRoute DEF RibOK
<1>2. CASE \E x \in RoutesAt(t.rib, n) : SameFaceAndOrigin(x, route)
  BY <1>1, <1>2 DEF IsEventOf
<1>3. CASE \A x \in RoutesAt(t.rib, n) : ~SameFaceAndOrigin(x, route)
  <2>1. ASSUME n \in DOMAIN t.rib PROVE ~hasRoute(t.rib[n], route)
    <3> DEFINE e == t.rib[n]
    <3>1. e \in Entry /\ RoutesAt(t.rib, n) = RoutesOf(e)
      BY <2>1 DEF RibOK, IsRib, RoutesAt
    <3> HIDE DEF e
    <3>2. hasRoute(e, route) <=> \E x \in RoutesOf(e) : SameFaceAndOrigin(x, route)
      BY <3>1, EntryFacts
    <3> QED
      BY <1>3, <3>1, <3>2 DEF e
  <2>2. EventOf(t, n, route) = 0
    BY <2>1 DEF EventOf
  <2> QED
    BY <1>3, <2>2 DEF IsEventOf
<1> QED
  BY <1>2, <1>3

\* The removal at the head of the line cancels the event of the route it is for.
LEMMA CancelLasts ==
    ASSUME NEW rib, NEW timers, NEW line, line \in Seq(Batch), line # <<>>, NEW fs, NEW k,
           Lasting(rib, timers, line, fs, k), NEW b, b = line[1], b.action # "register",
           NEW e, IsEventOf(rib, b.name, b.route, e),
           NEW rest, \A y : y \in rest <=> y \in timers /\ y.ev # e
    PROVE  Lasting(rib, rest, line, fs, k)
<1>1. WillEnd(rib, timers, line, fs) /\ EventsOnce(rib, line)
  BY DEF Lasting
<1>2. \A ev : ev # e /\ Fires(timers, ev) => Fires(rest, ev)
  BY DEF Fires
<1>3. 1 \in 1 .. Len(line) /\ 0 < 1
  OBVIOUS
<1>4. ASSUME NEW n, NEW x \in RoutesAt(rib, n), x.ev # 0, fs[x.face] # "down"
      PROVE  Fires(rest, x.ev) \/ Awaited(line, 0, n, x)
  <2>1. CASE x.ev # e
    BY <1>1, <1>2, <1>4, <2>1 DEF WillEnd
  <2>2. CASE x.ev = e
    <3>1. PICK y \in RoutesAt(rib, b.name) : SameFaceAndOrigin(y, b.route) /\ y.ev = e
      BY <1>4, <2>2 DEF IsEventOf
    <3>2. b.name = n /\ y = x
      BY <1>1, <1>4, <2>2, <3>1 DEF EventsOnce
    <3>3. Removes(line[1], n, x)
      BY <3>1, <3>2 DEF Removes, SameFaceAndOrigin
    <3> QED
      BY <1>3, <3>3 DEF Awaited
  <2> QED
    BY <2>1, <2>2
<1>5. ASSUME NEW i \in 1 .. Len(line), Expires(line[i])
      PROVE  Fires(rest, line[i].route.ev) \/ Awaited(line, i, line[i].name, line[i].route)
  <2>1. line[i].route.ev # e
    BY <1>1, <1>5 DEF EventsOnce, IsEventOf, Expires
  <2> QED
    BY <1>1, <1>2, <1>5, <2>1 DEF WillEnd
<1>6. WillEnd(rib, rest, line, fs)
  BY <1>4, <1>5 DEF WillEnd
<1>7. EventsFit(rib, rest, line)
  BY DEF Lasting, EventsFit
<1>8. EventsBelow(rib, rest, line, k)
  BY DEF Lasting, EventsBelow
<1> QED
  BY <1>1, <1>6, <1>7, <1>8 DEF Lasting

\* The rest of a line, by positions.
LEMMA TailPositions ==
    ASSUME NEW line, line \in Seq(Batch), line # <<>>
    PROVE  /\ \A i \in 1 .. Len(Tail(line)) : i + 1 \in 1 .. Len(line)
                /\ Tail(line)[i] = line[i + 1]
           /\ \A j \in 1 .. Len(line) : 1 < j =>
                j - 1 \in 1 .. Len(Tail(line)) /\ Tail(line)[j - 1] = line[j]
OBVIOUS

\* A removal that stands behind the head of the line stays.
LEMMA AwaitedInTail ==
    ASSUME NEW line, line \in Seq(Batch), line # <<>>, NEW i \in Nat, NEW n, NEW x,
           Awaited(line, i, n, x)
    PROVE  /\ i >= 1 => Awaited(Tail(line), i - 1, n, x)
           /\ Removes(line[1], n, x) \/ Awaited(Tail(line), 0, n, x)
<1>1. PICK j \in 1 .. Len(line) : i < j /\ Removes(line[j], n, x)
  BY DEF Awaited
<1>2. j \in Nat
  OBVIOUS
<1>3. 1 < j => j - 1 \in 1 .. Len(Tail(line)) /\ Tail(line)[j - 1] = line[j]
  BY TailPositions
<1>4. ASSUME 1 < j
      PROVE Awaited(Tail(line), 0, n, x) /\ (i >= 1 => Awaited(Tail(line), i - 1, n, x))
  <2> DEFINE h == j - 1
  <2>1. h \in 1 .. Len(Tail(line)) /\ Removes(Tail(line)[h], n, x) /\ 0 < h /\ i - 1 < h
    BY <1>1, <1>2, <1>3, <1>4
  <2> HIDE DEF h
  <2> QED
    BY <2>1 DEF Awaited
<1>5. j = 1 => Removes(line[1], n, x)
  BY <1>1
<1> QED
  BY <1>1, <1>2, <1>4, <1>5
\* What applying batch b does to the routes and their events.
IsApplied(t, b, v) ==
    /\ \A m : RoutesAt(v.rib, m) = RoutesAfter(t, b, m)
    /\ \E e : /\ IsEventOf(t.rib, b.name, b.route, e)
              /\ \A y : y \in v.timers <=> y \in t.timers /\ y.ev # e

\* The batch at the head of the line is applied.
LEMMA ApplyLasts ==
    ASSUME NEW t, NEW b, NEW v, IsApplied(t, b, v), NEW line, line \in Seq(Batch), line # <<>>,
           b = line[1], NEW fs, NEW k, Lasting(t.rib, t.timers, line, fs, k),
           b.action = "register" => fs[b.route.face] # "new"
    PROVE  Lasting(v.rib, v.timers, Tail(line), fs, k)
<1> DEFINE timers == t.timers
           rib == v.rib
           rest == v.timers
<1>0. PICK e : /\ IsEventOf(t.rib, b.name, b.route, e)
               /\ \A y : y \in rest <=> y \in timers /\ y.ev # e
  BY DEF IsApplied
<1>a. \A m : RoutesAt(rib, m) = RoutesAfter(t, b, m)
  BY DEF IsApplied
<1> DEFINE more == Tail(line)
<1>1. /\ WillEnd(t.rib, timers, line, fs)
      /\ EventsOnce(t.rib, line)
      /\ EventsFit(t.rib, timers, line)
      /\ EventsBelow(t.rib, timers, line, k)
      /\ FacesSeen(t.rib, fs)
  BY DEF Lasting
<1> HIDE DEF timers, rib, rest
<1>2. \A ev : ev # e /\ Fires(timers, ev) => Fires(rest, ev)
  BY <1>0 DEF Fires
<1>3. \A i \in 1 .. Len(more) : i \in Nat /\ i + 1 \in 1 .. Len(line) /\ more[i] = line[i + 1]
  BY TailPositions
<1>4. 1 \in 1 .. Len(line)
  OBVIOUS
<1>5. \A n : \A x \in RoutesAt(rib, n) :
        \/ x \in RoutesAt(t.rib, n) /\ ~(n = b.name /\ SameFaceAndOrigin(x, b.route))
        \/ n = b.name /\ x = b.route /\ b.action = "register"
  BY <1>a DEF RoutesAfter
<1> HIDE DEF more
<1>6. \A i \in 1 .. Len(line) : Expires(line[i]) => line[i].route.ev # e
  BY <1>0, <1>1 DEF EventsOnce, IsEventOf, Expires
<1>7. ASSUME NEW n, NEW x \in RoutesAt(t.rib, n), x.ev # 0,
             ~(n = b.name /\ SameFaceAndOrigin(x, b.route))
      PROVE  x.ev # e
  <2> SUFFICES ASSUME x.ev = e PROVE FALSE
    OBVIOUS
  <2>1. PICK y \in RoutesAt(t.rib, b.name) : SameFaceAndOrigin(y, b.route) /\ y.ev = e
    BY <1>0, <1>7 DEF IsEventOf
  <2>2. b.name = n /\ y = x
    BY <1>1, <1>7, <2>1 DEF EventsOnce
  <2> QED
    BY <1>7, <2>1, <2>2
<1>8. ASSUME NEW n, NEW x \in RoutesAt(rib, n), x.ev # 0, fs[x.face] # "down"
      PROVE  Fires(rest, x.ev) \/ Awaited(more, 0, n, x)
  <2>1. CASE x \in RoutesAt(t.rib, n) /\ ~(n = b.name /\ SameFaceAndOrigin(x, b.route))
    <3>1. Fires(timers, x.ev) \/ Awaited(line, 0, n, x)
      BY <1>1, <1>8, <2>1 DEF WillEnd
    <3>2. CASE Fires(timers, x.ev)
      BY <1>2, <1>7, <1>8, <2>1, <3>2
    <3>3. CASE Awaited(line, 0, n, x)
      <4>1. ~Removes(line[1], n, x)
        BY <2>1 DEF Removes, SameFaceAndOrigin
      <4> DEFINE z == 0
      <4>2. z \in Nat /\ Awaited(line, z, n, x)
        BY <3>3
      <4> HIDE DEF z
      <4>3. Removes(line[1], n, x) \/ Awaited(Tail(line), 0, n, x)
        BY <4>2, AwaitedInTail
      <4> QED
        BY <4>1, <4>3 DEF more
    <3> QED
      BY <3>1, <3>2, <3>3
  <2>2. CASE n = b.name /\ x = b.route /\ b.action = "register"
    <3>1. Expires(line[1])
      BY <1>8, <2>2 DEF Expires
    <3>2. Fires(timers, x.ev) \/ Awaited(line, 1, n, x)
      BY <1>1, <1>4, <2>2, <3>1 DEF WillEnd
    <3>3. CASE Fires(timers, x.ev)
      BY <1>2, <1>4, <1>6, <2>2, <3>1, <3>3
    <3>4. CASE Awaited(line, 1, n, x)
      <4> DEFINE z == 1
      <4>1. z \in Nat /\ Awaited(line, z, n, x) /\ z >= 1 /\ z - 1 = 0
        BY <3>4
      <4> HIDE DEF z
      <4>2. Awaited(Tail(line), z - 1, n, x)
        BY <4>1, AwaitedInTail
      <4> QED
        BY <4>1, <4>2 DEF more
    <3> QED
      BY <3>2, <3>3, <3>4
  <2> QED
    BY <1>5, <2>1, <2>2
<1>9. ASSUME NEW i \in 1 .. Len(more), Expires(more[i])
      PROVE  Fires(rest, more[i].route.ev) \/ Awaited(more, i, more[i].name, more[i].route)
  <2> DEFINE h == i + 1
             n == line[h].name
             x == line[h].route
  <2>1. h \in 1 .. Len(line) /\ more[i] = line[h] /\ h \in Nat /\ h >= 1 /\ h - 1 = i
    BY <1>3
  <2>2. Fires(timers, x.ev) \/ Awaited(line, h, n, x)
    BY <1>1, <1>9, <2>1 DEF WillEnd
  <2>3. CASE Fires(timers, x.ev)
    BY <1>2, <1>6, <1>9, <2>1, <2>3
  <2>4. CASE Awaited(line, h, n, x)
    <3> HIDE DEF h, n, x
    <3>1. Awaited(Tail(line), h - 1, n, x)
      BY <2>1, <2>4, AwaitedInTail
    <3> QED
      BY <2>1, <3>1 DEF more, n, x
  <2> QED
    BY <2>2, <2>3, <2>4
<1>10. WillEnd(rib, rest, more, fs)
  BY <1>8, <1>9 DEF WillEnd
<1>11. EventsOnce(rib, more)
  <2>1. ASSUME NEW n, NEW m, NEW x \in RoutesAt(rib, n), NEW y \in RoutesAt(rib, m), x.ev # 0,
               x.ev = y.ev
        PROVE  n = m /\ x = y
    <3>1. x = b.route /\ b.action = "register" => Expires(line[1])
      BY <2>1 DEF Expires
    <3>2. y = b.route /\ b.action = "register" => Expires(line[1])
      BY <2>1 DEF Expires
    <3>3. CASE x \in RoutesAt(t.rib, n) /\ y \in RoutesAt(t.rib, m)
      BY <1>1, <2>1, <3>3 DEF EventsOnce
    <3>4. CASE x \in RoutesAt(t.rib, n) /\ y = b.route /\ b.action = "register"
      BY <1>1, <1>4, <2>1, <3>2, <3>4 DEF EventsOnce
    <3>5. CASE y \in RoutesAt(t.rib, m) /\ x = b.route /\ b.action = "register"
      BY <1>1, <1>4, <2>1, <3>1, <3>5 DEF EventsOnce
    <3> QED
      BY <1>5, <2>1, <3>3, <3>4, <3>5
  <2>2. ASSUME NEW n, NEW x \in RoutesAt(rib, n), NEW i \in 1 .. Len(more), Expires(more[i])
        PROVE  more[i].route.ev # x.ev
    <3>1. i + 1 \in 1 .. Len(line) /\ more[i] = line[i + 1] /\ i + 1 # 1
      BY <1>3
    <3>2. CASE x \in RoutesAt(t.rib, n)
      BY <1>1, <2>2, <3>1, <3>2 DEF EventsOnce
    <3>3. CASE x = b.route /\ b.action = "register"
      <4> SUFFICES ASSUME more[i].route.ev = x.ev PROVE FALSE
        OBVIOUS
      <4>1. Expires(line[1]) /\ line[1].route.ev = line[i + 1].route.ev
        BY <2>2, <3>1, <3>3 DEF Expires
      <4> DEFINE h == i + 1
      <4>2. h \in 1 .. Len(line) /\ h # 1 /\ Expires(line[h]) /\ line[1].route.ev = line[h].route.ev
        BY <2>2, <3>1, <4>1
      <4> HIDE DEF h
      <4> QED
        BY <1>1, <1>4, <4>1, <4>2 DEF EventsOnce
    <3> QED
      BY <1>5, <2>2, <3>2, <3>3
  <2>3. ASSUME NEW i \in 1 .. Len(more), NEW j \in 1 .. Len(more), Expires(more[i]),
               Expires(more[j]),
               more[i].route.ev = more[j].route.ev
        PROVE  i = j
    <3> DEFINE h == i + 1
               g == j + 1
    <3>1. h \in 1 .. Len(line) /\ more[i] = line[h] /\ g \in 1 .. Len(line) /\ more[j] = line[g]
      BY <1>3
    <3>2. h = g => i = j
      BY <1>3
    <3> HIDE DEF h, g
    <3> QED
      BY <1>1, <2>3, <3>1, <3>2 DEF EventsOnce
  <2> QED
    BY <2>1, <2>2, <2>3 DEF EventsOnce
<1>12. EventsFit(rib, rest, more)
  <2>1. ASSUME NEW y \in rest, NEW n, NEW x \in RoutesAt(rib, n), x.ev # 0, x.ev = y.ev
        PROVE  y.name = n /\ SameFaceAndOrigin(y.route, x)
    <3>1. y \in timers
      BY <1>0
    <3>2. CASE x \in RoutesAt(t.rib, n)
      BY <1>1, <2>1, <3>1, <3>2 DEF EventsFit
    <3>3. CASE n = b.name /\ x = b.route /\ b.action = "register"
      <4>1. Expires(line[1])
        BY <2>1, <3>3 DEF Expires
      <4> QED
        BY <1>1, <1>4, <2>1, <3>1, <3>3, <4>1 DEF EventsFit
    <3> QED
      BY <1>5, <2>1, <3>2, <3>3
  <2>2. ASSUME NEW y \in rest, NEW i \in 1 .. Len(more), Expires(more[i]), more[i].route.ev = y.ev
        PROVE  y.name = more[i].name /\ SameFaceAndOrigin(y.route, more[i].route)
    <3> DEFINE h == i + 1
    <3>1. y \in timers /\ h \in 1 .. Len(line) /\ more[i] = line[h]
      BY <1>0, <1>3
    <3> HIDE DEF h
    <3> QED
      BY <1>1, <2>2, <3>1 DEF EventsFit
  <2> QED
    BY <2>1, <2>2 DEF EventsFit
<1>13. EventsBelow(rib, rest, more, k)
  <2>1. ASSUME NEW n, NEW x \in RoutesAt(rib, n), x.ev # 0 PROVE x.ev <= k
    <3>1. x = b.route /\ b.action = "register" => Expires(line[1])
      BY <2>1 DEF Expires
    <3> QED
      BY <1>1, <1>4, <1>5, <2>1, <3>1 DEF EventsBelow
  <2>2. \A i \in 1 .. Len(more) : Expires(more[i]) => more[i].route.ev <= k
    BY <1>1, <1>3 DEF EventsBelow
  <2> QED
    BY <1>0, <1>1, <2>1, <2>2 DEF EventsBelow
<1>14. FacesSeen(rib, fs)
  BY <1>1, <1>5 DEF FacesSeen
<1> QED
  BY <1>10, <1>11, <1>12, <1>13, <1>14 DEF Lasting, more, rib, rest
\* The batch at the head of the line fails.
LEMMA FailLasts ==
    ASSUME NEW rib, NEW timers, NEW line, line \in Seq(Batch), line # <<>>, NEW fs, NEW k,
           Lasting(rib, timers, line, fs, k),
           \A n : \A x \in RoutesAt(rib, n) : Removes(line[1], n, x) => fs[x.face] = "down"
    PROVE  Lasting(rib, timers, Tail(line), fs, k)
<1> DEFINE more == Tail(line)
<1>1. /\ WillEnd(rib, timers, line, fs)
      /\ EventsOnce(rib, line)
      /\ EventsFit(rib, timers, line)
      /\ EventsBelow(rib, timers, line, k)
      /\ FacesSeen(rib, fs)
  BY DEF Lasting
<1>2. \A i \in 1 .. Len(more) : i \in Nat /\ i + 1 \in 1 .. Len(line) /\ more[i] = line[i + 1]
  BY TailPositions
<1> HIDE DEF more
<1>3. ASSUME NEW n, NEW x \in RoutesAt(rib, n), x.ev # 0, fs[x.face] # "down"
      PROVE  Fires(timers, x.ev) \/ Awaited(more, 0, n, x)
  <2>1. Fires(timers, x.ev) \/ Awaited(line, 0, n, x)
    BY <1>1, <1>3 DEF WillEnd
  <2> DEFINE z == 0
  <2>2. z \in Nat
    OBVIOUS
  <2>3. ASSUME Awaited(line, z, n, x) PROVE Removes(line[1], n, x) \/ Awaited(Tail(line), 0, n, x)
    <3> HIDE DEF z
    <3> QED
      BY <2>2, <2>3, AwaitedInTail
  <2> QED
    BY <1>3, <2>1, <2>3 DEF more
<1>4. ASSUME NEW i \in 1 .. Len(more), Expires(more[i])
      PROVE  Fires(timers, more[i].route.ev) \/ Awaited(more, i, more[i].name, more[i].route)
  <2> DEFINE h == i + 1
             n == line[h].name
             x == line[h].route
  <2>1. h \in 1 .. Len(line) /\ more[i] = line[h] /\ h \in Nat /\ h >= 1 /\ h - 1 = i
    BY <1>2
  <2>2. Fires(timers, x.ev) \/ Awaited(line, h, n, x)
    BY <1>1, <1>4, <2>1 DEF WillEnd
  <2>3. ASSUME Awaited(line, h, n, x) PROVE Awaited(Tail(line), h - 1, n, x)
    <3> HIDE DEF h, n, x
    <3> QED
      BY <2>1, <2>3, AwaitedInTail
  <2> QED
    BY <2>1, <2>2, <2>3 DEF more
<1>5. WillEnd(rib, timers, more, fs)
  BY <1>3, <1>4 DEF WillEnd
<1>6. EventsOnce(rib, more)
  <2>1. ASSUME NEW i \in 1 .. Len(more), NEW j \in 1 .. Len(more), Expires(more[i]),
               Expires(more[j]),
               more[i].route.ev = more[j].route.ev
        PROVE  i = j
    <3> DEFINE h == i + 1
               g == j + 1
    <3>1. h \in 1 .. Len(line) /\ more[i] = line[h] /\ g \in 1 .. Len(line) /\ more[j] = line[g]
      BY <1>2
    <3>2. h = g => i = j
      BY <1>2
    <3> HIDE DEF h, g
    <3> QED
      BY <1>1, <2>1, <3>1, <3>2 DEF EventsOnce
  <2>2. \A i \in 1 .. Len(more) : \E h \in 1 .. Len(line) : more[i] = line[h]
    BY <1>2
  <2>3. \A n : \A x \in RoutesAt(rib, n) : \A i \in 1 .. Len(more) :
          Expires(more[i]) => more[i].route.ev # x.ev
    BY <1>1, <2>2 DEF EventsOnce
  <2> QED
    BY <1>1, <2>1, <2>3 DEF EventsOnce
<1>7. EventsFit(rib, timers, more) /\ EventsBelow(rib, timers, more, k)
  <2>1. \A i \in 1 .. Len(more) : \E h \in 1 .. Len(line) : more[i] = line[h]
    BY <1>2
  <2>2. EventsFit(rib, timers, more)
    BY <1>1, <2>1 DEF EventsFit
  <2>3. EventsBelow(rib, timers, more, k)
    BY <1>1, <2>1 DEF EventsBelow
  <2> QED
    BY <2>2, <2>3
<1> QED
  BY <1>1, <1>5, <1>6, <1>7 DEF Lasting, more

\* longer is line with removals behind it.
IsExtended(line, longer) ==
    /\ Len(line) \in Nat
    /\ Len(longer) \in Nat
    /\ Len(line) <= Len(longer)
    /\ \A i \in 1 .. Len(line) : longer[i] = line[i]
    /\ \A i \in 1 .. Len(longer) : i > Len(line) => longer[i].action # "register"

\* More removals in the line; an event that fired is followed by one of its route.
LEMMA ExtendLasts ==
    ASSUME NEW rib, NEW timers, NEW line, NEW fs, NEW k, Lasting(rib, timers, line, fs, k),
           NEW longer, IsExtended(line, longer), NEW rest, rest \subseteq timers,
           \A y \in timers \ rest : \E j \in 1 .. Len(longer) :
               j > Len(line) /\ Removes(longer[j], y.name, y.route)
    PROVE  Lasting(rib, rest, longer, fs, k)
<1>1. /\ WillEnd(rib, timers, line, fs)
      /\ EventsOnce(rib, line)
      /\ EventsFit(rib, timers, line)
      /\ EventsBelow(rib, timers, line, k)
      /\ FacesSeen(rib, fs)
  BY DEF Lasting
<1>2. /\ Len(line) \in Nat
      /\ Len(longer) \in Nat
      /\ \A i \in 1 .. Len(line) : i \in 1 .. Len(longer) /\ longer[i] = line[i]
      /\ \A i \in 1 .. Len(longer) : i > Len(line) => longer[i].action # "register"
  BY DEF IsExtended
<1> DEFINE l == Len(line)
           g == Len(longer)
<1> HIDE DEF l, g
<1>3. \A i \in 1 .. g : Expires(longer[i]) => i \in 1 .. l /\ longer[i] = line[i]
  BY <1>2 DEF l, g, Expires
<1>4. \A i, n, x : Awaited(line, i, n, x) => Awaited(longer, i, n, x)
  BY <1>2 DEF Awaited
<1>5. ASSUME NEW ev, NEW n, NEW x, NEW i \in 0 .. l, Fires(timers, ev),
             \A y \in timers : y.ev = ev => y.name = n /\ SameFaceAndOrigin(y.route, x)
      PROVE  Fires(rest, ev) \/ Awaited(longer, i, n, x)
  <2>1. PICK y \in timers : y.ev = ev
    BY <1>5 DEF Fires
  <2>2. CASE y \in rest
    BY <2>1, <2>2 DEF Fires
  <2>3. CASE y \notin rest
    <3>1. PICK j \in 1 .. Len(longer) : j > Len(line) /\ Removes(longer[j], y.name, y.route)
      BY <2>1, <2>3
    <3>2. Removes(longer[j], n, x)
      BY <1>5, <2>1, <3>1 DEF Removes, SameFaceAndOrigin
    <3>3. i < j
      BY <1>2, <3>1 DEF l
    <3> QED
      BY <3>1, <3>2, <3>3 DEF Awaited
  <2> QED
    BY <2>2, <2>3
<1>6. ASSUME NEW n, NEW x \in RoutesAt(rib, n), x.ev # 0, fs[x.face] # "down"
      PROVE  Fires(rest, x.ev) \/ Awaited(longer, 0, n, x)
  <2>1. Fires(timers, x.ev) \/ Awaited(line, 0, n, x)
    BY <1>1, <1>6 DEF WillEnd
  <2>2. \A y \in timers : y.ev = x.ev => y.name = n /\ SameFaceAndOrigin(y.route, x)
    BY <1>1, <1>6 DEF EventsFit
  <2> DEFINE z == 0
             ev == x.ev
  <2>3. z \in 0 .. l
    BY <1>2 DEF l
  <2> HIDE DEF z, ev
  <2>4. Fires(timers, ev) => Fires(rest, ev) \/ Awaited(longer, z, n, x)
    BY <1>5, <2>2, <2>3 DEF ev
  <2> QED
    BY <1>4, <2>1, <2>4 DEF z, ev
<1>7. ASSUME NEW i \in 1 .. g, Expires(longer[i])
      PROVE  Fires(rest, longer[i].route.ev) \/ Awaited(longer, i, longer[i].name, longer[i].route)
  <2> DEFINE n == line[i].name
             x == line[i].route
             ev == x.ev
  <2>1. i \in 1 .. l /\ longer[i] = line[i]
    BY <1>3, <1>7
  <2>2. Fires(timers, x.ev) \/ Awaited(line, i, n, x)
    BY <1>1, <1>7, <2>1 DEF WillEnd, l
  <2>3. \A y \in timers : y.ev = x.ev => y.name = n /\ SameFaceAndOrigin(y.route, x)
    BY <1>1, <1>7, <2>1 DEF EventsFit, l
  <2>4. i \in 0 .. l
    BY <2>1
  <2> HIDE DEF n, x, ev
  <2>5. Fires(timers, ev) => Fires(rest, ev) \/ Awaited(longer, i, n, x)
    BY <1>5, <2>3, <2>4 DEF ev
  <2> QED
    BY <1>4, <2>1, <2>2, <2>5 DEF n, x, ev
<1>8. WillEnd(rib, rest, longer, fs)
  BY <1>6, <1>7 DEF WillEnd, g
<1>9. EventsOnce(rib, longer)
  BY <1>1, <1>3 DEF EventsOnce, l, g
<1>10. EventsFit(rib, rest, longer)
  BY <1>1, <1>3 DEF EventsFit, l, g
<1>11. EventsBelow(rib, rest, longer, k)
  BY <1>1, <1>3 DEF EventsBelow, l, g
<1> QED
  BY <1>1, <1>8, <1>9, <1>10, <1>11 DEF Lasting

\* A registration, with an event of its own.
LEMMA RegisterLasts ==
    ASSUME NEW rib, IsRib(rib), NEW timers, timers \subseteq Timer, NEW line, line \in Seq(Batch),
           NEW fs, NEW k \in Nat, Lasting(rib, timers, line, fs, k),
           NEW b \in Batch, b.action = "register", b.route.ev \in {0, k + 1},
           NEW more, more = timers \cup TimersFor(b.name, b.route, k + 1)
    PROVE  Lasting(rib, more, Append(line, b), fs, k + 1)
<1> DEFINE longer == Append(line, b)
           l == Len(line)
           id == k + 1
           new == TimersFor(b.name, b.route, id)
<1>1. /\ WillEnd(rib, timers, line, fs)
      /\ EventsOnce(rib, line)
      /\ EventsFit(rib, timers, line)
      /\ EventsBelow(rib, timers, line, k)
      /\ FacesSeen(rib, fs)
  BY DEF Lasting
<1>2. /\ l \in Nat
      /\ Len(longer) = l + 1
      /\ \A i \in 1 .. l : i \in 1 .. Len(longer) /\ longer[i] = line[i]
      /\ longer[l + 1] = b
      /\ \A i \in 1 .. Len(longer) : i \in 1 .. l \/ i = l + 1
  OBVIOUS
<1>3. \A n : RoutesAt(rib, n) \subseteq Route
  BY RibFacts
<1>4. \A x \in Route : x.ev \in Nat
  BY DEF Route
<1>5. \A i \in 1 .. l : line[i] \in Batch
        /\ (line[i].action = "register" => line[i].route.ev \in Nat)
  <2>1. \A i \in 1 .. l : line[i] \in Batch
    OBVIOUS
  <2>2. \A d \in Batch : d.action = "register" => d.route.ev \in Nat
    BY <1>4 DEF Batch
  <2> QED
    BY <2>1, <2>2
<1>6. id \in Nat /\ id # 0 /\ k <= id /\ \A x \in Nat : x <= k => x # id /\ x <= id
  OBVIOUS
<1>7. \A y \in timers : y.ev \in Nat
  BY DEF Timer
<1>8. /\ \A y \in timers : y.ev <= k
      /\ \A n : \A x \in RoutesAt(rib, n) : x.ev # 0 => x.ev <= k
      /\ \A i \in 1 .. l : Expires(line[i]) => line[i].route.ev <= k
  BY <1>1 DEF EventsBelow
<1>9. /\ \A y \in timers : y.ev # id /\ y.ev <= id
      /\ \A n : \A x \in RoutesAt(rib, n) : x.ev # 0 => x.ev # id /\ x.ev <= id
      /\ \A i \in 1 .. l : Expires(line[i]) => line[i].route.ev # id /\ line[i].route.ev <= id
  <2>1. \A y \in timers : y.ev # id /\ y.ev <= id
    BY <1>6, <1>7, <1>8
  <2>2. \A n : \A x \in RoutesAt(rib, n) : x.ev # 0 => x.ev # id /\ x.ev <= id
    BY <1>3, <1>4, <1>6, <1>8
  <2>3. \A i \in 1 .. l : Expires(line[i]) => line[i].route.ev # id /\ line[i].route.ev <= id
    BY <1>5, <1>6, <1>8 DEF Expires
  <2> QED
    BY <2>1, <2>2, <2>3
<1>10. /\ \A y \in new : y.ev = id /\ y.name = b.name /\ y.route = b.route
       /\ b.route.ev # 0 => \E y \in new : y.ev = id
       /\ b.route.ev # 0 => b.route.ev = id
       /\ Expires(b) <=> b.route.ev # 0
  <2> HIDE DEF id
  <2>1. b.route.ev # 0 => b.route.ev = id
    BY DEF id
  <2>2. Expires(b) <=> b.route.ev # 0
    BY DEF Expires
  <2>3. CASE b.route.ev = 0
    BY <2>2, <2>3 DEF TimersFor
  <2>4. CASE b.route.ev # 0
    <3>1. new = {[ev |-> id, name |-> b.name, route |-> b.route]}
      BY <2>4 DEF TimersFor
    <3> HIDE DEF new
    <3> QED
      BY <2>1, <2>2, <3>1
  <2> QED
    BY <2>3, <2>4
<1>11. more = timers \cup new
  OBVIOUS
<1> HIDE DEF longer, l, id, new
<1>12. \A ev : Fires(timers, ev) => Fires(more, ev)
  BY <1>11 DEF Fires
<1>13. \A i, n, x : Awaited(line, i, n, x) => Awaited(longer, i, n, x)
  BY <1>2 DEF Awaited, l
<1>14. WillEnd(rib, more, longer, fs)
  <2>1. \A n : \A x \in RoutesAt(rib, n) :
          x.ev # 0 /\ fs[x.face] # "down" => Fires(more, x.ev) \/ Awaited(longer, 0, n, x)
    BY <1>1, <1>12, <1>13 DEF WillEnd
  <2>2. ASSUME NEW i \in 1 .. Len(longer), Expires(longer[i])
        PROVE  Fires(more, longer[i].route.ev) \/ Awaited(longer, i, longer[i].name, longer[i].route)
    <3>1. CASE i \in 1 .. l
      <4>1. longer[i] = line[i]
        BY <1>2, <3>1
      <4> QED
        BY <1>1, <1>12, <1>13, <2>2, <3>1, <4>1 DEF WillEnd, l
    <3>2. CASE i = l + 1
      <4>1. longer[i] = b
        BY <1>2, <3>2
      <4> QED
        BY <1>10, <1>11, <2>2, <4>1 DEF Fires
    <3> QED
      BY <1>2, <3>1, <3>2
  <2> QED
    BY <2>1, <2>2 DEF WillEnd
<1>15. EventsOnce(rib, longer)
  <2>1. ASSUME NEW i \in 1 .. Len(longer), Expires(longer[i])
        PROVE  \/ i \in 1 .. l /\ longer[i] = line[i] /\ longer[i].route.ev # id
               \/ i = l + 1 /\ longer[i].route.ev = id
    BY <1>2, <1>9, <1>10, <2>1
  <2>2. \A n : \A x \in RoutesAt(rib, n) : \A i \in 1 .. Len(longer) :
          Expires(longer[i]) => longer[i].route.ev # x.ev
    <3>1. ASSUME NEW n, NEW x \in RoutesAt(rib, n), NEW i \in 1 .. Len(longer), Expires(longer[i])
          PROVE  longer[i].route.ev # x.ev
      <4>1. x.ev # id
        BY <1>6, <1>9, <3>1
      <4> QED
        BY <1>1, <2>1, <3>1, <4>1 DEF EventsOnce, l
    <3> QED
      BY <3>1
  <2>3. \A i, j \in 1 .. Len(longer) :
          Expires(longer[i]) /\ Expires(longer[j])
            /\ longer[i].route.ev = longer[j].route.ev => i = j
    BY <1>1, <2>1 DEF EventsOnce, l
  <2> QED
    BY <1>1, <2>2, <2>3 DEF EventsOnce
<1>16. EventsFit(rib, more, longer)
  <2>1. ASSUME NEW y \in more
        PROVE  (y \in timers /\ y.ev # id) \/ (y.ev = id /\ y.name = b.name /\ y.route = b.route)
    BY <1>9, <1>10, <1>11
  <2>2. \A y \in more : \A n : \A x \in RoutesAt(rib, n) :
          x.ev # 0 /\ x.ev = y.ev => y.name = n /\ SameFaceAndOrigin(y.route, x)
    BY <1>1, <1>9, <2>1 DEF EventsFit
  <2>3. ASSUME NEW y \in more, NEW i \in 1 .. Len(longer), Expires(longer[i]),
               longer[i].route.ev = y.ev
        PROVE  y.name = longer[i].name /\ SameFaceAndOrigin(y.route, longer[i].route)
    <3>1. CASE i \in 1 .. l
      <4>1. longer[i] = line[i]
        BY <1>2, <3>1
      <4> QED
        BY <1>1, <1>9, <2>1, <2>3, <3>1, <4>1 DEF EventsFit, l
    <3>2. CASE i = l + 1
      <4>1. longer[i] = b
        BY <1>2, <3>2
      <4> QED
        BY <1>10, <2>1, <2>3, <4>1 DEF SameFaceAndOrigin
    <3> QED
      BY <1>2, <3>1, <3>2
  <2> QED
    BY <2>2, <2>3 DEF EventsFit
<1>17. EventsBelow(rib, more, longer, id)
  <2>1. \A y \in more : y.ev <= id
    BY <1>6, <1>9, <1>10, <1>11
  <2>2. \A i \in 1 .. Len(longer) : Expires(longer[i]) => longer[i].route.ev <= id
    BY <1>2, <1>6, <1>9, <1>10
  <2> QED
    BY <1>9, <2>1, <2>2 DEF EventsBelow
<1> QED
  BY <1>1, <1>14, <1>15, <1>16, <1>17 DEF Lasting, longer, id

\* More requests, and faces that come and go.
LEMMA SeenLasts ==
    ASSUME NEW rib, IsRib(rib), NEW timers, timers \subseteq Timer, NEW line, line \in Seq(Batch),
           NEW fs, NEW k \in Nat, Lasting(rib, timers, line, fs, k), NEW h \in Nat, k <= h,
           NEW fs2, \A f \in Face : /\ fs[f] = "down" => fs2[f] = "down"
                                    /\ fs[f] # "new" => fs2[f] # "new"
    PROVE  Lasting(rib, timers, line, fs2, h)
<1>1. /\ WillEnd(rib, timers, line, fs)
      /\ EventsOnce(rib, line)
      /\ EventsFit(rib, timers, line)
      /\ EventsBelow(rib, timers, line, k)
      /\ FacesSeen(rib, fs)
  BY DEF Lasting
<1>2. \A n : \A x \in RoutesAt(rib, n) : x \in Route /\ x.face \in Face /\ x.ev \in Nat
  BY RibFacts DEF Route
<1>3. WillEnd(rib, timers, line, fs2)
  BY <1>1, <1>2 DEF WillEnd
<1>4. FacesSeen(rib, fs2)
  BY <1>1, <1>2 DEF FacesSeen
<1>5. EventsBelow(rib, timers, line, h)
  <2>1. \A x \in Nat : x <= k => x <= h
    OBVIOUS
  <2>2. \A y \in timers : y.ev \in Nat
    BY DEF Timer
  <2>3. \A i \in 1 .. Len(line) : Expires(line[i]) => line[i].route.ev \in Nat
    <3>1. \A i \in 1 .. Len(line) : line[i] \in Batch
      OBVIOUS
    <3>2. \A b \in Batch : Expires(b) => b.route.ev \in Nat
      BY DEF Batch, Expires, Route
    <3> QED
      BY <3>1, <3>2
  <2>4. \A n : \A x \in RoutesAt(rib, n) : x.ev # 0 => x.ev <= h
    BY <1>1, <1>2, <2>1 DEF EventsBelow
  <2>5. \A y \in timers : y.ev <= h
    BY <1>1, <2>1, <2>2 DEF EventsBelow
  <2>6. \A i \in 1 .. Len(line) : Expires(line[i]) => line[i].route.ev <= h
    BY <1>1, <2>1, <2>3 DEF EventsBelow
  <2> QED
    BY <2>4, <2>5, <2>6 DEF EventsBelow
<1> QED
  BY <1>1, <1>3, <1>4, <1>5 DEF Lasting
\* A registration on a face that does not exist yet waits for the FIB's refusal.
AddsFor(t, b, fs) ==
    b.action = "register" /\ fs[b.route.face] = "new" => \E u \in t.batchUpdates : u.action = "add"

LastSound(t, fs, k) ==
    Orderly(t) =>
        /\ Lasting(t.rib, t.timers, Line(t), fs, k)
        /\ \A b \in Batches(t) : AddsFor(t, b, fs)

LEMMA LineOf ==
    ASSUME NEW t, OneBatch(t)
    PROVE  /\ t.sent = {} => Line(t) = t.queue
           /\ \A c \in t.sent : Line(t) = <<c.batch>> \o t.queue
<1>1. ASSUME NEW c \in t.sent PROVE Line(t) = <<c.batch>> \o t.queue
  <2> DEFINE d == CHOOSE x \in t.sent : TRUE
  <2>1. d \in t.sent
    OBVIOUS
  <2>2. Line(t) = <<d.batch>> \o t.queue
    BY <1>1 DEF Line
  <2> HIDE DEF d
  <2> QED
    BY <2>1, <2>2 DEF OneBatch
<1> QED
  BY <1>1 DEF Line

LEMMA LineParts ==
    ASSUME NEW q, q \in Seq(Batch), NEW b \in Batch
    PROVE  /\ <<b>> \o q \in Seq(Batch)
           /\ <<b>> \o q # <<>>
           /\ (<<b>> \o q)[1] = b
           /\ Tail(<<b>> \o q) = q
           /\ q # <<>> => <<Head(q)>> \o Tail(q) = q /\ q[1] = Head(q)
<1> DEFINE o == <<b>>
           l == o \o q
<1>1. o \in Seq(Batch) /\ Len(o) = 1 /\ o[1] = b
  OBVIOUS
<1> HIDE DEF o
<1>2. /\ l \in Seq(Batch)
      /\ Len(l) = 1 + Len(q)
      /\ \A i \in 1 .. Len(l) : l[i] = IF i <= 1 THEN o[i] ELSE q[i - 1]
  <2>1. /\ o \o q \in Seq(Batch)
        /\ Len(o \o q) = Len(o) + Len(q)
        /\ \A i \in 1 .. Len(o) + Len(q) : (o \o q)[i] = IF i <= Len(o) THEN o[i] ELSE q[i - Len(o)]
    BY <1>1, ConcatProperties
  <2> QED
    BY <1>1, <2>1
<1> HIDE DEF l
<1>3. Len(q) \in Nat /\ l # <<>> /\ l[1] = b
  BY <1>1, <1>2
<1>4. Tail(l) = q
  <2>1. Tail(l) \in Seq(Batch) /\ Len(Tail(l)) = Len(q)
    BY <1>2, <1>3
  <2>2. \A i \in 1 .. Len(q) : Tail(l)[i] = q[i]
    BY <1>2, <1>3
  <2> QED
    BY <2>1, <2>2, SeqEqual
<1>5. ASSUME q # <<>> PROVE <<Head(q)>> \o Tail(q) = q /\ q[1] = Head(q)
  <2> DEFINE h == <<Head(q)>>
             r == Tail(q)
             m == h \o r
  <2>1. h \in Seq(Batch) /\ Len(h) = 1 /\ h[1] = q[1] /\ q[1] = Head(q)
    BY <1>5
  <2>2. r \in Seq(Batch) /\ Len(r) = Len(q) - 1 /\ \A i \in 1 .. Len(r) : r[i] = q[i + 1]
    BY <1>5
  <2> HIDE DEF h, r
  <2>3. /\ m \in Seq(Batch)
        /\ Len(m) = 1 + Len(r)
        /\ \A i \in 1 .. Len(m) : m[i] = IF i <= 1 THEN h[i] ELSE r[i - 1]
    <3>1. /\ h \o r \in Seq(Batch)
          /\ Len(h \o r) = Len(h) + Len(r)
          /\ \A i \in 1 .. Len(h) + Len(r) : (h \o r)[i] = IF i <= Len(h) THEN h[i] ELSE r[i - Len(h)]
      BY <2>1, <2>2, ConcatProperties
    <3> QED
      BY <2>1, <3>1
  <2> HIDE DEF m
  <2>4. Len(m) = Len(q)
    BY <1>3, <2>2, <2>3
  <2>5. ASSUME NEW i \in 1 .. Len(q) PROVE m[i] = q[i]
    <3>1. CASE i = 1
      BY <2>1, <2>3, <2>4, <3>1
    <3>2. CASE i # 1
      <4>1. i - 1 \in 1 .. Len(r) /\ (i - 1) + 1 = i /\ ~(i <= 1)
        BY <1>3, <2>2, <2>5, <3>2
      <4>2. m[i] = r[i - 1]
        BY <2>3, <2>4, <4>1
      <4> QED
        BY <2>2, <4>1, <4>2
    <3> QED
      BY <3>1, <3>2
  <2>6. m = q
    BY <2>3, <2>4, <2>5, SeqEqual
  <2> QED
    BY <2>1, <2>6 DEF m, h, r
<1> QED
  BY <1>2, <1>3, <1>4, <1>5 DEF l, o

LEMMA StartedLasts ==
    ASSUME NEW t, ServiceOK(t), NEW b \in Batch, NEW v, IsSent(t, b, v), NEW fs, NEW k,
           Orderly(v) => /\ t.sent = {} /\ t.busy /\ b.route.face = t.batchFace
                         /\ Lasting(t.rib, t.timers, <<b>> \o t.queue, fs, k)
                         /\ AddsFor(t, b, fs)
    PROVE  LastSound(v, fs, k)
<1> SUFFICES ASSUME Orderly(v)
             PROVE  /\ Lasting(v.rib, v.timers, Line(v), fs, k)
                    /\ \A d \in Batches(v) : AddsFor(v, d, fs)
  BY DEF LastSound
<1>0. IsService(t)
  BY DEF ServiceOK
<1>1. v.timers = t.timers /\ v.queue = t.queue
  BY DEF IsSent
<1>2. v.rib = t.rib /\ v.batchUpdates = t.batchUpdates
  BY <1>0, SentFacts
<1>3. OneBatch(v) /\ v.sent # {} /\ \A c \in v.sent : c.batch = b
  BY <1>0, SentOneBatch
<1>4. Line(v) = <<b>> \o t.queue
  BY <1>1, <1>3, LineOf
<1> QED
  BY <1>1, <1>2, <1>3, <1>4 DEF Batches, AddsFor

LEMMA AppliedLasts ==
    ASSUME NEW t, ServiceOK(t), t.batchUpdates = {}, NEW b \in Batch, NEW v,
           v = onFibUpdateSuccess(t, b), NEW fs, NEW k,
           Orderly(v) => /\ t.sent = {}
                         /\ Lasting(t.rib, t.timers, <<b>> \o t.queue, fs, k)
                         /\ AddsFor(t, b, fs)
    PROVE  LastSound(v, fs, k)
<1> SUFFICES ASSUME Orderly(v)
             PROVE  /\ Lasting(v.rib, v.timers, Line(v), fs, k)
                    /\ \A d \in Batches(v) : AddsFor(v, d, fs)
  BY DEF LastSound
<1> DEFINE z == onFibUpdateSuccess(t, b)
           e == EventOf(t, b.name, b.route)
           line == <<b>> \o t.queue
<1>1. /\ SameBatch(t, z)
      /\ z.timers = {x \in t.timers : x.ev # e}
      /\ \A m : RoutesAt(z.rib, m) = RoutesAfter(t, b, m)
  BY SuccessEffect DEF ServiceOK
<1>2. IsEventOf(t.rib, b.name, b.route, e)
  BY EventOfIs DEF ServiceOK
<1>3. t.queue \in Seq(Batch)
  BY DEF ServiceOK, QueueOK
<1>4. line \in Seq(Batch) /\ line # <<>> /\ b = line[1] /\ Tail(line) = t.queue
  BY <1>3, LineParts
<1> HIDE DEF z, e
<1>5. v.sent = {} /\ v.queue = t.queue /\ v = z
  BY <1>1 DEF SameBatch, z
<1>6. Line(v) = Tail(line) /\ Batches(v) = {}
  BY <1>4, <1>5 DEF Line, Batches
<1>7. b.action = "register" => fs[b.route.face] # "new"
  BY DEF AddsFor
<1>8. IsApplied(t, b, v)
  BY <1>1, <1>2, <1>5 DEF IsApplied
<1>9. Lasting(v.rib, v.timers, Tail(line), fs, k)
  <2>1. Lasting(t.rib, t.timers, line, fs, k)
    OBVIOUS
  <2> HIDE DEF line
  <2> QED
    BY <1>4, <1>7, <1>8, <2>1, ApplyLasts
<1> QED
  BY <1>6, <1>9

\* The batch at the head of the queue has begun.
LEMMA BegunLasts ==
    ASSUME NEW v, ServiceOK(v), v.queue # <<>>, NEW fs, NEW k,
           Lasting(v.rib, v.timers, v.queue, fs, k)
    PROVE  LET b == Head(v.queue)
               w == Begun(v)
           IN  Lasting(w.rib, w.timers, <<b>> \o w.queue, fs, k) /\ AddsFor(w, b, fs)
<1> DEFINE b == Head(v.queue)
           w == Begun(v)
           u == computeUpdates(v.rib, b)
           e == EventOf(v, b.name, b.route)
<1>1. /\ b \in Batch
      /\ w.rib = v.rib
      /\ w.queue = Tail(v.queue)
      /\ w.timers = IF b.action = "register" THEN v.timers ELSE {x \in v.timers : x.ev # e}
  BY BegunEffect
<1>2. v.queue \in Seq(Batch)
  BY DEF ServiceOK, QueueOK
<1>3. <<b>> \o Tail(v.queue) = v.queue /\ v.queue[1] = b
  BY <1>1, <1>2, LineParts
<1>4. IsEventOf(v.rib, b.name, b.route, e)
  BY EventOfIs DEF ServiceOK
<1>5. \A x \in DOMAIN u.fib :
        x[2] = b.route.face /\ b.action # "remove-face" => \E y \in w.batchUpdates :
             y.name = x[1] /\ y.face = x[2] /\ y.action = u.fib[x].action
  BY BegunUpdates
<1>6. b.action = "register" =>
        Adds(u, <<b.name, b.route.face>>) \/ <<b.name, b.route.face>> \in OwnHops(v.rib)
  <2> HIDE DEF b
  <2> QED
    BY <1>1, ComputedBalanced DEF ServiceOK, RibOK
<1> HIDE DEF b, w, u, e
<1>7. Lasting(v.rib, w.timers, v.queue, fs, k)
  <2>1. CASE b.action = "register"
    BY <1>1, <2>1
  <2>2. CASE b.action # "register"
    <3> DEFINE timers == v.timers
               rest == w.timers
               line == v.queue
    <3>1. \A y : y \in rest <=> y \in timers /\ y.ev # e
      BY <1>1, <2>2
    <3>2. Lasting(v.rib, timers, line, fs, k) /\ line \in Seq(Batch) /\ line # <<>> /\ b = line[1]
      BY <1>2, <1>3
    <3> HIDE DEF timers, rest, line
    <3>3. Lasting(v.rib, rest, line, fs, k)
      BY ONLY <1>4, <2>2, <3>1, <3>2, CancelLasts
    <3> QED
      BY <3>3 DEF rest, line
  <2> QED
    BY <2>1, <2>2
<1>8. AddsFor(w, b, fs)
  <2> SUFFICES ASSUME b.action = "register", fs[b.route.face] = "new"
               PROVE  \E y \in w.batchUpdates : y.action = "add"
    BY DEF AddsFor
  <2> DEFINE x == <<b.name, b.route.face>>
  <2>1. x \notin OwnHops(v.rib)
    BY DEF OwnHops, Lasting, FacesSeen
  <2>2. Adds(u, x) /\ x[2] = b.route.face
    BY <1>6, <2>1
  <2> HIDE DEF x
  <2>3. x \in DOMAIN u.fib /\ u.fib[x].action = "add"
    BY <2>2 DEF Adds
  <2> QED
    BY <1>5, <2>2, <2>3
<1> QED
  BY <1>1, <1>3, <1>7, <1>8 DEF b, w
LEMMA NextBatchLasts ==
    ASSUME NEW v, ServiceOK(v), v.queue # <<>>, v.running, ~v.busy, NEW fb, NEW fs, NEW k,
           HopsSound(v, fb, fs), LastSound(v, fs, k)
    PROVE  LastSound(sendNextBatch(v), fs, k)
<1> DEFINE b == Head(v.queue)
           w == Begun(v)
           z == sendUpdatesForBatchFaceId(w, b)
<1>1. z = sendNextBatch(v)
  BY NextBatchKeeps
<1>2. /\ b \in Batch
      /\ w.busy = TRUE
      /\ w.batchFace = b.route.face
      /\ w.sent = v.sent
      /\ v.odd \subseteq w.odd
  <2>1. /\ b \in Batch
        /\ w.busy = TRUE
        /\ w.batchFace = b.route.face
        /\ w.sent = v.sent
        /\ w.odd = IF IsPlain(v.rib, b) THEN v.odd ELSE v.odd \cup {"update"}
    BY BegunEffect
  <2> HIDE DEF w, b
  <2> QED
    BY <2>1
<1>3. ServiceOK(w) /\ IsService(w)
  BY BegunUpdates DEF ServiceOK
<1>4. ASSUME Lasting(v.rib, v.timers, v.queue, fs, k)
      PROVE  Lasting(w.rib, w.timers, <<b>> \o w.queue, fs, k) /\ AddsFor(w, b, fs)
  BY <1>4, BegunLasts
<1>5. IsSent(w, b, z) \/ (w.batchUpdates = {} /\ w.otherUpdates = {} /\ z = onFibUpdateSuccess(w, b))
  <2> HIDE DEF w, b
  <2> QED
    BY <1>3, StartShape
<1> HIDE DEF b, w, z
<1>6. ASSUME z.odd = w.odd, Orderly(z)
      PROVE  /\ w.sent = {} /\ w.busy /\ b.route.face = w.batchFace
             /\ Lasting(w.rib, w.timers, <<b>> \o w.queue, fs, k)
             /\ AddsFor(w, b, fs)
  <2>1. Orderly(v)
    BY <1>2, <1>6 DEF Orderly
  <2>2. v.sent = {} /\ OneBatch(v)
    BY <2>1 DEF HopsSound, OneBatch
  <2>3. Lasting(v.rib, v.timers, v.queue, fs, k)
    BY <2>1, <2>2, LineOf DEF LastSound
  <2> QED
    BY <1>2, <1>4, <2>2, <2>3
<1>7. CASE IsSent(w, b, z)
  <2>1. z.odd = w.odd
    BY <1>7 DEF IsSent
  <2>2. Orderly(z) => /\ w.sent = {} /\ w.busy /\ b.route.face = w.batchFace
                      /\ Lasting(w.rib, w.timers, <<b>> \o w.queue, fs, k)
                      /\ AddsFor(w, b, fs)
    BY <1>6, <2>1
  <2> QED
    BY <1>1, <1>2, <1>3, <1>7, <2>2, StartedLasts
<1>8. CASE w.batchUpdates = {} /\ w.otherUpdates = {} /\ z = onFibUpdateSuccess(w, b)
  <2> DEFINE y == onFibUpdateSuccess(w, b)
  <2>1. SameBatch(w, y)
    BY <1>2, <1>3, SuccessEffect DEF ServiceOK
  <2> HIDE DEF y
  <2>2. z.odd = w.odd
    BY <1>8, <2>1 DEF y, SameBatch
  <2>3. Orderly(z) => /\ w.sent = {}
                      /\ Lasting(w.rib, w.timers, <<b>> \o w.queue, fs, k)
                      /\ AddsFor(w, b, fs)
    BY <1>6, <2>2
  <2> QED
    BY <1>1, <1>2, <1>3, <1>8, <2>3, AppliedLasts
<1> QED
  BY <1>5, <1>7, <1>8

LEMMA SendingLasts ==
    ASSUME NEW t, ServiceOK(t), NEW fb, NEW fs, NEW k, FibOK(fb, fs), HopsSound(t, fb, fs),
           LastSound(t, fs, k)
    PROVE  LastSound(sendBatchFromQueue(t), fs, k)
<1> DEFINE n == Len(t.queue)
           Good(q) == HopsSound(q, fb, fs) /\ LastSound(q, fs, k)
<1>0. n \in Nat
  BY LenProperties DEF ServiceOK, QueueOK
<1>1. PICK f : IsSending(f, t) /\ sendBatchFromQueue(t) = f[n]
  BY <1>0, SendingRuns
<1>2. /\ \A i \in 0 .. n : ServiceOK(f[i])
      /\ \A i \in 1 .. n :
           \/ f[i] = f[i - 1]
           \/ f[i - 1].running /\ ~f[i - 1].busy /\ f[i - 1].queue # <<>>
                /\ f[i] = sendNextBatch(f[i - 1])
  BY <1>1, SendingSteps
<1> DEFINE S == {f[i] : i \in {j \in 0 .. n : Good(f[j])}}
<1>3. f[0] \in S
  BY <1>0, <1>1 DEF IsSending
<1>4. ASSUME NEW i \in 1 .. n, f[i - 1] \in S PROVE f[i] \in S
  <2>1. Good(f[i - 1])
    BY <1>4
  <2>2. ServiceOK(f[i - 1]) /\ i \in 0 .. n
    BY <1>0, <1>2
  <2> DEFINE p == f[i - 1]
             q == f[i]
  <2>3. q = p \/ (p.running /\ ~p.busy /\ p.queue # <<>> /\ q = sendNextBatch(p))
    BY <1>2
  <2>4. Good(q)
    <3> HIDE DEF p, q
    <3>1. CASE q = p
      BY <2>1, <3>1 DEF p
    <3>2. CASE p.running /\ ~p.busy /\ p.queue # <<>> /\ q = sendNextBatch(p)
      <4>1. HopsSound(q, fb, fs)
        BY <2>1, <2>2, <3>2, NextBatchSound DEF p
      <4>2. LastSound(q, fs, k)
        BY <2>1, <2>2, <3>2, NextBatchLasts DEF p
      <4> QED
        BY <4>1, <4>2
    <3> QED
      BY <2>3, <3>1, <3>2
  <2> QED
    BY <2>2, <2>4
<1>5. f[n] \in S
  <2> HIDE DEF S, n
  <2> QED
    BY <1>0, <1>3, <1>4, LoopKeeps
<1> QED
  BY <1>1, <1>5

LEMMA AnswerLasts ==
    ASSUME NEW r, ServiceOK(r), Covered(r), r.running, NEW c \in r.sent, FibOK(fib, faces),
           faces \in [Face -> {"new", "up", "down"}],
           HopsSound(r, fib, faces), NEW k, LastSound(r, faces, k)
    PROVE  LastSound(AnswerTo(r, c, Execute(c).code), faces, k)
<1> DEFINE code == Execute(c).code
           v == AnswerTo(r, c, code)
           b == c.batch
<1>1. IsCommand(c) /\ b \in Batch
  BY DEF ServiceOK, SentOK, IsCommand
<1>2. /\ code = 200 /\ c.verb = "add-nexthop" => faces[c.update.face] = "up"
      /\ code = 410 => faces[c.update.face] # "up"
  BY <1>1, ExecuteEffect
<1> HIDE DEF code
<1>3. r.odd \subseteq v.odd
  BY AnswerOdd
<1> SUFFICES ASSUME Orderly(v) PROVE LastSound(v, faces, k)
  <2> HIDE DEF v
  <2>1. ~Orderly(v) => LastSound(v, faces, k)
    BY DEF LastSound
  <2> QED
    BY <2>1 DEF v, code
<1>4. Orderly(r)
  BY <1>3 DEF Orderly
<1>5. OneBatch(r) /\ VerbsOK(r) /\ b \in Batches(r)
  <2>1. OneBatch(r) /\ VerbsOK(r)
    BY <1>4 DEF HopsSound
  <2> QED
    BY <2>1 DEF Batches
<1>6. /\ c.update \in Pending(r) /\ b.route.face = r.batchFace /\ r.busy
      /\ Lasting(r.rib, r.timers, <<b>> \o r.queue, faces, k) /\ AddsFor(r, b, faces)
  <2>1. c.update \in Pending(r) /\ b.route.face = r.batchFace /\ r.busy
    BY <1>5 DEF OneBatch
  <2>2. Line(r) = <<b>> \o r.queue
    BY <1>5, LineOf
  <2> QED
    BY <1>4, <1>5, <2>1, <2>2 DEF LastSound
<1>7. \/ /\ code = 200 \/ (code = 410 /\ r.batchUpdates = {})
         /\ \E q : /\ IsDropped(r, c, q)
                   /\ (v = q /\ IsPartial(r, q)) \/ IsFinished(q, c.batch, v)
      \/ code = 410 /\ IsFailed(r, c, v)
  BY <1>5, AnswerShape
<1> HIDE DEF v
<1>8. ASSUME code = 200 \/ (code = 410 /\ r.batchUpdates = {}), NEW q, IsDropped(r, c, q)
      PROVE  Lasting(q.rib, q.timers, <<b>> \o q.queue, faces, k) /\ AddsFor(q, b, faces)
  <2>1. Lasting(q.rib, q.timers, <<b>> \o q.queue, faces, k)
    BY <1>6, <1>8 DEF IsDropped
  <2>2. AddsFor(q, b, faces)
    <3> SUFFICES ASSUME b.action = "register", faces[b.route.face] = "new"
                 PROVE  \E u \in q.batchUpdates : u.action = "add"
      BY DEF AddsFor
    <3>1. PICK u \in r.batchUpdates : u.action = "add"
      BY <1>6 DEF AddsFor
    <3>2. code = 200 /\ u.face = b.route.face
      BY <1>6, <1>8, <3>1 DEF ServiceOK, UpdatesOK
    <3>3. u # c.update
      <4> SUFFICES ASSUME u = c.update PROVE FALSE
        OBVIOUS
      <4>1. c.verb = "add-nexthop"
        BY <1>5, <3>1 DEF VerbsOK
      <4> QED
        BY <1>2, <3>2, <4>1
    <3> QED
      BY <1>8, <3>1, <3>3 DEF IsDropped
  <2> QED
    BY <2>1, <2>2
<1>9. ASSUME code = 200 \/ (code = 410 /\ r.batchUpdates = {}),
             NEW q, IsDropped(r, c, q), v = q, IsPartial(r, q)
      PROVE  LastSound(v, faces, k)
  <2>1. OneBatch(q) /\ q.sent # {} /\ \A d \in q.sent : d.batch = b
    BY <1>5, <1>9, PartialOneBatch
  <2>2. Line(q) = <<b>> \o q.queue /\ Batches(q) = {b}
    BY <2>1, LineOf DEF Batches
  <2> QED
    BY <1>8, <1>9, <2>2 DEF LastSound
<1>10. ASSUME code = 200 \/ (code = 410 /\ r.batchUpdates = {}),
              NEW q, IsDropped(r, c, q), IsFinished(q, b, v)
       PROVE  LastSound(v, faces, k)
  <2>1. ServiceOK(q) /\ q.busy = r.busy /\ q.batchFace = r.batchFace
    BY <1>10 DEF IsDropped
  <2>2. q.batchUpdates = {} /\ q.sent = {}
    BY <1>10 DEF IsFinished
  <2>3. Lasting(q.rib, q.timers, <<b>> \o q.queue, faces, k) /\ AddsFor(q, b, faces)
    BY <1>8, <1>10
  <2>4. CASE IsSent(q, b, v)
    BY <1>1, <1>6, <2>1, <2>2, <2>3, <2>4, StartedLasts
  <2>5. CASE q.otherUpdates = {} /\ v = onFibUpdateSuccess(q, b)
    BY <1>1, <2>1, <2>2, <2>3, <2>5, AppliedLasts
  <2> QED
    BY <1>10, <2>4, <2>5 DEF IsFinished
<1>11. ASSUME code = 410, IsFailed(r, c, v) PROVE LastSound(v, faces, k)
  <2> DEFINE t == Without(r, c)
             z == onFibUpdateFailure(t, b)
             line == <<b>> \o r.queue
  <2>1. /\ IsService(t)
        /\ t.rib = r.rib
        /\ t.queue = r.queue
        /\ t.sent = r.sent \ {c}
        /\ t.timers = r.timers
    BY WithoutEffect DEF ServiceOK
  <2> HIDE DEF t
  <2>2. SameBatch(t, z) /\ z.rib = t.rib /\ z.timers = t.timers
    BY <2>1, FailureEffect
  <2>3. c.update \in r.batchUpdates /\ r.sent \ {c} = {} /\ v = z
    BY <1>11 DEF IsFailed, t
  <2> HIDE DEF z
  <2>4. v.sent = {} /\ v.rib = r.rib /\ v.queue = r.queue /\ v.timers = r.timers
    BY <2>1, <2>2, <2>3 DEF SameBatch
  <2>5. faces[b.route.face] # "up"
    BY <1>2, <1>6, <1>11, <2>3 DEF ServiceOK, UpdatesOK
  <2>6. r.queue \in Seq(Batch)
    BY DEF ServiceOK, QueueOK
  <2>7. line \in Seq(Batch) /\ line # <<>> /\ line[1] = b /\ Tail(line) = r.queue
    BY <1>1, <2>6, LineParts
  <2>8. Lasting(r.rib, r.timers, line, faces, k)
    BY <1>6
  <2> HIDE DEF line
  <2>9. \A n : \A x \in RoutesAt(r.rib, n) : Removes(line[1], n, x) => faces[x.face] = "down"
    <3>1. ASSUME NEW n, NEW x \in RoutesAt(r.rib, n), Removes(b, n, x) PROVE faces[x.face] = "down"
      <4>1. x \in Route
        BY RibFacts DEF ServiceOK, RibOK
      <4>2. x.face \in Face
        BY <4>1 DEF Route
      <4>3. x.face = b.route.face
        BY <3>1 DEF Removes, SameFaceAndOrigin
      <4>4. faces[x.face] # "new"
        BY <2>8 DEF Lasting, FacesSeen
      <4> QED
        BY <2>5, <4>2, <4>3, <4>4
    <3> QED
      BY <2>7, <3>1
  <2> DEFINE rib == r.rib
             timers == r.timers
  <2>10. Lasting(rib, timers, Tail(line), faces, k)
    <3>1. /\ Lasting(rib, timers, line, faces, k)
          /\ \A n : \A x \in RoutesAt(rib, n) : Removes(line[1], n, x) => faces[x.face] = "down"
      BY <2>8, <2>9
    <3> HIDE DEF rib, timers
    <3> QED
      BY <2>7, <3>1, FailLasts
  <2>11. Line(v) = Tail(line) /\ Batches(v) = {}
    BY <2>4, <2>7 DEF Line, Batches
  <2> QED
    BY <2>4, <2>10, <2>11 DEF LastSound
<1> QED
  BY <1>7, <1>9, <1>10, <1>11

LEMMA TimeoutLasts ==
    ASSUME NEW r, ServiceOK(r), r.running, NEW c \in r.sent, NEW fb, NEW fs, NEW k,
           HopsSound(r, fb, fs), LastSound(r, fs, k),
           NEW v, v = onUpdateTimeout(Without(r, c), c), Orderly(v) => OneBatch(v)
    PROVE  LastSound(v, fs, k)
<1> DEFINE d == Again(c)
           o == onUpdateTimeout(Without(r, c), c)
           b == c.batch
<1>1. /\ d.batch = c.batch
      /\ o.rib = r.rib
      /\ o.queue = r.queue
      /\ o.batchUpdates = r.batchUpdates
      /\ o.timers = r.timers
      /\ o.running => o.sent = (r.sent \ {c}) \cup {d}
      /\ o.odd = r.odd \/ o.odd = r.odd \cup {"retry"}
  BY TimeoutEffect
<1>2. v = o
  OBVIOUS
<1> HIDE DEF d, o
<1> SUFFICES ASSUME Orderly(v)
             PROVE  /\ Lasting(v.rib, v.timers, Line(v), fs, k)
                    /\ \A x \in Batches(v) : AddsFor(v, x, fs)
  BY DEF LastSound
<1>3. Orderly(r) /\ d \in v.sent
  BY <1>1, <1>2 DEF Orderly
<1>4. OneBatch(r) /\ OneBatch(v)
  BY <1>3 DEF HopsSound
<1>5. Line(r) = <<b>> \o r.queue /\ Line(v) = <<b>> \o v.queue
  <2>1. Line(v) = <<d.batch>> \o v.queue
    BY <1>3, <1>4, LineOf
  <2>2. Line(r) = <<c.batch>> \o r.queue
    BY <1>4, LineOf
  <2> QED
    BY <1>1, <2>1, <2>2
<1>6. \A x \in Batches(v) : x \in Batches(r)
  BY <1>1, <1>2, <1>3 DEF Batches, Orderly
<1> QED
  BY <1>1, <1>2, <1>3, <1>5, <1>6 DEF LastSound, AddsFor
LEMMA LineTyped ==
    ASSUME NEW t, ServiceOK(t)
    PROVE  Line(t) \in Seq(Batch)
<1>1. t.queue \in Seq(Batch)
  BY DEF ServiceOK, QueueOK
<1>2. CASE t.sent = {}
  BY <1>1, <1>2 DEF Line
<1>3. CASE t.sent # {}
  <2> DEFINE c == CHOOSE x \in t.sent : TRUE
             b == c.batch
  <2>1. c \in t.sent
    BY <1>3
  <2>2. b \in Batch /\ Line(t) = <<b>> \o t.queue
    BY <1>3, <2>1 DEF Line, ServiceOK, SentOK, IsCommand
  <2> HIDE DEF b
  <2> QED
    BY <1>1, <2>2, LineParts
<1> QED
  BY <1>2, <1>3

\* What goes to the end of the queue goes to the end of the line.
LEMMA LineGrows ==
    ASSUME NEW t, ServiceOK(t), NEW v, v.sent = t.sent, NEW m, m \in Seq(Batch),
           v.queue = t.queue \o m
    PROVE  Line(v) = Line(t) \o m
<1>1. t.queue \in Seq(Batch)
  BY DEF ServiceOK, QueueOK
<1>2. CASE t.sent = {}
  BY <1>2 DEF Line
<1>3. CASE t.sent # {}
  <2> DEFINE c == CHOOSE x \in t.sent : TRUE
             o == <<c.batch>>
             q == t.queue
  <2>1. c \in t.sent
    BY <1>3
  <2>2. c.batch \in Batch
    BY <2>1 DEF ServiceOK, SentOK, IsCommand
  <2>3. Line(t) = o \o q /\ Line(v) = o \o (q \o m)
    BY <1>3 DEF Line
  <2>4. o \in Seq(Batch) /\ q \in Seq(Batch)
    BY <1>1, <2>2
  <2> HIDE DEF o, q
  <2>5. (o \o q) \o m = o \o (q \o m)
    BY <2>4, ConcatAssociative
  <2> QED
    BY <2>3, <2>5
<1> QED
  BY <1>2, <1>3

LEMMA ExtendedSound ==
    ASSUME NEW t, ServiceOK(t), NEW v, SameWork(t, v), t.odd \subseteq v.odd,
           NEW m, m \in Seq(Batch), \A i \in 1 .. Len(m) : m[i].action # "register",
           v.queue = t.queue \o m, v.timers \subseteq t.timers,
           \A y \in t.timers \ v.timers : \E j \in 1 .. Len(m) : Removes(m[j], y.name, y.route),
           NEW fs, NEW k, LastSound(t, fs, k)
    PROVE  LastSound(v, fs, k)
<1> SUFFICES ASSUME Orderly(v)
             PROVE  /\ Lasting(v.rib, v.timers, Line(v), fs, k)
                    /\ \A x \in Batches(v) : AddsFor(v, x, fs)
  BY DEF LastSound
<1> DEFINE rib == t.rib
           timers == t.timers
           rest == v.timers
           line == Line(t)
           longer == Line(v)
<1>1. Orderly(t)
  BY DEF Orderly, SameWork
<1>2. line \in Seq(Batch)
  BY LineTyped
<1>3. longer = line \o m
  BY LineGrows DEF SameWork
<1>4. Lasting(rib, timers, line, fs, k) /\ \A x \in Batches(t) : AddsFor(t, x, fs)
  BY <1>1 DEF LastSound
<1>5. v.rib = rib /\ Batches(v) = Batches(t) /\ \A x : AddsFor(v, x, fs) <=> AddsFor(t, x, fs)
  BY DEF SameWork, Batches, AddsFor
<1>6. rest \subseteq timers
        /\ \A y \in timers \ rest : \E j \in 1 .. Len(m) : Removes(m[j], y.name, y.route)
  OBVIOUS
<1> HIDE DEF rib, timers, rest, line, longer
<1>7. /\ Len(line) \in Nat /\ Len(m) \in Nat /\ Len(longer) = Len(line) + Len(m)
      /\ \A i \in 1 .. Len(line) + Len(m) :
           longer[i] = IF i <= Len(line) THEN line[i] ELSE m[i - Len(line)]
  BY <1>2, <1>3, ConcatProperties, LenProperties
<1> DEFINE l == Len(line)
           g == Len(m)
           Adding(j) == m[j].action # "register"
<1>8. \A j \in 1 .. g : l + j \in 1 .. Len(longer) /\ l + j > l /\ longer[l + j] = m[j]
  <2>1. l \in Nat /\ g \in Nat /\ Len(longer) = l + g
        /\ \A i \in 1 .. l + g : longer[i] = IF i <= l THEN line[i] ELSE m[i - l]
    BY <1>7
  <2> HIDE DEF l, g
  <2> QED
    BY <2>1
<1>9. IsExtended(line, longer)
  <2>1. l \in Nat /\ g \in Nat /\ Len(longer) = l + g
        /\ \A i \in 1 .. l + g : longer[i] = IF i <= l THEN line[i] ELSE m[i - l]
    BY <1>7
  <2>2. \A i \in 1 .. g : m[i].action # "register"
    OBVIOUS
  <2> HIDE DEF g, l
  <2>3. \A i \in 1 .. l : longer[i] = line[i]
    BY <2>1
  <2>4. ASSUME NEW i \in 1 .. l + g, i > l PROVE longer[i].action # "register"
    <3>1. i - l \in 1 .. g /\ longer[i] = m[i - l]
      BY <2>1, <2>4
    <3> QED
      BY <2>2, <3>1
  <2>5. l <= l + g /\ l + g \in Nat
    BY <2>1
  <2> QED
    BY <2>1, <2>3, <2>4, <2>5 DEF IsExtended, l
<1>10. \A y \in timers \ rest : \E j \in 1 .. Len(longer) :
          j > Len(line) /\ Removes(longer[j], y.name, y.route)
  <2>1. ASSUME NEW y \in timers \ rest
        PROVE  \E j \in 1 .. Len(longer) : j > Len(line) /\ Removes(longer[j], y.name, y.route)
    <3>1. PICK j \in 1 .. g : Removes(m[j], y.name, y.route)
      BY <1>6, <2>1
    <3> DEFINE h == l + j
    <3>2. h \in 1 .. Len(longer) /\ h > l /\ longer[h] = m[j]
      BY <1>8
    <3> HIDE DEF h
    <3> QED
      BY <3>1, <3>2
  <2> QED
    BY <2>1
<1>11. Lasting(rib, rest, longer, fs, k)
  BY <1>4, <1>6, <1>9, <1>10, ExtendLasts
<1> QED
  BY <1>4, <1>5, <1>11 DEF rest, longer

LEMMA RegisteredSound ==
    ASSUME NEW t, ServiceOK(t), NEW v, SameWork(t, v), v.odd = t.odd, NEW fs, NEW k \in Nat,
           LastSound(t, fs, k), NEW b \in Batch, b.action = "register", b.route.ev \in {0, k + 1},
           v.queue = Append(t.queue, b), v.timers = t.timers \cup TimersFor(b.name, b.route, k + 1)
    PROVE  LastSound(v, fs, k + 1)
<1> SUFFICES ASSUME Orderly(v)
             PROVE  /\ Lasting(v.rib, v.timers, Line(v), fs, k + 1)
                    /\ \A x \in Batches(v) : AddsFor(v, x, fs)
  BY DEF LastSound
<1> DEFINE rib == t.rib
           timers == t.timers
           more == v.timers
           line == Line(t)
           one == <<b>>
<1>1. Orderly(t)
  BY DEF Orderly, SameWork
<1>2. line \in Seq(Batch)
  BY LineTyped
<1>3. t.queue \in Seq(Batch) /\ one \in Seq(Batch)
  BY DEF ServiceOK, QueueOK
<1>4. v.queue = t.queue \o one
  BY <1>3, AppendIsConcat
<1>5. Line(v) = Append(line, b)
  <2>1. Line(v) = line \o one
    <3> HIDE DEF one
    <3> QED
      BY <1>3, <1>4, LineGrows DEF SameWork
  <2> HIDE DEF line
  <2> QED
    BY <1>2, <2>1, AppendIsConcat
<1>6. Lasting(rib, timers, line, fs, k) /\ \A x \in Batches(t) : AddsFor(t, x, fs)
  BY <1>1 DEF LastSound
<1>7. v.rib = rib /\ Batches(v) = Batches(t) /\ \A x : AddsFor(v, x, fs) <=> AddsFor(t, x, fs)
  BY DEF SameWork, Batches, AddsFor
<1>8. IsRib(rib) /\ timers \subseteq Timer /\ more = timers \cup TimersFor(b.name, b.route, k + 1)
  BY DEF ServiceOK, RibOK, TimersOK
<1> HIDE DEF rib, timers, more, line
<1>9. Lasting(rib, more, Append(line, b), fs, k + 1)
  BY <1>2, <1>6, <1>8, RegisterLasts
<1> QED
  BY <1>5, <1>6, <1>7, <1>9 DEF more

LEMMA SeenSound ==
    ASSUME NEW t, ServiceOK(t), NEW fs, NEW k \in Nat, LastSound(t, fs, k), NEW h \in Nat, k <= h,
           NEW fs2, \A f \in Face : /\ fs[f] = "down" => fs2[f] = "down"
                                    /\ fs[f] # "new" => fs2[f] # "new"
    PROVE  LastSound(t, fs2, h)
<1> SUFFICES ASSUME Orderly(t)
             PROVE  /\ Lasting(t.rib, t.timers, Line(t), fs2, h)
                    /\ \A x \in Batches(t) : AddsFor(t, x, fs2)
  BY DEF LastSound
<1>1. Lasting(t.rib, t.timers, Line(t), fs, k) /\ \A x \in Batches(t) : AddsFor(t, x, fs)
  BY DEF LastSound
<1>2. \A b \in Batches(t) : b.route.face \in Face
  <2>1. \A b \in Batch : b.route.face \in Face
    BY DEF Batch, Target, Route
  <2> QED
    BY <2>1 DEF Batches, ServiceOK, SentOK, IsCommand
<1>3. \A x \in Batches(t) : AddsFor(t, x, fs2)
  BY <1>1, <1>2 DEF AddsFor
<1>4. IsRib(t.rib) /\ t.timers \subseteq Timer /\ Line(t) \in Seq(Batch)
  BY LineTyped DEF ServiceOK, RibOK, TimersOK
<1>5. Lasting(t.rib, t.timers, Line(t), fs2, h)
  <2> DEFINE rib == t.rib
             timers == t.timers
             line == Line(t)
  <2>1. /\ IsRib(rib) /\ timers \subseteq Timer /\ line \in Seq(Batch)
        /\ Lasting(rib, timers, line, fs, k)
    BY <1>1, <1>4
  <2> HIDE DEF rib, timers, line
  <2>2. Lasting(rib, timers, line, fs2, h)
    BY <2>1, SeenLasts
  <2> QED
    BY <2>2 DEF rib, timers, line
<1> QED
  BY <1>3, <1>5
LastInv == HopsInv /\ LastSound(s, faces, requests)

LEMMA InitLast == Init => LastInv
<1> SUFFICES ASSUME Init PROVE LastInv
  OBVIOUS
<1>1. s.sent = {} /\ s.queue = <<>> /\ DOMAIN s.rib = {} /\ s.timers = {}
  BY DEF Init, NoChange
<1>2. Line(s) = <<>> /\ Batches(s) = {} /\ \A n : RoutesAt(s.rib, n) = {}
  BY <1>1 DEF Line, Batches, RoutesAt
<1>3. 1 .. Len(<<>>) = {}
  OBVIOUS
<1>4. Lasting(s.rib, s.timers, Line(s), faces, requests)
  <2>1. WillEnd(s.rib, s.timers, Line(s), faces)
    BY <1>2, <1>3 DEF WillEnd
  <2>2. EventsOnce(s.rib, Line(s))
    BY <1>2, <1>3 DEF EventsOnce
  <2>3. EventsFit(s.rib, s.timers, Line(s))
    BY <1>1 DEF EventsFit
  <2>4. EventsBelow(s.rib, s.timers, Line(s), requests)
    BY <1>1, <1>2, <1>3 DEF EventsBelow
  <2>5. FacesSeen(s.rib, faces)
    BY <1>2 DEF FacesSeen
  <2> QED
    BY <2>1, <2>2, <2>3, <2>4, <2>5 DEF Lasting
<1> QED
  BY <1>2, <1>4, InitHops DEF LastInv, LastSound

LEMMA NextLast == LastInv /\ [Next]_vars => LastInv'
<1> SUFFICES ASSUME LastInv, [Next]_vars PROVE LastInv'
  OBVIOUS
<1> DEFINE t == s
           v == s'
           fb == fib'
           fs == faces'
           k == requests'
           Good(q) == ServiceOK(q) /\ HopsSound(q, fb, fs)
<1>0. /\ faces \in [Face -> {"new", "up", "down"}]
      /\ requests \in Nat
      /\ ServiceOK(t)
      /\ Covered(t)
      /\ FibOK(fib, faces)
      /\ HopsSound(t, fib, faces)
      /\ LastSound(t, faces, requests)
  BY DEF LastInv, HopsInv, ServiceInv, OthersOK
<1>a. HopsInv'
  BY NextHopsInv, SMTT(60) DEF LastInv
<1>1. ASSUME LastSound(v, fs, k) PROVE LastInv'
  BY <1>a, <1>1 DEF LastInv, LastSound, Orderly, Lasting, WillEnd, EventsOnce, EventsFit,
     EventsBelow,
        FacesSeen, AddsFor, Batches, Line, Removes, Fires, Awaited, Expires, RoutesAt
<1>2. ASSUME NEW q, Good(q), LastSound(q, fs, k), v = sendBatchFromQueue(q), FibOK(fb, fs)
      PROVE  LastInv'
  <2> HIDE DEF fb, fs, k
  <2>1. LastSound(sendBatchFromQueue(q), fs, k)
    BY <1>2, SendingLasts
  <2> HIDE DEF v
  <2> QED
    BY <1>1, <1>2, <2>1
<1>3. ASSUME UNCHANGED <<fib, faces>>
      PROVE  FibOK(fb, fs) /\ Good(t) /\ LastSound(t, fs, requests)
  <2>1. fb = fib /\ fs = faces
    BY <1>3
  <2> HIDE DEF fb, fs
  <2> QED
    BY <1>0, <2>1
<1>4. ASSUME UNCHANGED <<s, fib, faces, requests>> PROVE LastInv'
  <2>1. LastSound(t, fs, requests) /\ v = t /\ k = requests
    BY <1>3, <1>4
  <2> HIDE DEF t, v, fb, fs, k
  <2> QED
    BY <1>1, <2>1
\* An update is appended to the queue, the timers change with it.
<1>5. ASSUME NEW q, ServiceOK(q), SameWork(t, q), q.queue = t.queue, q.odd = t.odd,
             NEW b \in Batch, b.action # "remove-face", UNCHANGED <<fib, faces>>
      PROVE  LET e == Enqueue(q, b)
             IN  /\ Good(e) /\ SameWork(t, e) /\ e.odd = t.odd
                 /\ e.queue = Append(t.queue, b) /\ e.timers = q.timers
  <2> DEFINE e == Enqueue(q, b)
  <2>1. IsService(e) /\ SameWork(q, e) /\ QueueOK(e) /\ TimersOK(e)
        /\ e.queue = Append(q.queue, b) /\ e.timers = q.timers /\ e.odd = q.odd
    BY <1>5, EnqueueEffect
  <2> HIDE DEF fb, fs
  <2>2. HopsSound(q, fb, fs)
    <3>1. GoneFaces(t, fs) => GoneFaces(q, fs)
      BY <1>5 DEF GoneFaces
    <3>2. t.odd \subseteq q.odd
      BY <1>5
    <3> QED
      BY <1>3, <1>5, <3>1, <3>2, QueuedSound
  <2>3. HopsSound(e, fb, fs)
    BY <1>5, <2>2, EnqueuedSound
  <2> HIDE DEF e
  <2>4. ServiceOK(e)
    BY <1>5, <2>1, SameWorkKeeps
  <2>5. SameWork(t, e)
    BY <1>5, <2>1 DEF SameWork
  <2> QED
    BY <1>5, <2>1, <2>3, <2>4, <2>5 DEF e
<1>6. ASSUME NEW c \in s.sent, Respond(c), s.running PROVE LastInv'
  <2> DEFINE q == AnswerTo(t, c, Execute(c).code)
  <2>1. v = sendBatchFromQueue(q) /\ fb = Execute(c).fib /\ fs = faces /\ k = requests
    BY <1>6, RespondMeans
  <2>2. HopsSound(q, Execute(c).fib, faces)
    BY <1>0, <1>6, AnswerSound
  <2>3. ServiceOK(q)
    BY <1>0, <1>6, AnswerKeeps
  <2>4. FibOK(Execute(c).fib, faces)
    <3>1. IsCommand(c)
      BY <1>0, <1>6 DEF ServiceOK, SentOK
    <3> QED
      BY <1>0, <3>1, ExecuteEffect
  <2>5. LastSound(q, faces, requests)
    BY <1>0, <1>6, AnswerLasts
  <2> HIDE DEF q, v, fb, fs, k
  <2> QED
    BY <1>2, <2>1, <2>2, <2>3, <2>4, <2>5
<1>7. ASSUME NEW c \in s.sent, Timeout(c), s.running PROVE LastInv'
  <2> DEFINE o == onUpdateTimeout(Without(t, c), c)
  <2>1. v = o /\ fb \in {fib, Execute(c).fib} /\ fs = faces /\ k = requests
    BY <1>7 DEF Timeout, Answered, Without
  <2>2. HopsSound(o, fb, faces)
    <3> HIDE DEF fb, fs
    <3> QED
      BY <1>0, <1>7, <2>1, TimeoutSound
  <2>3. Orderly(o) => OneBatch(o)
    BY <2>2 DEF HopsSound
  <2> HIDE DEF v, fb, fs, k
  <2>4. LastSound(v, faces, requests)
    <3> HIDE DEF o
    <3> QED
      BY <1>0, <1>7, <2>1, <2>3, TimeoutLasts DEF o
  <2> QED
    BY <1>1, <2>1, <2>4
<1>8. ASSUME NEW x \in s.timers, onRouteExpiration(x) PROVE LastInv'
  <2> DEFINE q == [t EXCEPT !.timers = @ \ {x}]
             b == Update("unregister", x.name, x.route, 0)
             e == Enqueue(q, b)
             m == <<b>>
  <2>1. v = sendBatchFromQueue(e) /\ UNCHANGED <<fib, faces, requests>>
    BY <1>8 DEF onRouteExpiration, beginApplyUpdate
  <2>2. /\ b \in Batch
        /\ ServiceOK(q)
        /\ SameWork(t, q)
        /\ q.queue = t.queue
        /\ q.timers = t.timers \ {x}
        /\ q.odd = t.odd
    BY <1>0, <1>8, ExpiredEffect
  <2>3. b.action # "remove-face" /\ b.action # "register" /\ Removes(b, x.name, x.route)
    BY DEF Update, Removes, SameFaceAndOrigin
  <2> HIDE DEF q, b, v, fb, fs, k
  <2>4. /\ Good(e) /\ SameWork(t, e) /\ e.odd = t.odd
        /\ e.queue = Append(t.queue, b) /\ e.timers = t.timers \ {x}
    BY <1>5, <2>1, <2>2, <2>3
  <2>5. /\ m \in Seq(Batch)
        /\ \A i \in 1 .. Len(m) : m[i].action # "register"
        /\ \E j \in 1 .. Len(m) : Removes(m[j], x.name, x.route)
    BY <2>2, <2>3
  <2>6. e.queue = t.queue \o m
    <3>1. t.queue \in Seq(Batch)
      BY <1>0 DEF ServiceOK, QueueOK
    <3> QED
      BY <2>2, <2>4, <3>1, AppendIsConcat
  <2> HIDE DEF e, m
  <2>7. /\ e.timers \subseteq t.timers /\ t.odd \subseteq e.odd
        /\ \A y \in t.timers \ e.timers : \E j \in 1 .. Len(m) : Removes(m[j], y.name, y.route)
    BY <2>4, <2>5
  <2>8. LastSound(e, fs, requests)
    BY <1>0, <1>3, <2>1, <2>4, <2>5, <2>6, <2>7, ExtendedSound
  <2> QED
    BY <1>2, <1>3, <2>1, <2>4, <2>8 DEF k
<1>9. ASSUME NEW n \in Name, NEW f \in Face, NEW o \in Origin, unregisterEntry(n, f, o)
      PROVE  LastInv'
  <2> DEFINE route == [face |-> f, origin |-> o]
             id == requests + 1
             no == {}
             q == Requested(t, no)
             b == Update("unregister", n, route, id)
             e == Enqueue(q, b)
             m == <<b>>
  <2>1. v = beginRemoveRoute(t, n, route, id) /\ UNCHANGED <<fib, faces>> /\ k = id
    BY <1>9 DEF unregisterEntry
  <2>2. id \in Nat /\ route \in Target /\ requests <= id
    BY <1>0 DEF Target
  <2>3. b \in Batch /\ v = sendBatchFromQueue(e)
    <3> HIDE DEF id, route, v
    <3> QED
      BY <1>0, <2>1, <2>2, RemoveRouteMeans DEF no
  <2>4. ServiceOK(q) /\ SameWork(t, q) /\ q.queue = t.queue /\ q.timers = t.timers /\ q.odd = t.odd
    <3>1. no \subseteq Timer
      OBVIOUS
    <3> HIDE DEF no
    <3>2. ServiceOK(q) /\ SameWork(t, q) /\ q.queue = t.queue /\ q.timers = t.timers \cup no
            /\ q.odd = t.odd
      BY <1>0, <3>1, RequestedEffect
    <3> HIDE DEF q
    <3> QED
      BY <3>2 DEF no
  <2>5. b.action # "remove-face" /\ b.action # "register"
    BY DEF Update
  <2> HIDE DEF q, b, v, fb, fs, k, id
  <2>6. /\ Good(e) /\ SameWork(t, e) /\ e.odd = t.odd
        /\ e.queue = Append(t.queue, b) /\ e.timers = t.timers
    BY <1>5, <2>1, <2>3, <2>4, <2>5
  <2>7. m \in Seq(Batch) /\ \A i \in 1 .. Len(m) : m[i].action # "register"
    BY <2>3, <2>5
  <2>8. e.queue = t.queue \o m
    <3>1. t.queue \in Seq(Batch)
      BY <1>0 DEF ServiceOK, QueueOK
    <3> QED
      BY <2>3, <2>6, <3>1, AppendIsConcat
  <2> HIDE DEF e, m
  <2>9. /\ e.timers \subseteq t.timers /\ t.odd \subseteq e.odd
        /\ \A y \in t.timers \ e.timers : \E j \in 1 .. Len(m) : Removes(m[j], y.name, y.route)
    BY <2>6
  <2>10. LastSound(e, fs, requests)
    BY <1>0, <1>3, <2>1, <2>6, <2>7, <2>8, <2>9, ExtendedSound
  <2>11. LastSound(e, fs, id)
    BY <1>0, <2>2, <2>6, <2>10, SeenSound
  <2> QED
    BY <1>2, <1>3, <2>1, <2>3, <2>6, <2>11
<1>10. ASSUME NEW n \in Name, NEW f \in Face, NEW o \in Origin, NEW cost \in Cost,
              NEW ci \in BOOLEAN, NEW cap \in BOOLEAN, NEW expires \in Expiring,
              registerEntry(n, f, o, cost, ci, cap, expires)
       PROVE  LastInv'
  <2> DEFINE id == requests + 1
             ev == IF expires THEN id ELSE 0
             route == [face |-> f, origin |-> o, cost |-> cost, ci |-> ci, cap |-> cap, ev |-> ev]
             timers == TimersFor(n, route, id)
             q == Requested(t, timers)
             b == Update("register", n, route, id)
             e == Enqueue(q, b)
  <2>1. v = beginAddRoute(t, n, route, id) /\ UNCHANGED <<fib, faces>> /\ k = id
    BY <1>10 DEF registerEntry
  <2>2. id \in Nat /\ ev \in Nat
    BY <1>0
  <2>3. route \in Route /\ route.ev \in {0, id}
    <3>1. ev \in {0, id}
      OBVIOUS
    <3> HIDE DEF ev
    <3> QED
      BY <2>2, <3>1 DEF Route
  <2>4. b \in Batch /\ timers \subseteq Timer /\ v = sendBatchFromQueue(e)
    <3> HIDE DEF id, route, v
    <3> QED
      BY <1>0, <2>1, <2>2, <2>3, AddRouteMeans
  <2>5. /\ ServiceOK(q)
        /\ SameWork(t, q)
        /\ q.queue = t.queue
        /\ q.timers = t.timers \cup timers
        /\ q.odd = t.odd
    <3> HIDE DEF timers
    <3> QED
      BY <1>0, <2>4, RequestedEffect
  <2>6. b.action = "register" /\ b.name = n /\ b.route = route
    BY DEF Update
  <2>7. timers = TimersFor(b.name, b.route, requests + 1) /\ b.route.ev \in {0, requests + 1}
    BY <2>3, <2>6
  <2> HIDE DEF q, b, v, fb, fs, k, timers
  <2>8. /\ Good(e) /\ SameWork(t, e) /\ e.odd = t.odd
        /\ e.queue = Append(t.queue, b) /\ e.timers = t.timers \cup timers
    BY <1>5, <2>1, <2>4, <2>5, <2>6
  <2> HIDE DEF e
  <2>9. LastSound(e, fs, requests + 1)
    BY <1>0, <1>3, <2>1, <2>4, <2>6, <2>7, <2>8, RegisteredSound
  <2> QED
    BY <1>2, <1>3, <2>1, <2>4, <2>8, <2>9
<1>11. ASSUME NEW f \in Face, CreateFace(f) \/ DestroyFace(f) PROVE LastInv'
  <2>1. v = t /\ k = requests
    BY <1>11 DEF CreateFace, DestroyFace
  <2>2. \A g \in Face : (faces[g] = "down" => fs[g] = "down") /\ (faces[g] # "new" => fs[g] # "new")
    <3>1. CASE CreateFace(f)
      <4>1. fs = [faces EXCEPT ![f] = "up"] /\ faces[f] = "new"
        BY <3>1 DEF CreateFace
      <4> HIDE DEF fs
      <4> QED
        BY <1>0, <4>1
    <3>2. CASE DestroyFace(f)
      <4>1. fs = [faces EXCEPT ![f] = "down"]
        BY <3>2 DEF DestroyFace
      <4> HIDE DEF fs
      <4> QED
        BY <1>0, <4>1
    <3> QED
      BY <1>11, <3>1, <3>2
  <2> HIDE DEF fb, fs, v, t, k
  <2>3. requests <= requests
    BY <1>0
  <2>4. LastSound(t, fs, requests)
    BY <1>0, <2>2, <2>3, SeenSound
  <2> QED
    BY <1>1, <2>1, <2>4
<1>12. ASSUME NEW f \in Face, onFaceDestroyedEvent(f) PROVE LastInv'
  <2> DEFINE kind == "stale"
             o == Odd(t, kind)
             p == IF faces[f] = "down" THEN t ELSE o
             m == FaceRemovals(p, f)
             q == [p EXCEPT !.queue = @ \o m]
  <2>1. v = sendBatchFromQueue(q) /\ UNCHANGED <<fib, faces, requests>>
    BY <1>12 DEF onFaceDestroyedEvent, beginRemoveFace
  <2>2. fs = faces
    BY <2>1
  <2>3. /\ ServiceOK(o)
        /\ SameWork(t, o)
        /\ o.queue = t.queue
        /\ o.timers = t.timers
        /\ o.odd = t.odd \cup {kind}
    <3> HIDE DEF kind, t
    <3>1. IsService(t)
      BY <1>0 DEF ServiceOK
    <3>2. /\ o.rib = t.rib
          /\ o.faceMap = t.faceMap
          /\ o.queue = t.queue
          /\ o.busy = t.busy
          /\ o.batchFace = t.batchFace
          /\ o.batchUpdates = t.batchUpdates
          /\ o.otherUpdates = t.otherUpdates
          /\ o.inhUpdates = t.inhUpdates
          /\ o.sent = t.sent
          /\ o.timers = t.timers
          /\ o.running = t.running
          /\ o.odd = t.odd \cup {kind}
      BY <3>1, OddEffect
    <3>3. ServiceOK(o)
      BY <1>0, OddKeeps
    <3> HIDE DEF o
    <3> QED
      BY <3>2, <3>3 DEF SameWork
  <2>4. ~Regular(o)
    BY <2>3 DEF Regular
  <2> HIDE DEF o, v, fb, fs, k
  <2>5. Good(o)
    <3>1. GoneFaces(t, fs) => GoneFaces(o, fs)
      BY <2>3 DEF GoneFaces
    <3>2. t.odd \subseteq o.odd
      BY <2>3
    <3> QED
      BY <1>3, <2>1, <2>3, <3>1, <3>2, QueuedSound
  <2>6. /\ Good(p)
        /\ Regular(p) => fs[f] = "down"
        /\ SameWork(t, p)
        /\ p.queue = t.queue
        /\ p.timers = t.timers
        /\ t.odd \subseteq p.odd
    BY <1>3, <2>1, <2>2, <2>3, <2>4, <2>5 DEF SameWork
  <2> HIDE DEF p
  <2>7. /\ ServiceOK(q)
        /\ SameWork(p, q)
        /\ q.queue = p.queue \o m
        /\ q.timers = p.timers
        /\ q.odd = p.odd
    BY <2>6, RemoveFaceEffect
  <2>8. HopsSound(q, fb, fs)
    BY <2>6, RemovedFaceSound
  <2>9. m \in Seq(FaceRemoval(f))
    BY <2>6, FaceRemovalsAre DEF ServiceOK
  <2> HIDE DEF m, q
  <2>10. m \in Seq(Batch) /\ \A i \in 1 .. Len(m) : m[i].action # "register"
    <3>1. \A i \in 1 .. Len(m) : m[i] \in FaceRemoval(f)
      BY <2>9
    <3>2. \A b \in FaceRemoval(f) : b \in Batch /\ b.action # "register"
      BY DEF FaceRemoval
    <3> QED
      BY <2>9, <3>1, <3>2, SeqDef
  <2>11. /\ SameWork(t, q) /\ q.queue = t.queue \o m /\ q.timers \subseteq t.timers
              /\ t.odd \subseteq q.odd
         /\ \A y \in t.timers \ q.timers : \E j \in 1 .. Len(m) : Removes(m[j], y.name, y.route)
    BY <2>6, <2>7 DEF SameWork
  <2>12. LastSound(q, fs, requests)
    BY <1>0, <1>3, <2>1, <2>10, <2>11, ExtendedSound
  <2> QED
    BY <1>2, <1>3, <2>1, <2>7, <2>8, <2>12 DEF k
<1>13. ASSUME fetchActiveFaces PROVE LastInv'
  BY <1>4, <1>13 DEF fetchActiveFaces
<1>14. ASSUME NEW active \in fetched,
              removeInvalidFaces(active) \/ onFetchActiveFacesFailure(active)
       PROVE  LastInv'
  BY <1>4, <1>14 DEF removeInvalidFaces, onFetchActiveFacesFailure
<1>15. CASE UNCHANGED vars
  BY <1>4, <1>15 DEF vars
<1>16. CASE Next
  BY <1>6, <1>7, <1>8, <1>9, <1>10, <1>11, <1>12, <1>13, <1>14, <1>16 DEF Next
<1> QED
  BY <1>15, <1>16

(* A route with an expiration period on a face that exists always has its event
   pending, or its removal is queued or under way: replacing and removing routes
   cancels events one at a time, while registrations of the same route wait in the
   queue with events of their own, and none of them is cancelled with that of another
   route. This fails only after a late answer applied a batch that had failed. *)
THEOREM RoutesExpire == Spec => []ExpirationPending
<1>1. LastInv => ExpirationPending
  <2> SUFFICES ASSUME LastInv, s.running, "answer" \notin s.odd, NEW n \in DOMAIN s.rib,
                      NEW x \in ToSet(s.rib[n].routes), x.ev # 0, faces[x.face] = "up"
               PROVE  \/ \E y \in s.timers : y.ev = x.ev
                      \/ \E i \in DOMAIN s.queue : Removes(s.queue[i], n, x)
                      \/ \E c \in s.sent : Removes(c.batch, n, x)
    BY DEF ExpirationPending, Removes
  <2>1. /\ ServiceOK(s)
        /\ OneBatch(s)
        /\ WillEnd(s.rib, s.timers, Line(s), faces)
    BY DEF LastInv, HopsInv, ServiceInv, HopsSound, LastSound, Lasting, Orderly
  <2>2. x \in RoutesAt(s.rib, n)
    BY DEF RoutesAt, RoutesOf
  <2>3. Fires(s.timers, x.ev) \/ Awaited(Line(s), 0, n, x)
    BY <2>1, <2>2 DEF WillEnd
  <2>4. s.queue \in Seq(Batch)
    BY <2>1 DEF ServiceOK, QueueOK
  <2>5. ASSUME Awaited(Line(s), 0, n, x)
        PROVE  \/ \E i \in DOMAIN s.queue : Removes(s.queue[i], n, x)
               \/ \E c \in s.sent : Removes(c.batch, n, x)
    <3>1. PICK j \in 1 .. Len(Line(s)) : Removes(Line(s)[j], n, x)
      BY <2>5 DEF Awaited
    <3>2. CASE s.sent = {}
      <4>1. Line(s) = s.queue
        BY <2>1, <3>2, LineOf
      <4> QED
        BY <2>4, <3>1, <4>1
    <3>3. CASE s.sent # {}
      <4>1. PICK c \in s.sent : TRUE
        BY <3>3
      <4> DEFINE b == c.batch
                 line == <<b>> \o s.queue
      <4>2. Line(s) = line
        BY <2>1, LineOf
      <4>3. b \in Batch
        BY <2>1, <4>1 DEF ServiceOK, SentOK, IsCommand
      <4>4. line \in Seq(Batch) /\ line # <<>> /\ line[1] = b /\ Tail(line) = s.queue
        BY <2>4, <4>3, LineParts
      <4> HIDE DEF line
      <4>5. CASE j = 1
        BY <3>1, <4>2, <4>4, <4>5
      <4>6. CASE j # 1
        <5>1. j \in 1 .. Len(line) /\ 1 < j
          BY <3>1, <4>2, <4>6
        <5>2. j - 1 \in 1 .. Len(s.queue) /\ s.queue[j - 1] = line[j]
          <6>1. \A k \in 1 .. Len(line) : 1 < k =>
                  k - 1 \in 1 .. Len(Tail(line)) /\ Tail(line)[k - 1] = line[k]
            BY <4>4, TailPositions
          <6>2. \A k \in 1 .. Len(line) : 1 < k =>
                  k - 1 \in 1 .. Len(s.queue) /\ s.queue[k - 1] = line[k]
            BY <4>4, <6>1
          <6> QED
            BY <5>1, <6>2
        <5>3. j - 1 \in DOMAIN s.queue
          BY <2>4, <5>2
        <5> QED
          BY <3>1, <4>2, <5>2, <5>3
      <4> QED
        BY <4>5, <4>6
    <3> QED
      BY <3>2, <3>3
  <2> QED
    BY <2>3, <2>5 DEF Fires
<1> QED
  BY <1>1, InitLast, NextLast, PTL DEF Spec

=============================================================================
