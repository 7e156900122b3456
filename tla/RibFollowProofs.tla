-------------------------- MODULE RibFollowProofs ---------------------------
(***************************************************************************)
(* That the FIB follows the RIB, for any names, faces and costs, any       *)
(* number of requests and any order of answers: whenever all updates are   *)
(* done, and as long as nothing odd happened, the FIB has exactly the next *)
(* hops that the RIB asks for. The invariant builds on those of RibProofs. *)
(***************************************************************************)
EXTENDS RibProofs

(***************************************************************************)
(* The FIB that the RIB asks for. In a RIB without capture, with one route *)
(* of an entry for a face, an entry inherits the faces for which a name    *)
(* above it gives a route and it has none of its own.                      *)
(***************************************************************************)
\* The name has a route for the face, gives one to those below, is given one by a
\* name above.
Owns(rib, n, f) == \E x \in RoutesAt(rib, n) : x.face = f
Gives(rib, n, f) == \E x \in RoutesAt(rib, n) : x.face = f /\ x.ci
Above(rib, n, f) == \E m \in DOMAIN rib : IsStrictPrefix(m, n) /\ Gives(rib, m, f)

PlainRoutes(rib) ==
    \A n : \A x, y \in RoutesAt(rib, n) : ~x.cap /\ (x.face = y.face => x = y)

PlainRib(rib) == PlainRoutes(rib) /\ \A n \in DOMAIN rib : rib[n].nCapture = 0

InheritsExactly(rib) ==
    \A n \in DOMAIN rib : \A f \in Face :
        f \in rib[n].inherited <=> ~Owns(rib, n, f) /\ Above(rib, n, f)

ParentsOf(rib, S) == UNION {rib[m].parent : m \in S}

IsClimb(g, rib, n) ==
    /\ g[0] = {n}
    /\ \A i \in 1 .. Len(n) : g[i] = ParentsOf(rib, g[i - 1])

LEMMA ClimbRuns ==
    ASSUME NEW rib, NEW n, Len(n) \in Nat
    PROVE  \E g : /\ IsClimb(g, rib, n)
                  /\ AncestorsAndSelf(rib, n) = UNION {g[i] : i \in 0 .. Len(n)}
<1> DEFINE l == Len(n)
           R(f, i) == IF i = 0 THEN {n} ELSE ParentsOf(rib, f[i - 1])
           Part(m) == \E f : f = [i \in 0 .. m |-> R(f, i)]
           P == {m \in Nat : Part(m)}
<1>1. 0 \in P
  <2> DEFINE g == [i \in 0 .. 0 |-> {n}]
  <2>1. g = [i \in 0 .. 0 |-> R(g, i)]
    OBVIOUS
  <2> QED
    BY <2>1
<1>2. ASSUME NEW m \in Nat, m \in P PROVE m + 1 \in P
  <2>1. PICK f : f = [i \in 0 .. m |-> R(f, i)]
    BY <1>2
  <2> DEFINE g == [i \in 0 .. m + 1 |-> IF i <= m THEN f[i] ELSE R(f, i)]
  <2>2. ASSUME NEW i \in 0 .. m + 1 PROVE g[i] = R(g, i)
    <3>1. i # 0 => i - 1 \in 0 .. m /\ g[i - 1] = f[i - 1]
      OBVIOUS
    <3>2. R(g, i) = R(f, i)
      BY <3>1
    <3>3. i <= m => f[i] = R(f, i)
      <4> HIDE DEF R, g
      <4> QED
        BY <2>1
    <3>4. g[i] = R(f, i)
      <4> HIDE DEF R
      <4> QED
        BY <3>3
    <3> QED
      BY <3>2, <3>4
  <2>3. g = [i \in 0 .. m + 1 |-> R(g, i)]
    BY <2>2
  <2> HIDE DEF g, R
  <2>4. Part(m + 1)
    BY <2>3
  <2> QED
    BY <2>4
<1>3. l \in P
  <2> HIDE DEF P, l
  <2> QED
    BY <1>1, <1>2, NatInductionOnSet DEF l
<1> DEFINE up == CHOOSE f : f = [i \in 0 .. l |-> R(f, i)]
<1>4. up = [i \in 0 .. l |-> R(up, i)]
  BY <1>3
<1>5. AncestorsAndSelf(rib, n) = UNION {up[i] : i \in 0 .. l}
  BY DEF AncestorsAndSelf, ParentsOf
<1>6. up[0] = {n} /\ \A i \in 1 .. l : up[i] = ParentsOf(rib, up[i - 1])
  <2> HIDE DEF up, R
  <2>1. \A i \in 0 .. l : up[i] = R(up, i)
    BY <1>4
  <2>2. R(up, 0) = {n} /\ \A i \in 1 .. l : R(up, i) = ParentsOf(rib, up[i - 1])
    BY DEF R
  <2>3. l \in Nat
    OBVIOUS
  <2> HIDE DEF l
  <2> QED
    BY <2>1, <2>2, <2>3
<1> HIDE DEF up
<1> QED
  BY <1>5, <1>6 DEF IsClimb

\* The pointers to the parents lead to every entry above.
LEMMA AncestorsAre ==
    ASSUME NEW rib, IsRib(rib), IsTree(rib), NEW n \in DOMAIN rib
    PROVE  AncestorsAndSelf(rib, n) = {m \in DOMAIN rib : IsPrefix(m, n)}
<1> DEFINE l == Len(n)
<1>1. n \in Name /\ l \in Nat /\ DOMAIN rib \subseteq Name
  BY PrefixMeans DEF IsRib
<1>2. PICK g : IsClimb(g, rib, n) /\ AncestorsAndSelf(rib, n) = UNION {g[i] : i \in 0 .. l}
  BY <1>1, ClimbRuns
<1> DEFINE Reached(i) == \A p \in g[i] : p \in DOMAIN rib /\ IsPrefix(p, n) /\ Len(p) + i <= l
           Passed(i, m) == (\E j \in 0 .. i : m \in g[j]) \/ (\E p \in g[i] : IsStrictPrefix(m, p))
           Q == {i \in Nat : i <= l =>
                    Reached(i) /\ \A m \in DOMAIN rib : IsPrefix(m, n) => Passed(i, m)}
<1>3. 0 \in Q
  <2>1. g[0] = {n}
    BY <1>2 DEF IsClimb
  <2>2. Reached(0)
    BY <1>1, <2>1, PrefixFacts
  <2>3. ASSUME NEW m \in DOMAIN rib, IsPrefix(m, n) PROVE Passed(0, m)
    BY <2>1, <2>3 DEF IsStrictPrefix
  <2> QED
    BY <2>2, <2>3
<1>4. ASSUME NEW i \in Nat, i \in Q PROVE i + 1 \in Q
  <2> SUFFICES ASSUME i + 1 <= l
               PROVE  Reached(i + 1) /\ \A m \in DOMAIN rib : IsPrefix(m, n) => Passed(i + 1, m)
    OBVIOUS
  <2>1. i <= l /\ i + 1 \in 1 .. l /\ (i + 1) - 1 = i
    BY <1>1
  <2>2. Reached(i) /\ \A m \in DOMAIN rib : IsPrefix(m, n) => Passed(i, m)
    BY <1>4, <2>1
  <2>3. g[i + 1] = UNION {rib[m].parent : m \in g[i]}
    BY <1>2, <2>1 DEF IsClimb, ParentsOf
  <2> DEFINE D == DOMAIN rib
  <2>4. \A p \in g[i] : p \in D /\ rib[p].parent = ParentIn(D, p)
    BY <2>2, FindParentIn DEF IsTree
  <2>5. \A p \in g[i] : p \in Name /\ Len(p) \in Nat
    BY <1>1, <2>2, PrefixMeans
  <2>6. ASSUME NEW q \in g[i + 1] PROVE q \in D /\ IsPrefix(q, n) /\ Len(q) + (i + 1) <= l
    <3>1. PICK p \in g[i] : q \in ParentIn(D, p)
      BY <2>3, <2>4, <2>6
    <3>2. q \in D /\ IsStrictPrefix(q, p)
      BY <1>1, <2>5, <3>1, ParentMeans, ZenonT(60)
    <3>3. p \in Name /\ q \in Name /\ IsPrefix(p, n) /\ Len(p) + i <= l
      BY <1>1, <2>2, <2>5, <3>1, <3>2
    <3>4. Len(q) < Len(p) /\ IsPrefix(q, p) /\ Len(q) \in Nat /\ Len(p) \in Nat
      <4>1. Len(q) \in Nat /\ Len(p) \in Nat
        BY <3>3, PrefixMeans
      <4>2. IsStrictPrefix(q, p) => Len(q) < Len(p) /\ IsPrefix(q, p)
        BY <3>3, PrefixFacts
      <4> QED
        BY <3>2, <4>1, <4>2
    <3>5. IsPrefix(q, n)
      BY <1>1, <3>3, <3>4, PrefixFacts
    <3> QED
      BY <1>1, <3>2, <3>3, <3>4, <3>5
  <2>7. ASSUME NEW m \in D, IsPrefix(m, n) PROVE Passed(i + 1, m)
    <3>1. CASE \E j \in 0 .. i : m \in g[j]
      BY <3>1
    <3>2. ASSUME NEW p \in g[i], IsStrictPrefix(m, p) PROVE Passed(i + 1, m)
      <4>1. ParentIn(D, p) # {}
        BY <1>1, <2>5, <3>2, ParentMeans
      <4>2. PICK q : q \in ParentIn(D, p)
        BY <4>1
      <4>3. q \in g[i + 1]
        BY <2>3, <2>4, <3>2, <4>2
      <4>4. IsPrefix(m, q)
        BY <1>1, <2>5, <3>2, <4>2, ParentMeans
      <4>5. CASE m = q
        BY <4>3, <4>5
      <4>6. CASE m # q
        BY <4>3, <4>4, <4>6 DEF IsStrictPrefix
      <4> QED
        BY <4>5, <4>6
    <3> QED
      BY <2>2, <2>7, <3>1, <3>2
  <2> QED
    BY <2>6, <2>7
<1>5. \A i \in 0 .. l : i \in Q
  <2> HIDE DEF Q
  <2> QED
    BY <1>3, <1>4, NatInductionOnSet
<1>6. ASSUME NEW m \in AncestorsAndSelf(rib, n) PROVE m \in DOMAIN rib /\ IsPrefix(m, n)
  <2>1. PICK i \in 0 .. l : m \in g[i]
    BY <1>2, <1>6
  <2>2. Reached(i)
    BY <1>1, <1>5, <2>1
  <2> QED
    BY <2>1, <2>2
<1>7. ASSUME NEW m \in DOMAIN rib, IsPrefix(m, n) PROVE m \in AncestorsAndSelf(rib, n)
  <2>1. l \in Q /\ l \in 0 .. l
    <3> HIDE DEF Q
    <3> QED
      BY <1>1, <1>5
  <2>2. Reached(l) /\ Passed(l, m)
    BY <1>7, <2>1
  <2>3. ASSUME NEW p \in g[l], IsStrictPrefix(m, p) PROVE FALSE
    <3>1. p \in Name /\ m \in Name /\ Len(p) + l <= l
      BY <1>1, <2>2, <2>3
    <3>2. Len(m) \in Nat /\ Len(p) \in Nat /\ Len(m) < Len(p)
      BY <2>3, <3>1, PrefixFacts, PrefixMeans
    <3> QED
      BY <1>1, <3>1, <3>2
  <2>4. PICK j \in 0 .. l : m \in g[j]
    BY <2>2, <2>3
  <2> QED
    BY <1>2, <2>4
<1> QED
  BY <1>6, <1>7
LEMMA RoutesMean ==
    ASSUME NEW rib, IsRib(rib), NEW n \in DOMAIN rib, NEW f
    PROVE  /\ hasFaceId(rib[n], f) <=> Owns(rib, n, f)
           /\ hasChildInheritOnFaceId(rib[n], f) <=> Gives(rib, n, f)
           /\ OnFace(rib[n], f) # {} <=> Owns(rib, n, f)
           /\ InheritableOnFace(rib[n], f) # {} <=> Gives(rib, n, f)
<1> DEFINE e == rib[n]
<1>1. e \in Entry
  BY DEF IsRib
<1>2. RoutesAt(rib, n) = {e.routes[i] : i \in DOMAIN e.routes}
  BY DEF RoutesAt, RoutesOf, ToSet
<1> QED
  BY <1>1, <1>2 DEF hasFaceId, hasChildInheritOnFaceId, Owns, Gives, OnFace, InheritableOnFace

\* The ancestors of a name, which may have no entry.
LEMMA AncestorRoutesAre ==
    ASSUME NEW rib, IsRib(rib), IsTree(rib), PlainRib(rib), NEW n \in Name
    PROVE  \A f \in Face :
             f \in DOMAIN getAncestorRoutes(rib, findParent(rib, n)) <=> Above(rib, n, f)
<1> DEFINE D == DOMAIN rib
           parent == findParent(rib, n)
           above == UNION {AncestorsAndSelf(rib, p) : p \in parent}
           open == {m \in above : \A k \in above : hasCapture(rib[k]) => Len(k) <= Len(m)}
           giving(f) == {m \in open : hasChildInheritOnFaceId(rib[m], f)}
<1>1. D \subseteq Name /\ parent = ParentIn(D, n)
  BY FindParentIn DEF IsRib
<1>2. ASSUME NEW m PROVE m \in above <=> m \in D /\ IsStrictPrefix(m, n)
  <2>1. ASSUME m \in above PROVE m \in D /\ IsStrictPrefix(m, n)
    <3>1. PICK p \in parent : m \in AncestorsAndSelf(rib, p)
      BY <2>1
    <3>2. p \in D /\ IsStrictPrefix(p, n)
      <4>1. p \in ParentIn(D, n)
        BY <1>1, <3>1
      <4> QED
        BY <1>1, <4>1, ParentMeans
    <3>3. m \in D /\ IsPrefix(m, p)
      BY <3>1, <3>2, AncestorsAre
    <3>4. m \in Name /\ p \in Name /\ Len(m) \in Nat /\ Len(p) \in Nat /\ Len(n) \in Nat
      BY <1>1, <3>2, <3>3, PrefixMeans
    <3>5. Len(p) < Len(n) /\ IsPrefix(p, n) /\ Len(m) <= Len(p)
      BY <3>2, <3>3, <3>4, PrefixFacts, PrefixMeans
    <3>6. IsPrefix(m, n) /\ Len(m) < Len(n)
      BY <3>3, <3>4, <3>5, PrefixFacts
    <3> QED
      BY <3>3, <3>4, <3>6 DEF IsStrictPrefix
  <2>2. ASSUME m \in D, IsStrictPrefix(m, n) PROVE m \in above
    <3>1. PICK p : p \in ParentIn(D, n)
      BY <1>1, <2>2, ParentMeans
    <3>2. p \in D /\ IsPrefix(m, p)
      BY <1>1, <2>2, <3>1, ParentMeans
    <3>3. m \in AncestorsAndSelf(rib, p)
      BY <2>2, <3>2, AncestorsAre
    <3> QED
      BY <1>1, <3>1, <3>3
  <2> QED
    BY <2>1, <2>2
<1> HIDE DEF above
<1>3. \A k \in above : ~hasCapture(rib[k])
  BY <1>2 DEF PlainRib, hasCapture
<1>4. open = above
  BY <1>3
<1>5. ASSUME NEW f PROVE giving(f) # {} <=> Above(rib, n, f)
  BY <1>2, <1>4, RoutesMean DEF Above
<1>6. DOMAIN getAncestorRoutes(rib, parent) = {f \in Face : giving(f) # {}}
  BY DEF getAncestorRoutes, above
<1> HIDE DEF giving, parent
<1> QED
  BY <1>5, <1>6 DEF parent

\* Of the entries below a name one is the first on the way to each.
LEMMA FirstBelow ==
    ASSUME NEW D, D \subseteq Name, NEW n \in D, NEW m \in D, IsStrictPrefix(n, m)
    PROVE  \E r \in D : ParentIn(D, r) = {n} /\ IsPrefix(r, m)
<1> DEFINE S == {k \in D : IsStrictPrefix(n, k) /\ IsPrefix(k, m)}
           T == {Len(k) : k \in S}
<1>1. \A k \in D : k \in Name /\ Len(k) \in Nat
  BY PrefixMeans
<1>2. m \in S
  BY <1>1, PrefixFacts
<1>3. T \subseteq Nat /\ T # {}
  BY <1>1, <1>2
<1>4. PICK x \in T : \A y \in T : x <= y
  <2> HIDE DEF T
  <2> QED
    BY <1>3, LeastNumber, Zenon
<1>5. PICK r \in S : x = Len(r)
  BY <1>4
<1>6. r \in D /\ r \in Name /\ IsStrictPrefix(n, r) /\ IsPrefix(r, m)
  BY <1>1, <1>5
<1>7. ASSUME NEW k \in D, IsStrictPrefix(k, r) PROVE IsPrefix(k, n)
  <2>1. Len(k) < Len(r) /\ IsPrefix(k, r)
    BY <1>1, <1>6, <1>7, PrefixFacts
  <2>2. IsPrefix(k, m) /\ IsPrefix(n, m)
    BY <1>1, <1>6, <2>1, PrefixFacts
  <2>3. k \notin S
    <3>1. k \in S => Len(k) \in T
      OBVIOUS
    <3>2. Len(k) \in T => Len(r) <= Len(k)
      BY <1>4, <1>5
    <3>3. Len(k) \in Nat /\ Len(r) \in Nat
      BY <1>1, <1>6
    <3> QED
      BY <2>1, <3>1, <3>2, <3>3
  <2>4. CASE Len(k) <= Len(n)
    BY <1>1, <2>2, <2>4, PrefixFacts
  <2>5. CASE ~(Len(k) <= Len(n))
    <3>1. Len(n) <= Len(k) /\ k # n
      BY <1>1, <2>5
    <3>2. IsPrefix(n, k)
      BY <1>1, <2>2, <3>1, PrefixFacts
    <3> QED
      BY <2>2, <2>3, <3>1, <3>2 DEF IsStrictPrefix
  <2> QED
    BY <2>4, <2>5
<1>8. n \in ParentIn(D, r)
  BY <1>6, <1>7, ParentMeans
<1>9. ParentIn(D, r) = {n}
  BY <1>6, <1>8, ParentMeans
<1> QED
  BY <1>6, <1>9

\* roots are the entries where the part of the tree below n begins.
Starts(rib, n, roots) ==
    \A m \in DOMAIN rib :
        (\E r \in roots : r \in DOMAIN rib /\ IsPrefix(r, m)) <=> IsStrictPrefix(n, m)

LEMMA StrictThrough ==
    ASSUME NEW n \in Name, NEW r \in Name, NEW m \in Name, IsStrictPrefix(n, r), IsPrefix(r, m)
    PROVE  IsStrictPrefix(n, m)
<1>1. Len(n) < Len(r) /\ IsPrefix(n, r)
  BY PrefixFacts
<1>2. IsPrefix(n, m) /\ Len(r) <= Len(m) /\ Len(n) \in Nat /\ Len(r) \in Nat /\ Len(m) \in Nat
  BY <1>1, PrefixFacts, PrefixMeans
<1> QED
  BY <1>1, <1>2 DEF IsStrictPrefix

LEMMA ParentsStart ==
    ASSUME NEW rib, IsRib(rib), NEW n \in Name, NEW E, E = DOMAIN rib \cup {n}, NEW roots,
           \A r : r \in roots <=> r \in DOMAIN rib /\ ParentIn(E, r) = {n}
    PROVE  Starts(rib, n, roots)
<1> DEFINE D == DOMAIN rib
<1>1. D \subseteq Name /\ E \subseteq Name /\ n \in E
  BY DEF IsRib
<1> SUFFICES ASSUME NEW m \in D
             PROVE  (\E r \in roots : r \in D /\ IsPrefix(r, m)) <=> IsStrictPrefix(n, m)
  BY DEF Starts
<1>2. ASSUME NEW r \in roots, r \in D, IsPrefix(r, m) PROVE IsStrictPrefix(n, m)
  <2>1. n \in ParentIn(E, r)
    OBVIOUS
  <2>2. IsStrictPrefix(n, r)
    BY <1>1, <1>2, <2>1, ParentMeans
  <2> QED
    BY <1>1, <1>2, <2>2, StrictThrough
<1>3. ASSUME IsStrictPrefix(n, m) PROVE \E r \in roots : r \in D /\ IsPrefix(r, m)
  <2>1. m \in E
    OBVIOUS
  <2>2. PICK r \in E : ParentIn(E, r) = {n} /\ IsPrefix(r, m)
    BY <1>1, <1>3, <2>1, FirstBelow
  <2>3. IsStrictPrefix(n, r)
    BY <1>1, <2>2, ParentMeans
  <2>4. r # n
    BY <2>3 DEF IsStrictPrefix
  <2> QED
    BY <2>2, <2>4
<1> QED
  BY <1>2, <1>3

LEMMA ChildrenStart ==
    ASSUME NEW rib, IsRib(rib), IsTree(rib), NEW n \in DOMAIN rib
    PROVE  Starts(rib, n, children(rib, n))
<1> DEFINE E == DOMAIN rib
           roots == children(rib, n)
<1>1. n \in Name /\ E = DOMAIN rib \cup {n}
  BY DEF IsRib
<1>2. \A r : r \in roots <=> r \in DOMAIN rib /\ ParentIn(E, r) = {n}
  BY FindParentIn DEF children, IsTree
<1> HIDE DEF E, roots
<1>3. Starts(rib, n, roots)
  BY <1>1, <1>2, ParentsStart
<1> QED
  BY <1>3 DEF roots

LEMMA AdoptedStart ==
    ASSUME NEW rib, IsRib(rib), IsTree(rib), NEW n \in Name, n \notin DOMAIN rib
    PROVE  Starts(rib, n, {m \in Below(rib, n) : rib[m].parent = findParent(rib, n)})
<1> DEFINE D == DOMAIN rib
           E == D \cup {n}
           roots == {m \in Below(rib, n) : rib[m].parent = findParent(rib, n)}
<1>1. D \subseteq Name
  BY DEF IsRib
<1>2. \A m \in D : ParentIn(E, m) = IF IsPrefix(n, m) /\ ParentIn(D, m) = ParentIn(D, n)
                                      THEN {n} ELSE ParentIn(D, m)
  BY <1>1, ParentJoined
<1>3. \A m \in D : n \notin ParentIn(D, m)
  BY <1>1, ParentMeans
<1>4. \A m : m \in roots <=> m \in D /\ IsPrefix(n, m) /\ ParentIn(D, m) = ParentIn(D, n)
  BY FindParentIn DEF Below, IsTree
<1>5. \A r : r \in roots <=> r \in D /\ ParentIn(E, r) = {n}
  BY <1>2, <1>3, <1>4
<1> HIDE DEF roots
<1>6. Starts(rib, n, roots)
  <2> HIDE DEF E
  <2> QED
    BY <1>5, ParentsStart DEF E
<1> QED
  BY <1>6 DEF roots

\* A name between n and m, m included, gives a route for f.
Between(rib, n, m, f) ==
    \E k \in DOMAIN rib : IsStrictPrefix(n, k) /\ IsPrefix(k, m) /\ Gives(rib, k, f)

LEMMA AboveSplit ==
    ASSUME NEW rib, IsRib(rib), NEW n \in Name, NEW m \in DOMAIN rib, IsStrictPrefix(n, m), NEW f,
           ~Owns(rib, m, f)
    PROVE  Above(rib, m, f) <=> Between(rib, n, m, f) \/ Gives(rib, n, f) \/ Above(rib, n, f)
<1> DEFINE D == DOMAIN rib
<1>1. D \subseteq Name /\ m \in Name
  BY DEF IsRib
<1>2. \A k \in D : k \in Name /\ Len(k) \in Nat
  BY <1>1, PrefixMeans
<1>3. Len(n) \in Nat /\ IsPrefix(n, m) /\ Len(n) < Len(m)
  BY <1>1, PrefixFacts, PrefixMeans
<1>4. \A k \in D : Gives(rib, k, f) => Owns(rib, k, f)
  BY DEF Gives, Owns
<1>5. Gives(rib, n, f) => n \in D
  BY DEF Gives, RoutesAt
<1>6. ASSUME NEW k \in D, IsStrictPrefix(k, m), Gives(rib, k, f)
      PROVE  Between(rib, n, m, f) \/ Gives(rib, n, f) \/ Above(rib, n, f)
  <2>1. IsPrefix(k, m)
    BY <1>1, <1>2, <1>6, PrefixFacts
  <2>2. CASE Len(k) <= Len(n)
    <3>1. IsPrefix(k, n)
      BY <1>1, <1>2, <1>3, <2>1, <2>2, PrefixFacts
    <3> QED
      BY <1>6, <3>1 DEF Above, IsStrictPrefix
  <2>3. CASE ~(Len(k) <= Len(n))
    <3>1. IsPrefix(n, k) /\ n # k
      BY <1>1, <1>2, <1>3, <2>1, <2>3, PrefixFacts
    <3> QED
      BY <1>6, <2>1, <3>1 DEF Between, IsStrictPrefix
  <2> QED
    BY <2>2, <2>3
<1>7. ASSUME NEW k \in D, IsStrictPrefix(n, k), IsPrefix(k, m), Gives(rib, k, f)
      PROVE  Above(rib, m, f)
  BY <1>4, <1>7 DEF Above, IsStrictPrefix
<1>8. ASSUME NEW k \in D, IsStrictPrefix(k, n), Gives(rib, k, f) PROVE Above(rib, m, f)
  BY <1>1, <1>2, <1>3, <1>8, StrictThrough DEF Above
<1>9. Gives(rib, n, f) => Above(rib, m, f)
  BY <1>5 DEF Above
<1> QED
  BY <1>6, <1>7, <1>8, <1>9 DEF Above, Between

(***************************************************************************)
(* Computed updates at one next hop x. A part that says nothing of x drops *)
(* out of a combination, and a later part that says all replaces.          *)
(***************************************************************************)
Silent(u, x) == x \notin DOMAIN u.fib /\ x \notin DOMAIN u.inh
SameCell(u, v, x) ==
    /\ x \in DOMAIN u.fib <=> x \in DOMAIN v.fib
    /\ x \in DOMAIN v.fib => u.fib[x] = v.fib[x]
    /\ x \in DOMAIN u.inh <=> x \in DOMAIN v.inh
    /\ x \in DOMAIN v.inh => u.inh[x] = v.inh[x]

LEMMA ThenCell ==
    ASSUME NEW u, NEW v, NEW x
    PROVE  /\ Silent(u, x) => SameCell(Then(u, v), v, x)
           /\ Silent(v, x) => SameCell(Then(u, v), u, x)
           /\ x \in DOMAIN v.fib /\ x \in DOMAIN v.inh => SameCell(Then(u, v), v, x)
           /\ Silent(u, x) /\ Silent(v, x) => Silent(Then(u, v), x)
<1> DEFINE w == Then(u, v)
<1>1. w.fib = Over(v.fib, u.fib) /\ w.inh = Over(v.inh, u.inh)
  BY DEF Then
<1> HIDE DEF w
<1>2. /\ x \in DOMAIN w.fib <=> x \in DOMAIN v.fib \/ x \in DOMAIN u.fib
      /\ x \in DOMAIN v.fib => w.fib[x] = v.fib[x]
      /\ x \notin DOMAIN v.fib /\ x \in DOMAIN u.fib => w.fib[x] = u.fib[x]
  BY <1>1 DEF Over
<1>3. /\ x \in DOMAIN w.inh <=> x \in DOMAIN v.inh \/ x \in DOMAIN u.inh
      /\ x \in DOMAIN v.inh => w.inh[x] = v.inh[x]
      /\ x \notin DOMAIN v.inh /\ x \in DOMAIN u.inh => w.inh[x] = u.inh[x]
  BY <1>1 DEF Over
<1> QED
  BY <1>2, <1>3 DEF Silent, SameCell, w

LEMMA SameCellKeeps ==
    ASSUME NEW u, NEW v, NEW x, SameCell(u, v, x)
    PROVE  /\ Adds(u, x) <=> Adds(v, x)
           /\ Takes(u, x) <=> Takes(v, x)
           /\ Gains(u, x) <=> Gains(v, x)
           /\ Loses(u, x) <=> Loses(v, x)
           /\ Silent(u, x) <=> Silent(v, x)
BY DEF SameCell, Adds, Takes, Gains, Loses, Silent

LEMMA SameCellChain ==
    ASSUME NEW u, NEW v, NEW w, NEW x
    PROVE  /\ SameCell(u, u, x)
           /\ SameCell(u, v, x) /\ SameCell(v, w, x) => SameCell(u, w, x)
BY DEF SameCell

\* What the parts say.
LEMMA PartCells ==
    ASSUME NEW n, NEW f, NEW cost, NEW m, NEW g
    PROVE  LET x == <<m, g>>
               own == Install(n, f, cost)
               gone == Uninstall(n, f)
           IN  /\ Silent(NoUpdates, x)
               /\ x # <<n, f>> => Silent(own, x) /\ Silent(gone, x)
               /\ x = <<n, f>> => /\ x \in DOMAIN own.fib
                                  /\ own.fib[x] = AddNexthop(cost)
                                  /\ x \notin DOMAIN own.inh
                                  /\ x \in DOMAIN gone.fib
                                  /\ gone.fib[x] = RemoveNexthop
                                  /\ x \notin DOMAIN gone.inh
<1> DEFINE x == <<m, g>>
           own == Install(n, f, cost)
           gone == Uninstall(n, f)
<1>1. NoUpdates.fib = NoChange /\ NoUpdates.inh = NoChange /\ DOMAIN NoChange = {}
  BY DEF NoUpdates, NoChange
<1>2. own.fib = Single(<<n, f>>, AddNexthop(cost)) /\ own.inh = NoChange
  BY DEF Install, NoUpdates
<1>3. gone.fib = Single(<<n, f>>, RemoveNexthop) /\ gone.inh = NoChange
  BY DEF Uninstall, NoUpdates
<1> HIDE DEF own, gone, x
<1>4. /\ DOMAIN own.fib = {<<n, f>>} /\ own.fib[<<n, f>>] = AddNexthop(cost)
      /\ DOMAIN gone.fib = {<<n, f>>} /\ gone.fib[<<n, f>>] = RemoveNexthop
  BY <1>2, <1>3 DEF Single
<1> QED
  BY <1>1, <1>2, <1>3, <1>4 DEF Silent, own, gone, x

LEMMA InheritCells ==
    ASSUME NEW n, NEW routes, NEW m, NEW g
    PROVE  LET x == <<m, g>>
               u == AddInherited(n, routes)
           IN  /\ ~(m = n /\ g \in DOMAIN routes) => Silent(u, x)
               /\ m = n /\ g \in DOMAIN routes => /\ x \in DOMAIN u.fib
                                                  /\ Adds(u, x)
                                                  /\ x \in DOMAIN u.inh
                                                  /\ Gains(u, x)
<1> DEFINE x == <<m, g>>
           u == AddInherited(n, routes)
           D == {n} \X DOMAIN routes
<1>1. /\ u.fib = [y \in D |-> AddNexthop(routes[y[2]])]
      /\ u.inh = [y \in D |-> TRUE]
  BY DEF AddInherited, NoUpdates
<1>2. x \in D <=> m = n /\ g \in DOMAIN routes
  OBVIOUS
<1> HIDE DEF u, x, D
<1> QED
  BY <1>1, <1>2 DEF Silent, Adds, Gains, AddNexthop, u, x

\* The entries below n without a giving name in between get the faces in A and lose
\* those in R.
BelowCell(rib, n, A, R, u, m, f) ==
    LET x == <<m, f>>
        reached == m \in DOMAIN rib /\ IsStrictPrefix(n, m) /\ ~Between(rib, n, m, f)
    IN  /\ Adds(u, x) <=> reached /\ f \in A /\ ~Owns(rib, m, f)
        /\ Takes(u, x) <=> reached /\ f \in R /\ f \in rib[m].inherited /\ ~Adds(u, x)
        /\ x \in DOMAIN u.fib => Adds(u, x) \/ Takes(u, x)
        /\ Gains(u, x) <=> Adds(u, x)
        /\ Loses(u, x) <=> Takes(u, x)

LEMMA SilentBelow ==
    ASSUME NEW rib, NEW n, NEW u, NEW m, NEW f, Silent(u, <<m, f>>)
    PROVE  BelowCell(rib, n, {}, {}, u, m, f)
BY DEF BelowCell, Silent, Adds, Takes, Gains, Loses

LEMMA BelowCellSame ==
    ASSUME NEW rib, NEW n, NEW A, NEW R, NEW u, NEW v, NEW m, NEW f, SameCell(u, v, <<m, f>>),
           BelowCell(rib, n, A, R, v, m, f)
    PROVE  BelowCell(rib, n, A, R, u, m, f)
<1>1. <<m, f>> \in DOMAIN u.fib <=> <<m, f>> \in DOMAIN v.fib
  BY DEF SameCell
<1> QED
  BY <1>1, SameCellKeeps DEF BelowCell

LEMMA SubtreeCells ==
    ASSUME NEW rib, IsRib(rib), IsTree(rib), PlainRib(rib), NEW n \in Name, NEW roots,
           Starts(rib, n, roots), roots \subseteq DOMAIN rib, NEW add, NEW R, NEW m, NEW f
    PROVE  BelowCell(rib, n, DOMAIN add, R, modifyChildrensInheritedRoutes(rib, roots, add, R),
                     m, f)
<1> DEFINE D == DOMAIN rib
           path(d) == {x \in AncestorsAndSelf(rib, d) : AncestorsAndSelf(rib, x) \cap roots # {}}
           reached == {d \in DOMAIN rib : path(d) # {} /\ \A x \in path(d) : ~hasCapture(rib[x])}
           passes(d, g) == \A x \in path(d) : ~hasChildInheritOnFaceId(rib[x], g)
           removed == {x \in reached \X R :
                           passes(x[1], x[2]) /\ x[2] \in rib[x[1]].inherited}
           added == {x \in reached \X DOMAIN add :
                           passes(x[1], x[2]) /\ ~hasFaceId(rib[x[1]], x[2])}
           less == [NoUpdates EXCEPT !.fib = [x \in removed |-> RemoveNexthop],
                                  !.inh = [x \in removed |-> FALSE]]
           more == [NoUpdates EXCEPT !.fib = [x \in added |-> AddNexthop(add[x[2]])],
                                  !.inh = [x \in added |-> TRUE]]
           u == Then(less, more)
           h == <<m, f>>
<1>1. modifyChildrensInheritedRoutes(rib, roots, add, R) = u
  BY DEF modifyChildrensInheritedRoutes
<1>2. /\ less.fib = [x \in removed |-> RemoveNexthop]
      /\ less.inh = [x \in removed |-> FALSE]
      /\ more.fib = [x \in added |-> AddNexthop(add[x[2]])]
      /\ more.inh = [x \in added |-> TRUE]
  BY DEF NoUpdates
<1>3. D \subseteq Name
  BY DEF IsRib
<1>4. ASSUME NEW d \in D, NEW x
      PROVE  x \in path(d) <=> x \in D /\ IsPrefix(x, d) /\ IsStrictPrefix(n, x)
  <2>1. AncestorsAndSelf(rib, d) = {k \in D : IsPrefix(k, d)}
    BY AncestorsAre
  <2>2. ASSUME x \in D PROVE AncestorsAndSelf(rib, x) \cap roots # {} <=> IsStrictPrefix(n, x)
    <3>1. AncestorsAndSelf(rib, x) = {k \in D : IsPrefix(k, x)}
      BY <2>2, AncestorsAre
    <3> QED
      BY <2>2, <3>1 DEF Starts
  <2> QED
    BY <2>1, <2>2
<1>5. \A d \in D : d \in reached <=> IsStrictPrefix(n, d)
  <2>1. \A d \in D : \A x \in path(d) : ~hasCapture(rib[x])
    BY <1>4 DEF PlainRib, hasCapture
  <2>2. \A d \in D : IsStrictPrefix(n, d) => d \in path(d)
    BY <1>3, <1>4, PrefixFacts
  <2>3. ASSUME NEW d \in D, NEW x \in path(d) PROVE IsStrictPrefix(n, d)
    <3>1. x \in D /\ IsPrefix(x, d) /\ IsStrictPrefix(n, x)
      BY <1>4, <2>3
    <3> QED
      BY <1>3, <3>1, StrictThrough
  <2> HIDE DEF path
  <2> QED
    BY <2>1, <2>2, <2>3
<1>6. reached \subseteq D
  OBVIOUS
<1>7. \A d \in D : \A g : passes(d, g) <=> ~Between(rib, n, d, g)
  <2>1. ASSUME NEW d \in D, NEW g PROVE passes(d, g) <=> ~Between(rib, n, d, g)
    <3>1. \A x \in path(d) : hasChildInheritOnFaceId(rib[x], g) <=> Gives(rib, x, g)
      BY <1>4, RoutesMean
    <3> HIDE DEF path
    <3> QED
      BY <1>4, <3>1 DEF Between
  <2> QED
    BY <2>1
<1> HIDE DEF path, passes, reached
<1>8. h \in removed <=> /\ m \in D /\ IsStrictPrefix(n, m) /\ ~Between(rib, n, m, f)
                        /\ f \in R /\ f \in rib[m].inherited
  BY <1>5, <1>6, <1>7
<1>9. h \in added <=> /\ m \in D /\ IsStrictPrefix(n, m) /\ ~Between(rib, n, m, f)
                      /\ f \in DOMAIN add /\ ~Owns(rib, m, f)
  BY <1>5, <1>6, <1>7, RoutesMean
<1> HIDE DEF removed, added, less, more, h
<1>10. h \in added => Adds(u, h) /\ Gains(u, h) /\ ~Takes(u, h) /\ ~Loses(u, h)
  <2> SUFFICES ASSUME h \in added PROVE Adds(u, h) /\ Gains(u, h) /\ ~Takes(u, h) /\ ~Loses(u, h)
    OBVIOUS
  <2>1. h \in DOMAIN more.fib /\ h \in DOMAIN more.inh /\ more.inh[h]
        /\ more.fib[h].action = "add"
    BY <1>2 DEF AddNexthop
  <2>2. SameCell(u, more, h)
    BY <2>1, ThenCell
  <2> HIDE DEF u
  <2> QED
    BY <2>1, <2>2 DEF SameCell, Adds, Gains, Takes, Loses
<1>11. h \notin added => SameCell(u, less, h)
  <2> SUFFICES ASSUME h \notin added PROVE SameCell(u, less, h)
    OBVIOUS
  <2>1. Silent(more, h)
    BY <1>2 DEF Silent
  <2> QED
    BY <2>1, ThenCell
<1>12. /\ h \in removed => Takes(less, h) /\ Loses(less, h) /\ ~Adds(less, h) /\ ~Gains(less, h)
       /\ h \notin removed => Silent(less, h)
  BY <1>2 DEF RemoveNexthop, Takes, Loses, Adds, Gains, Silent
<1> HIDE DEF u
<1>13. /\ h \in added => Adds(u, h) /\ Gains(u, h) /\ ~Takes(u, h) /\ ~Loses(u, h)
       /\ h \notin added /\ h \in removed => Takes(u, h) /\ Loses(u, h) /\ ~Adds(u, h) /\ ~Gains(u, h)
       /\ h \notin added /\ h \notin removed => Silent(u, h)
  BY <1>10, <1>11, <1>12, SameCellKeeps
<1>14. Silent(u, h) => ~Takes(u, h) /\ ~Loses(u, h) /\ ~Adds(u, h) /\ ~Gains(u, h)
                       /\ h \notin DOMAIN u.fib
  BY DEF Silent, Takes, Loses, Adds, Gains
<1> DEFINE A == DOMAIN add
<1>15. BelowCell(rib, n, A, R, u, m, f)
  <2>1. h \in DOMAIN u.fib => Adds(u, h) \/ Takes(u, h)
    BY <1>13, <1>14
  <2>2. Adds(u, h) <=> h \in added
    BY <1>13, <1>14
  <2>3. Takes(u, h) <=> h \in removed /\ ~Adds(u, h)
    BY <1>13, <1>14
  <2>4. (Gains(u, h) <=> Adds(u, h)) /\ (Loses(u, h) <=> Takes(u, h))
    BY <1>13, <1>14
  <2>5. /\ Adds(u, h) <=> /\ m \in D /\ IsStrictPrefix(n, m) /\ ~Between(rib, n, m, f)
                          /\ f \in A /\ ~Owns(rib, m, f)
        /\ Takes(u, h) <=> /\ m \in D /\ IsStrictPrefix(n, m) /\ ~Between(rib, n, m, f)
                           /\ f \in R /\ f \in rib[m].inherited /\ ~Adds(u, h)
    BY <1>8, <1>9, <2>2, <2>3
  <2> QED
    BY <2>1, <2>4, <2>5, Zenon DEF BelowCell, h
<1> QED
  BY <1>1, <1>15

(***************************************************************************)
(* The updates u for a change of the routes of n, from rib to d, are exact *)
(* at <<m, f>> when they leave there what d asks for.                      *)
(***************************************************************************)
Wanted(rib, m, f) == m \in DOMAIN rib /\ (Owns(rib, m, f) \/ Above(rib, m, f))

ExactAt(rib, d, u, m, f) ==
    LET x == <<m, f>>
    IN  /\ Adds(u, x) => Wanted(d, m, f)
        /\ Takes(u, x) => ~Wanted(d, m, f)
        /\ x \notin DOMAIN u.fib => (Wanted(d, m, f) <=> Wanted(rib, m, f))
        /\ m \in DOMAIN d =>
              ((Gains(u, x) \/ (f \in InheritedAt(rib, m) /\ ~Loses(u, x)))
                 <=> ~Owns(d, m, f) /\ Above(d, m, f))
        /\ m \notin DOMAIN d => x \notin DOMAIN u.inh
        /\ \A r \in RoutesAt(d, m) : r.face = f =>
              IF x \in DOMAIN u.fib THEN u.fib[x].cost = r.cost
              ELSE \E q \in RoutesAt(rib, m) : q.face = f /\ q.cost = r.cost

Changes(rib, d, n) ==
    /\ IsRib(d)
    /\ \A m : m # n => RoutesAt(d, m) = RoutesAt(rib, m) /\ (m \in DOMAIN d <=> m \in DOMAIN rib)

LEMMA ChangedAt ==
    ASSUME NEW rib, IsRib(rib), NEW n \in Name, NEW d, Changes(rib, d, n), NEW m, NEW f
    PROVE  /\ m # n => (Owns(d, m, f) <=> Owns(rib, m, f)) /\ (Gives(d, m, f) <=> Gives(rib, m, f))
           /\ Above(d, n, f) <=> Above(rib, n, f)
           /\ ~IsStrictPrefix(n, m) => (Above(d, m, f) <=> Above(rib, m, f))
           /\ Between(d, n, m, f) <=> Between(rib, n, m, f)
<1>1. ASSUME NEW k, k # n
      PROVE  /\ Owns(d, k, f) <=> Owns(rib, k, f)
             /\ Gives(d, k, f) <=> Gives(rib, k, f)
             /\ k \in DOMAIN d <=> k \in DOMAIN rib
  BY <1>1 DEF Changes, Owns, Gives
<1>2. ~IsStrictPrefix(n, n)
  BY DEF IsStrictPrefix
<1> QED
  BY <1>1, <1>2 DEF Above, Between

\* The faces added and taken are right for the names below n.
Fits(rib, d, n, A, R, f) ==
    LET before == Gives(rib, n, f) \/ Above(rib, n, f)
        after == Gives(d, n, f) \/ Above(rib, n, f)
    IN  /\ f \in A => after
        /\ f \in R /\ f \notin A => ~after
        /\ f \notin A /\ f \notin R => (after <=> before)

LEMMA OthersExact ==
    ASSUME NEW rib, IsRib(rib), InheritsExactly(rib), NEW n \in Name, NEW d, Changes(rib, d, n),
           NEW u, NEW A, NEW R, NEW m, m # n, NEW f \in Face, Fits(rib, d, n, A, R, f),
           BelowCell(rib, n, A, R, u, m, f)
    PROVE  ExactAt(rib, d, u, m, f)
<1> DEFINE x == <<m, f>>
<1>1. /\ RoutesAt(d, m) = RoutesAt(rib, m)
      /\ m \in DOMAIN d <=> m \in DOMAIN rib
      /\ Owns(d, m, f) <=> Owns(rib, m, f)
  BY ChangedAt DEF Changes
<1>2. m \in DOMAIN rib => (f \in InheritedAt(rib, m) <=> ~Owns(rib, m, f) /\ Above(rib, m, f))
                          /\ InheritedAt(rib, m) = rib[m].inherited
  BY DEF InheritsExactly, InheritedAt
<1>3. ASSUME m \in DOMAIN rib, IsStrictPrefix(n, m), ~Owns(rib, m, f)
      PROVE  /\ Above(rib, m, f) <=> Between(rib, n, m, f) \/ Gives(rib, n, f) \/ Above(rib, n, f)
             /\ Above(d, m, f) <=> Between(rib, n, m, f) \/ Gives(d, n, f) \/ Above(rib, n, f)
  <2>1. m \in DOMAIN d /\ ~Owns(d, m, f) /\ IsRib(d)
    BY <1>1, <1>3 DEF Changes
  <2>2. Above(rib, m, f) <=> Between(rib, n, m, f) \/ Gives(rib, n, f) \/ Above(rib, n, f)
    BY <1>3, AboveSplit
  <2>3. Above(d, m, f) <=> Between(d, n, m, f) \/ Gives(d, n, f) \/ Above(d, n, f)
    BY <1>3, <2>1, AboveSplit
  <2> QED
    BY <2>2, <2>3, ChangedAt
<1>4. ~IsStrictPrefix(n, m) => (Above(d, m, f) <=> Above(rib, m, f))
  BY ChangedAt
<1>5. m \notin DOMAIN rib => ~Owns(rib, m, f) /\ InheritedAt(rib, m) = {}
  BY DEF Owns, RoutesAt, InheritedAt
<1>6. x \in DOMAIN u.inh <=> Gains(u, x) \/ Loses(u, x)
  BY DEF Gains, Loses
<1>7. \A r \in RoutesAt(rib, m) : r.face = f => Owns(rib, m, f)
  BY DEF Owns
<1> DEFINE reached == m \in DOMAIN rib /\ IsStrictPrefix(n, m) /\ ~Between(rib, n, m, f)
<1>8. /\ Adds(u, x) <=> reached /\ f \in A /\ ~Owns(rib, m, f)
      /\ Takes(u, x) <=> reached /\ f \in R /\ f \in rib[m].inherited /\ ~Adds(u, x)
      /\ x \in DOMAIN u.fib => Adds(u, x) \/ Takes(u, x)
      /\ Gains(u, x) <=> Adds(u, x)
      /\ Loses(u, x) <=> Takes(u, x)
  BY DEF BelowCell
<1>9. Adds(u, x) \/ Takes(u, x) => x \in DOMAIN u.fib
  BY DEF Adds, Takes
<1> HIDE DEF x
<1>10. Adds(u, x) => Wanted(d, m, f)
  BY <1>1, <1>3, <1>8 DEF Wanted, Fits
<1>11. Takes(u, x) => ~Wanted(d, m, f)
  BY <1>1, <1>2, <1>3, <1>8 DEF Wanted, Fits
<1>12. x \notin DOMAIN u.fib => (Wanted(d, m, f) <=> Wanted(rib, m, f))
  <2>1. CASE m \in DOMAIN rib /\ IsStrictPrefix(n, m) /\ ~Owns(rib, m, f)
    BY <1>1, <1>2, <1>3, <1>8, <1>9, <2>1 DEF Wanted, Fits
  <2>2. CASE ~(m \in DOMAIN rib /\ IsStrictPrefix(n, m) /\ ~Owns(rib, m, f))
    BY <1>1, <1>4, <2>2 DEF Wanted
  <2> QED
    BY <2>1, <2>2
<1>13. m \in DOMAIN d => ((Gains(u, x) \/ (f \in InheritedAt(rib, m) /\ ~Loses(u, x)))
                            <=> ~Owns(d, m, f) /\ Above(d, m, f))
  <2>1. CASE m \in DOMAIN rib /\ IsStrictPrefix(n, m) /\ ~Owns(rib, m, f)
    BY <1>1, <1>2, <1>3, <1>8, <2>1 DEF Fits
  <2>2. CASE ~(m \in DOMAIN rib /\ IsStrictPrefix(n, m) /\ ~Owns(rib, m, f))
    BY <1>1, <1>2, <1>4, <1>8, <2>2
  <2> QED
    BY <2>1, <2>2
<1>14. m \notin DOMAIN d => x \notin DOMAIN u.inh
  BY <1>1, <1>6, <1>8
<1>15. \A r \in RoutesAt(d, m) : r.face = f => x \notin DOMAIN u.fib
  BY <1>1, <1>2, <1>7, <1>8
<1> QED
  BY <1>1, <1>10, <1>11, <1>12, <1>13, <1>14, <1>15 DEF ExactAt, x

LEMMA BelowSilent ==
    ASSUME NEW rib, NEW n, NEW A, NEW R, NEW u, NEW f, BelowCell(rib, n, A, R, u, n, f)
    PROVE  Silent(u, <<n, f>>)
<1>1. ~IsStrictPrefix(n, n)
  BY DEF IsStrictPrefix
<1> QED
  BY <1>1 DEF BelowCell, Silent, Gains, Loses

\* The names below n when the parts are silent there.
LEMMA QuietExact ==
    ASSUME NEW rib, IsRib(rib), InheritsExactly(rib), NEW n \in Name, NEW d, Changes(rib, d, n),
           NEW u, NEW m, m # n, NEW f \in Face, Gives(d, n, f) <=> Gives(rib, n, f),
           Silent(u, <<m, f>>)
    PROVE  ExactAt(rib, d, u, m, f)
<1> DEFINE none == {}
<1>1. BelowCell(rib, n, none, none, u, m, f)
  BY SilentBelow
<1>2. Fits(rib, d, n, none, none, f)
  BY DEF Fits
<1> HIDE DEF none
<1> QED
  BY <1>1, <1>2, OthersExact

LEMMA InsertChanges ==
    ASSUME NEW rib, IsRib(rib), IsTree(rib), NEW n \in Name, NEW route \in Route
    PROVE  LET d == Insert(rib, n, route)
           IN  /\ Changes(rib, d, n)
               /\ n \in DOMAIN d
               /\ RoutesAt(d, n) = {x \in RoutesAt(rib, n) : ~SameFaceAndOrigin(x, route)}
                                      \cup {route}
<1> DEFINE d == Insert(rib, n, route)
<1>1. /\ IsRib(d)
      /\ DOMAIN d = DOMAIN rib \cup {n}
      /\ \A m : RoutesAt(d, m) =
            IF m = n THEN {x \in RoutesAt(rib, n) : ~SameFaceAndOrigin(x, route)} \cup {route}
                     ELSE RoutesAt(rib, m)
  BY InsertedRib
<1> HIDE DEF d
<1> QED
  BY <1>1 DEF Changes, d

LEMMA NewEntryExact ==
    ASSUME NEW rib, IsRib(rib), IsTree(rib), PlainRib(rib), InheritsExactly(rib), NEW n \in Name,
           n \notin DOMAIN rib, NEW route \in Route, ~route.cap, NEW m, NEW f \in Face
    PROVE  ExactAt(rib, Insert(rib, n, route), createFibUpdatesForNewRibEntry(rib, n, route), m, f)
<1> DEFINE d == Insert(rib, n, route)
           u == createFibUpdatesForNewRibEntry(rib, n, route)
           anc == getAncestorRoutes(rib, findParent(rib, n))
           roots == {k \in Below(rib, n) : rib[k].parent = findParent(rib, n)}
           own == Install(n, route.face, route.cost)
           inherit == AddInherited(n, Only(anc, Face \ {route.face}))
           add == Over(Single(route.face, route.cost), anc)
           none == {}
           below == modifyChildrensInheritedRoutes(rib, roots, add, none)
           self == Then(own, inherit)
           x == <<m, f>>
<1>1. route.ci \in BOOLEAN /\ route.face \in Face
  BY DEF Route
<1>2. u = IF route.ci THEN Then(self, below) ELSE self
  BY <1>1 DEF createFibUpdatesForNewRibEntry
<1>3. \A g \in Face : g \in DOMAIN anc <=> Above(rib, n, g)
  BY AncestorRoutesAre
<1>4. Starts(rib, n, roots) /\ roots \subseteq DOMAIN rib
  BY AdoptedStart DEF Below
<1>5. Changes(rib, d, n) /\ n \in DOMAIN d /\ RoutesAt(d, n) = {route}
  <2>1. RoutesAt(rib, n) = {}
    BY DEF RoutesAt
  <2> QED
    BY <2>1, InsertChanges
<1> HIDE DEF d, u, anc, roots, none
<1> SUFFICES ExactAt(rib, d, u, m, f)
  BY DEF d, u
<1>6. DOMAIN add = {route.face} \cup DOMAIN anc
  BY DEF Over, Single
<1>7. \A g : g \in DOMAIN Only(anc, Face \ {route.face})
               <=> g \in DOMAIN anc /\ g \in Face /\ g # route.face
  BY DEF Only
<1>8. BelowCell(rib, n, DOMAIN add, none, below, m, f)
  <2> HIDE DEF add
  <2> QED
    BY <1>4, SubtreeCells
<1> HIDE DEF add, below
<1>9. /\ Owns(d, n, f) <=> f = route.face
      /\ Gives(d, n, f) <=> f = route.face /\ route.ci
      /\ ~Owns(rib, n, f) /\ ~Gives(rib, n, f)
      /\ Above(d, n, f) <=> Above(rib, n, f)
  <2>1. RoutesAt(rib, n) = {}
    BY DEF RoutesAt
  <2> QED
    BY <1>5, <2>1, ChangedAt DEF Owns, Gives
<1>10. CASE m = n
  <2>1. SameCell(u, self, x)
    <3>1. Silent(below, x)
      BY <1>8, <1>10, BelowSilent
    <3> QED
      BY <1>2, <3>1, ThenCell, SameCellChain
  <2>2. CASE f = route.face
    <3>1. Silent(inherit, x)
      BY <1>7, <2>2, InheritCells
    <3>2. SameCell(self, own, x)
      BY <3>1, ThenCell
    <3>3. /\ x \in DOMAIN own.fib
          /\ own.fib[x] = AddNexthop(route.cost)
          /\ x \notin DOMAIN own.inh
      BY <1>10, <2>2, PartCells
    <3>4. /\ x \in DOMAIN u.fib
          /\ u.fib[x].action = "add"
          /\ u.fib[x].cost = route.cost
          /\ x \notin DOMAIN u.inh
      BY <2>1, <3>2, <3>3 DEF SameCell, AddNexthop
    <3>5. Adds(u, x) /\ ~Takes(u, x) /\ ~Gains(u, x) /\ ~Loses(u, x)
      BY <3>4 DEF Adds, Takes, Gains, Loses
    <3>6. InheritedAt(rib, n) = {}
      BY DEF InheritedAt
    <3> QED
      BY <1>5, <1>9, <1>10, <2>2, <3>4, <3>5, <3>6 DEF ExactAt, Wanted
  <2>3. CASE f # route.face
    <3>1. Silent(own, x)
      BY <2>3, PartCells
    <3>2. SameCell(self, inherit, x)
      BY <3>1, ThenCell
    <3>3. /\ Above(rib, n, f) => x \in DOMAIN inherit.fib /\ Adds(inherit, x) /\ Gains(inherit, x)
          /\ ~Above(rib, n, f) => Silent(inherit, x)
      BY <1>3, <1>7, <1>10, <2>3, InheritCells
    <3>4. SameCell(u, inherit, x)
      BY <2>1, <3>2, SameCellChain
    <3>5. /\ Above(rib, n, f) => x \in DOMAIN u.fib /\ Adds(u, x) /\ Gains(u, x)
          /\ ~Above(rib, n, f) => Silent(u, x)
      BY <3>3, <3>4, SameCellKeeps DEF Adds
    <3>6. /\ Silent(u, x) => ~Adds(u, x) /\ ~Takes(u, x) /\ ~Gains(u, x) /\ ~Loses(u, x)
          /\ Adds(u, x) => ~Takes(u, x)
      BY DEF Silent, Adds, Takes, Gains, Loses
    <3>7. InheritedAt(rib, n) = {}
      BY DEF InheritedAt
    <3>8. \A r \in RoutesAt(d, m) : r.face # f
      BY <1>5, <1>10, <2>3
    <3> QED
      BY <1>5, <1>9, <1>10, <2>3, <3>5, <3>6, <3>7, <3>8 DEF ExactAt, Wanted
  <2> QED
    BY <2>2, <2>3
<1>11. CASE m # n
  <2>1. Silent(self, x)
    <3>1. Silent(own, x)
      BY <1>11, PartCells
    <3>2. Silent(inherit, x)
      BY <1>11, InheritCells
    <3> QED
      BY <3>1, <3>2, ThenCell
  <2>2. CASE route.ci
    <3>1. SameCell(u, below, x)
      BY <1>2, <2>1, <2>2, ThenCell
    <3>2. BelowCell(rib, n, DOMAIN add, none, u, m, f)
      BY <1>8, <3>1, BelowCellSame
    <3>3. Fits(rib, d, n, DOMAIN add, none, f)
      BY <1>3, <1>6, <1>9, <2>2 DEF Fits, none
    <3> QED
      BY <1>5, <1>11, <3>2, <3>3, OthersExact
  <2>3. CASE ~route.ci
    BY <1>2, <1>5, <1>9, <1>11, <2>1, <2>3, QuietExact
  <2> QED
    BY <2>2, <2>3
<1> QED
  BY <1>10, <1>11

\* The entry has no route for the face of the new one, but the one that it replaces.
OneForFace(rib, n, route) ==
    \A y \in RoutesAt(rib, n) : y.face = route.face => SameFaceAndOrigin(y, route)

LEMMA InsertedFaces ==
    ASSUME NEW rib, IsRib(rib), IsTree(rib), NEW n \in Name, NEW route \in Route,
           OneForFace(rib, n, route), NEW f
    PROVE  LET d == Insert(rib, n, route)
           IN  /\ f # route.face =>
                    /\ Owns(d, n, f) <=> Owns(rib, n, f)
                    /\ Gives(d, n, f) <=> Gives(rib, n, f)
                    /\ \A r \in RoutesAt(d, n) : r.face = f => r \in RoutesAt(rib, n)
               /\ f = route.face =>
                    /\ Owns(d, n, f)
                    /\ Gives(d, n, f) <=> route.ci
                    /\ \A r \in RoutesAt(d, n) : r.face = f => r = route
<1> DEFINE d == Insert(rib, n, route)
<1>1. RoutesAt(d, n) = {x \in RoutesAt(rib, n) : ~SameFaceAndOrigin(x, route)} \cup {route}
  BY InsertChanges
<1>2. \A r \in RoutesAt(rib, n) : r.face # route.face => ~SameFaceAndOrigin(r, route)
  BY DEF SameFaceAndOrigin
<1> HIDE DEF d
<1>3. ASSUME f # route.face, NEW r PROVE r \in RoutesAt(d, n) /\ r.face = f
                                           <=> r \in RoutesAt(rib, n) /\ r.face = f
  BY <1>1, <1>2, <1>3
<1>4. ASSUME f = route.face, NEW r PROVE r \in RoutesAt(d, n) /\ r.face = f <=> r = route
  BY <1>1, <1>4 DEF OneForFace
<1> QED
  BY <1>3, <1>4 DEF Owns, Gives, d

\* At n itself: the face of the route is installed or its next hop stays, and the
\* others are left alone.
LEMMA SelfExact ==
    ASSUME NEW rib, IsRib(rib), IsTree(rib), InheritsExactly(rib), NEW n \in DOMAIN rib,
           NEW route \in Route, OneForFace(rib, n, route), route.face \notin rib[n].inherited,
           NEW u, NEW f \in Face,
           f # route.face => Silent(u, <<n, f>>),
           f = route.face =>
               \/ /\ Adds(u, <<n, f>>) /\ u.fib[<<n, f>>].cost = route.cost
                  /\ <<n, f>> \notin DOMAIN u.inh
               \/ /\ Silent(u, <<n, f>>)
                  /\ \E q \in RoutesAt(rib, n) : q.face = f /\ q.cost = route.cost
    PROVE  ExactAt(rib, Insert(rib, n, route), u, n, f)
<1> DEFINE d == Insert(rib, n, route)
           x == <<n, f>>
<1>1. n \in Name
  BY DEF IsRib
<1>2. Changes(rib, d, n) /\ n \in DOMAIN d
  BY <1>1, InsertChanges
<1>3. /\ f # route.face =>
           /\ Owns(d, n, f) <=> Owns(rib, n, f)
           /\ \A r \in RoutesAt(d, n) : r.face = f => r \in RoutesAt(rib, n)
      /\ f = route.face =>
           /\ Owns(d, n, f)
           /\ \A r \in RoutesAt(d, n) : r.face = f => r = route
  BY <1>1, InsertedFaces
<1> HIDE DEF d
<1> SUFFICES ExactAt(rib, d, u, n, f)
  BY DEF d
<1>4. /\ InheritedAt(rib, n) = rib[n].inherited
      /\ f \in rib[n].inherited <=> ~Owns(rib, n, f) /\ Above(rib, n, f)
  BY DEF InheritedAt, InheritsExactly
<1>5. Above(d, n, f) <=> Above(rib, n, f)
  BY <1>1, <1>2, ChangedAt
<1>6. /\ Silent(u, x) => /\ ~Adds(u, x) /\ ~Takes(u, x) /\ ~Gains(u, x) /\ ~Loses(u, x)
                         /\ x \notin DOMAIN u.fib
      /\ Adds(u, x) => ~Takes(u, x) /\ x \in DOMAIN u.fib
      /\ x \notin DOMAIN u.inh => ~Gains(u, x) /\ ~Loses(u, x)
  BY DEF Silent, Adds, Takes, Gains, Loses
<1>7. CASE f # route.face
  BY <1>2, <1>3, <1>4, <1>5, <1>6, <1>7 DEF ExactAt, Wanted
<1>8. CASE f = route.face
  <2>1. CASE Adds(u, x) /\ u.fib[x].cost = route.cost /\ x \notin DOMAIN u.inh
    BY <1>2, <1>3, <1>4, <1>5, <1>6, <1>8, <2>1 DEF ExactAt, Wanted
  <2>2. CASE Silent(u, x) /\ \E q \in RoutesAt(rib, n) : q.face = f /\ q.cost = route.cost
    <3>1. Owns(rib, n, f)
      BY <2>2 DEF Owns
    <3> QED
      BY <1>2, <1>3, <1>4, <1>5, <1>6, <1>8, <2>2, <3>1 DEF ExactAt, Wanted
  <2> QED
    BY <1>8, <2>1, <2>2
<1> QED
  BY <1>7, <1>8

LEMMA NothingRemoved ==
    ASSUME NEW n, NEW e, NEW x
    PROVE  Silent(removeInheritedRoutes(n, e, NoRoutes), x)
<1> DEFINE u == removeInheritedRoutes(n, e, NoRoutes)
<1>1. DOMAIN NoRoutes = {}
  BY DEF NoRoutes
<1>2. u = RemoveInherited(n, {})
  BY <1>1 DEF removeInheritedRoutes
<1>3. DOMAIN u.fib = {} /\ DOMAIN u.inh = {}
  BY <1>2 DEF RemoveInherited, NoUpdates
<1> QED
  BY <1>3 DEF Silent

LEMMA NewRouteExact ==
    ASSUME NEW rib, IsRib(rib), IsTree(rib), PlainRib(rib), InheritsExactly(rib),
           NEW n \in DOMAIN rib, NEW route \in Route, OneForFace(rib, n, route),
           ~Owns(rib, n, route.face), route.face \notin rib[n].inherited, NEW on, ~on,
           NEW m, NEW f \in Face
    PROVE  ExactAt(rib, Insert(rib, n, route),
                   createFibUpdatesForNewRoute(rib, n, rib[n], route, on), m, f)
<1> DEFINE e == rib[n]
           d == Insert(rib, n, route)
           u == createFibUpdatesForNewRoute(rib, n, e, route, on)
           add == IF route.ci THEN Single(route.face, route.cost) ELSE NoRoutes
           none == DOMAIN NoRoutes
           below == modifyChildrensInheritedRoutes(rib, children(rib, n), add, none)
           own == Install(n, route.face, route.cost)
           rest == removeInheritedRoutes(n, e, NoRoutes)
           x == <<m, f>>
<1>1. n \in Name /\ route.face \in Face /\ route.ci \in BOOLEAN
  BY DEF IsRib, Route
<1>2. OnFace(e, route.face) = {} /\ InheritableOnFace(e, route.face) = {}
  BY RoutesMean DEF InheritableOnFace
<1>3. u = Then(Then(rest, below), own)
  BY <1>2 DEF createFibUpdatesForNewRoute
<1>4. none = {} /\ DOMAIN add = IF route.ci THEN {route.face} ELSE {}
  BY <1>1 DEF NoRoutes, Single
<1>5. Changes(rib, d, n)
  BY <1>1, InsertChanges
<1>6. BelowCell(rib, n, DOMAIN add, none, below, m, f)
  <2>1. Starts(rib, n, children(rib, n)) /\ children(rib, n) \subseteq DOMAIN rib
    BY ChildrenStart DEF children
  <2> HIDE DEF add, none
  <2> QED
    BY <1>1, <2>1, SubtreeCells
<1>7. Silent(rest, x)
  BY NothingRemoved
<1>8. /\ f # route.face => (Gives(d, n, f) <=> Gives(rib, n, f))
      /\ f = route.face => (Gives(d, n, f) <=> route.ci)
  BY <1>1, InsertedFaces
<1> HIDE DEF d, u, rest, below, add, none
<1> SUFFICES ExactAt(rib, d, u, m, f)
  BY DEF d, u, e
<1>9. SameCell(Then(rest, below), below, x)
  BY <1>7, ThenCell
<1>10. CASE m = n
  <2>1. Silent(Then(rest, below), x)
    BY <1>6, <1>9, <1>10, BelowSilent, SameCellKeeps
  <2>2. SameCell(u, own, x)
    BY <1>3, <2>1, ThenCell
  <2>3. f # route.face => Silent(u, x)
    BY <2>2, PartCells, SameCellKeeps
  <2>4. ASSUME f = route.face
        PROVE  Adds(u, x) /\ u.fib[x].cost = route.cost /\ x \notin DOMAIN u.inh
    <3>1. /\ x \in DOMAIN own.fib
          /\ own.fib[x] = AddNexthop(route.cost)
          /\ x \notin DOMAIN own.inh
      BY <1>10, <2>4, PartCells
    <3> HIDE DEF own
    <3> QED
      BY <2>2, <3>1 DEF SameCell, Adds, AddNexthop
  <2> QED
    BY <1>10, <2>3, <2>4, SelfExact DEF d
<1>11. CASE m # n
  <2>1. Silent(own, x)
    BY <1>11, PartCells
  <2>2. SameCell(u, below, x)
    BY <1>3, <1>9, <2>1, ThenCell, SameCellChain
  <2>3. BelowCell(rib, n, DOMAIN add, none, u, m, f)
    BY <1>6, <2>2, BelowCellSame
  <2>4. Fits(rib, d, n, DOMAIN add, none, f)
    <3>1. ~Gives(rib, n, route.face)
      BY DEF Gives, Owns
    <3> QED
      BY <1>4, <1>8, <3>1 DEF Fits
  <2> QED
    BY <1>1, <1>5, <1>11, <2>3, <2>4, OthersExact
<1> QED
  BY <1>10, <1>11

LEMMA CheapestOfOne ==
    ASSUME NEW e, NEW i
    PROVE  Cheapest(e, {i}) = e.routes[i]
<1>1. (CHOOSE k \in {i} : \A j \in {i} \ {k} : Precedes(e, k, j)) = i
  <2>1. \A j \in {i} \ {i} : Precedes(e, i, j)
    OBVIOUS
  <2>2. \E k \in {i} : \A j \in {i} \ {k} : Precedes(e, k, j)
    BY <2>1, Zenon
  <2>3. (CHOOSE k \in {i} : \A j \in {i} \ {k} : Precedes(e, k, j)) \in {i}
    BY <2>2, Zenon
  <2> QED
    BY <2>3, Zenon
<1> QED
  BY <1>1, Zenon DEF Cheapest

\* u for a route that replaces the only one for its face: it is installed if its cost
\* differs, and given to the names below or taken from them.
IsUpdating(rib, n, anc, route, existing, u) ==
    LET f == route.face
        differs == route.cost # existing.cost
        toChildren(add, remove) ==
            modifyChildrensInheritedRoutes(rib, children(rib, n), add, remove)
        install == IF differs THEN Install(n, f, route.cost) ELSE NoUpdates
        gives == IF route.ci /\ (differs \/ ~existing.ci)
                   THEN toChildren(Single(f, route.cost), {}) ELSE NoUpdates
        takes == IF existing.ci /\ ~route.ci THEN toChildren(Only(anc, {f}), {f}) ELSE NoUpdates
    IN  \/ u = Then(Then(install, gives), Then(takes, NoUpdates))
        \/ u = Then(Then(install, takes), Then(gives, NoUpdates))

\* e is the entry with the new fields of the route at position i, existing the route
\* that was there.
LEMMA UpdatedRouteMeans ==
    ASSUME NEW rib, NEW n, NEW e, NEW i, NEW route \in Route, ~route.cap, NEW existing \in Route,
           ~existing.cap, OnFace(e, route.face) = {i}, e.routes[i] = route
    PROVE  IsUpdating(rib, n, getAncestorRoutes(rib, e.parent), route, existing,
                      createFibUpdatesForUpdatedRoute(rib, n, e, route, existing))
<1> DEFINE f == route.face
           lowest == getRouteWithLowestCostByFaceId(e, f).cost
           inheritable == InheritableOnFace(e, f)
           prevRoute == getRouteWithLowestCostAndChildInheritByFaceId(e, f)
           isLowestInheritable == inheritable = {} \/ route.cost <= prevRoute.cost
           differs == route.cost # existing.cost
           flagsDidChange == <<route.ci, route.cap>> # <<existing.ci, existing.cap>>
           anc == getAncestorRoutes(rib, e.parent)
           toChildren(add, remove) ==
               modifyChildrensInheritedRoutes(rib, children(rib, n), add, remove)
           one == toChildren(Single(f, route.cost), {})
           next == IF inheritable # {} THEN Single(f, prevRoute.cost) ELSE Only(anc, {f})
           fewer == toChildren(next, {f})
           last == toChildren(Only(anc, {f}), {f})
           own == Install(n, f, route.cost)
           bad == IF inheritable = {} THEN [NoUpdates EXCEPT !.invalid = TRUE]
                                      ELSE Install(n, f, prevRoute.cost)
           own1 == CASE ~differs -> NoUpdates
                     [] differs /\ route.cost <= lowest -> own
                     [] differs /\ existing.cost < lowest /\ lowest < route.cost -> bad
                     [] OTHER -> NoUpdates
           cost1 == IF differs /\ isLowestInheritable /\ ~flagsDidChange /\ route.ci
                      THEN one ELSE NoUpdates
           inherit1 == CASE ~existing.ci /\ route.ci /\ isLowestInheritable -> one
                         [] existing.ci /\ ~route.ci -> fewer
                         [] OTHER -> NoUpdates
           cap1 == Then(removeInheritedRoutes(n, e, anc), toChildren(NoRoutes, DOMAIN anc))
           cap2 == Then(addInheritedRoutes(n, e, anc), toChildren(anc, {}))
           capture1 == CASE ~existing.cap /\ route.cap -> cap1
                         [] existing.cap /\ ~route.cap -> cap2
                         [] OTHER -> NoUpdates
           u == createFibUpdatesForUpdatedRoute(rib, n, e, route, existing)
<1>1. u = Then(Then(own1, cost1), Then(inherit1, capture1))
  BY DEF createFibUpdatesForUpdatedRoute
<1>2. route.cost \in Nat /\ existing.cost \in Nat /\ route.ci \in BOOLEAN /\ existing.ci \in BOOLEAN
  BY RibEntryAssumption DEF Route
<1>3. lowest = route.cost
  <2>1. Cheapest(e, {i}) = route
    BY CheapestOfOne
  <2> QED
    BY <2>1 DEF getRouteWithLowestCostByFaceId
<1>4. inheritable = IF route.ci THEN {i} ELSE {}
  BY DEF InheritableOnFace
<1>5. route.ci => prevRoute = route
  <2>1. Cheapest(e, {i}) = route
    BY CheapestOfOne
  <2> QED
    BY <1>4, <2>1 DEF getRouteWithLowestCostAndChildInheritByFaceId
<1>6. ~route.ci => fewer = last
  BY <1>4
<1> HIDE DEF prevRoute, inheritable, lowest, one, fewer, last, own, bad, cap1, cap2, u
<1>7. isLowestInheritable
  BY <1>2, <1>4, <1>5
<1>8. flagsDidChange <=> (route.ci /\ ~existing.ci) \/ (existing.ci /\ ~route.ci)
  <2>1. route.cap = existing.cap
    BY DEF Route
  <2> QED
    BY <1>2, <2>1
<1>9. own1 = IF differs THEN own ELSE NoUpdates
  BY <1>2, <1>3
<1>10. capture1 = NoUpdates
  OBVIOUS
<1> HIDE DEF isLowestInheritable, flagsDidChange, own1, capture1
<1>11. cost1 = IF route.ci /\ existing.ci /\ differs THEN one ELSE NoUpdates
  BY <1>2, <1>7, <1>8
<1>12. inherit1 = IF route.ci /\ ~existing.ci THEN one
                  ELSE IF existing.ci /\ ~route.ci THEN last ELSE NoUpdates
  BY <1>2, <1>6, <1>7
<1> HIDE DEF cost1, inherit1
<1> DEFINE install == IF differs THEN own ELSE NoUpdates
           gives == IF route.ci /\ (differs \/ ~existing.ci) THEN one ELSE NoUpdates
           takes == IF existing.ci /\ ~route.ci THEN last ELSE NoUpdates
<1>13. \/ u = Then(Then(install, gives), Then(takes, NoUpdates))
       \/ u = Then(Then(install, takes), Then(gives, NoUpdates))
  <2>1. own1 = install
    BY <1>9
  <2>2. CASE existing.ci
    <3>1. cost1 = gives /\ inherit1 = takes
      BY <1>2, <1>11, <1>12, <2>2
    <3> QED
      BY <1>1, <1>10, <2>1, <3>1
  <2>3. CASE ~existing.ci
    <3>1. cost1 = takes /\ inherit1 = gives
      BY <1>2, <1>11, <1>12, <2>3
    <3> QED
      BY <1>1, <1>10, <2>1, <3>1
  <2> QED
    BY <2>2, <2>3
<1> QED
  BY <1>13, Zenon DEF u, one, last, own, IsUpdating

LEMMA UpdatedRouteExact ==
    ASSUME NEW rib, IsRib(rib), IsTree(rib), PlainRib(rib), InheritsExactly(rib),
           NEW n \in DOMAIN rib, NEW route \in Route, ~route.cap, OneForFace(rib, n, route),
           route.face \notin rib[n].inherited, NEW e, NEW i, OnFace(e, route.face) = {i},
           e.routes[i] = route, e.parent = findParent(rib, n),
           NEW existing \in RoutesAt(rib, n), SameFaceAndOrigin(existing, route),
           NEW m, NEW f \in Face
    PROVE  ExactAt(rib, Insert(rib, n, route),
                   createFibUpdatesForUpdatedRoute(rib, n, e, route, existing), m, f)
<1> DEFINE d == Insert(rib, n, route)
           u == createFibUpdatesForUpdatedRoute(rib, n, e, route, existing)
           anc == getAncestorRoutes(rib, e.parent)
           differs == route.cost # existing.cost
           toChildren(add, remove) ==
               modifyChildrensInheritedRoutes(rib, children(rib, n), add, remove)
           one == Single(route.face, route.cost)
           next == Only(anc, {route.face})
           none == {}
           lost == {route.face}
           own == Install(n, route.face, route.cost)
           install == IF differs THEN own ELSE NoUpdates
           gives == IF route.ci /\ (differs \/ ~existing.ci) THEN toChildren(one, none) ELSE NoUpdates
           takes == IF existing.ci /\ ~route.ci THEN toChildren(next, lost) ELSE NoUpdates
           x == <<m, f>>
<1>1. /\ n \in Name /\ route.face \in Face /\ route.ci \in BOOLEAN
      /\ existing \in Route /\ existing.ci \in BOOLEAN /\ ~existing.cap
      /\ existing.face = route.face
  <2>1. existing \in Route
    BY RibFacts
  <2> QED
    BY <2>1 DEF IsRib, Route, PlainRib, PlainRoutes, SameFaceAndOrigin
<1>2. \/ u = Then(Then(install, gives), Then(takes, NoUpdates))
      \/ u = Then(Then(install, takes), Then(gives, NoUpdates))
  <2>1. IsUpdating(rib, n, anc, route, existing, u)
    BY <1>1, UpdatedRouteMeans
  <2> QED
    BY <2>1, Zenon DEF IsUpdating
<1>3. \A g \in Face : g \in DOMAIN anc <=> Above(rib, n, g)
  BY <1>1, AncestorRoutesAre
<1>4. Changes(rib, d, n)
  BY <1>1, InsertChanges
<1>5. /\ f # route.face => (Gives(d, n, f) <=> Gives(rib, n, f))
      /\ f = route.face => (Gives(d, n, f) <=> route.ci)
  BY <1>1, InsertedFaces
<1>6. Gives(rib, n, route.face) <=> existing.ci
  BY <1>1 DEF Gives, PlainRib, PlainRoutes
<1> HIDE DEF d, u, anc
<1> SUFFICES ExactAt(rib, d, u, m, f)
  BY DEF d, u
<1>7. /\ DOMAIN one = {route.face}
      /\ \A g : g \in DOMAIN next <=> g = route.face /\ g \in DOMAIN anc
  BY DEF Single, Only
<1>8. ASSUME NEW add, NEW R PROVE BelowCell(rib, n, DOMAIN add, R, toChildren(add, R), m, f)
  <2>1. Starts(rib, n, children(rib, n)) /\ children(rib, n) \subseteq DOMAIN rib
    BY ChildrenStart DEF children
  <2> QED
    BY <1>1, <2>1, SubtreeCells
<1> HIDE DEF toChildren, one, next, none, lost
<1>9. BelowCell(rib, n, DOMAIN one, none, toChildren(one, none), m, f)
  BY <1>8
<1>10. BelowCell(rib, n, DOMAIN next, lost, toChildren(next, lost), m, f)
  BY <1>8
<1>11. Silent(NoUpdates, x)
  BY PartCells
<1>12. CASE m = n
  <2>1. Silent(gives, x) /\ Silent(takes, x)
    BY <1>9, <1>10, <1>11, <1>12, BelowSilent
  <2>2. SameCell(u, install, x)
    <3> HIDE DEF gives, takes, install
    <3>1. Silent(Then(takes, NoUpdates), x) /\ Silent(Then(gives, NoUpdates), x)
      BY <1>11, <2>1, ThenCell
    <3>2. SameCell(Then(install, gives), install, x) /\ SameCell(Then(install, takes), install, x)
      BY <2>1, ThenCell
    <3>3. /\ SameCell(Then(Then(install, gives), Then(takes, NoUpdates)), Then(install, gives), x)
          /\ SameCell(Then(Then(install, takes), Then(gives, NoUpdates)), Then(install, takes), x)
      BY <3>1, ThenCell
    <3> QED
      BY <1>2, <3>2, <3>3, SameCellChain
  <2>3. f # route.face => Silent(own, x)
    BY PartCells
  <2>4. f # route.face => Silent(u, x)
    BY <1>11, <2>2, <2>3, SameCellKeeps
  <2>5. ASSUME f = route.face, differs
        PROVE  Adds(u, x) /\ u.fib[x].cost = route.cost /\ x \notin DOMAIN u.inh
    <3>1. /\ x \in DOMAIN own.fib
          /\ own.fib[x] = AddNexthop(route.cost)
          /\ x \notin DOMAIN own.inh
      BY <1>12, <2>5, PartCells
    <3>2. SameCell(u, own, x)
      BY <2>2, <2>5
    <3> HIDE DEF own
    <3> QED
      BY <3>1, <3>2 DEF SameCell, Adds, AddNexthop
  <2>6. ASSUME f = route.face, ~differs
        PROVE  Silent(u, x) /\ \E q \in RoutesAt(rib, n) : q.face = f /\ q.cost = route.cost
    BY <1>1, <1>11, <2>2, <2>6, SameCellKeeps
  <2> QED
    BY <1>12, <2>4, <2>5, <2>6, SelfExact DEF d
<1>13. CASE m # n
  <2>1. Silent(install, x)
    <3>1. Silent(own, x)
      BY <1>13, PartCells
    <3> QED
      BY <1>11, <3>1
  <2>2. SameCell(Then(install, gives), gives, x) /\ SameCell(Then(install, takes), takes, x)
    <3> HIDE DEF install, gives, takes
    <3> QED
      BY <2>1, ThenCell
  <2>3. CASE route.ci
    <3>1. takes = NoUpdates
      BY <2>3
    <3>2. Silent(takes, x) /\ Silent(Then(takes, NoUpdates), x) /\ Silent(Then(install, takes), x)
      BY <1>11, <2>1, <3>1, ThenCell
    <3>3. SameCell(u, gives, x)
      <4> HIDE DEF install, gives, takes
      <4>1. SameCell(Then(gives, NoUpdates), gives, x)
        BY <1>11, ThenCell
      <4>2. SameCell(Then(Then(install, gives), Then(takes, NoUpdates)), Then(install, gives), x)
        BY <3>2, ThenCell
      <4>3. SameCell(Then(Then(install, takes), Then(gives, NoUpdates)), Then(gives, NoUpdates), x)
        BY <3>2, ThenCell
      <4> QED
        BY <1>2, <2>2, <4>1, <4>2, <4>3, SameCellChain
    <3>4. CASE differs \/ ~existing.ci
      <4>1. gives = toChildren(one, none)
        BY <2>3, <3>4
      <4>2. BelowCell(rib, n, DOMAIN one, none, u, m, f)
        BY <1>9, <3>3, <4>1, BelowCellSame
      <4>3. Fits(rib, d, n, DOMAIN one, none, f)
        BY <1>5, <1>7, <2>3 DEF Fits, none
      <4> QED
        BY <1>1, <1>4, <1>13, <4>2, <4>3, OthersExact
    <3>5. CASE ~differs /\ existing.ci
      <4>1. gives = NoUpdates
        BY <3>5
      <4>2. Silent(u, x)
        BY <1>11, <3>3, <4>1, SameCellKeeps
      <4>3. Gives(d, n, f) <=> Gives(rib, n, f)
        BY <1>5, <1>6, <2>3, <3>5
      <4> QED
        BY <1>1, <1>4, <1>13, <4>2, <4>3, QuietExact
    <3> QED
      BY <3>4, <3>5
  <2>4. CASE ~route.ci
    <3>1. gives = NoUpdates
      BY <2>4
    <3>2. Silent(gives, x) /\ Silent(Then(gives, NoUpdates), x) /\ Silent(Then(install, gives), x)
      BY <1>11, <2>1, <3>1, ThenCell
    <3>3. SameCell(u, takes, x)
      <4> HIDE DEF install, gives, takes
      <4>1. SameCell(Then(takes, NoUpdates), takes, x)
        BY <1>11, ThenCell
      <4>2. SameCell(Then(Then(install, gives), Then(takes, NoUpdates)), Then(takes, NoUpdates), x)
        BY <3>2, ThenCell
      <4>3. SameCell(Then(Then(install, takes), Then(gives, NoUpdates)), Then(install, takes), x)
        BY <3>2, ThenCell
      <4> QED
        BY <1>2, <2>2, <4>1, <4>2, <4>3, SameCellChain
    <3>4. CASE existing.ci
      <4>1. takes = toChildren(next, lost)
        BY <2>4, <3>4
      <4>2. BelowCell(rib, n, DOMAIN next, lost, u, m, f)
        BY <1>10, <3>3, <4>1, BelowCellSame
      <4>3. Fits(rib, d, n, DOMAIN next, lost, f)
        BY <1>3, <1>5, <1>7, <2>4 DEF Fits, lost
      <4> QED
        BY <1>1, <1>4, <1>13, <4>2, <4>3, OthersExact
    <3>5. CASE ~existing.ci
      <4>1. takes = NoUpdates
        BY <3>5
      <4>2. Silent(u, x)
        BY <1>11, <3>3, <4>1, SameCellKeeps
      <4>3. Gives(d, n, f) <=> Gives(rib, n, f)
        BY <1>5, <1>6, <2>4, <3>5
      <4> QED
        BY <1>1, <1>4, <1>13, <4>2, <4>3, QuietExact
    <3> QED
      BY <3>4, <3>5
  <2> QED
    BY <1>1, <2>3, <2>4
<1> QED
  BY <1>12, <1>13

\* What IsPlain asks of a registration.
PlainFor(rib, n, route) ==
    /\ ~route.cap
    /\ n \in DOMAIN rib => /\ route.face \notin rib[n].inherited
                           /\ OnFace(rib[n], route.face) \subseteq findRoute(rib[n], route)

LEMMA RegistrationExact ==
    ASSUME NEW rib, IsRib(rib), IsTree(rib), PlainRib(rib), InheritsExactly(rib), NEW n \in Name,
           NEW route \in Route, PlainFor(rib, n, route), NEW m, NEW f \in Face
    PROVE  ExactAt(rib, Insert(rib, n, route), computeUpdatesForRegistration(rib, n, route), m, f)
<1> DEFINE u == computeUpdatesForRegistration(rib, n, route)
<1>1. CASE n \notin DOMAIN rib
  <2>1. u = createFibUpdatesForNewRibEntry(rib, n, route)
    BY <1>1 DEF computeUpdatesForRegistration
  <2> QED
    BY <1>1, <2>1, NewEntryExact DEF PlainFor
<1>2. CASE n \in DOMAIN rib
  <2> DEFINE e == rib[n]
  <2>1. /\ e \in Entry /\ RoutesOnce(e) /\ ~route.cap /\ route.face \notin e.inherited
        /\ OnFace(e, route.face) \subseteq findRoute(e, route)
        /\ e.parent = findParent(rib, n)
    BY <1>2 DEF IsRib, PlainFor, IsTree
  <2>2. RoutesAt(rib, n) = {e.routes[i] : i \in DOMAIN e.routes}
    BY <1>2 DEF RoutesAt, RoutesOf, ToSet
  <2>3. OneForFace(rib, n, route)
    BY <2>1, <2>2 DEF OneForFace, OnFace, findRoute
  <2>4. CASE ~hasRoute(e, route)
    <3> DEFINE on == ~hasCapture(e) /\ route.cap
    <3>1. u = createFibUpdatesForNewRoute(rib, n, e, route, on)
      BY <1>2, <2>4 DEF computeUpdatesForRegistration
    <3>2. ~on
      BY <2>1
    <3>3. ~Owns(rib, n, route.face)
      <4>1. OnFace(e, route.face) = {}
        BY <2>1, <2>4 DEF hasRoute
      <4> QED
        BY <1>2, <4>1, RoutesMean
    <3> HIDE DEF on
    <3> QED
      BY <1>2, <2>1, <2>3, <3>1, <3>2, <3>3, NewRouteExact
  <2>5. CASE hasRoute(e, route)
    <3> DEFINE i == CHOOSE i \in findRoute(e, route) : TRUE
               d == [e EXCEPT !.routes[i] = route]
               existing == e.routes[i]
    <3>1. u = createFibUpdatesForUpdatedRoute(rib, n, d, route, existing)
      BY <1>2, <2>5 DEF computeUpdatesForRegistration
    <3>2. i \in findRoute(e, route)
      BY <2>5 DEF hasRoute
    <3> HIDE DEF i
    <3>3. i \in DOMAIN e.routes /\ SameFaceAndOrigin(existing, route)
      BY <3>2 DEF findRoute
    <3>4. existing \in RoutesAt(rib, n)
      BY <2>2, <3>3
    <3>5. \A j \in findRoute(e, route) : j = i
      BY <2>1, <3>2, SameIsEquivalence DEF findRoute, RoutesOnce
    <3>6. /\ DOMAIN d.routes = DOMAIN e.routes
          /\ d.routes[i] = route
          /\ \A j \in DOMAIN e.routes : j # i => d.routes[j] = e.routes[j]
          /\ d.parent = e.parent
      BY <2>1, <3>3 DEF Entry
    <3> HIDE DEF d
    <3>7. OnFace(d, route.face) = {i}
      <4>1. \A j \in DOMAIN e.routes : j # i => e.routes[j].face # route.face
        BY <2>1, <3>5 DEF OnFace
      <4> QED
        BY <3>3, <3>6, <4>1 DEF OnFace
    <3>8. d.parent = findParent(rib, n)
      BY <2>1, <3>6
    <3> HIDE DEF existing
    <3> QED
      BY <1>2, <2>1, <2>3, <3>1, <3>3, <3>4, <3>6, <3>7, <3>8, UpdatedRouteExact DEF existing
  <2> QED
    BY <2>4, <2>5
<1> QED
  BY <1>1, <1>2

LEMMA EraseChanges ==
    ASSUME NEW rib, IsRib(rib), IsTree(rib), NEW n, NEW route
    PROVE  LET d == Erase(rib, n, route)
           IN  /\ Changes(rib, d, n)
               /\ RoutesAt(d, n) = {x \in RoutesAt(rib, n) : ~SameFaceAndOrigin(x, route)}
               /\ n \in DOMAIN d <=> RoutesAt(d, n) # {}
<1> DEFINE d == Erase(rib, n, route)
<1>1. /\ IsRib(d) /\ IsTree(d)
      /\ \A m : RoutesAt(d, m) =
            IF m = n THEN {x \in RoutesAt(rib, n) : ~SameFaceAndOrigin(x, route)}
                     ELSE RoutesAt(rib, m)
      /\ DOMAIN rib \ {n} \subseteq DOMAIN d
      /\ DOMAIN d \subseteq DOMAIN rib
  BY ErasedRib
<1> HIDE DEF d
<1>2. n \in DOMAIN d <=> RoutesAt(d, n) # {}
  BY <1>1, RibFacts
<1> QED
  BY <1>1, <1>2 DEF Changes, d

\* u for the removal of route y of n, when it is the only one for its face; stays says
\* whether the entry has others.
IsErasing(rib, n, anc, y, stays, u) ==
    LET below == IF y.ci THEN modifyChildrensInheritedRoutes(rib, children(rib, n), anc, {y.face})
                 ELSE NoUpdates
        uncovered == IF stays THEN AddInherited(n, Only(anc, {y.face})) ELSE NoUpdates
        last == IF stays THEN NoUpdates ELSE createFibUpdatesForErasedRibEntry(n, rib[n])
    IN  u = Then(Then(Then(Then(Uninstall(n, y.face), NoUpdates), Then(below, uncovered)),
                      NoUpdates),
                 last)

LEMMA ErasedRouteMeans ==
    ASSUME NEW rib, NEW n, NEW temp, NEW y \in Route, ~y.cap, ~hasCapture(temp), NEW off, ~off
    PROVE  LET f == y.face
               anc == getAncestorRoutes(rib, temp.parent)
               below == IF y.ci THEN modifyChildrensInheritedRoutes(rib, children(rib, n), anc, {f})
                        ELSE NoUpdates
               uncovered == IF temp.routes # <<>> THEN AddInherited(n, Only(anc, {f})) ELSE NoUpdates
           IN  createFibUpdatesForErasedRoute(rib, n, temp, y, off)
                 = Then(Then(Uninstall(n, f), NoUpdates), Then(below, uncovered))
<1> DEFINE f == y.face
           anc == getAncestorRoutes(rib, temp.parent)
           unblocks == off /\ temp.routes # <<>>
           add == IF (y.cap /\ unblocks) \/ (y.ci /\ ~y.cap /\ ~hasCapture(temp))
                    THEN anc ELSE NoRoutes
           self == IF y.cap /\ unblocks THEN addInheritedRoutes(n, temp, anc) ELSE NoUpdates
           sub(a) == modifyChildrensInheritedRoutes(rib, children(rib, n), a, IF y.ci THEN {f} ELSE {})
           below == IF y.ci \/ y.cap THEN sub(add) ELSE NoUpdates
           only == AddInherited(n, Only(anc, {f}))
           uncovered == IF ~hasCapture(temp) /\ temp.routes # <<>> THEN only ELSE NoUpdates
<1>1. createFibUpdatesForErasedRoute(rib, n, temp, y, off)
        = Then(Then(Uninstall(n, f), self), Then(below, uncovered))
  BY DEF createFibUpdatesForErasedRoute
<1>2. y.ci \in BOOLEAN
  BY DEF Route
<1>3. self = NoUpdates
  OBVIOUS
<1>4. y.ci => add = anc
  OBVIOUS
<1> HIDE DEF anc, self, add
<1>5. below = IF y.ci THEN modifyChildrensInheritedRoutes(rib, children(rib, n), anc, {f})
              ELSE NoUpdates
  <2>1. y.ci => (IF y.ci THEN {f} ELSE {}) = {f}
    OBVIOUS
  <2>2. CASE y.ci
    BY <1>4, <2>1, <2>2
  <2>3. CASE ~y.ci
    BY <2>3
  <2> QED
    BY <2>2, <2>3
<1> HIDE DEF only
<1>6. uncovered = IF temp.routes # <<>> THEN only ELSE NoUpdates
  OBVIOUS
<1> HIDE DEF below, uncovered
<1> QED
  BY <1>1, <1>3, <1>5, <1>6, Zenon DEF anc, only

LEMMA ErasedPlainEntry ==
    ASSUME NEW e \in Entry, NEW route, hasRoute(e, route), \A y \in RoutesOf(e) : ~y.cap
    PROVE  eraseRoute(e, route).nCapture = e.nCapture
<1> DEFINE i == CHOOSE i \in findRoute(e, route) : TRUE
<1>1. i \in DOMAIN e.routes
  BY DEF hasRoute, findRoute
<1>2. eraseRoute(e, route) =
        [e EXCEPT !.routes = RemoveAt(@, i),
                  !.nCapture = IF e.routes[i].cap THEN (@ - 1) % CaptureSpace ELSE @]
  BY DEF eraseRoute
<1> HIDE DEF i
<1>3. ~e.routes[i].cap
  BY <1>1 DEF RoutesOf, ToSet
<1> QED
  BY <1>2, <1>3 DEF Entry

LEMMA UnregistrationMeans ==
    ASSUME NEW rib, IsRib(rib), IsTree(rib), PlainRib(rib), NEW n \in DOMAIN rib, NEW route,
           hasRoute(rib[n], route)
    PROVE  \E y \in RoutesAt(rib, n) :
             /\ SameFaceAndOrigin(y, route)
             /\ IsErasing(rib, n, getAncestorRoutes(rib, findParent(rib, n)), y,
                          n \in DOMAIN Erase(rib, n, route),
                          computeUpdatesForUnregistration(rib, n, route))
<1> DEFINE u == computeUpdatesForUnregistration(rib, n, route)
           d == Erase(rib, n, route)
           e == rib[n]
           i == CHOOSE i \in findRoute(e, route) : TRUE
           y == e.routes[i]
           temp == eraseRoute(e, route)
           off == hasCapture(e) /\ ~hasCapture(temp)
           erased == createFibUpdatesForErasedRoute(rib, n, temp, y, off)
           second == getRouteWithSecondLowestCostByFaceId(e, route.face)
           again == createFibUpdatesForNewRoute(rib, n, temp, second, FALSE)
           next == IF Cardinality(OnFace(e, route.face)) > 1 THEN again ELSE NoUpdates
           whole == createFibUpdatesForErasedRibEntry(n, e)
           last == IF Len(e.routes) = 1 THEN whole ELSE NoUpdates
           anc == getAncestorRoutes(rib, findParent(rib, n))
           stays == n \in DOMAIN d
<1>1. u = Then(Then(erased, next), last)
  BY DEF computeUpdatesForUnregistration
<1>2. e \in Entry /\ RoutesOnce(e) /\ e.parent = findParent(rib, n)
  BY DEF IsRib, IsTree
<1>3. RoutesAt(rib, n) = RoutesOf(e) /\ RoutesOf(e) = {e.routes[j] : j \in DOMAIN e.routes}
  BY DEF RoutesAt, RoutesOf, ToSet
<1>4. i \in DOMAIN e.routes /\ SameFaceAndOrigin(y, route)
  BY DEF hasRoute, findRoute
<1> HIDE DEF i
<1>5. y \in RoutesAt(rib, n) /\ y \in Route /\ ~y.cap /\ y.face = route.face
  <2>1. y \in RoutesAt(rib, n)
    BY <1>3, <1>4
  <2>2. y \in Route
    BY <2>1, RibFacts
  <2> QED
    BY <1>4, <2>1, <2>2 DEF PlainRib, PlainRoutes, SameFaceAndOrigin
<1>6. /\ temp \in Entry
      /\ temp.parent = e.parent
      /\ RoutesOf(temp) = {x \in RoutesOf(e) : ~SameFaceAndOrigin(x, route)}
      /\ Len(temp.routes) = Len(e.routes) - 1
  BY <1>2, ErasedEntry
<1>7. temp.nCapture = 0 /\ ~hasCapture(temp)
  <2>1. temp.nCapture = e.nCapture
    BY <1>2, <1>3, ErasedPlainEntry DEF PlainRib, PlainRoutes
  <2>2. e.nCapture = 0
    BY DEF PlainRib
  <2> QED
    BY <2>1, <2>2 DEF hasCapture
<1>8. ~off
  <2>1. e.nCapture = 0
    BY DEF PlainRib
  <2> QED
    BY <2>1 DEF hasCapture
<1>9. ~(Cardinality(OnFace(e, route.face)) > 1)
  <2>1. \A j \in OnFace(e, route.face) : j = i
    <3> SUFFICES ASSUME NEW j \in OnFace(e, route.face) PROVE j = i
      OBVIOUS
    <3>1. j \in DOMAIN e.routes /\ e.routes[j].face = y.face
      BY <1>5 DEF OnFace
    <3>2. e.routes[j] = y
      BY <1>3, <1>5, <3>1 DEF PlainRib, PlainRoutes
    <3> QED
      BY <1>2, <1>4, <3>1, <3>2, SameIsEquivalence DEF RoutesOnce
  <2> QED
    BY <1>2, <2>1, SecondRoute
<1>10. (temp.routes # <<>> <=> stays) /\ (Len(e.routes) = 1 <=> ~stays)
  <2>1. RoutesAt(d, n) = RoutesOf(temp) /\ (stays <=> RoutesAt(d, n) # {})
    BY <1>3, <1>6, EraseChanges
  <2>2. temp.routes = <<>> <=> RoutesOf(temp) = {}
    BY <1>6, EntryFacts
  <2>3. Len(e.routes) \in Nat /\ Len(temp.routes) \in Nat
    BY <1>2, <1>6, EntryFacts
  <2> HIDE DEF temp, e, stays
  <2>4. temp.routes = <<>> <=> Len(temp.routes) = 0
    <3>1. temp.routes \in Seq(Route)
      BY <1>6 DEF Entry
    <3> QED
      BY <3>1
  <2> QED
    BY <1>6, <2>1, <2>2, <2>3, <2>4
<1> DEFINE f == y.face
           below == IF y.ci THEN modifyChildrensInheritedRoutes(rib, children(rib, n), anc, {f})
                    ELSE NoUpdates
           only == AddInherited(n, Only(anc, {f}))
           uncovered == IF temp.routes # <<>> THEN only ELSE NoUpdates
<1>11. erased = Then(Then(Uninstall(n, f), NoUpdates), Then(below, uncovered))
  <2>1. getAncestorRoutes(rib, temp.parent) = anc
    BY <1>2, <1>6
  <2> HIDE DEF y, temp, off
  <2>2. LET a == getAncestorRoutes(rib, temp.parent)
            b == IF y.ci THEN modifyChildrensInheritedRoutes(rib, children(rib, n), a, {y.face})
                 ELSE NoUpdates
            c == IF temp.routes # <<>> THEN AddInherited(n, Only(a, {y.face})) ELSE NoUpdates
        IN  createFibUpdatesForErasedRoute(rib, n, temp, y, off)
              = Then(Then(Uninstall(n, y.face), NoUpdates), Then(b, c))
    BY <1>5, <1>7, <1>8, ErasedRouteMeans, ZenonT(60)
  <2> HIDE DEF anc
  <2> QED
    BY <2>1, <2>2
<1> HIDE DEF y, temp, stays, anc, erased, u, whole, only, below, e
<1>12. IsErasing(rib, n, anc, y, stays, u)
  <2>1. next = NoUpdates
    BY <1>9
  <2>2. uncovered = IF stays THEN only ELSE NoUpdates
    BY <1>10
  <2>3. last = IF stays THEN NoUpdates ELSE whole
    BY <1>10
  <2>4. u = Then(Then(Then(Then(Uninstall(n, f), NoUpdates), Then(below, uncovered)),
                           NoUpdates), last)
    BY <1>1, <1>11, <2>1
  <2> HIDE DEF uncovered, last, next
  <2> QED
    BY <2>2, <2>3, <2>4, Zenon DEF IsErasing, below, only, whole, e
<1> QED
  BY <1>4, <1>5, <1>12 DEF u, anc, stays

LEMMA LastCells ==
    ASSUME NEW n, NEW e, NEW m, NEW g
    PROVE  LET x == <<m, g>>
               u == createFibUpdatesForErasedRibEntry(n, e)
           IN  /\ x \notin DOMAIN u.inh
               /\ ~(m = n /\ g \in e.inherited) => Silent(u, x)
               /\ m = n /\ g \in e.inherited => Takes(u, x)
<1> DEFINE x == <<m, g>>
           u == createFibUpdatesForErasedRibEntry(n, e)
           D == {n} \X e.inherited
<1>1. /\ u.fib = [y \in D |-> RemoveNexthop]
      /\ u.inh = NoChange
      /\ DOMAIN NoChange = {}
  BY DEF createFibUpdatesForErasedRibEntry, NoUpdates, NoChange
<1>2. x \in D <=> m = n /\ g \in e.inherited
  OBVIOUS
<1> HIDE DEF u, x, D
<1> QED
  BY <1>1, <1>2 DEF Silent, Takes, RemoveNexthop, u, x

LEMMA ErasedRouteExact ==
    ASSUME NEW rib, IsRib(rib), IsTree(rib), PlainRib(rib), InheritsExactly(rib),
           NEW n \in DOMAIN rib, NEW route, NEW y \in RoutesAt(rib, n), SameFaceAndOrigin(y, route),
           NEW d, d = Erase(rib, n, route), NEW u,
           IsErasing(rib, n, getAncestorRoutes(rib, findParent(rib, n)), y, n \in DOMAIN d, u),
           NEW m, NEW f \in Face
    PROVE  ExactAt(rib, d, u, m, f)
<1> DEFINE anc == getAncestorRoutes(rib, findParent(rib, n))
           stays == n \in DOMAIN d
           lost == {y.face}
           sub == modifyChildrensInheritedRoutes(rib, children(rib, n), anc, lost)
           below == IF y.ci THEN sub ELSE NoUpdates
           only == AddInherited(n, Only(anc, {y.face}))
           uncovered == IF stays THEN only ELSE NoUpdates
           whole == createFibUpdatesForErasedRibEntry(n, rib[n])
           last == IF stays THEN NoUpdates ELSE whole
           gone == Uninstall(n, y.face)
           first == Then(gone, NoUpdates)
           second == Then(below, uncovered)
           x == <<m, f>>
<1>1. n \in Name /\ y \in Route /\ y.face \in Face /\ y.ci \in BOOLEAN
  <2>1. y \in Route
    BY RibFacts
  <2> QED
    BY <2>1 DEF IsRib, Route
<1>2. u = Then(Then(Then(first, second), NoUpdates), last)
  BY DEF IsErasing
<1>3. \A g \in Face : g \in DOMAIN anc <=> Above(rib, n, g)
  BY <1>1, AncestorRoutesAre
<1>4. /\ Changes(rib, d, n)
      /\ RoutesAt(d, n) = {r \in RoutesAt(rib, n) : ~SameFaceAndOrigin(r, route)}
      /\ stays <=> RoutesAt(d, n) # {}
  BY EraseChanges
<1>5. \A r \in RoutesAt(rib, n) : SameFaceAndOrigin(r, route) <=> r.face = y.face
  <2>1. \A r \in RoutesAt(rib, n) : r.face = y.face => r = y
    BY DEF PlainRib, PlainRoutes
  <2> QED
    BY <2>1 DEF SameFaceAndOrigin
<1>6. \A r : r \in RoutesAt(d, n) <=> r \in RoutesAt(rib, n) /\ r.face # y.face
  BY <1>4, <1>5
<1>7. /\ Owns(d, n, f) <=> f # y.face /\ Owns(rib, n, f)
      /\ Gives(d, n, f) <=> f # y.face /\ Gives(rib, n, f)
      /\ f = y.face => Owns(rib, n, f) /\ (Gives(rib, n, f) <=> y.ci)
  <2>1. f = y.face => (Gives(rib, n, f) <=> y.ci)
    BY DEF Gives, PlainRib, PlainRoutes
  <2>2. f = y.face => Owns(rib, n, f)
    BY DEF Owns
  <2> QED
    BY <1>6, <2>1, <2>2 DEF Owns, Gives
<1>8. /\ InheritedAt(rib, n) = rib[n].inherited
      /\ f \in rib[n].inherited <=> ~Owns(rib, n, f) /\ Above(rib, n, f)
      /\ Above(d, n, f) <=> Above(rib, n, f)
  BY <1>1, <1>4, ChangedAt DEF InheritedAt, InheritsExactly
<1>9. BelowCell(rib, n, DOMAIN anc, lost, sub, m, f)
  <2>1. Starts(rib, n, children(rib, n)) /\ children(rib, n) \subseteq DOMAIN rib
    BY ChildrenStart DEF children
  <2> HIDE DEF anc, lost
  <2> QED
    BY <1>1, <2>1, SubtreeCells
<1> HIDE DEF anc, sub, whole
<1>10. Silent(NoUpdates, x)
  BY PartCells
<1>11. SameCell(first, gone, x)
  BY <1>10, ThenCell
<1> DEFINE all == Then(first, second)
           b == Then(all, NoUpdates)
<1>12. SameCell(b, all, x)
  BY <1>10, ThenCell
<1>13. /\ Silent(last, x) => SameCell(u, all, x)
       /\ Silent(all, x) => SameCell(u, last, x)
  <2> HIDE DEF all, last
  <2>1. Silent(last, x) => SameCell(u, b, x)
    BY <1>2, ThenCell DEF all
  <2>2. Silent(all, x) => Silent(b, x)
    BY <1>12, SameCellKeeps
  <2> HIDE DEF b
  <2>3. u = Then(b, last)
    BY <1>2 DEF b, all
  <2>4. Silent(b, x) => SameCell(u, last, x)
    BY <2>3, ThenCell
  <2> QED
    BY <1>12, <2>1, <2>2, <2>4, SameCellChain
<1> HIDE DEF b, first
<1>14. /\ Silent(gone, x) => SameCell(all, second, x)
       /\ Silent(second, x) => SameCell(all, gone, x)
       /\ x \in DOMAIN second.fib /\ x \in DOMAIN second.inh => SameCell(all, second, x)
  <2>1. Silent(gone, x) => Silent(first, x)
    BY <1>11, SameCellKeeps
  <2> HIDE DEF second, gone
  <2> QED
    BY <1>11, <2>1, ThenCell, SameCellChain
<1> HIDE DEF all
<1>15. /\ Silent(below, x) => SameCell(second, uncovered, x)
       /\ Silent(uncovered, x) => SameCell(second, below, x)
  <2> HIDE DEF below, uncovered
  <2> QED
    BY ThenCell
<1> HIDE DEF second
<1>16. /\ Silent(u, x) => /\ ~Adds(u, x) /\ ~Takes(u, x) /\ ~Gains(u, x) /\ ~Loses(u, x)
                          /\ x \notin DOMAIN u.fib /\ x \notin DOMAIN u.inh
       /\ Adds(u, x) => ~Takes(u, x) /\ x \in DOMAIN u.fib
       /\ Takes(u, x) => x \in DOMAIN u.fib
       /\ x \notin DOMAIN u.inh => ~Gains(u, x) /\ ~Loses(u, x)
  BY DEF Silent, Adds, Takes, Gains, Loses
<1>17. \A g : g \in DOMAIN Only(anc, {y.face}) <=> g = y.face /\ g \in DOMAIN anc
  BY DEF Only
<1>18. /\ x # <<n, y.face>> => Silent(gone, x)
       /\ x = <<n, y.face>> => Takes(gone, x) /\ ~Adds(gone, x) /\ x \notin DOMAIN gone.inh
  <2> DEFINE c == 0
  <2>1. /\ x # <<n, y.face>> => Silent(gone, x)
        /\ x = <<n, y.face>> => /\ x \in DOMAIN gone.fib
                                /\ gone.fib[x] = RemoveNexthop
                                /\ x \notin DOMAIN gone.inh
    <3> HIDE DEF c
    <3> QED
      BY PartCells
  <2> HIDE DEF gone
  <2> QED
    BY <2>1 DEF Takes, Adds, RemoveNexthop
<1>19. /\ ~(m = n /\ f = y.face /\ Above(rib, n, f)) => Silent(only, x)
       /\ m = n /\ f = y.face /\ Above(rib, n, f) =>
            x \in DOMAIN only.fib /\ Adds(only, x) /\ x \in DOMAIN only.inh /\ Gains(only, x)
  BY <1>3, <1>17, InheritCells
<1>20. /\ x \notin DOMAIN whole.inh
       /\ ~(m = n /\ f \in rib[n].inherited) => Silent(whole, x)
       /\ m = n /\ f \in rib[n].inherited => Takes(whole, x)
  BY LastCells DEF whole
<1> HIDE DEF gone, only
<1>21. CASE m = n
  <2>1. Silent(below, x)
    BY <1>9, <1>10, <1>21, BelowSilent
  <2>2. SameCell(second, uncovered, x)
    BY <1>15, <2>1
  <2>3. \A r \in RoutesAt(d, m) : r.face = f =>
            f # y.face /\ r \in RoutesAt(rib, m) /\ r.face = f
    BY <1>6, <1>21
  <2>4. CASE stays
    <3>1. SameCell(u, all, x)
      BY <1>10, <1>13, <2>4
    <3>2. SameCell(second, only, x)
      BY <2>2, <2>4
    <3>3. CASE f = y.face /\ Above(rib, n, f)
      <4>1. x \in DOMAIN second.fib /\ x \in DOMAIN second.inh
        BY <1>19, <1>21, <3>2, <3>3 DEF SameCell
      <4>2. SameCell(u, only, x)
        BY <1>14, <3>1, <3>2, <4>1, SameCellChain
      <4>3. Adds(u, x) /\ Gains(u, x)
        BY <1>19, <1>21, <3>3, <4>2, SameCellKeeps
      <4> QED
        BY <1>7, <1>8, <1>16, <1>21, <2>3, <2>4, <3>3, <4>3 DEF ExactAt, Wanted
    <3>4. CASE f = y.face /\ ~Above(rib, n, f)
      <4>1. Silent(second, x)
        BY <1>19, <3>2, <3>4, SameCellKeeps
      <4>2. SameCell(u, gone, x)
        BY <1>14, <3>1, <4>1, SameCellChain
      <4>3. Takes(u, x) /\ ~Adds(u, x) /\ x \notin DOMAIN u.inh
        <5>1. Takes(gone, x) /\ ~Adds(gone, x) /\ x \notin DOMAIN gone.inh
          BY <1>18, <1>21, <3>4
        <5> QED
          BY <4>2, <5>1, SameCellKeeps DEF SameCell
      <4> QED
        BY <1>7, <1>8, <1>16, <1>21, <2>3, <2>4, <3>4, <4>3 DEF ExactAt, Wanted
    <3>5. CASE f # y.face
      <4>1. Silent(second, x) /\ Silent(gone, x)
        BY <1>18, <1>19, <3>2, <3>5, SameCellKeeps
      <4>2. Silent(u, x)
        BY <1>14, <3>1, <4>1, SameCellKeeps
      <4> QED
        BY <1>7, <1>8, <1>16, <1>21, <2>3, <2>4, <3>5, <4>2 DEF ExactAt, Wanted
    <3> QED
      BY <3>3, <3>4, <3>5
  <2>5. CASE ~stays
    <3>1. Silent(second, x)
      BY <1>10, <2>2, <2>5, SameCellKeeps
    <3>2. SameCell(all, gone, x)
      BY <1>14, <3>1
    <3>3. RoutesAt(d, m) = {} /\ ~Wanted(d, m, f)
      BY <1>4, <1>21, <2>5 DEF Wanted
    <3>4. CASE f = y.face
      <4>1. Silent(last, x)
        BY <1>7, <1>8, <1>20, <2>5, <3>4
      <4>2. SameCell(u, gone, x)
        BY <1>13, <3>2, <4>1, SameCellChain
      <4>3. Takes(u, x) /\ ~Adds(u, x) /\ x \notin DOMAIN u.inh
        <5>1. Takes(gone, x) /\ ~Adds(gone, x) /\ x \notin DOMAIN gone.inh
          BY <1>18, <1>21, <3>4
        <5> QED
          BY <4>2, <5>1, SameCellKeeps DEF SameCell
      <4> QED
        BY <1>16, <1>21, <2>5, <3>3, <4>3 DEF ExactAt
    <3>5. CASE f # y.face
      <4>1. Silent(all, x)
        BY <1>18, <3>2, <3>5, SameCellKeeps
      <4>2. SameCell(u, whole, x)
        BY <1>13, <2>5, <4>1
      <4>3. x \notin DOMAIN u.inh /\ (f \in rib[n].inherited => Takes(u, x))
            /\ (f \notin rib[n].inherited => Silent(u, x))
        <5>1. x \notin DOMAIN u.inh
          BY <1>20, <4>2 DEF SameCell
        <5> QED
          BY <1>20, <1>21, <4>2, <5>1, SameCellKeeps
      <4>4. ~Owns(rib, n, f)
        BY <1>6, <1>21, <3>3, <3>5 DEF Owns
      <4>5. f \notin rib[n].inherited => ~Wanted(rib, m, f)
        BY <1>8, <1>21, <4>4 DEF Wanted
      <4>6. Takes(u, x) => ~Adds(u, x)
        BY DEF Adds, Takes
      <4> QED
        BY <1>16, <1>21, <2>5, <3>3, <4>3, <4>5, <4>6 DEF ExactAt
    <3> QED
      BY <3>4, <3>5
  <2> QED
    BY <2>4, <2>5
<1>22. CASE m # n
  <2>1. Silent(gone, x) /\ Silent(uncovered, x) /\ Silent(last, x)
    BY <1>10, <1>18, <1>19, <1>20, <1>22
  <2>2. SameCell(u, below, x)
    BY <1>13, <1>14, <1>15, <2>1, SameCellChain
  <2>3. CASE y.ci
    <3>1. BelowCell(rib, n, DOMAIN anc, lost, u, m, f)
      BY <1>9, <2>2, <2>3, BelowCellSame
    <3>2. Fits(rib, d, n, DOMAIN anc, lost, f)
      BY <1>3, <1>7 DEF Fits
    <3> HIDE DEF lost
    <3> QED
      BY <1>1, <1>4, <1>22, <3>1, <3>2, OthersExact
  <2>4. CASE ~y.ci
    <3>1. Silent(u, x)
      BY <1>10, <2>2, <2>4, SameCellKeeps
    <3>2. Gives(d, n, f) <=> Gives(rib, n, f)
      BY <1>7, <2>4
    <3> QED
      BY <1>1, <1>4, <1>22, <3>1, <3>2, QuietExact
  <2> QED
    BY <2>3, <2>4
<1> QED
  BY <1>21, <1>22

LEMMA UnregistrationExact ==
    ASSUME NEW rib, IsRib(rib), IsTree(rib), PlainRib(rib), InheritsExactly(rib), NEW n \in Name,
           NEW route, NEW m, NEW f \in Face
    PROVE  ExactAt(rib, Erase(rib, n, route), computeUpdatesForUnregistration(rib, n, route), m, f)
<1> DEFINE u == computeUpdatesForUnregistration(rib, n, route)
           d == Erase(rib, n, route)
           anc == getAncestorRoutes(rib, findParent(rib, n))
           stays == n \in DOMAIN d
<1>1. CASE n \notin DOMAIN rib \/ ~hasRoute(rib[n], route)
  <2>1. u = NoUpdates /\ d = rib
    BY <1>1 DEF computeUpdatesForUnregistration, Erase
  <2>2. Silent(NoUpdates, <<m, f>>)
    BY PartCells
  <2>3. m \in DOMAIN rib => (f \in InheritedAt(rib, m) <=> ~Owns(rib, m, f) /\ Above(rib, m, f))
    BY DEF InheritsExactly, InheritedAt
  <2>4. ExactAt(rib, rib, NoUpdates, m, f)
    BY <2>2, <2>3 DEF ExactAt, Silent, Adds, Takes, Gains, Loses
  <2> QED
    BY <2>1, <2>4
<1>2. CASE n \in DOMAIN rib /\ hasRoute(rib[n], route)
  <2>1. PICK y \in RoutesAt(rib, n) : SameFaceAndOrigin(y, route)
                                      /\ IsErasing(rib, n, anc, y, stays, u)
    BY <1>2, UnregistrationMeans, Zenon
  <2> HIDE DEF u, d
  <2> QED
    BY <1>2, <2>1, ErasedRouteExact DEF u, d
<1> QED
  BY <1>1, <1>2

LEMMA PlainBatch ==
    ASSUME NEW rib, NEW b, IsPlain(rib, b), b.action = "register"
    PROVE  PlainFor(rib, b.name, b.route)
BY DEF IsPlain, PlainFor

\* The updates of a plain batch are exact everywhere.
LEMMA ComputedExact ==
    ASSUME NEW rib, IsRib(rib), IsTree(rib), PlainRib(rib), InheritsExactly(rib), NEW b \in Batch,
           IsPlain(rib, b)
    PROVE  \A m : \A f \in Face : ExactAt(rib, RibWith(rib, b), computeUpdates(rib, b), m, f)
<1> SUFFICES ASSUME NEW m, NEW f \in Face
             PROVE  ExactAt(rib, RibWith(rib, b), computeUpdates(rib, b), m, f)
  OBVIOUS
<1>1. b.name \in Name /\ (b.action = "register" => b.route \in Route)
  BY BatchFacts
<1>2. CASE b.action = "register"
  <2>1. PlainFor(rib, b.name, b.route)
    BY <1>2, PlainBatch
  <2> QED
    BY <1>1, <1>2, <2>1, RegistrationExact DEF RibWith, computeUpdates
<1>3. CASE b.action # "register"
  BY <1>1, <1>3, UnregistrationExact DEF RibWith, computeUpdates
<1> QED
  BY <1>2, <1>3

(***************************************************************************)
(* A plain batch keeps the RIB plain, and what each entry inherits exact.  *)
(***************************************************************************)
NoCounts(rib) == \A n \in DOMAIN rib : rib[n].nCapture = 0

LEMMA CountsInserted ==
    ASSUME NEW rib, IsRib(rib), NoCounts(rib), NEW n \in Name, NEW route \in Route, ~route.cap
    PROVE  NoCounts(Insert(rib, n, route))
<1> DEFINE D == DOMAIN rib
           d == Insert(rib, n, route)
<1>1. ASSUME NEW e \in Entry, e.nCapture = 0
      PROVE  insertRoute(e, route).nCapture = 0 /\ InsertIntoEntry(e, route).nCapture = 0
  BY <1>1 DEF insertRoute, InsertIntoEntry, Entry
<1>2. CASE n \in D
  <2> DEFINE e == InsertIntoEntry(rib[n], route)
  <2>1. d = [rib EXCEPT ![n] = e]
    BY <1>2 DEF Insert
  <2>2. e.nCapture = 0
    BY <1>1, <1>2 DEF IsRib, NoCounts
  <2> HIDE DEF e, d
  <2>3. NoCounts(d)
    BY <2>1, <2>2 DEF NoCounts
  <2> QED
    BY <2>3 DEF d
<1>3. CASE n \notin D
  <2> DEFINE parent == findParent(rib, n)
             entry == [insertRoute(NewEntry, route) EXCEPT !.parent = parent]
             adopted == {m \in Below(rib, n) : rib[m].parent = parent}
             rest == [m \in D |-> IF m \in adopted THEN [rib[m] EXCEPT !.parent = {n}]
                                                   ELSE rib[m]]
  <2>1. d = Over(Single(n, entry), rest)
    BY <1>3 DEF Insert
  <2>2. entry.nCapture = 0
    <3> HIDE DEF parent
    <3> QED
      BY DEF insertRoute, NewEntry
  <2>3. ASSUME NEW m \in D PROVE rest[m].nCapture = 0
    <3>1. rib[m] \in Entry /\ rib[m].nCapture = 0
      BY DEF IsRib, NoCounts
    <3>2. rest[m] = IF m \in adopted THEN [rib[m] EXCEPT !.parent = {n}] ELSE rib[m]
      OBVIOUS
    <3> HIDE DEF rest, adopted
    <3> QED
      BY <3>1, <3>2 DEF Entry
  <2>4. DOMAIN rest = D
    OBVIOUS
  <2> HIDE DEF entry, rest, adopted, d
  <2>5. NoCounts(d)
    BY <2>1, <2>2, <2>3, <2>4 DEF Over, Single, NoCounts
  <2> QED
    BY <2>5 DEF d
<1> QED
  BY <1>2, <1>3

LEMMA CountsErased ==
    ASSUME NEW rib, IsRib(rib), PlainRib(rib), NEW n, NEW route
    PROVE  NoCounts(Erase(rib, n, route))
<1> DEFINE d == Erase(rib, n, route)
           e == eraseRoute(rib[n], route)
           others == DOMAIN rib \ {n}
           rest == [m \in others |-> IF rib[m].parent = {n} THEN [rib[m] EXCEPT !.parent = e.parent]
                                                            ELSE rib[m]]
<1>1. NoCounts(rib)
  BY DEF PlainRib, NoCounts
<1>2. CASE n \notin DOMAIN rib \/ ~hasRoute(rib[n], route)
  BY <1>1, <1>2 DEF Erase
<1>3. CASE n \in DOMAIN rib /\ hasRoute(rib[n], route)
  <2>1. d = IF e.routes # <<>> THEN [rib EXCEPT ![n] = e] ELSE rest
    BY <1>3 DEF Erase
  <2>2. e.nCapture = 0
    <3>1. rib[n] \in Entry /\ \A y \in RoutesOf(rib[n]) : ~y.cap
      BY <1>3 DEF IsRib, PlainRib, PlainRoutes, RoutesAt
    <3> QED
      BY <1>1, <1>3, <3>1, ErasedPlainEntry DEF NoCounts
  <2> HIDE DEF e
  <2>3. ASSUME NEW m \in others PROVE rest[m].nCapture = 0
    <3>1. rib[m] \in Entry /\ rib[m].nCapture = 0
      BY <1>1 DEF IsRib, NoCounts
    <3>2. rest[m] = IF rib[m].parent = {n} THEN [rib[m] EXCEPT !.parent = e.parent] ELSE rib[m]
      OBVIOUS
    <3> HIDE DEF rest
    <3> QED
      BY <3>1, <3>2 DEF Entry
  <2>4. DOMAIN rest = others
    OBVIOUS
  <2> HIDE DEF rest, others, d
  <2>5. NoCounts(d)
    BY <1>1, <2>1, <2>2, <2>3, <2>4 DEF NoCounts
  <2> QED
    BY <2>5 DEF d
<1> QED
  BY <1>2, <1>3

LEMMA CountsInherited ==
    ASSUME NEW t, IsService(t), RibOK(t), NoCounts(t.rib)
    PROVE  NoCounts(modifyInheritedRoutes(t).rib)
<1> DEFINE v == modifyInheritedRoutes(t)
           inh == t.inhUpdates
           names == {x[1] : x \in DOMAIN inh}
           gained(n) == {f \in Face : <<n, f>> \in DOMAIN inh /\ inh[<<n, f>>]}
           lost(n) == {f \in Face : <<n, f>> \in DOMAIN inh /\ ~inh[<<n, f>>]}
           entry(n) == [t.rib[n] EXCEPT !.inherited = (@ \ lost(n)) \cup gained(n)]
           d == [n \in DOMAIN t.rib |-> entry(n)]
<1>1. v = IF names \subseteq DOMAIN t.rib THEN [t EXCEPT !.rib = d]
                                          ELSE [t EXCEPT !.running = FALSE]
  BY DEF modifyInheritedRoutes
<1>2. ASSUME NEW n \in DOMAIN t.rib PROVE entry(n).nCapture = 0
  <2>1. t.rib[n] \in Entry /\ t.rib[n].nCapture = 0
    BY DEF RibOK, IsRib, NoCounts
  <2> HIDE DEF gained, lost
  <2> QED
    BY <2>1 DEF Entry
<1>3. NoCounts(d)
  <2> HIDE DEF entry
  <2> QED
    BY <1>2 DEF NoCounts
<1> HIDE DEF d, v, names
<1>4. v.rib = d \/ v.rib = t.rib
  BY <1>1 DEF IsService
<1> QED
  BY <1>3, <1>4 DEF v

LEMMA PlainMeansOne ==
    ASSUME NEW rib, IsRib(rib), NEW n \in Name, NEW route, PlainFor(rib, n, route)
    PROVE  OneForFace(rib, n, route)
<1> SUFFICES ASSUME NEW y \in RoutesAt(rib, n), y.face = route.face
             PROVE  SameFaceAndOrigin(y, route)
  BY DEF OneForFace
<1>1. n \in DOMAIN rib
  BY DEF RoutesAt
<1> DEFINE e == rib[n]
<1>2. e \in Entry /\ OnFace(e, route.face) \subseteq findRoute(e, route)
  BY <1>1 DEF IsRib, PlainFor
<1>3. y \in RoutesOf(e)
  BY <1>1 DEF RoutesAt
<1> HIDE DEF e
<1>4. PICK i \in DOMAIN e.routes : e.routes[i] = y
  BY <1>3 DEF RoutesOf, ToSet
<1>5. i \in OnFace(e, route.face)
  BY <1>4 DEF OnFace
<1> QED
  BY <1>2, <1>4, <1>5 DEF findRoute

LEMMA PlainWith ==
    ASSUME NEW rib, IsRib(rib), IsTree(rib), PlainRib(rib), NEW b \in Batch, IsPlain(rib, b)
    PROVE  PlainRib(RibWith(rib, b))
<1> DEFINE n == b.name
           route == b.route
           d == RibWith(rib, b)
<1>1. n \in Name /\ (b.action = "register" => route \in Route)
  BY BatchFacts
<1>2. PlainRoutes(rib) /\ NoCounts(rib)
  BY DEF PlainRib, NoCounts
<1>3. CASE b.action = "register"
  <2>1. PlainFor(rib, n, route) /\ route \in Route /\ d = Insert(rib, n, route)
    BY <1>1, <1>3, PlainBatch DEF RibWith
  <2>2. OneForFace(rib, n, route) /\ ~route.cap
    BY <1>1, <2>1, PlainMeansOne DEF PlainFor
  <2> HIDE DEF d, n, route
  <2>3. /\ Changes(rib, d, n)
        /\ RoutesAt(d, n) = {x \in RoutesAt(rib, n) : ~SameFaceAndOrigin(x, route)} \cup {route}
    BY <1>1, <2>1, InsertChanges
  <2>4. PlainRoutes(d)
    BY <1>2, <2>2, <2>3 DEF PlainRoutes, Changes, OneForFace
  <2>5. NoCounts(d)
    BY <1>1, <1>2, <2>1, <2>2, CountsInserted
  <2> QED
    BY <2>4, <2>5 DEF PlainRib, NoCounts, d
<1>4. CASE b.action # "register"
  <2>1. d = Erase(rib, n, route)
    BY <1>4 DEF RibWith
  <2> HIDE DEF d, n, route
  <2>3. /\ Changes(rib, d, n)
        /\ RoutesAt(d, n) = {x \in RoutesAt(rib, n) : ~SameFaceAndOrigin(x, route)}
    BY <1>1, <2>1, EraseChanges
  <2>4. PlainRoutes(d)
    <3>1. \A m : RoutesAt(d, m) \subseteq RoutesAt(rib, m)
      BY <2>3 DEF Changes
    <3> QED
      BY <1>2, <3>1 DEF PlainRoutes
  <2>5. NoCounts(d)
    BY <1>1, <1>2, <2>1, CountsErased
  <2> QED
    BY <2>4, <2>5 DEF PlainRib, NoCounts, d
<1> QED
  BY <1>3, <1>4

\* Two RIBs with the same routes want the same next hops.
LEMMA SameRoutesWant ==
    ASSUME NEW rib, NEW d, DOMAIN rib = DOMAIN d, \A m : RoutesAt(rib, m) = RoutesAt(d, m)
    PROVE  \A m, f : /\ Owns(rib, m, f) <=> Owns(d, m, f)
                     /\ Above(rib, m, f) <=> Above(d, m, f)
                     /\ Wanted(rib, m, f) <=> Wanted(d, m, f)
BY DEF Owns, Above, Gives, Wanted

\* The RIB once a plain batch is applied.
LEMMA SuccessExact ==
    ASSUME NEW t, ServiceOK(t), PlainRib(t.rib), InheritsExactly(t.rib), NEW b \in Batch,
           IsPlain(t.rib, b), t.inhUpdates = computeUpdates(t.rib, b).inh,
           NEW v, v = onFibUpdateSuccess(t, b), v.running
    PROVE  /\ PlainRib(v.rib)
           /\ InheritsExactly(v.rib)
           /\ DOMAIN v.rib = DOMAIN RibWith(t.rib, b)
           /\ \A m : RoutesAt(v.rib, m) = RoutesAt(RibWith(t.rib, b), m)
<1> DEFINE a == Applied(t, b)
           i == modifyInheritedRoutes(a)
           f == [i EXCEPT !.busy = FALSE]
           w == onFibUpdateSuccess(t, b)
           d == RibWith(t.rib, b)
           u == computeUpdates(t.rib, b)
<1>0. IsService(t) /\ RibOK(t) /\ IsRib(t.rib) /\ IsTree(t.rib)
  BY DEF ServiceOK, RibOK
<1>1. w = Tell(f, b.id, "ok")
  BY DEF onFibUpdateSuccess, Applied
<1>2. /\ IsService(a)
      /\ RibOK(a)
      /\ SameBatch(t, a)
      /\ a.rib = IF b.action = "register" THEN Insert(t.rib, b.name, b.route)
                                          ELSE Erase(t.rib, b.name, b.route)
      /\ \A m : InheritedAt(a.rib, m) = IF m \in DOMAIN a.rib THEN InheritedAt(t.rib, m) ELSE {}
  BY <1>0, AppliedEffect
<1>3. a.rib = d /\ a.inhUpdates = u.inh
  BY <1>2 DEF RibWith, SameBatch
<1>4. PlainRib(d)
  BY <1>0, PlainWith
<1>5. \A m : \A g \in Face : ExactAt(t.rib, d, u, m, g)
  BY <1>0, ComputedExact
<1> HIDE DEF a, d, u
<1>6. NoCounts(a.rib)
  BY <1>3, <1>4 DEF PlainRib, NoCounts
<1>7. /\ IsService(i)
      /\ DOMAIN i.rib = DOMAIN a.rib
      /\ \A m : RoutesAt(i.rib, m) = RoutesAt(a.rib, m)
      /\ i.running => \A m \in DOMAIN a.rib : \A g \in Face :
           LET x == <<m, g>>
               gains == x \in DOMAIN a.inhUpdates /\ a.inhUpdates[x]
               loses == x \in DOMAIN a.inhUpdates /\ ~a.inhUpdates[x]
           IN  g \in InheritedAt(i.rib, m) <=> (g \in InheritedAt(a.rib, m) /\ ~loses) \/ gains
  BY <1>2, InheritEffect
<1>8. NoCounts(i.rib)
  BY <1>2, <1>6, CountsInherited
<1> HIDE DEF i
<1>9. IsService(f) /\ f.rib = i.rib /\ f.running = i.running
  BY <1>7 DEF IsService
<1> HIDE DEF f
<1>10. /\ IsService(w)
       /\ SameBatch(f, w)
       /\ w.rib = f.rib
       /\ w.faceMap = f.faceMap
       /\ w.busy = f.busy
       /\ w.running = f.running
       /\ w.timers = f.timers
  <2> DEFINE id == b.id
             r == "ok"
  <2>1. w = Tell(f, id, r)
    BY <1>1
  <2> HIDE DEF id, r, w
  <2> QED
    BY <1>9, <2>1, TellEffect
<1> HIDE DEF w
<1>11. v.rib = i.rib /\ i.running
  BY <1>9, <1>10 DEF w
<1>12. DOMAIN v.rib = DOMAIN d /\ \A m : RoutesAt(v.rib, m) = RoutesAt(d, m)
  BY <1>3, <1>7, <1>11
<1>13. PlainRib(v.rib)
  <2>1. PlainRoutes(d)
    BY <1>4 DEF PlainRib
  <2>2. PlainRoutes(v.rib)
    BY <1>12, <2>1 DEF PlainRoutes
  <2> QED
    BY <1>8, <1>11, <2>2 DEF PlainRib, NoCounts
<1>14. ASSUME NEW m \in DOMAIN v.rib, NEW g \in Face
       PROVE  g \in v.rib[m].inherited <=> ~Owns(v.rib, m, g) /\ Above(v.rib, m, g)
  <2> DEFINE x == <<m, g>>
  <2>0. m \in DOMAIN a.rib
    BY <1>3, <1>12
  <2>1. g \in InheritedAt(i.rib, m) <=> (g \in InheritedAt(a.rib, m) /\ ~Loses(u, x)) \/ Gains(u, x)
    BY <1>3, <1>7, <1>11, <2>0, Zenon DEF Loses, Gains
  <2>2. InheritedAt(a.rib, m) = InheritedAt(t.rib, m)
    BY <1>2, <1>3, <1>12
  <2>3. (Gains(u, x) \/ (g \in InheritedAt(t.rib, m) /\ ~Loses(u, x)))
          <=> ~Owns(d, m, g) /\ Above(d, m, g)
    BY <1>5, <1>12 DEF ExactAt
  <2>4. (Owns(v.rib, m, g) <=> Owns(d, m, g)) /\ (Above(v.rib, m, g) <=> Above(d, m, g))
    BY <1>12, SameRoutesWant
  <2>5. g \in v.rib[m].inherited <=> g \in InheritedAt(i.rib, m)
    BY <1>11 DEF InheritedAt
  <2> HIDE DEF x
  <2> QED
    BY <2>1, <2>2, <2>3, <2>4, <2>5
<1> QED
  BY <1>12, <1>13, <1>14 DEF InheritsExactly, d

(***************************************************************************)
(* The FIB and the RIB. As long as nothing odd happened the FIB, on faces  *)
(* that are not gone, has what the RIB wants between two batches, and      *)
(* while one is under way what the RIB will want, but for the next hops    *)
(* with an update pending.                                                 *)
(***************************************************************************)
Clean(t) == t.running /\ t.odd = {}

\* The FIB fb has next hop x if the RIB wants it, with the cost of the entry's own route.
HopIn(rib, fb, x) ==
    /\ x \in DOMAIN fb <=> Wanted(rib, x[1], x[2])
    /\ \A r \in RoutesAt(rib, x[1]) : r.face = x[2] => x \in DOMAIN fb /\ fb[x] = r.cost

Follows(rib, fb, fs) == \A x \in NextHops : fs[x[2]] # "down" => HopIn(rib, fb, x)

IsRight(rib, u) ==
    /\ u.action = "add" <=> Wanted(rib, u.name, u.face)
    /\ \A r \in RoutesAt(rib, u.name) : r.face = u.face => u.cost = r.cost

\* Of batch b under way: the FIB already has the other next hops, the updates bring what
\* is missing, no next hop of another face is added before the face exists, and until
\* the updates for the face of the batch are done the others are as they were.
FollowFor(t, b, fb, fs) ==
    LET d == RibWith(t.rib, b)
    IN  /\ IsPlain(t.rib, b)
        /\ t.inhUpdates = computeUpdates(t.rib, b).inh
        /\ \A x \in NextHops :
             fs[x[2]] # "down" /\ (\A u \in Updates(t) : HopOf(u) # x) => HopIn(d, fb, x)
        /\ \A u \in Updates(t) : IsRight(d, u)
        /\ \A u \in t.otherUpdates : u.action = "add" => fs[u.face] # "new"
        /\ t.batchUpdates # {} =>
             \A x \in NextHops : fs[x[2]] # "down" /\ x[2] # t.batchFace => HopIn(t.rib, fb, x)
        /\ \A x \in NextHops : fs[x[2]] = "new" => ~Wanted(t.rib, x[1], x[2])

FollowOK(t, B, fb, fs) ==
    /\ PlainRib(t.rib)
    /\ InheritsExactly(t.rib)
    /\ B = {} => Follows(t.rib, fb, fs)
    /\ \A b \in B : FollowFor(t, b, fb, fs)

\* A next hop on a face that does not exist yet is not wanted.
LEMMA NewFaceUnwanted ==
    ASSUME NEW rib, NEW fb, NEW fs, FibOK(fb, fs), Follows(rib, fb, fs), NEW x \in NextHops,
           fs[x[2]] = "new"
    PROVE  ~Wanted(rib, x[1], x[2])
BY DEF FibOK, Follows, HopIn

\* The routes of the other faces are there before the batch.
LEMMA OtherFacesWanted ==
    ASSUME NEW rib, IsRib(rib), IsTree(rib), NEW b \in Batch, NEW m, NEW f \in Face,
           Wanted(RibWith(rib, b), m, f), f # b.route.face
    PROVE  \E k \in Name : Wanted(rib, k, f)
<1> DEFINE d == RibWith(rib, b)
           n == b.name
           route == b.route
<1>1. n \in Name /\ (b.action = "register" => route \in Route)
  BY BatchFacts
<1>2. \A k : \A r \in RoutesAt(d, k) : r \in RoutesAt(rib, k) \/ r = route
  <2>1. CASE b.action = "register"
    <3>1. d = Insert(rib, n, route) /\ route \in Route
      BY <1>1, <2>1 DEF RibWith
    <3> HIDE DEF d, n, route
    <3>2. /\ Changes(rib, d, n)
          /\ RoutesAt(d, n) = {x \in RoutesAt(rib, n) : ~SameFaceAndOrigin(x, route)} \cup {route}
      BY <1>1, <3>1, InsertChanges
    <3> QED
      BY <3>2 DEF Changes
  <2>2. CASE b.action # "register"
    <3>1. d = Erase(rib, n, route)
      BY <2>2 DEF RibWith
    <3> HIDE DEF d, n, route
    <3>2. /\ Changes(rib, d, n)
          /\ RoutesAt(d, n) = {x \in RoutesAt(rib, n) : ~SameFaceAndOrigin(x, route)}
      BY <1>1, <3>1, EraseChanges
    <3> QED
      BY <3>2 DEF Changes
  <2> QED
    BY <2>1, <2>2
<1> HIDE DEF d
<1>3. \E k : Owns(d, k, f)
  BY DEF Wanted, Above, Gives, Owns, d
<1>4. \E k : Owns(rib, k, f)
  BY <1>2, <1>3 DEF Owns
<1>5. PICK k : Owns(rib, k, f)
  BY <1>4
<1>6. k \in DOMAIN rib
  BY <1>5 DEF Owns, RoutesAt
<1> QED
  BY <1>5, <1>6 DEF Wanted, IsRib

LEMMA BegunCosts ==
    ASSUME NEW v, ServiceOK(v), v.queue # <<>>
    PROVE  LET b == Head(v.queue)
               u == computeUpdates(v.rib, b)
           IN  \A y \in Updates(Begun(v)) :
                  /\ HopOf(y) \in DOMAIN u.fib
                  /\ y.action = u.fib[HopOf(y)].action
                  /\ y.cost = u.fib[HopOf(y)].cost
<1> DEFINE b == Head(v.queue)
           u == computeUpdates(v.rib, b)
           w == Begun(v)
           updates == {UpdateFor(u, x) : x \in DOMAIN u.fib}
<1>1. /\ b \in Batch
      /\ w.batchUpdates = {y \in updates : y.face = b.route.face /\ b.action # "remove-face"}
      /\ w.otherUpdates = {y \in updates : y.face # b.route.face}
  BY BegunEffect
<1>2. DOMAIN u.fib \subseteq NextHops
  <2>1. IsRib(v.rib) /\ IsTree(v.rib)
    BY DEF ServiceOK, RibOK
  <2> DEFINE own == OwnHops(RibWith(v.rib, b))
  <2>2. Balanced(u, own)
    <3> HIDE DEF b
    <3> QED
      BY <1>1, <2>1, ComputedBalanced
  <2> HIDE DEF own, u
  <2> QED
    BY <2>2 DEF Balanced
<1> HIDE DEF u, b, w
<1>3. ASSUME NEW y \in updates
      PROVE  /\ HopOf(y) \in DOMAIN u.fib
             /\ y.action = u.fib[HopOf(y)].action
             /\ y.cost = u.fib[HopOf(y)].cost
  <2>1. PICK x \in DOMAIN u.fib : y = UpdateFor(u, x)
    OBVIOUS
  <2>2. x = <<x[1], x[2]>>
    BY <1>2 DEF NextHops
  <2>3. HopOf(y) = x /\ y.action = u.fib[x].action /\ y.cost = u.fib[x].cost
    BY <2>1, <2>2 DEF HopOf, UpdateFor
  <2> QED
    BY <2>3
<1>4. \A y \in Updates(w) : y \in updates
  BY <1>1 DEF Updates
<1> HIDE DEF updates
<1> QED
  BY <1>3, <1>4 DEF u, w, b

LEMMA BegunFollow ==
    ASSUME NEW v, ServiceOK(v), v.queue # <<>>, NEW fb, NEW fs, FibOK(fb, fs),
           NEW B, B = {}, FollowOK(v, B, fb, fs), IsPlain(v.rib, Head(v.queue)),
           HopsOK(Begun(v), {Head(v.queue)}, fb, fs)
    PROVE  FollowOK(Begun(v), {Head(v.queue)}, fb, fs)
<1> DEFINE b == Head(v.queue)
           w == Begun(v)
           u == computeUpdates(v.rib, b)
           d == RibWith(v.rib, b)
<1>1. /\ b \in Batch
      /\ w.rib = v.rib
      /\ w.batchFace = b.route.face
      /\ w.inhUpdates = u.inh
  BY BegunEffect
<1>2. /\ ServiceOK(w)
      /\ \A x \in DOMAIN u.fib :
           /\ x[2] # b.route.face => \E y \in w.otherUpdates :
                y.name = x[1] /\ y.face = x[2] /\ y.action = u.fib[x].action
           /\ x[2] = b.route.face /\ b.action # "remove-face" => \E y \in w.batchUpdates :
                y.name = x[1] /\ y.face = x[2] /\ y.action = u.fib[x].action
  BY BegunUpdates
<1>3. \A y \in Updates(w) : /\ HopOf(y) \in DOMAIN u.fib
                            /\ y.action = u.fib[HopOf(y)].action
                            /\ y.cost = u.fib[HopOf(y)].cost
  BY BegunCosts
<1>4. IsRib(v.rib) /\ IsTree(v.rib) /\ PlainRib(v.rib) /\ InheritsExactly(v.rib)
        /\ Follows(v.rib, fb, fs) /\ IsPlain(v.rib, b)
  BY DEF ServiceOK, RibOK, FollowOK
<1>5. b.action = "remove-face" => fs[b.route.face] = "down"
  BY DEF HopsOK
<1>6. \A m : \A f \in Face : ExactAt(v.rib, d, u, m, f)
  <2> HIDE DEF b
  <2> QED
    BY <1>1, <1>4, ComputedExact
<1>7. \A y \in Updates(w) : IsUpdate(y) /\ (y \in w.otherUpdates => y.face # b.route.face)
  BY <1>1, <1>2 DEF ServiceOK, UpdatesOK, Updates
<1> HIDE DEF b, w, u, d
<1>8. ASSUME NEW x \in NextHops, fs[x[2]] # "down", \A y \in Updates(w) : HopOf(y) # x
      PROVE  HopIn(d, fb, x)
  <2>1. x = <<x[1], x[2]>> /\ x[2] \in Face
    BY DEF NextHops
  <2>2. x \notin DOMAIN u.fib
    <3> SUFFICES ASSUME x \in DOMAIN u.fib PROVE FALSE
      OBVIOUS
    <3>1. x[2] # b.route.face \/ b.action # "remove-face"
      BY <1>5, <1>8
    <3>2. \E y \in Updates(w) : y.name = x[1] /\ y.face = x[2]
      BY <1>2, <3>1 DEF Updates
    <3> QED
      BY <1>8, <2>1, <3>2 DEF HopOf
  <2>3. ExactAt(v.rib, d, u, x[1], x[2])
    BY <1>6, <2>1
  <2>4. /\ Wanted(d, x[1], x[2]) <=> Wanted(v.rib, x[1], x[2])
        /\ \A r \in RoutesAt(d, x[1]) : r.face = x[2] =>
              \E q \in RoutesAt(v.rib, x[1]) : q.face = x[2] /\ q.cost = r.cost
    BY <2>1, <2>2, <2>3 DEF ExactAt
  <2>5. HopIn(v.rib, fb, x)
    BY <1>4, <1>8 DEF Follows
  <2> QED
    BY <2>4, <2>5 DEF HopIn
<1>9. ASSUME NEW y \in Updates(w) PROVE IsRight(d, y)
  <2> DEFINE m == y.name
             f == y.face
             x == <<m, f>>
  <2>1. f \in Face /\ y.action \in {"add", "remove"} /\ x = HopOf(y)
    BY <1>7 DEF IsUpdate, HopOf
  <2>2. ExactAt(v.rib, d, u, m, f)
    BY <1>6, <2>1
  <2>3. x \in DOMAIN u.fib /\ y.action = u.fib[x].action /\ y.cost = u.fib[x].cost
    BY <1>3, <2>1
  <2>4. /\ u.fib[x].action = "add" => Wanted(d, m, f)
        /\ u.fib[x].action = "remove" => ~Wanted(d, m, f)
        /\ \A r \in RoutesAt(d, m) : r.face = f => u.fib[x].cost = r.cost
    <3> HIDE DEF m, f
    <3> QED
      BY <2>2, <2>3 DEF ExactAt, Adds, Takes
  <2> HIDE DEF x
  <2> QED
    BY <2>1, <2>3, <2>4 DEF IsRight
<1>10. \A x \in NextHops : fs[x[2]] = "new" => ~Wanted(v.rib, x[1], x[2])
  BY <1>4, NewFaceUnwanted
<1>11. ASSUME NEW y \in w.otherUpdates, y.action = "add", fs[y.face] = "new" PROVE FALSE
  <2>1. y \in Updates(w)
    BY DEF Updates
  <2> DEFINE m == y.name
             f == y.face
  <2>2. f # b.route.face /\ f \in Face /\ Wanted(d, m, f)
    BY <1>7, <1>9, <1>11, <2>1 DEF IsUpdate, IsRight
  <2> HIDE DEF m, f
  <2>3. \E k \in Name : Wanted(v.rib, k, f)
    BY <1>1, <1>4, <2>2, OtherFacesWanted DEF d
  <2>4. PICK k \in Name : Wanted(v.rib, k, f)
    BY <2>3
  <2>5. <<k, f>> \in NextHops /\ fs[f] = "new"
    BY <1>11, <2>2 DEF NextHops, f
  <2> DEFINE x == <<k, f>>
  <2>6. x \in NextHops /\ x[1] = k /\ x[2] = f
    BY <2>5
  <2> QED
    BY <1>10, <2>4, <2>5, <2>6
<1>12. \A x \in NextHops : fs[x[2]] # "down" => HopIn(v.rib, fb, x)
  BY <1>4 DEF Follows
<1>13. FollowFor(w, b, fb, fs)
  <2>1. /\ IsPlain(w.rib, b)
        /\ w.inhUpdates = computeUpdates(w.rib, b).inh
        /\ RibWith(w.rib, b) = d
    BY <1>1, <1>4 DEF u, d
  <2>2. \A y \in w.otherUpdates : y.action = "add" => fs[y.face] # "new"
    BY <1>11
  <2> QED
    BY <1>1, <1>8, <1>9, <1>10, <1>12, <2>1, <2>2 DEF FollowFor
<1> QED
  BY <1>1, <1>4, <1>13 DEF FollowOK, b, w

LEMMA FollowFrame ==
    ASSUME NEW t, NEW v, SameHops(t, v), NEW B, NEW fb, NEW fs, FollowOK(t, B, fb, fs)
    PROVE  FollowOK(v, B, fb, fs)
<1>1. Updates(v) = Updates(t)
  BY DEF Updates, SameHops
<1>2. \A b : FollowFor(t, b, fb, fs) => FollowFor(v, b, fb, fs)
  BY <1>1 DEF FollowFor, SameHops
<1> QED
  BY <1>2 DEF FollowOK, SameHops

LEMMA AppliedFollow ==
    ASSUME NEW t, ServiceOK(t), t.batchUpdates = {}, t.otherUpdates = {}, NEW b \in Batch,
           NEW fb, NEW fs, FollowOK(t, {b}, fb, fs),
           NEW v, v = onFibUpdateSuccess(t, b), v.running
    PROVE  FollowOK(v, {}, fb, fs)
<1> DEFINE d == RibWith(t.rib, b)
<1>1. PlainRib(t.rib) /\ InheritsExactly(t.rib) /\ FollowFor(t, b, fb, fs)
  BY DEF FollowOK
<1>2. IsPlain(t.rib, b) /\ t.inhUpdates = computeUpdates(t.rib, b).inh
  BY <1>1 DEF FollowFor
<1>3. /\ PlainRib(v.rib)
      /\ InheritsExactly(v.rib)
      /\ DOMAIN v.rib = DOMAIN d
      /\ \A m : RoutesAt(v.rib, m) = RoutesAt(d, m)
  BY <1>1, <1>2, SuccessExact
<1>4. \A x \in NextHops : fs[x[2]] # "down" => HopIn(d, fb, x)
  BY <1>1 DEF FollowFor, Updates
<1> HIDE DEF d
<1>5. \A m, f : Wanted(v.rib, m, f) <=> Wanted(d, m, f)
  BY <1>3, SameRoutesWant
<1>6. Follows(v.rib, fb, fs)
  BY <1>3, <1>4, <1>5 DEF Follows, HopIn
<1> QED
  BY <1>3, <1>6 DEF FollowOK

LEMMA FailedFollow ==
    ASSUME NEW t, NEW b, NEW fb, NEW fs, \A f \in Face : fs[f] \in {"new", "up", "down"},
           FibOK(fb, fs), FollowOK(t, {b}, fb, fs), t.batchUpdates # {}, fs[t.batchFace] # "up",
           NEW v, v.rib = t.rib
    PROVE  FollowOK(v, {}, fb, fs)
<1>1. PlainRib(t.rib) /\ InheritsExactly(t.rib) /\ FollowFor(t, b, fb, fs)
  BY DEF FollowOK
<1>2. ASSUME NEW x \in NextHops, fs[x[2]] # "down" PROVE HopIn(t.rib, fb, x)
  <2>1. CASE x[2] # t.batchFace
    BY <1>1, <1>2, <2>1 DEF FollowFor
  <2>2. CASE x[2] = t.batchFace
    <3>1. fs[x[2]] = "new"
      BY <1>2, <2>2 DEF NextHops
    <3>2. ~Wanted(t.rib, x[1], x[2]) /\ x \notin DOMAIN fb
      BY <1>1, <3>1 DEF FollowFor, FibOK
    <3>3. \A r \in RoutesAt(t.rib, x[1]) : r.face # x[2]
      BY <3>2 DEF Wanted, Owns, RoutesAt
    <3> QED
      BY <3>2, <3>3 DEF HopIn
  <2> QED
    BY <2>1, <2>2
<1> QED
  BY <1>1, <1>2 DEF FollowOK, Follows

\* The FIB fb after command c is fb2: other next hops are as they were.
Touches(c, fb, fb2) ==
    \A y : y # HopOf(c.update) => /\ y \in DOMAIN fb2 <=> y \in DOMAIN fb
                                  /\ y \in DOMAIN fb => fb2[y] = fb[y]

\* The next hop of the command is there with its cost, or gone.
IsDone(c, fb2) ==
    LET x == HopOf(c.update)
    IN  IF c.verb = "add-nexthop" THEN x \in DOMAIN fb2 /\ fb2[x] = c.update.cost
                                  ELSE x \notin DOMAIN fb2

LEMMA ExecuteValues ==
    ASSUME NEW c
    PROVE  LET e == Execute(c)
           IN  Touches(c, fib, e.fib) /\ (e.code = 200 => IsDone(c, e.fib))
<1> DEFINE e == Execute(c)
           x == HopOf(c.update)
           cost == c.update.cost
           more == Over(Single(x, cost), fib)
           less == [y \in DOMAIN fib \ {x} |-> fib[y]]
<1>1. /\ \A y : y # x => /\ y \in DOMAIN more <=> y \in DOMAIN fib
                         /\ y \in DOMAIN fib => more[y] = fib[y]
      /\ x \in DOMAIN more /\ more[x] = cost
  <2> HIDE DEF x, cost
  <2> QED
    BY DEF Over, Single
<1>2. /\ \A y : y # x => /\ y \in DOMAIN less <=> y \in DOMAIN fib
                         /\ y \in DOMAIN fib => less[y] = fib[y]
      /\ x \notin DOMAIN less
  <2> HIDE DEF x
  <2> QED
    OBVIOUS
<1>3. CASE c.verb = "add-nexthop"
  <2> DEFINE k == Len(c.update.name)
             far == k > FIB_MAX_DEPTH
             near == k <= FIB_MAX_DEPTH /\ faces[c.update.face] # "up"
  <2>1. e = CASE far -> [fib |-> fib, code |-> 414]
              [] near -> [fib |-> fib, code |-> 410]
              [] OTHER -> [fib |-> more, code |-> 200]
    BY <1>3 DEF Execute, addNextHop, HopOf
  <2> HIDE DEF more, far, near, e
  <2>2. \/ e.fib = fib /\ e.code # 200
        \/ e.fib = more
    <3>1. CASE far /\ near
      BY <2>1, <3>1
    <3>2. CASE far /\ ~near
      BY <2>1, <3>2
    <3>3. CASE ~far /\ near
      BY <2>1, <3>3
    <3>4. CASE ~far /\ ~near
      BY <2>1, <3>4
    <3> QED
      BY <3>1, <3>2, <3>3, <3>4
  <2> HIDE DEF x
  <2> QED
    BY <1>1, <1>3, <2>2 DEF Touches, IsDone, x, e
<1>4. CASE c.verb # "add-nexthop"
  <2>1. e = [fib |-> less, code |-> 200]
    BY <1>4 DEF Execute, removeNextHop, HopOf
  <2> HIDE DEF less, e
  <2>2. e.fib = less
    BY <2>1
  <2> HIDE DEF x
  <2> QED
    BY <1>2, <1>4, <2>2 DEF Touches, IsDone, x, e
<1> QED
  BY <1>3, <1>4

LEMMA TouchedHop ==
    ASSUME NEW c, NEW fb, NEW fb2, Touches(c, fb, fb2), NEW x, x # HopOf(c.update), NEW rib,
           HopIn(rib, fb, x)
    PROVE  HopIn(rib, fb2, x)
BY DEF Touches, HopIn

\* While the update is pending the FIB may or may not have it.
LEMMA TouchedFollow ==
    ASSUME NEW r, ServiceOK(r), NEW c \in r.sent, c.update \in Pending(r), NEW b, NEW fb, NEW fs,
           NEW fb2, Touches(c, fb, fb2), FollowOK(r, {b}, fb, fs)
    PROVE  FollowOK(r, {b}, fb2, fs)
<1> DEFINE u == c.update
           x == HopOf(u)
           d == RibWith(r.rib, b)
<1>1. u \in Updates(r) /\ (r.batchUpdates # {} => u.face = r.batchFace)
  BY DEF Pending, Updates, ServiceOK, UpdatesOK
<1>2. FollowFor(r, b, fb, fs)
  BY DEF FollowOK
<1> HIDE DEF d
<1>3. /\ \A y \in NextHops :
           fs[y[2]] # "down" /\ (\A w \in Updates(r) : HopOf(w) # y) => HopIn(d, fb, y)
      /\ r.batchUpdates # {} =>
           \A y \in NextHops : fs[y[2]] # "down" /\ y[2] # r.batchFace => HopIn(r.rib, fb, y)
  BY <1>2 DEF FollowFor, d
<1>4. \A y \in NextHops :
         fs[y[2]] # "down" /\ (\A w \in Updates(r) : HopOf(w) # y) => HopIn(d, fb2, y)
  BY <1>1, <1>3, TouchedHop
<1>5. r.batchUpdates # {} =>
        \A y \in NextHops : fs[y[2]] # "down" /\ y[2] # r.batchFace => HopIn(r.rib, fb2, y)
  <2>1. x[2] = u.face
    BY DEF HopOf
  <2> HIDE DEF x
  <2>2. r.batchUpdates # {} => \A y : y[2] # r.batchFace => y # x
    BY <1>1, <2>1
  <2> QED
    BY <1>3, <2>2, TouchedHop DEF x
<1>6. FollowFor(r, b, fb2, fs)
  BY <1>2, <1>4, <1>5 DEF FollowFor, d
<1> QED
  BY <1>6 DEF FollowOK

LEMMA DoneFollow ==
    ASSUME NEW r, ServiceOK(r), NEW c \in r.sent, c.update \in Pending(r), NEW b, NEW fb, NEW fs,
           \A f \in Face : fs[f] \in {"new", "up", "down"},
           NEW fb2, Touches(c, fb, fb2), FollowOK(r, {b}, fb, fs), VerbsOK(r), Clean(r),
           IsDone(c, fb2) \/ (/\ r.batchUpdates = {} /\ c.verb = "add-nexthop"
                              /\ fs[c.update.face] # "up"),
           NEW q, IsDropped(r, c, q)
    PROVE  FollowOK(q, {b}, fb2, fs)
<1> DEFINE u == c.update
           x == HopOf(u)
           d == RibWith(r.rib, b)
<1>1. FollowOK(r, {b}, fb2, fs)
  BY TouchedFollow
<1>2. FollowFor(r, b, fb2, fs)
  BY <1>1 DEF FollowOK
<1>3. u \in Updates(r) /\ IsUpdate(u) /\ (r.batchUpdates = {} => u \in r.otherUpdates)
  BY DEF Pending, Updates, ServiceOK, UpdatesOK
<1>4. IsRight(d, u)
  BY <1>2, <1>3 DEF FollowFor
<1>5. u.action = "add" <=> c.verb = "add-nexthop"
  BY DEF VerbsOK, Clean
<1>6. Updates(q) = Updates(r) \ {u} /\ q.rib = r.rib /\ q.batchFace = r.batchFace
        /\ q.inhUpdates = r.inhUpdates /\ q.otherUpdates \subseteq r.otherUpdates
        /\ (q.batchUpdates # {} => r.batchUpdates # {})
  BY DEF IsDropped, Updates
<1>7. ASSUME fs[u.face] # "down" PROVE HopIn(d, fb2, x)
  <2>1. IsDone(c, fb2)
    <3> SUFFICES ASSUME r.batchUpdates = {}, c.verb = "add-nexthop", fs[u.face] # "up" PROVE FALSE
      OBVIOUS
    <3>1. fs[u.face] = "new"
      BY <1>3, <1>7 DEF IsUpdate
    <3> QED
      BY <1>2, <1>3, <1>5, <3>1 DEF FollowFor
  <2>2. x[1] = u.name /\ x[2] = u.face
    BY DEF HopOf
  <2>3. IF u.action = "add" THEN x \in DOMAIN fb2 /\ fb2[x] = u.cost ELSE x \notin DOMAIN fb2
    BY <1>5, <2>1 DEF IsDone
  <2>4. \A z \in RoutesAt(d, x[1]) : z.face = x[2] => Wanted(d, x[1], x[2])
    BY DEF Wanted, Owns, RoutesAt
  <2> HIDE DEF x, d
  <2> QED
    BY <1>4, <2>2, <2>3, <2>4 DEF HopIn, IsRight
<1> HIDE DEF d
<1>8. ASSUME NEW y \in NextHops, fs[y[2]] # "down", \A w \in Updates(q) : HopOf(w) # y
      PROVE  HopIn(d, fb2, y)
  <2>1. CASE y = x
    <3>1. x[2] = u.face
      BY DEF HopOf
    <3> HIDE DEF x
    <3> QED
      BY <1>7, <1>8, <2>1, <3>1
  <2>2. CASE y # x
    <3>1. \A w \in Updates(r) : HopOf(w) # y
      BY <1>6, <1>8, <2>2
    <3> QED
      BY <1>2, <1>8, <3>1 DEF FollowFor, d
  <2> QED
    BY <2>1, <2>2
<1>9. FollowFor(q, b, fb2, fs)
  <2>1. /\ IsPlain(r.rib, b)
        /\ r.inhUpdates = computeUpdates(r.rib, b).inh
        /\ \A w \in Updates(r) : IsRight(d, w)
        /\ \A w \in r.otherUpdates : w.action = "add" => fs[w.face] # "new"
        /\ r.batchUpdates # {} =>
             \A y \in NextHops : fs[y[2]] # "down" /\ y[2] # r.batchFace => HopIn(r.rib, fb2, y)
        /\ \A y \in NextHops : fs[y[2]] = "new" => ~Wanted(r.rib, y[1], y[2])
    BY <1>2 DEF FollowFor, d
  <2>2. RibWith(q.rib, b) = d
    BY <1>6 DEF d
  <2>3. /\ IsPlain(q.rib, b)
        /\ q.inhUpdates = computeUpdates(q.rib, b).inh
        /\ \A w \in Updates(q) : IsRight(d, w)
        /\ \A w \in q.otherUpdates : w.action = "add" => fs[w.face] # "new"
        /\ q.batchUpdates # {} =>
             \A y \in NextHops : fs[y[2]] # "down" /\ y[2] # q.batchFace => HopIn(q.rib, fb2, y)
        /\ \A y \in NextHops : fs[y[2]] = "new" => ~Wanted(q.rib, y[1], y[2])
    BY <1>6, <2>1
  <2> QED
    BY <1>8, <2>2, <2>3 DEF FollowFor
<1> QED
  BY <1>1, <1>6, <1>9 DEF FollowOK

(***************************************************************************)
(* What holds between two events, besides HopsInv.                         *)
(***************************************************************************)
FollowSound(t, fb, fs) == Clean(t) => FollowOK(t, Batches(t), fb, fs)

LEMMA CleanRegular ==
    ASSUME NEW t, Clean(t)
    PROVE  Regular(t) /\ Orderly(t)
BY DEF Clean, Regular, Orderly

LEMMA StartedFollows ==
    ASSUME NEW t, ServiceOK(t), NEW b \in Batch, NEW v, IsSent(t, b, v), NEW fb, NEW fs,
           Orderly(v) => t.sent = {} /\ t.busy /\ b.route.face = t.batchFace,
           Clean(v) => FollowOK(t, {b}, fb, fs)
    PROVE  FollowSound(v, fb, fs)
<1> SUFFICES ASSUME Clean(v) PROVE FollowOK(v, Batches(v), fb, fs)
  BY DEF FollowSound
<1>0. IsService(t) /\ Orderly(v)
  BY CleanRegular DEF ServiceOK
<1>1. Batches(v) = {b}
  <2>1. v.sent # {} /\ \A c \in v.sent : c.batch = b
    BY <1>0, SentOneBatch
  <2> QED
    BY <2>1 DEF Batches
<1>2. SameHops(t, v)
  <2>1. /\ v.rib = t.rib
        /\ v.batchFace = t.batchFace
        /\ v.batchUpdates = t.batchUpdates
        /\ v.otherUpdates = t.otherUpdates
        /\ v.inhUpdates = t.inhUpdates
    BY <1>0, SentFacts
  <2> QED
    BY <2>1 DEF SameHops
<1> DEFINE B == {b}
<1>3. FollowOK(t, B, fb, fs)
  OBVIOUS
<1> HIDE DEF B
<1>4. FollowOK(v, B, fb, fs)
  BY <1>2, <1>3, FollowFrame
<1> QED
  BY <1>1, <1>4 DEF B

LEMMA AppliedFollows ==
    ASSUME NEW t, ServiceOK(t), t.batchUpdates = {}, t.otherUpdates = {}, NEW b \in Batch,
           NEW fb, NEW fs, NEW v, v = onFibUpdateSuccess(t, b),
           Orderly(v) => t.sent = {},
           Clean(v) => FollowOK(t, {b}, fb, fs)
    PROVE  FollowSound(v, fb, fs)
<1> SUFFICES ASSUME Clean(v) PROVE FollowOK(v, Batches(v), fb, fs)
  BY DEF FollowSound
<1> DEFINE z == onFibUpdateSuccess(t, b)
<1>1. SameBatch(t, z)
  BY SuccessEffect DEF ServiceOK
<1> HIDE DEF z
<1>2. Batches(v) = {}
  BY <1>1, CleanRegular DEF SameBatch, z, Batches
<1>3. FollowOK(v, {}, fb, fs)
  BY AppliedFollow DEF Clean
<1> QED
  BY <1>2, <1>3

LEMMA NextBatchFollows ==
    ASSUME NEW v, ServiceOK(v), v.queue # <<>>, v.running, ~v.busy, NEW fb, NEW fs, FibOK(fb, fs),
           HopsSound(v, fb, fs), FollowSound(v, fb, fs)
    PROVE  FollowSound(sendNextBatch(v), fb, fs)
<1> DEFINE b == Head(v.queue)
           w == Begun(v)
           z == sendUpdatesForBatchFaceId(w, b)
<1>1. z = sendNextBatch(v)
  BY NextBatchKeeps
<1>2. /\ b \in Batch
      /\ w.busy = TRUE
      /\ w.batchFace = b.route.face
      /\ w.sent = v.sent
      /\ v.odd \subseteq w.odd
      /\ w.odd = {} => IsPlain(v.rib, b)
  <2>1. /\ b \in Batch
        /\ w.busy = TRUE
        /\ w.batchFace = b.route.face
        /\ w.sent = v.sent
        /\ w.odd = IF IsPlain(v.rib, b) THEN v.odd ELSE v.odd \cup {"update"}
    BY BegunEffect
  <2> HIDE DEF w, b
  <2> QED
    BY <2>1
<1>3. ServiceOK(w) /\ IsService(w)
  BY BegunUpdates DEF ServiceOK
<1>5. ASSUME NEW q, q.odd = w.odd, Orderly(q) PROVE w.sent = {}
  <2>1. Orderly(v)
    BY <1>2, <1>5 DEF Orderly
  <2> QED
    BY <1>2, <2>1 DEF HopsSound, OneBatch
<1>6. ASSUME NEW q, q.odd = w.odd, Clean(q) PROVE FollowOK(w, {b}, fb, fs)
  <2>1. Clean(v) /\ Regular(v)
    <3>1. Clean(v)
      BY <1>2, <1>6 DEF Clean
    <3> QED
      BY <3>1, CleanRegular
  <2>2. Batches(v) = {}
    BY <1>2, <1>5, <1>6, CleanRegular DEF Batches
  <2> DEFINE B == Batches(v)
  <2>3. B = {} /\ HopsOK(v, B, fb, fs) /\ FollowOK(v, B, fb, fs)
    BY <2>1, <2>2 DEF HopsSound, FollowSound
  <2>4. IsPlain(v.rib, Head(v.queue))
    BY <1>2, <1>6 DEF Clean
  <2> HIDE DEF B
  <2>5. HopsOK(Begun(v), {Head(v.queue)}, fb, fs)
    BY <2>3, BegunHops
  <2> QED
    BY <2>3, <2>4, <2>5, BegunFollow
<1>7. IsSent(w, b, z) \/ (w.batchUpdates = {} /\ w.otherUpdates = {} /\ z = onFibUpdateSuccess(w, b))
  <2> HIDE DEF w, b
  <2> QED
    BY <1>3, StartShape
<1> HIDE DEF b, w, z
<1>8. CASE IsSent(w, b, z)
  <2>1. z.odd = w.odd
    BY <1>8 DEF IsSent
  <2>2. Orderly(z) => w.sent = {} /\ w.busy /\ b.route.face = w.batchFace
    BY <1>2, <1>5, <2>1
  <2>3. Clean(z) => FollowOK(w, {b}, fb, fs)
    BY <1>6, <2>1
  <2> QED
    BY <1>1, <1>2, <1>3, <1>8, <2>2, <2>3, StartedFollows
<1>9. CASE w.batchUpdates = {} /\ w.otherUpdates = {} /\ z = onFibUpdateSuccess(w, b)
  <2> DEFINE y == onFibUpdateSuccess(w, b)
  <2>1. SameBatch(w, y)
    BY <1>2, <1>3, SuccessEffect DEF ServiceOK
  <2> HIDE DEF y
  <2>2. z.odd = w.odd
    BY <1>9, <2>1 DEF y, SameBatch
  <2>3. Orderly(z) => w.sent = {}
    BY <1>5, <2>2
  <2>4. Clean(z) => FollowOK(w, {b}, fb, fs)
    BY <1>6, <2>2
  <2> QED
    BY <1>1, <1>2, <1>3, <1>9, <2>3, <2>4, AppliedFollows
<1> QED
  BY <1>7, <1>8, <1>9

LEMMA SendingFollows ==
    ASSUME NEW t, ServiceOK(t), NEW fb, NEW fs, FibOK(fb, fs), HopsSound(t, fb, fs),
           FollowSound(t, fb, fs)
    PROVE  FollowSound(sendBatchFromQueue(t), fb, fs)
<1> DEFINE n == Len(t.queue)
<1>0. n \in Nat
  BY LenProperties DEF ServiceOK, QueueOK
<1>1. PICK f : IsSending(f, t) /\ sendBatchFromQueue(t) = f[n]
  BY <1>0, SendingRuns
<1>2. /\ \A i \in 0 .. n : ServiceOK(f[i])
      /\ \A i \in 1 .. n :
           \/ f[i] = f[i - 1]
           \/ f[i - 1].running /\ ~f[i - 1].busy /\ f[i - 1].queue # <<>>
                /\ f[i] = sendNextBatch(f[i - 1])
  BY <1>1, SendingSteps
<1> DEFINE S == {f[i] : i \in {j \in 0 .. n : HopsSound(f[j], fb, fs) /\ FollowSound(f[j], fb, fs)}}
<1>3. f[0] \in S
  BY <1>0, <1>1 DEF IsSending
<1>4. ASSUME NEW i \in 1 .. n, f[i - 1] \in S PROVE f[i] \in S
  <2>1. HopsSound(f[i - 1], fb, fs) /\ FollowSound(f[i - 1], fb, fs)
    BY <1>4
  <2>2. ServiceOK(f[i - 1]) /\ i \in 0 .. n
    BY <1>0, <1>2
  <2> DEFINE p == f[i - 1]
             q == f[i]
  <2>3. q = p \/ (p.running /\ ~p.busy /\ p.queue # <<>> /\ q = sendNextBatch(p))
    BY <1>2
  <2>4. HopsSound(q, fb, fs) /\ FollowSound(q, fb, fs)
    <3> HIDE DEF p, q
    <3>1. CASE q = p
      BY <2>1, <3>1 DEF p
    <3>2. CASE p.running /\ ~p.busy /\ p.queue # <<>> /\ q = sendNextBatch(p)
      <4>1. ServiceOK(p) /\ HopsSound(p, fb, fs) /\ FollowSound(p, fb, fs)
        BY <2>1, <2>2 DEF p
      <4>2. HopsSound(sendNextBatch(p), fb, fs)
        BY <3>2, <4>1, NextBatchSound
      <4>3. FollowSound(sendNextBatch(p), fb, fs)
        BY <3>2, <4>1, NextBatchFollows
      <4> QED
        BY <3>2, <4>2, <4>3
    <3> QED
      BY <2>3, <3>1, <3>2
  <2> QED
    BY <2>2, <2>4
<1>5. f[n] \in S
  <2> HIDE DEF S, n
  <2> QED
    BY <1>0, <1>3, <1>4, LoopKeeps
<1> QED
  BY <1>1, <1>5

LEMMA AnswerFollows ==
    ASSUME NEW r, ServiceOK(r), Covered(r), r.running, NEW c \in r.sent, OthersOK,
           FibOK(fib, faces), HopsSound(r, fib, faces), FollowSound(r, fib, faces)
    PROVE  FollowSound(AnswerTo(r, c, Execute(c).code), Execute(c).fib, faces)
<1> DEFINE code == Execute(c).code
           fb == Execute(c).fib
           v == AnswerTo(r, c, code)
           b == c.batch
<1>1. IsCommand(c) /\ b \in Batch
  BY DEF ServiceOK, SentOK, IsCommand
<1>2. /\ FibOK(fb, faces)
      /\ code = 410 => c.verb = "add-nexthop" /\ faces[c.update.face] # "up"
      /\ Touches(c, fib, fb)
      /\ code = 200 => IsDone(c, fb)
  <2>1. /\ FibOK(fb, faces)
        /\ code = 410 => c.verb = "add-nexthop" /\ faces[c.update.face] # "up"
    BY <1>1, ExecuteEffect
  <2>2. Touches(c, fib, fb) /\ (code = 200 => IsDone(c, fb))
    BY ExecuteValues
  <2> QED
    BY <2>1, <2>2
<1> HIDE DEF code, fb
<1>3. r.odd \subseteq v.odd
  BY AnswerOdd
<1>a. \A f \in Face : faces[f] \in {"new", "up", "down"}
  BY DEF OthersOK
<1> SUFFICES ASSUME Clean(v) PROVE FollowSound(v, fb, faces)
  <2> HIDE DEF v
  <2>1. ~Clean(v) => FollowSound(v, fb, faces)
    BY DEF FollowSound
  <2> QED
    BY <2>1 DEF v, code, fb
<1>4. Clean(r) /\ Orderly(r) /\ Orderly(v)
  <2> HIDE DEF v
  <2>1. Clean(r)
    BY <1>3 DEF Clean
  <2> QED
    BY <2>1, CleanRegular
<1>5. OneBatch(r) /\ VerbsOK(r) /\ Batches(r) = {b}
  <2>1. OneBatch(r) /\ VerbsOK(r)
    BY <1>4 DEF HopsSound
  <2> QED
    BY <2>1 DEF OneBatch, Batches
<1>6. c.update \in Pending(r) /\ b.route.face = r.batchFace /\ r.busy
  BY <1>5 DEF OneBatch
<1>7. FollowOK(r, {b}, fib, faces)
  BY <1>4, <1>5 DEF FollowSound
<1>8. \/ /\ code = 200 \/ (code = 410 /\ r.batchUpdates = {})
         /\ \E q : /\ IsDropped(r, c, q)
                   /\ (v = q /\ IsPartial(r, q)) \/ IsFinished(q, c.batch, v)
      \/ code = 410 /\ IsFailed(r, c, v)
  BY <1>4, <1>5, AnswerShape
<1> HIDE DEF v
<1>b. ASSUME NEW q, IsDropped(r, c, q), code = 200 \/ (code = 410 /\ r.batchUpdates = {})
      PROVE  FollowOK(q, {b}, fb, faces)
  <2>1. IsDone(c, fb) \/ (/\ r.batchUpdates = {} /\ c.verb = "add-nexthop"
                          /\ faces[c.update.face] # "up")
    BY <1>2, <1>b
  <2> HIDE DEF b
  <2> QED
    BY <1>2, <1>4, <1>5, <1>6, <1>7, <1>a, <1>b, <2>1, DoneFollow
<1>9. ASSUME NEW q, IsDropped(r, c, q), v = q, IsPartial(r, q), FollowOK(q, {b}, fb, faces)
      PROVE  FollowSound(v, fb, faces)
  <2>1. q.sent # {} /\ \A d \in q.sent : d.batch = b
    BY <1>5, <1>9, PartialOneBatch
  <2>2. Batches(q) = {b}
    BY <2>1 DEF Batches
  <2> QED
    BY <1>9, <2>2 DEF FollowSound
<1>10. ASSUME NEW q, IsDropped(r, c, q), IsFinished(q, b, v), FollowOK(q, {b}, fb, faces)
       PROVE  FollowSound(v, fb, faces)
  <2>1. ServiceOK(q) /\ q.busy = r.busy /\ q.batchFace = r.batchFace
    BY <1>10 DEF IsDropped
  <2>2. q.batchUpdates = {} /\ q.sent = {}
    BY <1>10 DEF IsFinished
  <2>3. CASE IsSent(q, b, v)
    BY <1>1, <1>6, <1>10, <2>1, <2>2, <2>3, StartedFollows
  <2>4. CASE q.otherUpdates = {} /\ v = onFibUpdateSuccess(q, b)
    BY <1>1, <1>10, <2>1, <2>2, <2>4, AppliedFollows
  <2> QED
    BY <1>10, <2>3, <2>4 DEF IsFinished
<1>11. ASSUME code = 410, IsFailed(r, c, v) PROVE FollowSound(v, fb, faces)
  <2> DEFINE t == Without(r, c)
             z == onFibUpdateFailure(t, b)
  <2>1. IsService(t) /\ t.rib = r.rib /\ t.sent = r.sent \ {c}
    BY WithoutEffect DEF ServiceOK
  <2> HIDE DEF t
  <2>2. SameBatch(t, z) /\ z.rib = t.rib
    BY <2>1, FailureEffect
  <2>3. c.update \in r.batchUpdates /\ r.sent \ {c} = {} /\ v = z
    BY <1>11 DEF IsFailed, t
  <2> HIDE DEF z
  <2>4. v.sent = {} /\ v.rib = r.rib
    BY <2>1, <2>2, <2>3 DEF SameBatch
  <2>5. faces[r.batchFace] # "up"
    BY <1>2, <1>11, <2>3 DEF ServiceOK, UpdatesOK
  <2>6. FollowOK(r, {b}, fb, faces)
    <3> HIDE DEF b
    <3> QED
      BY <1>2, <1>6, <1>7, TouchedFollow
  <2>7. FollowOK(v, {}, fb, faces)
    BY <1>2, <1>a, <2>3, <2>4, <2>5, <2>6, FailedFollow
  <2>8. Batches(v) = {}
    BY <2>4 DEF Batches
  <2> QED
    BY <2>7, <2>8 DEF FollowSound
<1> QED
  BY <1>8, <1>9, <1>10, <1>11, <1>b

LEMMA TimeoutFollows ==
    ASSUME NEW r, ServiceOK(r), r.running, NEW c \in r.sent, HopsSound(r, fib, faces),
           FollowSound(r, fib, faces), NEW fb, fb \in {fib, Execute(c).fib}
    PROVE  FollowSound(onUpdateTimeout(Without(r, c), c), fb, faces)
<1> DEFINE d == Again(c)
           v == onUpdateTimeout(Without(r, c), c)
           b == c.batch
<1>1. Touches(c, fib, fb)
  <2>1. Touches(c, fib, Execute(c).fib)
    BY ExecuteValues
  <2>2. Touches(c, fib, fib)
    BY DEF Touches
  <2> QED
    BY <2>1, <2>2
<1>2. /\ d.update = c.update
      /\ d.batch = c.batch
      /\ v.rib = r.rib
      /\ v.batchFace = r.batchFace
      /\ v.batchUpdates = r.batchUpdates
      /\ v.otherUpdates = r.otherUpdates
      /\ v.inhUpdates = r.inhUpdates
      /\ v.running => r.running /\ v.sent = (r.sent \ {c}) \cup {d}
      /\ v.odd = r.odd \/ v.odd = r.odd \cup {"retry"}
  BY TimeoutEffect
<1> HIDE DEF d, v
<1> SUFFICES ASSUME Clean(v) PROVE FollowOK(v, Batches(v), fb, faces)
  BY DEF FollowSound, v
<1>3. Clean(r) /\ Orderly(r)
  <2>1. Clean(r)
    BY <1>2 DEF Clean
  <2> QED
    BY <2>1, CleanRegular
<1>4. OneBatch(r) /\ v.sent = (r.sent \ {c}) \cup {d}
  BY <1>2, <1>3 DEF HopsSound, Clean
<1>5. Batches(v) = {b} /\ Batches(r) = {b} /\ c.update \in Pending(r)
  <2>1. c.update \in Pending(r) /\ \A y \in r.sent : y.batch = b
    BY <1>4 DEF OneBatch
  <2> QED
    BY <1>2, <1>4, <2>1 DEF Batches
<1> DEFINE B == {b}
<1>6. FollowOK(r, B, fib, faces)
  BY <1>3, <1>5 DEF FollowSound
<1>7. FollowOK(r, B, fb, faces)
  <2> HIDE DEF b
  <2> QED
    BY <1>1, <1>5, <1>6, TouchedFollow
<1>8. SameHops(r, v)
  BY <1>2 DEF SameHops
<1> HIDE DEF B
<1>9. FollowOK(v, B, fb, faces)
  BY <1>7, <1>8, FollowFrame
<1> QED
  BY <1>5, <1>9 DEF B

LEMMA QueuedFollows ==
    ASSUME NEW t, NEW v, SameWork(t, v), t.odd \subseteq v.odd, NEW fb, NEW fs,
           FollowSound(t, fb, fs)
    PROVE  FollowSound(v, fb, fs)
<1> SUFFICES ASSUME Clean(v) PROVE FollowOK(v, Batches(v), fb, fs)
  BY DEF FollowSound
<1>1. Batches(v) = Batches(t) /\ SameHops(t, v)
  BY DEF SameWork, Batches, SameHops
<1> DEFINE B == Batches(t)
<1>2. FollowOK(t, B, fb, fs)
  BY DEF FollowSound, Clean, SameWork
<1> HIDE DEF B
<1>3. FollowOK(v, B, fb, fs)
  BY <1>1, <1>2, FollowFrame
<1> QED
  BY <1>1, <1>3 DEF B

\* A face that is new becomes one that exists, or one that exists goes with its next hops.
LEMMA FacesFollow ==
    ASSUME NEW t, ServiceOK(t), NEW fb, NEW fs, NEW fb2, NEW fs2, FollowSound(t, fb, fs),
           \A f \in Face : /\ fs[f] = "down" => fs2[f] = "down"
                           /\ fs2[f] = "new" => fs[f] = "new",
           \A x \in NextHops : fs2[x[2]] # "down" =>
               /\ x \in DOMAIN fb2 <=> x \in DOMAIN fb
               /\ x \in DOMAIN fb => fb2[x] = fb[x]
    PROVE  FollowSound(t, fb2, fs2)
<1> SUFFICES ASSUME Clean(t) PROVE FollowOK(t, Batches(t), fb2, fs2)
  BY DEF FollowSound
<1>1. FollowOK(t, Batches(t), fb, fs)
  BY DEF FollowSound
<1>2. \A x \in NextHops : x[2] \in Face
  BY DEF NextHops
<1>3. \A rib : \A x \in NextHops :
         fs2[x[2]] # "down" /\ HopIn(rib, fb, x) => HopIn(rib, fb2, x)
  BY DEF HopIn
<1>4. \A x \in NextHops : /\ fs2[x[2]] # "down" => fs[x[2]] # "down"
                          /\ fs2[x[2]] = "new" => fs[x[2]] = "new"
  BY <1>2
<1>5. \A rib : Follows(rib, fb, fs) => Follows(rib, fb2, fs2)
  BY <1>3, <1>4 DEF Follows
<1>6. \A u \in t.otherUpdates : fs2[u.face] = "new" => fs[u.face] = "new"
  BY DEF ServiceOK, UpdatesOK, IsUpdate
<1>7. ASSUME NEW b, FollowFor(t, b, fb, fs) PROVE FollowFor(t, b, fb2, fs2)
  <2> DEFINE d == RibWith(t.rib, b)
  <2> HIDE DEF d
  <2>1. /\ IsPlain(t.rib, b)
        /\ t.inhUpdates = computeUpdates(t.rib, b).inh
        /\ \A x \in NextHops :
             fs[x[2]] # "down" /\ (\A u \in Updates(t) : HopOf(u) # x) => HopIn(d, fb, x)
        /\ \A u \in Updates(t) : IsRight(d, u)
        /\ \A u \in t.otherUpdates : u.action = "add" => fs[u.face] # "new"
        /\ t.batchUpdates # {} =>
             \A x \in NextHops : fs[x[2]] # "down" /\ x[2] # t.batchFace => HopIn(t.rib, fb, x)
        /\ \A x \in NextHops : fs[x[2]] = "new" => ~Wanted(t.rib, x[1], x[2])
    BY <1>7 DEF FollowFor, d
  <2>2. \A x \in NextHops :
           fs2[x[2]] # "down" /\ (\A u \in Updates(t) : HopOf(u) # x) => HopIn(d, fb2, x)
    BY <1>3, <1>4, <2>1
  <2>3. t.batchUpdates # {} =>
          \A x \in NextHops : fs2[x[2]] # "down" /\ x[2] # t.batchFace => HopIn(t.rib, fb2, x)
    BY <1>3, <1>4, <2>1
  <2>4. /\ \A u \in t.otherUpdates : u.action = "add" => fs2[u.face] # "new"
        /\ \A x \in NextHops : fs2[x[2]] = "new" => ~Wanted(t.rib, x[1], x[2])
    BY <1>4, <1>6, <2>1
  <2> QED
    BY <2>1, <2>2, <2>3, <2>4 DEF FollowFor, d
<1> QED
  BY <1>1, <1>5, <1>7 DEF FollowOK

FollowInv == HopsInv /\ FollowSound(s, fib, faces)

LEMMA InitFollow == Init => FollowInv
<1> SUFFICES ASSUME Init PROVE FollowInv
  OBVIOUS
<1>1. s.sent = {} /\ DOMAIN s.rib = {} /\ DOMAIN fib = {}
  BY DEF Init, NoChange
<1>2. Batches(s) = {}
  BY <1>1 DEF Batches
<1>3. \A n : RoutesAt(s.rib, n) = {}
  BY <1>1 DEF RoutesAt
<1>4. PlainRib(s.rib) /\ InheritsExactly(s.rib)
  BY <1>1, <1>3 DEF PlainRib, PlainRoutes, InheritsExactly
<1>5. Follows(s.rib, fib, faces)
  BY <1>1, <1>3 DEF Follows, HopIn, Wanted
<1>6. FollowOK(s, Batches(s), fib, faces)
  BY <1>2, <1>4, <1>5 DEF FollowOK
<1> QED
  BY <1>6, InitHops DEF FollowInv, FollowSound

LEMMA NextFollowInv == FollowInv /\ [Next]_vars => FollowInv'
<1> SUFFICES ASSUME FollowInv, [Next]_vars PROVE FollowInv'
  OBVIOUS
<1> DEFINE t == s
           v == s'
           fb == fib'
           fs == faces'
           Good(q) == ServiceOK(q) /\ HopsSound(q, fb, fs) /\ FollowSound(q, fb, fs)
<1>0. /\ OthersOK
      /\ ServiceOK(t)
      /\ Covered(t)
      /\ FibOK(fib, faces)
      /\ HopsSound(t, fib, faces)
      /\ FollowSound(t, fib, faces)
  BY DEF FollowInv, HopsInv, ServiceInv
<1>a. HopsInv'
  BY NextHopsInv DEF FollowInv
<1>1. ASSUME FollowSound(v, fb, fs) PROVE FollowInv'
  BY <1>a, <1>1 DEF FollowInv
<1>2. ASSUME NEW q, Good(q), v = sendBatchFromQueue(q), FibOK(fb, fs) PROVE FollowInv'
  <2> HIDE DEF fb, fs
  <2>1. FollowSound(sendBatchFromQueue(q), fb, fs)
    BY <1>2, SendingFollows
  <2> HIDE DEF v
  <2> QED
    BY <1>1, <1>2, <2>1
<1>3. ASSUME NEW q, Good(q), NEW b \in Batch, b.action # "remove-face",
             v = sendBatchFromQueue(Enqueue(q, b)), FibOK(fb, fs)
      PROVE  FollowInv'
  <2> DEFINE e == Enqueue(q, b)
  <2> HIDE DEF fb, fs
  <2>1. IsService(e) /\ SameWork(q, e) /\ QueueOK(e) /\ TimersOK(e) /\ e.odd = q.odd
    BY <1>3, EnqueueEffect
  <2>2. HopsSound(e, fb, fs)
    BY <1>3, EnqueuedSound
  <2> HIDE DEF e, v
  <2>3. FollowSound(e, fb, fs)
    BY <1>3, <2>1, QueuedFollows
  <2>4. Good(e)
    BY <1>3, <2>1, <2>2, <2>3, SameWorkKeeps
  <2> QED
    BY <1>2, <1>3, <2>4 DEF e
<1>4. ASSUME UNCHANGED <<fib, faces>> PROVE FibOK(fb, fs) /\ Good(t)
  <2>1. fb = fib /\ fs = faces
    BY <1>4
  <2> HIDE DEF fb, fs
  <2> QED
    BY <1>0, <2>1
<1>5. ASSUME UNCHANGED <<s, fib, faces>> PROVE FollowInv'
  <2>1. FollowSound(t, fb, fs) /\ v = t
    BY <1>4, <1>5
  <2> HIDE DEF t, v, fb, fs
  <2> QED
    BY <1>1, <2>1
<1>6. ASSUME NEW c \in s.sent, Respond(c), s.running PROVE FollowInv'
  <2> DEFINE q == AnswerTo(t, c, Execute(c).code)
  <2>1. v = sendBatchFromQueue(q) /\ fb = Execute(c).fib /\ fs = faces
    BY <1>6, RespondMeans
  <2>2. HopsSound(q, Execute(c).fib, faces)
    BY <1>0, <1>6, AnswerSound
  <2>3. FollowSound(q, Execute(c).fib, faces)
    BY <1>0, <1>6, AnswerFollows
  <2>4. ServiceOK(q)
    BY <1>0, <1>6, AnswerKeeps
  <2>5. FibOK(Execute(c).fib, faces)
    <3>1. IsCommand(c)
      BY <1>0, <1>6 DEF ServiceOK, SentOK
    <3> QED
      BY <1>0, <3>1, ExecuteEffect
  <2> HIDE DEF q, v, fb, fs
  <2> QED
    BY <1>2, <2>1, <2>2, <2>3, <2>4, <2>5
<1>7. ASSUME NEW c \in s.sent, Timeout(c), s.running PROVE FollowInv'
  <2> DEFINE o == onUpdateTimeout(Without(t, c), c)
  <2>1. v = o /\ fb \in {fib, Execute(c).fib} /\ fs = faces
    BY <1>7 DEF Timeout, Answered, Without
  <2>2. FollowSound(o, fb, faces)
    <3> HIDE DEF fb, fs
    <3> QED
      BY <1>0, <1>7, <2>1, TimeoutFollows
  <2> HIDE DEF o, v, fb, fs
  <2> QED
    BY <1>1, <2>1, <2>2
<1>8. ASSUME NEW q, ServiceOK(q), SameWork(t, q), q.queue = t.queue, q.odd = t.odd,
             UNCHANGED <<fib, faces>>
      PROVE  Good(q)
  <2> HIDE DEF fb, fs
  <2>1. GoneFaces(t, fs) => GoneFaces(q, fs)
    BY <1>8 DEF GoneFaces
  <2>2. Good(t)
    BY <1>4, <1>8
  <2>3. HopsSound(q, fb, fs)
    BY <1>8, <2>1, <2>2, QueuedSound
  <2>4. FollowSound(q, fb, fs)
    BY <1>8, <2>2, QueuedFollows
  <2> QED
    BY <1>8, <2>3, <2>4
<1>9. ASSUME NEW x \in s.timers, onRouteExpiration(x) PROVE FollowInv'
  <2> DEFINE q == [t EXCEPT !.timers = @ \ {x}]
             b == Update("unregister", x.name, x.route, 0)
  <2>1. v = sendBatchFromQueue(Enqueue(q, b)) /\ UNCHANGED <<fib, faces>>
    BY <1>9 DEF onRouteExpiration, beginApplyUpdate
  <2>2. b \in Batch /\ ServiceOK(q) /\ SameWork(t, q) /\ q.queue = t.queue /\ q.odd = t.odd
    BY <1>0, <1>9, ExpiredEffect
  <2>3. b.action # "remove-face"
    BY DEF Update
  <2> HIDE DEF q, b, v, fb, fs, Good
  <2>4. Good(q)
    BY <1>8, <2>1, <2>2
  <2> QED
    BY <1>3, <1>4, <2>1, <2>2, <2>3, <2>4
<1>10. ASSUME NEW timers, timers \subseteq Timer, UNCHANGED <<fib, faces>>
       PROVE  Good(Requested(t, timers))
  <2> DEFINE q == Requested(t, timers)
  <2>1. ServiceOK(q) /\ SameWork(t, q) /\ q.queue = t.queue /\ q.odd = t.odd
    BY <1>0, <1>10, RequestedEffect
  <2> HIDE DEF q, Good
  <2>2. Good(q)
    BY <1>8, <1>10, <2>1
  <2> QED
    BY <2>2 DEF q
<1>11. ASSUME NEW n \in Name, NEW f \in Face, NEW o \in Origin, unregisterEntry(n, f, o)
       PROVE  FollowInv'
  <2> DEFINE route == [face |-> f, origin |-> o]
             id == requests + 1
             no == {}
             q == Requested(t, no)
             b == Update("unregister", n, route, id)
  <2>1. v = beginRemoveRoute(t, n, route, id) /\ UNCHANGED <<fib, faces>>
    BY <1>11 DEF unregisterEntry
  <2>2. id \in Nat /\ route \in Target
    BY <1>0 DEF OthersOK, Target
  <2>3. b \in Batch /\ v = sendBatchFromQueue(Enqueue(q, b))
    <3> HIDE DEF id, route, v
    <3> QED
      BY <1>0, <2>1, <2>2, RemoveRouteMeans DEF no
  <2>4. Good(q)
    <3>1. no \subseteq Timer
      OBVIOUS
    <3> HIDE DEF no, Good
    <3> QED
      BY <1>10, <2>1, <3>1
  <2>5. b.action # "remove-face"
    BY DEF Update
  <2> HIDE DEF q, b, Good, v, fb, fs
  <2> QED
    BY <1>3, <1>4, <2>1, <2>3, <2>4, <2>5
<1>12. ASSUME NEW n \in Name, NEW f \in Face, NEW o \in Origin, NEW cost \in Cost,
              NEW ci \in BOOLEAN, NEW cap \in BOOLEAN, NEW expires \in Expiring,
              registerEntry(n, f, o, cost, ci, cap, expires)
       PROVE  FollowInv'
  <2> DEFINE id == requests + 1
             ev == IF expires THEN id ELSE 0
             route == [face |-> f, origin |-> o, cost |-> cost, ci |-> ci, cap |-> cap, ev |-> ev]
             timers == TimersFor(n, route, id)
             q == Requested(t, timers)
             b == Update("register", n, route, id)
  <2>1. v = beginAddRoute(t, n, route, id) /\ UNCHANGED <<fib, faces>>
    BY <1>12 DEF registerEntry
  <2>2. id \in Nat /\ ev \in Nat
    BY <1>0 DEF OthersOK
  <2>3. route \in Route
    <3> HIDE DEF ev
    <3> QED
      BY <2>2 DEF Route
  <2>4. b \in Batch /\ timers \subseteq Timer /\ v = sendBatchFromQueue(Enqueue(q, b))
    <3> HIDE DEF id, route, v
    <3> QED
      BY <1>0, <2>1, <2>2, <2>3, AddRouteMeans
  <2>5. Good(q)
    <3> HIDE DEF timers, Good
    <3> QED
      BY <1>10, <2>1, <2>4
  <2>6. b.action # "remove-face"
    BY DEF Update
  <2> HIDE DEF q, b, Good, v, fb, fs
  <2> QED
    BY <1>3, <1>4, <2>1, <2>4, <2>5, <2>6
<1>13. ASSUME NEW f \in Face, CreateFace(f) \/ DestroyFace(f) PROVE FollowInv'
  <2>1. v = t
    BY <1>13 DEF CreateFace, DestroyFace
  <2>2. /\ \A g \in Face : /\ faces[g] = "down" => fs[g] = "down"
                           /\ fs[g] = "new" => faces[g] = "new"
        /\ \A x \in NextHops : fs[x[2]] # "down" =>
              /\ x \in DOMAIN fb <=> x \in DOMAIN fib
              /\ x \in DOMAIN fib => fb[x] = fib[x]
    <3>1. faces \in [Face -> {"new", "up", "down"}]
      BY <1>0 DEF OthersOK
    <3>2. \A x \in NextHops : x[2] \in Face
      BY DEF NextHops
    <3>3. CASE CreateFace(f)
      <4>1. fb = fib /\ fs = [faces EXCEPT ![f] = "up"] /\ faces[f] = "new"
        BY <3>3 DEF CreateFace
      <4> HIDE DEF fb, fs
      <4> QED
        BY <3>1, <4>1
    <3>4. CASE DestroyFace(f)
      <4>1. fb = [x \in {x \in DOMAIN fib : x[2] # f} |-> fib[x]]
              /\ fs = [faces EXCEPT ![f] = "down"]
        BY <3>4 DEF DestroyFace
      <4> HIDE DEF fb, fs
      <4>2. DOMAIN fb = {x \in DOMAIN fib : x[2] # f} /\ \A x \in DOMAIN fb : fb[x] = fib[x]
        BY <4>1
      <4>3. fs[f] = "down" /\ \A g \in Face : g # f => fs[g] = faces[g]
        BY <3>1, <4>1
      <4>4. \A x \in NextHops : fs[x[2]] # "down" => x[2] # f
        BY <4>3
      <4> QED
        BY <4>2, <4>3, <4>4
    <3> QED
      BY <1>13, <3>3, <3>4
  <2> HIDE DEF fb, fs, v, t
  <2>3. FollowSound(t, fb, fs)
    BY <1>0, <2>2, FacesFollow
  <2> QED
    BY <1>1, <2>1, <2>3
<1>14. ASSUME NEW f \in Face, onFaceDestroyedEvent(f) PROVE FollowInv'
  <2> DEFINE kind == "stale"
             o == Odd(t, kind)
             p == IF faces[f] = "down" THEN t ELSE o
             q == [p EXCEPT !.queue = @ \o FaceRemovals(p, f)]
  <2>1. v = sendBatchFromQueue(q) /\ UNCHANGED <<fib, faces>>
    BY <1>14 DEF onFaceDestroyedEvent, beginRemoveFace
  <2>2. fs = faces
    BY <2>1
  <2>3. ServiceOK(o) /\ SameWork(t, o) /\ o.queue = t.queue /\ o.odd = t.odd \cup {kind}
    <3> HIDE DEF kind, t
    <3>1. IsService(t)
      BY <1>0 DEF ServiceOK
    <3>2. /\ o.rib = t.rib
          /\ o.faceMap = t.faceMap
          /\ o.queue = t.queue
          /\ o.busy = t.busy
          /\ o.batchFace = t.batchFace
          /\ o.batchUpdates = t.batchUpdates
          /\ o.otherUpdates = t.otherUpdates
          /\ o.inhUpdates = t.inhUpdates
          /\ o.sent = t.sent
          /\ o.running = t.running
          /\ o.odd = t.odd \cup {kind}
      BY <3>1, OddEffect
    <3>3. ServiceOK(o)
      BY <1>0, OddKeeps
    <3> HIDE DEF o
    <3> QED
      BY <3>2, <3>3 DEF SameWork
  <2>4. ~Regular(o)
    BY <2>3 DEF Regular
  <2> HIDE DEF o, v, fb, fs
  <2>5. Good(o)
    <3>1. GoneFaces(t, fs) => GoneFaces(o, fs)
      BY <2>3 DEF GoneFaces
    <3>2. t.odd \subseteq o.odd
      BY <2>3
    <3>3. HopsSound(o, fb, fs)
      BY <1>4, <2>1, <2>3, <3>1, <3>2, QueuedSound
    <3>4. FollowSound(o, fb, fs)
      BY <1>4, <2>1, <2>3, <3>2, QueuedFollows
    <3> QED
      BY <2>3, <3>3, <3>4
  <2>6. Good(p) /\ (Regular(p) => fs[f] = "down")
    BY <1>4, <2>1, <2>2, <2>4, <2>5
  <2> HIDE DEF p
  <2>7. Good(q)
    <3>1. ServiceOK(q) /\ SameWork(p, q) /\ q.odd = p.odd
      BY <2>6, RemoveFaceEffect
    <3>2. HopsSound(q, fb, fs)
      BY <2>6, RemovedFaceSound
    <3> HIDE DEF q
    <3>3. FollowSound(q, fb, fs)
      BY <2>6, <3>1, QueuedFollows
    <3> QED
      BY <3>1, <3>2, <3>3
  <2> HIDE DEF q, Good
  <2> QED
    BY <1>2, <1>4, <2>1, <2>7
<1>15. ASSUME fetchActiveFaces PROVE FollowInv'
  BY <1>5, <1>15 DEF fetchActiveFaces
<1>16. ASSUME NEW active \in fetched,
              removeInvalidFaces(active) \/ onFetchActiveFacesFailure(active)
       PROVE  FollowInv'
  BY <1>5, <1>16 DEF removeInvalidFaces, onFetchActiveFacesFailure
<1>17. CASE UNCHANGED vars
  BY <1>5, <1>17 DEF vars
<1>18. CASE Next
  BY <1>6, <1>7, <1>9, <1>11, <1>12, <1>13, <1>14, <1>15, <1>16, <1>18 DEF Next
<1> QED
  BY <1>17, <1>18

\* The reference asks for the same next hops.
LEMMA GivingMeans ==
    ASSUME IsRib(s.rib), PlainRib(s.rib), NEW n \in DOMAIN s.rib, NEW f \in Face
    PROVE  Giving(n, f) # {} <=> Wanted(s.rib, n, f)
<1> DEFINE rib == s.rib
           above == {m \in DOMAIN rib : IsPrefix(m, n)}
           visible(m) == \A k \in above : Captures(rib[k]) /\ k # n => Len(k) <= Len(m)
           offers(m) == IF m = n THEN OnFace(rib[n], f) # {}
                        ELSE /\ ~Captures(rib[n]) /\ visible(m)
                             /\ InheritableOnFace(rib[m], f) # {}
           from == {m \in above : offers(m)}
<1>1. Giving(n, f) = {m \in from : \A k \in from : Len(k) <= Len(m)}
  BY DEF Giving
<1>2. \A k \in DOMAIN rib : ~Captures(rib[k])
  <2>1. PlainRoutes(rib)
    BY DEF PlainRib
  <2>2. \A k \in DOMAIN rib : \A i \in DOMAIN rib[k].routes : rib[k].routes[i] \in RoutesAt(rib, k)
    BY DEF RoutesAt, RoutesOf, ToSet
  <2> HIDE DEF rib
  <2>3. \A k \in DOMAIN rib : \A i \in DOMAIN rib[k].routes : ~rib[k].routes[i].cap
    BY <2>1, <2>2 DEF PlainRoutes
  <2> QED
    BY <2>3 DEF Captures
<1>3. \A m \in DOMAIN rib : /\ OnFace(rib[m], f) # {} <=> Owns(rib, m, f)
                            /\ InheritableOnFace(rib[m], f) # {} <=> Gives(rib, m, f)
  BY RoutesMean
<1>4. n \in DOMAIN rib /\ DOMAIN rib \subseteq Name
  BY DEF IsRib
<1>5. \A m \in above : offers(m) <=> IF m = n THEN Owns(rib, n, f) ELSE Gives(rib, m, f)
  <2> HIDE DEF rib
  <2> QED
    BY <1>2, <1>3, <1>4
<1> HIDE DEF rib, offers
<1>6. from # {} <=> Wanted(rib, n, f)
  <2>1. IsPrefix(n, n)
    BY <1>4, PrefixFacts
  <2> QED
    BY <1>4, <1>5, <2>1 DEF Wanted, Above, IsStrictPrefix
<1>7. from # {} => \E m \in from : \A k \in from : Len(k) <= Len(m)
  <2> DEFINE k == Len(n)
  <2>1. from \subseteq Name /\ k \in Nat /\ \A m \in from : Len(m) <= k
    BY <1>4, PrefixMeans
  <2> HIDE DEF from, k
  <2> QED
    BY <2>1, LongestName
<1> HIDE DEF from
<1> QED
  BY <1>1, <1>6, <1>7 DEF rib

(* When all updates are done the FIB is what the RIB asks for: a next hop for every name
   with an entry and every face that exists for which the entry has a route or is given
   one by a name above, and no other, with the cost of the entry's own route. This holds
   whatever was registered and unregistered, in which order the FIB answered, which
   commands timed out and were executed twice, which batches failed and which faces
   came and went, as long as none of the four events of FibFollowsRib happened. *)
THEOREM FibFollows == Spec => []FibFollowsRib
<1>1. FollowInv => FibFollowsRib
  <2> SUFFICES ASSUME FollowInv, Quiescent, s.odd = {}
               PROVE  /\ DOMAIN fib = {x \in (DOMAIN s.rib) \X Face :
                                          faces[x[2]] = "up" /\ Giving(x[1], x[2]) # {}}
                      /\ \A x \in DOMAIN fib :
                            LET e == s.rib[x[1]]
                            IN  OnFace(e, x[2]) # {} => fib[x] = Cheapest(e, OnFace(e, x[2])).cost
    BY DEF FibFollowsRib
  <2>1. Clean(s) /\ Batches(s) = {}
    BY DEF Clean, Quiescent, Batches
  <2>2. /\ PlainRib(s.rib)
        /\ Follows(s.rib, fib, faces)
        /\ IsRib(s.rib)
        /\ DOMAIN fib \subseteq NextHops
        /\ \A x \in DOMAIN fib : faces[x[2]] = "up"
    BY <2>1 DEF FollowInv, FollowSound, FollowOK, HopsInv, ServiceInv, ServiceOK, RibOK, FibOK
  <2>3. \A x \in NextHops : x = <<x[1], x[2]>> /\ x[1] \in Name /\ x[2] \in Face
    BY DEF NextHops
  <2>4. DOMAIN s.rib \subseteq Name
    BY <2>2 DEF IsRib
  <2>5. \A n \in DOMAIN s.rib : \A f \in Face : Giving(n, f) # {} <=> Wanted(s.rib, n, f)
    BY <2>2, GivingMeans
  <2>6. \A x \in NextHops : faces[x[2]] = "up" => HopIn(s.rib, fib, x)
    BY <2>2 DEF Follows
  <2>7. ASSUME NEW x
        PROVE  x \in DOMAIN fib <=> x \in {y \in (DOMAIN s.rib) \X Face :
                                             faces[y[2]] = "up" /\ Giving(y[1], y[2]) # {}}
    <3>1. ASSUME x \in DOMAIN fib
          PROVE  /\ x \in (DOMAIN s.rib) \X Face
                 /\ faces[x[2]] = "up"
                 /\ Giving(x[1], x[2]) # {}
      <4>1. x \in NextHops /\ faces[x[2]] = "up" /\ Wanted(s.rib, x[1], x[2])
        BY <2>2, <2>6, <3>1 DEF HopIn
      <4>2. x[1] \in DOMAIN s.rib /\ x[2] \in Face /\ x = <<x[1], x[2]>>
        BY <2>3, <4>1 DEF Wanted
      <4> QED
        BY <2>5, <4>1, <4>2
    <3>2. ASSUME x \in (DOMAIN s.rib) \X Face, faces[x[2]] = "up", Giving(x[1], x[2]) # {}
          PROVE  x \in DOMAIN fib
      <4>1. x[1] \in DOMAIN s.rib /\ x[2] \in Face /\ x \in NextHops
        BY <2>4, <3>2 DEF NextHops
      <4>2. Wanted(s.rib, x[1], x[2])
        BY <2>5, <3>2, <4>1
      <4> QED
        BY <2>6, <3>2, <4>1, <4>2 DEF HopIn
    <3> QED
      BY <3>1, <3>2
  <2>8. ASSUME NEW x \in DOMAIN fib, OnFace(s.rib[x[1]], x[2]) # {}
        PROVE  fib[x] = Cheapest(s.rib[x[1]], OnFace(s.rib[x[1]], x[2])).cost
    <3> DEFINE e == s.rib[x[1]]
    <3>1. x \in NextHops /\ HopIn(s.rib, fib, x)
      BY <2>2, <2>6
    <3>2. x[1] \in DOMAIN s.rib
      BY <3>1 DEF HopIn, Wanted
    <3>3. RoutesAt(s.rib, x[1]) = RoutesOf(e) /\ RoutesOnce(e)
      BY <2>2, <3>2 DEF RoutesAt, IsRib
    <3>4. /\ \A r, q \in RoutesOf(e) : r.face = q.face => r = q
          /\ \A r \in RoutesOf(e) : r.face = x[2] => fib[x] = r.cost
      BY <2>2, <3>1, <3>3 DEF PlainRib, PlainRoutes, HopIn
    <3> HIDE DEF e
    <3>5. \A i \in OnFace(e, x[2]) : e.routes[i] \in RoutesOf(e) /\ e.routes[i].face = x[2]
      BY DEF OnFace, RoutesOf, ToSet
    <3>6. PICK i \in OnFace(e, x[2]) : TRUE
      BY <2>8 DEF e
    <3>7. OnFace(e, x[2]) = {i}
      <4> SUFFICES ASSUME NEW j \in OnFace(e, x[2]) PROVE j = i
        BY <3>6
      <4>1. e.routes[i] = e.routes[j]
        BY <3>4, <3>5, <3>6
      <4>2. SameFaceAndOrigin(e.routes[i], e.routes[j]) /\ i \in DOMAIN e.routes /\ j \in DOMAIN e.routes
        BY <3>6, <4>1 DEF SameFaceAndOrigin, OnFace
      <4> QED
        BY <3>3, <4>2 DEF RoutesOnce
    <3>8. Cheapest(e, {i}) = e.routes[i]
      BY CheapestOfOne
    <3> QED
      BY <3>4, <3>5, <3>6, <3>7, <3>8 DEF e
  <2> QED
    BY <2>7, <2>8
<1> QED
  BY <1>1, InitFollow, NextFollowInv, PTL DEF Spec

=============================================================================
