----------------------------- MODULE ListFacts ------------------------------
(***************************************************************************)
(* Facts about numbers, finite sets and lists that the proofs of several   *)
(* components need. Induction is used on sets: a set of numbers that has   *)
(* zero, and the successor of each of its elements, has every number.      *)
(***************************************************************************)
EXTENDS Lists, FiniteSets, TLAPS, WellFoundedInduction, SequenceTheorems,
        FunctionTheorems, FiniteSetTheorems

\* A set of numbers that is not empty has a least element.
LEMMA LeastNumber ==
    ASSUME NEW T, T \subseteq Nat, T # {}
    PROVE  \E x \in T : \A y \in T : x <= y
<1> DEFINE R == OpToRel(<, Nat)
<1>1. IsWellFoundedOn(R, Nat) BY NatLessThanWellFounded
<1>2. \A x, y \in Nat : y < x => <<y, x>> \in R BY DEF OpToRel
<1> HIDE DEF R
<1>3. PICK x \in T : \A y \in T : <<y, x>> \notin R BY <1>1, WFMin
<1>4. \A y \in T : ~(y < x) BY <1>2, <1>3
<1> QED BY <1>3, <1>4

\* Induction over the numbers, on the set of those that have the property.
LEMMA NatInductionOnSet ==
    ASSUME NEW P, 0 \in P, \A n \in Nat : n \in P => n + 1 \in P
    PROVE  Nat \subseteq P
<1> DEFINE T == Nat \ P
<1> SUFFICES ASSUME T # {} PROVE FALSE OBVIOUS
<1>1. PICK x \in T : \A y \in T : x <= y BY LeastNumber
<1>2. x # 0 BY <1>1
<1>3. x - 1 \in P BY <1>1, <1>2
<1> QED BY <1>1, <1>2, <1>3

-----------------------------------------------------------------------------
(* Erasing elements of a list *)

\* One step of the recursion of SeqWithout.
KeptAfter(f, s, S, i) ==
    IF i = 0 THEN <<>>
    ELSE IF s[i] \in S THEN f[i - 1] ELSE Append(f[i - 1], s[i])

\* The function that SeqWithout is defined by exists, and satisfies its equation.
LEMMA SeqWithoutDef ==
    ASSUME NEW T, NEW s \in Seq(T), NEW S
    PROVE  \E f : /\ f = [i \in 0 .. Len(s) |-> KeptAfter(f, s, S, i)]
                  /\ SeqWithout(s, S) = f[Len(s)]
<1> DEFINE Part(m) == \E f : f = [i \in 0 .. m |-> KeptAfter(f, s, S, i)]
           P == {m \in Nat : Part(m)}
<1>1. 0 \in P
  <2> DEFINE g == [i \in 0 .. 0 |-> <<>>]
  <2>1. g = [i \in 0 .. 0 |-> KeptAfter(g, s, S, i)] BY DEF KeptAfter
  <2> QED BY <2>1
<1>2. ASSUME NEW m \in Nat, m \in P PROVE m + 1 \in P
  <2>1. PICK f : f = [i \in 0 .. m |-> KeptAfter(f, s, S, i)] BY <1>2
  <2> DEFINE g == [i \in 0 .. m + 1 |-> IF i <= m THEN f[i] ELSE KeptAfter(f, s, S, i)]
  <2>2. ASSUME NEW i \in 0 .. m + 1 PROVE g[i] = KeptAfter(g, s, S, i)
    <3>1. i # 0 => i - 1 \in 0 .. m /\ g[i - 1] = f[i - 1] OBVIOUS
    <3>2. KeptAfter(g, s, S, i) = KeptAfter(f, s, S, i)
      BY <3>1 DEF KeptAfter
    <3>3. i <= m => f[i] = KeptAfter(f, s, S, i) BY <2>1
    <3>4. g[i] = KeptAfter(f, s, S, i) BY <3>3
    <3> QED BY <3>2, <3>4
  <2>3. g = [i \in 0 .. m + 1 |-> KeptAfter(g, s, S, i)] BY <2>2
  <2> HIDE DEF g
  <2> QED BY <2>3
<1>3. Part(Len(s))
  <2> HIDE DEF P
  <2>1. Nat \subseteq P BY <1>1, <1>2, NatInductionOnSet
  <2> QED BY <2>1, LenProperties DEF P
<1> DEFINE K == CHOOSE f : f = [i \in 0 .. Len(s) |-> KeptAfter(f, s, S, i)]
<1>4. K = [i \in 0 .. Len(s) |-> KeptAfter(K, s, S, i)] BY <1>3
<1>5. SeqWithout(s, S) = K[Len(s)] BY DEF SeqWithout, KeptAfter
<1> QED BY <1>4, <1>5

\* Every element of the list is there once.
Once(s) == \A i, j \in 1 .. Len(s) : s[i] = s[j] => i = j

Members(s) == {s[i] : i \in 1 .. Len(s)}

LEMMA AppendMembers ==
    ASSUME NEW T, NEW s \in Seq(T), NEW x \in T
    PROVE  /\ Append(s, x) \in Seq(T)
           /\ Members(Append(s, x)) = Members(s) \cup {x}
           /\ Once(s) /\ x \notin Members(s) => Once(Append(s, x))
<1>1. /\ Append(s, x) \in Seq(T)
      /\ Len(s) \in Nat
      /\ Len(Append(s, x)) = Len(s) + 1
      /\ \A i \in 1 .. Len(s) : Append(s, x)[i] = s[i]
      /\ Append(s, x)[Len(s) + 1] = x
  BY AppendProperties, LenProperties
<1> DEFINE t == Append(s, x)
<1> HIDE DEF t
<1>2. Members(t) = Members(s) \cup {x}
  <2>1. \A i \in 1 .. Len(s) + 1 : i \in 1 .. Len(s) \/ i = Len(s) + 1 BY <1>1
  <2>2. \A i \in 1 .. Len(s) : i \in 1 .. Len(s) + 1 BY <1>1
  <2>3. Len(s) + 1 \in 1 .. Len(s) + 1 BY <1>1
  <2> QED BY <1>1, <2>1, <2>2, <2>3 DEF Members, t
<1>3. Once(s) /\ x \notin Members(s) => Once(t)
  BY <1>1 DEF Once, Members, t
<1> QED BY <1>1, <1>2, <1>3 DEF t

\* What is left of a list: the elements that are not erased, each as often as before.
LEMMA SeqWithoutMembers ==
    ASSUME NEW T, NEW s \in Seq(T), NEW S
    PROVE  /\ SeqWithout(s, S) \in Seq(T)
           /\ Members(SeqWithout(s, S)) = Members(s) \ S
           /\ Once(s) => Once(SeqWithout(s, S))
<1>1. PICK f : /\ f = [i \in 0 .. Len(s) |-> KeptAfter(f, s, S, i)]
               /\ SeqWithout(s, S) = f[Len(s)]
  BY SeqWithoutDef
<1>2. Len(s) \in Nat /\ \A i \in 1 .. Len(s) : s[i] \in T BY LenProperties
<1> DEFINE First(n) == {s[i] : i \in 1 .. n}
           Good(n) == /\ f[n] \in Seq(T)
                      /\ Members(f[n]) = First(n) \ S
                      /\ Once(s) => Once(f[n])
           P == {n \in Nat : n <= Len(s) => Good(n)}
<1>3. 0 \in P
  <2>1. f[0] = <<>> BY <1>1, <1>2 DEF KeptAfter
  <2>2. Members(<<>>) = {} /\ Once(<<>>) /\ <<>> \in Seq(T)
    BY EmptySeq DEF Members, Once
  <2>3. First(0) = {} OBVIOUS
  <2> QED BY <2>1, <2>2, <2>3
<1>4. ASSUME NEW n \in Nat, n \in P PROVE n + 1 \in P
  <2> SUFFICES ASSUME n + 1 <= Len(s) PROVE Good(n + 1) OBVIOUS
  <2>1. Good(n) BY <1>2, <1>4
  <2>2. First(n + 1) = First(n) \cup {s[n + 1]} /\ s[n + 1] \in T
    <3>1. \A i \in 1 .. n + 1 : i \in 1 .. n \/ i = n + 1 OBVIOUS
    <3>2. 1 .. n \subseteq 1 .. n + 1 /\ n + 1 \in 1 .. n + 1 OBVIOUS
    <3>3. n + 1 \in 1 .. Len(s) BY <1>2
    <3> QED BY <3>1, <3>2, <3>3, <1>2
  <2>3. f[n + 1] = IF s[n + 1] \in S THEN f[n] ELSE Append(f[n], s[n + 1])
    <3>1. n + 1 \in 0 .. Len(s) /\ n + 1 # 0 /\ (n + 1) - 1 = n BY <1>2
    <3>2. f[n + 1] = KeptAfter(f, s, S, n + 1) BY <1>1, <3>1
    <3> QED BY <3>1, <3>2 DEF KeptAfter
  <2>4. CASE s[n + 1] \in S
    <3>1. First(n + 1) \ S = First(n) \ S BY <2>2, <2>4
    <3> HIDE DEF First
    <3> QED BY <2>1, <2>3, <2>4, <3>1
  <2>5. CASE s[n + 1] \notin S
    <3>1. f[n + 1] = Append(f[n], s[n + 1]) BY <2>3, <2>5
    <3>2. Once(s) => s[n + 1] \notin First(n)
      <4>1. \A i \in 1 .. n : i \in 1 .. Len(s) /\ i # n + 1 BY <1>2
      <4>2. n + 1 \in 1 .. Len(s) BY <1>2
      <4> QED BY <4>1, <4>2 DEF Once
    <3> HIDE DEF First
    <3>3. /\ f[n + 1] \in Seq(T)
          /\ Members(f[n + 1]) = Members(f[n]) \cup {s[n + 1]}
          /\ Once(f[n]) /\ s[n + 1] \notin Members(f[n]) => Once(f[n + 1])
      BY <2>1, <2>2, <3>1, AppendMembers
    <3> QED BY <2>1, <2>2, <2>5, <3>2, <3>3
  <2> QED BY <2>4, <2>5
<1>5. Good(Len(s))
  <2> HIDE DEF P
  <2>1. Nat \subseteq P BY <1>3, <1>4, NatInductionOnSet
  <2>2. Len(s) \in P /\ Len(s) <= Len(s) BY <2>1, <1>2
  <2> HIDE DEF Good
  <2> QED BY <2>2 DEF P
<1>6. First(Len(s)) = Members(s) BY DEF Members
<1> QED BY <1>1, <1>5, <1>6

LEMMA ConcatMembers ==
    ASSUME NEW T, NEW s \in Seq(T), NEW t \in Seq(T)
    PROVE  /\ s \o t \in Seq(T)
           /\ Members(s \o t) = Members(s) \cup Members(t)
           /\ Once(s) /\ Once(t) /\ Members(s) \cap Members(t) = {} => Once(s \o t)
<1> DEFINE u == s \o t
<1>1. /\ u \in Seq(T)
      /\ Len(s) \in Nat /\ Len(t) \in Nat
      /\ Len(u) = Len(s) + Len(t)
      /\ \A i \in 1 .. Len(s) : u[i] = s[i]
      /\ \A i \in 1 .. Len(t) : u[Len(s) + i] = t[i]
  <2>1. \A i \in 1 .. Len(s) + Len(t) : u[i] = IF i <= Len(s) THEN s[i] ELSE t[i - Len(s)]
    BY ConcatProperties
  <2>2. Len(s) \in Nat /\ Len(t) \in Nat BY LenProperties
  <2>3. ASSUME NEW i \in 1 .. Len(t) PROVE u[Len(s) + i] = t[i]
    <3>1. /\ Len(s) + i \in 1 .. Len(s) + Len(t)
          /\ ~(Len(s) + i <= Len(s))
          /\ (Len(s) + i) - Len(s) = i
      BY <2>2
    <3> QED BY <2>1, <3>1
  <2>4. ASSUME NEW i \in 1 .. Len(s) PROVE u[i] = s[i]
    BY <2>1, <2>2
  <2> QED BY <2>2, <2>3, <2>4, ConcatProperties
<1> HIDE DEF u
<1>2. \A i \in 1 .. Len(u) : i \in 1 .. Len(s) \/ \E j \in 1 .. Len(t) : i = Len(s) + j
  <2> SUFFICES ASSUME NEW i \in 1 .. Len(u), ~(i \in 1 .. Len(s))
               PROVE  \E j \in 1 .. Len(t) : i = Len(s) + j
    OBVIOUS
  <2>1. i - Len(s) \in 1 .. Len(t) /\ i = Len(s) + (i - Len(s)) BY <1>1
  <2> QED BY <2>1
<1>3. /\ \A i \in 1 .. Len(s) : i \in 1 .. Len(u)
      /\ \A i \in 1 .. Len(t) : Len(s) + i \in 1 .. Len(u)
  BY <1>1
<1>4. Members(u) = Members(s) \cup Members(t)
  <2>1. ASSUME NEW i \in 1 .. Len(u) PROVE u[i] \in Members(s) \cup Members(t)
    <3>1. CASE i \in 1 .. Len(s) BY <1>1, <3>1 DEF Members
    <3>2. CASE \E j \in 1 .. Len(t) : i = Len(s) + j BY <1>1, <3>2 DEF Members
    <3> QED BY <1>2, <3>1, <3>2
  <2>2. Members(s) \cup Members(t) \subseteq Members(u) BY <1>1, <1>3 DEF Members
  <2> QED BY <2>1, <2>2 DEF Members
<1>5. ASSUME Once(s), Once(t), Members(s) \cap Members(t) = {},
             NEW i \in 1 .. Len(u), NEW j \in 1 .. Len(u), u[i] = u[j]
      PROVE  i = j
  <2>1. \A a \in 1 .. Len(s), b \in 1 .. Len(t) : s[a] # t[b] BY <1>5 DEF Members
  <2>2. CASE i \in 1 .. Len(s) /\ j \in 1 .. Len(s) BY <1>1, <1>5, <2>2 DEF Once
  <2>3. CASE i \in 1 .. Len(s) /\ j \notin 1 .. Len(s) BY <1>1, <1>2, <1>5, <2>1, <2>3
  <2>4. CASE i \notin 1 .. Len(s) /\ j \in 1 .. Len(s) BY <1>1, <1>2, <1>5, <2>1, <2>4
  <2>5. CASE i \notin 1 .. Len(s) /\ j \notin 1 .. Len(s)
    <3>1. PICK a \in 1 .. Len(t) : i = Len(s) + a BY <1>2, <2>5
    <3>2. PICK b \in 1 .. Len(t) : j = Len(s) + b BY <1>2, <2>5
    <3>3. t[a] = t[b] BY <1>1, <1>5, <3>1, <3>2
    <3> QED BY <1>5, <3>1, <3>2, <3>3 DEF Once
  <2> QED BY <2>2, <2>3, <2>4, <2>5
<1>6. Once(s) /\ Once(t) /\ Members(s) \cap Members(t) = {} => Once(u)
  BY <1>5 DEF Once
<1> QED BY <1>1, <1>4, <1>6 DEF u

\* A part at the front of a list without repetition has as many elements as positions.
LEMMA FrontCardinality ==
    ASSUME NEW T, NEW s \in Seq(T), Once(s), NEW n \in 0 .. Len(s)
    PROVE  LET front == {s[i] : i \in 1 .. n} IN IsFiniteSet(front) /\ Cardinality(front) = n
<1> DEFINE front == {s[i] : i \in 1 .. n}
           f == [i \in 1 .. n |-> s[i]]
<1>1. Len(s) \in Nat BY LenProperties
<1>2. n \in Nat /\ 1 .. n \subseteq 1 .. Len(s) BY <1>1
<1>3. f \in Bijection(1 .. n, front)
  <2>1. f \in [1 .. n -> front] OBVIOUS
  <2>2. \A a, b \in 1 .. n : f[a] = f[b] => a = b BY <1>2 DEF Once
  <2>3. \A t \in front : \E a \in 1 .. n : f[a] = t OBVIOUS
  <2> HIDE DEF f, front
  <2> QED BY <2>1, <2>2, <2>3, Fun_IsBij
<1>4. ExistsBijection(1 .. n, front) BY <1>3, Fun_ExistsBij
<1> HIDE DEF front
<1>5. IsFiniteSet(front) BY <1>2, <1>4, FS_NatBijection
<1>6. Cardinality(front) = n BY <1>2, <1>4, FS_CountingElements
<1> QED BY <1>5, <1>6 DEF front

-----------------------------------------------------------------------------
(* Ranks *)

\* In a finite set with a strict total order there is an element with any number of
\* elements below it, up to all of the others.
LEMMA RankExists ==
    ASSUME NEW S, IsFiniteSet(S), NEW R,
           \A x \in S : <<x, x>> \notin R,
           \A x, y, z \in S : <<x, y>> \in R /\ <<y, z>> \in R => <<x, z>> \in R,
           \A x, y \in S : x = y \/ <<x, y>> \in R \/ <<y, x>> \in R,
           NEW p \in 1 .. Cardinality(S)
    PROVE  \E x \in S : Cardinality({y \in S : <<y, x>> \in R}) = p - 1
<1> DEFINE Below(x) == {y \in S : <<y, x>> \in R}
           N == 0 .. Cardinality(S) - 1
           r == [x \in S |-> Cardinality(Below(x))]
<1>1. Cardinality(S) \in Nat BY FS_CardinalityType
<1>2. ASSUME NEW x \in S
      PROVE  IsFiniteSet(Below(x)) /\ Cardinality(Below(x)) \in N
  <2>1. Below(x) \in SUBSET S /\ Below(x) # S OBVIOUS
  <2> HIDE DEF Below
  <2>2. /\ IsFiniteSet(Below(x))
        /\ Cardinality(Below(x)) <= Cardinality(S)
        /\ Cardinality(Below(x)) # Cardinality(S)
    BY <2>1, FS_Subset
  <2>3. Cardinality(Below(x)) \in Nat BY <2>2, FS_CardinalityType
  <2> QED BY <1>1, <2>2, <2>3
<1>3. ASSUME NEW x \in S, NEW y \in S, <<x, y>> \in R
      PROVE  Cardinality(Below(x)) < Cardinality(Below(y))
  <2>1. Below(x) \in SUBSET Below(y) /\ Below(x) # Below(y) BY <1>3
  <2> HIDE DEF Below
  <2>2. IsFiniteSet(Below(y)) /\ Cardinality(Below(y)) \in Nat BY <1>1, <1>2
  <2>3. Cardinality(Below(x)) \in Nat BY <1>1, <1>2
  <2>4. /\ Cardinality(Below(x)) <= Cardinality(Below(y))
        /\ Cardinality(Below(y)) # Cardinality(Below(x))
    BY <2>1, <2>2, FS_Subset
  <2> QED BY <2>2, <2>3, <2>4
<1>4. r \in Injection(S, N)
  <2> HIDE DEF Below
  <2>1. r \in [S -> N]
    <3> HIDE DEF N
    <3> QED BY <1>2
  <2>2. ASSUME NEW x \in S, NEW y \in S, r[x] = r[y] PROVE x = y
    <3>1. Cardinality(Below(x)) \in Nat /\ Cardinality(Below(y)) \in Nat BY <1>1, <1>2
    <3>2. Cardinality(Below(x)) = Cardinality(Below(y)) BY <2>2
    <3>3. /\ ~(Cardinality(Below(x)) < Cardinality(Below(y)))
          /\ ~(Cardinality(Below(y)) < Cardinality(Below(x)))
      BY <3>1, <3>2
    <3>4. <<x, y>> \notin R /\ <<y, x>> \notin R BY <1>3, <3>3
    <3> QED BY <3>4
  <2> HIDE DEF r, N
  <2> QED BY <2>1, <2>2, Fun_IsInj
<1>5. IsFiniteSet(N) /\ Cardinality(N) = Cardinality(S)
  <2>1. 0 \in Int /\ Cardinality(S) - 1 \in Int /\ 1 <= Cardinality(S) BY <1>1
  <2>2. /\ IsFiniteSet(N)
        /\ Cardinality(N) = IF 0 > Cardinality(S) - 1 THEN 0 ELSE Cardinality(S) - 1 - 0 + 1
    BY <2>1, FS_Interval
  <2> QED BY <1>1, <2>1, <2>2
<1> HIDE DEF r, N
<1>6. r \in Surjection(S, N) BY <1>4, <1>5, FS_Injection
<1>7. p - 1 \in N BY <1>1 DEF N
<1>8. PICK x \in S : r[x] = p - 1 BY <1>6, <1>7, Fun_SurjectionProperties
<1> QED BY <1>8 DEF r

-----------------------------------------------------------------------------
(* Loops *)

\* f is the run of a loop of n rounds over the states in S: the state after round i
\* is computed from the one before by F[i].
IsRun(f, S, b, n, F) ==
    /\ f \in [0 .. n -> S]
    /\ f[0] = b
    /\ \A i \in 1 .. n : f[i] = F[i][f[i - 1]]

LEMMA LoopRuns ==
    ASSUME NEW S, NEW b \in S, NEW n \in Nat, NEW F \in [1 .. n -> [S -> S]]
    PROVE  \E f : IsRun(f, S, b, n, F)
<1> DEFINE Part(m) == \E f \in [0 .. m -> S] :
                         f[0] = b /\ \A i \in 1 .. m : f[i] = F[i][f[i - 1]]
           P == {m \in Nat : m <= n => Part(m)}
<1>1. 0 \in P
  <2> DEFINE g == [i \in 0 .. 0 |-> b]
  <2>1. g \in [0 .. 0 -> S] /\ g[0] = b /\ 1 .. 0 = {} OBVIOUS
  <2> HIDE DEF g
  <2> QED BY <2>1
<1>2. ASSUME NEW m \in Nat, m \in P PROVE m + 1 \in P
  <2> SUFFICES ASSUME m + 1 <= n PROVE Part(m + 1) OBVIOUS
  <2>1. PICK f \in [0 .. m -> S] :
            f[0] = b /\ \A i \in 1 .. m : f[i] = F[i][f[i - 1]]
    BY <1>2
  <2> DEFINE g == [i \in 0 .. m + 1 |-> IF i <= m THEN f[i] ELSE F[m + 1][f[m]]]
  <2>2. F[m + 1][f[m]] \in S
    <3>1. m + 1 \in 1 .. n /\ f[m] \in S BY <2>1
    <3> QED BY <3>1
  <2>3. g \in [0 .. m + 1 -> S] BY <2>1, <2>2
  <2>4. g[0] = b BY <2>1
  <2>5. ASSUME NEW i \in 1 .. m + 1 PROVE g[i] = F[i][g[i - 1]]
    <3>1. g[i - 1] = f[i - 1] OBVIOUS
    <3>2. CASE i <= m BY <2>1, <3>1, <3>2
    <3>3. CASE i = m + 1 BY <3>1, <3>3
    <3> QED BY <3>2, <3>3
  <2> HIDE DEF g
  <2> QED BY <2>3, <2>4, <2>5
<1>3. n \in P
  <2> HIDE DEF P
  <2> QED BY <1>1, <1>2, NatInductionOnSet
<1> QED BY <1>3 DEF IsRun

\* What every round keeps, the loop keeps.
LEMMA LoopKeeps ==
    ASSUME NEW S, NEW n \in Nat, NEW f, f[0] \in S,
           \A i \in 1 .. n : f[i - 1] \in S => f[i] \in S
    PROVE  f[n] \in S
<1> DEFINE P == {i \in Nat : i <= n => f[i] \in S}
<1>1. 0 \in P OBVIOUS
<1>2. ASSUME NEW i \in Nat, i \in P PROVE i + 1 \in P
  <2>1. i + 1 <= n => i + 1 \in 1 .. n /\ (i + 1) - 1 = i BY <1>2
  <2> QED BY <1>2, <2>1
<1>3. n \in P
  <2> HIDE DEF P
  <2> QED BY <1>1, <1>2, NatInductionOnSet
<1> QED BY <1>3

=============================================================================
