------------------------- MODULE ContentStoreProofs -------------------------
(***************************************************************************)
(* Theorems about ContentStore, for any set of Data and Interests, any     *)
(* limits and any ERASE_LIMIT: after every step the cleanup queues of the  *)
(* policy hold each entry of the table once and nothing else, the store is *)
(* within its limit, the queues of priority_fifo tell what the entries are *)
(* and an eviction takes unsolicited entries first.                        *)
(***************************************************************************)
EXTENDS ContentStore, ListFacts

-----------------------------------------------------------------------------
(* The order of the table *)

LEMMA NameLessIrreflexive ==
    ASSUME NEW m \in Seq(Nat)
    PROVE  ~NameLess(m, m)
<1>1. Len(m) \in Nat /\ \A i \in 1 .. Len(m) : m[i] \in Nat BY LenProperties
<1> QED BY <1>1 DEF NameLess

LEMMA NameLessTransitive ==
    ASSUME NEW m \in Seq(Nat), NEW n \in Seq(Nat), NEW o \in Seq(Nat),
           NameLess(m, n), NameLess(n, o)
    PROVE  NameLess(m, o)
<1>1. /\ Len(m) \in Nat /\ \A i \in 1 .. Len(m) : m[i] \in Nat
      /\ Len(n) \in Nat /\ \A i \in 1 .. Len(n) : n[i] \in Nat
      /\ Len(o) \in Nat /\ \A i \in 1 .. Len(o) : o[i] \in Nat
  BY LenProperties
<1>2. PICK i \in 1 .. Len(n) : /\ i <= Len(m) + 1
                               /\ \A j \in 1 .. i - 1 : m[j] = n[j]
                               /\ i <= Len(m) => m[i] < n[i]
  BY DEF NameLess
<1>3. PICK k \in 1 .. Len(o) : /\ k <= Len(n) + 1
                               /\ \A j \in 1 .. k - 1 : n[j] = o[j]
                               /\ k <= Len(n) => n[k] < o[k]
  BY DEF NameLess
<1>4. CASE i < k
  <2>1. i \in 1 .. Len(o) /\ i \in 1 .. k - 1 BY <1>1, <1>2, <1>3, <1>4
  <2>2. \A j \in 1 .. i - 1 : m[j] = o[j]
    <3>1. \A j \in 1 .. i - 1 : j \in 1 .. k - 1 BY <1>4
    <3> QED BY <1>2, <1>3, <3>1
  <2>3. i <= Len(m) => m[i] < o[i] BY <1>2, <1>3, <2>1
  <2> QED BY <1>2, <2>1, <2>2, <2>3 DEF NameLess
<1>5. CASE i = k
  <2>1. i <= Len(m) => m[i] < o[i]
    <3> SUFFICES ASSUME i <= Len(m) PROVE m[i] < o[i] OBVIOUS
    <3>1. i \in 1 .. Len(m) /\ i \in 1 .. Len(n) /\ i \in 1 .. Len(o) BY <1>1, <1>2, <1>3, <1>5
    <3>2. m[i] \in Nat /\ n[i] \in Nat /\ o[i] \in Nat BY <1>1, <3>1
    <3>3. m[i] < n[i] /\ n[i] < o[i] BY <1>1, <1>2, <1>3, <1>5, <3>1
    <3> QED BY <3>2, <3>3
  <2>2. \A j \in 1 .. k - 1 : m[j] = o[j] BY <1>2, <1>3, <1>5
  <2> QED BY <1>2, <1>3, <1>5, <2>1, <2>2 DEF NameLess
<1>6. CASE k < i
  <2>4. i <= Len(m) + 1 BY <1>2
  <2>1. k <= Len(m) + 1 /\ k <= Len(m) /\ k <= Len(n) /\ k \in 1 .. i - 1
    BY <1>1, <1>6, <2>4
  <2>2. m[k] < o[k] BY <1>2, <1>3, <2>1
  <2>3. \A j \in 1 .. k - 1 : m[j] = o[j]
    <3>1. \A j \in 1 .. k - 1 : j \in 1 .. i - 1 BY <1>6
    <3> QED BY <1>2, <1>3, <3>1
  <2> QED BY <2>1, <2>2, <2>3 DEF NameLess
<1> QED BY <1>4, <1>5, <1>6

LEMMA NameLessTotal ==
    ASSUME NEW m \in Seq(Nat), NEW n \in Seq(Nat), m # n
    PROVE  NameLess(m, n) \/ NameLess(n, m)
<1>1. /\ Len(m) \in Nat /\ \A i \in 1 .. Len(m) : m[i] \in Nat
      /\ Len(n) \in Nat /\ \A i \in 1 .. Len(n) : n[i] \in Nat
  BY LenProperties
<1> DEFINE Differ(i) == \/ i = Len(m) + 1
                        \/ i = Len(n) + 1
                        \/ m[i] # n[i]
           D == {i \in Nat : 1 <= i /\ i <= Len(m) + 1 /\ i <= Len(n) + 1 /\ Differ(i)}
<1>2. D # {}
  <2>1. CASE Len(m) <= Len(n)
    <3>1. Len(m) + 1 \in D BY <1>1, <2>1
    <3> QED BY <3>1
  <2>2. CASE Len(n) <= Len(m)
    <3>1. Len(n) + 1 \in D BY <1>1, <2>2
    <3> QED BY <3>1
  <2> QED BY <1>1, <2>1, <2>2
<1>3. PICK i \in D : \A j \in D : i <= j BY <1>2, LeastNumber
<1>4. ASSUME NEW j \in 1 .. i - 1 PROVE m[j] = n[j]
  <2>1. j \in Nat /\ 1 <= j /\ j <= Len(m) + 1 /\ j <= Len(n) + 1 /\ ~(i <= j) BY <1>1, <1>3
  <2> QED BY <1>3, <2>1
<1>5. CASE i <= Len(m) /\ i <= Len(n)
  <2>1. i \in 1 .. Len(m) /\ i \in 1 .. Len(n) /\ m[i] # n[i] BY <1>1, <1>3, <1>5
  <2>2. m[i] < n[i] \/ n[i] < m[i] BY <1>1, <2>1
  <2> QED BY <1>1, <1>3, <1>4, <2>1, <2>2 DEF NameLess
<1>6. CASE i = Len(m) + 1 /\ i <= Len(n)
  <2>1. i \in 1 .. Len(n) /\ ~(i <= Len(m)) BY <1>1, <1>3, <1>6
  <2> QED BY <1>4, <1>6, <2>1 DEF NameLess
<1>7. CASE i = Len(n) + 1 /\ i <= Len(m)
  <2>1. i \in 1 .. Len(m) /\ ~(i <= Len(n)) BY <1>1, <1>3, <1>7
  <2> QED BY <1>4, <1>7, <2>1 DEF NameLess
<1>8. CASE i = Len(m) + 1 /\ i = Len(n) + 1
  <2>1. Len(m) = Len(n) /\ \A j \in 1 .. Len(m) : m[j] = n[j] BY <1>1, <1>4, <1>8
  <2> QED BY <2>1, SeqEqual
<1> QED BY <1>1, <1>3, <1>5, <1>6, <1>7, <1>8

\* The table is totally ordered: Data that compare equal are the same packet.
LEMMA DataLessOrder ==
    /\ \A d \in Data : ~DataLess(d, d)
    /\ \A d, e, f \in Data : DataLess(d, e) /\ DataLess(e, f) => DataLess(d, f)
    /\ \A d, e \in Data : d = e \/ DataLess(d, e) \/ DataLess(e, d)
<1>1. \A d \in Data : d.name \in Seq(Nat) /\ d.digest \in Nat BY LookupAssumption
<1>2. \A d \in Data : ~DataLess(d, d) BY <1>1, NameLessIrreflexive DEF DataLess
<1>3. ASSUME NEW d \in Data, NEW e \in Data, NEW f \in Data, DataLess(d, e), DataLess(e, f)
      PROVE  DataLess(d, f)
  <2>1. CASE NameLess(d.name, e.name) /\ NameLess(e.name, f.name)
    BY <1>1, <2>1, NameLessTransitive DEF DataLess
  <2>2. CASE d.name = e.name /\ d.digest < e.digest /\ e.name = f.name /\ e.digest < f.digest
    BY <1>1, <2>2 DEF DataLess
  <2> QED BY <1>3, <2>1, <2>2 DEF DataLess
<1>4. ASSUME NEW d \in Data, NEW e \in Data, d # e
      PROVE  DataLess(d, e) \/ DataLess(e, d)
  <2>1. CASE d.name # e.name BY <1>1, <2>1, NameLessTotal DEF DataLess
  <2>2. CASE d.name = e.name
    <3>1. d.digest # e.digest BY <1>4, <2>2, LookupAssumption
    <3>2. d.digest < e.digest \/ e.digest < d.digest BY <1>1, <3>1
    <3> QED BY <2>2, <3>2 DEF DataLess
  <2> QED BY <2>1, <2>2
<1> QED BY <1>2, <1>3, <1>4

\* The sorted table holds Data of the store, at every position.
LEMMA SortedInStore ==
    ASSUME NEW S \in SUBSET Data, IsFiniteSet(S)
    PROVE  /\ Cardinality(S) \in Nat
           /\ Len(Sorted(S)) = Cardinality(S)
           /\ \A p \in 1 .. Cardinality(S) :
                /\ Sorted(S)[p] \in S
                /\ Cardinality({e \in S : DataLess(e, Sorted(S)[p])}) = p - 1
<1> DEFINE R == {dd \in S \X S : DataLess(dd[1], dd[2])}
           Below(d) == {e \in S : <<e, d>> \in R}
<1>1. \A d, e \in S : <<e, d>> \in R <=> DataLess(e, d) OBVIOUS
<1> HIDE DEF R
<1>2. /\ \A x \in S : <<x, x>> \notin R
      /\ \A x, y, z \in S : <<x, y>> \in R /\ <<y, z>> \in R => <<x, z>> \in R
      /\ \A x, y \in S : x = y \/ <<x, y>> \in R \/ <<y, x>> \in R
  BY <1>1, DataLessOrder
<1>3. ASSUME NEW p \in 1 .. Cardinality(S)
      PROVE  /\ Sorted(S)[p] \in S
             /\ Cardinality({e \in S : DataLess(e, Sorted(S)[p])}) = p - 1
  <2>1. \E x \in S : Cardinality({y \in S : <<y, x>> \in R}) = p - 1
    BY <1>2, RankExists
  <2>2. \A x \in S : {y \in S : <<y, x>> \in R} = {e \in S : DataLess(e, x)} BY <1>1
  <2>3. \E x \in S : Cardinality({e \in S : DataLess(e, x)}) = p - 1 BY <2>1, <2>2
  <2>4. Sorted(S)[p] = CHOOSE d \in S : Cardinality({e \in S : DataLess(e, d)}) = p - 1
    BY DEF Sorted
  <2> QED BY <2>3, <2>4
<1>4. Cardinality(S) \in Nat BY FS_CardinalityType
<1>5. Len(Sorted(S)) = Cardinality(S) BY <1>4 DEF Sorted
<1> QED BY <1>3, <1>4, <1>5

\* A lookup finds Data of the store, and one at most.
LEMMA FoundInStore ==
    ASSUME NEW S \in SUBSET Data, IsFiniteSet(S), NEW i, NEW F
    PROVE  Found(S, i, F) \subseteq S
<1>1. Cardinality(S) \in Nat /\ Len(Sorted(S)) = Cardinality(S)
      /\ \A p \in 1 .. Cardinality(S) : Sorted(S)[p] \in S
  BY SortedInStore
<1> QED BY <1>1 DEF Found

-----------------------------------------------------------------------------
(* The inductive invariant *)

Entry == [staleTime : Nat, unsolicited : BOOLEAN]

\* The queues Q hold every Data of D once, and nothing else.
Indexes(Q, D) ==
    /\ Q \in [QueueType -> Seq(Data)]
    /\ \A q \in QueueType : Once(Q[q])
    /\ \A q, r \in QueueType : q # r => Members(Q[q]) \cap Members(Q[r]) = {}
    /\ D = UNION {Members(Q[q]) : q \in QueueType}

\* The queues of the policy pol, the others being empty.
OfPolicy(Q, pol) == \A q \in QueueType : Members(Q[q]) # {} => (q = "lru" <=> pol = "lru")

\* The entries of the fifo queue, and no others, have a timer, due when they get stale.
Timed(T, Q, M) ==
    /\ M \in [Members(Q["fifo"]) -> Nat]
    /\ \A d \in Members(Q["fifo"]) : M[d] = T[d].staleTime

\* The queue that an entry is in tells what the entry is, at time t.
Sorting(T, Q, t) ==
    /\ \A d \in Members(Q["unsolicited"]) : T[d].unsolicited
    /\ \A d \in Members(Q["stale"]) : ~T[d].unsolicited /\ T[d].staleTime <= t
    /\ \A d \in Members(Q["fifo"]) : ~T[d].unsolicited

\* A table T, the queues Q of policy pol and the timers M that agree at time t.
Agree(T, Q, M, pol, t) ==
    /\ T \in [DOMAIN T -> Entry] /\ DOMAIN T \subseteq Data /\ IsFiniteSet(DOMAIN T)
    /\ Indexes(Q, DOMAIN T)
    /\ OfPolicy(Q, pol)
    /\ Timed(T, Q, M)
    /\ Sorting(T, Q, t)

StoreTypeOK ==
    /\ now \in Nat
    /\ policy \in PolicyName
    /\ limit \in Nat
    /\ admit \in BOOLEAN /\ serve \in BOOLEAN

StoreInv ==
    /\ StoreTypeOK
    /\ Agree(table, queues, moveStale, policy, now)
    /\ SizeWithinLimit

-----------------------------------------------------------------------------
(* What the operations of the policies do to the queues *)

LEMMA DetachIndexes ==
    ASSUME NEW Q, NEW D, Indexes(Q, D), NEW S
    PROVE  /\ Indexes(detachQueue(Q, S), D \ S)
           /\ \A q \in QueueType : Members(detachQueue(Q, S)[q]) = Members(Q[q]) \ S
<1> DEFINE P == detachQueue(Q, S)
<1>1. \A q \in QueueType : Q[q] \in Seq(Data) /\ Once(Q[q]) BY DEF Indexes
<1>2. \A q \in QueueType : P[q] = SeqWithout(Q[q], S) BY DEF detachQueue
<1>3. ASSUME NEW q \in QueueType
      PROVE  P[q] \in Seq(Data) /\ Once(P[q]) /\ Members(P[q]) = Members(Q[q]) \ S
  BY <1>1, <1>2, SeqWithoutMembers
<1>4. P \in [QueueType -> Seq(Data)]
  <2>1. P = [q \in QueueType |-> P[q]] BY DEF detachQueue
  <2> HIDE DEF P
  <2> QED BY <1>3, <2>1
<1> HIDE DEF P
<1>5. \A q, r \in QueueType : q # r => Members(P[q]) \cap Members(P[r]) = {}
  BY <1>3 DEF Indexes
<1>6. D \ S = UNION {Members(P[q]) : q \in QueueType}
  <2>1. D = UNION {Members(Q[q]) : q \in QueueType} BY DEF Indexes
  <2> QED BY <1>3, <2>1
<1>7. Indexes(P, D \ S) BY <1>3, <1>4, <1>5, <1>6 DEF Indexes
<1> QED BY <1>3, <1>7 DEF P

LEMMA MoveIndexes ==
    ASSUME NEW Q, NEW D, Indexes(Q, D), NEW q \in QueueType, NEW d \in Data
    PROVE  /\ Indexes(MoveToQueue(Q, q, d), D \cup {d})
           /\ Members(MoveToQueue(Q, q, d)[q]) = Members(Q[q]) \cup {d}
           /\ \A r \in QueueType : r # q => Members(MoveToQueue(Q, q, d)[r]) = Members(Q[r]) \ {d}
<1> DEFINE P == detachQueue(Q, {d})
           M == MoveToQueue(Q, q, d)
<1>1. /\ Indexes(P, D \ {d})
      /\ \A r \in QueueType : Members(P[r]) = Members(Q[r]) \ {d}
  BY DetachIndexes
<1>2. M = [P EXCEPT ![q] = Append(@, d)] BY DEF MoveToQueue, attachQueue
<1> HIDE DEF P, M
<1>3. P \in [QueueType -> Seq(Data)] BY <1>1 DEF Indexes
<1>4. M[q] = Append(P[q], d) /\ \A r \in QueueType \ {q} : M[r] = P[r] BY <1>2, <1>3
<1>5. /\ M[q] \in Seq(Data)
      /\ Members(M[q]) = Members(Q[q]) \cup {d}
      /\ Once(M[q])
  <2>1. P[q] \in Seq(Data) /\ Once(P[q]) /\ d \notin Members(P[q]) BY <1>1 DEF Indexes
  <2>2. /\ Append(P[q], d) \in Seq(Data)
        /\ Members(Append(P[q], d)) = Members(P[q]) \cup {d}
        /\ Once(Append(P[q], d))
    BY <2>1, AppendMembers
  <2> QED BY <1>1, <1>4, <2>2
<1>6. \A r \in QueueType : Members(M[r]) =
            IF r = q THEN Members(Q[q]) \cup {d} ELSE Members(Q[r]) \ {d}
  BY <1>1, <1>4, <1>5
<1>7. M \in [QueueType -> Seq(Data)] BY <1>2, <1>3, <1>4, <1>5
<1>8. \A r \in QueueType : Once(M[r]) BY <1>1, <1>4, <1>5 DEF Indexes
<1>9. \A r, t \in QueueType : r # t => Members(M[r]) \cap Members(M[t]) = {}
  BY <1>6 DEF Indexes
<1>10. D \cup {d} = UNION {Members(M[r]) : r \in QueueType}
  <2>1. D = UNION {Members(Q[r]) : r \in QueueType} BY DEF Indexes
  <2>2. ASSUME NEW r \in QueueType, NEW e \in Members(M[r]) PROVE e \in D \cup {d}
    <3>1. e = d \/ e \in Members(Q[r]) BY <1>6, <2>2
    <3> QED BY <2>1, <3>1
  <2>3. d \in Members(M[q]) BY <1>5
  <2>4. \A e \in D : e = d \/ \E r \in QueueType : e \in Members(M[r]) BY <1>6, <2>1
  <2> QED BY <2>2, <2>3, <2>4
<1>11. Indexes(M, D \cup {d}) BY <1>7, <1>8, <1>9, <1>10 DEF Indexes
<1> QED BY <1>5, <1>6, <1>11 DEF M

\* evictEntries takes entries from the queues one by one, in the order of the queues.
LEMMA EvictionOrderOnce ==
    ASSUME NEW Q, NEW D, Indexes(Q, D)
    PROVE  /\ EvictionOrder(Q) \in Seq(Data)
           /\ Once(EvictionOrder(Q))
           /\ Members(EvictionOrder(Q)) = D
<1> DEFINE a == Q["lru"]  b == Q["unsolicited"]  c == Q["stale"]  f == Q["fifo"]
<1>1. /\ "lru" \in QueueType /\ "unsolicited" \in QueueType
      /\ "stale" \in QueueType /\ "fifo" \in QueueType
  BY DEF QueueType
<1>2. /\ a \in Seq(Data) /\ b \in Seq(Data) /\ c \in Seq(Data) /\ f \in Seq(Data)
      /\ Once(a) /\ Once(b) /\ Once(c) /\ Once(f)
  BY <1>1 DEF Indexes
<1>3. /\ Members(a) \cap Members(b) = {} /\ Members(a) \cap Members(c) = {}
      /\ Members(a) \cap Members(f) = {} /\ Members(b) \cap Members(c) = {}
      /\ Members(b) \cap Members(f) = {} /\ Members(c) \cap Members(f) = {}
  BY <1>1 DEF Indexes
<1>4. D = Members(a) \cup Members(b) \cup Members(c) \cup Members(f)
  BY <1>1 DEF Indexes, QueueType
<1>5. EvictionOrder(Q) = ((a \o b) \o c) \o f BY DEF EvictionOrder
<1> HIDE DEF a, b, c, f
<1>6. a \o b \in Seq(Data) /\ Once(a \o b) /\ Members(a \o b) = Members(a) \cup Members(b)
  BY <1>2, <1>3, ConcatMembers
<1> DEFINE ab == a \o b
<1> HIDE DEF ab
<1>7. /\ ab \o c \in Seq(Data) /\ Once(ab \o c)
      /\ Members(ab \o c) = Members(a) \cup Members(b) \cup Members(c)
  <2>1. ab \in Seq(Data) /\ Once(ab) /\ Members(ab) = Members(a) \cup Members(b) BY <1>6 DEF ab
  <2>2. Members(ab) \cap Members(c) = {} BY <1>3, <2>1
  <2>3. Once(ab \o c) /\ ab \o c \in Seq(Data) /\ Members(ab \o c) = Members(ab) \cup Members(c)
    BY <1>2, <2>1, <2>2, ConcatMembers
  <2> QED BY <2>1, <2>3
<1> DEFINE abc == ab \o c
<1> HIDE DEF abc
<1>8. /\ abc \o f \in Seq(Data) /\ Once(abc \o f)
      /\ Members(abc \o f) = D
  <2>1. /\ abc \in Seq(Data) /\ Once(abc)
        /\ Members(abc) = Members(a) \cup Members(b) \cup Members(c)
    BY <1>7 DEF abc
  <2>2. Members(abc) \cap Members(f) = {} BY <1>3, <2>1
  <2>3. /\ Once(abc \o f) /\ abc \o f \in Seq(Data)
        /\ Members(abc \o f) = Members(abc) \cup Members(f)
    BY <1>2, <2>1, <2>2, ConcatMembers
  <2> QED BY <1>4, <2>1, <2>3
<1> QED BY <1>5, <1>8 DEF ab, abc

\* An eviction leaves no more than n entries.
LEMMA EvictedSize ==
    ASSUME NEW Q, NEW D, Indexes(Q, D), NEW n \in Nat
    PROVE  LET gone == Evicted(Q, Cardinality(D), n) IN
           /\ gone \subseteq D
           /\ IsFiniteSet(D)
           /\ Cardinality(D \ gone) <= n
<1> DEFINE order == EvictionOrder(Q)
           gone == Evicted(Q, Cardinality(D), n)
<1>1. order \in Seq(Data) /\ Once(order) /\ Members(order) = D BY EvictionOrderOnce
<1> HIDE DEF order
<1>2. Len(order) \in Nat /\ Len(order) \in 0 .. Len(order) BY <1>1, LenProperties
<1>3. IsFiniteSet(D) /\ Cardinality(D) = Len(order)
  BY <1>1, <1>2, FrontCardinality DEF Members
<1>4. CASE Cardinality(D) <= n
  <2>1. gone = {} BY <1>4 DEF Evicted
  <2>2. D \ gone = D BY <2>1
  <2> QED BY <1>3, <1>4, <2>1, <2>2
<1>5. CASE ~(Cardinality(D) <= n)
  <2> DEFINE k == Cardinality(D) - n
  <2>1. k \in 0 .. Len(order) BY <1>2, <1>3, <1>5
  <2>2. gone = {order[i] : i \in 1 .. k} BY <1>5 DEF Evicted, order
  <2> HIDE DEF gone
  <2>3. gone \subseteq D
    <3>1. 1 .. k \subseteq 1 .. Len(order) BY <1>2, <2>1
    <3> QED BY <1>1, <2>2, <3>1 DEF Members
  <2>4. Cardinality(gone) = k
    <3> HIDE DEF k
    <3> QED BY <1>1, <2>1, <2>2, FrontCardinality
  <2>5. Cardinality(D \ gone) = Cardinality(D) - Cardinality(D \cap gone)
    BY <1>3, FS_Difference
  <2>6. D \cap gone = gone BY <2>3
  <2>7. Cardinality(D \cap gone) = k BY <2>4, <2>6
  <2>8. Cardinality(D \ gone) <= n BY <1>2, <1>3, <2>5, <2>7
  <2> QED BY <1>3, <2>3, <2>8 DEF gone
<1> QED BY <1>4, <1>5

\* Under priority_fifo an eviction that takes another entry takes all unsolicited ones.
LEMMA UnsolicitedFirst ==
    ASSUME NEW Q, NEW D, Indexes(Q, D), Members(Q["lru"]) = {}, NEW n \in Nat,
           NEW d \in Evicted(Q, Cardinality(D), n), d \notin Members(Q["unsolicited"])
    PROVE  Members(Q["unsolicited"]) \subseteq Evicted(Q, Cardinality(D), n)
<1> DEFINE order == EvictionOrder(Q)
           k == Cardinality(D) - n
           b == Q["unsolicited"]
           rest == Q["stale"] \o Q["fifo"]
<1>1. /\ "lru" \in QueueType /\ "unsolicited" \in QueueType
      /\ "stale" \in QueueType /\ "fifo" \in QueueType
  BY DEF QueueType
<1>2. /\ Q["lru"] \in Seq(Data) /\ b \in Seq(Data)
      /\ Q["stale"] \in Seq(Data) /\ Q["fifo"] \in Seq(Data)
  BY <1>1 DEF Indexes
<1>3. Q["lru"] = <<>>
  <2>1. Len(Q["lru"]) \in Nat BY <1>2, LenProperties
  <2>2. Len(Q["lru"]) = 0
    <3>1. ~(1 \in 1 .. Len(Q["lru"])) BY DEF Members
    <3> QED BY <2>1, <3>1
  <2> QED BY <1>2, <2>2, EmptySeq
<1>4. order = b \o rest
  <2>1. Q["lru"] \o b = b BY <1>2, <1>3, ConcatEmptySeq
  <2>2. (b \o Q["stale"]) \o Q["fifo"] = b \o (Q["stale"] \o Q["fifo"])
    <3> DEFINE c == Q["stale"]  f == Q["fifo"]
    <3>1. b \in Seq(Data) /\ c \in Seq(Data) /\ f \in Seq(Data) BY <1>2
    <3> HIDE DEF b, c, f
    <3>2. (b \o c) \o f = b \o (c \o f) BY <3>1, ConcatAssociative
    <3> QED BY <3>2 DEF c, f
  <2> QED BY <2>1, <2>2 DEF EvictionOrder
<1>5. rest \in Seq(Data) BY <1>2, ConcatProperties
<1> HIDE DEF order, b, rest
<1>6. /\ Len(b) \in Nat /\ Len(rest) \in Nat
      /\ Len(order) = Len(b) + Len(rest)
      /\ \A i \in 1 .. Len(b) : order[i] = b[i]
  <2>1. Len(b) \in Nat /\ Len(rest) \in Nat BY <1>2, <1>5, LenProperties
  <2>2. /\ Len(order) = Len(b) + Len(rest)
        /\ \A i \in 1 .. Len(b) + Len(rest) :
             order[i] = IF i <= Len(b) THEN b[i] ELSE rest[i - Len(b)]
    BY <1>2, <1>4, <1>5, ConcatProperties
  <2>3. \A i \in 1 .. Len(b) : i \in 1 .. Len(b) + Len(rest) /\ i <= Len(b) BY <2>1
  <2> QED BY <2>1, <2>2, <2>3
<1>7. Cardinality(D) \in Nat
  <2>1. IsFiniteSet(D) BY EvictedSize
  <2> QED BY <2>1, FS_CardinalityType
<1>8. ~(Cardinality(D) <= n) /\ Evicted(Q, Cardinality(D), n) = {order[i] : i \in 1 .. k}
  BY DEF Evicted, order
<1>9. PICK i \in 1 .. k : d = order[i] BY <1>8
<1>10. ~(i <= Len(b))
  <2> SUFFICES ASSUME i <= Len(b) PROVE FALSE OBVIOUS
  <2>1. i \in 1 .. Len(b) BY <1>6, <1>7
  <2>2. d \in Members(b) BY <1>6, <1>9, <2>1 DEF Members
  <2> QED BY <2>2 DEF b
<1>11. ASSUME NEW j \in 1 .. Len(b) PROVE b[j] \in Evicted(Q, Cardinality(D), n)
  <2>1. j \in 1 .. k BY <1>6, <1>7, <1>10
  <2> HIDE DEF k
  <2> QED BY <1>6, <1>8, <2>1
<1> QED BY <1>11 DEF Members, b

-----------------------------------------------------------------------------
(* The operations keep the table, the queues and the timers in agreement *)

\* Entries leave: by an eviction or by an erase command.
LEMMA RemoveAgrees ==
    ASSUME NEW T, NEW Q, NEW M, NEW pol, NEW t, Agree(T, Q, M, pol, t), NEW S
    PROVE  Agree(Without(T, S), detachQueue(Q, S), Without(M, S), pol, t)
<1> DEFINE T1 == Without(T, S)  Q1 == detachQueue(Q, S)  M1 == Without(M, S)
<1>1. DOMAIN T1 = DOMAIN T \ S /\ \A d \in DOMAIN T \ S : T1[d] = T[d] BY DEF Without
<1>2. /\ Indexes(Q1, DOMAIN T \ S)
      /\ \A q \in QueueType : Members(Q1[q]) = Members(Q[q]) \ S
  BY DetachIndexes DEF Agree
<1>3. DOMAIN M1 = Members(Q["fifo"]) \ S /\ \A d \in Members(Q["fifo"]) \ S : M1[d] = M[d]
  BY DEF Without, Agree, Timed
<1>4. /\ T1 = [d \in DOMAIN T1 |-> T1[d]]
      /\ M1 = [d \in DOMAIN M1 |-> M1[d]]
  BY DEF Without
<1> HIDE DEF T1, Q1, M1
<1>5. /\ "unsolicited" \in QueueType /\ "stale" \in QueueType /\ "fifo" \in QueueType
  BY DEF QueueType
<1>6. \A q \in QueueType : Members(Q[q]) \subseteq DOMAIN T BY DEF Agree, Indexes
<1>7. T1 \in [DOMAIN T1 -> Entry] /\ DOMAIN T1 \subseteq Data /\ IsFiniteSet(DOMAIN T1)
  <2>1. IsFiniteSet(DOMAIN T \ S) BY FS_Difference DEF Agree
  <2>2. \A d \in DOMAIN T1 : T1[d] \in Entry BY <1>1 DEF Agree
  <2> QED BY <1>1, <1>4, <2>1, <2>2 DEF Agree
<1>8. OfPolicy(Q1, pol) BY <1>2 DEF Agree, OfPolicy
<1>9. Timed(T1, Q1, M1)
  <2>1. Members(Q1["fifo"]) = Members(Q["fifo"]) \ S BY <1>2, <1>5
  <2>2. \A d \in DOMAIN M1 : M1[d] \in Nat BY <1>3 DEF Agree, Timed
  <2>3. M1 \in [Members(Q1["fifo"]) -> Nat] BY <1>3, <1>4, <2>1, <2>2
  <2>4. \A d \in Members(Q1["fifo"]) : M1[d] = T1[d].staleTime
    BY <1>1, <1>3, <1>5, <1>6, <2>1 DEF Agree, Timed
  <2> QED BY <2>3, <2>4 DEF Timed
<1>10. Sorting(T1, Q1, t)
  <2>1. \A q \in QueueType : \A d \in Members(Q1[q]) : d \in Members(Q[q]) /\ T1[d] = T[d]
    BY <1>1, <1>2, <1>6
  <2> QED BY <1>5, <2>1 DEF Agree, Sorting
<1> QED BY <1>1, <1>2, <1>7, <1>8, <1>9, <1>10 DEF Agree, T1, Q1, M1

\* A new or refreshed entry is attached to a queue that fits it.
LEMMA InsertAgrees ==
    ASSUME Agree(table, queues, moveStale, policy, now), now \in Nat, policy \in PolicyName,
           NEW d \in Data, NEW entry \in Entry, entry.staleTime = now + d.freshness,
           NEW q \in QueuesFor(d, entry)
    PROVE  Agree(Put(table, d, entry), MoveToQueue(queues, q, d),
                 TimersAfter(q, d, entry.staleTime), policy, now)
<1> DEFINE T1 == Put(table, d, entry)
           Q1 == MoveToQueue(queues, q, d)
           M1 == TimersAfter(q, d, entry.staleTime)
<1>1. /\ "lru" \in QueueType /\ "unsolicited" \in QueueType
      /\ "stale" \in QueueType /\ "fifo" \in QueueType
  BY DEF QueueType
<1>2. /\ q \in QueueType
      /\ q = "lru" <=> policy = "lru"
      /\ q = "unsolicited" => entry.unsolicited
      /\ q \in {"stale", "fifo"} => ~entry.unsolicited
      /\ q = "stale" => entry.staleTime <= now
  <2>1. CASE policy = "lru" BY <2>1 DEF QueuesFor, QueueType
  <2>2. CASE policy # "lru" /\ entry.unsolicited BY <2>2 DEF QueuesFor, QueueType
  <2>3. CASE policy # "lru" /\ ~entry.unsolicited
    <3>1. q \in {"stale", "fifo"} /\ (q = "stale" => d.freshness = 0)
      BY <2>3 DEF QueuesFor
    <3>2. q = "stale" => entry.staleTime <= now BY <3>1
    <3> QED BY <2>3, <3>1, <3>2 DEF QueueType
  <2> QED BY <2>1, <2>2, <2>3
<1>3. /\ DOMAIN T1 = DOMAIN table \cup {d} /\ T1[d] = entry
      /\ \A e \in DOMAIN table \ {d} : T1[e] = table[e]
      /\ T1 = [e \in DOMAIN T1 |-> T1[e]]
  BY DEF Put
<1>4. /\ Indexes(Q1, DOMAIN table \cup {d})
      /\ Members(Q1[q]) = Members(queues[q]) \cup {d}
      /\ \A r \in QueueType : r # q => Members(Q1[r]) = Members(queues[r]) \ {d}
  <2>1. Indexes(queues, DOMAIN table) BY DEF Agree
  <2> QED BY <1>2, <2>1, MoveIndexes
<1>5. moveStale \in [Members(queues["fifo"]) -> Nat] BY DEF Agree, Timed
<1>6. entry.staleTime \in Nat BY DEF Entry
<1>7. /\ M1 = [e \in DOMAIN M1 |-> M1[e]]
      /\ DOMAIN M1 = Members(Q1["fifo"])
      /\ \A e \in DOMAIN M1 \ {d} : M1[e] = moveStale[e] /\ e \in Members(queues["fifo"])
      /\ d \in DOMAIN M1 => M1[d] = entry.staleTime
  <2>1. CASE q = "fifo"
    <3>1. M1 = Put(moveStale, d, entry.staleTime) BY <2>1 DEF TimersAfter
    <3>2. Members(Q1["fifo"]) = Members(queues["fifo"]) \cup {d} BY <1>1, <1>4, <2>1
    <3> QED BY <1>5, <3>1, <3>2 DEF Put
  <2>2. CASE q # "fifo"
    <3>1. M1 = Without(moveStale, {d}) BY <2>2 DEF TimersAfter
    <3>2. Members(Q1["fifo"]) = Members(queues["fifo"]) \ {d} BY <1>1, <1>4, <2>2
    <3> QED BY <1>5, <3>1, <3>2 DEF Without
  <2> QED BY <2>1, <2>2
<1> HIDE DEF T1, Q1, M1
<1>8. \A r \in QueueType : Members(queues[r]) \subseteq DOMAIN table BY DEF Agree, Indexes
<1>9. T1 \in [DOMAIN T1 -> Entry] /\ DOMAIN T1 \subseteq Data /\ IsFiniteSet(DOMAIN T1)
  <2>1. IsFiniteSet(DOMAIN table \cup {d}) BY FS_AddElement DEF Agree
  <2>2. \A e \in DOMAIN T1 : T1[e] \in Entry BY <1>3 DEF Agree
  <2> QED BY <1>3, <2>1, <2>2 DEF Agree
<1>10. OfPolicy(Q1, policy) BY <1>2, <1>4 DEF Agree, OfPolicy
<1>11. Timed(T1, Q1, M1)
  <2>1. \A e \in DOMAIN M1 : M1[e] \in Nat BY <1>5, <1>6, <1>7
  <2>2. M1 \in [Members(Q1["fifo"]) -> Nat] BY <1>7, <2>1
  <2>3. ASSUME NEW e \in Members(Q1["fifo"]) PROVE M1[e] = T1[e].staleTime
    <3>1. CASE e = d BY <1>3, <1>7, <2>3, <3>1
    <3>2. CASE e # d
      <4>1. M1[e] = moveStale[e] /\ e \in Members(queues["fifo"]) BY <1>7, <2>3, <3>2
      <4>2. moveStale[e] = table[e].staleTime BY <4>1 DEF Agree, Timed
      <4>3. T1[e] = table[e] BY <1>1, <1>3, <1>8, <3>2, <4>1
      <4> QED BY <4>1, <4>2, <4>3
    <3> QED BY <3>1, <3>2
  <2> QED BY <2>2, <2>3 DEF Timed
<1>12. Sorting(T1, Q1, now)
  <2>1. \A r \in QueueType : \A e \in Members(Q1[r]) \ {d} :
            e \in Members(queues[r]) /\ T1[e] = table[e]
    BY <1>3, <1>4, <1>8
  <2>2. \A r \in QueueType : d \in Members(Q1[r]) => r = q BY <1>4
  <2>3. Sorting(table, queues, now) BY DEF Agree
  <2>4. ASSUME NEW e \in Members(Q1["unsolicited"]) PROVE T1[e].unsolicited
    BY <1>1, <1>2, <1>3, <2>1, <2>2, <2>3, <2>4 DEF Sorting
  <2>5. ASSUME NEW e \in Members(Q1["stale"])
        PROVE  ~T1[e].unsolicited /\ T1[e].staleTime <= now
    BY <1>1, <1>2, <1>3, <2>1, <2>2, <2>3, <2>5 DEF Sorting
  <2>6. ASSUME NEW e \in Members(Q1["fifo"]) PROVE ~T1[e].unsolicited
    BY <1>1, <1>2, <1>3, <2>1, <2>2, <2>3, <2>6 DEF Sorting
  <2> QED BY <2>4, <2>5, <2>6 DEF Sorting
<1> QED BY <1>3, <1>4, <1>9, <1>10, <1>11, <1>12 DEF Agree, T1, Q1, M1

\* A hit moves an entry to the back of the queue of lru.
LEMMA UseAgrees ==
    ASSUME NEW T, NEW Q, NEW M, NEW t, Agree(T, Q, M, policy, t),
           NEW S, S \subseteq DOMAIN T
    PROVE  Agree(T, Used(Q, S), M, policy, t)
<1>1. CASE ~(policy = "lru" /\ S # {}) BY <1>1 DEF Used
<1>2. CASE policy = "lru" /\ S # {}
  <2> DEFINE d == CHOOSE d \in S : TRUE
             Q1 == MoveToQueue(Q, "lru", d)
  <2>1. Used(Q, S) = Q1 BY <1>2 DEF Used
  <2>2. d \in DOMAIN T /\ d \in Data BY <1>2 DEF Agree
  <2> HIDE DEF d
  <2>3. /\ "lru" \in QueueType /\ "unsolicited" \in QueueType
        /\ "stale" \in QueueType /\ "fifo" \in QueueType
    BY DEF QueueType
  <2>4. /\ Indexes(Q1, DOMAIN T \cup {d})
        /\ \A r \in QueueType : r # "lru" => Members(Q1[r]) = Members(Q[r]) \ {d}
    <3>1. Indexes(Q, DOMAIN T) BY DEF Agree
    <3> DEFINE q == "lru"
    <3>2. q \in QueueType BY <2>3
    <3>3. Q1 = MoveToQueue(Q, q, d) OBVIOUS
    <3> HIDE DEF q, Q1
    <3>4. /\ Indexes(Q1, DOMAIN T \cup {d})
          /\ \A r \in QueueType : r # q => Members(Q1[r]) = Members(Q[r]) \ {d}
      BY <2>2, <3>1, <3>2, <3>3, MoveIndexes
    <3> QED BY <3>4 DEF q
  <2> HIDE DEF Q1
  <2>5. DOMAIN T \cup {d} = DOMAIN T BY <2>2
  <2>6. \A r \in QueueType : r # "lru" => Members(Q[r]) = {} /\ Members(Q1[r]) = {}
    BY <1>2, <2>4 DEF Agree, OfPolicy
  <2>7. OfPolicy(Q1, policy) BY <1>2, <2>6 DEF OfPolicy
  <2>8. Timed(T, Q1, M) /\ Sorting(T, Q1, t)
    <3>1. Members(Q1["fifo"]) = {} /\ Members(Q["fifo"]) = {}
          /\ Members(Q1["unsolicited"]) = {} /\ Members(Q1["stale"]) = {}
      BY <2>3, <2>6
    <3> QED BY <3>1 DEF Agree, Timed, Sorting
  <2> QED BY <2>1, <2>4, <2>5, <2>7, <2>8 DEF Agree
<1> QED BY <1>1, <1>2

\* The timer of an entry moves it from the fifo queue to the stale queue.
LEMMA StaleAgrees ==
    ASSUME Agree(table, queues, moveStale, policy, now), now \in Nat, NEW d \in Data,
           moveToStaleQueue(d)
    PROVE  Agree(table, queues', moveStale', policy, now)
<1> DEFINE Q1 == queues'  M1 == moveStale'
<1>1. /\ "lru" \in QueueType /\ "unsolicited" \in QueueType
      /\ "stale" \in QueueType /\ "fifo" \in QueueType
  BY DEF QueueType
<1>2. /\ d \in Members(queues["fifo"])
      /\ moveStale \in [Members(queues["fifo"]) -> Nat]
      /\ table[d].staleTime <= now
  BY DEF moveToStaleQueue, Agree, Timed
<1>3. \A q \in QueueType : Members(queues[q]) \subseteq DOMAIN table BY DEF Agree, Indexes
<1>4. DOMAIN table \cup {d} = DOMAIN table BY <1>1, <1>2, <1>3
<1>5. /\ Indexes(Q1, DOMAIN table)
      /\ Members(Q1["stale"]) = Members(queues["stale"]) \cup {d}
      /\ \A r \in QueueType : r # "stale" => Members(Q1[r]) = Members(queues[r]) \ {d}
  <2>1. Indexes(queues, DOMAIN table) BY DEF Agree
  <2>2. Q1 = MoveToQueue(queues, "stale", d) BY DEF moveToStaleQueue
  <2> HIDE DEF Q1
  <2> DEFINE q == "stale"
  <2>3. q \in QueueType /\ Q1 = MoveToQueue(queues, q, d) BY <1>1, <2>2
  <2> HIDE DEF q
  <2>4. /\ Indexes(Q1, DOMAIN table \cup {d})
        /\ Members(Q1[q]) = Members(queues[q]) \cup {d}
        /\ \A r \in QueueType : r # q => Members(Q1[r]) = Members(queues[r]) \ {d}
    BY <2>1, <2>3, MoveIndexes
  <2> QED BY <1>4, <2>4 DEF q
<1>6. M1 = [e \in Members(queues["fifo"]) \ {d} |-> moveStale[e]]
  BY <1>2 DEF moveToStaleQueue, Without
<1> HIDE DEF Q1, M1
<1>7. OfPolicy(Q1, policy)
  <2>1. policy # "lru" BY <1>1, <1>2 DEF Agree, OfPolicy
  <2> QED BY <1>1, <1>5, <2>1 DEF Agree, OfPolicy
<1>8. Timed(table, Q1, M1)
  <2>1. Members(Q1["fifo"]) = Members(queues["fifo"]) \ {d} BY <1>1, <1>5
  <2> QED BY <1>2, <1>6, <2>1 DEF Agree, Timed
<1>9. Sorting(table, Q1, now)
  <2>1. /\ Members(Q1["fifo"]) = Members(queues["fifo"]) \ {d}
        /\ Members(Q1["unsolicited"]) = Members(queues["unsolicited"]) \ {d}
        /\ Members(Q1["stale"]) = Members(queues["stale"]) \cup {d}
    BY <1>1, <1>5
  <2> QED BY <1>2, <2>1 DEF Agree, Sorting
<1> QED BY <1>5, <1>7, <1>8, <1>9 DEF Agree, Q1, M1

-----------------------------------------------------------------------------
(* The invariant is inductive *)

LEMMA StoreInit == Init => StoreInv
<1> SUFFICES ASSUME Init PROVE StoreInv OBVIOUS
<1>1. limit \in Nat BY ContentStoreAssumption DEF Init
<1>2. StoreTypeOK BY <1>1 DEF Init, StoreTypeOK, PolicyName
<1>3. DOMAIN table = {} /\ IsFiniteSet({}) /\ Cardinality({}) = 0
  BY FS_EmptySet DEF Init
<1>4. \A q \in QueueType : queues[q] = <<>> BY DEF Init, EmptyQueues
<1>5. Members(<<>>) = {} /\ Once(<<>>) /\ <<>> \in Seq(Data) BY EmptySeq DEF Members, Once
<1>6. /\ "unsolicited" \in QueueType /\ "stale" \in QueueType /\ "fifo" \in QueueType
  BY DEF QueueType
<1>7. Indexes(queues, DOMAIN table)
  <2>1. queues \in [QueueType -> Seq(Data)] BY <1>5 DEF Init, EmptyQueues
  <2> QED BY <1>3, <1>4, <1>5, <2>1 DEF Indexes
<1>8. OfPolicy(queues, policy) BY <1>4, <1>5 DEF OfPolicy
<1>9. Timed(table, queues, moveStale) /\ Sorting(table, queues, now)
  <2>1. Members(queues["fifo"]) = {} /\ Members(queues["unsolicited"]) = {}
        /\ Members(queues["stale"]) = {}
    BY <1>4, <1>5, <1>6
  <2> QED BY <2>1 DEF Init, Timed, Sorting
<1>10. Agree(table, queues, moveStale, policy, now)
  <2>1. table \in [DOMAIN table -> Entry] BY DEF Init
  <2> QED BY <1>3, <1>7, <1>8, <1>9, <2>1 DEF Agree
<1>11. SizeWithinLimit BY <1>1, <1>3 DEF SizeWithinLimit, Stored
<1> QED BY <1>2, <1>10, <1>11 DEF StoreInv

LEMMA InsertStep ==
    ASSUME StoreInv, NEW d \in Data, NEW isUnsolicited \in BOOLEAN, NEW noCache \in BOOLEAN,
           insert(d, isUnsolicited, noCache)
    PROVE  StoreInv'
<1> DEFINE isNewEntry == d \notin Stored
           entry == [staleTime |-> now + d.freshness,
                     unsolicited |-> isUnsolicited /\ (isNewEntry \/ table[d].unsolicited)]
           full == Put(table, d, entry)
           Q(q) == MoveToQueue(queues, q, d)
           gone(q) == IF isNewEntry THEN Evicted(Q(q), Cardinality(DOMAIN full), limit) ELSE {}
<1>1. PICK q \in QueuesFor(d, entry) :
            /\ table' = Without(full, gone(q))
            /\ queues' = detachQueue(Q(q), gone(q))
            /\ moveStale' = Without(TimersAfter(q, d, entry.staleTime), gone(q))
  BY DEF insert
<1>2. /\ now \in Nat /\ policy \in PolicyName /\ limit \in Nat
      /\ UNCHANGED <<now, policy, limit, admit, serve>>
  BY DEF insert, StoreInv, StoreTypeOK
<1>3. entry \in Entry /\ entry.staleTime = now + d.freshness
  <2>1. now + d.freshness \in Nat BY <1>2, LookupAssumption
  <2>2. (isUnsolicited /\ (isNewEntry \/ table[d].unsolicited)) \in BOOLEAN
    <3>1. d \in DOMAIN table => table[d].unsolicited \in BOOLEAN
      BY DEF StoreInv, Agree, Entry
    <3> QED BY <3>1 DEF Stored
  <2> QED BY <2>1, <2>2 DEF Entry
<1>4. Agree(full, Q(q), TimersAfter(q, d, entry.staleTime), policy, now)
  <2>1. Agree(table, queues, moveStale, policy, now) BY DEF StoreInv
  <2> HIDE DEF entry
  <2> QED BY <1>1, <1>2, <1>3, <2>1, InsertAgrees
<1>5. DOMAIN full = Stored \cup {d} BY DEF Put, Stored
<1> HIDE DEF entry, full, Q
<1>6. Agree(table', queues', moveStale', policy, now)
  <2> HIDE DEF gone
  <2> QED BY <1>1, <1>4, RemoveAgrees
<1>7. DOMAIN table' = DOMAIN full \ gone(q) BY <1>1 DEF Without
<1>8. Cardinality(DOMAIN table') <= limit
  <2>1. CASE isNewEntry
    <3>1. Indexes(Q(q), DOMAIN full) BY <1>4 DEF Agree
    <3> QED BY <1>2, <1>7, <2>1, <3>1, EvictedSize
  <2>2. CASE ~isNewEntry
    <3>1. DOMAIN table' = Stored BY <1>5, <1>7, <2>2
    <3> QED BY <3>1 DEF StoreInv, SizeWithinLimit
  <2> QED BY <2>1, <2>2
<1>9. SizeWithinLimit' BY <1>2, <1>8 DEF SizeWithinLimit, Stored
<1>10. StoreTypeOK' BY <1>2 DEF StoreTypeOK, StoreInv
<1>11. Agree(table, queues, moveStale, policy, now)' BY <1>2, <1>6
<1> QED BY <1>9, <1>10, <1>11 DEF StoreInv

LEMMA EraseStep ==
    ASSUME StoreInv, NEW prefix, NEW count, erase(prefix, count)
    PROVE  StoreInv'
<1> DEFINE gone == FirstUnder(prefix, IF count <= ERASE_LIMIT THEN count ELSE ERASE_LIMIT)
           rest == [name |-> prefix, rightmost |-> FALSE, mbf |-> FALSE]
           used == IF count > ERASE_LIMIT /\ Cardinality(gone) = ERASE_LIMIT /\ serve /\ limit # 0
                   THEN Found(Stored \ gone, rest, {}) ELSE {}
<1>1. /\ table' = Without(table, gone)
      /\ queues' = Used(detachQueue(queues, gone), used)
      /\ moveStale' = Without(moveStale, gone)
      /\ UNCHANGED <<now, policy, limit, admit, serve>>
  BY DEF erase
<1>2. Agree(table, queues, moveStale, policy, now) BY DEF StoreInv
<1>3. DOMAIN table' = Stored \ gone BY <1>1 DEF Without, Stored
<1>4. /\ Stored \ gone \in SUBSET Data /\ IsFiniteSet(Stored \ gone)
      /\ Cardinality(Stored \ gone) <= limit
  <2>1. IsFiniteSet(Stored) /\ Stored \subseteq Data BY <1>2 DEF Agree, Stored
  <2> HIDE DEF gone
  <2>2. Stored \ gone \in SUBSET Stored OBVIOUS
  <2>3. /\ IsFiniteSet(Stored \ gone)
        /\ Cardinality(Stored \ gone) <= Cardinality(Stored)
    BY <2>1, <2>2, FS_Subset
  <2>4. Cardinality(Stored) \in Nat /\ Cardinality(Stored \ gone) \in Nat
    BY <2>1, <2>3, FS_CardinalityType
  <2>5. Cardinality(Stored) <= limit /\ limit \in Nat
    BY DEF StoreInv, SizeWithinLimit, StoreTypeOK
  <2> QED BY <2>1, <2>3, <2>4, <2>5
<1> HIDE DEF gone
<1>5. used \subseteq Stored \ gone
  <2> HIDE DEF rest
  <2> QED BY <1>4, FoundInStore
<1> HIDE DEF used
<1>6. Agree(table', detachQueue(queues, gone), moveStale', policy, now)
  BY <1>1, <1>2, RemoveAgrees
<1>7. Agree(table', queues', moveStale', policy, now)
  <2> DEFINE T1 == table'  M1 == moveStale'  Q1 == detachQueue(queues, gone)
  <2>1. Agree(T1, Q1, M1, policy, now) /\ used \subseteq DOMAIN T1 BY <1>3, <1>5, <1>6
  <2> HIDE DEF T1, M1, Q1
  <2>2. Agree(T1, Used(Q1, used), M1, policy, now) BY <2>1, UseAgrees
  <2> QED BY <1>1, <2>2 DEF T1, M1, Q1
<1>8. Agree(table, queues, moveStale, policy, now)' BY <1>1, <1>7
<1>9. SizeWithinLimit' BY <1>1, <1>3, <1>4 DEF SizeWithinLimit, Stored
<1>10. StoreTypeOK' BY <1>1 DEF StoreTypeOK, StoreInv
<1> QED BY <1>8, <1>9, <1>10 DEF StoreInv

LEMMA FindStep ==
    ASSUME StoreInv, NEW i, find(i)
    PROVE  StoreInv'
<1> DEFINE hit == Found(Stored, i, Fresh)
<1>1. queues' = Used(queues, hit) /\ UNCHANGED <<now, table, policy, limit, moveStale, admit, serve>>
  BY DEF find
<1>2. Agree(table, queues, moveStale, policy, now) BY DEF StoreInv
<1>3. hit \subseteq DOMAIN table
  <2>1. Stored \in SUBSET Data /\ IsFiniteSet(Stored) BY <1>2 DEF Agree, Stored
  <2>2. hit \subseteq Stored BY <2>1, FoundInStore
  <2> QED BY <2>2 DEF Stored
<1> HIDE DEF hit
<1>4. Agree(table, Used(queues, hit), moveStale, policy, now) BY <1>2, <1>3, UseAgrees
<1>5. Agree(table, queues, moveStale, policy, now)' BY <1>1, <1>4
<1> QED BY <1>1, <1>5 DEF StoreInv, StoreTypeOK, SizeWithinLimit, Stored

\* A new limit, of a command or of the configuration.
LEMMA SetLimitAgrees ==
    ASSUME StoreInv, NEW n \in Limit, setLimit(n)
    PROVE  /\ Agree(table', queues', moveStale', policy, now)
           /\ Cardinality(DOMAIN table') <= limit'
           /\ limit' \in Nat
<1> DEFINE gone == Evicted(queues, Cardinality(Stored), n)
<1>1. /\ limit' = n
      /\ table' = Without(table, gone)
      /\ queues' = detachQueue(queues, gone)
      /\ moveStale' = Without(moveStale, gone)
  BY DEF setLimit
<1>2. Agree(table, queues, moveStale, policy, now) BY DEF StoreInv
<1>3. n \in Nat BY ContentStoreAssumption
<1>4. Indexes(queues, Stored) BY <1>2 DEF Agree, Stored
<1>5. Cardinality(Stored \ gone) <= n BY <1>3, <1>4, EvictedSize
<1>6. DOMAIN table' = Stored \ gone BY <1>1 DEF Without, Stored
<1> HIDE DEF gone
<1>7. Agree(table', queues', moveStale', policy, now) BY <1>1, <1>2, RemoveAgrees
<1> QED BY <1>1, <1>3, <1>5, <1>6, <1>7

LEMMA ChangeConfigStep ==
    ASSUME StoreInv, NEW hasCapacity \in BOOLEAN, NEW n \in Limit,
           NEW a \in BOOLEAN, NEW s \in BOOLEAN, changeConfig(hasCapacity, n, a, s)
    PROVE  StoreInv'
<1>1. UNCHANGED <<now, policy>> /\ admit' = a /\ serve' = s BY DEF changeConfig
<1>2. CASE hasCapacity
  <2>1. /\ Agree(table', queues', moveStale', policy, now)
        /\ Cardinality(DOMAIN table') <= limit'
        /\ limit' \in Nat
    BY <1>2, SetLimitAgrees DEF changeConfig
  <2>2. Agree(table, queues, moveStale, policy, now)' BY <1>1, <2>1
  <2>3. SizeWithinLimit' BY <2>1 DEF SizeWithinLimit, Stored
  <2>4. StoreTypeOK' BY <1>1, <2>1 DEF StoreTypeOK, StoreInv
  <2> QED BY <2>2, <2>3, <2>4 DEF StoreInv
<1>3. CASE ~hasCapacity
  <2>1. UNCHANGED <<limit, table, queues, moveStale>> BY <1>3 DEF changeConfig
  <2>2. Agree(table, queues, moveStale, policy, now)' BY <1>1, <2>1 DEF StoreInv
  <2>3. SizeWithinLimit' BY <2>1 DEF SizeWithinLimit, Stored, StoreInv
  <2>4. StoreTypeOK' BY <1>1, <2>1 DEF StoreTypeOK, StoreInv
  <2> QED BY <2>2, <2>3, <2>4 DEF StoreInv
<1> QED BY <1>2, <1>3

\* A new policy starts with empty queues, and is taken only when there is nothing to
\* move to them.
LEMMA ProcessConfigStep ==
    ASSUME StoreInv, NEW n \in Limit, NEW p \in PolicyName, processConfig(n, p)
    PROVE  StoreInv'
<1>1. /\ UNCHANGED <<now, admit, serve>>
      /\ policy' = IF DOMAIN table' = {} THEN p ELSE policy
  BY DEF processConfig
<1>2. /\ Agree(table', queues', moveStale', policy, now)
      /\ Cardinality(DOMAIN table') <= limit'
      /\ limit' \in Nat
  BY SetLimitAgrees DEF processConfig
<1>3. SizeWithinLimit' BY <1>2 DEF SizeWithinLimit, Stored
<1>4. StoreTypeOK' BY <1>1, <1>2 DEF StoreTypeOK, StoreInv
<1>5. OfPolicy(queues', policy')
  <2>1. CASE DOMAIN table' = {}
    <3>1. \A q \in QueueType : Members(queues'[q]) = {} BY <1>2, <2>1 DEF Agree, Indexes
    <3> QED BY <3>1 DEF OfPolicy
  <2>2. CASE DOMAIN table' # {} BY <1>1, <1>2, <2>2 DEF Agree
  <2> QED BY <2>1, <2>2
<1>6. Agree(table', queues', moveStale', policy', now) BY <1>2, <1>5 DEF Agree
<1>7. Agree(table, queues, moveStale, policy, now)' BY <1>1, <1>6
<1> QED BY <1>3, <1>4, <1>7 DEF StoreInv

LEMMA StaleStep ==
    ASSUME StoreInv, NEW d \in Data, moveToStaleQueue(d)
    PROVE  StoreInv'
<1>1. UNCHANGED <<now, table, policy, limit, admit, serve>> BY DEF moveToStaleQueue
<1>2. Agree(table, queues', moveStale', policy, now) BY StaleAgrees DEF StoreInv, StoreTypeOK
<1>3. Agree(table, queues, moveStale, policy, now)' BY <1>1, <1>2
<1> QED BY <1>1, <1>3 DEF StoreInv, StoreTypeOK, SizeWithinLimit, Stored

LEMMA TickStep == ASSUME StoreInv, Tick PROVE StoreInv'
<1>1. now' = now + 1 /\ UNCHANGED <<table, policy, limit, queues, moveStale, admit, serve>>
  BY DEF Tick
<1>2. now \in Nat /\ now' \in Nat BY <1>1 DEF StoreInv, StoreTypeOK
<1>3. Sorting(table, queues, now')
  <2>1. Sorting(table, queues, now) BY DEF StoreInv, Agree
  <2>2. \A d \in Members(queues["stale"]) : table[d].staleTime \in Nat
    <3>1. "stale" \in QueueType BY DEF QueueType
    <3>2. Members(queues["stale"]) \subseteq DOMAIN table
      BY <3>1 DEF StoreInv, Agree, Indexes
    <3> QED BY <3>2 DEF StoreInv, Agree, Entry
  <2> QED BY <1>1, <1>2, <2>1, <2>2 DEF Sorting
<1>4. Agree(table, queues, moveStale, policy, now') BY <1>3 DEF StoreInv, Agree
<1>5. Agree(table, queues, moveStale, policy, now)' BY <1>1, <1>4
<1> QED BY <1>1, <1>2, <1>5 DEF StoreInv, StoreTypeOK, SizeWithinLimit, Stored

LEMMA StoreNext == StoreInv /\ [Next]_vars => StoreInv'
<1> SUFFICES ASSUME StoreInv, [Next]_vars PROVE StoreInv' OBVIOUS
<1>1. ASSUME NEW d \in Data, NEW u \in BOOLEAN, NEW c \in BOOLEAN, insert(d, u, c)
      PROVE  StoreInv'
  BY <1>1, InsertStep
<1>2. ASSUME NEW i \in Interest, find(i) PROVE StoreInv' BY <1>2, FindStep
<1>3. ASSUME NEW i \in Interest, NEW n \in EraseCount, erase(i.name, n) PROVE StoreInv'
  BY <1>3, EraseStep
<1>4. ASSUME NEW h \in BOOLEAN, NEW a \in BOOLEAN, NEW s \in BOOLEAN, NEW n \in Limit,
             changeConfig(h, n, a, s)
      PROVE  StoreInv'
  BY <1>4, ChangeConfigStep
<1>5. ASSUME NEW n \in Limit, NEW p \in PolicyName, processConfig(n, p) PROVE StoreInv'
  BY <1>5, ProcessConfigStep
<1>6. ASSUME NEW d \in Data, moveToStaleQueue(d) PROVE StoreInv' BY <1>6, StaleStep
<1>7. CASE Tick BY <1>7, TickStep
<1>8. CASE UNCHANGED vars
  BY <1>8 DEF vars, StoreInv, StoreTypeOK, SizeWithinLimit, Stored, Agree, Indexes, OfPolicy,
              Timed, Sorting
<1>9. CASE \E c \in BOOLEAN : InsertRefused(c) BY <1>8, <1>9 DEF InsertRefused
<1> QED BY <1>1, <1>2, <1>3, <1>4, <1>5, <1>6, <1>7, <1>8, <1>9 DEF Next

LEMMA StoreInvariant == Spec => []StoreInv
BY StoreInit, StoreNext, PTL DEF Spec

-----------------------------------------------------------------------------
(* Theorems *)

\* An entry is at one place of the queues, found by its Data.
LEMMA OccurrencesAre ==
    ASSUME StoreInv, NEW d
    PROVE  /\ d \in Stored => \E q \in QueueType, i \in Nat :
                                Occurrences(d) = {<<q, i>>} /\ d \in Members(queues[q])
           /\ d \notin Stored => Occurrences(d) = {}
           /\ \A o \in Occurrences(d) : o[1] \in QueueType /\ d \in Members(queues[o[1]])
<1>1. Indexes(queues, Stored) BY DEF StoreInv, Agree, Stored
<1>2. \A o \in Occurrences(d) : \E q \in QueueType : \E i \in 1 .. Len(queues[q]) :
            o = <<q, i>> /\ queues[q][i] = d
  BY DEF Occurrences
<1>3. \A q \in QueueType : \A i \in 1 .. Len(queues[q]) :
            queues[q][i] = d => <<q, i>> \in Occurrences(d)
  BY DEF Occurrences
<1>4. \A q \in QueueType : d \in Members(queues[q]) => d \in Stored
  BY <1>1 DEF Indexes
<1>5. \A o \in Occurrences(d) : o[1] \in QueueType /\ d \in Members(queues[o[1]])
  BY <1>2 DEF Members
<1>6. d \notin Stored => Occurrences(d) = {} BY <1>4, <1>5
<1>7. ASSUME d \in Stored
      PROVE  \E q \in QueueType, i \in Nat :
                Occurrences(d) = {<<q, i>>} /\ d \in Members(queues[q])
  <2>1. PICK q \in QueueType : d \in Members(queues[q]) BY <1>1, <1>7 DEF Indexes
  <2>2. PICK i \in 1 .. Len(queues[q]) : queues[q][i] = d BY <2>1 DEF Members
  <2>3. ASSUME NEW r \in QueueType, NEW j \in 1 .. Len(queues[r]), queues[r][j] = d
        PROVE  <<r, j>> = <<q, i>>
    <3>1. d \in Members(queues[r]) BY <2>3 DEF Members
    <3>2. r = q BY <1>1, <2>1, <3>1 DEF Indexes
    <3>3. Once(queues[q]) BY <1>1 DEF Indexes
    <3>4. j = i BY <2>2, <2>3, <3>2, <3>3 DEF Once
    <3> QED BY <3>2, <3>4
  <2>4. Occurrences(d) = {<<q, i>>} BY <1>2, <1>3, <2>2, <2>3
  <2> QED BY <2>1, <2>4
<1> QED BY <1>5, <1>6, <1>7

\* cs-policy-priority-fifo.cpp keeps an iterator of each entry in exactly one queue, and
\* cs-policy-lru.cpp in its only one; no queue has an iterator of an erased entry.
THEOREM QueuesIndexTableHolds == Spec => []QueuesIndexTable
<1>1. StoreInv => QueuesIndexTable
  <2> SUFFICES ASSUME StoreInv, NEW d \in Data
               PROVE  /\ Cardinality(Occurrences(d)) = IF d \in Stored THEN 1 ELSE 0
                      /\ \A o \in Occurrences(d) : o[1] = "lru" <=> policy = "lru"
    BY DEF QueuesIndexTable
  <2>1. d \in Stored => Cardinality(Occurrences(d)) = 1 BY OccurrencesAre, FS_Singleton
  <2>2. d \notin Stored => Cardinality(Occurrences(d)) = 0 BY OccurrencesAre, FS_EmptySet
  <2>3. ASSUME NEW o \in Occurrences(d) PROVE o[1] = "lru" <=> policy = "lru"
    <3>1. o[1] \in QueueType /\ Members(queues[o[1]]) # {} BY OccurrencesAre
    <3> QED BY <3>1 DEF StoreInv, Agree, OfPolicy
  <2> QED BY <2>1, <2>2, <2>3
<1> QED BY <1>1, StoreInvariant, PTL

\* Policy::setLimit and Policy::afterInsert evict until the table is within the limit.
THEOREM SizeWithinLimitHolds == Spec => []SizeWithinLimit
<1>1. StoreInv => SizeWithinLimit BY DEF StoreInv
<1> QED BY <1>1, StoreInvariant, PTL

\* PriorityFifoPolicy: the queue of an entry tells whether it is unsolicited and whether
\* its timer is pending, and the timer is due when the entry gets stale.
THEOREM QueuesMirrorEntriesHolds == Spec => []QueuesMirrorEntries
<1>1. StoreInv => QueuesMirrorEntries
  <2> SUFFICES ASSUME StoreInv, NEW d \in Stored, NEW o \in Occurrences(d),
                      policy = "priority_fifo"
               PROVE  /\ o[1] = "unsolicited" <=> table[d].unsolicited
                      /\ o[1] = "fifo" <=> d \in DOMAIN moveStale
                      /\ o[1] = "fifo" => moveStale[d] = table[d].staleTime
                      /\ o[1] = "stale" => table[d].staleTime <= now
    BY DEF QueuesMirrorEntries
  <2>1. o[1] \in QueueType /\ d \in Members(queues[o[1]]) BY OccurrencesAre
  <2>2. \A r \in QueueType : d \in Members(queues[r]) => r = o[1]
    BY <2>1 DEF StoreInv, Agree, Indexes
  <2>3. o[1] # "lru" BY <2>1 DEF StoreInv, Agree, OfPolicy
  <2>4. o[1] \in {"unsolicited", "stale", "fifo"} BY <2>1, <2>3 DEF QueueType
  <2>5. DOMAIN moveStale = Members(queues["fifo"]) BY DEF StoreInv, Agree, Timed
  <2>6. Timed(table, queues, moveStale) /\ Sorting(table, queues, now) BY DEF StoreInv, Agree
  <2>7. o[1] = "fifo" <=> d \in DOMAIN moveStale
    <3>1. "fifo" \in QueueType BY DEF QueueType
    <3> QED BY <2>1, <2>2, <2>5, <3>1
  <2>8. o[1] = "unsolicited" <=> table[d].unsolicited BY <2>1, <2>4, <2>6 DEF Sorting
  <2>9. o[1] = "fifo" => moveStale[d] = table[d].staleTime BY <2>1, <2>6 DEF Timed
  <2>10. o[1] = "stale" => table[d].staleTime <= now BY <2>1, <2>6 DEF Sorting
  <2> QED BY <2>7, <2>8, <2>9, <2>10
<1> QED BY <1>1, StoreInvariant, PTL

\* Of what an eviction leaves, nothing is unsolicited if it took a solicited entry.
LEMMA EvictionSparesSolicited ==
    ASSUME NEW T, NEW Q, NEW M, NEW t, Agree(T, Q, M, "priority_fifo", t), NEW n \in Nat,
           NEW d \in Evicted(Q, Cardinality(DOMAIN T), n), ~T[d].unsolicited,
           NEW e \in DOMAIN T, e \notin Evicted(Q, Cardinality(DOMAIN T), n)
    PROVE  ~T[e].unsolicited
<1>1. Indexes(Q, DOMAIN T) /\ OfPolicy(Q, "priority_fifo") /\ Sorting(T, Q, t) BY DEF Agree
<1>2. "lru" \in QueueType /\ Members(Q["lru"]) = {} BY <1>1 DEF OfPolicy, QueueType
<1>3. d \notin Members(Q["unsolicited"]) BY <1>1 DEF Sorting
<1>4. Members(Q["unsolicited"]) \subseteq Evicted(Q, Cardinality(DOMAIN T), n)
  BY <1>1, <1>2, <1>3, UnsolicitedFirst
<1>5. PICK q \in QueueType : e \in Members(Q[q]) BY <1>1 DEF Indexes
<1>6. q \in {"stale", "fifo"} BY <1>2, <1>4, <1>5 DEF QueueType
<1> QED BY <1>1, <1>5, <1>6 DEF Sorting

\* PriorityFifoPolicy::evictOne takes from the unsolicited queue first, whatever led to
\* the eviction: an insertion, a command or a reload of the configuration.
THEOREM UnsolicitedEvictedFirstHolds == Spec => UnsolicitedEvictedFirst
<1> DEFINE Erases == \E i \in Interest, n \in EraseCount : erase(i.name, n)
           Spares == \A d \in Stored \ DOMAIN table' : \A e \in DOMAIN table' :
                        ~table[d].unsolicited => ~table'[e].unsolicited
<1>1. ASSUME StoreInv, [Next]_vars, policy = "priority_fifo", ~Erases PROVE Spares
  <2>1. Agree(table, queues, moveStale, "priority_fifo", now) /\ limit \in Nat
    BY <1>1 DEF StoreInv, StoreTypeOK
  <2>2. ASSUME NEW n \in Limit, setLimit(n) PROVE Spares
    <3> DEFINE gone == Evicted(queues, Cardinality(Stored), n)
    <3>1. table' = Without(table, gone) /\ n \in Nat
      BY <2>2, ContentStoreAssumption DEF setLimit
    <3> SUFFICES ASSUME NEW d \in Stored \ DOMAIN table', NEW e \in DOMAIN table',
                        ~table[d].unsolicited
                 PROVE  ~table'[e].unsolicited
      OBVIOUS
    <3>2. /\ d \in gone /\ e \in Stored /\ e \notin gone /\ table'[e] = table[e]
      BY <3>1 DEF Without, Stored
    <3>3. ~table[e].unsolicited
      BY <2>1, <3>1, <3>2, EvictionSparesSolicited DEF Stored
    <3> QED BY <3>2, <3>3
  <2>3. ASSUME NEW d \in Data, NEW u \in BOOLEAN, NEW c \in BOOLEAN, insert(d, u, c)
        PROVE  Spares
    <3> DEFINE isNewEntry == d \notin Stored
               entry == [staleTime |-> now + d.freshness,
                         unsolicited |-> u /\ (isNewEntry \/ table[d].unsolicited)]
               full == Put(table, d, entry)
               Q(q) == MoveToQueue(queues, q, d)
               gone(q) == IF isNewEntry THEN Evicted(Q(q), Cardinality(DOMAIN full), limit)
                          ELSE {}
    <3>1. PICK q \in QueuesFor(d, entry) : table' = Without(full, gone(q))
      BY <2>3 DEF insert
    <3>2. entry \in Entry /\ entry.staleTime = now + d.freshness
      <4>1. now + d.freshness \in Nat BY <1>1, LookupAssumption DEF StoreInv, StoreTypeOK
      <4>2. (u /\ (isNewEntry \/ table[d].unsolicited)) \in BOOLEAN
        <5>1. d \in DOMAIN table => table[d].unsolicited \in BOOLEAN
          BY <1>1 DEF StoreInv, Agree, Entry
        <5> QED BY <5>1 DEF Stored
      <4> QED BY <4>1, <4>2 DEF Entry
    <3>3. Agree(full, Q(q), TimersAfter(q, d, entry.staleTime), policy, now)
      <4>1. /\ Agree(table, queues, moveStale, policy, now)
            /\ now \in Nat /\ policy \in PolicyName
        BY <1>1 DEF StoreInv, StoreTypeOK
      <4> HIDE DEF entry
      <4> QED BY <3>1, <3>2, <4>1, InsertAgrees
    <3>4. /\ DOMAIN full = Stored \cup {d}
          /\ \A e \in Stored \ {d} : full[e] = table[e]
      BY DEF Put, Stored
    <3> HIDE DEF entry, full, Q
    <3> SUFFICES ASSUME NEW x \in Stored \ DOMAIN table', NEW e \in DOMAIN table',
                        ~table[x].unsolicited
                 PROVE  ~table'[e].unsolicited
      OBVIOUS
    <3>5. /\ DOMAIN table' = DOMAIN full \ gone(q)
          /\ table'[e] = full[e] /\ e \in DOMAIN full /\ e \notin gone(q)
          /\ x \in gone(q)
      BY <3>1, <3>4 DEF Without
    <3>6. isNewEntry /\ full[x] = table[x] BY <3>4, <3>5
    <3>7. ~full[e].unsolicited
      <4> DEFINE M == TimersAfter(q, d, entry.staleTime)
      <4>1. Agree(full, Q(q), M, "priority_fifo", now) BY <1>1, <3>3
      <4>2. /\ x \in Evicted(Q(q), Cardinality(DOMAIN full), limit) /\ ~full[x].unsolicited
            /\ e \notin Evicted(Q(q), Cardinality(DOMAIN full), limit) /\ e \in DOMAIN full
        BY <3>5, <3>6
      <4> HIDE DEF M
      <4> QED BY <2>1, <4>1, <4>2, EvictionSparesSolicited
    <3> QED BY <3>5, <3>7
  <2>4. CASE UNCHANGED table BY <2>4 DEF Stored
  <2>5. ASSUME NEW h \in BOOLEAN, NEW a \in BOOLEAN, NEW s \in BOOLEAN, NEW n \in Limit,
               changeConfig(h, n, a, s)
        PROVE  Spares
    <3>1. setLimit(n) \/ UNCHANGED table BY <2>5 DEF changeConfig
    <3> QED BY <2>2, <2>4, <3>1
  <2>6. ASSUME NEW n \in Limit, NEW p \in PolicyName, processConfig(n, p) PROVE Spares
    <3>1. setLimit(n) BY <2>6 DEF processConfig
    <3> QED BY <2>2, <3>1
  <2>7. \/ UNCHANGED vars
        \/ \E d \in Data, u, c \in BOOLEAN : insert(d, u, c)
        \/ \E c \in BOOLEAN : InsertRefused(c)
        \/ \E i \in Interest : find(i)
        \/ \E h, a, s \in BOOLEAN, n \in Limit : changeConfig(h, n, a, s)
        \/ \E n \in Limit, p \in PolicyName : processConfig(n, p)
        \/ \E d \in Data : moveToStaleQueue(d)
        \/ Tick
    BY <1>1 DEF Next
  <2>8. UNCHANGED vars \/ Tick \/ (\E i \in Interest : find(i))
            \/ (\E d \in Data : moveToStaleQueue(d)) \/ (\E c \in BOOLEAN : InsertRefused(c))
        => UNCHANGED table
    BY DEF vars, Tick, find, moveToStaleQueue, InsertRefused
  <2> QED BY <2>3, <2>4, <2>5, <2>6, <2>7, <2>8
<1>2. StoreInv /\ [Next]_vars => [policy = "priority_fifo" /\ ~Erases => Spares]_vars BY <1>1
<1> QED BY <1>2, StoreInvariant, PTL DEF Spec, UnsolicitedEvictedFirst

=============================================================================
