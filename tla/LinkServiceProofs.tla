------------------------- MODULE LinkServiceProofs --------------------------
(***************************************************************************)
(* Theorems about GenericLinkService, for any traffic, link, number of     *)
(* retransmissions and loss threshold, and wherever the sequence numbers   *)
(* wrap around.                                                            *)
(*                                                                         *)
(* The invariant of a face is a predicate of its reliability record, so    *)
(* that it can be said of the record before and after each member          *)
(* function.                                                               *)
(***************************************************************************)
EXTENDS GenericLinkService, ListFacts

-----------------------------------------------------------------------------
(* Numbers *)

\* How many sequence numbers after the first one of the face.
Pos(tx) == Ahead(tx, FirstTx)

LEMMA AheadCases ==
    ASSUME NEW a \in TxSequence, NEW b \in TxSequence
    PROVE  Ahead(a, b) = IF a >= b THEN a - b ELSE a - b + SeqSpace
BY LpReliabilityAssumption, Z3 DEF TxSequence, Ahead

LEMMA PosCases ==
    ASSUME NEW tx \in TxSequence
    PROVE  /\ Pos(tx) = IF tx >= FirstTx THEN tx - FirstTx ELSE tx - FirstTx + SeqSpace
           /\ Pos(tx) \in TxSequence
<1>1. FirstTx \in TxSequence BY GenericLinkServiceAssumption
<1>2. Pos(tx) = IF tx >= FirstTx THEN tx - FirstTx ELSE tx - FirstTx + SeqSpace
  BY <1>1, AheadCases DEF Pos
<1> QED BY <1>1, <1>2, LpReliabilityAssumption DEF TxSequence

LEMMA PosInjective ==
    ASSUME NEW a \in TxSequence, NEW b \in TxSequence
    PROVE  Pos(a) = Pos(b) => a = b
<1>1. /\ Pos(a) = IF a >= FirstTx THEN a - FirstTx ELSE a - FirstTx + SeqSpace
      /\ Pos(b) = IF b >= FirstTx THEN b - FirstTx ELSE b - FirstTx + SeqSpace
  BY PosCases
<1>2. FirstTx \in TxSequence BY GenericLinkServiceAssumption
<1>3. SeqSpace \in Nat BY LpReliabilityAssumption
<1> QED BY <1>1, <1>2, <1>3 DEF TxSequence

LEMMA AheadPos ==
    ASSUME NEW a \in TxSequence, NEW b \in TxSequence, Pos(b) <= Pos(a)
    PROVE  Ahead(a, b) = Pos(a) - Pos(b)
<1>1. FirstTx \in TxSequence BY GenericLinkServiceAssumption
<1>2. SeqSpace \in Nat BY LpReliabilityAssumption
<1>3. /\ Pos(a) = IF a >= FirstTx THEN a - FirstTx ELSE a - FirstTx + SeqSpace
      /\ Pos(b) = IF b >= FirstTx THEN b - FirstTx ELSE b - FirstTx + SeqSpace
  BY PosCases
<1>4. Ahead(a, b) = IF a >= b THEN a - b ELSE a - b + SeqSpace BY AheadCases
<1> QED BY <1>1, <1>2, <1>3, <1>4 DEF TxSequence

\* A remainder is found from any representation.
LEMMA Remainder ==
    ASSUME NEW a \in Int, NEW q \in Int, NEW r \in TxSequence, a = q * SeqSpace + r
    PROVE  a % SeqSpace = r
BY LpReliabilityAssumption, Z3 DEF TxSequence

LEMMA RemainderType ==
    ASSUME NEW a \in Int
    PROVE  a % SeqSpace \in TxSequence
BY LpReliabilityAssumption, Z3 DEF TxSequence

LEMMA PosOfSum ==
    ASSUME NEW tx \in TxSequence, NEW i \in Nat, Pos(tx) + i < SeqSpace
    PROVE  /\ (tx + i) % SeqSpace \in TxSequence
           /\ Pos((tx + i) % SeqSpace) = Pos(tx) + i
<1> DEFINE s == (tx + i) % SeqSpace
<1>1. FirstTx \in TxSequence BY GenericLinkServiceAssumption
<1>2. SeqSpace \in Nat \ {0} BY LpReliabilityAssumption
<1>3. CASE tx + i < SeqSpace
  <2>1. s = tx + i BY <1>2, <1>3, Remainder DEF TxSequence
  <2>2. s \in TxSequence BY <2>1, <1>2, <1>3 DEF TxSequence
  <2> HIDE DEF s
  <2> QED BY <2>1, <2>2, <1>1, <1>2, PosCases DEF TxSequence, s
<1>4. CASE tx + i >= SeqSpace
  <2>0. tx + i - SeqSpace \in TxSequence /\ tx + i = 1 * SeqSpace + (tx + i - SeqSpace)
    BY <1>1, <1>2, <1>4, PosCases DEF TxSequence
  <2>1. s = tx + i - SeqSpace
    BY <2>0, <1>2, Remainder DEF TxSequence
  <2>2. s \in TxSequence BY <2>1, <2>0
  <2> HIDE DEF s
  <2> QED BY <2>1, <2>2, <1>1, <1>2, <1>4, PosCases DEF TxSequence, s
<1> QED BY <1>2, <1>3, <1>4 DEF TxSequence
-----------------------------------------------------------------------------
(* The invariant *)

Fragment == [net : Nat, index : Nat, count : Nat, seq : Int]
AnyUnackedFrag == [frag : Fragment, retx : Nat, greaterAcks : Nat, timer : BOOLEAN]
AnyNetPkt == [unacked : SUBSET TxSequence, didRetx : BOOLEAN]
Outcome == {"nAcknowledged", "nRetransmitted", "nRetxExhausted"}
Packet == [tx : TxSequence \cup {NoTx}, frag : Fragment, acks : Seq(TxSequence)]
Maps(S, T) == UNION {[D -> T] : D \in SUBSET S}

Reliability ==
    [enabled : BOOLEAN, unacked : Maps(TxSequence, AnyUnackedFrag), nets : Maps(Nat, AnyNetPkt),
     first : TxSequence \cup {NoTx}, lastTx : TxSequence, ackQueue : Seq(TxSequence),
     idleTimer : BOOLEAN, resolved : Seq([net : Nat, as : Outcome]), sent : SUBSET Packet]

\* The Sequences that each packet of the traffic s takes, and the first n of them.
Numbered(s) ==
    [i \in 1 .. Len(s) |-> IF 1 < s[i] /\ s[i] <= NMaxFragments THEN s[i] ELSE 0]
SeqUsed(s, n) == Total(Numbered(s), n)

\* The message identifier of a packet: the Sequence of its first fragment.
FirstId(s, net) == (FirstSeq + SeqUsed(s, net - 1) + 1) % SeqSpace

\* g is a fragment of one of the first n packets of the traffic s.
FragOf(g, s, n) ==
    /\ g.net \in 1 .. n
    /\ g.count = s[g.net] /\ g.count <= NMaxFragments
    /\ g.index \in 0 .. g.count - 1
    /\ g.count # 1 => MessageIdentifier(g) = FirstId(s, g.net)

\* The TxSequence tx was assigned when last was the last one.
Issued(tx, last) == Pos(tx) \in 1 .. Pos(last)

KeyOf(g) == <<g.net, g.index>>

\* m_firstUnackedFrag is the oldest.
WindowInv(r) ==
    /\ r.first = NoTx <=> r.unacked = Empty
    /\ \A tx \in DOMAIN r.unacked :
          r.first \in DOMAIN r.unacked /\ Pos(r.first) <= Pos(tx)

IndexInv(r) ==
    /\ \A tx \in DOMAIN r.unacked : r.unacked[tx].frag.net \in DOMAIN r.nets
    /\ \A net \in DOMAIN r.nets :
          /\ r.nets[net].unacked # {}
          /\ r.nets[net].unacked = {tx \in DOMAIN r.unacked : r.unacked[tx].frag.net = net}

\* Each unacknowledged fragment is there once, with a TxSequence that was assigned.
FragsInv(r, s, n) ==
    /\ \A tx \in DOMAIN r.unacked :
          /\ FragOf(r.unacked[tx].frag, s, n)
          /\ r.unacked[tx].retx <= MaxRetx
          /\ Issued(tx, r.lastTx)
    /\ \A t, u \in DOMAIN r.unacked :
          KeyOf(r.unacked[t].frag) = KeyOf(r.unacked[u].frag) => t = u

\* The retransmissions that are still allowed, and a bound for all transmissions.
Spare(r) ==
    UNION {{<<r.unacked[t].frag.net, r.unacked[t].frag.index, k>> :
               k \in r.unacked[t].retx + 1 .. MaxRetx} : t \in DOMAIN r.unacked}

BudgetInv(r, s, n) ==
    /\ IsFiniteSet(Spare(r))
    /\ Pos(r.lastTx) + Cardinality(Spare(r)) <= (MaxRetx + 1) * Total(s, n)

CountedNets(r) == {r.resolved[i].net : i \in 1 .. Len(r.resolved)}

\* The packets of R are pending or counted, each once.
CountInv(r, R) ==
    /\ IsFiniteSet(CountedNets(r))
    /\ Cardinality(CountedNets(r)) = Len(r.resolved)
    /\ CountedNets(r) \cap DOMAIN r.nets = {}
    /\ CountedNets(r) \cup DOMAIN r.nets = R

\* A are the fragments that the peer has received.
Whole(s, net, A) == \A i \in 0 .. s[net] - 1 : <<net, i>> \in A

ReceivedInv(r, s, A) ==
    /\ \A net \in DOMAIN r.nets : \A i \in 0 .. s[net] - 1 :
          <<net, i>> \notin A => \E tx \in r.nets[net].unacked : r.unacked[tx].frag.index = i
    /\ \A i \in 1 .. Len(r.resolved) :
          r.resolved[i].as # "nRetxExhausted" => Whole(s, r.resolved[i].net, A)

\* K are the TxSequences that the peer acknowledges.
AckInv(r, K, A) ==
    \A tx \in K : /\ Issued(tx, r.lastTx)
                  /\ tx \in DOMAIN r.unacked => KeyOf(r.unacked[tx].frag) \in A

\* A packet on its way to the peer is IDLE, or carries the fragment it was sent with.
CarriesInv(r, tx, frag, s, n) ==
    \/ frag = NoFrag /\ tx = NoTx
    \/ /\ FragOf(frag, s, n)
       /\ tx # NoTx => /\ Issued(tx, r.lastTx)
                       /\ tx \in DOMAIN r.unacked => r.unacked[tx].frag = frag

PacketInv(r, p, s, n) == CarriesInv(r, p.tx, p.frag, s, n)

\* Y are the TxSequences that the face acknowledges.
QueueInv(r, Y) ==
    /\ Members(r.ackQueue) \subseteq Y
    /\ \A p \in r.sent : Members(p.acks) \subseteq Y

RelInv(r, s, n, R, A, K, P, Y) ==
    /\ r \in Reliability
    /\ WindowInv(r)
    /\ IndexInv(r)
    /\ FragsInv(r, s, n)
    /\ BudgetInv(r, s, n)
    /\ CountInv(r, R)
    /\ ReceivedInv(r, s, A)
    /\ AckInv(r, K, A)
    /\ \A p \in P \cup r.sent : PacketInv(r, p, s, n)
    /\ QueueInv(r, Y)

\* The Acks on their way to e.
AcksTo(e) == Members(rel[Peer(e)].ackQueue) \cup UNION {Members(p.acks) : p \in link[e]}

FaceInv(e) ==
    /\ rel[e].sent = {}
    /\ RelInv(rel[e], Traffic[e], nSent[e], reliable[e], arrived[Peer(e)], AcksTo(e),
              link[Peer(e)], AcksTo(Peer(e)))

CounterInv(e) ==
    /\ nSent[e] <= Len(Traffic[e])
    /\ reliable[e] \subseteq 1 .. nSent[e]
    /\ lastSeq[e] = (FirstSeq + SeqUsed(Traffic[e], nSent[e])) % SeqSpace

AnyPartial == [count : Nat, received : Nat, frags : Maps(Nat, Nat)]

\* The fragments of a partial packet are different ones of one packet of the peer.
PartialInv(pp, id, s, n, A) ==
    \E net \in 1 .. n :
        /\ s[net] # 1 /\ s[net] <= NMaxFragments
        /\ id = FirstId(s, net)
        /\ pp.count = s[net]
        /\ DOMAIN pp.frags \subseteq 0 .. s[net] - 1
        /\ \A i \in DOMAIN pp.frags : pp.frags[i] = net /\ <<net, i>> \in A
        /\ pp.received = Cardinality(DOMAIN pp.frags)

PartialsInv(m, s, n, A) ==
    /\ m \in Maps(TxSequence, AnyPartial)
    /\ \A id \in DOMAIN m : PartialInv(m[id], id, s, n, A)

AssemblyInv(e) ==
    /\ PartialsInv(partial[e], Traffic[Peer(e)], nSent[Peer(e)], arrived[e])
    /\ \A nets \in passedUp[e] :
          \E net \in Nat : nets = {net} /\ Whole(Traffic[Peer(e)], net, arrived[e])

TypeInv ==
    /\ rel \in [End -> Reliability]
    /\ lastSeq \in [End -> TxSequence]
    /\ partial \in [End -> Maps(TxSequence, AnyPartial)]
    /\ link \in [End -> SUBSET Packet]
    /\ nSent \in [End -> Nat]
    /\ reliable \in [End -> SUBSET Nat]
    /\ arrived \in [End -> SUBSET (Nat \X Nat)]
    /\ passedUp \in [End -> SUBSET SUBSET Nat]
    /\ dups \in Nat
    /\ switches \in Nat

LinkInv ==
    /\ TypeInv
    /\ \A e \in End : CounterInv(e) /\ FaceInv(e) /\ AssemblyInv(e)
-----------------------------------------------------------------------------
(* Records *)

LEMMA MapType ==
    ASSUME NEW S, NEW T, NEW m \in Maps(S, T)
    PROVE  DOMAIN m \subseteq S /\ m \in [DOMAIN m -> T] /\ \A x \in DOMAIN m : m[x] \in T
BY DEF Maps

LEMMA MapIntro ==
    ASSUME NEW S, NEW T, NEW D, D \subseteq S, NEW m \in [D -> T]
    PROVE  m \in Maps(S, T)
BY DEF Maps

LEMMA RelTypes ==
    ASSUME NEW r \in Reliability
    PROVE  /\ r.enabled \in BOOLEAN /\ r.idleTimer \in BOOLEAN
           /\ r.unacked \in Maps(TxSequence, AnyUnackedFrag)
           /\ DOMAIN r.unacked \subseteq TxSequence
           /\ \A tx \in DOMAIN r.unacked : r.unacked[tx] \in AnyUnackedFrag
           /\ r.nets \in Maps(Nat, AnyNetPkt)
           /\ DOMAIN r.nets \subseteq Nat
           /\ \A net \in DOMAIN r.nets : r.nets[net] \in AnyNetPkt
           /\ r.first \in TxSequence \cup {NoTx} /\ r.lastTx \in TxSequence
           /\ r.ackQueue \in Seq(TxSequence)
           /\ r.resolved \in Seq([net : Nat, as : Outcome])
           /\ r.sent \subseteq Packet
<1>1. /\ r.enabled \in BOOLEAN /\ r.idleTimer \in BOOLEAN
      /\ r.unacked \in Maps(TxSequence, AnyUnackedFrag)
      /\ r.nets \in Maps(Nat, AnyNetPkt)
      /\ r.first \in TxSequence \cup {NoTx} /\ r.lastTx \in TxSequence
      /\ r.ackQueue \in Seq(TxSequence)
      /\ r.resolved \in Seq([net : Nat, as : Outcome])
      /\ r.sent \subseteq Packet
  BY DEF Reliability
<1> QED BY <1>1, MapType

\* The parts of d that only sending and counting change are those of r.
SameQueue(d, r) ==
    /\ d.enabled = r.enabled /\ d.idleTimer = r.idleTimer
    /\ d.ackQueue = r.ackQueue /\ d.sent = r.sent

LEMMA LeastIsMin ==
    ASSUME NEW T, T \subseteq Nat, T # {}
    PROVE  Min(T) \in T /\ \A y \in T : Min(T) <= y
<1>1. \E x \in T : \A y \in T : x <= y BY LeastNumber
<1> QED BY <1>1 DEF Min

LEMMA EmptyMap ==
    ASSUME NEW S, NEW T, NEW m \in Maps(S, T)
    PROVE  m = Empty <=> DOMAIN m = {}
<1>1. m = [x \in DOMAIN m |-> m[x]] BY MapType
<1>2. DOMAIN m = {} => m = [x \in {} |-> x] BY <1>1
<1> QED BY <1>2 DEF Empty

\* Deleting fragments moves the start of the window to the oldest that is left, also
\* where the TxSequence wraps around.
LEMMA DeleteFrags ==
    ASSUME NEW r \in Reliability, WindowInv(r), NEW txs
    PROVE  LET d == deleteUnackedFrag(r, txs)
           IN  /\ d \in Reliability
               /\ WindowInv(d)
               /\ DOMAIN d.unacked = DOMAIN r.unacked \ txs
               /\ \A t \in DOMAIN d.unacked : d.unacked[t] = r.unacked[t]
               /\ SameQueue(d, r)
               /\ d.nets = r.nets /\ d.lastTx = r.lastTx /\ d.resolved = r.resolved
<1> DEFINE d == deleteUnackedFrag(r, txs)
           left == DOMAIN r.unacked \ txs
           later == {t \in left : t > r.first}
           first == CASE left = {} -> NoTx
                      [] left # {} /\ r.first \in left -> r.first
                      [] left # {} /\ r.first \notin left -> Min(IF later = {} THEN left ELSE later)
<1> SUFFICES /\ d \in Reliability
             /\ WindowInv(d)
             /\ DOMAIN d.unacked = DOMAIN r.unacked \ txs
             /\ \A t \in DOMAIN d.unacked : d.unacked[t] = r.unacked[t]
             /\ SameQueue(d, r)
             /\ d.nets = r.nets /\ d.lastTx = r.lastTx /\ d.resolved = r.resolved
  OBVIOUS
<1>0. /\ DOMAIN r.unacked \subseteq TxSequence
      /\ \A tx \in DOMAIN r.unacked : r.unacked[tx] \in AnyUnackedFrag
      /\ r.first \in TxSequence \cup {NoTx}
      /\ r.unacked \in Maps(TxSequence, AnyUnackedFrag)
  BY RelTypes
<1>1. d = [r EXCEPT !.unacked = Keep(r.unacked, left), !.first = first]
  BY DEF deleteUnackedFrag
<1>2. Keep(r.unacked, left) \in [left -> AnyUnackedFrag] BY <1>0 DEF Keep
<1>3. Keep(r.unacked, left) \in Maps(TxSequence, AnyUnackedFrag)
  <2> HIDE DEF left
  <2>1. left \subseteq TxSequence BY <1>0 DEF left
  <2> QED BY <1>2, <2>1, MapIntro
<1>4. left = {} => first = NoTx OBVIOUS
<1>5. TxSequence \subseteq Nat BY DEF TxSequence
<1>6. ASSUME left # {}
      PROVE  first \in left /\ \A t \in left : Pos(first) <= Pos(t)
  <2>1. PICK t0 : t0 \in left BY <1>6
  <2>2. r.first \in DOMAIN r.unacked /\ \A tx \in DOMAIN r.unacked : Pos(r.first) <= Pos(tx)
    BY <2>1 DEF WindowInv
  <2>3. CASE r.first \in left
    <3>1. first = r.first BY <1>6, <2>3
    <3> QED BY <3>1, <2>2, <2>3
  <2>4. CASE r.first \notin left
    <3> DEFINE T == IF later = {} THEN left ELSE later
    <3>1. first = Min(T) BY <1>6, <2>4
    <3>2. T \subseteq left /\ left \subseteq TxSequence /\ T # {} BY <1>0, <1>6
    <3> HIDE DEF first
    <3>3. first \in T /\ \A y \in T : first <= y
      <4> HIDE DEF T
      <4> QED BY <3>1, <3>2, <1>5, LeastIsMin
    <3>4. ASSUME NEW t \in left PROVE Pos(first) <= Pos(t)
      <4>1. t \in TxSequence /\ r.first \in TxSequence /\ first \in TxSequence /\ FirstTx \in TxSequence
        BY <2>2, <3>2, <3>3, <1>0, GenericLinkServiceAssumption
      <4>2. Pos(r.first) <= Pos(t) /\ Pos(r.first) <= Pos(first) /\ t # r.first /\ first # r.first
        BY <2>2, <2>4, <3>2, <3>3
      <4>3. /\ Pos(t) = IF t >= FirstTx THEN t - FirstTx ELSE t - FirstTx + SeqSpace
            /\ Pos(first) = IF first >= FirstTx THEN first - FirstTx ELSE first - FirstTx + SeqSpace
            /\ Pos(r.first) = IF r.first >= FirstTx THEN r.first - FirstTx
                                                    ELSE r.first - FirstTx + SeqSpace
        BY <4>1, PosCases
      <4>4. \/ t > r.first /\ first > r.first /\ first <= t
            \/ ~(t > r.first) /\ first > r.first
            \/ ~(t > r.first) /\ ~(first > r.first) /\ first <= t
        <5>1. CASE later = {} BY <5>1, <3>2, <3>3
        <5>2. CASE later # {} BY <5>2, <3>3, <4>1
        <5> QED BY <5>1, <5>2
      <4>5. SeqSpace \in Nat BY LpReliabilityAssumption
      <4> HIDE DEF left, later, T, d
      <4> QED BY <4>1, <4>2, <4>3, <4>4, <4>5 DEF TxSequence
    <3> QED BY <3>2, <3>3, <3>4
  <2> QED BY <2>3, <2>4
<1>7. NoTx \notin TxSequence BY DEF NoTx, TxSequence
<1>8. first \in TxSequence \cup {NoTx}
  <2> HIDE DEF first
  <2> QED BY <1>0, <1>4, <1>6
<1> HIDE DEF first
<1>9. d \in Reliability BY <1>1, <1>3, <1>8 DEF Reliability
<1>10. /\ SameQueue(d, r) /\ d.nets = r.nets /\ d.lastTx = r.lastTx /\ d.resolved = r.resolved
       /\ d.unacked = Keep(r.unacked, left) /\ d.first = first
  <2> HIDE DEF left
  <2> QED BY <1>1 DEF Reliability, SameQueue
<1>11. DOMAIN d.unacked = left /\ \A t \in left : d.unacked[t] = r.unacked[t]
  BY <1>10 DEF Keep
<1>12. WindowInv(d)
  <2> HIDE DEF d, left
  <2>1. d.unacked = Empty <=> left = {} BY <1>11, <1>10, <1>3, EmptyMap
  <2>2. d.first = NoTx <=> left = {}
    <3>1. left # {} => first \in TxSequence BY <1>6, <1>0 DEF left
    <3> QED BY <3>1, <1>4, <1>7, <1>10
  <2>3. \A tx \in left : d.first \in left /\ Pos(d.first) <= Pos(tx) BY <1>6, <1>10
  <2> QED BY <2>1, <2>2, <2>3, <1>11 DEF WindowInv
<1> QED BY <1>9, <1>10, <1>11, <1>12
-----------------------------------------------------------------------------
(* Fragments that go *)

LEMMA SpareDef ==
    ASSUME NEW r, NEW x
    PROVE  x \in Spare(r) <=>
              \E t \in DOMAIN r.unacked : \E k \in r.unacked[t].retx + 1 .. MaxRetx :
                  x = <<r.unacked[t].frag.net, r.unacked[t].frag.index, k>>
BY DEF Spare

\* d has no other fragments than r.
Shrinks(d, r) ==
    /\ DOMAIN d.unacked \subseteq DOMAIN r.unacked
    /\ \A t \in DOMAIN d.unacked :
          d.unacked[t].frag = r.unacked[t].frag /\ d.unacked[t].retx = r.unacked[t].retx
    /\ d.lastTx = r.lastTx
    /\ SameQueue(d, r)

\* What is said of each fragment and packet.
EachInv(r, s, n, A, K, P, Y) ==
    /\ FragsInv(r, s, n)
    /\ BudgetInv(r, s, n)
    /\ AckInv(r, K, A)
    /\ \A p \in P \cup r.sent : PacketInv(r, p, s, n)
    /\ QueueInv(r, Y)

LEMMA ShrinkKeeps ==
    ASSUME NEW r \in Reliability, NEW d \in Reliability, Shrinks(d, r),
           NEW s \in Seq(Nat), NEW n, NEW A, NEW K, NEW P, NEW Y,
           Total(s, n) \in Nat, EachInv(r, s, n, A, K, P, Y)
    PROVE  EachInv(d, s, n, A, K, P, Y)
<1>1. FragsInv(d, s, n)
  BY DEF Shrinks, EachInv, FragsInv
<1>2. Spare(d) \subseteq Spare(r)
  <2> SUFFICES ASSUME NEW x \in Spare(d) PROVE x \in Spare(r) OBVIOUS
  <2>0. PICK t \in DOMAIN d.unacked : \E k \in d.unacked[t].retx + 1 .. MaxRetx :
            x = <<d.unacked[t].frag.net, d.unacked[t].frag.index, k>>
    BY SpareDef
  <2>1. PICK k \in d.unacked[t].retx + 1 .. MaxRetx :
            x = <<d.unacked[t].frag.net, d.unacked[t].frag.index, k>>
    BY <2>0
  <2>2. /\ t \in DOMAIN r.unacked /\ k \in r.unacked[t].retx + 1 .. MaxRetx
        /\ x = <<r.unacked[t].frag.net, r.unacked[t].frag.index, k>>
    BY <2>1 DEF Shrinks
  <2> QED BY <2>2, SpareDef
<1>3. BudgetInv(d, s, n)
  <2>1. /\ IsFiniteSet(Spare(r))
        /\ Pos(r.lastTx) + Cardinality(Spare(r)) <= (MaxRetx + 1) * Total(s, n)
    BY DEF EachInv, BudgetInv
  <2>2. IsFiniteSet(Spare(d)) /\ Cardinality(Spare(d)) <= Cardinality(Spare(r))
    BY <1>2, <2>1, FS_Subset
  <2>3. Cardinality(Spare(d)) \in Nat /\ Cardinality(Spare(r)) \in Nat
    BY <2>1, <2>2, FS_CardinalityType
  <2>4. Pos(r.lastTx) \in Int /\ d.lastTx = r.lastTx
    <3>1. Pos(r.lastTx) \in TxSequence BY RelTypes, PosCases
    <3> QED BY <3>1 DEF Shrinks, TxSequence
  <2>5. (MaxRetx + 1) * Total(s, n) \in Int BY LpReliabilityAssumption
  <2> DEFINE b == (MaxRetx + 1) * Total(s, n)
  <2> HIDE DEF b
  <2>6. Pos(d.lastTx) + Cardinality(Spare(d)) <= b BY <2>1, <2>2, <2>3, <2>4, <2>5 DEF b
  <2> QED BY <2>2, <2>6 DEF BudgetInv, b
<1>4. AckInv(d, K, A)
  BY DEF Shrinks, EachInv, AckInv
<1>5. \A p \in P \cup d.sent : PacketInv(d, p, s, n)
  BY DEF Shrinks, EachInv, PacketInv, CarriesInv, SameQueue
<1>6. QueueInv(d, Y) BY DEF Shrinks, EachInv, QueueInv, SameQueue
<1> QED BY <1>1, <1>3, <1>4, <1>5, <1>6 DEF EachInv

\* The constants and the traffic of one end, and the sets that the invariant refers to.
LEMMA RelInvParts ==
    ASSUME NEW r, NEW s, NEW n, NEW R, NEW A, NEW K, NEW P, NEW Y
    PROVE  RelInv(r, s, n, R, A, K, P, Y) <=>
              /\ r \in Reliability
              /\ WindowInv(r)
              /\ IndexInv(r)
              /\ CountInv(r, R)
              /\ ReceivedInv(r, s, A)
              /\ EachInv(r, s, n, A, K, P, Y)
BY DEF RelInv, EachInv

\* A packet is counted, and has no fragment left.
LEMMA CountedOnce ==
    ASSUME NEW r \in Reliability, NEW R, CountInv(r, R), NEW net \in DOMAIN r.nets, NEW d,
           NEW as \in Outcome,
           d.resolved = Append(r.resolved, [net |-> net, as |-> as]),
           DOMAIN d.nets = DOMAIN r.nets \ {net}
    PROVE  CountInv(d, R)
<1> DEFINE x == [net |-> net, as |-> as]
<1>1. r.resolved \in Seq([net : Nat, as : Outcome]) /\ net \in Nat BY RelTypes
<1>2. x \in [net : Nat, as : Outcome] BY <1>1
<1>3. /\ Len(d.resolved) = Len(r.resolved) + 1 /\ Len(r.resolved) \in Nat
      /\ \A i \in 1 .. Len(r.resolved) : d.resolved[i] = r.resolved[i]
      /\ d.resolved[Len(r.resolved) + 1] = x
  <2> DEFINE T == [net : Nat, as : Outcome]
             l == r.resolved
  <2>1. d.resolved = Append(l, x) BY DEF x
  <2>2. l \in Seq(T) /\ x \in T BY <1>1, <1>2
  <2> HIDE DEF x, T, l
  <2>3. /\ Append(l, x) \in Seq(T) /\ Len(Append(l, x)) = Len(l) + 1 /\ Len(l) \in Nat
        /\ \A i \in 1 .. Len(l) : Append(l, x)[i] = l[i]
        /\ Append(l, x)[Len(l) + 1] = x
    BY <2>2, AppendProperties, LenProperties
  <2> QED BY <2>1, <2>3 DEF l, T
<1>4. CountedNets(d) = CountedNets(r) \cup {net}
  <2> DEFINE m == Len(r.resolved)
  <2>0. m \in Nat /\ x.net = net BY <1>3
  <2>1. \A i \in 1 .. m + 1 : i \in 1 .. m \/ i = m + 1 BY <2>0
  <2>2. \A i \in 1 .. m : i \in 1 .. m + 1 BY <2>0
  <2>3. m + 1 \in 1 .. m + 1 BY <2>0
  <2> HIDE DEF x
  <2> QED BY <1>3, <2>0, <2>1, <2>2, <2>3 DEF CountedNets
<1>5. net \notin CountedNets(r) BY DEF CountInv
<1>6. /\ IsFiniteSet(CountedNets(d))
      /\ Cardinality(CountedNets(d)) = Cardinality(CountedNets(r)) + 1
  <2> DEFINE C == CountedNets(r)
  <2>1. IsFiniteSet(C) /\ net \notin C /\ CountedNets(d) = C \cup {net}
    BY <1>4, <1>5 DEF CountInv
  <2> HIDE DEF C
  <2>2. IsFiniteSet(C \cup {net}) /\ Cardinality(C \cup {net}) = Cardinality(C) + 1
    BY <2>1, FS_AddElement
  <2> QED BY <2>1, <2>2 DEF C
<1> QED BY <1>3, <1>4, <1>5, <1>6 DEF CountInv

LEMMA ResolvedAppend ==
    ASSUME NEW r \in Reliability, NEW net \in Nat, NEW as \in Outcome, NEW s, NEW A, NEW d,
           d.resolved = Append(r.resolved, [net |-> net, as |-> as]),
           \A i \in 1 .. Len(r.resolved) :
              r.resolved[i].as # "nRetxExhausted" => Whole(s, r.resolved[i].net, A),
           as # "nRetxExhausted" => Whole(s, net, A)
    PROVE  /\ d.resolved \in Seq([net : Nat, as : Outcome])
           /\ \A i \in 1 .. Len(d.resolved) :
                 d.resolved[i].as # "nRetxExhausted" => Whole(s, d.resolved[i].net, A)
<1> DEFINE x == [net |-> net, as |-> as]
<1>1. r.resolved \in Seq([net : Nat, as : Outcome]) BY RelTypes
<1>2. x \in [net : Nat, as : Outcome] /\ x.net = net /\ x.as = as OBVIOUS
<1>3. /\ Len(d.resolved) = Len(r.resolved) + 1 /\ Len(r.resolved) \in Nat
      /\ \A i \in 1 .. Len(r.resolved) : d.resolved[i] = r.resolved[i]
      /\ d.resolved[Len(r.resolved) + 1] = x
      /\ d.resolved \in Seq([net : Nat, as : Outcome])
  <2> DEFINE T == [net : Nat, as : Outcome]
             l == r.resolved
  <2>1. d.resolved = Append(l, x) BY DEF x
  <2>2. l \in Seq(T) /\ x \in T BY <1>1, <1>2
  <2> HIDE DEF x, T, l
  <2>3. /\ Append(l, x) \in Seq(T) /\ Len(Append(l, x)) = Len(l) + 1 /\ Len(l) \in Nat
        /\ \A i \in 1 .. Len(l) : Append(l, x)[i] = l[i]
        /\ Append(l, x)[Len(l) + 1] = x
    BY <2>2, AppendProperties, LenProperties
  <2> QED BY <2>1, <2>3 DEF l, T
<1>4. \A i \in 1 .. Len(r.resolved) + 1 : i \in 1 .. Len(r.resolved) \/ i = Len(r.resolved) + 1
  BY <1>3
<1> HIDE DEF x
<1> QED BY <1>2, <1>3, <1>4

LEMMA GiveUpKeeps ==
    ASSUME NEW r, NEW s \in Seq(Nat), NEW n, NEW R, NEW A, NEW K, NEW P, NEW Y,
           Total(s, n) \in Nat, RelInv(r, s, n, R, A, K, P, Y), NEW tx \in DOMAIN r.unacked
    PROVE  RelInv(GiveUp(r, tx), s, n, R, A, K, P, Y)
<1> DEFINE net == r.unacked[tx].frag.net
           X == r.nets[net].unacked
           x == [net |-> net, as |-> "nRetxExhausted"]
           e == [r EXCEPT !.nets = Drop(r.nets, net), !.resolved = Append(r.resolved, x)]
           d == deleteUnackedFrag(e, X \cup {tx})
<1>1. GiveUp(r, tx) = d BY DEF GiveUp
<1>2. /\ r \in Reliability /\ WindowInv(r) /\ IndexInv(r) /\ CountInv(r, R)
      /\ ReceivedInv(r, s, A) /\ EachInv(r, s, n, A, K, P, Y)
  BY RelInvParts
<1>3. /\ net \in DOMAIN r.nets
      /\ X = {t \in DOMAIN r.unacked : r.unacked[t].frag.net = net}
      /\ tx \in X
  BY <1>2 DEF IndexInv
<1>4. net \in Nat /\ "nRetxExhausted" \in Outcome /\ DOMAIN r.nets \subseteq Nat
  BY <1>2, <1>3, RelTypes DEF Outcome
<1>5. /\ DOMAIN Drop(r.nets, net) = DOMAIN r.nets \ {net}
      /\ \A m \in DOMAIN r.nets \ {net} : Drop(r.nets, net)[m] = r.nets[m]
  BY DEF Drop
<1>6. Drop(r.nets, net) \in Maps(Nat, AnyNetPkt)
  <2>1. \A m \in DOMAIN r.nets : r.nets[m] \in AnyNetPkt BY <1>2, RelTypes
  <2>2. Drop(r.nets, net) \in [DOMAIN r.nets \ {net} -> AnyNetPkt] BY <2>1 DEF Drop
  <2> QED BY <1>4, <2>2, MapIntro
<1>7. /\ e.nets = Drop(r.nets, net) /\ e.resolved = Append(r.resolved, x)
      /\ e.unacked = r.unacked /\ e.first = r.first /\ e.lastTx = r.lastTx
      /\ SameQueue(e, r)
  <2> HIDE DEF net
  <2> QED BY <1>2 DEF Reliability, SameQueue
<1>8. \A i \in 1 .. Len(r.resolved) :
          r.resolved[i].as # "nRetxExhausted" => Whole(s, r.resolved[i].net, A)
  BY <1>2 DEF ReceivedInv
<1> HIDE DEF net
<1>9. /\ e.resolved \in Seq([net : Nat, as : Outcome])
      /\ \A i \in 1 .. Len(e.resolved) :
            e.resolved[i].as # "nRetxExhausted" => Whole(s, e.resolved[i].net, A)
  <2> DEFINE as == "nRetxExhausted"
  <2>1. e.resolved = Append(r.resolved, [net |-> net, as |-> as]) BY <1>7
  <2>2. as \in Outcome /\ (as # "nRetxExhausted" => Whole(s, net, A)) BY <1>4
  <2> HIDE DEF as, e
  <2> QED BY <2>1, <2>2, <1>2, <1>4, <1>8, ResolvedAppend
<1>10. e \in Reliability
  <2>1. e = [r EXCEPT !.nets = e.nets, !.resolved = e.resolved] BY <1>7
  <2>2. e.nets \in Maps(Nat, AnyNetPkt) BY <1>6, <1>7
  <2> HIDE DEF e
  <2> QED BY <1>2, <1>9, <2>1, <2>2 DEF Reliability
<1>11. WindowInv(e) BY <1>2, <1>7 DEF WindowInv
<1>12. CountInv(e, R)
  <2> DEFINE as == "nRetxExhausted"
  <2>1. e.resolved = Append(r.resolved, [net |-> net, as |-> as]) BY <1>7
  <2>2. as \in Outcome /\ DOMAIN e.nets = DOMAIN r.nets \ {net} BY <1>4, <1>5, <1>7
  <2> HIDE DEF as, e
  <2> QED BY <2>1, <2>2, <1>2, <1>3, CountedOnce
<1> HIDE DEF e, X
<1>13. /\ d \in Reliability /\ WindowInv(d)
       /\ DOMAIN d.unacked = DOMAIN e.unacked \ (X \cup {tx})
       /\ \A t \in DOMAIN d.unacked : d.unacked[t] = e.unacked[t]
       /\ SameQueue(d, e)
       /\ d.nets = e.nets /\ d.lastTx = e.lastTx /\ d.resolved = e.resolved
  <2> DEFINE y == X \cup {tx}
  <2> HIDE DEF y
  <2> QED BY <1>10, <1>11, DeleteFrags DEF y
<1> HIDE DEF d
<1>14. Shrinks(d, r) BY <1>7, <1>13 DEF Shrinks, SameQueue
<1>15. EachInv(d, s, n, A, K, P, Y) BY <1>2, <1>13, <1>14, ShrinkKeeps
<1>16. CountInv(d, R) BY <1>12, <1>13 DEF CountInv, CountedNets
<1>17. DOMAIN d.unacked = DOMAIN r.unacked \ X
  BY <1>3, <1>7, <1>13
<1>18. \A t \in DOMAIN d.unacked : d.unacked[t] = r.unacked[t] BY <1>7, <1>13
<1>19. DOMAIN d.nets = DOMAIN r.nets \ {net} /\ \A m \in DOMAIN d.nets : d.nets[m] = r.nets[m]
  BY <1>5, <1>7, <1>13
<1>20. IndexInv(d)
  <2>1. ASSUME NEW t \in DOMAIN d.unacked PROVE d.unacked[t].frag.net \in DOMAIN d.nets
    <3>1. r.unacked[t].frag.net \in DOMAIN r.nets BY <1>2, <1>17 DEF IndexInv
    <3>2. r.unacked[t].frag.net # net BY <1>3, <1>17
    <3> QED BY <3>1, <3>2, <1>18, <1>19
  <2>2. ASSUME NEW m \in DOMAIN d.nets
        PROVE  /\ d.nets[m].unacked # {}
               /\ d.nets[m].unacked = {t \in DOMAIN d.unacked : d.unacked[t].frag.net = m}
    <3>1. m \in DOMAIN r.nets /\ m # net /\ d.nets[m] = r.nets[m] BY <1>19
    <3>2. /\ r.nets[m].unacked # {}
          /\ r.nets[m].unacked = {t \in DOMAIN r.unacked : r.unacked[t].frag.net = m}
      BY <1>2, <3>1 DEF IndexInv
    <3>3. \A t \in DOMAIN r.unacked : r.unacked[t].frag.net = m => t \in DOMAIN d.unacked
      BY <1>3, <1>17, <3>1
    <3> QED BY <3>1, <3>2, <3>3, <1>17, <1>18
  <2> QED BY <2>1, <2>2 DEF IndexInv
<1>21. ReceivedInv(d, s, A)
  <2>1. ASSUME NEW m \in DOMAIN d.nets, NEW i \in 0 .. s[m] - 1, <<m, i>> \notin A
        PROVE  \E t \in d.nets[m].unacked : d.unacked[t].frag.index = i
    <3>1. m \in DOMAIN r.nets /\ d.nets[m] = r.nets[m] BY <1>19
    <3>2. PICK t \in r.nets[m].unacked : r.unacked[t].frag.index = i
      BY <2>1, <3>1, <1>2 DEF ReceivedInv
    <3>3. t \in DOMAIN d.unacked BY <3>1, <3>2, <1>20 DEF IndexInv
    <3> QED BY <3>1, <3>2, <3>3, <1>18
  <2> QED BY <2>1, <1>9, <1>13 DEF ReceivedInv
<1> QED BY <1>1, <1>13, <1>15, <1>16, <1>20, <1>21, RelInvParts

\* A fragment is acknowledged that the peer has received.
LEMMA AcknowledgeKeeps ==
    ASSUME NEW r, NEW s \in Seq(Nat), NEW n, NEW R, NEW A, NEW K, NEW P, NEW Y,
           Total(s, n) \in Nat, RelInv(r, s, n, R, A, K, P, Y), NEW tx \in DOMAIN r.unacked,
           KeyOf(r.unacked[tx].frag) \in A
    PROVE  RelInv(onLpPacketAcknowledged(r, tx), s, n, R, A, K, P, Y)
<1> DEFINE net == r.unacked[tx].frag.net
           X == r.nets[net].unacked
           as == IF r.nets[net].didRetx THEN "nRetransmitted" ELSE "nAcknowledged"
           e1 == [r EXCEPT !.nets = Drop(r.nets, net),
                           !.resolved = Append(r.resolved, [net |-> net, as |-> as])]
           e2 == [r EXCEPT !.nets[net].unacked = X \ {tx}]
           e == IF X \ {tx} = {} THEN e1 ELSE e2
           d == deleteUnackedFrag(e, {tx})
<1>1. onLpPacketAcknowledged(r, tx) = d BY DEF onLpPacketAcknowledged
<1>2. /\ r \in Reliability /\ WindowInv(r) /\ IndexInv(r) /\ CountInv(r, R)
      /\ ReceivedInv(r, s, A) /\ EachInv(r, s, n, A, K, P, Y)
  BY RelInvParts
<1>3. /\ net \in DOMAIN r.nets
      /\ X = {t \in DOMAIN r.unacked : r.unacked[t].frag.net = net}
      /\ tx \in X
  BY <1>2 DEF IndexInv
<1>4. net \in Nat /\ as \in Outcome /\ DOMAIN r.nets \subseteq Nat /\ X \subseteq TxSequence
  <2>1. net \in Nat /\ DOMAIN r.nets \subseteq Nat /\ DOMAIN r.unacked \subseteq TxSequence
    BY <1>2, <1>3, RelTypes
  <2> QED BY <1>3, <2>1 DEF Outcome
<1>5. \A m \in DOMAIN r.nets : r.nets[m] \in AnyNetPkt BY <1>2, RelTypes
<1>6. \A i \in 1 .. Len(r.resolved) :
          r.resolved[i].as # "nRetxExhausted" => Whole(s, r.resolved[i].net, A)
  BY <1>2 DEF ReceivedInv
<1>7. X \ {tx} = {} => Whole(s, net, A)
  <2> SUFFICES ASSUME X \ {tx} = {}, NEW i \in 0 .. s[net] - 1, <<net, i>> \notin A PROVE FALSE
    BY DEF Whole
  <2>1. PICK t \in X : r.unacked[t].frag.index = i BY <1>2, <1>3 DEF ReceivedInv
  <2>2. t = tx OBVIOUS
  <2> QED BY <2>1, <2>2 DEF KeyOf
<1>8. as # "nRetxExhausted" OBVIOUS
<1> HIDE DEF net, as
<1>9. /\ e \in Reliability /\ CountInv(e, R)
      /\ e.unacked = r.unacked /\ e.first = r.first /\ e.lastTx = r.lastTx /\ SameQueue(e, r)
      /\ DOMAIN e.nets = (IF X \ {tx} = {} THEN DOMAIN r.nets \ {net} ELSE DOMAIN r.nets)
      /\ \A m \in DOMAIN e.nets :
            e.nets[m].unacked = IF m = net THEN X \ {tx} ELSE r.nets[m].unacked
      /\ \A i \in 1 .. Len(e.resolved) :
            e.resolved[i].as # "nRetxExhausted" => Whole(s, e.resolved[i].net, A)
  <2>1. CASE X \ {tx} = {}
    <3>1. e = e1 BY <2>1
    <3>2. /\ e1.nets = Drop(r.nets, net)
          /\ e1.resolved = Append(r.resolved, [net |-> net, as |-> as])
          /\ e1.unacked = r.unacked /\ e1.first = r.first /\ e1.lastTx = r.lastTx
          /\ SameQueue(e1, r)
      BY <1>2 DEF Reliability, SameQueue
    <3>3. /\ DOMAIN Drop(r.nets, net) = DOMAIN r.nets \ {net}
          /\ \A m \in DOMAIN r.nets \ {net} : Drop(r.nets, net)[m] = r.nets[m]
          /\ Drop(r.nets, net) \in [DOMAIN r.nets \ {net} -> AnyNetPkt]
      BY <1>5 DEF Drop
    <3>4. Drop(r.nets, net) \in Maps(Nat, AnyNetPkt) BY <1>4, <3>3, MapIntro
    <3>5. e1 = [r EXCEPT !.nets = e1.nets, !.resolved = e1.resolved] BY <3>2
    <3> HIDE DEF e1
    <3>6. /\ e1.resolved \in Seq([net : Nat, as : Outcome])
          /\ \A i \in 1 .. Len(e1.resolved) :
                e1.resolved[i].as # "nRetxExhausted" => Whole(s, e1.resolved[i].net, A)
      BY <3>2, <1>2, <1>4, <1>6, <1>7, <2>1, ResolvedAppend
    <3>7. e1 \in Reliability BY <1>2, <3>2, <3>4, <3>5, <3>6 DEF Reliability
    <3>8. CountInv(e1, R)
      <4>1. DOMAIN e1.nets = DOMAIN r.nets \ {net} BY <3>2, <3>3
      <4>2. e1.resolved = Append(r.resolved, [net |-> net, as |-> as]) BY <3>2
      <4>3. r \in Reliability /\ CountInv(r, R) /\ net \in DOMAIN r.nets /\ as \in Outcome
        BY <1>2, <1>3, <1>4
      <4> HIDE DEF X
      <4> QED BY <4>1, <4>2, <4>3, CountedOnce
    <3> QED BY <2>1, <3>1, <3>2, <3>3, <3>6, <3>7, <3>8
  <2>2. CASE X \ {tx} # {}
    <3>1. e = e2 BY <2>2
    <3> DEFINE y == [r.nets[net] EXCEPT !.unacked = X \ {tx}]
               w == [r.nets EXCEPT ![net] = y]
    <3>2. y \in AnyNetPkt /\ y.unacked = X \ {tx}
      BY <1>3, <1>4, <1>5 DEF AnyNetPkt
    <3>3. e2 = [r EXCEPT !.nets = w] OBVIOUS
    <3>4. /\ w \in [DOMAIN r.nets -> AnyNetPkt] /\ DOMAIN w = DOMAIN r.nets
          /\ \A m \in DOMAIN r.nets : w[m] = IF m = net THEN y ELSE r.nets[m]
      <4> HIDE DEF y
      <4>1. r.nets \in [DOMAIN r.nets -> AnyNetPkt] BY <1>2, RelTypes, MapType
      <4> QED BY <1>3, <3>2, <4>1
    <3>5. w \in Maps(Nat, AnyNetPkt) BY <1>4, <3>4, MapIntro
    <3> HIDE DEF e2, w, y
    <3>6. /\ e2.nets = w /\ e2.resolved = r.resolved
          /\ e2.unacked = r.unacked /\ e2.first = r.first /\ e2.lastTx = r.lastTx
          /\ SameQueue(e2, r) /\ e2 \in Reliability
      BY <1>2, <3>3, <3>5 DEF Reliability, SameQueue
    <3>7. CountInv(e2, R) BY <1>2, <3>4, <3>6 DEF CountInv, CountedNets
    <3> QED BY <2>2, <3>1, <3>2, <3>4, <3>6, <3>7, <1>6
  <2> QED BY <2>1, <2>2
<1>10. WindowInv(e) BY <1>2, <1>9 DEF WindowInv
<1> HIDE DEF e
<1>11. /\ d \in Reliability /\ WindowInv(d)
       /\ DOMAIN d.unacked = DOMAIN e.unacked \ {tx}
       /\ \A t \in DOMAIN d.unacked : d.unacked[t] = e.unacked[t]
       /\ SameQueue(d, e)
       /\ d.nets = e.nets /\ d.lastTx = e.lastTx /\ d.resolved = e.resolved
  <2> DEFINE y == {tx}
  <2> HIDE DEF y
  <2> QED BY <1>9, <1>10, DeleteFrags DEF y
<1> HIDE DEF d, X
<1>12. Shrinks(d, r) BY <1>9, <1>11 DEF Shrinks, SameQueue
<1>13. EachInv(d, s, n, A, K, P, Y) BY <1>2, <1>11, <1>12, ShrinkKeeps
<1>14. CountInv(d, R) BY <1>9, <1>11 DEF CountInv, CountedNets
<1>15. /\ DOMAIN d.unacked = DOMAIN r.unacked \ {tx}
       /\ \A t \in DOMAIN d.unacked : d.unacked[t] = r.unacked[t]
  BY <1>9, <1>11
<1>16. IndexInv(d)
  <2>1. ASSUME NEW t \in DOMAIN d.unacked PROVE d.unacked[t].frag.net \in DOMAIN d.nets
    <3>1. r.unacked[t].frag.net \in DOMAIN r.nets BY <1>2, <1>15 DEF IndexInv
    <3>2. r.unacked[t].frag.net = net => X \ {tx} # {} BY <1>3, <1>15
    <3> QED BY <3>1, <3>2, <1>9, <1>11, <1>15
  <2>2. ASSUME NEW m \in DOMAIN d.nets
        PROVE  /\ d.nets[m].unacked # {}
               /\ d.nets[m].unacked = {t \in DOMAIN d.unacked : d.unacked[t].frag.net = m}
    <3>1. m \in DOMAIN r.nets BY <1>9, <1>11
    <3>2. /\ r.nets[m].unacked # {}
          /\ r.nets[m].unacked = {t \in DOMAIN r.unacked : r.unacked[t].frag.net = m}
      BY <1>2, <3>1 DEF IndexInv
    <3>3. CASE m = net
      <4>1. d.nets[m].unacked = X \ {tx} /\ X \ {tx} # {} BY <3>3, <1>9, <1>11
      <4> QED BY <4>1, <3>3, <1>3, <1>15
    <3>4. CASE m # net
      <4>1. d.nets[m].unacked = r.nets[m].unacked BY <3>4, <1>9, <1>11
      <4>2. tx \notin r.nets[m].unacked BY <3>2, <3>4 DEF net
      <4> QED BY <4>1, <4>2, <3>2, <1>15
    <3> QED BY <3>3, <3>4
  <2> QED BY <2>1, <2>2 DEF IndexInv
<1>17. ReceivedInv(d, s, A)
  <2>1. ASSUME NEW m \in DOMAIN d.nets, NEW i \in 0 .. s[m] - 1, <<m, i>> \notin A
        PROVE  \E t \in d.nets[m].unacked : d.unacked[t].frag.index = i
    <3>1. m \in DOMAIN r.nets BY <1>9, <1>11
    <3>2. PICK t \in r.nets[m].unacked : r.unacked[t].frag.index = i
      BY <2>1, <3>1, <1>2 DEF ReceivedInv
    <3>3. t \in DOMAIN r.unacked /\ r.unacked[t].frag.net = m BY <3>1, <3>2, <1>2 DEF IndexInv
    <3>4. t # tx BY <2>1, <3>2, <3>3 DEF KeyOf
    <3>5. t \in d.nets[m].unacked
      BY <3>2, <3>4, <1>9, <1>11 DEF X
    <3> QED BY <3>2, <3>3, <3>4, <3>5, <1>15
  <2> QED BY <2>1, <1>9, <1>11 DEF ReceivedInv
<1> QED BY <1>1, <1>11, <1>13, <1>14, <1>16, <1>17, RelInvParts
-----------------------------------------------------------------------------
(* Packets that leave *)

LEMMA SameFragsKeep ==
    ASSUME NEW r, NEW s \in Seq(Nat), NEW n, NEW R, NEW A, NEW K, NEW P, NEW Y,
           Total(s, n) \in Nat, RelInv(r, s, n, R, A, K, P, Y),
           NEW d \in Reliability, SameQueue(d, r),
           DOMAIN d.unacked = DOMAIN r.unacked,
           \A t \in DOMAIN r.unacked :
              d.unacked[t].frag = r.unacked[t].frag /\ d.unacked[t].retx = r.unacked[t].retx,
           d.first = r.first, d.nets = r.nets, d.resolved = r.resolved, d.lastTx = r.lastTx
    PROVE  RelInv(d, s, n, R, A, K, P, Y)
<1>1. /\ r \in Reliability /\ WindowInv(r) /\ IndexInv(r) /\ CountInv(r, R)
      /\ ReceivedInv(r, s, A) /\ EachInv(r, s, n, A, K, P, Y)
  BY RelInvParts
<1>2. EachInv(d, s, n, A, K, P, Y)
  <2>1. Shrinks(d, r) BY DEF Shrinks
  <2> QED BY <1>1, <2>1, ShrinkKeeps
<1>3. WindowInv(d)
  <2>1. r.unacked \in Maps(TxSequence, AnyUnackedFrag) /\ d.unacked \in Maps(TxSequence, AnyUnackedFrag)
    BY <1>1, RelTypes
  <2>2. d.unacked = Empty <=> r.unacked = Empty BY <2>1, EmptyMap
  <2> QED BY <1>1, <2>2 DEF WindowInv
<1>4. IndexInv(d) BY <1>1 DEF IndexInv
<1>5. CountInv(d, R) BY <1>1 DEF CountInv, CountedNets
<1>6. ReceivedInv(d, s, A)
  <2>1. \A m \in DOMAIN r.nets : r.nets[m].unacked \subseteq DOMAIN r.unacked BY <1>1 DEF IndexInv
  <2> QED BY <1>1, <2>1 DEF ReceivedInv
<1> QED BY <1>2, <1>3, <1>4, <1>5, <1>6, RelInvParts

LEMMA SubSeqMembers ==
    ASSUME NEW T, NEW q \in Seq(T), NEW k \in 0 .. Len(q)
    PROVE  /\ SubSeq(q, 1, k) \in Seq(T) /\ SubSeq(q, k + 1, Len(q)) \in Seq(T)
           /\ Members(SubSeq(q, 1, k)) \subseteq Members(q)
           /\ Members(SubSeq(q, k + 1, Len(q))) \subseteq Members(q)
<1>1. Len(q) \in Nat /\ \A i \in 1 .. Len(q) : q[i] \in T BY LenProperties
<1>2. \A i \in 1 .. k : i \in 1 .. Len(q) BY <1>1
<1>3. \A i \in k + 1 .. Len(q) : i \in 1 .. Len(q) BY <1>1
<1>4. SubSeq(q, 1, k) \in Seq(T) BY <1>1, <1>2, SubSeqProperties
<1>5. SubSeq(q, k + 1, Len(q)) \in Seq(T) BY <1>1, <1>3, SubSeqProperties
<1>6. Members(SubSeq(q, 1, k)) \subseteq Members(q)
  <2>1. Len(SubSeq(q, 1, k)) = k BY <1>1, <1>2, SubSeqProperties
  <2>2. \A i \in 1 .. k : SubSeq(q, 1, k)[i] = q[i] BY <1>1, <1>2, SubSeqProperties
  <2> QED BY <2>1, <2>2, <1>2 DEF Members
<1>7. Members(SubSeq(q, k + 1, Len(q))) \subseteq Members(q)
  <2>1. Len(SubSeq(q, k + 1, Len(q))) = Len(q) - k BY <1>1, <1>3, SubSeqProperties
  <2>2. \A i \in 1 .. Len(q) - k : SubSeq(q, k + 1, Len(q))[i] = q[k + i] /\ k + i \in 1 .. Len(q)
    BY <1>1, <1>3, SubSeqProperties
  <2> QED BY <2>1, <2>2 DEF Members
<1> QED BY <1>4, <1>5, <1>6, <1>7

\* A packet that is well formed leaves, with Acks of the queue.
LEMMA SendKeeps ==
    ASSUME NEW r, NEW s \in Seq(Nat), NEW n, NEW R, NEW A, NEW K, NEW P, NEW Y,
           Total(s, n) \in Nat, RelInv(r, s, n, R, A, K, P, Y),
           NEW tx \in TxSequence \cup {NoTx}, NEW frag \in Fragment,
           CarriesInv(r, tx, frag, s, n)
    PROVE  LET d == sendLpPacket(r, tx, frag)
           IN  /\ RelInv(d, s, n, R, A, K, P, Y)
               /\ d.unacked = r.unacked /\ d.lastTx = r.lastTx
<1> DEFINE k == piggyback(r, frag)
           q == r.ackQueue
           p == [tx |-> tx, frag |-> frag, acks |-> SubSeq(q, 1, k)]
           d == [r EXCEPT !.ackQueue = SubSeq(q, k + 1, Len(q)), !.sent = r.sent \cup {p}]
<1>1. sendLpPacket(r, tx, frag) = d BY DEF sendLpPacket
<1> SUFFICES RelInv(d, s, n, R, A, K, P, Y) /\ d.unacked = r.unacked /\ d.lastTx = r.lastTx
  BY <1>1
<1>2. /\ r \in Reliability /\ WindowInv(r) /\ IndexInv(r) /\ CountInv(r, R)
      /\ ReceivedInv(r, s, A) /\ EachInv(r, s, n, A, K, P, Y)
  BY RelInvParts
<1>3. q \in Seq(TxSequence) /\ r.sent \subseteq Packet BY <1>2, RelTypes
<1>4. k \in 0 .. Len(q)
  <2>1. Len(q) \in Nat BY <1>3, LenProperties
  <2>2. AckRoom.idle \in Nat /\ AckRoom.fragment \in Nat BY LpReliabilityAssumption
  <2> QED BY <2>1, <2>2 DEF piggyback
<1> HIDE DEF k
<1>5. /\ SubSeq(q, 1, k) \in Seq(TxSequence) /\ SubSeq(q, k + 1, Len(q)) \in Seq(TxSequence)
      /\ Members(SubSeq(q, 1, k)) \subseteq Members(q)
      /\ Members(SubSeq(q, k + 1, Len(q))) \subseteq Members(q)
  <2> HIDE DEF q
  <2> QED BY <1>3, <1>4, SubSeqMembers
<1>6. p \in Packet BY <1>5 DEF Packet
<1>7. /\ d \in Reliability /\ d.ackQueue = SubSeq(q, k + 1, Len(q)) /\ d.sent = r.sent \cup {p}
      /\ d.unacked = r.unacked /\ d.first = r.first /\ d.nets = r.nets
      /\ d.resolved = r.resolved /\ d.lastTx = r.lastTx
  <2> HIDE DEF p, q
  <2> QED BY <1>2, <1>3, <1>5, <1>6 DEF Reliability
<1>8. PacketInv(r, p, s, n) BY DEF PacketInv, CarriesInv
<1>9. p.acks = SubSeq(q, 1, k) OBVIOUS
<1> HIDE DEF d, p
<1>10. WindowInv(d) BY <1>2, <1>7 DEF WindowInv
<1>11. IndexInv(d) BY <1>2, <1>7 DEF IndexInv
<1>12. CountInv(d, R) BY <1>2, <1>7 DEF CountInv, CountedNets
<1>13. ReceivedInv(d, s, A) BY <1>2, <1>7 DEF ReceivedInv
<1>14. FragsInv(d, s, n) /\ AckInv(d, K, A) BY <1>2, <1>7 DEF EachInv, FragsInv, AckInv
<1>15. BudgetInv(d, s, n)
  <2>1. Spare(d) = Spare(r) BY <1>7 DEF Spare
  <2> QED BY <1>2, <1>7, <2>1 DEF EachInv, BudgetInv
<1>16. ASSUME NEW x \in P \cup d.sent PROVE PacketInv(d, x, s, n)
  <2>1. PacketInv(r, x, s, n) BY <1>2, <1>7, <1>8 DEF EachInv
  <2> QED BY <2>1, <1>7 DEF PacketInv, CarriesInv
<1>17. QueueInv(d, Y)
  <2>1. Members(q) \subseteq Y /\ \A x \in r.sent : Members(x.acks) \subseteq Y
    BY <1>2 DEF EachInv, QueueInv
  <2> QED BY <2>1, <1>5, <1>7, <1>9 DEF QueueInv
<1> QED BY <1>7, <1>10, <1>11, <1>12, <1>13, <1>14, <1>15, <1>16, <1>17 DEF RelInv
-----------------------------------------------------------------------------
(* Loss *)

\* A TxSequence that was assigned remains so; the next one was not, if any is left.
LEMMA NextTx ==
    ASSUME NEW last \in TxSequence, Pos(last) + 1 < SeqSpace
    PROVE  LET new == AfterTx(last)
           IN  /\ new \in TxSequence /\ Pos(new) = Pos(last) + 1
               /\ ~Issued(new, last) /\ Issued(new, new)
               /\ \A tx \in TxSequence : Issued(tx, last) => Issued(tx, new)
<1> DEFINE new == AfterTx(last)
<1>1. new \in TxSequence /\ Pos(new) = Pos(last) + 1 BY PosOfSum DEF AfterTx
<1>2. Pos(last) \in Nat
  <2>1. Pos(last) \in TxSequence BY PosCases
  <2> QED BY <2>1 DEF TxSequence
<1> HIDE DEF new
<1>3. ~Issued(new, last) BY <1>1, <1>2 DEF Issued
<1>4. Issued(new, new) BY <1>1, <1>2 DEF Issued
<1>5. \A tx \in TxSequence : Issued(tx, last) => Issued(tx, new)
  <2> SUFFICES ASSUME NEW tx \in TxSequence, Issued(tx, last) PROVE Issued(tx, new) OBVIOUS
  <2> QED BY <1>1, <1>2 DEF Issued
<1> QED BY <1>1, <1>3, <1>4, <1>5 DEF new

LEMMA RetransmitKeeps ==
    ASSUME NEW r, NEW s \in Seq(Nat), NEW n, NEW R, NEW A, NEW K, NEW P, NEW Y,
           Total(s, n) \in Nat, (MaxRetx + 1) * Total(s, n) < SeqSpace,
           RelInv(r, s, n, R, A, K, P, Y), NEW tx \in DOMAIN r.unacked,
           r.unacked[tx].retx < MaxRetx
    PROVE  RelInv(Retransmit(r, tx), s, n, R, A, K, P, Y)
<1> DEFINE f == r.unacked[tx]
           new == AfterTx(r.lastTx)
           net == f.frag.net
           X == r.nets[net].unacked
           u == Put(r.unacked, new, UnackedFrag(f.frag, f.retx + 1))
           y == [unacked |-> (X \ {tx}) \cup {new}, didRetx |-> TRUE]
           w == [r.nets EXCEPT ![net] = y]
           e == [r EXCEPT !.lastTx = new, !.unacked = u,
                          !.nets[net].unacked = (@ \ {tx}) \cup {new}, !.nets[net].didRetx = TRUE]
           d == deleteUnackedFrag(e, {tx})
           q == sendLpPacket(d, new, f.frag)
           z == [q EXCEPT !.unacked[new].timer = TRUE]
<1>1. Retransmit(r, tx) = z BY DEF Retransmit
<1>2. /\ r \in Reliability /\ WindowInv(r) /\ IndexInv(r) /\ CountInv(r, R)
      /\ ReceivedInv(r, s, A) /\ EachInv(r, s, n, A, K, P, Y)
      /\ FragsInv(r, s, n) /\ BudgetInv(r, s, n) /\ AckInv(r, K, A) /\ QueueInv(r, Y)
      /\ \A p \in P \cup r.sent : PacketInv(r, p, s, n)
  BY RelInvParts DEF EachInv
<1>3. /\ DOMAIN r.unacked \subseteq TxSequence /\ r.lastTx \in TxSequence
      /\ \A t \in DOMAIN r.unacked : r.unacked[t] \in AnyUnackedFrag
      /\ r.nets \in [DOMAIN r.nets -> AnyNetPkt] /\ DOMAIN r.nets \subseteq Nat
      /\ \A m \in DOMAIN r.nets : r.nets[m] \in AnyNetPkt
      /\ r.first \in TxSequence \cup {NoTx}
  BY <1>2, RelTypes, MapType
<1>4. f \in AnyUnackedFrag /\ f.frag \in Fragment /\ f.retx \in Nat /\ MaxRetx \in Nat
  BY <1>3, LpReliabilityAssumption DEF AnyUnackedFrag
<1>5. /\ net \in DOMAIN r.nets
      /\ X = {t \in DOMAIN r.unacked : r.unacked[t].frag.net = net}
      /\ tx \in X
  BY <1>2 DEF IndexInv
<1> DEFINE token == <<f.frag.net, f.frag.index, f.retx + 1>>
           b == (MaxRetx + 1) * Total(s, n)
<1>6. token \in Spare(r)
  <2>1. f.retx + 1 \in f.retx + 1 .. MaxRetx BY <1>4
  <2> QED BY <2>1, SpareDef
<1>7. /\ IsFiniteSet(Spare(r)) /\ Cardinality(Spare(r)) \in Nat
      /\ IsFiniteSet(Spare(r) \ {token})
      /\ Cardinality(Spare(r) \ {token}) = Cardinality(Spare(r)) - 1
      /\ Cardinality(Spare(r) \ {token}) \in Nat
  <2>1. IsFiniteSet(Spare(r)) BY <1>2 DEF BudgetInv
  <2> HIDE DEF token
  <2> QED BY <1>6, <2>1, FS_RemoveElement, FS_CardinalityType
<1>8. b \in Int /\ b < SeqSpace /\ SeqSpace \in Nat /\ Pos(r.lastTx) \in Nat
  <2>1. Pos(r.lastTx) \in TxSequence BY <1>3, PosCases
  <2> QED BY <1>4, <2>1, LpReliabilityAssumption DEF TxSequence
<1>9. Pos(r.lastTx) + Cardinality(Spare(r)) <= b BY <1>2 DEF BudgetInv
<1> HIDE DEF b, token
<1>10. Pos(r.lastTx) + 1 < SeqSpace BY <1>7, <1>8, <1>9
<1>11. /\ new \in TxSequence /\ Pos(new) = Pos(r.lastTx) + 1
       /\ ~Issued(new, r.lastTx) /\ Issued(new, new)
       /\ \A t \in TxSequence : Issued(t, r.lastTx) => Issued(t, new)
  BY <1>3, <1>10, NextTx
<1> HIDE DEF new
<1>12. \A t \in DOMAIN r.unacked : Issued(t, r.lastTx) BY <1>2 DEF FragsInv
<1>13. new \notin DOMAIN r.unacked BY <1>11, <1>12
<1>14. /\ DOMAIN u = DOMAIN r.unacked \cup {new}
       /\ u[new] = UnackedFrag(f.frag, f.retx + 1)
       /\ \A t \in DOMAIN r.unacked : u[t] = r.unacked[t]
  BY <1>13 DEF Put
<1>15. u \in Maps(TxSequence, AnyUnackedFrag)
  <2>1. UnackedFrag(f.frag, f.retx + 1) \in AnyUnackedFrag BY <1>4 DEF UnackedFrag, AnyUnackedFrag
  <2>2. u \in [DOMAIN r.unacked \cup {new} -> AnyUnackedFrag]
    <3> DEFINE v == UnackedFrag(f.frag, f.retx + 1)
    <3> HIDE DEF v
    <3>1. v \in AnyUnackedFrag BY <2>1 DEF v
    <3>2. u = Put(r.unacked, new, v) BY DEF v
    <3> QED BY <1>3, <3>1, <3>2 DEF Put
  <2>3. DOMAIN r.unacked \cup {new} \subseteq TxSequence BY <1>3, <1>11
  <2> HIDE DEF u
  <2> QED BY <2>2, <2>3, MapIntro
<1>16. u[new].frag = f.frag /\ u[new].retx = f.retx + 1 BY <1>14 DEF UnackedFrag
<1> HIDE DEF u
<1>17. X \subseteq TxSequence BY <1>3, <1>5
<1>18. y \in AnyNetPkt /\ y.unacked = (X \ {tx}) \cup {new}
  BY <1>11, <1>17 DEF AnyNetPkt
<1>19. /\ w \in [DOMAIN r.nets -> AnyNetPkt] /\ DOMAIN w = DOMAIN r.nets
       /\ \A m \in DOMAIN r.nets : w[m] = IF m = net THEN y ELSE r.nets[m]
  <2> HIDE DEF y, net
  <2> QED BY <1>3, <1>5, <1>18
<1>20. w \in Maps(Nat, AnyNetPkt)
  <2> HIDE DEF w
  <2> QED BY <1>3, <1>19, MapIntro
<1>21. e = [r EXCEPT !.lastTx = new, !.unacked = u, !.nets = w]
  <2>1. [[r.nets EXCEPT ![net].unacked = (@ \ {tx}) \cup {new}] EXCEPT ![net].didRetx = TRUE] = w
    <3> DEFINE a == r.nets[net]
               c == (X \ {tx}) \cup {new}
    <3>1. a \in AnyNetPkt BY <1>3, <1>5
    <3>2. [[a EXCEPT !.unacked = (a.unacked \ {tx}) \cup {new}] EXCEPT !.didRetx = TRUE] = y
      <4>1. (a.unacked \ {tx}) \cup {new} = c /\ y = [unacked |-> c, didRetx |-> TRUE] OBVIOUS
      <4> HIDE DEF a, c, y
      <4> DEFINE a1 == [[a EXCEPT !.unacked = c] EXCEPT !.didRetx = TRUE]
      <4>2. c \in SUBSET TxSequence BY <1>11, <1>17 DEF c
      <4>3. a1 \in AnyNetPkt /\ a1.unacked = c /\ a1.didRetx = TRUE BY <3>1, <4>2 DEF AnyNetPkt
      <4> HIDE DEF a1
      <4>4. a1 = [unacked |-> c, didRetx |-> TRUE] BY <4>3 DEF AnyNetPkt
      <4> QED BY <4>1, <4>4 DEF a1
    <3> HIDE DEF y
    <3> QED BY <3>2, <1>5, <1>3
  <2> HIDE DEF w, net
  <2> QED BY <1>2, <2>1 DEF Reliability
<1> HIDE DEF e, w, y
<1>22. /\ e \in Reliability /\ e.lastTx = new /\ e.unacked = u /\ e.nets = w
       /\ e.first = r.first /\ e.resolved = r.resolved /\ SameQueue(e, r)
  BY <1>2, <1>11, <1>15, <1>20, <1>21 DEF Reliability, SameQueue
<1>23. WindowInv(e)
  <2>1. r.first \in DOMAIN r.unacked /\ \A t \in DOMAIN r.unacked : Pos(r.first) <= Pos(t)
    BY <1>2 DEF WindowInv
  <2>2. Pos(r.first) \in 1 .. Pos(r.lastTx) BY <2>1, <1>12 DEF Issued
  <2>3. Pos(r.first) <= Pos(new) BY <2>2, <1>11, <1>8
  <2>4. r.first # NoTx /\ u # Empty
    <3>1. r.unacked # Empty BY <2>1 DEF Empty
    <3>2. u # Empty BY <1>14 DEF Empty
    <3> QED BY <3>1, <3>2, <1>2 DEF WindowInv
  <2> QED BY <2>1, <2>3, <2>4, <1>14, <1>22 DEF WindowInv
<1>24. /\ d \in Reliability /\ WindowInv(d)
       /\ DOMAIN d.unacked = DOMAIN e.unacked \ {tx}
       /\ \A t \in DOMAIN d.unacked : d.unacked[t] = e.unacked[t]
       /\ SameQueue(d, e)
       /\ d.nets = e.nets /\ d.lastTx = e.lastTx /\ d.resolved = e.resolved
  <2> DEFINE c == {tx}
  <2> HIDE DEF c
  <2> QED BY <1>22, <1>23, DeleteFrags DEF c
<1> HIDE DEF d
<1>25. /\ DOMAIN d.unacked = (DOMAIN r.unacked \ {tx}) \cup {new} /\ tx # new
       /\ d.unacked[new].frag = f.frag /\ d.unacked[new].retx = f.retx + 1
       /\ \A t \in DOMAIN r.unacked \ {tx} : d.unacked[t] = r.unacked[t]
  BY <1>13, <1>14, <1>16, <1>22, <1>24
<1>26. /\ d.lastTx = new /\ d.nets = w /\ d.resolved = r.resolved /\ SameQueue(d, r)
  BY <1>22, <1>24 DEF SameQueue
<1>27. FragsInv(d, s, n)
  <2>1. ASSUME NEW t \in DOMAIN d.unacked
        PROVE  FragOf(d.unacked[t].frag, s, n) /\ d.unacked[t].retx <= MaxRetx /\ Issued(t, d.lastTx)
    <3>1. CASE t = new
      <4>1. FragOf(f.frag, s, n) BY <1>2 DEF FragsInv
      <4> QED BY <3>1, <4>1, <1>4, <1>11, <1>25, <1>26
    <3>2. CASE t # new
      <4>1. t \in DOMAIN r.unacked /\ d.unacked[t] = r.unacked[t] BY <3>2, <1>25
      <4>2. FragOf(r.unacked[t].frag, s, n) /\ r.unacked[t].retx <= MaxRetx /\ Issued(t, r.lastTx)
        BY <4>1, <1>2 DEF FragsInv
      <4> QED BY <4>1, <4>2, <1>3, <1>11, <1>26
    <3> QED BY <3>1, <3>2
  <2>2. ASSUME NEW t \in DOMAIN d.unacked, NEW v \in DOMAIN d.unacked,
               KeyOf(d.unacked[t].frag) = KeyOf(d.unacked[v].frag)
        PROVE  t = v
    <3> DEFINE old(i) == IF i = new THEN tx ELSE i
    <3>1. \A i \in DOMAIN d.unacked : /\ old(i) \in DOMAIN r.unacked
                                      /\ d.unacked[i].frag = r.unacked[old(i)].frag
      BY <1>25
    <3>2. old(t) = old(v) BY <2>2, <3>1, <1>2 DEF FragsInv
    <3> QED BY <3>2, <1>25
  <2> QED BY <2>1, <2>2 DEF FragsInv
<1>28. Spare(d) \subseteq Spare(r) \ {token}
  <2> SUFFICES ASSUME NEW x \in Spare(d) PROVE x \in Spare(r) /\ x # token OBVIOUS
  <2>1. PICK t \in DOMAIN d.unacked : \E k \in d.unacked[t].retx + 1 .. MaxRetx :
            x = <<d.unacked[t].frag.net, d.unacked[t].frag.index, k>>
    BY SpareDef
  <2>2. PICK k \in d.unacked[t].retx + 1 .. MaxRetx :
            x = <<d.unacked[t].frag.net, d.unacked[t].frag.index, k>>
    BY <2>1
  <2>3. CASE t = new
    <3>1. /\ k \in f.retx + 1 .. MaxRetx /\ k # f.retx + 1
          /\ x = <<f.frag.net, f.frag.index, k>>
      BY <2>2, <2>3, <1>4, <1>25
    <3>2. x \in Spare(r) BY <3>1, SpareDef
    <3> QED BY <3>1, <3>2 DEF token
  <2>4. CASE t # new
    <3>1. t \in DOMAIN r.unacked /\ t # tx /\ d.unacked[t] = r.unacked[t] BY <2>4, <1>25
    <3>2. x \in Spare(r) BY <2>2, <3>1, SpareDef
    <3>3. KeyOf(r.unacked[t].frag) # KeyOf(f.frag) BY <3>1, <1>2 DEF FragsInv
    <3>4. x # token BY <2>2, <3>1, <3>3 DEF KeyOf, token
    <3> QED BY <3>2, <3>4
  <2> QED BY <2>3, <2>4
<1>29. BudgetInv(d, s, n)
  <2>1. IsFiniteSet(Spare(d)) /\ Cardinality(Spare(d)) <= Cardinality(Spare(r) \ {token})
    BY <1>7, <1>28, FS_Subset
  <2>2. Cardinality(Spare(d)) \in Nat BY <2>1, FS_CardinalityType
  <2>3. Pos(d.lastTx) + Cardinality(Spare(d)) <= b
    BY <2>1, <2>2, <1>7, <1>8, <1>9, <1>11, <1>26
  <2> QED BY <2>1, <2>3 DEF BudgetInv, b
<1>30. AckInv(d, K, A)
  <2> SUFFICES ASSUME NEW t \in K
               PROVE  /\ Issued(t, d.lastTx)
                      /\ t \in DOMAIN d.unacked => KeyOf(d.unacked[t].frag) \in A
    BY DEF AckInv
  <2>1. Issued(t, r.lastTx) /\ (t \in DOMAIN r.unacked => KeyOf(r.unacked[t].frag) \in A)
    BY <1>2 DEF AckInv
  <2>2. t # new BY <2>1, <1>11
  <2>3. Issued(t, new)
    BY <2>1, <1>8, <1>11 DEF Issued
  <2> QED BY <2>1, <2>2, <2>3, <1>25, <1>26
<1>31. \A p \in P \cup d.sent : PacketInv(d, p, s, n)
  <2> SUFFICES ASSUME NEW p \in P \cup d.sent PROVE PacketInv(d, p, s, n) OBVIOUS
  <2>1. PacketInv(r, p, s, n) BY <1>2, <1>26 DEF SameQueue
  <2>2. ASSUME Issued(p.tx, r.lastTx) PROVE p.tx # new /\ Issued(p.tx, new)
    BY <2>2, <1>8, <1>11 DEF Issued
  <2> QED BY <2>1, <2>2, <1>25, <1>26 DEF PacketInv, CarriesInv
<1>32. QueueInv(d, Y) BY <1>2, <1>26 DEF QueueInv, SameQueue
<1>33. CountInv(d, R) BY <1>2, <1>19, <1>26 DEF CountInv, CountedNets
<1>34. IndexInv(d)
  <2>1. ASSUME NEW t \in DOMAIN d.unacked PROVE d.unacked[t].frag.net \in DOMAIN d.nets
    <3>1. CASE t = new BY <3>1, <1>5, <1>19, <1>25, <1>26
    <3>2. CASE t # new
      <4>1. t \in DOMAIN r.unacked /\ d.unacked[t] = r.unacked[t] BY <3>2, <1>25
      <4> QED BY <4>1, <1>2, <1>19, <1>26 DEF IndexInv
    <3> QED BY <3>1, <3>2
  <2>2. ASSUME NEW m \in DOMAIN d.nets
        PROVE  /\ d.nets[m].unacked # {}
               /\ d.nets[m].unacked = {t \in DOMAIN d.unacked : d.unacked[t].frag.net = m}
    <3>1. m \in DOMAIN r.nets BY <1>19, <1>26
    <3>2. /\ r.nets[m].unacked # {}
          /\ r.nets[m].unacked = {t \in DOMAIN r.unacked : r.unacked[t].frag.net = m}
      BY <1>2, <3>1 DEF IndexInv
    <3>3. CASE m = net
      <4>1. d.nets[m].unacked = (X \ {tx}) \cup {new} BY <3>1, <3>3, <1>18, <1>19, <1>26
      <4> QED BY <4>1, <3>3, <1>5, <1>25
    <3>4. CASE m # net
      <4>1. d.nets[m] = r.nets[m] BY <3>1, <3>4, <1>19, <1>26
      <4>2. tx \notin r.nets[m].unacked BY <3>2, <3>4
      <4>3. d.unacked[new].frag.net # m BY <3>4, <1>25
      <4> HIDE DEF net
      <4> QED BY <4>1, <4>2, <4>3, <3>2, <1>13, <1>25
    <3> QED BY <3>3, <3>4
  <2> QED BY <2>1, <2>2 DEF IndexInv
<1>35. ReceivedInv(d, s, A)
  <2>1. ASSUME NEW m \in DOMAIN d.nets, NEW i \in 0 .. s[m] - 1, <<m, i>> \notin A
        PROVE  \E t \in d.nets[m].unacked : d.unacked[t].frag.index = i
    <3>1. m \in DOMAIN r.nets BY <1>19, <1>26
    <3>2. PICK t \in r.nets[m].unacked : r.unacked[t].frag.index = i
      BY <2>1, <3>1, <1>2 DEF ReceivedInv
    <3>3. t \in DOMAIN r.unacked /\ r.unacked[t].frag.net = m BY <3>1, <3>2, <1>2 DEF IndexInv
    <3>4. CASE t = tx
      <4>1. new \in d.nets[m].unacked BY <3>1, <3>3, <3>4, <1>18, <1>19, <1>26
      <4> QED BY <4>1, <3>2, <3>4, <1>25
    <3>5. CASE t # tx
      <4>1. t \in d.nets[m].unacked BY <3>1, <3>2, <3>5, <1>18, <1>19, <1>26
      <4> QED BY <4>1, <3>2, <3>3, <3>5, <1>25
    <3> QED BY <3>4, <3>5
  <2> QED BY <2>1, <1>2, <1>26 DEF ReceivedInv
<1>36. RelInv(d, s, n, R, A, K, P, Y)
  BY <1>24, <1>27, <1>29, <1>30, <1>31, <1>32, <1>33, <1>34, <1>35 DEF RelInv
<1>37. RelInv(q, s, n, R, A, K, P, Y) /\ q.unacked = d.unacked
  <2> DEFINE g == f.frag
  <2>1. FragOf(g, s, n) BY <1>2 DEF FragsInv
  <2>2. new \in TxSequence \cup {NoTx} /\ g \in Fragment BY <1>4, <1>11
  <2>3. CarriesInv(d, new, g, s, n) BY <2>1, <1>11, <1>25, <1>26 DEF CarriesInv
  <2>4. q = sendLpPacket(d, new, g) OBVIOUS
  <2> HIDE DEF g, q
  <2>5. /\ RelInv(sendLpPacket(d, new, g), s, n, R, A, K, P, Y)
        /\ sendLpPacket(d, new, g).unacked = d.unacked
    BY <1>36, <2>2, <2>3, SendKeeps
  <2> QED BY <2>4, <2>5
<1> HIDE DEF q
<1>38. q \in Reliability /\ new \in DOMAIN q.unacked BY <1>25, <1>37 DEF RelInv
<1> DEFINE v == [q.unacked EXCEPT ![new].timer = TRUE]
<1>39. /\ v \in Maps(TxSequence, AnyUnackedFrag) /\ DOMAIN v = DOMAIN q.unacked
       /\ \A t \in DOMAIN q.unacked : v[t].frag = q.unacked[t].frag /\ v[t].retx = q.unacked[t].retx
  <2>1. /\ q.unacked \in [DOMAIN q.unacked -> AnyUnackedFrag] /\ DOMAIN q.unacked \subseteq TxSequence
        /\ \A t \in DOMAIN q.unacked : q.unacked[t] \in AnyUnackedFrag
    BY <1>38, RelTypes, MapType
  <2> DEFINE a == [q.unacked[new] EXCEPT !.timer = TRUE]
  <2>2. a \in AnyUnackedFrag /\ a.frag = q.unacked[new].frag /\ a.retx = q.unacked[new].retx
    BY <2>1, <1>38 DEF AnyUnackedFrag
  <2>3. v = [q.unacked EXCEPT ![new] = a] OBVIOUS
  <2> HIDE DEF a, v
  <2>4. v \in [DOMAIN q.unacked -> AnyUnackedFrag] BY <2>1, <2>2, <2>3
  <2>5. v \in Maps(TxSequence, AnyUnackedFrag) BY <2>1, <2>4, MapIntro
  <2> QED BY <2>1, <2>2, <2>3, <2>4, <2>5, <1>38
<1>40. z = [q EXCEPT !.unacked = v] OBVIOUS
<1> HIDE DEF z, v
<1>41. /\ z \in Reliability /\ SameQueue(z, q) /\ z.unacked = v
       /\ z.first = q.first /\ z.nets = q.nets /\ z.resolved = q.resolved /\ z.lastTx = q.lastTx
  BY <1>38, <1>39, <1>40 DEF Reliability, SameQueue
<1>42. RelInv(z, s, n, R, A, K, P, Y) BY <1>37, <1>39, <1>41, SameFragsKeep
<1> QED BY <1>1, <1>42

LEMMA LostKeeps ==
    ASSUME NEW r, NEW s \in Seq(Nat), NEW n, NEW R, NEW A, NEW K, NEW P, NEW Y,
           Total(s, n) \in Nat, (MaxRetx + 1) * Total(s, n) < SeqSpace,
           RelInv(r, s, n, R, A, K, P, Y), NEW tx \in DOMAIN r.unacked
    PROVE  RelInv(onLpPacketLost(r, tx), s, n, R, A, K, P, Y)
<1>1. r.unacked[tx].retx \in Nat /\ MaxRetx \in Nat
  <2>1. r \in Reliability BY DEF RelInv
  <2>2. r.unacked[tx] \in AnyUnackedFrag BY <2>1, RelTypes
  <2> QED BY <2>2, LpReliabilityAssumption DEF AnyUnackedFrag
<1>2. CASE r.unacked[tx].retx >= MaxRetx
  BY <1>2, GiveUpKeeps DEF onLpPacketLost
<1>3. CASE ~(r.unacked[tx].retx >= MaxRetx)
  <2>1. r.unacked[tx].retx < MaxRetx BY <1>1, <1>3
  <2> QED BY <1>3, <2>1, RetransmitKeeps DEF onLpPacketLost
<1> QED BY <1>2, <1>3

SameFrags(d, r) ==
    /\ DOMAIN d.unacked = DOMAIN r.unacked
    /\ \A t \in DOMAIN r.unacked : d.unacked[t].frag = r.unacked[t].frag

LEMMA CountKeeps ==
    ASSUME NEW r, NEW s \in Seq(Nat), NEW n, NEW R, NEW A, NEW K, NEW P, NEW Y,
           Total(s, n) \in Nat, RelInv(r, s, n, R, A, K, P, Y), NEW tx
    PROVE  /\ RelInv(CountGreaterAck(r, tx), s, n, R, A, K, P, Y)
           /\ SameFrags(CountGreaterAck(r, tx), r)
<1> DEFINE B == Before(r, tx)
           more(t) == [r.unacked[t] EXCEPT !.greaterAcks = @ + 1]
           u == [t \in DOMAIN r.unacked |-> IF t \in B THEN more(t) ELSE r.unacked[t]]
           d == [r EXCEPT !.unacked = u]
<1>1. CountGreaterAck(r, tx) = d BY DEF CountGreaterAck
<1>2. r \in Reliability BY DEF RelInv
<1>3. /\ DOMAIN r.unacked \subseteq TxSequence
      /\ \A t \in DOMAIN r.unacked : r.unacked[t] \in AnyUnackedFrag
  BY <1>2, RelTypes
<1> HIDE DEF B
<1>4. \A t \in DOMAIN r.unacked : /\ more(t) \in AnyUnackedFrag
                                  /\ more(t).frag = r.unacked[t].frag
                                  /\ more(t).retx = r.unacked[t].retx
  BY <1>3 DEF AnyUnackedFrag
<1> HIDE DEF more
<1>5. /\ u \in [DOMAIN r.unacked -> AnyUnackedFrag] /\ DOMAIN u = DOMAIN r.unacked
      /\ \A t \in DOMAIN r.unacked : u[t].frag = r.unacked[t].frag /\ u[t].retx = r.unacked[t].retx
  BY <1>3, <1>4
<1> HIDE DEF u
<1>6. u \in Maps(TxSequence, AnyUnackedFrag) BY <1>3, <1>5, MapIntro
<1>7. /\ d \in Reliability /\ SameQueue(d, r) /\ d.unacked = u
      /\ d.first = r.first /\ d.nets = r.nets /\ d.resolved = r.resolved /\ d.lastTx = r.lastTx
  BY <1>2, <1>6 DEF Reliability, SameQueue
<1> HIDE DEF d
<1>8. RelInv(d, s, n, R, A, K, P, Y) BY <1>5, <1>7, SameFragsKeep
<1> QED BY <1>1, <1>5, <1>7, <1>8 DEF SameFrags

\* An Ack that the peer may have sent, with all that it makes known to be lost.
LEMMA AckKeeps ==
    ASSUME NEW r, NEW s \in Seq(Nat), NEW n, NEW R, NEW A, NEW K, NEW P, NEW Y,
           Total(s, n) \in Nat, (MaxRetx + 1) * Total(s, n) < SeqSpace,
           RelInv(r, s, n, R, A, K, P, Y), NEW ack \in K
    PROVE  RelInv(processAck(r, ack), s, n, R, A, K, P, Y)
<1>1. CASE ack \notin DOMAIN r.unacked BY <1>1 DEF processAck
<1>2. CASE ack \in DOMAIN r.unacked
  <2> DEFINE lost == findLostLpPackets(r, ack)
             m == Cardinality(lost)
             c == CountGreaterAck(r, ack)
             b == onLpPacketAcknowledged(c, ack)
             nth(i) == NthLost(r, lost, i)
             S == {x \in Reliability : RelInv(x, s, n, R, A, K, P, Y)}
             F == [i \in 1 .. m |-> [x \in S |-> Lose(x, nth(i))]]
             L == CHOOSE f : f = [i \in 0 .. m |-> IF i = 0 THEN b ELSE Lose(f[i - 1], nth(i))]
  <2>1. processAck(r, ack) = L[m] BY <1>2 DEF processAck
  <2>2. m \in Nat
    <3>1. DOMAIN r.unacked \subseteq TxSequence /\ SeqSpace \in Nat
      BY RelTypes, LpReliabilityAssumption DEF RelInv
    <3>2. IsFiniteSet(TxSequence)
      <4> DEFINE top == SeqSpace - 1
      <4>1. 0 \in Int /\ top \in Int BY <3>1
      <4> HIDE DEF top
      <4>2. IsFiniteSet(0 .. top) BY <4>1, FS_Interval
      <4> QED BY <4>2 DEF TxSequence, top
    <3>3. lost \subseteq TxSequence BY <3>1 DEF findLostLpPackets, Before
    <3> HIDE DEF lost
    <3> QED BY <3>2, <3>3, FS_Subset, FS_CardinalityType
  <2>3. b \in S
    <3>1. /\ RelInv(c, s, n, R, A, K, P, Y) /\ DOMAIN c.unacked = DOMAIN r.unacked
          /\ \A t \in DOMAIN r.unacked : c.unacked[t].frag = r.unacked[t].frag
      <4>1. RelInv(c, s, n, R, A, K, P, Y) /\ SameFrags(c, r)
        <5>1. /\ RelInv(CountGreaterAck(r, ack), s, n, R, A, K, P, Y)
              /\ SameFrags(CountGreaterAck(r, ack), r)
          BY CountKeeps
        <5> QED BY <5>1
      <4> HIDE DEF c
      <4> QED BY <4>1 DEF SameFrags
    <3> HIDE DEF c
    <3>2. KeyOf(c.unacked[ack].frag) \in A BY <1>2, <3>1 DEF RelInv, AckInv
    <3>3. RelInv(b, s, n, R, A, K, P, Y) BY <1>2, <3>1, <3>2, AcknowledgeKeeps
    <3> QED BY <3>3 DEF RelInv
  <2> HIDE DEF m, b, nth, lost
  <2>4. ASSUME NEW x \in S, NEW i PROVE Lose(x, nth(i)) \in S
    <3>1. CASE nth(i) \in DOMAIN x.unacked
      <4> DEFINE t == nth(i)
      <4> HIDE DEF t
      <4>1. RelInv(onLpPacketLost(x, t), s, n, R, A, K, P, Y) BY <3>1, LostKeeps DEF t
      <4> QED BY <3>1, <4>1 DEF Lose, t, RelInv
    <3>2. CASE nth(i) \notin DOMAIN x.unacked BY <3>2 DEF Lose
    <3> QED BY <3>1, <3>2
  <2> HIDE DEF S
  <2>5. F \in [1 .. m -> [S -> S]] BY <2>4
  <2>6. \E f : f = [i \in 0 .. m |-> IF i = 0 THEN b ELSE Lose(f[i - 1], nth(i))]
    <3>0. PICK f : IsRun(f, S, b, m, F)
      <4> HIDE DEF F
      <4> QED BY <2>2, <2>3, <2>5, LoopRuns
    <3>1. /\ f \in [0 .. m -> S]
          /\ f[0] = b /\ \A i \in 1 .. m : f[i] = F[i][f[i - 1]]
      BY <3>0 DEF IsRun
    <3>2. \A i \in 1 .. m : f[i] = Lose(f[i - 1], nth(i))
      <4> SUFFICES ASSUME NEW i \in 1 .. m PROVE f[i] = Lose(f[i - 1], nth(i)) OBVIOUS
      <4>1. i - 1 \in 0 .. m BY <2>2
      <4>2. f[i - 1] \in S BY <3>1, <4>1
      <4> QED BY <3>1, <4>2
    <3>3. \A i \in 0 .. m : i # 0 => i \in 1 .. m BY <2>2
    <3> HIDE DEF F
    <3> QED BY <3>1, <3>2, <3>3
  <2>7. L = [i \in 0 .. m |-> IF i = 0 THEN b ELSE Lose(L[i - 1], nth(i))] BY <2>6
  <2> HIDE DEF L
  <2>8. L[0] = b /\ \A i \in 1 .. m : L[i] = Lose(L[i - 1], nth(i))
    BY <2>2, <2>7
  <2>9. L[m] \in S
    <3>1. \A i \in 1 .. m : L[i - 1] \in S => L[i] \in S BY <2>4, <2>8
    <3>2. L[0] \in S BY <2>3, <2>8
    <3> QED BY <2>2, <3>1, <3>2, LoopKeeps
  <2> QED BY <2>1, <2>9 DEF S
<1> QED BY <1>1, <1>2

LEMMA AcksKeep ==
    ASSUME NEW r, NEW s \in Seq(Nat), NEW n, NEW R, NEW A, NEW K, NEW P, NEW Y,
           Total(s, n) \in Nat, (MaxRetx + 1) * Total(s, n) < SeqSpace,
           RelInv(r, s, n, R, A, K, P, Y),
           NEW acks \in Seq(TxSequence), Members(acks) \subseteq K
    PROVE  RelInv(processAcks(r, acks), s, n, R, A, K, P, Y)
<1> DEFINE m == Len(acks)
           S == {x \in Reliability : RelInv(x, s, n, R, A, K, P, Y)}
           F == [i \in 1 .. m |-> [x \in S |-> processAck(x, acks[i])]]
           L == CHOOSE f : f = [i \in 0 .. m |-> IF i = 0 THEN r ELSE processAck(f[i - 1], acks[i])]
<1>1. processAcks(r, acks) = L[m] BY DEF processAcks
<1>2. m \in Nat BY LenProperties
<1>3. r \in S BY DEF RelInv
<1>4. ASSUME NEW x \in S, NEW i \in 1 .. m PROVE processAck(x, acks[i]) \in S
  <2> DEFINE a == acks[i]
  <2>1. a \in K BY DEF Members
  <2> HIDE DEF a
  <2>2. RelInv(processAck(x, a), s, n, R, A, K, P, Y) BY <2>1, AckKeeps
  <2> QED BY <2>2 DEF RelInv, a
<1> HIDE DEF S, m
<1>5. F \in [1 .. m -> [S -> S]] BY <1>4
<1>6. \E f : f = [i \in 0 .. m |-> IF i = 0 THEN r ELSE processAck(f[i - 1], acks[i])]
  <2>0. PICK f : IsRun(f, S, r, m, F)
    <3> HIDE DEF F
    <3> QED BY <1>2, <1>3, <1>5, LoopRuns
  <2>1. /\ f \in [0 .. m -> S]
        /\ f[0] = r /\ \A i \in 1 .. m : f[i] = F[i][f[i - 1]]
    BY <2>0 DEF IsRun
  <2>2. \A i \in 1 .. m : f[i] = processAck(f[i - 1], acks[i])
    <3> SUFFICES ASSUME NEW i \in 1 .. m PROVE f[i] = processAck(f[i - 1], acks[i]) OBVIOUS
    <3>1. i - 1 \in 0 .. m BY <1>2
    <3>2. f[i - 1] \in S BY <2>1, <3>1
    <3> QED BY <2>1, <3>2
  <2>3. \A i \in 0 .. m : i # 0 => i \in 1 .. m BY <1>2
  <2> HIDE DEF F
  <2> QED BY <2>1, <2>2, <2>3
<1>7. L = [i \in 0 .. m |-> IF i = 0 THEN r ELSE processAck(L[i - 1], acks[i])] BY <1>6
<1> HIDE DEF L
<1>8. L[0] = r /\ \A i \in 1 .. m : L[i] = processAck(L[i - 1], acks[i]) BY <1>2, <1>7
<1>9. L[m] \in S
  <2>1. \A i \in 1 .. m : L[i - 1] \in S => L[i] \in S BY <1>4, <1>8
  <2>2. L[0] \in S BY <1>3, <1>8
  <2> QED BY <1>2, <2>1, <2>2, LoopKeeps
<1> QED BY <1>1, <1>9 DEF S
-----------------------------------------------------------------------------
(* Sums *)

LEMMA TotalDef ==
    ASSUME NEW s \in Seq(Nat)
    PROVE  /\ Total(s, 0) = 0
           /\ \A n \in 0 .. Len(s) : Total(s, n) \in Nat
           /\ \A n \in 0 .. Len(s) : n < Len(s) => Total(s, n + 1) = Total(s, n) + s[n + 1]
<1> DEFINE m == Len(s)
           F == [i \in 1 .. m |-> [x \in Nat |-> x + s[i]]]
           L == CHOOSE f : f = [i \in 0 .. m |-> IF i = 0 THEN 0 ELSE f[i - 1] + s[i]]
<1>1. m \in Nat /\ \A i \in 1 .. m : s[i] \in Nat BY LenProperties
<1>2. \A n : Total(s, n) = L[n] BY DEF Total
<1> HIDE DEF m
<1>3. F \in [1 .. m -> [Nat -> Nat]] BY <1>1
<1>4. PICK f : IsRun(f, Nat, 0, m, F)
  <2> DEFINE N == Nat
             b == 0
  <2>1. b \in N /\ F \in [1 .. m -> [N -> N]] BY <1>3
  <2> HIDE DEF F, N, b
  <2>2. \E g : IsRun(g, N, b, m, F) BY <1>1, <2>1, LoopRuns
  <2> QED BY <2>2 DEF N, b
<1>5. /\ f \in [0 .. m -> Nat] /\ f[0] = 0
      /\ \A i \in 1 .. m : f[i] = F[i][f[i - 1]]
  BY <1>4 DEF IsRun
<1>6. ASSUME NEW i \in 1 .. m PROVE f[i] = f[i - 1] + s[i]
  <2>1. i - 1 \in 0 .. m BY <1>1
  <2>2. f[i - 1] \in Nat BY <1>5, <2>1
  <2> QED BY <1>5, <2>2
<1>7. f = [i \in 0 .. m |-> IF i = 0 THEN 0 ELSE f[i - 1] + s[i]]
  <2>1. \A i \in 0 .. m : i # 0 => i \in 1 .. m BY <1>1
  <2> HIDE DEF F
  <2> QED BY <1>5, <1>6, <2>1
<1>8. L = [i \in 0 .. m |-> IF i = 0 THEN 0 ELSE L[i - 1] + s[i]] BY <1>7
<1> HIDE DEF L
<1> DEFINE P == {i \in Nat : i <= m => L[i] \in Nat}
<1>9. L[0] = 0 /\ \A i \in 1 .. m : L[i] = L[i - 1] + s[i] BY <1>1, <1>8
<1>10. 0 \in P BY <1>9
<1>11. ASSUME NEW i \in Nat, i \in P PROVE i + 1 \in P
  <2> SUFFICES ASSUME i + 1 <= m PROVE L[i + 1] \in Nat OBVIOUS
  <2>1. i + 1 \in 1 .. m /\ (i + 1) - 1 = i /\ i <= m BY <1>1
  <2>2. L[i + 1] = L[i] + s[i + 1] BY <1>9, <2>1
  <2>3. L[i] \in Nat /\ s[i + 1] \in Nat BY <1>1, <1>11, <2>1
  <2> QED BY <2>2, <2>3
<1>12. \A i \in 0 .. m : L[i] \in Nat
  <2> HIDE DEF P
  <2>1. Nat \subseteq P BY <1>10, <1>11, NatInductionOnSet
  <2> QED BY <1>1, <2>1 DEF P
<1>13. \A i \in 0 .. m : i < m => L[i + 1] = L[i] + s[i + 1]
  <2> SUFFICES ASSUME NEW i \in 0 .. m, i < m PROVE L[i + 1] = L[i] + s[i + 1] OBVIOUS
  <2>1. i + 1 \in 1 .. m /\ (i + 1) - 1 = i BY <1>1
  <2> QED BY <1>9, <2>1
<1> QED BY <1>2, <1>9, <1>12, <1>13 DEF m

\* A longer part has at least the sum of a shorter one.
LEMMA TotalGrows ==
    ASSUME NEW s \in Seq(Nat), NEW a \in 0 .. Len(s), NEW b \in 0 .. Len(s), a <= b
    PROVE  Total(s, a) <= Total(s, b)
<1>1. Len(s) \in Nat /\ \A i \in 1 .. Len(s) : s[i] \in Nat BY LenProperties
<1> DEFINE P == {i \in Nat : a <= i /\ i <= Len(s) => Total(s, a) <= Total(s, i)}
<1>2. 0 \in P
  <2>1. a <= 0 => a = 0 BY <1>1
  <2>2. Total(s, 0) = 0 BY TotalDef
  <2> QED BY <2>1, <2>2
<1>3. ASSUME NEW i \in Nat, i \in P PROVE i + 1 \in P
  <2> SUFFICES ASSUME a <= i + 1, i + 1 <= Len(s) PROVE Total(s, a) <= Total(s, i + 1) OBVIOUS
  <2>1. Total(s, a) \in Nat BY TotalDef
  <2>2. CASE a = i + 1 BY <2>1, <2>2
  <2>3. CASE a # i + 1
    <3>1. a <= i /\ i <= Len(s) /\ i < Len(s) /\ i \in 0 .. Len(s) /\ i + 1 \in 1 .. Len(s)
      BY <2>3, <1>1
    <3>2. Total(s, i + 1) = Total(s, i) + s[i + 1] /\ Total(s, i) \in Nat BY <3>1, TotalDef
    <3>3. Total(s, a) <= Total(s, i) /\ s[i + 1] \in Nat BY <1>1, <1>3, <3>1
    <3> QED BY <2>1, <3>2, <3>3
  <2> QED BY <2>2, <2>3
<1>4. b \in P
  <2> HIDE DEF P
  <2>1. Nat \subseteq P BY <1>2, <1>3, NatInductionOnSet
  <2> QED BY <1>1, <2>1
<1> QED BY <1>1, <1>4

LEMMA NumberedDef ==
    ASSUME NEW s \in Seq(Nat)
    PROVE  /\ Numbered(s) \in Seq(Nat) /\ Len(Numbered(s)) = Len(s)
           /\ \A i \in 1 .. Len(s) :
                 Numbered(s)[i] = IF 1 < s[i] /\ s[i] <= NMaxFragments THEN s[i] ELSE 0
<1>1. Len(s) \in Nat /\ \A i \in 1 .. Len(s) : s[i] \in Nat BY LenProperties
<1>2. Numbered(s) \in [1 .. Len(s) -> Nat] BY <1>1 DEF Numbered
<1>3. Numbered(s) \in Seq(Nat) BY <1>1, <1>2
<1>4. Len(Numbered(s)) = Len(s) BY <1>1, <1>2, <1>3, LenProperties
<1> QED BY <1>3, <1>4 DEF Numbered

\* No more Sequences are used than fragments are sent.
LEMMA SeqUsedLimit ==
    ASSUME NEW s \in Seq(Nat), NEW n \in 0 .. Len(s)
    PROVE  SeqUsed(s, n) \in Nat /\ SeqUsed(s, n) <= Total(s, n)
<1> DEFINE t == Numbered(s)
           P == {i \in Nat : i <= Len(s) => Total(t, i) <= Total(s, i)}
<1>1. Len(s) \in Nat /\ \A i \in 1 .. Len(s) : s[i] \in Nat BY LenProperties
<1>2. /\ t \in Seq(Nat) /\ Len(t) = Len(s)
      /\ \A i \in 1 .. Len(s) : t[i] = IF 1 < s[i] /\ s[i] <= NMaxFragments THEN s[i] ELSE 0
  BY NumberedDef
<1> HIDE DEF t
<1>3. 0 \in P
  <2>1. Total(t, 0) = 0 /\ Total(s, 0) = 0 BY <1>2, TotalDef
  <2> QED BY <2>1
<1>4. ASSUME NEW i \in Nat, i \in P PROVE i + 1 \in P
  <2> SUFFICES ASSUME i + 1 <= Len(s) PROVE Total(t, i + 1) <= Total(s, i + 1) OBVIOUS
  <2>1. i <= Len(s) /\ i < Len(s) /\ i \in 0 .. Len(s) /\ i + 1 \in 1 .. Len(s) BY <1>1
  <2>2. Total(s, i + 1) = Total(s, i) + s[i + 1] /\ Total(s, i) \in Nat BY <2>1, TotalDef
  <2>3. Total(t, i + 1) = Total(t, i) + t[i + 1] /\ Total(t, i) \in Nat BY <1>2, <2>1, TotalDef
  <2>4. t[i + 1] <= s[i + 1] /\ t[i + 1] \in Nat /\ s[i + 1] \in Nat
    <3>1. /\ t[i + 1] = IF 1 < s[i + 1] /\ s[i + 1] <= NMaxFragments THEN s[i + 1] ELSE 0
          /\ s[i + 1] \in Nat
      BY <1>1, <1>2, <2>1
    <3> QED BY <3>1
  <2>5. Total(t, i) <= Total(s, i) BY <1>4, <2>1
  <2> QED BY <2>2, <2>3, <2>4, <2>5
<1>5. n \in P
  <2> HIDE DEF P
  <2>1. Nat \subseteq P BY <1>3, <1>4, NatInductionOnSet
  <2> QED BY <1>1, <2>1
<1>6. Total(t, n) \in Nat /\ Total(t, n) <= Total(s, n) BY <1>1, <1>2, <1>5, TotalDef
<1> QED BY <1>6 DEF SeqUsed, t
-----------------------------------------------------------------------------
(* Sequences *)

\* Numbers that differ by a multiple of SeqSpace have the same remainder.
LEMMA SameRemainder ==
    ASSUME NEW a \in Int, NEW b \in Int, NEW k \in Int, a = b + k * SeqSpace
    PROVE  a % SeqSpace = b % SeqSpace
<1>1. SeqSpace \in Nat \ {0} BY LpReliabilityAssumption
<1> DEFINE r == b % SeqSpace
           q == b \div SeqSpace
<1>2. q \in Int /\ r \in TxSequence /\ b = q * SeqSpace + r
  BY <1>1, Z3 DEF TxSequence
<1> HIDE DEF r, q
<1>3. r \in Int BY <1>2 DEF TxSequence
<1>4. a = (q + k) * SeqSpace + r
  <2>1. (q + k) * SeqSpace = q * SeqSpace + k * SeqSpace BY <1>1, <1>2
  <2>2. q * SeqSpace \in Int /\ k * SeqSpace \in Int BY <1>1, <1>2
  <2> QED BY <1>2, <1>3, <2>1, <2>2
<1>5. a % SeqSpace = r
  <2> DEFINE c == q + k
  <2>1. c \in Int /\ a = c * SeqSpace + r BY <1>2, <1>4
  <2> HIDE DEF c
  <2> QED BY <1>2, <2>1, Remainder
<1> QED BY <1>5 DEF r

\* Every number is a multiple of SeqSpace and a remainder.
LEMMA Division ==
    ASSUME NEW a \in Int
    PROVE  \E k \in Int : a % SeqSpace = a + k * SeqSpace
<1>1. SeqSpace \in Nat \ {0} BY LpReliabilityAssumption
<1> DEFINE r == a % SeqSpace
           q == a \div SeqSpace
<1>2. q \in Int /\ r \in TxSequence /\ a = q * SeqSpace + r
  BY <1>1, Z3 DEF TxSequence
<1> HIDE DEF r, q
<1>3. r \in Int BY <1>2 DEF TxSequence
<1>4. (0 - q) * SeqSpace = 0 - (q * SeqSpace) /\ q * SeqSpace \in Int BY <1>1, <1>2
<1>5. r = a + (0 - q) * SeqSpace BY <1>2, <1>3, <1>4
<1>6. 0 - q \in Int BY <1>2
<1> QED BY <1>5, <1>6 DEF r

\* All fragments of a packet have the message identifier of its first one.
LEMMA IdentifierOfFragment ==
    ASSUME NEW a \in Nat, NEW i \in Nat
    PROVE  ((((a % SeqSpace) + i) % SeqSpace) - (i - 1)) % SeqSpace = (a + 1) % SeqSpace
<1>0. SeqSpace \in Nat BY LpReliabilityAssumption
<1> DEFINE b == a % SeqSpace
           c == (b + i) % SeqSpace
<1>1. PICK k \in Int : b = a + k * SeqSpace BY Division
<1>2. k * SeqSpace \in Int /\ b \in Int BY <1>0, <1>1
<1> HIDE DEF b
<1>3. PICK l \in Int : c = b + i + l * SeqSpace
  <2> DEFINE x == b + i
  <2>1. x \in Int BY <1>2
  <2> HIDE DEF x
  <2>2. \E l \in Int : x % SeqSpace = x + l * SeqSpace BY <2>1, Division
  <2> QED BY <2>2 DEF x
<1>4. l * SeqSpace \in Int BY <1>0
<1> HIDE DEF c
<1>5. (k + l) * SeqSpace = k * SeqSpace + l * SeqSpace /\ k + l \in Int BY <1>0
<1> DEFINE u == c - (i - 1)
           v == a + 1
           w == k + l
<1>6. u \in Int /\ v \in Int /\ w \in Int /\ u = v + w * SeqSpace
  BY <1>1, <1>2, <1>3, <1>4, <1>5
<1> HIDE DEF u, v, w
<1>7. u % SeqSpace = v % SeqSpace BY <1>6, SameRemainder
<1> QED BY <1>7 DEF u, v, b, c

\* Different packets that are fragmented have different message identifiers.
LEMMA IdentifiersDiffer ==
    ASSUME NEW s \in Seq(Nat), Total(s, Len(s)) < SeqSpace,
           NEW a \in 1 .. Len(s), NEW b \in 1 .. Len(s),
           1 < s[a], s[a] <= NMaxFragments, a < b
    PROVE  FirstId(s, a) # FirstId(s, b)
<1>1. Len(s) \in Nat /\ \A i \in 1 .. Len(s) : s[i] \in Nat BY LenProperties
<1>2. /\ a - 1 \in 0 .. Len(s) /\ b - 1 \in 0 .. Len(s) /\ a \in 0 .. Len(s) /\ a <= b - 1
      /\ a - 1 < Len(s) /\ (a - 1) + 1 = a
  BY <1>1
<1> DEFINE t == Numbered(s)
           ua == Total(t, a - 1)
           ub == Total(t, b - 1)
<1>3. /\ t \in Seq(Nat) /\ Len(t) = Len(s) /\ t[a] = s[a]
  BY <1>1, NumberedDef
<1> HIDE DEF t
<1>4. Total(t, a) = ua + s[a] /\ ua \in Nat
  <2> DEFINE i == a - 1
  <2>1. i \in 0 .. Len(t) /\ i < Len(t) /\ i + 1 = a BY <1>2, <1>3
  <2> HIDE DEF i
  <2>2. Total(t, i + 1) = Total(t, i) + t[i + 1] /\ Total(t, i) \in Nat BY <1>3, <2>1, TotalDef
  <2> QED BY <1>3, <2>1, <2>2 DEF i
<1>5. Total(t, a) <= ub /\ ub \in Nat
  <2> DEFINE i == b - 1
  <2>1. i \in 0 .. Len(t) /\ a \in 0 .. Len(t) /\ a <= i BY <1>2, <1>3
  <2> HIDE DEF i
  <2>2. Total(t, a) <= Total(t, i) /\ Total(t, i) \in Nat BY <1>3, <2>1, TotalGrows, TotalDef
  <2> QED BY <2>2 DEF i
<1>6. ub < SeqSpace
  <2> DEFINE i == b - 1
             top == Len(s)
  <2>1. i \in 0 .. Len(s) /\ top \in 0 .. Len(s) /\ i <= top BY <1>1, <1>2
  <2>2. Total(s, i) <= Total(s, top) /\ Total(s, i) \in Nat /\ Total(s, top) \in Nat
    <3> HIDE DEF i, top
    <3> QED BY <2>1, TotalGrows, TotalDef
  <2> HIDE DEF i
  <2>3. SeqUsed(s, i) <= Total(s, i) BY <2>1, SeqUsedLimit
  <2>4. ub = SeqUsed(s, i) BY DEF SeqUsed, t, i
  <2>5. SeqSpace \in Nat BY LpReliabilityAssumption
  <2> QED BY <1>5, <2>2, <2>3, <2>4, <2>5
<1> HIDE DEF ua, ub
<1> DEFINE x == FirstSeq + ua + 1
           y == FirstSeq + ub + 1
<1>7. FirstSeq \in Nat /\ SeqSpace \in Nat
  BY GenericLinkServiceAssumption, LpReliabilityAssumption DEF TxSequence
<1>8. x \in Int /\ y \in Int /\ x < y /\ y - x < SeqSpace
  BY <1>1, <1>4, <1>5, <1>6, <1>7
<1>9. FirstId(s, a) = x % SeqSpace /\ FirstId(s, b) = y % SeqSpace
  BY DEF FirstId, SeqUsed, ua, ub, t
<1> HIDE DEF x, y
<1> SUFFICES ASSUME x % SeqSpace = y % SeqSpace PROVE FALSE BY <1>9
<1>10. PICK k \in Int : x % SeqSpace = x + k * SeqSpace BY <1>8, Division
<1>11. PICK l \in Int : y % SeqSpace = y + l * SeqSpace BY <1>8, Division
<1> DEFINE d == k - l
<1>12. d \in Int /\ y - x = d * SeqSpace
  <2>1. (k - l) * SeqSpace = k * SeqSpace - l * SeqSpace BY <1>7
  <2>2. k * SeqSpace \in Int /\ l * SeqSpace \in Int BY <1>7
  <2>3. x + k * SeqSpace = y + l * SeqSpace BY <1>10, <1>11
  <2> DEFINE kn == k * SeqSpace
             ln == l * SeqSpace
  <2>4. kn \in Int /\ ln \in Int /\ x + kn = y + ln /\ d * SeqSpace = kn - ln /\ d \in Int
    BY <2>1, <2>2, <2>3
  <2>5. kn \in Int /\ ln \in Int /\ x + kn = y + ln BY <2>4
  <2> HIDE DEF kn, ln, d
  <2>6. y - x = kn - ln BY <1>8, <2>5
  <2> QED BY <2>4, <2>6
<1> HIDE DEF d
<1>13. d <= 0 => d * SeqSpace <= 0 BY <1>7, <1>12
<1>14. d >= 1 => d * SeqSpace >= SeqSpace BY <1>7, <1>12
<1>15. d * SeqSpace \in Int BY <1>7, <1>12
<1> QED BY <1>7, <1>8, <1>12, <1>13, <1>14, <1>15
-----------------------------------------------------------------------------
(* What the other end does *)

\* The invariant goes on to hold when the peer receives and acknowledges, when packets
\* leave or are lost, and when a queue or a flag changes.
LEMMA EnvKeeps ==
    ASSUME NEW r, NEW s, NEW n, NEW R, NEW A, NEW K, NEW P, NEW Y,
           RelInv(r, s, n, R, A, K, P, Y), NEW d \in Reliability,
           d.unacked = r.unacked, d.first = r.first, d.nets = r.nets,
           d.resolved = r.resolved, d.lastTx = r.lastTx,
           NEW A2, A \subseteq A2, NEW P2, P2 \subseteq P \cup r.sent, d.sent \subseteq r.sent,
           NEW K2, \A tx \in K2 : tx \in K \/ (/\ Issued(tx, r.lastTx)
                                               /\ tx \in DOMAIN r.unacked => KeyOf(r.unacked[tx].frag) \in A2),
           NEW Y2, QueueInv(d, Y2)
    PROVE  RelInv(d, s, n, R, A2, K2, P2, Y2)
<1>1. WindowInv(d) BY DEF RelInv, WindowInv
<1>2. IndexInv(d) BY DEF RelInv, IndexInv
<1>3. FragsInv(d, s, n) BY DEF RelInv, FragsInv
<1>4. BudgetInv(d, s, n)
  <2>1. Spare(d) = Spare(r) BY DEF Spare
  <2> QED BY <2>1 DEF RelInv, BudgetInv
<1>5. CountInv(d, R) BY DEF RelInv, CountInv, CountedNets
<1>6. ReceivedInv(d, s, A2) BY DEF RelInv, ReceivedInv, Whole
<1>7. AckInv(d, K2, A2) BY DEF RelInv, AckInv
<1>8. ASSUME NEW p \in P2 \cup d.sent PROVE PacketInv(d, p, s, n)
  <2>1. PacketInv(r, p, s, n) BY DEF RelInv
  <2> QED BY <2>1 DEF PacketInv, CarriesInv
<1> QED BY <1>1, <1>2, <1>3, <1>4, <1>5, <1>6, <1>7, <1>8 DEF RelInv

\* Only a flag changes.
LEMMA FlagsKeep ==
    ASSUME NEW r, NEW s, NEW n, NEW R, NEW A, NEW K, NEW P, NEW Y,
           RelInv(r, s, n, R, A, K, P, Y), NEW d \in Reliability,
           d.unacked = r.unacked, d.first = r.first, d.nets = r.nets,
           d.resolved = r.resolved, d.lastTx = r.lastTx,
           d.ackQueue = r.ackQueue, d.sent = r.sent
    PROVE  RelInv(d, s, n, R, A, K, P, Y)
<1>1. QueueInv(d, Y) BY DEF RelInv, QueueInv
<1>2. P \subseteq P \cup r.sent /\ A \subseteq A /\ d.sent \subseteq r.sent OBVIOUS
<1>3. \A tx \in K : tx \in K \/ (/\ Issued(tx, r.lastTx)
                                 /\ tx \in DOMAIN r.unacked => KeyOf(r.unacked[tx].frag) \in A)
  OBVIOUS
<1> QED BY <1>1, <1>2, <1>3, EnvKeeps

LEMMA IdleAckTimerKeeps ==
    ASSUME NEW r, NEW s \in Seq(Nat), NEW n, NEW R, NEW A, NEW K, NEW P, NEW Y,
           Total(s, n) \in Nat, RelInv(r, s, n, R, A, K, P, Y)
    PROVE  RelInv(idleAckTimer(r), s, n, R, A, K, P, Y)
<1> DEFINE m == Len(r.ackQueue)
           S == {x \in Reliability : RelInv(x, s, n, R, A, K, P, Y)}
           G(x) == requestIdlePacket(x)
           F == [i \in 1 .. m |-> [x \in S |-> G(x)]]
           L == CHOOSE f : f = [i \in 0 .. m |-> IF i = 0 THEN r ELSE requestIdlePacket(f[i - 1])]
<1>1. idleAckTimer(r) = [L[m] EXCEPT !.idleTimer = FALSE] BY DEF idleAckTimer
<1>2. m \in Nat
  <2>1. r.ackQueue \in Seq(TxSequence) BY RelTypes DEF RelInv
  <2> QED BY <2>1, LenProperties
<1>3. r \in S BY DEF RelInv
<1>4. ASSUME NEW x \in S PROVE G(x) \in S
  <2> DEFINE t == NoTx
             g == NoFrag
  <2>1. t \in TxSequence \cup {NoTx} /\ g \in Fragment BY DEF Fragment, NoFrag
  <2>2. CarriesInv(x, t, g, s, n) BY DEF CarriesInv
  <2>3. G(x) = IF x.ackQueue = <<>> THEN x ELSE sendLpPacket(x, t, g) BY DEF requestIdlePacket
  <2> HIDE DEF t, g, G
  <2>4. RelInv(sendLpPacket(x, t, g), s, n, R, A, K, P, Y) BY <2>1, <2>2, SendKeeps
  <2> QED BY <2>3, <2>4 DEF RelInv
<1> HIDE DEF m
<1>5. L = [i \in 0 .. m |-> IF i = 0 THEN r ELSE G(L[i - 1])]
  <2> HIDE DEF S
  <2>1. F \in [1 .. m -> [S -> S]]
    <3> HIDE DEF G
    <3> QED BY <1>4
  <2>2. PICK f : IsRun(f, S, r, m, F)
    <3> HIDE DEF F
    <3> QED BY <1>2, <1>3, <2>1, LoopRuns
  <2>3. /\ f \in [0 .. m -> S] /\ f[0] = r /\ \A i \in 1 .. m : f[i] = F[i][f[i - 1]]
    BY <2>2 DEF IsRun
  <2>4. ASSUME NEW i \in 1 .. m PROVE f[i] = G(f[i - 1])
    <3> HIDE DEF G
    <3>1. i - 1 \in 0 .. m BY <1>2
    <3>2. f[i - 1] \in S BY <2>3, <3>1
    <3> QED BY <2>3, <3>2
  <2>5. \A i \in 0 .. m : i # 0 => i \in 1 .. m BY <1>2
  <2>6. f = [i \in 0 .. m |-> IF i = 0 THEN r ELSE G(f[i - 1])]
    <3> HIDE DEF G, F
    <3> QED BY <2>3, <2>4, <2>5
  <2>7. L = [i \in 0 .. m |-> IF i = 0 THEN r ELSE requestIdlePacket(L[i - 1])]
    BY <2>6
  <2> HIDE DEF L
  <2> QED BY <2>7
<1> HIDE DEF L, S, G
<1>6. L[0] = r /\ \A i \in 1 .. m : L[i] = G(L[i - 1]) BY <1>2, <1>5
<1>7. L[m] \in S
  <2>1. \A i \in 1 .. m : L[i - 1] \in S => L[i] \in S BY <1>4, <1>6
  <2>2. L[0] \in S BY <1>3, <1>6
  <2> QED BY <1>2, <2>1, <2>2, LoopKeeps
<1> DEFINE a == L[m]
           d == [a EXCEPT !.idleTimer = FALSE]
<1>8. RelInv(a, s, n, R, A, K, P, Y) /\ a \in Reliability BY <1>7 DEF S
<1> HIDE DEF a
<1>9. /\ d \in Reliability /\ d.unacked = a.unacked /\ d.first = a.first /\ d.nets = a.nets
      /\ d.resolved = a.resolved /\ d.lastTx = a.lastTx /\ d.sent = a.sent
      /\ d.ackQueue = a.ackQueue
  BY <1>8 DEF Reliability
<1> HIDE DEF d
<1>10. RelInv(d, s, n, R, A, K, P, Y) BY <1>8, <1>9, FlagsKeep
<1> QED BY <1>1, <1>10 DEF a, d
\* The Acks of a packet are processed, and its TxSequence is queued to be acknowledged.
LEMMA IncomingKeeps ==
    ASSUME NEW r, NEW s \in Seq(Nat), NEW n, NEW R, NEW A, NEW K, NEW P, NEW Y,
           Total(s, n) \in Nat, (MaxRetx + 1) * Total(s, n) < SeqSpace,
           RelInv(r, s, n, R, A, K, P, Y),
           NEW p \in Packet, Members(p.acks) \subseteq K,
           NEW Y2, Y \subseteq Y2, p.frag # NoFrag /\ p.tx # NoTx => p.tx \in Y2
    PROVE  RelInv(processIncomingPacket(r, p), s, n, R, A, K, P, Y2)
<1> DEFINE acks == p.acks
           a == processAcks(r, acks)
           queued == p.frag # NoFrag /\ p.tx # NoTx
           b == [a EXCEPT !.ackQueue = Append(a.ackQueue, p.tx), !.idleTimer = TRUE]
           d == IF queued THEN b ELSE a
<1>1. processIncomingPacket(r, p) = d BY DEF processIncomingPacket
<1>2. acks \in Seq(TxSequence) /\ p.tx \in TxSequence \cup {NoTx} BY DEF Packet
<1> HIDE DEF acks
<1>3. RelInv(a, s, n, R, A, K, P, Y)
  <2>1. Members(acks) \subseteq K BY DEF acks
  <2> QED BY <1>2, <2>1, AcksKeep
<1> HIDE DEF a
<1>4. a \in Reliability /\ a.ackQueue \in Seq(TxSequence) /\ QueueInv(a, Y)
  BY <1>3, RelTypes DEF RelInv
<1>5. /\ d \in Reliability /\ d.unacked = a.unacked /\ d.first = a.first /\ d.nets = a.nets
      /\ d.resolved = a.resolved /\ d.lastTx = a.lastTx /\ d.sent = a.sent
      /\ d.ackQueue = IF queued THEN Append(a.ackQueue, p.tx) ELSE a.ackQueue
  <2>1. CASE ~queued BY <2>1, <1>4
  <2>2. CASE queued
    <3> DEFINE q == Append(a.ackQueue, p.tx)
    <3>1. q \in Seq(TxSequence) BY <1>2, <1>4, <2>2, AppendProperties
    <3>2. d = [a EXCEPT !.ackQueue = q, !.idleTimer = TRUE] BY <2>2
    <3> HIDE DEF q, d
    <3>3. /\ d \in Reliability /\ d.unacked = a.unacked /\ d.first = a.first /\ d.nets = a.nets
          /\ d.resolved = a.resolved /\ d.lastTx = a.lastTx /\ d.sent = a.sent
          /\ d.ackQueue = q
      BY <1>4, <3>1, <3>2 DEF Reliability
    <3> QED BY <2>2, <3>3 DEF q
  <2> QED BY <2>1, <2>2
<1> HIDE DEF d
<1>6. QueueInv(d, Y2)
  <2>1. Members(a.ackQueue) \subseteq Y /\ \A x \in a.sent : Members(x.acks) \subseteq Y
    BY <1>4 DEF QueueInv
  <2>2. Members(d.ackQueue) \subseteq Y2
    <3>1. CASE ~queued BY <3>1, <1>5, <2>1
    <3>2. CASE queued
      <4>1. p.tx \in TxSequence BY <1>2, <3>2
      <4> DEFINE t == p.tx
                 l == a.ackQueue
      <4>2. Members(Append(l, t)) = Members(l) \cup {t}
        <5>1. t \in TxSequence /\ l \in Seq(TxSequence) BY <4>1, <1>4
        <5> HIDE DEF t, l
        <5> QED BY <5>1, AppendMembers
      <4> QED BY <4>2, <3>2, <1>5, <2>1
    <3> QED BY <3>1, <3>2
  <2> QED BY <1>5, <2>1, <2>2 DEF QueueInv
<1>7. P \subseteq P \cup a.sent /\ A \subseteq A /\ d.sent \subseteq a.sent BY <1>5
<1>8. \A tx \in K : tx \in K \/ (/\ Issued(tx, a.lastTx)
                                 /\ tx \in DOMAIN a.unacked => KeyOf(a.unacked[tx].frag) \in A)
  OBVIOUS
<1>9. RelInv(d, s, n, R, A, K, P, Y2) BY <1>3, <1>5, <1>6, <1>7, <1>8, EnvKeeps
<1> QED BY <1>1, <1>9
-----------------------------------------------------------------------------
(* Packets that are given to the face *)

\* frags are the fragments of the packet net of the traffic s.
FragsOf(frags, s, net) ==
    /\ frags \in [1 .. s[net] -> Fragment]
    /\ \A i \in 1 .. s[net] :
          frags[i].net = net /\ frags[i].index = i - 1 /\ FragOf(frags[i], s, net)

\* They are stored in d, with the TxSequences after the last one of r.
Stored(d, r, frags, c) ==
    /\ d.lastTx = NthTx(r, c)
    /\ \A i \in 1 .. c : /\ NthTx(r, i) \in DOMAIN d.unacked
                         /\ d.unacked[NthTx(r, i)].frag = frags[i]
                         /\ Issued(NthTx(r, i), d.lastTx)

\* A fragment of one of the first packets is one of more packets.
LEMMA FragOfMore ==
    ASSUME NEW g, NEW s, NEW n \in Nat, FragOf(g, s, n)
    PROVE  FragOf(g, s, n + 1)
BY DEF FragOf

\* The retransmissions of c fragments.
Tokens(net, c, M) == {<<net, x[1], x[2]>> : x \in (0 .. c - 1) \X (1 .. M)}

LEMMA NewSpare ==
    ASSUME NEW net, NEW c \in Nat, NEW M \in Nat
    PROVE  /\ IsFiniteSet(Tokens(net, c, M))
           /\ Cardinality(Tokens(net, c, M)) <= c * M
           /\ Cardinality(Tokens(net, c, M)) \in Nat
<1> DEFINE I == 0 .. c - 1
           J == 1 .. M
           X == I \X J
           Q == {<<net, x[1], x[2]>> : x \in X}
<1> SUFFICES IsFiniteSet(Q) /\ Cardinality(Q) <= c * M /\ Cardinality(Q) \in Nat
  BY DEF Tokens
<1>1. IsFiniteSet(I) /\ Cardinality(I) = c
  <2> DEFINE top == c - 1
  <2>1. 0 \in Int /\ top \in Int OBVIOUS
  <2>2. IsFiniteSet(0 .. top) /\ Cardinality(0 .. top) = IF 0 > top THEN 0 ELSE top - 0 + 1
    <3> HIDE DEF top
    <3> QED BY <2>1, FS_Interval
  <2> QED BY <2>2
<1>2. IsFiniteSet(J) /\ Cardinality(J) = M
  <2>1. IsFiniteSet(1 .. M) /\ Cardinality(1 .. M) = IF 1 > M THEN 0 ELSE M - 1 + 1
    BY FS_Interval
  <2> QED BY <2>1
<1> HIDE DEF I, J
<1>3. IsFiniteSet(X) /\ Cardinality(X) = c * M
  BY <1>1, <1>2, FS_Product
<1> DEFINE f == [x \in X |-> <<net, x[1], x[2]>>]
<1>4. f \in Surjection(X, Q)
  <2>1. f \in [X -> Q] OBVIOUS
  <2>2. \A q \in Q : \E x \in X : f[x] = q OBVIOUS
  <2> HIDE DEF f, X, Q
  <2> QED BY <2>1, <2>2, Fun_IsSurj
<1> HIDE DEF X, Q, f
<1>5. IsFiniteSet(Q) /\ Cardinality(Q) <= Cardinality(X) BY <1>3, <1>4, FS_Surjection
<1>6. Cardinality(Q) \in Nat BY <1>5, FS_CardinalityType
<1> QED BY <1>3, <1>5, <1>6

LEMMA HandleOutgoingKeeps ==
    ASSUME NEW r, NEW s \in Seq(Nat), NEW n \in Nat, NEW R, NEW A, NEW K, NEW P, NEW Y,
           n + 1 <= Len(s), 1 <= s[n + 1], (MaxRetx + 1) * Total(s, n + 1) < SeqSpace,
           R \subseteq 1 .. n, RelInv(r, s, n, R, A, K, P, Y),
           NEW net, net = n + 1, NEW frags, FragsOf(frags, s, net)
    PROVE  /\ RelInv(handleOutgoing(r, net, frags), s, net, R \cup {net}, A, K, P, Y)
           /\ Stored(handleOutgoing(r, net, frags), r, frags, s[net])
<1> DEFINE c == s[net]
           tx(i) == NthTx(r, i)
           last == tx(c)
           txs == {tx(i) : i \in 1 .. c}
           at(t) == CHOOSE i \in 1 .. c : t = tx(i)
           new(t) == [UnackedFrag(frags[at(t)], 0) EXCEPT !.timer = TRUE]
           u == [t \in DOMAIN r.unacked \cup txs |-> IF t \in txs THEN new(t) ELSE r.unacked[t]]
           first == IF r.unacked = Empty THEN tx(1) ELSE r.first
           y == [unacked |-> txs, didRetx |-> FALSE]
           w == Put(r.nets, net, y)
           d == [r EXCEPT !.lastTx = last, !.unacked = u, !.first = first, !.nets = w]
<1>1. /\ r \in Reliability /\ WindowInv(r) /\ IndexInv(r) /\ CountInv(r, R)
      /\ ReceivedInv(r, s, A) /\ FragsInv(r, s, n) /\ BudgetInv(r, s, n)
      /\ AckInv(r, K, A) /\ QueueInv(r, Y)
      /\ \A p \in P \cup r.sent : PacketInv(r, p, s, n)
  BY DEF RelInv
<1>2. /\ Len(s) \in Nat /\ c \in Nat /\ 1 <= c /\ net \in Nat /\ net \in 1 .. Len(s)
      /\ \A i \in 1 .. Len(s) : s[i] \in Nat
      /\ n \in 0 .. Len(s) /\ n < Len(s)
  BY LenProperties
<1>3. /\ frags \in [1 .. c -> Fragment] /\ DOMAIN frags = 1 .. c /\ Len(frags) = c
      /\ \A i \in 1 .. c :
            /\ frags[i] \in Fragment
            /\ frags[i].net = net /\ frags[i].index = i - 1 /\ FragOf(frags[i], s, net)
  <2>1. /\ frags \in [1 .. c -> Fragment]
        /\ \A i \in 1 .. c :
              frags[i].net = net /\ frags[i].index = i - 1 /\ FragOf(frags[i], s, net)
    BY DEF FragsOf
  <2>2. frags \in Seq(Fragment)
    <3> DEFINE G == Fragment
    <3>1. c \in Nat /\ frags \in [1 .. c -> G] BY <1>2, <2>1
    <3> HIDE DEF c, G
    <3>2. frags \in Seq(G) BY <3>1
    <3> QED BY <3>2 DEF G
  <2>3. Len(frags) = c
    <3> DEFINE G == Fragment
    <3>1. c \in Nat /\ frags \in [1 .. c -> G] /\ frags \in Seq(G) BY <1>2, <2>1, <2>2
    <3> HIDE DEF c, G
    <3> QED BY <3>1, LenProperties
  <2> QED BY <2>1, <2>3
<1>4. handleOutgoing(r, net, frags) = d BY <1>3 DEF handleOutgoing
<1>5. /\ DOMAIN r.unacked \subseteq TxSequence /\ r.lastTx \in TxSequence
      /\ \A t \in DOMAIN r.unacked : r.unacked[t] \in AnyUnackedFrag
      /\ r.unacked \in Maps(TxSequence, AnyUnackedFrag)
      /\ DOMAIN r.nets \subseteq Nat /\ \A m \in DOMAIN r.nets : r.nets[m] \in AnyNetPkt
      /\ r.first \in TxSequence \cup {NoTx}
  BY <1>1, RelTypes
<1>6. MaxRetx \in Nat /\ SeqSpace \in Nat BY LpReliabilityAssumption
<1> DEFINE T == Total(s, n)
           b == (MaxRetx + 1) * T
           b2 == (MaxRetx + 1) * Total(s, net)
<1>7. T \in Nat /\ Total(s, net) = T + c BY <1>2, TotalDef
<1>8. b \in Nat /\ b2 = b + c * MaxRetx + c /\ b2 < SeqSpace /\ c * MaxRetx \in Nat
  <2> HIDE DEF T, c
  <2>1. b2 = (MaxRetx + 1) * (T + c) BY <1>7
  <2>2. (MaxRetx + 1) * (T + c) = (MaxRetx + 1) * T + c * MaxRetx + c BY <1>2, <1>6, <1>7
  <2> QED BY <1>2, <1>6, <1>7, <2>1, <2>2
<1>9. /\ IsFiniteSet(Spare(r)) /\ Cardinality(Spare(r)) \in Nat
      /\ Pos(r.lastTx) + Cardinality(Spare(r)) <= b
  BY <1>1, FS_CardinalityType DEF BudgetInv
<1>10. Pos(r.lastTx) \in Nat
  <2>1. Pos(r.lastTx) \in TxSequence BY <1>5, PosCases
  <2> QED BY <2>1 DEF TxSequence
<1> HIDE DEF T, b, b2
<1>11. Pos(r.lastTx) + c < SeqSpace
  <2> DEFINE e == c * MaxRetx
  <2>1. e \in Nat /\ b \in Nat /\ b + e + c < SeqSpace BY <1>8
  <2> HIDE DEF e, c
  <2> QED BY <1>2, <1>6, <1>9, <1>10, <2>1
<1> HIDE DEF c
<1>12. \A i \in 0 .. c : tx(i) \in TxSequence /\ Pos(tx(i)) = Pos(r.lastTx) + i
  <2> SUFFICES ASSUME NEW i \in 0 .. c
               PROVE  tx(i) \in TxSequence /\ Pos(tx(i)) = Pos(r.lastTx) + i
    OBVIOUS
  <2>1. i \in Nat /\ Pos(r.lastTx) + i < SeqSpace BY <1>2, <1>6, <1>10, <1>11
  <2> QED BY <1>5, <2>1, PosOfSum DEF NthTx
<1>13. 1 .. c \subseteq 0 .. c /\ c \in 1 .. c /\ 1 \in 1 .. c BY <1>2
<1> HIDE DEF tx
<1>14. /\ txs \subseteq TxSequence /\ last \in txs /\ tx(1) \in txs
       /\ Pos(last) = Pos(r.lastTx) + c
       /\ \A t \in txs : Pos(t) > Pos(r.lastTx) /\ Issued(t, last) /\ Pos(tx(1)) <= Pos(t)
  <2>1. txs \subseteq TxSequence BY <1>12, <1>13
  <2>2. Pos(last) = Pos(r.lastTx) + c BY <1>12, <1>13
  <2>3. ASSUME NEW i \in 1 .. c
        PROVE  Pos(tx(i)) > Pos(r.lastTx) /\ Issued(tx(i), last) /\ Pos(tx(1)) <= Pos(tx(i))
    <3>1. Pos(tx(i)) = Pos(r.lastTx) + i /\ Pos(tx(1)) = Pos(r.lastTx) + 1 BY <1>12, <1>13
    <3> QED BY <2>2, <3>1, <1>2, <1>10 DEF Issued
  <2> QED BY <2>1, <2>2, <2>3, <1>13
<1>15. ASSUME NEW i \in 1 .. c PROVE at(tx(i)) = i
  <2>1. at(tx(i)) \in 1 .. c /\ tx(i) = tx(at(tx(i))) OBVIOUS
  <2> DEFINE j == at(tx(i))
  <2>2. j \in 1 .. c /\ tx(i) = tx(j) BY <2>1
  <2> HIDE DEF j
  <2>3. Pos(tx(i)) = Pos(r.lastTx) + i /\ Pos(tx(j)) = Pos(r.lastTx) + j BY <2>2, <1>12, <1>13
  <2>4. i = j BY <2>2, <2>3, <1>2, <1>10
  <2> QED BY <2>4 DEF j
<1>16. ASSUME NEW t, Issued(t, r.lastTx) PROVE t \notin txs /\ Issued(t, last)
  <2>1. Pos(t) \in 1 .. Pos(r.lastTx) BY <1>16 DEF Issued
  <2>2. t \notin txs BY <2>1, <1>10, <1>14
  <2>3. Pos(t) \in 1 .. Pos(last) BY <2>1, <1>2, <1>10, <1>14
  <2> QED BY <2>2, <2>3 DEF Issued
<1>17. \A t \in DOMAIN r.unacked : t \notin txs /\ Issued(t, last) BY <1>1, <1>16 DEF FragsInv
<1>18. ASSUME NEW i \in 1 .. c
       PROVE  /\ new(tx(i)) \in AnyUnackedFrag /\ new(tx(i)).frag = frags[i]
              /\ new(tx(i)).retx = 0
  <2> DEFINE g == frags[i]
  <2>1. g \in Fragment BY <1>3
  <2>2. new(tx(i)) = [UnackedFrag(g, 0) EXCEPT !.timer = TRUE] BY <1>15
  <2> HIDE DEF g
  <2> DEFINE x == UnackedFrag(g, 0)
             z == new(tx(i))
  <2>3. x \in AnyUnackedFrag /\ x.frag = g /\ x.retx = 0 BY <2>1 DEF UnackedFrag, AnyUnackedFrag
  <2>4. z = [x EXCEPT !.timer = TRUE] BY <2>2
  <2> HIDE DEF x, z
  <2>5. z \in AnyUnackedFrag /\ z.frag = g /\ z.retx = 0 BY <2>3, <2>4 DEF AnyUnackedFrag
  <2> QED BY <2>5 DEF g, z
<1> HIDE DEF new
<1>19. /\ DOMAIN u = DOMAIN r.unacked \cup txs
       /\ \A i \in 1 .. c : u[tx(i)] = new(tx(i))
       /\ \A t \in DOMAIN r.unacked : u[t] = r.unacked[t]
       /\ u \in [DOMAIN r.unacked \cup txs -> AnyUnackedFrag]
  BY <1>5, <1>17, <1>18
<1> HIDE DEF u
<1>20. u \in Maps(TxSequence, AnyUnackedFrag)
  <2> HIDE DEF txs
  <2>1. DOMAIN r.unacked \cup txs \subseteq TxSequence BY <1>5, <1>14
  <2> QED BY <2>1, <1>19, MapIntro
<1>21. net \notin DOMAIN r.nets /\ net \notin CountedNets(r) /\ CountedNets(r) \cup DOMAIN r.nets = R
  BY <1>1 DEF CountInv
<1>22. /\ y \in AnyNetPkt /\ y.unacked = txs BY <1>14 DEF AnyNetPkt
<1> HIDE DEF y
<1>23. /\ DOMAIN w = DOMAIN r.nets \cup {net} /\ w[net] = y
       /\ \A m \in DOMAIN r.nets : w[m] = r.nets[m]
       /\ w \in [DOMAIN r.nets \cup {net} -> AnyNetPkt]
  BY <1>5, <1>21, <1>22 DEF Put
<1> HIDE DEF w
<1>24. w \in Maps(Nat, AnyNetPkt)
  <2>1. DOMAIN r.nets \cup {net} \subseteq Nat BY <1>2, <1>5
  <2> QED BY <2>1, <1>23, MapIntro
<1>25. last \in TxSequence /\ first \in TxSequence \cup {NoTx} BY <1>5, <1>14
<1> HIDE DEF first, last
<1>26. /\ d \in Reliability /\ d.lastTx = last /\ d.unacked = u /\ d.first = first /\ d.nets = w
       /\ d.resolved = r.resolved /\ SameQueue(d, r)
  BY <1>1, <1>20, <1>24, <1>25 DEF Reliability, SameQueue
<1> HIDE DEF d
<1>27. ASSUME NEW t \in DOMAIN d.unacked, t \notin DOMAIN r.unacked
       PROVE  \E i \in 1 .. c : t = tx(i)
  BY <1>19, <1>26, <1>27
<1> HIDE DEF at
<1>28. WindowInv(d)
  <2>1. d.unacked # Empty
    <3>1. tx(1) \in DOMAIN d.unacked BY <1>14, <1>19, <1>26
    <3> QED BY <3>1 DEF Empty
  <2>2. CASE r.unacked = Empty
    <3>1. first = tx(1) /\ DOMAIN r.unacked = {} BY <2>2, <1>5, EmptyMap DEF first
    <3>2. DOMAIN d.unacked = txs BY <3>1, <1>19, <1>26
    <3>3. d.first # NoTx BY <3>1, <1>14, <1>26 DEF NoTx, TxSequence
    <3> QED BY <2>1, <3>1, <3>2, <3>3, <1>14, <1>26 DEF WindowInv
  <2>3. CASE r.unacked # Empty
    <3>1. first = r.first /\ DOMAIN r.unacked # {} BY <2>3, <1>5, EmptyMap DEF first
    <3>2. r.first \in DOMAIN r.unacked /\ \A t \in DOMAIN r.unacked : Pos(r.first) <= Pos(t)
      BY <3>1, <1>1 DEF WindowInv
    <3>3. Pos(r.first) \in 1 .. Pos(r.lastTx) BY <3>2, <1>1 DEF FragsInv, Issued
    <3>4. \A t \in txs : Pos(r.first) <= Pos(t)
      <4> SUFFICES ASSUME NEW i \in 1 .. c PROVE Pos(r.first) <= Pos(tx(i)) OBVIOUS
      <4>1. Pos(tx(i)) = Pos(r.lastTx) + i BY <1>12, <1>13
      <4> QED BY <3>3, <4>1, <1>2, <1>10
    <3>5. r.first # NoTx BY <3>2, <1>5 DEF NoTx, TxSequence
    <3> QED BY <2>1, <3>1, <3>2, <3>4, <3>5, <1>19, <1>26 DEF WindowInv
  <2> QED BY <2>2, <2>3
<1>29. \A i \in 1 .. c : d.unacked[tx(i)].frag = frags[i] /\ d.unacked[tx(i)].retx = 0
  BY <1>18, <1>19, <1>26
<1>30. \A t \in DOMAIN r.unacked : t \in DOMAIN d.unacked /\ d.unacked[t] = r.unacked[t]
  BY <1>19, <1>26
<1>31. \A t \in DOMAIN r.unacked : r.unacked[t].frag.net \in DOMAIN r.nets /\ r.unacked[t].frag.net # net
  BY <1>1, <1>21 DEF IndexInv
<1>32. IndexInv(d)
  <2>1. ASSUME NEW t \in DOMAIN d.unacked PROVE d.unacked[t].frag.net \in DOMAIN d.nets
    <3>1. CASE t \in DOMAIN r.unacked BY <3>1, <1>23, <1>26, <1>30, <1>31
    <3>2. CASE t \notin DOMAIN r.unacked
      <4>1. PICK i \in 1 .. c : t = tx(i) BY <3>2, <1>27
      <4> QED BY <4>1, <1>3, <1>23, <1>26, <1>29
    <3> QED BY <3>1, <3>2
  <2>2. ASSUME NEW m \in DOMAIN d.nets
        PROVE  /\ d.nets[m].unacked # {}
               /\ d.nets[m].unacked = {t \in DOMAIN d.unacked : d.unacked[t].frag.net = m}
    <3>1. CASE m = net
      <4>1. d.nets[m].unacked = txs BY <3>1, <1>22, <1>23, <1>26
      <4>2. ASSUME NEW t \in txs PROVE t \in DOMAIN d.unacked /\ d.unacked[t].frag.net = net
        <5>1. PICK i \in 1 .. c : t = tx(i) OBVIOUS
        <5> QED BY <5>1, <1>3, <1>19, <1>26, <1>29
      <4>3. ASSUME NEW t \in DOMAIN d.unacked, d.unacked[t].frag.net = net PROVE t \in txs
        <5>1. t \notin DOMAIN r.unacked BY <4>3, <1>30, <1>31
        <5> QED BY <5>1, <1>27
      <4> QED BY <3>1, <4>1, <4>2, <4>3, <1>14
    <3>2. CASE m # net
      <4>1. m \in DOMAIN r.nets /\ d.nets[m] = r.nets[m] BY <3>2, <1>23, <1>26
      <4>2. /\ r.nets[m].unacked # {}
            /\ r.nets[m].unacked = {t \in DOMAIN r.unacked : r.unacked[t].frag.net = m}
        BY <4>1, <1>1 DEF IndexInv
      <4>3. ASSUME NEW t \in DOMAIN d.unacked, d.unacked[t].frag.net = m PROVE t \in DOMAIN r.unacked
        <5> SUFFICES ASSUME t \notin DOMAIN r.unacked PROVE FALSE OBVIOUS
        <5>1. PICK i \in 1 .. c : t = tx(i) BY <1>27
        <5> QED BY <5>1, <4>3, <3>2, <1>3, <1>29
      <4> HIDE DEF txs
      <4> QED BY <4>1, <4>2, <4>3, <1>30
    <3> QED BY <3>1, <3>2
  <2> QED BY <2>1, <2>2 DEF IndexInv
<1>33. FragsInv(d, s, net)
  <2>1. ASSUME NEW t \in DOMAIN d.unacked
        PROVE  FragOf(d.unacked[t].frag, s, net) /\ d.unacked[t].retx <= MaxRetx /\ Issued(t, d.lastTx)
    <3>1. CASE t \in DOMAIN r.unacked
      <4>1. FragOf(r.unacked[t].frag, s, n) /\ r.unacked[t].retx <= MaxRetx
        BY <3>1, <1>1 DEF FragsInv
      <4>2. FragOf(r.unacked[t].frag, s, net) BY <4>1 DEF FragOf
      <4> QED BY <3>1, <4>1, <4>2, <1>17, <1>26, <1>30
    <3>2. CASE t \notin DOMAIN r.unacked
      <4>1. PICK i \in 1 .. c : t = tx(i) BY <3>2, <1>27
      <4>2. Issued(tx(i), last) BY <1>14
      <4> QED BY <4>1, <4>2, <1>3, <1>6, <1>26, <1>29
    <3> QED BY <3>1, <3>2
  <2>2. ASSUME NEW t \in DOMAIN d.unacked, NEW v \in DOMAIN d.unacked,
               KeyOf(d.unacked[t].frag) = KeyOf(d.unacked[v].frag)
        PROVE  t = v
    <3>0. d.unacked[t].frag.net = d.unacked[v].frag.net /\ d.unacked[t].frag.index = d.unacked[v].frag.index
      BY <2>2 DEF KeyOf
    <3>1. CASE t \in DOMAIN r.unacked /\ v \in DOMAIN r.unacked
      BY <2>2, <3>1, <1>1, <1>30 DEF FragsInv
    <3>2. CASE t \notin DOMAIN r.unacked /\ v \notin DOMAIN r.unacked
      <4>1. PICK i \in 1 .. c : t = tx(i) BY <3>2, <1>27
      <4>2. PICK j \in 1 .. c : v = tx(j) BY <3>2, <1>27
      <4>3. i - 1 = j - 1 BY <3>0, <4>1, <4>2, <1>3, <1>29
      <4>4. i = j BY <4>3, <1>2
      <4> QED BY <4>1, <4>2, <4>4
    <3>3. CASE t \in DOMAIN r.unacked /\ v \notin DOMAIN r.unacked
      <4>1. PICK j \in 1 .. c : v = tx(j) BY <3>3, <1>27
      <4> QED BY <3>0, <3>3, <4>1, <1>3, <1>29, <1>30, <1>31
    <3>4. CASE t \notin DOMAIN r.unacked /\ v \in DOMAIN r.unacked
      <4>1. PICK j \in 1 .. c : t = tx(j) BY <3>4, <1>27
      <4> QED BY <3>0, <3>4, <4>1, <1>3, <1>29, <1>30, <1>31
    <3> QED BY <3>1, <3>2, <3>3, <3>4
  <2> QED BY <2>1, <2>2 DEF FragsInv
<1>34. BudgetInv(d, s, net)
  <2> DEFINE Q == Tokens(net, c, MaxRetx)
  <2>1. IsFiniteSet(Q) /\ Cardinality(Q) <= c * MaxRetx /\ Cardinality(Q) \in Nat
    BY <1>2, <1>6, NewSpare
  <2>2. Spare(d) \subseteq Spare(r) \cup Q
    <3> SUFFICES ASSUME NEW x \in Spare(d) PROVE x \in Spare(r) \cup Q OBVIOUS
    <3>1. PICK t \in DOMAIN d.unacked : \E k \in d.unacked[t].retx + 1 .. MaxRetx :
              x = <<d.unacked[t].frag.net, d.unacked[t].frag.index, k>>
      BY SpareDef
    <3>2. PICK k \in d.unacked[t].retx + 1 .. MaxRetx :
              x = <<d.unacked[t].frag.net, d.unacked[t].frag.index, k>>
      BY <3>1
    <3>3. CASE t \in DOMAIN r.unacked
      <4>1. k \in r.unacked[t].retx + 1 .. MaxRetx
            /\ x = <<r.unacked[t].frag.net, r.unacked[t].frag.index, k>>
        BY <3>2, <3>3, <1>30
      <4>2. x \in Spare(r) BY <3>3, <4>1, SpareDef
      <4> QED BY <4>2
    <3>4. CASE t \notin DOMAIN r.unacked
      <4>1. PICK i \in 1 .. c : t = tx(i) BY <3>4, <1>27
      <4>2. k \in 1 .. MaxRetx /\ x = <<net, i - 1, k>>
        BY <3>2, <4>1, <1>3, <1>29
      <4>3. i - 1 \in 0 .. c - 1 BY <1>2
      <4> DEFINE pair == <<i - 1, k>>
      <4>4. pair \in (0 .. c - 1) \X (1 .. MaxRetx) BY <4>2, <4>3
      <4>5. x = <<net, pair[1], pair[2]>> BY <4>2
      <4> HIDE DEF pair
      <4> QED BY <4>4, <4>5 DEF Tokens
    <3> QED BY <3>3, <3>4
  <2> HIDE DEF Q
  <2> DEFINE S == Spare(r) \cup Q
  <2>3. IsFiniteSet(S) /\ Cardinality(S) <= Cardinality(Spare(r)) + Cardinality(Q) /\ Cardinality(S) \in Nat
    <3>1. /\ IsFiniteSet(S)
          /\ Cardinality(S) = Cardinality(Spare(r)) + Cardinality(Q) - Cardinality(Spare(r) \cap Q)
      BY <2>1, <1>9, FS_Union
    <3>2. IsFiniteSet(Spare(r) \cap Q) BY <1>9, FS_Subset
    <3>3. Cardinality(Spare(r) \cap Q) \in Nat /\ Cardinality(S) \in Nat
      BY <3>1, <3>2, FS_CardinalityType
    <3> QED BY <2>1, <3>1, <3>3, <1>9
  <2> HIDE DEF S
  <2>4. IsFiniteSet(Spare(d)) /\ Cardinality(Spare(d)) <= Cardinality(S)
    BY <2>2, <2>3, FS_Subset DEF S
  <2>5. Cardinality(Spare(d)) \in Nat BY <2>4, FS_CardinalityType
  <2>6. Pos(d.lastTx) = Pos(r.lastTx) + c BY <1>14, <1>26
  <2>7. Pos(d.lastTx) + Cardinality(Spare(d)) <= b2
    <3> DEFINE e == c * MaxRetx
    <3>1. /\ e \in Nat /\ b \in Nat /\ b2 = b + e + c
          /\ Cardinality(Q) <= e /\ Cardinality(Q) \in Nat
      BY <1>8, <2>1
    <3> HIDE DEF e
    <3> QED BY <3>1, <2>3, <2>4, <2>5, <2>6, <1>2, <1>9, <1>10
  <2> QED BY <2>4, <2>7 DEF BudgetInv, b2
<1>35. CountInv(d, R \cup {net})
  <2>1. CountedNets(d) = CountedNets(r) BY <1>26 DEF CountedNets
  <2> QED BY <2>1, <1>1, <1>21, <1>23, <1>26 DEF CountInv
<1>36. ReceivedInv(d, s, A)
  <2>1. ASSUME NEW m \in DOMAIN d.nets, NEW i \in 0 .. s[m] - 1, <<m, i>> \notin A
        PROVE  \E t \in d.nets[m].unacked : d.unacked[t].frag.index = i
    <3>1. CASE m = net
      <4>1. i + 1 \in 1 .. c /\ (i + 1) - 1 = i BY <3>1, <1>2 DEF c
      <4>2. tx(i + 1) \in txs BY <4>1
      <4>3. d.unacked[tx(i + 1)].frag.index = i BY <4>1, <1>3, <1>29
      <4> QED BY <3>1, <4>2, <4>3, <1>22, <1>23, <1>26
    <3>2. CASE m # net
      <4>1. m \in DOMAIN r.nets /\ d.nets[m] = r.nets[m] BY <3>2, <1>23, <1>26
      <4>2. PICK t \in r.nets[m].unacked : r.unacked[t].frag.index = i
        BY <2>1, <4>1, <1>1 DEF ReceivedInv
      <4>3. t \in DOMAIN r.unacked BY <4>1, <4>2, <1>1 DEF IndexInv
      <4> QED BY <4>1, <4>2, <4>3, <1>30
    <3> QED BY <3>1, <3>2
  <2> QED BY <2>1, <1>1, <1>26 DEF ReceivedInv
<1>37. AckInv(d, K, A)
  <2> SUFFICES ASSUME NEW t \in K
               PROVE  /\ Issued(t, d.lastTx)
                      /\ t \in DOMAIN d.unacked => KeyOf(d.unacked[t].frag) \in A
    BY DEF AckInv
  <2>1. Issued(t, r.lastTx) /\ (t \in DOMAIN r.unacked => KeyOf(r.unacked[t].frag) \in A)
    BY <1>1 DEF AckInv
  <2>2. t \notin txs /\ Issued(t, last) BY <2>1, <1>16
  <2> HIDE DEF txs
  <2> QED BY <2>1, <2>2, <1>19, <1>26, <1>30
<1>38. \A p \in P \cup d.sent : PacketInv(d, p, s, net)
  <2> SUFFICES ASSUME NEW p \in P \cup d.sent PROVE PacketInv(d, p, s, net) OBVIOUS
  <2>1. PacketInv(r, p, s, n) BY <1>1, <1>26 DEF SameQueue
  <2>2. FragOf(p.frag, s, n) => FragOf(p.frag, s, net) BY DEF FragOf
  <2>3. ASSUME Issued(p.tx, r.lastTx) PROVE p.tx \notin txs /\ Issued(p.tx, d.lastTx)
    BY <2>3, <1>16, <1>26
  <2>4. p.tx \notin txs /\ p.tx \in DOMAIN d.unacked =>
            p.tx \in DOMAIN r.unacked /\ d.unacked[p.tx] = r.unacked[p.tx]
    BY <1>19, <1>26, <1>30
  <2> HIDE DEF txs
  <2> QED BY <2>1, <2>2, <2>3, <2>4 DEF PacketInv, CarriesInv
<1>39. QueueInv(d, Y) BY <1>1, <1>26 DEF QueueInv, SameQueue
<1>40. RelInv(d, s, net, R \cup {net}, A, K, P, Y)
  BY <1>26, <1>28, <1>32, <1>33, <1>34, <1>35, <1>36, <1>37, <1>38, <1>39 DEF RelInv
<1>41. Stored(d, r, frags, c)
  <2>1. d.lastTx = NthTx(r, c) BY <1>26 DEF last, tx
  <2>2. \A i \in 1 .. c : tx(i) \in DOMAIN d.unacked /\ Issued(tx(i), d.lastTx)
    BY <1>14, <1>19, <1>26
  <2> QED BY <2>1, <2>2, <1>29 DEF Stored, tx
<1> QED BY <1>4, <1>40, <1>41 DEF c

LEMMA FragmentsGood ==
    ASSUME NEW s \in Seq(Nat), NEW net \in 1 .. Len(s), s[net] <= NMaxFragments, NEW seq,
           seq = (FirstSeq + SeqUsed(s, net - 1)) % SeqSpace
    PROVE  FragsOf(Fragments(net, s[net], seq), s, net)
<1> DEFINE c == s[net]
           frags == Fragments(net, c, seq)
           number(i) == IF c = 1 THEN NoTx ELSE (seq + i) % SeqSpace
           a == FirstSeq + SeqUsed(s, net - 1)
<1>1. Len(s) \in Nat /\ c \in Nat /\ net \in Nat /\ net - 1 \in 0 .. Len(s) BY LenProperties
<1>2. a \in Nat
  <2>1. SeqUsed(s, net - 1) \in Nat BY <1>1, SeqUsedLimit
  <2> QED BY <2>1, GenericLinkServiceAssumption DEF TxSequence
<1>3. seq \in Int
  <2>1. a \in Int /\ seq = a % SeqSpace BY <1>2
  <2> HIDE DEF a
  <2>2. seq \in TxSequence BY <2>1, RemainderType
  <2> QED BY <2>2 DEF TxSequence
<1>4. \A i \in 1 .. c : number(i) \in Int
  <2> SUFFICES ASSUME NEW i \in 1 .. c PROVE number(i) \in Int OBVIOUS
  <2> DEFINE x == seq + i
  <2>1. x \in Int BY <1>1, <1>3
  <2>2. number(i) = IF c = 1 THEN NoTx ELSE x % SeqSpace OBVIOUS
  <2> HIDE DEF x
  <2>3. x % SeqSpace \in Int
    <3>1. x % SeqSpace \in TxSequence BY <2>1, RemainderType
    <3> QED BY <3>1 DEF TxSequence
  <2> QED BY <2>2, <2>3 DEF NoTx
<1>5. frags = [i \in 1 .. c |-> [net |-> net, index |-> i - 1, count |-> c, seq |-> number(i)]]
  BY DEF Fragments
<1>6. FirstId(s, net) = (a + 1) % SeqSpace BY DEF FirstId
<1>7. ASSUME NEW i \in 1 .. c
      PROVE  c # 1 => (number(i) - (i - 1)) % SeqSpace = FirstId(s, net)
  <2>1. ((((a % SeqSpace) + i) % SeqSpace) - (i - 1)) % SeqSpace = (a + 1) % SeqSpace
    <3> HIDE DEF a
    <3>1. i \in Nat BY <1>1
    <3> QED BY <3>1, <1>2, IdentifierOfFragment
  <2>2. seq = a % SeqSpace OBVIOUS
  <2> HIDE DEF a
  <2> QED BY <1>6, <2>1, <2>2
<1> HIDE DEF number, a
<1>8. ASSUME NEW i \in 1 .. c
      PROVE  /\ frags[i] \in Fragment /\ frags[i].net = net /\ frags[i].index = i - 1
             /\ frags[i].count = c /\ frags[i].seq = number(i)
  <2>1. i - 1 \in Nat BY <1>1
  <2> QED BY <2>1, <1>1, <1>4, <1>5 DEF Fragment
<1>9. frags \in [1 .. c -> Fragment] /\ DOMAIN frags = 1 .. c
  <2>1. DOMAIN frags = 1 .. c /\ frags = [i \in 1 .. c |-> frags[i]] BY <1>5
  <2> HIDE DEF frags
  <2> QED BY <2>1, <1>8
<1> HIDE DEF frags
<1>10. ASSUME NEW i \in 1 .. c PROVE FragOf(frags[i], s, net)
  <2>1. frags[i].net \in 1 .. net /\ frags[i].index \in 0 .. frags[i].count - 1
    BY <1>1, <1>8
  <2>2. frags[i].count = s[frags[i].net] /\ frags[i].count <= NMaxFragments BY <1>8
  <2>3. frags[i].count # 1 => MessageIdentifier(frags[i]) = FirstId(s, frags[i].net)
    BY <1>7, <1>8 DEF MessageIdentifier
  <2> QED BY <2>1, <2>2, <2>3 DEF FragOf
<1> QED BY <1>8, <1>9, <1>10 DEF FragsOf, frags

\* The TxSequence that sendNetPacket gives to its i-th fragment.
TxOf(r, i) == IF r.enabled THEN NthTx(r, i) ELSE NoTx

\* b with c fragments sent, r the state before they were stored.
AllSent(b, r, frags, c) ==
    LET after[i \in 0 .. c] ==
            IF i = 0 THEN b ELSE sendLpPacket(after[i - 1], TxOf(r, i), frags[i])
    IN  after[c]

LEMMA SendsKeep ==
    ASSUME NEW b, NEW r, NEW s \in Seq(Nat), NEW n, NEW R, NEW A, NEW K, NEW P, NEW Y,
           Total(s, n) \in Nat, RelInv(b, s, n, R, A, K, P, Y), NEW frags, NEW c \in Nat,
           \A i \in 1 .. c : /\ TxOf(r, i) \in TxSequence \cup {NoTx} /\ frags[i] \in Fragment
                             /\ CarriesInv(b, TxOf(r, i), frags[i], s, n)
    PROVE  RelInv(AllSent(b, r, frags, c), s, n, R, A, K, P, Y)
<1> DEFINE S == {x \in Reliability : /\ RelInv(x, s, n, R, A, K, P, Y)
                                     /\ x.unacked = b.unacked /\ x.lastTx = b.lastTx}
           G(x, i) == sendLpPacket(x, TxOf(r, i), frags[i])
           F == [i \in 1 .. c |-> [x \in S |-> G(x, i)]]
           L == CHOOSE f : f = [i \in 0 .. c |->
                    IF i = 0 THEN b ELSE sendLpPacket(f[i - 1], TxOf(r, i), frags[i])]
<1>1. AllSent(b, r, frags, c) = L[c] BY DEF AllSent
<1>2. b \in S BY DEF RelInv
<1>3. ASSUME NEW x \in S, NEW i \in 1 .. c PROVE G(x, i) \in S
  <2> DEFINE t == TxOf(r, i)
             g == frags[i]
  <2>1. t \in TxSequence \cup {NoTx} /\ g \in Fragment /\ CarriesInv(b, t, g, s, n) OBVIOUS
  <2>2. CarriesInv(x, t, g, s, n)
    <3> HIDE DEF t, g
    <3> QED BY <2>1 DEF CarriesInv
  <2>3. G(x, i) = sendLpPacket(x, t, g) OBVIOUS
  <2>4. /\ RelInv(x, s, n, R, A, K, P, Y)
        /\ x.unacked = b.unacked /\ x.lastTx = b.lastTx
    OBVIOUS
  <2> HIDE DEF t, g, G, S
  <2>5. LET d == sendLpPacket(x, t, g)
        IN  /\ RelInv(d, s, n, R, A, K, P, Y)
            /\ d.unacked = x.unacked /\ d.lastTx = x.lastTx
    BY <2>1, <2>2, <2>4, SendKeeps
  <2> QED BY <2>3, <2>4, <2>5 DEF RelInv, S
<1>4. L = [i \in 0 .. c |-> IF i = 0 THEN b ELSE G(L[i - 1], i)]
  <2> HIDE DEF S
  <2>1. F \in [1 .. c -> [S -> S]]
    <3> HIDE DEF G
    <3> QED BY <1>3
  <2>2. PICK f : IsRun(f, S, b, c, F)
    <3> HIDE DEF F
    <3> QED BY <1>2, <2>1, LoopRuns
  <2>3. /\ f \in [0 .. c -> S] /\ f[0] = b /\ \A i \in 1 .. c : f[i] = F[i][f[i - 1]]
    BY <2>2 DEF IsRun
  <2>4. ASSUME NEW i \in 1 .. c PROVE f[i] = G(f[i - 1], i)
    <3> HIDE DEF G
    <3>1. i - 1 \in 0 .. c OBVIOUS
    <3>2. f[i - 1] \in S BY <2>3, <3>1
    <3> QED BY <2>3, <3>2
  <2>5. \A i \in 0 .. c : i # 0 => i \in 1 .. c OBVIOUS
  <2>6. f = [i \in 0 .. c |-> IF i = 0 THEN b ELSE G(f[i - 1], i)]
    <3> HIDE DEF G, F
    <3> QED BY <2>3, <2>4, <2>5
  <2>7. L = [i \in 0 .. c |->
                    IF i = 0 THEN b ELSE sendLpPacket(L[i - 1], TxOf(r, i), frags[i])]
    BY <2>6
  <2> HIDE DEF L
  <2> QED BY <2>7
<1> HIDE DEF L, S, G
<1>5. L[0] = b /\ \A i \in 1 .. c : L[i] = G(L[i - 1], i) BY <1>4
<1>6. L[c] \in S
  <2>1. \A i \in 1 .. c : L[i - 1] \in S => L[i] \in S BY <1>3, <1>5
  <2>2. L[0] \in S BY <1>2, <1>5
  <2> QED BY <2>1, <2>2, LoopKeeps
<1> QED BY <1>1, <1>6 DEF S

\* One more packet, that is not sent reliably.
LEMMA MoreKeeps ==
    ASSUME NEW r, NEW s \in Seq(Nat), NEW n \in Nat, NEW R, NEW A, NEW K, NEW P, NEW Y,
           n + 1 <= Len(s), RelInv(r, s, n, R, A, K, P, Y)
    PROVE  RelInv(r, s, n + 1, R, A, K, P, Y)
<1>1. FragsInv(r, s, n + 1)
  <2>1. \A tx \in DOMAIN r.unacked : FragOf(r.unacked[tx].frag, s, n) BY DEF RelInv, FragsInv
  <2>2. \A tx \in DOMAIN r.unacked : FragOf(r.unacked[tx].frag, s, n + 1) BY <2>1 DEF FragOf
  <2> QED BY <2>2 DEF RelInv, FragsInv
<1>2. \A p \in P \cup r.sent : PacketInv(r, p, s, n + 1)
  <2> SUFFICES ASSUME NEW p \in P \cup r.sent PROVE PacketInv(r, p, s, n + 1) OBVIOUS
  <2>1. PacketInv(r, p, s, n) BY DEF RelInv
  <2>2. FragOf(p.frag, s, n) => FragOf(p.frag, s, n + 1) BY DEF FragOf
  <2> QED BY <2>1, <2>2 DEF PacketInv, CarriesInv
<1>3. BudgetInv(r, s, n + 1)
  <2>1. Len(s) \in Nat /\ s[n + 1] \in Nat
    <3>1. Len(s) \in Nat /\ \A i \in 1 .. Len(s) : s[i] \in Nat BY LenProperties
    <3> QED BY <3>1
  <2>2. Total(s, n) \in Nat /\ Total(s, n + 1) = Total(s, n) + s[n + 1] BY <2>1, TotalDef
  <2> DEFINE T == Total(s, n)
             T2 == Total(s, n + 1)
  <2>3. MaxRetx \in Nat BY LpReliabilityAssumption
  <2>4. T \in Nat /\ T2 \in Nat /\ T <= T2 BY <2>1, <2>2
  <2> HIDE DEF T, T2
  <2>5. (MaxRetx + 1) * T <= (MaxRetx + 1) * T2 /\ (MaxRetx + 1) * T \in Nat /\ (MaxRetx + 1) * T2 \in Nat
    <3> DEFINE k == MaxRetx + 1
    <3>1. k \in Nat BY <2>3
    <3> HIDE DEF k
    <3>2. k * T <= k * T2 /\ k * T \in Nat /\ k * T2 \in Nat BY <3>1, <2>4
    <3> QED BY <3>2 DEF k
  <2>6. IsFiniteSet(Spare(r)) /\ Pos(r.lastTx) + Cardinality(Spare(r)) <= (MaxRetx + 1) * T
    BY DEF RelInv, BudgetInv, T
  <2>7. Cardinality(Spare(r)) \in Nat /\ Pos(r.lastTx) \in Nat
    <3>1. r \in Reliability BY DEF RelInv
    <3>2. Pos(r.lastTx) \in TxSequence BY <3>1, RelTypes, PosCases
    <3> QED BY <3>2, <2>6, FS_CardinalityType DEF TxSequence
  <2> DEFINE b == (MaxRetx + 1) * T
             b2 == (MaxRetx + 1) * T2
  <2>8. b <= b2 /\ b \in Nat /\ b2 \in Nat /\ Pos(r.lastTx) + Cardinality(Spare(r)) <= b
    BY <2>5, <2>6
  <2> HIDE DEF b, b2
  <2>9. Pos(r.lastTx) + Cardinality(Spare(r)) <= b2 BY <2>7, <2>8
  <2> QED BY <2>6, <2>9 DEF BudgetInv, b2, T2
<1> QED BY <1>1, <1>2, <1>3 DEF RelInv

\* A packet is fragmented, stored if reliability is on, and sent.
LEMMA SendNetKeeps ==
    ASSUME NEW r, NEW s \in Seq(Nat), NEW n \in Nat, NEW R, NEW A, NEW K, NEW P, NEW Y,
           n + 1 <= Len(s), 1 <= s[n + 1], (MaxRetx + 1) * Total(s, n + 1) < SeqSpace,
           R \subseteq 1 .. n, RelInv(r, s, n, R, A, K, P, Y),
           NEW net, net = n + 1, NEW frags, FragsOf(frags, s, net)
    PROVE  LET b == IF r.enabled THEN handleOutgoing(r, net, frags) ELSE r
               R2 == IF r.enabled THEN R \cup {net} ELSE R
           IN  RelInv(AllSent(b, r, frags, s[net]), s, net, R2, A, K, P, Y)
<1> DEFINE b == IF r.enabled THEN handleOutgoing(r, net, frags) ELSE r
           R2 == IF r.enabled THEN R \cup {net} ELSE R
           c == s[net]
<1> SUFFICES RelInv(AllSent(b, r, frags, c), s, net, R2, A, K, P, Y) OBVIOUS
<1>1. c \in Nat /\ Total(s, net) \in Nat /\ r.enabled \in BOOLEAN
  <2>1. Len(s) \in Nat /\ \A i \in 1 .. Len(s) : s[i] \in Nat BY LenProperties
  <2>2. r \in Reliability BY DEF RelInv
  <2> QED BY <2>1, <2>2, TotalDef, RelTypes
<1>2. \A i \in 1 .. c : frags[i] \in Fragment /\ FragOf(frags[i], s, net) BY DEF FragsOf
<1>3. CASE r.enabled
  <2> DEFINE h == handleOutgoing(r, net, frags)
             R3 == R \cup {net}
  <2>1. RelInv(h, s, net, R3, A, K, P, Y) /\ Stored(h, r, frags, c) BY HandleOutgoingKeeps
  <2>2. b = h /\ R2 = R3 BY <1>3
  <2> HIDE DEF h, c, R3
  <2>3. h \in Reliability /\ DOMAIN h.unacked \subseteq TxSequence BY <2>1, RelTypes DEF RelInv
  <2>4. ASSUME NEW i \in 1 .. c
        PROVE  /\ TxOf(r, i) \in TxSequence \cup {NoTx} /\ frags[i] \in Fragment
               /\ CarriesInv(h, TxOf(r, i), frags[i], s, net)
    <3>1. /\ NthTx(r, i) \in DOMAIN h.unacked /\ h.unacked[NthTx(r, i)].frag = frags[i]
          /\ Issued(NthTx(r, i), h.lastTx)
      BY <2>1 DEF Stored
    <3>2. TxOf(r, i) = NthTx(r, i) BY <1>3 DEF TxOf
    <3> QED BY <3>1, <3>2, <2>3, <1>2 DEF CarriesInv
  <2>5. RelInv(AllSent(h, r, frags, c), s, net, R3, A, K, P, Y)
    BY <1>1, <2>1, <2>4, SendsKeep
  <2> QED BY <2>2, <2>5
<1>4. CASE ~r.enabled
  <2>1. RelInv(r, s, net, R, A, K, P, Y) BY MoreKeeps
  <2>2. b = r /\ R2 = R BY <1>4
  <2> HIDE DEF c
  <2>3. ASSUME NEW i \in 1 .. c
        PROVE  /\ TxOf(r, i) \in TxSequence \cup {NoTx} /\ frags[i] \in Fragment
               /\ CarriesInv(r, TxOf(r, i), frags[i], s, net)
    <3>1. TxOf(r, i) = NoTx BY <1>4 DEF TxOf
    <3> QED BY <3>1, <1>2 DEF CarriesInv
  <2>4. RelInv(AllSent(r, r, frags, c), s, net, R, A, K, P, Y)
    BY <1>1, <2>1, <2>3, SendsKeep
  <2> QED BY <2>2, <2>4
<1> QED BY <1>1, <1>3, <1>4
-----------------------------------------------------------------------------
(* Reassembly *)

\* q holds different fragments of the packet net.
Pieces(q, net, s, A) ==
    /\ q.count = s[net]
    /\ DOMAIN q.frags \subseteq 0 .. s[net] - 1
    /\ \A i \in DOMAIN q.frags : q.frags[i] = net /\ <<net, i>> \in A
    /\ q.received = Cardinality(DOMAIN q.frags)

LEMMA PiecesPartial ==
    ASSUME NEW q, NEW id, NEW s, NEW n, NEW A
    PROVE  PartialInv(q, id, s, n, A) <=>
              \E net \in 1 .. n : /\ s[net] # 1 /\ s[net] <= NMaxFragments
                                  /\ id = FirstId(s, net)
                                  /\ Pieces(q, net, s, A)
BY DEF PartialInv, Pieces

\* More packets are sent, and more fragments arrive.
LEMMA PartialsMore ==
    ASSUME NEW m, NEW s, NEW n \in Nat, NEW A, PartialsInv(m, s, n, A), NEW n2 \in Nat, n <= n2,
           NEW A2, A \subseteq A2
    PROVE  PartialsInv(m, s, n2, A2)
<1>1. ASSUME NEW id \in DOMAIN m PROVE PartialInv(m[id], id, s, n2, A2)
  <2>1. PICK net \in 1 .. n : /\ s[net] # 1 /\ s[net] <= NMaxFragments
                              /\ id = FirstId(s, net) /\ Pieces(m[id], net, s, A)
    BY PiecesPartial DEF PartialsInv
  <2>2. Pieces(m[id], net, s, A2) BY <2>1 DEF Pieces
  <2>3. net \in 1 .. n2 OBVIOUS
  <2> QED BY <2>1, <2>2, <2>3, PiecesPartial
<1> QED BY <1>1 DEF PartialsInv

LEMMA DropPartial ==
    ASSUME NEW m, NEW s, NEW n, NEW A, PartialsInv(m, s, n, A), NEW id
    PROVE  PartialsInv(Drop(m, id), s, n, A)
<1>1. DOMAIN m \subseteq TxSequence /\ \A x \in DOMAIN m : m[x] \in AnyPartial
  BY MapType DEF PartialsInv
<1> DEFINE D == DOMAIN m \ {id}
           d == Drop(m, id)
<1>2. d \in [D -> AnyPartial] /\ DOMAIN d = D /\ \A x \in D : d[x] = m[x] BY <1>1 DEF Drop
<1>3. d \in Maps(TxSequence, AnyPartial)
  <2>1. D \subseteq TxSequence BY <1>1
  <2> HIDE DEF d, D
  <2> QED BY <1>2, <2>1, MapIntro
<1> HIDE DEF d
<1>4. \A x \in DOMAIN d : PartialInv(d[x], x, s, n, A) BY <1>2 DEF PartialsInv
<1> QED BY <1>3, <1>4 DEF PartialsInv, d

\* The partial packet that a fragment belongs to holds fragments of the same packet.
LEMMA SamePacket ==
    ASSUME NEW s \in Seq(Nat), Total(s, Len(s)) < SeqSpace, \A i \in 1 .. Len(s) : 1 <= s[i],
           NEW n \in 0 .. Len(s), NEW A, NEW m, PartialsInv(m, s, n, A),
           NEW g \in Fragment, FragOf(g, s, n), g.count # 1
    PROVE  PartialPacket(m, g) \in AnyPartial /\ Pieces(PartialPacket(m, g), g.net, s, A)
<1> DEFINE q == PartialPacket(m, g)
           id == MessageIdentifier(g)
           net == g.net
<1>1. /\ net \in 1 .. n /\ g.count = s[net] /\ g.count <= NMaxFragments
      /\ id = FirstId(s, net) /\ net \in 1 .. Len(s) /\ s[net] \in Nat /\ 1 < s[net]
  <2>1. Len(s) \in Nat /\ \A i \in 1 .. Len(s) : s[i] \in Nat BY LenProperties
  <2>2. net \in 1 .. n /\ g.count = s[net] /\ g.count <= NMaxFragments /\ id = FirstId(s, net)
    BY DEF FragOf
  <2>3. net \in 1 .. Len(s) BY <2>1, <2>2
  <2>4. 1 <= s[net] /\ s[net] # 1 /\ s[net] \in Nat BY <2>1, <2>2, <2>3
  <2>5. 1 < s[net] BY <2>4
  <2> QED BY <2>2, <2>3, <2>4, <2>5
<1> HIDE DEF net, id
<1>2. CASE id \in DOMAIN m
  <2>1. q = m[id] BY <1>2 DEF PartialPacket, id
  <2>2. q \in AnyPartial /\ PartialInv(q, id, s, n, A) BY <1>2, <2>1, MapType DEF PartialsInv
  <2> HIDE DEF q
  <2>3. PICK other \in 1 .. n : /\ s[other] # 1 /\ s[other] <= NMaxFragments
                                /\ id = FirstId(s, other) /\ Pieces(q, other, s, A)
    BY <2>2, PiecesPartial
  <2>4. other \in 1 .. Len(s) /\ s[other] \in Nat /\ 1 < s[other]
    <3>1. Len(s) \in Nat /\ \A i \in 1 .. Len(s) : s[i] \in Nat BY LenProperties
    <3>2. other \in 1 .. Len(s) BY <3>1
    <3>3. 1 <= s[other] /\ s[other] \in Nat BY <3>1, <3>2
    <3> QED BY <2>3, <3>2, <3>3
  <2>5. ~(net < other) /\ ~(other < net)
    <3>1. FirstId(s, net) = FirstId(s, other) BY <1>1, <2>3
    <3>2. s[net] <= NMaxFragments /\ s[other] <= NMaxFragments BY <1>1, <2>3
    <3>3. ~(net < other) BY <1>1, <2>4, <3>1, <3>2, IdentifiersDiffer
    <3>4. ~(other < net) BY <1>1, <2>4, <3>1, <3>2, IdentifiersDiffer
    <3> QED BY <3>3, <3>4
  <2>6. net = other BY <1>1, <2>4, <2>5
  <2> QED BY <2>2, <2>3, <2>6 DEF q, net
<1>3. CASE id \notin DOMAIN m
  <2>1. q = [count |-> g.count, received |-> 0, frags |-> Empty] BY <1>3 DEF PartialPacket, id
  <2>2. Empty \in Maps(Nat, Nat) /\ DOMAIN Empty = {}
    <3>1. Empty \in [{} -> Nat] /\ DOMAIN Empty = {} BY DEF Empty
    <3> DEFINE D == {}
    <3>2. D \subseteq Nat /\ Empty \in [D -> Nat] BY <3>1
    <3> HIDE DEF D
    <3> QED BY <3>1, <3>2, MapIntro
  <2>3. q \in AnyPartial /\ q.count = g.count /\ q.received = 0 /\ q.frags = Empty
    <3>1. g.count \in Nat BY DEF Fragment
    <3> QED BY <3>1, <2>1, <2>2 DEF AnyPartial
  <2>4. Cardinality({}) = 0 BY FS_EmptySet
  <2> HIDE DEF q
  <2> QED BY <2>2, <2>3, <2>4, <1>1 DEF Pieces, q, net
<1> QED BY <1>2, <1>3

WholeIfComplete(p, net, s, A) ==
    p.received = p.count => Range(p.frags) = {net} /\ Whole(s, net, A)

WithPiece(q, i, net) == [q EXCEPT !.frags = Put(@, i, net), !.received = @ + 1]

\* A fragment that is accepted: one more piece, and the packet is whole when their
\* number is that of its fragments.
LEMMA OnePieceMore ==
    ASSUME NEW s, NEW net \in Nat, NEW A, s[net] \in Nat, NEW q \in AnyPartial, Pieces(q, net, s, A),
           NEW i \in 0 .. s[net] - 1, i \notin DOMAIN q.frags, <<net, i>> \in A
    PROVE  /\ WithPiece(q, i, net) \in AnyPartial
           /\ Pieces(WithPiece(q, i, net), net, s, A)
           /\ WholeIfComplete(WithPiece(q, i, net), net, s, A)
<1> DEFINE p == WithPiece(q, i, net)
           D == DOMAIN q.frags \cup {i}
           f == Put(q.frags, i, net)
           c == s[net]
<1>1. /\ q.received \in Nat /\ q.count \in Nat /\ q.frags \in Maps(Nat, Nat)
      /\ DOMAIN q.frags \subseteq Nat /\ \A x \in DOMAIN q.frags : q.frags[x] \in Nat
  <2>1. q.received \in Nat /\ q.count \in Nat /\ q.frags \in Maps(Nat, Nat) BY DEF AnyPartial
  <2>2. DOMAIN q.frags \subseteq Nat /\ \A x \in DOMAIN q.frags : q.frags[x] \in Nat
    <3> DEFINE w == q.frags
    <3>1. w \in Maps(Nat, Nat) BY <2>1
    <3> HIDE DEF w
    <3>2. DOMAIN w \subseteq Nat /\ \A x \in DOMAIN w : w[x] \in Nat BY <3>1, MapType
    <3> QED BY <3>2 DEF w
  <2> QED BY <2>1, <2>2
<1>2. f \in [D -> Nat] /\ DOMAIN f = D /\ f[i] = net /\ \A x \in DOMAIN q.frags : f[x] = q.frags[x]
  BY <1>1 DEF Put
<1>3. f \in Maps(Nat, Nat)
  <2>1. D \subseteq Nat BY <1>1
  <2> HIDE DEF f, D
  <2> QED BY <1>2, <2>1, MapIntro
<1> HIDE DEF f
<1>4. p = [q EXCEPT !.frags = f, !.received = q.received + 1] BY DEF f, WithPiece
<1> HIDE DEF p
<1>5. p \in AnyPartial /\ p.frags = f /\ p.received = q.received + 1 /\ p.count = q.count
  <2> DEFINE a == q.received + 1
             T == Maps(Nat, Nat)
  <2>1. a \in Nat /\ f \in T /\ p = [q EXCEPT !.frags = f, !.received = a] BY <1>1, <1>3, <1>4
  <2>2. q \in [count : Nat, received : Nat, frags : T] BY DEF AnyPartial
  <2> HIDE DEF a, T
  <2>3. /\ p \in [count : Nat, received : Nat, frags : T]
        /\ p.frags = f /\ p.received = a /\ p.count = q.count
    BY <2>1, <2>2
  <2> QED BY <2>3 DEF a, T, AnyPartial
<1>6. /\ q.count = c /\ DOMAIN q.frags \subseteq 0 .. c - 1
      /\ \A x \in DOMAIN q.frags : q.frags[x] = net /\ <<net, x>> \in A
      /\ q.received = Cardinality(DOMAIN q.frags)
  BY DEF Pieces
<1>7. IsFiniteSet(0 .. c - 1) /\ Cardinality(0 .. c - 1) = c
  <2> DEFINE top == c - 1
  <2>1. 0 \in Int /\ top \in Int /\ c \in Nat OBVIOUS
  <2>2. IsFiniteSet(0 .. top) /\ Cardinality(0 .. top) = IF 0 > top THEN 0 ELSE top - 0 + 1
    <3> HIDE DEF top
    <3> QED BY <2>1, FS_Interval
  <2> QED BY <2>1, <2>2
<1>8. D \subseteq 0 .. c - 1 BY <1>6
<1>9. Cardinality(D) = Cardinality(DOMAIN q.frags) + 1
  <2>1. IsFiniteSet(DOMAIN q.frags) BY <1>6, <1>7, FS_Subset
  <2> QED BY <2>1, FS_AddElement
<1>10. \A x \in D : f[x] = net /\ <<net, x>> \in A BY <1>2, <1>6
<1>11. Pieces(p, net, s, A)
  BY <1>2, <1>5, <1>6, <1>8, <1>9, <1>10 DEF Pieces
<1>12. p.received = p.count => Range(p.frags) = {net} /\ Whole(s, net, A)
  <2> SUFFICES ASSUME p.received = p.count PROVE Range(p.frags) = {net} /\ Whole(s, net, A) OBVIOUS
  <2>1. Cardinality(D) = c BY <1>5, <1>6, <1>9
  <2> HIDE DEF D
  <2>2. D = 0 .. c - 1 BY <2>1, <1>7, <1>8, FS_Subset
  <2>3. Whole(s, net, A) BY <2>2, <1>10 DEF Whole
  <2>4. i \in D BY DEF D
  <2>5. Range(p.frags) = {net} BY <2>4, <1>2, <1>5, <1>10 DEF Range
  <2> QED BY <2>3, <2>5
<1> QED BY <1>5, <1>11, <1>12 DEF p, WholeIfComplete

LEMMA ReceiveFragmentKeeps ==
    ASSUME NEW s \in Seq(Nat), Total(s, Len(s)) < SeqSpace, \A i \in 1 .. Len(s) : 1 <= s[i],
           NEW n \in 0 .. Len(s), NEW A, NEW m, PartialsInv(m, s, n, A),
           NEW g \in Fragment, FragOf(g, s, n), KeyOf(g) \in A
    PROVE  LET x == receiveFragment(m, g)
           IN  /\ PartialsInv(x.partial, s, n, A)
               /\ x.nets # Nothing =>
                     \E net \in Nat : x.nets = {net} /\ Whole(s, net, A)
<1> DEFINE x == receiveFragment(m, g)
           id == MessageIdentifier(g)
           net == g.net
           q == PartialPacket(m, g)
           pp == [q EXCEPT !.frags = Put(@, g.index, g.net), !.received = @ + 1]
<1> SUFFICES /\ PartialsInv(x.partial, s, n, A)
             /\ x.nets # Nothing => \E k \in Nat : x.nets = {k} /\ Whole(s, k, A)
  OBVIOUS
<1>1. /\ net \in 1 .. n /\ net \in Nat /\ g.count = s[net] /\ g.index \in 0 .. g.count - 1
      /\ <<net, g.index>> \in A /\ g.count <= NMaxFragments
  BY DEF FragOf, KeyOf, Fragment
<1>2. CASE g.count = 1
  <2>1. x = [partial |-> m, nets |-> {net}] BY <1>2 DEF receiveFragment
  <2>2. Whole(s, net, A)
    <3>1. \A i \in 0 .. s[net] - 1 : i = g.index BY <1>1, <1>2
    <3> QED BY <3>1, <1>1 DEF Whole
  <2> QED BY <2>1, <2>2, <1>1
<1>3. CASE g.count # 1 /\ ~IsAccepted(m, g)
  <2>1. x = [partial |-> m, nets |-> Nothing] BY <1>3 DEF receiveFragment
  <2> QED BY <2>1
<1>4. CASE g.count # 1 /\ IsAccepted(m, g)
  <2>1. x = IF pp.received = pp.count
            THEN [partial |-> Drop(m, id), nets |-> Range(pp.frags)]
            ELSE [partial |-> Put(m, id, pp), nets |-> Nothing]
    BY <1>4 DEF receiveFragment
  <2>2. q \in AnyPartial /\ Pieces(q, net, s, A) BY <1>4, SamePacket
  <2>3. g.index \notin DOMAIN q.frags BY <1>4 DEF IsAccepted
  <2>4. s[net] \in Nat
    <3>1. Len(s) \in Nat /\ \A i \in 1 .. Len(s) : s[i] \in Nat BY LenProperties
    <3> QED BY <1>1, <3>1
  <2> HIDE DEF q
  <2>5. /\ pp \in AnyPartial /\ Pieces(pp, net, s, A)
        /\ pp.received = pp.count => Range(pp.frags) = {net} /\ Whole(s, net, A)
    <3> DEFINE i == g.index
    <3>1. pp = WithPiece(q, i, net) BY DEF WithPiece
    <3>2. i \in 0 .. s[net] - 1 /\ i \notin DOMAIN q.frags /\ <<net, i>> \in A /\ net \in Nat
      BY <1>1, <2>3
    <3> HIDE DEF i, net, pp
    <3>3. /\ WithPiece(q, i, net) \in AnyPartial
          /\ Pieces(WithPiece(q, i, net), net, s, A)
          /\ WholeIfComplete(WithPiece(q, i, net), net, s, A)
      BY <2>2, <2>4, <3>2, OnePieceMore
    <3> QED BY <3>1, <3>3 DEF WholeIfComplete
  <2> HIDE DEF pp
  <2>6. CASE pp.received = pp.count
    <3>1. x = [partial |-> Drop(m, id), nets |-> {net}] BY <2>1, <2>5, <2>6
    <3>2. PartialsInv(Drop(m, id), s, n, A) BY DropPartial
    <3>3. x.partial = Drop(m, id) /\ x.nets = {net} BY <3>1
    <3>4. Whole(s, net, A) /\ net \in Nat BY <2>5, <2>6, <1>1
    <3> HIDE DEF x, id, net
    <3> QED BY <3>2, <3>3, <3>4
  <2>7. CASE pp.received # pp.count
    <3>1. x = [partial |-> Put(m, id, pp), nets |-> Nothing] BY <2>1, <2>7
    <3> DEFINE D == DOMAIN m \cup {id}
               d == Put(m, id, pp)
    <3>2. id = FirstId(s, net) /\ id \in TxSequence
      <4>1. id = FirstId(s, net) BY <1>4 DEF FragOf
      <4>2. g.seq - g.index \in Int BY DEF Fragment
      <4> DEFINE z == g.seq - g.index
      <4>3. id = z % SeqSpace /\ z \in Int BY <4>2 DEF MessageIdentifier
      <4> HIDE DEF z, id
      <4>4. id \in TxSequence BY <4>3, RemainderType
      <4> QED BY <4>1, <4>4
    <3>3. DOMAIN m \subseteq TxSequence /\ \A y \in DOMAIN m : m[y] \in AnyPartial
      BY MapType DEF PartialsInv
    <3> HIDE DEF id
    <3>4. /\ d \in [D -> AnyPartial] /\ DOMAIN d = D /\ d[id] = pp
          /\ \A y \in D : y # id => y \in DOMAIN m /\ d[y] = m[y]
      BY <2>5, <3>3 DEF Put
    <3>5. d \in Maps(TxSequence, AnyPartial)
      <4>1. D \subseteq TxSequence BY <3>2, <3>3
      <4> HIDE DEF d, D
      <4> QED BY <3>4, <4>1, MapIntro
    <3>6. PartialInv(pp, id, s, n, A)
      BY <2>5, <3>2, <1>1, <1>4, PiecesPartial
    <3> HIDE DEF d
    <3>7. \A y \in DOMAIN d : PartialInv(d[y], y, s, n, A) BY <3>4, <3>6 DEF PartialsInv
    <3>8. PartialsInv(d, s, n, A) BY <3>5, <3>7 DEF PartialsInv
    <3> QED BY <3>1, <3>8 DEF d
  <2> QED BY <2>6, <2>7
<1> QED BY <1>2, <1>3, <1>4
-----------------------------------------------------------------------------
(* The two ends *)

LEMMA Peers ==
    ASSUME NEW e \in End
    PROVE  /\ Peer(e) \in End /\ Peer(e) # e /\ Peer(Peer(e)) = e
           /\ \A f \in End : f = e \/ f = Peer(e)
<1>1. IsFiniteSet(End) /\ Cardinality(End) = 2 BY GenericLinkServiceAssumption
<1> DEFINE T == End \ {e}
<1>2. IsFiniteSet(T) /\ Cardinality(T) = 1
  <2>1. IsFiniteSet(T) /\ Cardinality(T) = Cardinality(End) - 1 BY <1>1, FS_RemoveElement
  <2> QED BY <1>1, <2>1
<1>3. PICK x : T = {x}
  <2> HIDE DEF T
  <2> QED BY <1>2, FS_Singleton
<1>4. x \in End /\ x # e /\ End = {e, x} BY <1>3
<1>5. Peer(e) = x BY <1>4 DEF Peer
<1>6. Peer(x) = e BY <1>4 DEF Peer
<1> QED BY <1>4, <1>5, <1>6

LEMMA TrafficFacts ==
    ASSUME NEW e \in End
    PROVE  /\ Traffic[e] \in Seq(Nat)
           /\ Len(Traffic[e]) \in Nat
           /\ \A i \in 1 .. Len(Traffic[e]) : 1 <= Traffic[e][i]
           /\ Total(Traffic[e], Len(Traffic[e])) < SeqSpace
           /\ \A n \in 0 .. Len(Traffic[e]) :
                 Total(Traffic[e], n) \in Nat /\ (MaxRetx + 1) * Total(Traffic[e], n) < SeqSpace
<1> DEFINE s == Traffic[e]
           N == Nat \ {0}
<1>1. s \in Seq(N) BY GenericLinkServiceAssumption
<1>2. Len(s) \in Nat /\ \A i \in 1 .. Len(s) : s[i] \in N
  <2> HIDE DEF N, s
  <2> QED BY <1>1, LenProperties
<1>3. s \in Seq(Nat)
  <2>1. s \in [1 .. Len(s) -> N]
    <3> HIDE DEF N, s
    <3> QED BY <1>1, LenProperties
  <2>2. s \in [1 .. Len(s) -> Nat] BY <1>2, <2>1
  <2> HIDE DEF s
  <2> QED BY <1>2, <2>2
<1>4. \A i \in 1 .. Len(s) : 1 <= s[i] BY <1>2
<1> DEFINE top == Len(s)
           T == Total(s, top)
           k == MaxRetx + 1
<1>5. T * k < SeqSpace /\ k \in Nat /\ 1 <= k /\ SeqSpace \in Nat
  BY GenericLinkServiceAssumption, LpReliabilityAssumption
<1>6. T \in Nat
  <2>1. top \in 0 .. Len(s) BY <1>2
  <2> HIDE DEF s, top
  <2> QED BY <1>3, <2>1, TotalDef
<1>7. ASSUME NEW n \in 0 .. Len(s) PROVE Total(s, n) \in Nat /\ Total(s, n) <= T
  <2>1. top \in 0 .. Len(s) /\ n <= top BY <1>2
  <2> HIDE DEF s, top
  <2> QED BY <1>3, <2>1, TotalDef, TotalGrows
<1> HIDE DEF T, k, s
<1>8. T < SeqSpace
  <2>1. T <= T * k /\ T * k \in Nat BY <1>5, <1>6
  <2> QED BY <1>5, <1>6, <2>1
<1>9. ASSUME NEW n \in 0 .. Len(s) PROVE k * Total(s, n) < SeqSpace
  <2> DEFINE t == Total(s, n)
  <2>1. t \in Nat /\ t <= T BY <1>7
  <2> HIDE DEF t
  <2>2. k * t <= T * k /\ k * t \in Nat /\ T * k \in Nat BY <1>5, <1>6, <2>1
  <2>3. k * t < SeqSpace BY <1>5, <2>2
  <2> QED BY <2>3 DEF t
<1> QED BY <1>2, <1>3, <1>4, <1>7, <1>8, <1>9 DEF s, T, k

\* What a call of e leaves behind, when its packets are sent.
Moved(e, after, received) ==
    /\ rel' \in [End -> Reliability] /\ link' \in [End -> SUBSET Packet]
    /\ rel'[e] = [after EXCEPT !.sent = {}] /\ rel'[Peer(e)] = rel[Peer(e)]
    /\ link'[e] = link[e] \ received
    /\ link'[Peer(e)] \subseteq link[Peer(e)] \cup after.sent

LEMMA BecomesMoved ==
    ASSUME TypeInv, NEW e \in End, NEW after \in Reliability, NEW received, Becomes(e, after, received)
    PROVE  Moved(e, after, received)
<1> DEFINE q == Peer(e)
<1>1. q \in End /\ q # e BY Peers
<1>2. PICK packets \in InFlight(q, link[q] \cup after.sent) :
          /\ rel' = [rel EXCEPT ![e] = [after EXCEPT !.sent = {}]]
          /\ link' = [link EXCEPT ![e] = @ \ received, ![q] = packets]
  BY DEF Becomes
<1>3. packets \subseteq link[q] \cup after.sent BY <1>2 DEF InFlight, kSubset
<1>4. [after EXCEPT !.sent = {}] \in Reliability BY DEF Reliability
<1> DEFINE a == [after EXCEPT !.sent = {}]
<1> HIDE DEF a, q
<1>5. rel' = [rel EXCEPT ![e] = a] /\ a \in Reliability BY <1>2, <1>4 DEF a
<1>6. rel' \in [End -> Reliability] /\ rel'[e] = a /\ rel'[q] = rel[q]
  BY <1>1, <1>5 DEF TypeInv
<1>7. after.sent \subseteq Packet BY RelTypes
<1>8. link' \in [End -> SUBSET Packet] /\ link'[e] = link[e] \ received /\ link'[q] = packets
  <2>1. link[q] \subseteq Packet /\ link[e] \subseteq Packet BY <1>1 DEF TypeInv
  <2>2. packets \in SUBSET Packet BY <2>1, <1>3, <1>7
  <2>3. link[e] \ received \in SUBSET Packet BY <2>1
  <2>4. link \in [End -> SUBSET Packet] BY DEF TypeInv
  <2> QED BY <2>2, <2>3, <2>4, <1>1, <1>2
<1> QED BY <1>3, <1>6, <1>8 DEF Moved, a, q

\* Both faces keep their invariant when e makes a call and its packets are sent. Y are
\* the TxSequences that e acknowledges from now on.
LEMMA MoveKeeps ==
    ASSUME LinkInv, NEW e \in End, NEW after, NEW received, Moved(e, after, received),
           NEW Y, AcksTo(Peer(e)) \subseteq Y,
           RelInv(after, Traffic[e], nSent'[e], reliable'[e], arrived[Peer(e)], AcksTo(e),
                  link[Peer(e)], Y),
           nSent'[Peer(e)] = nSent[Peer(e)], reliable'[Peer(e)] = reliable[Peer(e)],
           arrived'[Peer(e)] = arrived[Peer(e)], arrived[e] \subseteq arrived'[e],
           AckInv(rel[Peer(e)], Y, arrived'[e])
    PROVE  FaceInv(e)' /\ FaceInv(Peer(e))'
<1> DEFINE q == Peer(e)
           d == rel'[e]
           y == rel[q]
           Ke == AcksTo(e)'
           Kq == AcksTo(q)'
<1>1. q \in End /\ q # e /\ Peer(q) = e BY Peers
<1>2. /\ d \in Reliability /\ d = [after EXCEPT !.sent = {}] /\ rel'[q] = y
      /\ link'[e] = link[e] \ received /\ link'[q] \subseteq link[q] \cup after.sent
  BY DEF Moved
<1>3. after \in Reliability /\ QueueInv(after, Y) BY DEF RelInv
<1>4. /\ d.unacked = after.unacked /\ d.first = after.first /\ d.nets = after.nets
      /\ d.resolved = after.resolved /\ d.lastTx = after.lastTx
      /\ d.ackQueue = after.ackQueue /\ d.sent = {}
  <2> HIDE DEF d
  <2> QED BY <1>2, <1>3 DEF Reliability
<1>5. Ke = Members(y.ackQueue) \cup UNION {Members(p.acks) : p \in link'[e]}
  BY <1>2 DEF AcksTo
<1>6. Kq = Members(d.ackQueue) \cup UNION {Members(p.acks) : p \in link'[q]}
  BY <1>1 DEF AcksTo
<1>7. Ke \subseteq AcksTo(e) BY <1>2, <1>5 DEF AcksTo
<1>8. Kq \subseteq Y
  <2>1. Members(after.ackQueue) \subseteq Y /\ \A p \in after.sent : Members(p.acks) \subseteq Y
    BY <1>3 DEF QueueInv
  <2>2. \A p \in link[q] : Members(p.acks) \subseteq AcksTo(q) BY DEF AcksTo
  <2>3. \A p \in link'[q] : Members(p.acks) \subseteq Y BY <1>2, <2>1, <2>2
  <2> QED BY <1>4, <1>6, <2>1, <2>3
<1> DEFINE s == Traffic[e]
           n == nSent'[e]
           R == reliable'[e]
           A == arrived[q]
           A2 == arrived'[q]
           K == AcksTo(e)
           P == link[q]
           P2 == link'[q]
<1>9. RelInv(d, s, n, R, A2, Ke, P2, Kq)
  <2>1. RelInv(after, s, n, R, A, K, P, Y) OBVIOUS
  <2>2. A \subseteq A2 /\ P2 \subseteq P \cup after.sent /\ d.sent \subseteq after.sent BY <1>2, <1>4
  <2>3. QueueInv(d, Kq) BY <1>4, <1>6 DEF QueueInv
  <2>4. Ke \subseteq K BY <1>7
  <2>5. d \in Reliability BY <1>2
  <2> HIDE DEF d, y, Ke, Kq, s, n, R, A, A2, K, P, P2, q
  <2>6. \A tx \in Ke : tx \in K \/ (/\ Issued(tx, after.lastTx)
                                    /\ tx \in DOMAIN after.unacked =>
                                          KeyOf(after.unacked[tx].frag) \in A2)
    BY <2>4
  <2> QED BY <1>4, <2>1, <2>2, <2>3, <2>5, <2>6, EnvKeeps
<1>10. FaceInv(e)' BY <1>4, <1>9 DEF FaceInv
<1> DEFINE sq == Traffic[q]
           nq == nSent[q]
           Rq == reliable[q]
           B == arrived[e]
           B2 == arrived'[e]
           L == AcksTo(q)
           O == link[e]
           O2 == link'[e]
<1>11. RelInv(y, sq, nq, Rq, B2, Kq, O2, Ke)
  <2>1. RelInv(y, sq, nq, Rq, B, L, O, K) /\ y.sent = {} BY <1>1 DEF LinkInv, FaceInv
  <2>2. B \subseteq B2 /\ O2 \subseteq O \cup y.sent /\ y.sent \subseteq y.sent BY <1>2
  <2>3. QueueInv(y, Ke) BY <1>5, <2>1 DEF QueueInv
  <2>4. y \in Reliability BY <2>1 DEF RelInv
  <2>5. Kq \subseteq Y /\ AckInv(y, Y, B2) BY <1>8
  <2> HIDE DEF y, Ke, Kq, K, q, sq, nq, Rq, B, B2, L, O, O2
  <2>6. \A tx \in Kq : tx \in L \/ (/\ Issued(tx, y.lastTx)
                                    /\ tx \in DOMAIN y.unacked => KeyOf(y.unacked[tx].frag) \in B2)
    BY <2>5 DEF AckInv
  <2> QED BY <2>1, <2>2, <2>3, <2>4, <2>6, EnvKeeps
<1>12. FaceInv(q)'
  <2>1. y.sent = {} BY <1>1 DEF LinkInv, FaceInv
  <2> QED BY <1>1, <1>2, <1>11, <2>1 DEF FaceInv
<1> QED BY <1>10, <1>12

\* The state of e that its actions start from.
LEMMA FaceFacts ==
    ASSUME LinkInv, NEW e \in End
    PROVE  /\ nSent[e] \in 0 .. Len(Traffic[e]) /\ nSent[e] \in Nat
           /\ reliable[e] \subseteq 1 .. nSent[e]
           /\ rel[e] \in Reliability
           /\ RelInv(rel[e], Traffic[e], nSent[e], reliable[e], arrived[Peer(e)], AcksTo(e),
                     link[Peer(e)], AcksTo(Peer(e)))
           /\ AckInv(rel[e], AcksTo(e), arrived[Peer(e)])
           /\ \A p \in link[Peer(e)] : PacketInv(rel[e], p, Traffic[e], nSent[e])
<1>1. /\ RelInv(rel[e], Traffic[e], nSent[e], reliable[e], arrived[Peer(e)], AcksTo(e),
                link[Peer(e)], AcksTo(Peer(e)))
      /\ CounterInv(e) /\ TypeInv
  BY DEF LinkInv, FaceInv
<1>2. nSent[e] \in Nat /\ Len(Traffic[e]) \in Nat BY <1>1, TrafficFacts DEF TypeInv
<1>3. /\ rel[e] \in Reliability /\ AckInv(rel[e], AcksTo(e), arrived[Peer(e)])
      /\ \A p \in link[Peer(e)] : PacketInv(rel[e], p, Traffic[e], nSent[e])
  BY <1>1 DEF RelInv
<1> QED BY <1>1, <1>2, <1>3 DEF CounterInv

\* A call of e that sends nothing new and receives nothing.
LEMMA QuietCall ==
    ASSUME LinkInv, NEW e \in End, NEW after,
           RelInv(after, Traffic[e], nSent[e], reliable[e], arrived[Peer(e)], AcksTo(e),
                  link[Peer(e)], AcksTo(Peer(e))),
           Moved(e, after, {}),
           UNCHANGED <<lastSeq, partial, nSent, reliable, arrived, passedUp, dups>>,
           switches' \in Nat
    PROVE  LinkInv'
<1> DEFINE q == Peer(e)
           Y == AcksTo(q)
           none == {}
<1>1. q \in End /\ q # e /\ Peer(q) = e /\ \A f \in End : f = e \/ f = q BY Peers
<1>2. FaceInv(e)' /\ FaceInv(q)'
  <2>1. AckInv(rel[q], Y, arrived'[e]) BY <1>1, FaceFacts
  <2>2. Moved(e, after, none) /\ Y \subseteq Y /\ AcksTo(Peer(e)) \subseteq Y OBVIOUS
  <2>3. RelInv(after, Traffic[e], nSent'[e], reliable'[e], arrived[Peer(e)], AcksTo(e),
               link[Peer(e)], Y)
    OBVIOUS
  <2>4. /\ nSent'[Peer(e)] = nSent[Peer(e)] /\ reliable'[Peer(e)] = reliable[Peer(e)]
        /\ arrived'[Peer(e)] = arrived[Peer(e)] /\ arrived[e] \subseteq arrived'[e]
    OBVIOUS
  <2> HIDE DEF Y, none
  <2> QED BY <2>1, <2>2, <2>3, <2>4, MoveKeeps
<1>3. TypeInv' BY DEF LinkInv, TypeInv, Moved
<1>4. \A f \in End : CounterInv(f)' /\ AssemblyInv(f)' BY DEF LinkInv, CounterInv, AssemblyInv
<1> QED BY <1>1, <1>2, <1>3, <1>4 DEF LinkInv
-----------------------------------------------------------------------------
(* Steps *)

LEMMA RtoTimerKeeps ==
    ASSUME LinkInv, NEW e \in End, NEW tx, RtoTimer(e, tx)
    PROVE  LinkInv'
<1> DEFINE after == onLpPacketLost(rel[e], tx)
           none == {}
<1>1. Total(Traffic[e], nSent[e]) \in Nat /\ (MaxRetx + 1) * Total(Traffic[e], nSent[e]) < SeqSpace
      /\ Traffic[e] \in Seq(Nat)
  BY FaceFacts, TrafficFacts
<1>2. tx \in DOMAIN rel[e].unacked /\ Becomes(e, after, none) BY DEF RtoTimer
<1>3. RelInv(after, Traffic[e], nSent[e], reliable[e], arrived[Peer(e)], AcksTo(e),
             link[Peer(e)], AcksTo(Peer(e)))
  BY <1>1, <1>2, FaceFacts, LostKeeps
<1> HIDE DEF after, none
<1>4. TypeInv /\ after \in Reliability BY <1>3 DEF LinkInv, RelInv
<1>5. Moved(e, after, none) BY <1>2, <1>4, BecomesMoved
<1>6. switches' \in Nat BY <1>4 DEF TypeInv, RtoTimer
<1>7. Moved(e, after, {}) BY <1>5 DEF none
<1>8. UNCHANGED <<lastSeq, partial, nSent, reliable, arrived, passedUp, dups>> BY DEF RtoTimer
<1> QED BY <1>3, <1>6, <1>7, <1>8, QuietCall

LEMMA IdleTimerKeeps ==
    ASSUME LinkInv, NEW e \in End, IdleAckTimer(e)
    PROVE  LinkInv'
<1> DEFINE after == idleAckTimer(rel[e])
           none == {}
<1>1. Total(Traffic[e], nSent[e]) \in Nat /\ Traffic[e] \in Seq(Nat)
  BY FaceFacts, TrafficFacts
<1>2. Becomes(e, after, none) BY DEF IdleAckTimer
<1>3. RelInv(after, Traffic[e], nSent[e], reliable[e], arrived[Peer(e)], AcksTo(e),
             link[Peer(e)], AcksTo(Peer(e)))
  BY <1>1, FaceFacts, IdleAckTimerKeeps
<1> HIDE DEF after, none
<1>4. TypeInv /\ after \in Reliability BY <1>3 DEF LinkInv, RelInv
<1>5. Moved(e, after, none) BY <1>2, <1>4, BecomesMoved
<1>6. switches' \in Nat BY <1>4 DEF TypeInv, IdleAckTimer
<1>7. Moved(e, after, {}) BY <1>5 DEF none
<1>8. UNCHANGED <<lastSeq, partial, nSent, reliable, arrived, passedUp, dups>> BY DEF IdleAckTimer
<1> QED BY <1>3, <1>6, <1>7, <1>8, QuietCall

LEMMA SetOptionsKeeps ==
    ASSUME LinkInv, NEW e \in End, NEW isEnabled \in BOOLEAN, setOptions(e, isEnabled)
    PROVE  LinkInv'
<1> DEFINE r == rel[e]
           q == Peer(e)
           timer == IF r.enabled /\ ~isEnabled THEN FALSE ELSE r.idleTimer
           d == [[r EXCEPT !.enabled = isEnabled] EXCEPT !.idleTimer = timer]
<1>1. q \in End /\ q # e /\ Peer(q) = e /\ \A f \in End : f = e \/ f = q BY Peers
<1>2. r \in Reliability /\ r.enabled \in BOOLEAN /\ r.idleTimer \in BOOLEAN BY FaceFacts, RelTypes
<1>3. timer \in BOOLEAN BY <1>2
<1>4. rel' = [rel EXCEPT ![e] = d] BY <1>2 DEF setOptions, LinkInv, TypeInv
<1> HIDE DEF timer, r
<1>5. /\ d \in Reliability /\ d.unacked = r.unacked /\ d.first = r.first /\ d.nets = r.nets
      /\ d.resolved = r.resolved /\ d.lastTx = r.lastTx /\ d.sent = r.sent
      /\ d.ackQueue = r.ackQueue
  BY <1>2, <1>3 DEF Reliability
<1> HIDE DEF d
<1>6. rel' \in [End -> Reliability] /\ rel'[e] = d /\ \A f \in End : f # e => rel'[f] = rel[f]
  BY <1>4, <1>5 DEF LinkInv, TypeInv
<1>7. UNCHANGED <<lastSeq, partial, link, nSent, reliable, arrived, passedUp, dups>>
  BY DEF setOptions
<1>8. AcksTo(e)' = AcksTo(e) /\ AcksTo(q)' = AcksTo(q)
  BY <1>1, <1>5, <1>6, <1>7 DEF AcksTo, r
<1>9. FaceInv(e)'
  <2>1. r.sent = {} BY DEF LinkInv, FaceInv, r
  <2>2. RelInv(r, Traffic[e], nSent[e], reliable[e], arrived[Peer(e)], AcksTo(e),
               link[Peer(e)], AcksTo(Peer(e)))
    BY FaceFacts DEF r
  <2>3. RelInv(d, Traffic[e], nSent[e], reliable[e], arrived[Peer(e)], AcksTo(e),
               link[Peer(e)], AcksTo(Peer(e)))
    BY <2>2, <1>5, FlagsKeep
  <2> QED BY <2>1, <2>3, <1>5, <1>6, <1>7, <1>8 DEF FaceInv
<1>10. FaceInv(q)'
  <2>1. FaceInv(q) BY <1>1 DEF LinkInv
  <2>2. rel'[q] = rel[q] BY <1>1, <1>6
  <2> QED BY <1>1, <1>7, <1>8, <2>1, <2>2 DEF FaceInv
<1>11. TypeInv' BY <1>6, <1>7 DEF LinkInv, TypeInv, setOptions
<1>12. \A f \in End : CounterInv(f)' /\ AssemblyInv(f)'
  BY <1>7 DEF LinkInv, CounterInv, AssemblyInv
<1> QED BY <1>1, <1>9, <1>10, <1>11, <1>12 DEF LinkInv

LEMMA DropTimerKeeps ==
    ASSUME LinkInv, NEW e \in End, NEW id, DropTimer(e, id)
    PROVE  LinkInv'
<1> DEFINE d == Drop(partial[e], id)
<1>1. partial' = [partial EXCEPT ![e] = d] BY DEF DropTimer, timeoutPartialPacket
<1>2. PartialsInv(d, Traffic[Peer(e)], nSent[Peer(e)], arrived[e])
  <2> DEFINE m == partial[e]
  <2>1. PartialsInv(m, Traffic[Peer(e)], nSent[Peer(e)], arrived[e]) BY DEF LinkInv, AssemblyInv
  <2> HIDE DEF m
  <2>2. PartialsInv(Drop(m, id), Traffic[Peer(e)], nSent[Peer(e)], arrived[e])
    BY <2>1, DropPartial
  <2> QED BY <2>2 DEF m
<1> HIDE DEF d
<1>3. d \in Maps(TxSequence, AnyPartial) BY <1>2 DEF PartialsInv
<1>4. /\ partial' \in [End -> Maps(TxSequence, AnyPartial)] /\ partial'[e] = d
      /\ \A f \in End : f # e => partial'[f] = partial[f]
  BY <1>1, <1>3 DEF LinkInv, TypeInv
<1>5. UNCHANGED <<rel, lastSeq, link, nSent, reliable, arrived, passedUp, dups, switches>>
  BY DEF DropTimer
<1>6. TypeInv' BY <1>4, <1>5 DEF LinkInv, TypeInv
<1>7. \A f \in End : CounterInv(f)' /\ FaceInv(f)'
  BY <1>5 DEF LinkInv, CounterInv, FaceInv, AcksTo
<1>8. \A f \in End : AssemblyInv(f)'
  <2> SUFFICES ASSUME NEW f \in End PROVE AssemblyInv(f)' OBVIOUS
  <2>1. AssemblyInv(f) BY DEF LinkInv
  <2>2. CASE f = e BY <2>1, <2>2, <1>2, <1>4, <1>5 DEF AssemblyInv
  <2>3. CASE f # e BY <2>1, <2>3, <1>4, <1>5 DEF AssemblyInv
  <2> QED BY <2>2, <2>3
<1> QED BY <1>6, <1>7, <1>8 DEF LinkInv

\* The Sequences after one more packet.
LEMMA SeqUsedStep ==
    ASSUME NEW s \in Seq(Nat), NEW n \in Nat, n + 1 <= Len(s), NEW last,
           last = (FirstSeq + SeqUsed(s, n)) % SeqSpace
    PROVE  /\ ~(1 < s[n + 1] /\ s[n + 1] <= NMaxFragments) =>
                 last = (FirstSeq + SeqUsed(s, n + 1)) % SeqSpace
           /\ 1 < s[n + 1] /\ s[n + 1] <= NMaxFragments =>
                 (last + s[n + 1]) % SeqSpace = (FirstSeq + SeqUsed(s, n + 1)) % SeqSpace
           /\ last \in TxSequence
<1> DEFINE t == Numbered(s)
           c == s[n + 1]
           u == SeqUsed(s, n)
           a == FirstSeq + u
<1>1. Len(s) \in Nat /\ n \in 0 .. Len(s) /\ n < Len(s) /\ n + 1 \in 1 .. Len(s) /\ c \in Nat
  BY LenProperties
<1>2. t \in Seq(Nat) /\ Len(t) = Len(s)
      /\ t[n + 1] = IF 1 < c /\ c <= NMaxFragments THEN c ELSE 0
  BY <1>1, NumberedDef
<1>3. u \in Nat /\ SeqUsed(s, n + 1) = u + t[n + 1]
  <2> HIDE DEF t
  <2>1. Total(t, n) \in Nat /\ Total(t, n + 1) = Total(t, n) + t[n + 1] BY <1>1, <1>2, TotalDef
  <2> QED BY <2>1 DEF SeqUsed, t
<1>4. a \in Nat /\ FirstSeq \in Nat BY <1>3, GenericLinkServiceAssumption DEF TxSequence
<1>5. last = a % SeqSpace OBVIOUS
<1> HIDE DEF t, u
<1>6. last \in TxSequence
  <2> HIDE DEF a
  <2> QED BY <1>4, <1>5, RemainderType
<1>7. ASSUME ~(1 < c /\ c <= NMaxFragments)
      PROVE  last = (FirstSeq + SeqUsed(s, n + 1)) % SeqSpace
  <2>1. FirstSeq + SeqUsed(s, n + 1) = a BY <1>2, <1>3, <1>4, <1>7
  <2> QED BY <2>1, <1>5
<1>8. ASSUME 1 < c /\ c <= NMaxFragments
      PROVE  (last + c) % SeqSpace = (FirstSeq + SeqUsed(s, n + 1)) % SeqSpace
  <2> DEFINE b == a + c
             x == last + c
  <2>1. FirstSeq + SeqUsed(s, n + 1) = b BY <1>1, <1>2, <1>3, <1>4, <1>8
  <2> HIDE DEF a, c
  <2>2. PICK k \in Int : last = a + k * SeqSpace BY <1>4, <1>5, Division
  <2>3. k * SeqSpace \in Int /\ SeqSpace \in Nat BY LpReliabilityAssumption
  <2>4. b \in Int /\ x \in Int /\ x = b + k * SeqSpace BY <2>2, <2>3, <1>1, <1>4
  <2> HIDE DEF b, x
  <2>5. x % SeqSpace = b % SeqSpace BY <2>4, SameRemainder
  <2> QED BY <2>1, <2>5 DEF x, c
<1> QED BY <1>6, <1>7, <1>8

\* What the peer has reassembled stays good when e is given one more packet.
LEMMA OneMorePacket ==
    ASSUME LinkInv, NEW e \in End, nSent' = [nSent EXCEPT ![e] = @ + 1],
           UNCHANGED <<partial, arrived, passedUp>>
    PROVE  \A f \in End : AssemblyInv(f)'
<1> SUFFICES ASSUME NEW f \in End PROVE AssemblyInv(f)' OBVIOUS
<1> DEFINE q == Peer(f)
           m == partial[f]
           s == Traffic[q]
           n == nSent[q]
           n2 == nSent'[q]
           A == arrived[f]
<1>1. q \in End BY Peers
<1>2. n \in Nat /\ n2 \in Nat /\ n <= n2 BY <1>1 DEF LinkInv, TypeInv
<1>3. PartialsInv(m, s, n, A) BY DEF LinkInv, AssemblyInv
<1>4. PartialsInv(m, s, n2, A)
  <2> HIDE DEF m, s, n, n2, A, q
  <2>1. A \subseteq A OBVIOUS
  <2> QED BY <1>2, <1>3, <2>1, PartialsMore
<1> QED BY <1>4 DEF LinkInv, AssemblyInv
LEMMA FragmentationErrorKeeps ==
    ASSUME LinkInv, NEW e \in End, FragmentationError(e)
    PROVE  LinkInv'
<1> DEFINE q == Peer(e)
           s == Traffic[e]
           n == nSent[e]
<1>1. q \in End /\ q # e /\ Peer(q) = e /\ \A f \in End : f = e \/ f = q BY Peers
<1>2. s \in Seq(Nat) /\ Len(s) \in Nat /\ n \in Nat BY FaceFacts, TrafficFacts
<1>3. /\ n + 1 <= Len(s) /\ s[n + 1] > NMaxFragments /\ nSent' = [nSent EXCEPT ![e] = @ + 1]
      /\ UNCHANGED <<rel, lastSeq, partial, link, reliable, arrived, passedUp, dups, switches>>
  BY <1>2 DEF FragmentationError
<1>4. TypeInv /\ nSent \in [End -> Nat] BY DEF LinkInv, TypeInv
<1>5. /\ nSent' \in [End -> Nat] /\ nSent'[e] = n + 1 /\ nSent'[q] = nSent[q]
      /\ \A f \in End : f # e => nSent'[f] = nSent[f]
  BY <1>1, <1>3, <1>4
<1>6. TypeInv' BY <1>3, <1>4, <1>5 DEF TypeInv
<1>7. AcksTo(e)' = AcksTo(e) /\ AcksTo(q)' = AcksTo(q) BY <1>3 DEF AcksTo
<1>8. FaceInv(e)'
  <2> DEFINE r == rel[e]
             R == reliable[e]
             A == arrived[q]
             K == AcksTo(e)
             P == link[q]
             Y == AcksTo(q)
  <2>1. RelInv(r, s, n, R, A, K, P, Y) /\ r.sent = {} BY FaceFacts DEF LinkInv, FaceInv
  <2>2. RelInv(r, s, n + 1, R, A, K, P, Y)
    <3> HIDE DEF r, s, n, R, A, K, P, Y
    <3> QED BY <1>2, <1>3, <2>1, MoreKeeps
  <2> QED BY <1>3, <1>5, <1>7, <2>1, <2>2 DEF FaceInv
<1>9. FaceInv(q)'
  <2>1. FaceInv(q) BY <1>1 DEF LinkInv
  <2> QED BY <1>1, <1>3, <1>5, <1>7, <2>1 DEF FaceInv
<1>10. ASSUME NEW f \in End PROVE CounterInv(f)'
  <2>1. CounterInv(f) BY DEF LinkInv
  <2>2. CASE f # e BY <1>3, <1>5, <2>1, <2>2 DEF CounterInv
  <2>3. CASE f = e
    <3> DEFINE last == lastSeq[e]
               c == s[n + 1]
    <3>1. last = (FirstSeq + SeqUsed(s, n)) % SeqSpace /\ reliable[e] \subseteq 1 .. n
      BY <2>1, <2>3 DEF CounterInv
    <3>2. ~(1 < c /\ c <= NMaxFragments)
      <4>1. c \in Nat /\ NMaxFragments \in Nat BY <1>2, <1>3, LenProperties, LpReassemblerAssumption
      <4> QED BY <4>1, <1>3
    <3>3. last = (FirstSeq + SeqUsed(s, n + 1)) % SeqSpace
      <4> HIDE DEF s, n, last
      <4> QED BY <1>2, <1>3, <3>1, <3>2, SeqUsedStep
    <3>4. reliable[e] \subseteq 1 .. n + 1 BY <1>2, <3>1
    <3> QED BY <1>3, <1>5, <2>3, <3>3, <3>4 DEF CounterInv
  <2> QED BY <2>2, <2>3
<1>11. \A f \in End : AssemblyInv(f)' BY <1>3, OneMorePacket
<1> QED BY <1>1, <1>6, <1>8, <1>9, <1>10, <1>11 DEF LinkInv

LEMMA SendNetPacketKeeps ==
    ASSUME LinkInv, NEW e \in End, sendNetPacket(e)
    PROVE  LinkInv'
<1> DEFINE q == Peer(e)
           s == Traffic[e]
           n == nSent[e]
           net == n + 1
           c == s[net]
           r == rel[e]
           last == lastSeq[e]
           frags == Fragments(net, c, last)
           b == IF r.enabled THEN handleOutgoing(r, net, frags) ELSE r
           after == AllSent(b, r, frags, c)
           none == {}
<1>1. q \in End /\ q # e /\ Peer(q) = e /\ \A f \in End : f = e \/ f = q BY Peers
<1>2. /\ s \in Seq(Nat) /\ Len(s) \in Nat /\ n \in Nat /\ reliable[e] \subseteq 1 .. n
      /\ r \in Reliability /\ r.enabled \in BOOLEAN
  BY FaceFacts, TrafficFacts, RelTypes
<1>3. /\ n < Len(s) /\ c <= NMaxFragments /\ nSent' = [nSent EXCEPT ![e] = net]
      /\ reliable' = IF r.enabled THEN [reliable EXCEPT ![e] = @ \cup {net}] ELSE reliable
      /\ lastSeq' = [lastSeq EXCEPT ![e] = IF c = 1 THEN @ ELSE (@ + c) % SeqSpace]
      /\ UNCHANGED <<partial, arrived, passedUp, dups, switches>>
  BY DEF sendNetPacket
<1>4. Becomes(e, after, none) BY DEF sendNetPacket, AllSent, TxOf
<1>5. TypeInv BY DEF LinkInv
<1>6. /\ n + 1 <= Len(s) /\ net \in 1 .. Len(s) /\ net \in 0 .. Len(s) /\ net \in Nat
      /\ c \in Nat /\ 1 <= c /\ (MaxRetx + 1) * Total(s, net) < SeqSpace
  <2>1. net \in 1 .. Len(s) /\ net \in 0 .. Len(s) /\ net \in Nat /\ n + 1 <= Len(s) BY <1>2, <1>3
  <2>2. 1 <= s[net] /\ (MaxRetx + 1) * Total(s, net) < SeqSpace BY <2>1, TrafficFacts
  <2> HIDE DEF s
  <2>3. \A i \in 1 .. Len(s) : s[i] \in Nat BY <1>2, LenProperties
  <2> QED BY <2>1, <2>2, <2>3
<1>7. last = (FirstSeq + SeqUsed(s, n)) % SeqSpace /\ n = net - 1 BY <1>2 DEF LinkInv, CounterInv
<1>8. FragsOf(frags, s, net)
  <2>1. last = (FirstSeq + SeqUsed(s, net - 1)) % SeqSpace BY <1>7
  <2> HIDE DEF s, n, net, last
  <2> QED BY <1>2, <1>3, <1>6, <2>1, FragmentsGood
<1> DEFINE R == reliable[e]
           R2 == IF r.enabled THEN R \cup {net} ELSE R
           A == arrived[q]
           K == AcksTo(e)
           P == link[q]
           Y == AcksTo(q)
<1>9. RelInv(after, s, net, R2, A, K, P, Y)
  <2>1. RelInv(r, s, n, R, A, K, P, Y) BY FaceFacts
  <2>2. net = n + 1 OBVIOUS
  <2> HIDE DEF r, s, n, net, R, A, K, P, Y, frags
  <2>3. LET b2 == IF r.enabled THEN handleOutgoing(r, net, frags) ELSE r
            R3 == IF r.enabled THEN R \cup {net} ELSE R
        IN  RelInv(AllSent(b2, r, frags, s[net]), s, net, R3, A, K, P, Y)
    BY <1>2, <1>6, <1>8, <2>1, <2>2, SendNetKeeps DEF R
  <2> QED BY <2>3
<1> HIDE DEF after, none
<1>10. after \in Reliability BY <1>9 DEF RelInv
<1>11. Moved(e, after, none) BY <1>4, <1>5, <1>10, BecomesMoved
<1>12. /\ nSent' \in [End -> Nat] /\ nSent'[e] = net /\ \A f \in End : f # e => nSent'[f] = nSent[f]
  BY <1>3, <1>5, <1>6 DEF TypeInv
<1>13. /\ reliable' \in [End -> SUBSET Nat] /\ reliable'[e] = R2
       /\ \A f \in End : f # e => reliable'[f] = reliable[f]
  BY <1>2, <1>3, <1>5, <1>6 DEF TypeInv
<1>14. FaceInv(e)' /\ FaceInv(q)'
  <2>1. AckInv(rel[Peer(e)], Y, arrived'[e]) BY <1>1, <1>3, FaceFacts
  <2>2. Y \subseteq Y /\ AcksTo(Peer(e)) \subseteq Y OBVIOUS
  <2>3. RelInv(after, Traffic[e], nSent'[e], reliable'[e], arrived[Peer(e)], AcksTo(e),
               link[Peer(e)], Y)
    BY <1>9, <1>12, <1>13
  <2>4. /\ nSent'[Peer(e)] = nSent[Peer(e)] /\ reliable'[Peer(e)] = reliable[Peer(e)]
        /\ arrived'[Peer(e)] = arrived[Peer(e)] /\ arrived[e] \subseteq arrived'[e]
    BY <1>1, <1>3, <1>12, <1>13
  <2> HIDE DEF Y
  <2> QED BY <1>11, <2>1, <2>2, <2>3, <2>4, MoveKeeps
<1> DEFINE last2 == IF c = 1 THEN last ELSE (last + c) % SeqSpace
<1>15. last2 = (FirstSeq + SeqUsed(s, net)) % SeqSpace /\ last2 \in TxSequence
  <2>1. /\ last \in TxSequence
        /\ ~(1 < c /\ c <= NMaxFragments) => last = (FirstSeq + SeqUsed(s, net)) % SeqSpace
        /\ 1 < c /\ c <= NMaxFragments =>
              (last + c) % SeqSpace = (FirstSeq + SeqUsed(s, net)) % SeqSpace
    <3> HIDE DEF s, n, last
    <3> QED BY <1>2, <1>6, <1>7, SeqUsedStep
  <2> DEFINE x == last + c
  <2>2. x \in Int BY <2>1, <1>6 DEF TxSequence
  <2>3. x % SeqSpace \in TxSequence
    <3> HIDE DEF x
    <3> QED BY <2>2, RemainderType
  <2>4. c = 1 => ~(1 < c /\ c <= NMaxFragments) BY <1>6
  <2>5. c # 1 => 1 < c /\ c <= NMaxFragments BY <1>3, <1>6
  <2> HIDE DEF c
  <2> QED BY <2>1, <2>3, <2>4, <2>5
<1>16. /\ lastSeq' \in [End -> TxSequence] /\ lastSeq'[e] = last2
       /\ \A f \in End : f # e => lastSeq'[f] = lastSeq[f]
  <2>1. lastSeq' = [lastSeq EXCEPT ![e] = last2] BY <1>3
  <2> HIDE DEF last2
  <2> QED BY <1>5, <1>15, <2>1 DEF TypeInv
<1>17. TypeInv' BY <1>3, <1>5, <1>11, <1>12, <1>13, <1>16 DEF TypeInv, Moved
<1>18. ASSUME NEW f \in End PROVE CounterInv(f)'
  <2>1. CounterInv(f) BY DEF LinkInv
  <2>2. CASE f # e BY <1>12, <1>13, <1>16, <2>1, <2>2 DEF CounterInv
  <2>3. CASE f = e
    <3>1. R2 \subseteq 1 .. net BY <1>2, <1>6
    <3>2. net <= Len(s) BY <1>6
    <3> HIDE DEF last2, R2, net
    <3> QED BY <1>12, <1>13, <1>15, <1>16, <2>3, <3>1, <3>2 DEF CounterInv
  <2> QED BY <2>2, <2>3
<1>19. \A f \in End : AssemblyInv(f)' BY <1>3, OneMorePacket
<1> QED BY <1>1, <1>14, <1>17, <1>18, <1>19 DEF LinkInv

\* The fragments that e has received, once p is one of its packets.
ArrivedWith(p, A) == IF p.frag = NoFrag THEN A ELSE A \cup {KeyOf(p.frag)}

\* The TxSequences to acknowledge, once p has been received.
AckedWith(p, Y) == IF p.frag # NoFrag /\ p.tx # NoTx THEN Y \cup {p.tx} ELSE Y

\* An Ack for the packet p, that the face r sent, is for a fragment that arrived.
LEMMA AckedArrived ==
    ASSUME NEW r, NEW s, NEW n, NEW Y, NEW A, AckInv(r, Y, A), NEW p, PacketInv(r, p, s, n)
    PROVE  AckInv(r, AckedWith(p, Y), ArrivedWith(p, A))
<1>1. CASE p.frag # NoFrag /\ p.tx # NoTx
  <2>1. Issued(p.tx, r.lastTx) /\ (p.tx \in DOMAIN r.unacked => r.unacked[p.tx].frag = p.frag)
    BY <1>1 DEF PacketInv, CarriesInv
  <2>2. ArrivedWith(p, A) = A \cup {KeyOf(p.frag)} /\ AckedWith(p, Y) = Y \cup {p.tx}
    BY <1>1 DEF ArrivedWith, AckedWith
  <2>3. p.tx \in DOMAIN r.unacked => KeyOf(r.unacked[p.tx].frag) \in ArrivedWith(p, A)
    BY <2>1, <2>2
  <2> QED BY <2>1, <2>2, <2>3 DEF AckInv
<1>2. CASE ~(p.frag # NoFrag /\ p.tx # NoTx)
  <2>1. AckedWith(p, Y) = Y /\ A \subseteq ArrivedWith(p, A) BY <1>2 DEF AckedWith, ArrivedWith
  <2> QED BY <2>1 DEF AckInv
<1> QED BY <1>1, <1>2

LEMMA ReceivePacketKeeps ==
    ASSUME LinkInv, NEW e \in End, NEW p, NEW kept \in BOOLEAN, doReceivePacket(e, p, kept)
    PROVE  LinkInv'
<1> DEFINE q == Peer(e)
           r == rel[e]
           after == IF r.enabled THEN processIncomingPacket(r, p) ELSE r
           gone == IF kept THEN {} ELSE {p}
           s == Traffic[q]
           n == nSent[q]
           A == arrived[e]
           A2 == ArrivedWith(p, A)
           Y == AcksTo(q)
           Y2 == AckedWith(p, Y)
<1>1. q \in End /\ q # e /\ Peer(q) = e /\ \A f \in End : f = e \/ f = q BY Peers
<1>2. TypeInv BY DEF LinkInv
<1>3. p \in link[e] /\ p \in Packet /\ p.frag \in Fragment
  <2>1. p \in link[e] BY DEF doReceivePacket
  <2>2. p \in Packet BY <1>2, <2>1 DEF TypeInv
  <2> QED BY <2>1, <2>2 DEF Packet
<1>4. /\ s \in Seq(Nat) /\ Total(s, Len(s)) < SeqSpace /\ \A i \in 1 .. Len(s) : 1 <= s[i]
      /\ n \in 0 .. Len(s) /\ n \in Nat
  BY <1>1, FaceFacts, TrafficFacts
<1>5. AckInv(rel[q], Y, A) /\ PacketInv(rel[q], p, s, n) BY <1>1, <1>3, FaceFacts
<1>6. AckInv(rel[q], Y2, A2)
  <2> DEFINE y == rel[q]
  <2> HIDE DEF y, s, n, Y, A
  <2> QED BY <1>5, AckedArrived DEF y
<1>7. /\ Becomes(e, after, gone) /\ dups' \in Nat
      /\ UNCHANGED <<lastSeq, nSent, reliable, switches>>
  BY <1>2 DEF doReceivePacket, TypeInv
<1>8. RelInv(after, Traffic[e], nSent[e], reliable[e], arrived[q], AcksTo(e), link[q], Y2)
  <2> DEFINE se == Traffic[e]
             ne == nSent[e]
             R == reliable[e]
             B == arrived[q]
             K == AcksTo(e)
             P == link[q]
  <2>1. /\ RelInv(r, se, ne, R, B, K, P, Y) /\ r \in Reliability
        /\ se \in Seq(Nat) /\ Total(se, ne) \in Nat /\ (MaxRetx + 1) * Total(se, ne) < SeqSpace
    BY FaceFacts, TrafficFacts
  <2>2. Members(p.acks) \subseteq K BY <1>3 DEF AcksTo
  <2>3. Y \subseteq Y2 /\ (p.frag # NoFrag /\ p.tx # NoTx => p.tx \in Y2) BY DEF AckedWith
  <2> HIDE DEF r, se, ne, R, B, K, P, Y, Y2
  <2>4. RelInv(processIncomingPacket(r, p), se, ne, R, B, K, P, Y2)
    BY <1>3, <2>1, <2>2, <2>3, IncomingKeeps
  <2>5. RelInv(r, se, ne, R, B, K, P, Y2)
    <3>1. QueueInv(r, Y2) BY <2>1, <2>3 DEF RelInv, QueueInv
    <3> QED BY <2>1, <3>1 DEF RelInv
  <2>6. RelInv(after, se, ne, R, B, K, P, Y2) BY <2>4, <2>5
  <2> QED BY <2>6 DEF se, ne, R, B, K, P
<1> HIDE DEF after, gone
<1>9. after \in Reliability BY <1>8 DEF RelInv
<1>10. Moved(e, after, gone) BY <1>2, <1>7, <1>9, BecomesMoved
<1>11. /\ arrived' \in [End -> SUBSET (Nat \X Nat)] /\ arrived'[e] = A2
       /\ \A f \in End : f # e => arrived'[f] = arrived[f]
  <2>1. KeyOf(p.frag) \in Nat \X Nat BY <1>3 DEF KeyOf, Fragment
  <2>2. CASE p.frag = NoFrag
    BY <1>2, <2>2 DEF doReceivePacket, ArrivedWith, TypeInv
  <2>3. CASE p.frag # NoFrag
    <3>1. arrived' = [arrived EXCEPT ![e] = A2] BY <2>3 DEF doReceivePacket, ArrivedWith, KeyOf
    <3>2. A2 \in SUBSET (Nat \X Nat) BY <1>2, <2>1 DEF ArrivedWith, TypeInv
    <3> HIDE DEF A2
    <3> QED BY <1>2, <3>1, <3>2 DEF TypeInv
  <2> QED BY <2>2, <2>3
<1>12. A \subseteq A2 BY DEF ArrivedWith
<1>13. FaceInv(e)' /\ FaceInv(q)'
  <2>1. AckInv(rel[Peer(e)], Y2, arrived'[e]) BY <1>6, <1>11
  <2>2. AcksTo(Peer(e)) \subseteq Y2 BY DEF AckedWith
  <2>3. RelInv(after, Traffic[e], nSent'[e], reliable'[e], arrived[Peer(e)], AcksTo(e),
               link[Peer(e)], Y2)
    BY <1>7, <1>8
  <2>4. /\ nSent'[Peer(e)] = nSent[Peer(e)] /\ reliable'[Peer(e)] = reliable[Peer(e)]
        /\ arrived'[Peer(e)] = arrived[Peer(e)] /\ arrived[e] \subseteq arrived'[e]
    BY <1>1, <1>7, <1>11, <1>12
  <2> HIDE DEF Y2
  <2> QED BY <1>10, <2>1, <2>2, <2>3, <2>4, MoveKeeps
<1>14. /\ partial' \in [End -> Maps(TxSequence, AnyPartial)]
       /\ passedUp' \in [End -> SUBSET SUBSET Nat]
       /\ \A f \in End : f # e => partial'[f] = partial[f] /\ passedUp'[f] = passedUp[f]
       /\ PartialsInv(partial'[e], s, n, A2)
       /\ \A nets \in passedUp'[e] : \E net \in Nat : nets = {net} /\ Whole(s, net, A2)
  <2> DEFINE m == partial[e]
             g == p.frag
             x == receiveFragment(m, g)
             up == IF x.nets = Nothing THEN passedUp[e] ELSE passedUp[e] \cup {x.nets}
  <2>1. PartialsInv(m, s, n, A2)
    <3>1. PartialsInv(m, s, n, A) /\ n <= n BY <1>4 DEF LinkInv, AssemblyInv
    <3> HIDE DEF m, s, n, A, A2
    <3> QED BY <1>4, <1>12, <3>1, PartialsMore
  <2>2. \A nets \in passedUp[e] : \E net \in Nat : nets = {net} /\ Whole(s, net, A2)
    <3> SUFFICES ASSUME NEW nets \in passedUp[e]
                 PROVE  \E net \in Nat : nets = {net} /\ Whole(s, net, A2)
      OBVIOUS
    <3>1. PICK net \in Nat : nets = {net} /\ Whole(s, net, A) BY DEF LinkInv, AssemblyInv
    <3>2. Whole(s, net, A2) BY <1>12, <3>1 DEF Whole
    <3> QED BY <3>1, <3>2
  <2>3. CASE g = NoFrag
    <3>1. UNCHANGED <<partial, passedUp>> BY <2>3 DEF doReceivePacket
    <3> QED BY <1>2, <2>1, <2>2, <3>1 DEF TypeInv
  <2>4. CASE g # NoFrag
    <3>1. partial' = [partial EXCEPT ![e] = x.partial] /\ passedUp' = [passedUp EXCEPT ![e] = up]
      BY <2>4 DEF doReceivePacket
    <3>2. FragOf(g, s, n) /\ KeyOf(g) \in A2
      BY <1>5, <2>4 DEF PacketInv, CarriesInv, ArrivedWith
    <3>3. LET y == receiveFragment(m, g)
          IN  /\ PartialsInv(y.partial, s, n, A2)
              /\ y.nets # Nothing => \E net \in Nat : y.nets = {net} /\ Whole(s, net, A2)
      <4> HIDE DEF m, g, s, n, A2
      <4>1. g \in Fragment BY <1>3 DEF g
      <4> QED BY <1>4, <2>1, <3>2, <4>1, ReceiveFragmentKeeps
    <3>4. PartialsInv(x.partial, s, n, A2)
          /\ (x.nets # Nothing => \E net \in Nat : x.nets = {net} /\ Whole(s, net, A2))
      BY <3>3
    <3> HIDE DEF x, A2, s, n
    <3>5. \A nets \in up : \E net \in Nat : nets = {net} /\ Whole(s, net, A2) BY <2>2, <3>4
    <3>6. x.partial \in Maps(TxSequence, AnyPartial) BY <3>4 DEF PartialsInv
    <3>7. up \in SUBSET SUBSET Nat BY <3>5
    <3> HIDE DEF up
    <3> QED BY <1>2, <3>1, <3>4, <3>5, <3>6, <3>7 DEF TypeInv
  <2> QED BY <2>3, <2>4
<1>15. TypeInv' BY <1>2, <1>7, <1>10, <1>11, <1>14 DEF TypeInv, Moved
<1>16. \A f \in End : CounterInv(f)' BY <1>7 DEF LinkInv, CounterInv
<1>17. AssemblyInv(e)' BY <1>7, <1>11, <1>14 DEF AssemblyInv
<1>18. AssemblyInv(q)'
  <2>1. AssemblyInv(q) BY <1>1 DEF LinkInv
  <2>2. partial'[q] = partial[q] /\ passedUp'[q] = passedUp[q] /\ arrived'[q] = arrived[q]
    BY <1>1, <1>11, <1>14
  <2> QED BY <1>7, <2>1, <2>2 DEF AssemblyInv
<1> QED BY <1>1, <1>13, <1>15, <1>16, <1>17, <1>18 DEF LinkInv

\* A face that has sent and received nothing.
LEMMA InitKeeps ==
    ASSUME Init
    PROVE  LinkInv
<1> DEFINE r == NewReliability(FirstTx)
<1>1. FirstTx \in TxSequence /\ FirstSeq \in TxSequence BY GenericLinkServiceAssumption
<1>2. Empty \in Maps(TxSequence, AnyUnackedFrag) /\ Empty \in Maps(Nat, AnyNetPkt)
      /\ Empty \in Maps(TxSequence, AnyPartial) /\ DOMAIN Empty = {}
  <2> DEFINE D == {}
  <2>1. D \subseteq TxSequence /\ D \subseteq Nat /\ DOMAIN Empty = D BY DEF Empty
  <2>2. Empty \in [D -> AnyUnackedFrag] /\ Empty \in [D -> AnyNetPkt] /\ Empty \in [D -> AnyPartial]
    BY DEF Empty
  <2> HIDE DEF D
  <2>3. Empty \in Maps(TxSequence, AnyUnackedFrag) BY <2>1, <2>2, MapIntro
  <2>4. Empty \in Maps(Nat, AnyNetPkt) BY <2>1, <2>2, MapIntro
  <2>5. Empty \in Maps(TxSequence, AnyPartial) BY <2>1, <2>2, MapIntro
  <2> QED BY <2>1, <2>3, <2>4, <2>5 DEF D
<1>3. /\ r.enabled = TRUE /\ r.unacked = Empty /\ r.nets = Empty /\ r.first = NoTx
      /\ r.lastTx = FirstTx /\ r.ackQueue = <<>> /\ r.idleTimer = FALSE /\ r.resolved = <<>>
      /\ r.sent = {}
  BY DEF NewReliability
<1>4. r \in Reliability
  <2> DEFINE S == Seq(TxSequence)
             O == Seq([net : Nat, as : Outcome])
             F == TxSequence \cup {NoTx}
             Q == SUBSET Packet
             none == {}
             start == <<>>
  <2>1. start \in S /\ start \in O /\ NoTx \in F /\ none \in Q OBVIOUS
  <2> HIDE DEF S, O, F, Q
  <2> QED BY <1>1, <1>2, <2>1 DEF NewReliability, Reliability, S, O, F, Q, none, start
<1>5. TypeInv
  <2>1. 0 \in TxSequence BY LpReliabilityAssumption DEF TxSequence
  <2> HIDE DEF r
  <2>2. rel = [e \in End |-> r] BY DEF Init, r
  <2> QED BY <1>1, <1>2, <1>4, <2>2 DEF Init, TypeInv
<1> SUFFICES ASSUME NEW e \in End PROVE CounterInv(e) /\ FaceInv(e) /\ AssemblyInv(e)
  BY <1>5 DEF LinkInv
<1> DEFINE q == Peer(e)
           s == Traffic[e]
           none == {}
<1>6. q \in End BY Peers
<1>7. /\ rel[e] = r /\ rel[q] = r /\ link[e] = none /\ link[q] = none /\ arrived[e] = none
      /\ arrived[q] = none /\ nSent[e] = 0 /\ nSent[q] = 0 /\ reliable[e] = none
      /\ lastSeq[e] = FirstSeq /\ partial[e] = Empty /\ passedUp[e] = none
  BY <1>6 DEF Init
<1>8. s \in Seq(Nat) /\ Len(s) \in Nat BY TrafficFacts
<1>9. Total(s, 0) = 0 /\ SeqUsed(s, 0) = 0
  <2> HIDE DEF s
  <2>1. Total(s, 0) = 0 BY <1>8, TotalDef
  <2> DEFINE t == Numbered(s)
  <2>2. t \in Seq(Nat) BY <1>8, NumberedDef
  <2> HIDE DEF t
  <2>3. Total(t, 0) = 0 BY <2>2, TotalDef
  <2> QED BY <2>1, <2>3 DEF SeqUsed, t
<1>10. CounterInv(e)
  <2>1. FirstSeq = 0 * SeqSpace + FirstSeq /\ FirstSeq \in Int
    BY <1>1, LpReliabilityAssumption DEF TxSequence
  <2>2. FirstSeq % SeqSpace = FirstSeq BY <1>1, <2>1, Remainder
  <2>3. FirstSeq + SeqUsed(s, 0) = FirstSeq BY <1>9, <2>1
  <2> QED BY <1>7, <1>8, <2>2, <2>3 DEF CounterInv
<1>11. Members(r.ackQueue) = {}
  <2>1. Len(<<>>) = 0 OBVIOUS
  <2> QED BY <1>3, <2>1 DEF Members
<1>12. AcksTo(e) = {} /\ AcksTo(q) = {}
  <2>1. Peer(q) = e BY Peers
  <2> QED BY <1>7, <1>11, <2>1 DEF AcksTo
<1> HIDE DEF r
<1>13. RelInv(r, s, 0, none, none, none, none, none)
  <2>1. DOMAIN r.unacked = {} /\ DOMAIN r.nets = {} BY <1>2, <1>3
  <2>2. WindowInv(r) BY <1>3, <2>1 DEF WindowInv
  <2>3. IndexInv(r) BY <2>1 DEF IndexInv
  <2>4. FragsInv(r, s, 0) BY <2>1 DEF FragsInv
  <2>5. Spare(r) = {} BY <2>1 DEF Spare
  <2>6. BudgetInv(r, s, 0)
    <3>1. Pos(FirstTx) = 0 BY <1>1, PosCases DEF TxSequence
    <3>2. MaxRetx \in Nat BY LpReliabilityAssumption
    <3> QED BY <1>3, <1>9, <2>5, <3>1, <3>2, FS_EmptySet DEF BudgetInv
  <2>7. Len(r.resolved) = 0 BY <1>3
  <2>8. CountedNets(r) = {} BY <2>7 DEF CountedNets
  <2>9. CountInv(r, none) BY <2>1, <2>7, <2>8, FS_EmptySet DEF CountInv
  <2>10. ReceivedInv(r, s, none) BY <2>1, <2>7 DEF ReceivedInv
  <2>11. AckInv(r, none, none) BY DEF AckInv
  <2>12. \A p \in none \cup r.sent : PacketInv(r, p, s, 0) BY <1>3
  <2>13. QueueInv(r, none) BY <1>3, <1>11 DEF QueueInv
  <2> QED BY <1>4, <2>2, <2>3, <2>4, <2>6, <2>9, <2>10, <2>11, <2>12, <2>13 DEF RelInv
<1>14. FaceInv(e) BY <1>3, <1>7, <1>12, <1>13 DEF FaceInv
<1>15. AssemblyInv(e) BY <1>2, <1>7 DEF AssemblyInv, PartialsInv
<1> QED BY <1>10, <1>14, <1>15

LEMMA StepKeeps ==
    ASSUME LinkInv, [Next]_vars
    PROVE  LinkInv'
<1>1. CASE Next
  <2>1. PICK e \in End :
           \/ FragmentationError(e)
           \/ sendNetPacket(e)
           \/ \E p \in link[e], kept \in BOOLEAN : doReceivePacket(e, p, kept)
           \/ \E tx \in TxSequence : RtoTimer(e, tx)
           \/ IdleAckTimer(e)
           \/ \E id \in TxSequence : DropTimer(e, id)
           \/ \E isEnabled \in BOOLEAN : setOptions(e, isEnabled)
    BY <1>1 DEF Next
  <2> QED BY <2>1, FragmentationErrorKeeps, SendNetPacketKeeps, ReceivePacketKeeps,
             RtoTimerKeeps, IdleTimerKeeps, DropTimerKeeps, SetOptionsKeeps
<1>2. CASE UNCHANGED vars
  BY <1>2 DEF vars, LinkInv, TypeInv, CounterInv, FaceInv, AssemblyInv, AcksTo
<1> QED BY <1>1, <1>2

\* The invariant of the link service: what the faces store, have sent and have
\* received agrees, whatever the link does.
THEOREM LinkInvAlways == Spec => []LinkInv
<1>1. Init => LinkInv BY InitKeeps
<1>2. LinkInv /\ [Next]_vars => LinkInv' BY StepKeeps
<1> QED BY <1>1, <1>2, PTL DEF Spec
-----------------------------------------------------------------------------
(* Theorems *)

\* The retransmission window of every face starts at the fragment that was sent
\* first, also when the TxSequence wrapped around inside it (deleteUnackedFrag).
THEOREM WindowAlwaysStartsAtOldest == Spec => []WindowStartsAtOldest
<1>1. LinkInv => WindowStartsAtOldest
  <2> SUFFICES ASSUME LinkInv, NEW e \in End, NEW r, r = rel[e]
               PROVE  /\ r.first = NoTx <=> r.unacked = Empty
                      /\ \A tx \in DOMAIN r.unacked :
                            /\ r.first \in DOMAIN r.unacked
                            /\ Ahead(r.lastTx, tx) <= Ahead(r.lastTx, r.first)
    BY DEF WindowStartsAtOldest
  <2>1. r \in Reliability /\ WindowInv(r) /\ FragsInv(r, Traffic[e], nSent[e])
    BY FaceFacts DEF RelInv
  <2>2. r.lastTx \in TxSequence /\ DOMAIN r.unacked \subseteq TxSequence BY <2>1, RelTypes
  <2>3. ASSUME NEW tx \in DOMAIN r.unacked
        PROVE  Ahead(r.lastTx, tx) = Pos(r.lastTx) - Pos(tx) /\ Pos(tx) \in Int /\ Pos(r.lastTx) \in Int
    <3>1. Pos(tx) \in 1 .. Pos(r.lastTx) BY <2>1 DEF FragsInv, Issued
    <3>2. Pos(r.lastTx) \in Int /\ Pos(tx) \in Int BY <2>2, PosCases DEF TxSequence
    <3>3. Pos(tx) <= Pos(r.lastTx) BY <3>1, <3>2
    <3> QED BY <2>2, <3>2, <3>3, AheadPos
  <2>4. ASSUME NEW tx \in DOMAIN r.unacked
        PROVE  /\ r.first \in DOMAIN r.unacked
               /\ Ahead(r.lastTx, tx) <= Ahead(r.lastTx, r.first)
    <3>1. r.first \in DOMAIN r.unacked /\ Pos(r.first) <= Pos(tx) BY <2>1 DEF WindowInv
    <3>2. /\ Ahead(r.lastTx, tx) = Pos(r.lastTx) - Pos(tx) /\ Pos(tx) \in Int
          /\ Ahead(r.lastTx, r.first) = Pos(r.lastTx) - Pos(r.first) /\ Pos(r.first) \in Int
          /\ Pos(r.lastTx) \in Int
      BY <2>3, <3>1
    <3> QED BY <3>1, <3>2
  <2> QED BY <2>1, <2>4 DEF WindowInv
<1> QED BY <1>1, LinkInvAlways, PTL

\* The iterators that a NetPkt keeps are exactly its fragments in m_unackedFrags: none
\* dangles after a retransmission, an Ack or a packet given up.
THEOREM NetPktsAlwaysIndexUnacked == Spec => []NetPktsIndexUnacked
<1>1. LinkInv => NetPktsIndexUnacked
  <2> SUFFICES ASSUME LinkInv, NEW e \in End PROVE IndexInv(rel[e])
    BY DEF NetPktsIndexUnacked, IndexInv
  <2> QED BY FaceFacts DEF RelInv
<1> QED BY <1>1, LinkInvAlways, PTL

\* Every packet that handleOutgoing stored is counted once, when it has no fragment
\* left, by nAcknowledged, nRetransmitted or nRetxExhausted.
THEOREM AlwaysResolvedOnce == Spec => []ResolvedOnce
<1>1. LinkInv => ResolvedOnce
  <2> SUFFICES ASSUME LinkInv, NEW e \in End
               PROVE  LET counted == {x.net : x \in Resolutions(e)}
                      IN  /\ Cardinality(counted) = Len(rel[e].resolved)
                          /\ counted \cap DOMAIN rel[e].nets = {}
                          /\ counted \cup DOMAIN rel[e].nets = reliable[e]
    BY DEF ResolvedOnce
  <2>1. CountInv(rel[e], reliable[e]) /\ rel[e] \in Reliability BY FaceFacts DEF RelInv
  <2>2. DOMAIN rel[e].resolved = 1 .. Len(rel[e].resolved)
    <3> DEFINE T == [net : Nat, as : Outcome]
               z == rel[e].resolved
    <3>1. z \in Seq(T) BY <2>1, RelTypes
    <3> HIDE DEF T, z
    <3>2. DOMAIN z = 1 .. Len(z) BY <3>1, LenProperties
    <3> QED BY <3>2 DEF z
  <2>3. {x.net : x \in Resolutions(e)} = CountedNets(rel[e])
    BY <2>2 DEF Resolutions, Range, CountedNets
  <2> QED BY <2>1, <2>3 DEF CountInv
<1> QED BY <1>1, LinkInvAlways, PTL

\* A packet that was counted as acknowledged has reached the peer whole, whatever
\* Acks were late, repeated or for a TxSequence since replaced (processIncomingPacket).
THEOREM AckedWasAlwaysReceived == Spec => []AckedWasReceived
<1>1. LinkInv => AckedWasReceived
  <2> SUFFICES ASSUME LinkInv, NEW e \in End, NEW x \in Resolutions(e), x.as # "nRetxExhausted"
               PROVE  ArrivedWhole(Peer(e), x.net)
    BY DEF AckedWasReceived
  <2>1. ReceivedInv(rel[e], Traffic[e], arrived[Peer(e)]) /\ rel[e] \in Reliability
    BY FaceFacts DEF RelInv
  <2>2. DOMAIN rel[e].resolved = 1 .. Len(rel[e].resolved)
    <3> DEFINE T == [net : Nat, as : Outcome]
               z == rel[e].resolved
    <3>1. z \in Seq(T) BY <2>1, RelTypes
    <3> HIDE DEF T, z
    <3>2. DOMAIN z = 1 .. Len(z) BY <3>1, LenProperties
    <3> QED BY <3>2 DEF z
  <2>3. PICK i \in 1 .. Len(rel[e].resolved) : x = rel[e].resolved[i]
    BY <2>2 DEF Resolutions, Range
  <2>4. Whole(Traffic[e], x.net, arrived[Peer(e)]) BY <2>1, <2>3 DEF ReceivedInv
  <2> QED BY <2>4, Peers DEF Whole, ArrivedWhole
<1> QED BY <1>1, LinkInvAlways, PTL

\* The TxSequences that a face has used are at most 1 + maxRetx for each fragment it was
\* given, added up over the fragments (onLpPacketLost).
THEOREM TransmissionsAlwaysBounded == Spec => []TransmissionsBounded
<1>1. LinkInv => TransmissionsBounded
  <2> SUFFICES ASSUME LinkInv, NEW e \in End
               PROVE  Ahead(rel[e].lastTx, FirstTx) <= (MaxRetx + 1) * Total(Traffic[e], nSent[e])
    BY DEF TransmissionsBounded
  <2> DEFINE r == rel[e]
             k == (MaxRetx + 1) * Total(Traffic[e], nSent[e])
             c == Cardinality(Spare(r))
  <2>1. BudgetInv(r, Traffic[e], nSent[e]) /\ r \in Reliability BY FaceFacts DEF RelInv
  <2>2. IsFiniteSet(Spare(r)) /\ Pos(r.lastTx) + c <= k BY <2>1 DEF BudgetInv
  <2>3. c \in Nat BY <2>2, FS_CardinalityType
  <2>4. k \in Int
    <3>1. Total(Traffic[e], nSent[e]) \in Nat BY FaceFacts, TrafficFacts
    <3> QED BY <3>1, LpReliabilityAssumption
  <2>5. Pos(r.lastTx) \in Int
    <3>1. r.lastTx \in TxSequence BY <2>1, RelTypes
    <3> QED BY <3>1, PosCases DEF TxSequence
  <2> HIDE DEF c, k
  <2>6. Pos(r.lastTx) <= k BY <2>2, <2>3, <2>4, <2>5
  <2> QED BY <2>6 DEF Pos, k
<1> QED BY <1>1, LinkInvAlways, PTL

\* What LpReassembler passes up is one packet of the peer, all of its fragments
\* received, also after message identifiers wrapped around and drop timers expired.
THEOREM AlwaysReassembledWhole == Spec => []ReassembledWhole
<1>1. LinkInv => ReassembledWhole
  <2> SUFFICES ASSUME LinkInv, NEW e \in End, NEW nets \in passedUp[e]
               PROVE  \E net \in nets : nets = {net} /\ ArrivedWhole(e, net)
    BY DEF ReassembledWhole
  <2>1. PICK net \in Nat : nets = {net} /\ Whole(Traffic[Peer(e)], net, arrived[e])
    BY DEF LinkInv, AssemblyInv
  <2> QED BY <2>1 DEF Whole, ArrivedWhole
<1> QED BY <1>1, LinkInvAlways, PTL

=============================================================================
