--------------------------- MODULE LpReliability ---------------------------
(***************************************************************************)
(* Link-layer reliability of one face: daemon/face/lp-reliability, with    *)
(* GenericLinkService::sendLpPacket, through which all its packets leave.  *)
(*                                                                         *)
(* The state of one LpReliability is a record r; an operator stands for a  *)
(* member function and returns the record after it. r.sent collects the    *)
(* packets that the current call hands to the transport. The RTO is an     *)
(* estimate, so a timer that is scheduled may run at any time.             *)
(***************************************************************************)
EXTENDS Integers, FiniteSets, FiniteSetsExt, SequencesExt

CONSTANTS
    SeqSpace,             \* number of lp::Sequence values, 2^64 in the code
    MaxRetx,              \* Options::maxRetx
    SeqNumLossThreshold,  \* Options::seqNumLossThreshold
    AckRoom               \* Acks that fit in the MTU, beside a fragment and alone

ASSUME LpReliabilityAssumption ==
    /\ SeqSpace \in Nat \ {0}
    /\ MaxRetx \in Nat
    /\ SeqNumLossThreshold \in Nat \ {0}
    /\ AckRoom \in [fragment : Nat, idle : Nat \ {0}]

TxSequence == 0 .. SeqSpace - 1
NoTx == -1                      \* no TxSequence; m_unackedFrags.end()
NoFrag == [net |-> 0, index |-> 0, count |-> 0, seq |-> 0]   \* an IDLE packet

Put(m, x, y) == [z \in DOMAIN m \cup {x} |-> IF z = x THEN y ELSE m[z]]
Drop(m, x) == [z \in DOMAIN m \ {x} |-> m[z]]
Keep(m, S) == [z \in S |-> m[z]]
Empty == [x \in {} |-> x]

(* r.unacked is m_unackedFrags, r.nets the NetPkt objects its fragments share;
   r.resolved lists the packets that nAcknowledged, nRetransmitted and
   nRetxExhausted counted, in order. *)
NewReliability(lastTx) ==
    [enabled |-> TRUE, unacked |-> Empty, nets |-> Empty, first |-> NoTx, lastTx |-> lastTx,
     ackQueue |-> <<>>, idleTimer |-> FALSE, resolved |-> <<>>, sent |-> {}]

\* How far tx is ahead of the TxSequence from, allowing for wraparound.
Ahead(tx, from) == (tx - from) % SeqSpace

AfterTx(tx) == (tx + 1) % SeqSpace

(***************************************************************************)
(* Sending                                                                 *)
(***************************************************************************)
\* Acks attached to the packet, as many as fit; none while reliability is off.
piggyback(r, frag) ==
    LET room == IF frag = NoFrag THEN AckRoom.idle ELSE AckRoom.fragment
    IN  IF ~r.enabled THEN 0 ELSE IF Len(r.ackQueue) < room THEN Len(r.ackQueue) ELSE room

\* The packet leaves with its Acks. One that a congestion mark takes over the MTU
\* is dropped here; the link may lose any packet.
sendLpPacket(r, tx, frag) ==
    LET n == piggyback(r, frag)
    IN  [r EXCEPT !.ackQueue = SubSeq(@, n + 1, Len(@)),
                  !.sent = @ \cup {[tx |-> tx, frag |-> frag, acks |-> SubSeq(r.ackQueue, 1, n)]}]

UnackedFrag(frag, retx) == [frag |-> frag, retx |-> retx, greaterAcks |-> 0, timer |-> FALSE]

\* The n-th TxSequence that is assigned from now on.
NthTx(r, n) == (r.lastTx + n) % SeqSpace

\* The fragments get the next TxSequences and are stored, each with its RTO timer.
handleOutgoing(r, net, frags) ==
    LET txs == {NthTx(r, i) : i \in DOMAIN frags}
        stored(tx) == frags[CHOOSE i \in DOMAIN frags : tx = NthTx(r, i)]
    IN  [r EXCEPT !.lastTx = NthTx(r, Len(frags)),
                  !.unacked = [tx \in DOMAIN @ \cup txs |->
                                  IF tx \in txs THEN [UnackedFrag(stored(tx), 0) EXCEPT !.timer = TRUE]
                                                ELSE @[tx]],
                  !.first = IF r.unacked = Empty THEN NthTx(r, 1) ELSE @,
                  !.nets = Put(@, net, [unacked |-> txs, didRetx |-> FALSE])]

\* An IDLE packet, if an Ack is left for it.
requestIdlePacket(r) == IF r.ackQueue = <<>> THEN r ELSE sendLpPacket(r, NoTx, NoFrag)

\* IDLE packets until no Ack is left.
idleAckTimer(r) ==
    LET after[i \in 0 .. Len(r.ackQueue)] == IF i = 0 THEN r ELSE requestIdlePacket(after[i - 1])
    IN  [after[Len(r.ackQueue)] EXCEPT !.idleTimer = FALSE]

(***************************************************************************)
(* Acknowledgement and loss                                                *)
(***************************************************************************)
\* Mutant: the window starts at the smallest TxSequence, wraparound forgotten.
DeleteIgnoringWraparound(r, txs) ==
    LET left == DOMAIN r.unacked \ txs
    IN  [r EXCEPT !.unacked = Keep(@, left), !.first = IF left = {} THEN NoTx ELSE Min(left)]

\* Fragments are deleted one after the other. A window that started at one of them
\* starts at the next that is left; the map is ordered by TxSequence, and the start
\* moves from its last element to its first.
deleteUnackedFrag(r, txs) ==
    LET left == DOMAIN r.unacked \ txs
        later == {t \in left : t > r.first}
    IN  [r EXCEPT !.unacked = Keep(@, left),
                  !.first = CASE left = {} -> NoTx
                              [] left # {} /\ @ \in left -> @
                              [] left # {} /\ @ \notin left -> Min(IF later = {} THEN left ELSE later)]

\* No retransmission left: the whole packet is dropped, and reported with
\* onDroppedInterest if it is an Interest.
GiveUp(r, tx) ==
    LET net == r.unacked[tx].frag.net
    IN  deleteUnackedFrag([r EXCEPT !.nets = Drop(@, net),
                                    !.resolved = Append(@, [net |-> net, as |-> "nRetxExhausted"])],
                          r.nets[net].unacked \cup {tx})

\* Mutant: the NetPkt keeps the iterator of the fragment that is replaced.
RetransmitKeepsIterator(r, tx) ==
    LET f == r.unacked[tx]
        newTx == AfterTx(r.lastTx)
        s == [r EXCEPT !.lastTx = newTx,
                       !.unacked = Put(@, newTx, UnackedFrag(f.frag, f.retx + 1)),
                       !.nets[f.frag.net].didRetx = TRUE]
    IN  [sendLpPacket(deleteUnackedFrag(s, {tx}), newTx, f.frag)
            EXCEPT !.unacked[newTx].timer = TRUE]

\* Mutant: no RTO timer for the retransmission.
RetransmitWithoutTimer(r, tx) ==
    LET f == r.unacked[tx]
        newTx == AfterTx(r.lastTx)
        s == [r EXCEPT !.lastTx = newTx,
                       !.unacked = Put(@, newTx, UnackedFrag(f.frag, f.retx + 1)),
                       !.nets[f.frag.net].unacked = (@ \ {tx}) \cup {newTx},
                       !.nets[f.frag.net].didRetx = TRUE]
    IN  sendLpPacket(deleteUnackedFrag(s, {tx}), newTx, f.frag)

Retransmit(r, tx) ==
    LET f == r.unacked[tx]
        newTx == AfterTx(r.lastTx)
        s == [r EXCEPT !.lastTx = newTx,
                       !.unacked = Put(@, newTx, UnackedFrag(f.frag, f.retx + 1)),
                       !.nets[f.frag.net].unacked = (@ \ {tx}) \cup {newTx},
                       !.nets[f.frag.net].didRetx = TRUE]
    IN  [sendLpPacket(deleteUnackedFrag(s, {tx}), newTx, f.frag)
            EXCEPT !.unacked[newTx].timer = TRUE]

\* Mutant: one retransmission too many.
LostOnceMore(r, tx) ==
    IF r.unacked[tx].retx > MaxRetx THEN GiveUp(r, tx) ELSE Retransmit(r, tx)

onLpPacketLost(r, tx) ==
    IF r.unacked[tx].retx >= MaxRetx THEN GiveUp(r, tx) ELSE Retransmit(r, tx)

onLpPacketAcknowledged(r, tx) ==
    LET net == r.unacked[tx].frag.net
        left == r.nets[net].unacked \ {tx}
        as == IF r.nets[net].didRetx THEN "nRetransmitted" ELSE "nAcknowledged"
        s == IF left = {}
             THEN [r EXCEPT !.nets = Drop(@, net),
                            !.resolved = Append(@, [net |-> net, as |-> as])]
             ELSE [r EXCEPT !.nets[net].unacked = left]
    IN  deleteUnackedFrag(s, {tx})

\* The fragments sent before tx: from the start of the window up to tx.
Before(r, tx) == {t \in DOMAIN r.unacked : Ahead(t, r.first) < Ahead(tx, r.first)}

CountGreaterAck(r, tx) ==
    LET overtaken(f) == [f EXCEPT !.greaterAcks = @ + 1]
    IN  [r EXCEPT !.unacked = [t \in DOMAIN r.unacked |->
            IF t \in Before(r, tx) THEN overtaken(r.unacked[t]) ELSE r.unacked[t]]]

\* The fragments before tx that enough later Acks overtook.
findLostLpPackets(r, tx) ==
    {t \in Before(r, tx) : r.unacked[t].greaterAcks + 1 >= SeqNumLossThreshold}

\* The lost fragment that is the i-th in the window.
NthLost(r, lost, i) ==
    CHOOSE t \in lost :
        Cardinality({s \in lost : Ahead(s, r.first) <= Ahead(t, r.first)}) = i

\* Mutant: an Ack acknowledges the fragments before it too.
CumulativeAck(r, ack) ==
    IF ack \notin DOMAIN r.unacked THEN r
    ELSE FoldSet(LAMBDA tx, s : onLpPacketAcknowledged(s, tx), r, Before(r, ack) \cup {ack})

\* A lost fragment may be gone already, with the packet that another one gave up.
Lose(r, tx) == IF tx \in DOMAIN r.unacked THEN onLpPacketLost(r, tx) ELSE r

\* One Ack; an unknown one is ignored.
processAck(r, ack) ==
    LET lost == findLostLpPackets(r, ack)
        after[i \in 0 .. Cardinality(lost)] ==
            IF i = 0 THEN onLpPacketAcknowledged(CountGreaterAck(r, ack), ack)
            ELSE Lose(after[i - 1], NthLost(r, lost, i))
    IN  IF ack \notin DOMAIN r.unacked THEN r ELSE after[Cardinality(lost)]

processAcks(r, acks) ==
    LET after[i \in 0 .. Len(acks)] == IF i = 0 THEN r ELSE processAck(after[i - 1], acks[i])
    IN  after[Len(acks)]

\* Mutant: Acks wait for a packet to ride on.
AckWithoutTimer(r, p) ==
    LET s == processAcks(r, p.acks)
    IN  IF p.frag # NoFrag /\ p.tx # NoTx THEN [s EXCEPT !.ackQueue = Append(@, p.tx)] ELSE s

processIncomingPacket(r, p) ==
    LET s == processAcks(r, p.acks)
    IN  IF p.frag # NoFrag /\ p.tx # NoTx
        THEN [s EXCEPT !.ackQueue = Append(@, p.tx), !.idleTimer = TRUE]
        ELSE s

=============================================================================
