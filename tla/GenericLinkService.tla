------------------------- MODULE GenericLinkService -------------------------
(***************************************************************************)
(* Two faces, one at each end of a link, that fragment, acknowledge,       *)
(* retransmit and reassemble: daemon/face/generic-link-service with its    *)
(* LpReliability and LpReassembler.                                        *)
(*                                                                         *)
(* The link delivers packets in any order, late, twice or not at all.      *)
(* Fragmentation and reassembly are allowed, as the datagram channels      *)
(* create their faces.                                                     *)
(***************************************************************************)
EXTENDS LpReassembler

CONSTANTS
    End,          \* the two ends of the link
    Traffic,      \* end |-> the fragments that each packet it is given needs
    MaxInFlight,  \* bound: end |-> packets on their way to it
    MaxDup,       \* bound: packets that the link delivers twice
    MaxSwitch,    \* bound: times that management changes an option
    FirstTx,      \* m_lastTxSeqNo of an idle face
    FirstSeq      \* m_lastSeqNo of an idle face

\* The number of fragments of the first n packets of traffic s.
Total(s, n) ==
    LET sum[i \in 0 .. Len(s)] == IF i = 0 THEN 0 ELSE sum[i - 1] + s[i]
    IN  sum[n]

ASSUME GenericLinkServiceAssumption ==
    /\ IsFiniteSet(End) /\ Cardinality(End) = 2
    /\ Traffic \in [End -> Seq(Nat \ {0})]
    /\ \A e \in End : Total(Traffic[e], Len(Traffic[e])) * (MaxRetx + 1) < SeqSpace
    /\ MaxInFlight \in [End -> Nat]
    /\ MaxDup \in Nat
    /\ MaxSwitch \in Nat
    /\ FirstTx \in TxSequence
    /\ FirstSeq \in TxSequence

VARIABLES
    rel,        \* end |-> m_reliability
    lastSeq,    \* end |-> m_lastSeqNo
    partial,    \* end |-> m_reassembler's partial packets
    link,       \* end |-> packets on their way to it
    nSent,      \* end |-> number of packets of Traffic[end] it was given
    reliable,   \* end |-> the packets it gave to handleOutgoing (history)
    arrived,    \* end |-> fragments it received (history)
    passedUp,   \* end |-> network-layer packets it reassembled (history)
    dups,       \* number of packets that were duplicated
    switches    \* number of setOptions calls

vars == <<rel, lastSeq, partial, link, nSent, reliable, arrived, passedUp, dups, switches>>

Peer(e) == CHOOSE x \in End : x # e

Init ==
    /\ rel = [e \in End |-> NewReliability(FirstTx)]
    /\ lastSeq = [e \in End |-> FirstSeq]
    /\ partial = [e \in End |-> Empty]
    /\ link = [e \in End |-> {}]
    /\ nSent = [e \in End |-> 0]
    /\ reliable = [e \in End |-> {}]
    /\ arrived = [e \in End |-> {}]
    /\ passedUp = [e \in End |-> {}]
    /\ dups = 0
    /\ switches = 0

\* What the link may hold after packets are sent to e: any that fit; one that it
\* never delivers is lost as well.
InFlight(e, packets) ==
    kSubset(Min({Cardinality(packets), MaxInFlight[e]}), packets)

\* A call on e's reliability that leaves it as after, its packets sent.
Becomes(e, after, received) ==
    \E r \in {after} : \E packets \in InFlight(Peer(e), link[Peer(e)] \cup r.sent) :
        /\ rel' = [rel EXCEPT ![e] = [r EXCEPT !.sent = {}]]
        /\ link' = [link EXCEPT ![e] = @ \ received, ![Peer(e)] = packets]

(***************************************************************************)
(* Send path                                                               *)
(***************************************************************************)
\* fragmentPacket and assignSequences: a packet that needs one fragment has no
\* Sequence.
Fragments(net, n, seq) ==
    [i \in 1 .. n |-> [net |-> net, index |-> i - 1, count |-> n,
                       seq |-> IF n = 1 THEN NoTx ELSE (seq + i) % SeqSpace]]

\* Too many fragments: nFragmentationErrors, and the packet is dropped.
FragmentationError(e) ==
    /\ nSent[e] < Len(Traffic[e])
    /\ Traffic[e][nSent[e] + 1] > NMaxFragments
    /\ nSent' = [nSent EXCEPT ![e] = @ + 1]
    /\ UNCHANGED <<rel, lastSeq, partial, link, reliable, arrived, passedUp, dups, switches>>

\* doSendInterest, doSendData and doSendNack end here.
sendNetPacket(e) ==
    LET net == nSent[e] + 1
        n == Traffic[e][net]
        frags == Fragments(net, n, lastSeq[e])
        stored == IF rel[e].enabled THEN handleOutgoing(rel[e], net, frags) ELSE rel[e]
        txOf(i) == IF rel[e].enabled THEN NthTx(rel[e], i) ELSE NoTx
        after[i \in 0 .. n] == IF i = 0 THEN stored ELSE sendLpPacket(after[i - 1], txOf(i), frags[i])
    IN  /\ nSent[e] < Len(Traffic[e])
        /\ n <= NMaxFragments
        /\ nSent' = [nSent EXCEPT ![e] = net]
        /\ reliable' = IF rel[e].enabled THEN [reliable EXCEPT ![e] = @ \cup {net}] ELSE reliable
        /\ lastSeq' = [lastSeq EXCEPT ![e] = IF n = 1 THEN @ ELSE (@ + n) % SeqSpace]
        /\ Becomes(e, after[n], {})
        /\ UNCHANGED <<partial, arrived, passedUp, dups, switches>>

(***************************************************************************)
(* Receive path                                                            *)
(***************************************************************************)
\* The link may keep a packet it delivers, to deliver it once more.
doReceivePacket(e, p, kept) ==
    LET r == IF rel[e].enabled THEN processIncomingPacket(rel[e], p) ELSE rel[e]
        reassembly == receiveFragment(partial[e], p.frag)
    IN  /\ p \in link[e]
        /\ kept => dups < MaxDup
        /\ dups' = IF kept THEN dups + 1 ELSE dups
        /\ Becomes(e, r, IF kept THEN {} ELSE {p})
        /\ IF p.frag = NoFrag
           THEN UNCHANGED <<partial, arrived, passedUp>>
           ELSE /\ partial' = [partial EXCEPT ![e] = reassembly.partial]
                /\ arrived' = [arrived EXCEPT ![e] = @ \cup {<<p.frag.net, p.frag.index>>}]
                /\ passedUp' = [passedUp EXCEPT ![e] =
                                   IF reassembly.nets = Nothing THEN @ ELSE @ \cup {reassembly.nets}]
        /\ UNCHANGED <<lastSeq, nSent, reliable, switches>>

(***************************************************************************)
(* Timers                                                                  *)
(***************************************************************************)
RtoTimer(e, tx) ==
    /\ tx \in DOMAIN rel[e].unacked
    /\ rel[e].unacked[tx].timer
    /\ Becomes(e, onLpPacketLost(rel[e], tx), {})
    /\ UNCHANGED <<lastSeq, partial, nSent, reliable, arrived, passedUp, dups, switches>>

IdleAckTimer(e) ==
    /\ rel[e].idleTimer
    /\ Becomes(e, idleAckTimer(rel[e]), {})
    /\ UNCHANGED <<lastSeq, partial, nSent, reliable, arrived, passedUp, dups, switches>>

DropTimer(e, id) ==
    /\ id \in DOMAIN partial[e]
    /\ partial' = [partial EXCEPT ![e] = timeoutPartialPacket(@, id)]
    /\ UNCHANGED <<rel, lastSeq, link, nSent, reliable, arrived, passedUp, dups, switches>>

(***************************************************************************)
(* Management                                                              *)
(***************************************************************************)
\* Mutant: switching reliability off forgets the fragments in flight.
SetOptionsForgets(e, isEnabled) ==
    /\ switches < MaxSwitch
    /\ switches' = switches + 1
    /\ rel' = [rel EXCEPT ![e] = IF isEnabled THEN [@ EXCEPT !.enabled = TRUE]
                                 ELSE [NewReliability(@.lastTx) EXCEPT !.enabled = FALSE,
                                                                       !.resolved = rel[e].resolved]]
    /\ UNCHANGED <<lastSeq, partial, link, nSent, reliable, arrived, passedUp, dups>>

setOptions(e, isEnabled) ==
    /\ switches < MaxSwitch
    /\ switches' = switches + 1
    /\ rel' = [rel EXCEPT ![e].enabled = isEnabled,
                          ![e].idleTimer = IF rel[e].enabled /\ ~isEnabled THEN FALSE ELSE @]
    /\ UNCHANGED <<lastSeq, partial, link, nSent, reliable, arrived, passedUp, dups>>

Next ==
    \E e \in End :
        \/ FragmentationError(e)
        \/ sendNetPacket(e)
        \/ \E p \in link[e], kept \in BOOLEAN : doReceivePacket(e, p, kept)
        \/ \E tx \in TxSequence : RtoTimer(e, tx)
        \/ IdleAckTimer(e)
        \/ \E id \in TxSequence : DropTimer(e, id)
        \/ \E isEnabled \in BOOLEAN : setOptions(e, isEnabled)

\* The scheduler goes on while timers are due.
Fairness ==
    \A e \in End :
        /\ WF_vars(\E tx \in TxSequence : RtoTimer(e, tx))
        /\ WF_vars(IdleAckTimer(e))

Spec == Init /\ [][Next]_vars
FairSpec == Spec /\ Fairness

-----------------------------------------------------------------------------
(***************************************************************************)
(* Properties                                                              *)
(***************************************************************************)
\* m_firstUnackedFrag is the fragment that was sent first, also when TxSequence
\* wrapped around inside the window; it is end() only if nothing is unacknowledged.
WindowStartsAtOldest ==
    \A e \in End :
        LET r == rel[e]
        IN  /\ r.first = NoTx <=> r.unacked = Empty
            /\ \A tx \in DOMAIN r.unacked :
                  r.first \in DOMAIN r.unacked /\ Ahead(r.lastTx, tx) <= Ahead(r.lastTx, r.first)

\* The iterators in NetPkt::unackedFrags are those of its fragments in
\* m_unackedFrags: none dangles, and no fragment outlives its packet.
NetPktsIndexUnacked ==
    \A e \in End :
        LET r == rel[e]
        IN  /\ \A tx \in DOMAIN r.unacked : r.unacked[tx].frag.net \in DOMAIN r.nets
            /\ \A net \in DOMAIN r.nets :
                  /\ r.nets[net].unacked # {}
                  /\ r.nets[net].unacked =
                        {tx \in DOMAIN r.unacked : r.unacked[tx].frag.net = net}

Resolutions(e) == Range(rel[e].resolved)

\* A packet that handleOutgoing stored is counted by exactly one of nAcknowledged,
\* nRetransmitted and nRetxExhausted, once, when it has no fragment left.
ResolvedOnce ==
    \A e \in End :
        LET counted == {x.net : x \in Resolutions(e)}
        IN  /\ Cardinality(counted) = Len(rel[e].resolved)
            /\ counted \cap DOMAIN rel[e].nets = {}
            /\ counted \cup DOMAIN rel[e].nets = reliable[e]

ArrivedWhole(e, net) ==
    \A i \in 0 .. Traffic[Peer(e)][net] - 1 : <<net, i>> \in arrived[e]

\* nAcknowledged and nRetransmitted count packets whose fragments all reached the
\* peer, whatever Acks were late, repeated or for a TxSequence since replaced.
AckedWasReceived ==
    \A e \in End : \A x \in Resolutions(e) :
        x.as # "nRetxExhausted" => ArrivedWhole(Peer(e), x.net)

\* A face transmits at most 1 + maxRetx times as often as it has fragments to send, late
\* losses and repeated reports of one loss included.
TransmissionsBounded ==
    \A e \in End :
        Ahead(rel[e].lastTx, FirstTx) <= (MaxRetx + 1) * Total(Traffic[e], nSent[e])

\* What the reassembler passes up is one packet, all of its fragments received.
ReassembledWhole ==
    \A e \in End : \A nets \in passedUp[e] :
        \E net \in nets : nets = {net} /\ ArrivedWhole(e, net)

\* The packets that e is given and can send.
Sendable(e) == {net \in DOMAIN Traffic[e] : Traffic[e][net] <= NMaxFragments}

\* Every packet sent reliably is acknowledged or given up in the end, though
\* nothing is known of the link.
NetPktsResolved ==
    \A e \in End : \A net \in Sendable(e) :
        net \in DOMAIN rel[e].nets ~> net \notin DOMAIN rel[e].nets

\* While reliability stays on, no Ack waits for ever for a packet to ride on.
AcksReturned ==
    \A e \in End :
        []rel[e].enabled => (rel[e].ackQueue # <<>> ~> rel[e].ackQueue = <<>>)

=============================================================================
