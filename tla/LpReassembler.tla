--------------------------- MODULE LpReassembler ---------------------------
(***************************************************************************)
(* Reassembly of network-layer packets: daemon/face/lp-reassembler.        *)
(*                                                                         *)
(* m_partialPackets of one point-to-point face: message identifier |->     *)
(* [count, received, frags], where frags gives the network-layer packet a  *)
(* fragment is a piece of, by index. Each partial packet has its drop      *)
(* timer, which is set whenever a fragment leaves it incomplete.           *)
(***************************************************************************)
EXTENDS LpReliability

CONSTANT NMaxFragments    \* nMaxFragments, of the fragmenter and the reassembler

ASSUME LpReassemblerAssumption == NMaxFragments \in Nat \ {0}

Nothing == {}             \* no packet was reassembled

MessageIdentifier(frag) == (frag.seq - frag.index) % SeqSpace

PartialPacket(partial, frag) ==
    LET id == MessageIdentifier(frag)
    IN  IF id \in DOMAIN partial THEN partial[id]
        ELSE [count |-> frag.count, received |-> 0, frags |-> Empty]

\* Mutant: a fragment received twice counts twice.
AcceptDuplicates(partial, frag) ==
    /\ frag.index < frag.count
    /\ frag.count <= NMaxFragments
    /\ frag.count = PartialPacket(partial, frag).count

IsAccepted(partial, frag) ==
    LET pp == PartialPacket(partial, frag)
    IN  /\ frag.index < frag.count
        /\ frag.count <= NMaxFragments
        /\ frag.count = pp.count
        /\ frag.index \notin DOMAIN pp.frags

\* [partial, nets]: the partial packets after a fragment, and the packets its
\* octets come from if it completes one.
receiveFragment(partial, frag) ==
    LET id == MessageIdentifier(frag)
        pp == [PartialPacket(partial, frag)
                  EXCEPT !.frags = Put(@, frag.index, frag.net), !.received = @ + 1]
    IN  CASE frag.count = 1 ->
               [partial |-> partial, nets |-> {frag.net}]
          [] frag.count # 1 /\ ~IsAccepted(partial, frag) ->
               [partial |-> partial, nets |-> Nothing]
          [] frag.count # 1 /\ IsAccepted(partial, frag) ->
               IF pp.received = pp.count
               THEN [partial |-> Drop(partial, id), nets |-> Range(pp.frags)]
               ELSE [partial |-> Put(partial, id, pp), nets |-> Nothing]

timeoutPartialPacket(partial, id) == Drop(partial, id)

=============================================================================
