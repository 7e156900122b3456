----------------------------- MODULE Strategies -----------------------------
(***************************************************************************)
(* The outgoing pipelines of the Forwarder and the forwarding strategies   *)
(* that drive them: fw/strategy, best-route-strategy, best-route-strategy2,*)
(* multicast-strategy, retx-suppression-exponential, process-nack-traits.  *)
(*                                                                         *)
(* A trigger of a strategy is a function of the PIT entry it is called on. *)
(* Its result is an outcome: the entry it leaves and the packets it hands  *)
(* to faces. A trigger that picks among next hops of equal cost, which     *)
(* std::sort leaves in any order, has several possible outcomes.           *)
(***************************************************************************)
EXTENDS Pit

CONSTANT StrategyOf   \* name |-> the strategy that StrategyChoice finds for it

StrategyNames == {"best-route-v1", "best-route", "multicast"}

ASSUME StrategyAssumption == StrategyOf \in [Name -> StrategyNames]

Packet == [type : {"Interest", "Data", "Nack"}, face : Face, name : Name,
           nonce : Nat, reason : NackReason]

InterestPacket(f, i) ==
    [type |-> "Interest", face |-> f, name |-> i.name, nonce |-> i.nonce, reason |-> NONE]
DataPacket(f, name) ==
    [type |-> "Data", face |-> f, name |-> name, nonce |-> 0, reason |-> NONE]
NackPacket(f, name, nonce, reason) ==
    [type |-> "Nack", face |-> f, name |-> name, nonce |-> nonce, reason |-> reason]

Outcome(e, sent) == [entry |-> e, sent |-> sent]

-----------------------------------------------------------------------------
(* Outgoing pipelines *)

setExpiryTimer(e, at) == [e EXCEPT !.timer = at]

onOutgoingInterest(e, f, i, now) ==
    Outcome(insertOrUpdateOutRecord(e, f, i, now), {InterestPacket(f, i)})

onOutgoingData(name, f) ==
    IF name \in Localhost /\ f \notin Local THEN {} ELSE {DataPacket(f, name)}

\* The in-record is erased when its Nack is sent.
onOutgoingNack(e, name, f, reason) ==
    IF f \in DOMAIN e.in /\ LinkType[f] = "p2p"
    THEN Outcome(deleteInRecord(e, f), {NackPacket(f, name, e.in[f].nonce, reason)})
    ELSE Outcome(e, {})

rejectPendingInterest(e, now) == setExpiryTimer(e, now)

\* Mutant: the in-records outlive their Nacks.
NacksKeepInRecords(e, name, reason) ==
    Outcome(e, {NackPacket(f, name, e.in[f].nonce, reason) :
                    f \in {g \in DOMAIN e.in : LinkType[g] = "p2p"}})

\* Strategy::sendNacks: one onOutgoingNack for every face with an in-record.
sendNacks(e, name, reason) ==
    LET nacked == {f \in DOMAIN e.in : LinkType[f] = "p2p"} IN
    Outcome([e EXCEPT !.in = [f \in DOMAIN @ \ nacked |-> @[f]]],
            {NackPacket(f, name, e.in[f].nonce, reason) : f \in nacked})

\* Mutant: the in-records are cleared before the loop that reads them.
DataToNobody(e, inFace, name, now) == Outcome(clearInRecords(e), {})

\* Strategy::sendDataToAll: Data goes to every unexpired downstream, back to the
\* face it came from only on an ad hoc link; sendData deletes the in-record first.
sendDataToAll(e, inFace, name, now) ==
    LET pendingDownstreams ==
            {f \in DOMAIN e.in : /\ e.in[f].expiry > now
                                 /\ f # inFace \/ LinkType[f] = "ad-hoc"}
    IN  Outcome([e EXCEPT !.in = [f \in DOMAIN @ \ pendingDownstreams |-> @[f]]],
                UNION {onOutgoingData(name, f) : f \in pendingDownstreams})

-----------------------------------------------------------------------------
(* afterReceiveInterest. nh is the next hop list of the FIB entry: face |-> cost *)

LowestCost(nh, S) == {f \in S : \A g \in S : nh[f] <= nh[g]}

NoNextHop(e, inFace, i, now) ==
    LET nacked == onOutgoingNack(e, i.name, inFace, NO_ROUTE)
    IN  Outcome(rejectPendingInterest(nacked.entry, now), nacked.sent)

isNextHopEligible(inFace, i, f) ==
    /\ f # inFace \/ LinkType[f] = "ad-hoc"
    /\ ~wouldViolateScope(inFace, i.name, f)

\* Mutant: the suppression interval grows without limit.
DoubleUncapped(interval) == 2 * interval

Double(interval) == IF 2 * interval < RetxMax THEN 2 * interval ELSE RetxMax

\* The eligible next hop whose out-record is the oldest, the cheapest of them first.
EarliestOutRecord(e, nh, S) ==
    LowestCost(nh, {f \in S : \A g \in S : e.out[f].renewed <= e.out[g].renewed})

BestRouteAfterReceiveInterest(e, inFace, i, nh, now) ==
    LET eligible == {f \in DOMAIN nh : isNextHopEligible(inFace, i, f)}
        unused == {f \in eligible : ~(f \in DOMAIN e.out /\ e.out[f].expiry > now)}
        retx == [e EXCEPT !.interval = Double(@)]
    IN  IF ~hasPendingOutRecords(e, now)
        THEN IF eligible = {}
             THEN {NoNextHop(e, inFace, i, now)}
             ELSE {onOutgoingInterest(e, f, i, now) : f \in LowestCost(nh, eligible)}
        ELSE IF SentWithin(e, e.interval, now)
        THEN {Outcome(e, {})}
        ELSE IF unused # {}
        THEN {onOutgoingInterest(retx, f, i, now) : f \in LowestCost(nh, unused)}
        ELSE IF eligible # {}
        THEN {onOutgoingInterest(retx, f, i, now) : f \in EarliestOutRecord(e, nh, eligible)}
        ELSE {Outcome(retx, {})}

\* Every next hop decides on its own out-record; one that forwards a
\* retransmission doubles that record's interval.
MulticastAfterReceiveInterest(e, inFace, i, nh, now) ==
    LET suppressed == {f \in DOMAIN nh : /\ f \in DOMAIN e.out
                                         /\ now - e.out[f].renewed < e.out[f].interval}
        chosen == {f \in DOMAIN nh \ suppressed : isNextHopEligible(inFace, i, f)}
        updated(f) == insertOrUpdateOutRecord(e, f, i, now).out[f]
    IN  IF chosen = {} /\ suppressed = {}
        THEN {NoNextHop(e, inFace, i, now)}
        ELSE {Outcome(
                [e EXCEPT !.out = [f \in DOMAIN e.out \cup chosen |->
                    IF f \notin chosen THEN e.out[f]
                    ELSE IF f \notin DOMAIN e.out THEN updated(f)
                    ELSE [updated(f) EXCEPT !.interval = Double(@)]]],
                {InterestPacket(f, i) : f \in chosen})}

BestRouteV1AfterReceiveInterest(e, inFace, i, nh, now) ==
    LET usable == {f \in DOMAIN nh : /\ ~wouldViolateScope(inFace, i.name, f)
                                     /\ canForwardToLegacy(e, f, now)}
    IN  IF hasPendingOutRecords(e, now) THEN {Outcome(e, {})}
        ELSE IF usable = {} THEN {Outcome(rejectPendingInterest(e, now), {})}
        ELSE {onOutgoingInterest(e, f, i, now) : f \in LowestCost(nh, usable)}

afterReceiveInterest(e, inFace, i, nh, now) ==
    CASE StrategyOf[i.name] = "best-route"
            -> BestRouteAfterReceiveInterest(e, inFace, i, nh, now)
      [] StrategyOf[i.name] = "multicast"
            -> MulticastAfterReceiveInterest(e, inFace, i, nh, now)
      [] StrategyOf[i.name] = "best-route-v1"
            -> BestRouteV1AfterReceiveInterest(e, inFace, i, nh, now)

-----------------------------------------------------------------------------
(* afterReceiveNack *)

\* ProcessNackTraits: Nack downstream once every out-record has been Nacked, or
\* towards the one upstream still silent if that face is itself a downstream.
processNack(e, name) ==
    LET notNacked == {f \in DOMAIN e.out : e.out[f].nack = NotNacked}
        reason == LeastSevere({e.out[f].nack : f \in DOMAIN e.out \ notNacked})
        bidirectional == {f \in notNacked : notNacked = {f} /\ f \in DOMAIN e.in}
    IN  IF bidirectional # {}
        THEN onOutgoingNack(e, name, CHOOSE f \in bidirectional : TRUE, reason)
        ELSE IF notNacked # {} THEN Outcome(e, {})
        ELSE sendNacks(e, name, reason)

\* best-route v1 does not override the trigger, which then does nothing.
afterReceiveNack(e, name) ==
    IF StrategyOf[name] = "best-route-v1" THEN Outcome(e, {}) ELSE processNack(e, name)

=============================================================================
