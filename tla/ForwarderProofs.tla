-------------------------- MODULE ForwarderProofs --------------------------
(***************************************************************************)
(* Proofs about the forwarding pipelines, for every set of faces, names,   *)
(* Nonces, lifetimes and routes, every assignment of strategies to names   *)
(* and every link type that the assumptions on the constants admit.        *)
(*                                                                         *)
(* First the operations on one PIT entry, then what a strategy may make of *)
(* an entry (MayBecome), then one lemma per pipeline that it preserves     *)
(* the inductive invariant IInv, then the theorems.                        *)
(***************************************************************************)
EXTENDS Forwarder, TLAPS

-----------------------------------------------------------------------------
(* Operations on a PIT entry *)

\* Pit::insert creates a well-formed entry.
LEMMA NewEntryIsEntry == IsEntry(NewEntry)
  BY PitAssumption DEF NewEntry, IsEntry, IsPartialFunction, NoTimer

\* Adding or replacing one key of a table.
LEMMA PutIsPartialFunction ==
  ASSUME NEW S, NEW T, NEW m, IsPartialFunction(m, S, T), NEW x \in S, NEW y \in T
  PROVE  /\ IsPartialFunction(Put(m, x, y), S, T)
         /\ DOMAIN Put(m, x, y) = DOMAIN m \cup {x}
         /\ Put(m, x, y)[x] = y
         /\ \A z \in DOMAIN m : z # x => Put(m, x, y)[z] = m[z]
  BY DEF IsPartialFunction, Put

\* Removing one key of a table.
LEMMA DropIsPartialFunction ==
  ASSUME NEW S, NEW T, NEW m, IsPartialFunction(m, S, T), NEW x
  PROVE  /\ IsPartialFunction(Drop(m, x), S, T)
         /\ DOMAIN Drop(m, x) = DOMAIN m \ {x}
         /\ \A z \in DOMAIN m : z # x => Drop(m, x)[z] = m[z]
  BY DEF IsPartialFunction, Drop

\* pit::Entry::deleteInRecord changes nothing but the in-record of the face.
LEMMA DeleteInRecord ==
  ASSUME NEW e, IsEntry(e), NEW f
  PROVE  LET d == deleteInRecord(e, f) IN
         /\ IsEntry(d)
         /\ DOMAIN d.in = DOMAIN e.in \ {f}
         /\ \A z \in DOMAIN e.in : z # f => d.in[z] = e.in[z]
         /\ d.out = e.out /\ d.timer = e.timer /\ d.satisfied = e.satisfied
         /\ d.freshness = e.freshness
  BY DEF IsEntry, deleteInRecord, IsPartialFunction, Drop

\* pit::Entry::deleteOutRecord changes nothing but the out-record of the face.
LEMMA DeleteOutRecord ==
  ASSUME NEW e, IsEntry(e), NEW f
  PROVE  LET d == deleteOutRecord(e, f) IN
         /\ IsEntry(d)
         /\ DOMAIN d.out = DOMAIN e.out \ {f}
         /\ \A z \in DOMAIN e.out : z # f => d.out[z] = e.out[z]
         /\ d.in = e.in /\ d.timer = e.timer /\ d.satisfied = e.satisfied
         /\ d.freshness = e.freshness
  BY DEF IsEntry, deleteOutRecord, IsPartialFunction, Drop

\* pit::Entry::clearInRecords removes all in-records and nothing else.
LEMMA ClearInRecords ==
  ASSUME NEW e, IsEntry(e)
  PROVE  LET d == clearInRecords(e) IN
         /\ IsEntry(d)
         /\ DOMAIN d.in = {}
         /\ d.out = e.out /\ d.timer = e.timer /\ d.satisfied = e.satisfied
         /\ d.freshness = e.freshness
  BY DEF IsEntry, clearInRecords, IsPartialFunction

\* Forwarder::setExpiryTimer changes nothing but the timer.
LEMMA SetTimer ==
  ASSUME NEW e, IsEntry(e), NEW t \in Nat
  PROVE  LET d == setExpiryTimer(e, t) IN
         /\ IsEntry(d)
         /\ d.in = e.in /\ d.out = e.out /\ d.timer = t /\ d.satisfied = e.satisfied
         /\ d.freshness = e.freshness /\ d.interval = e.interval
  BY DEF IsEntry, setExpiryTimer

\* Marking an entry satisfied leaves its records and timer.
LEMMA SetSatisfied ==
  ASSUME NEW e, IsEntry(e), NEW p \in Nat
  PROVE  LET d == [e EXCEPT !.satisfied = TRUE, !.freshness = p] IN
         /\ IsEntry(d)
         /\ d.in = e.in /\ d.out = e.out /\ d.timer = e.timer /\ d.satisfied
         /\ d.freshness = p
  BY DEF IsEntry

\* Updating the suppression interval leaves the rest of an entry.
LEMMA SetInterval ==
  ASSUME NEW e, IsEntry(e), NEW n \in RetxInitial .. RetxMax
  PROVE  LET d == [e EXCEPT !.interval = n] IN
         /\ IsEntry(d)
         /\ d.in = e.in /\ d.out = e.out /\ d.timer = e.timer /\ d.satisfied = e.satisfied
         /\ d.freshness = e.freshness
  BY DEF IsEntry

\* The in-record of an Interest expires after its lifetime; other in-records stay.
LEMMA InsertInRecord ==
  ASSUME NEW e, IsEntry(e), NEW f \in Face, NEW t \in Nat, NEW i, i.nonce \in Nat, i.lifetime \in Nat
  PROVE  LET d == insertOrUpdateInRecord(e, f, i, t) IN
         /\ IsEntry(d)
         /\ DOMAIN d.in = DOMAIN e.in \cup {f}
         /\ d.in[f].nonce = i.nonce
         /\ d.out = e.out /\ d.timer = e.timer
         /\ d.satisfied = e.satisfied /\ d.freshness = e.freshness
<1> DEFINE r == [nonce |-> i.nonce, expiry |-> t + i.lifetime]
<1>1. r \in InRecord
  BY DEF InRecord
<1>2. /\ IsPartialFunction(Put(e.in, f, r), Face, InRecord)
      /\ DOMAIN Put(e.in, f, r) = DOMAIN e.in \cup {f}
      /\ Put(e.in, f, r)[f] = r
  <2>1. IsPartialFunction(e.in, Face, InRecord)
    BY DEF IsEntry
  <2> HIDE DEF r
  <2> QED
    BY <1>1, <2>1 DEF IsPartialFunction, Put
<1> QED
  BY <1>1, <1>2 DEF insertOrUpdateInRecord, IsEntry

\* The out-record of a forwarded Interest; other out-records stay.
LEMMA InsertOutRecord ==
  ASSUME NEW e, IsEntry(e), NEW f \in Face, NEW t \in Nat, NEW i, i.nonce \in Nat, i.lifetime \in Nat
  PROVE  LET d == insertOrUpdateOutRecord(e, f, i, t) IN
         /\ IsEntry(d)
         /\ DOMAIN d.out = DOMAIN e.out \cup {f}
         /\ d.in = e.in /\ d.timer = e.timer
         /\ d.satisfied = e.satisfied /\ d.freshness = e.freshness
<1> DEFINE r == [nonce |-> i.nonce, renewed |-> t, expiry |-> t + i.lifetime,
                 nack |-> IF f \in DOMAIN e.out THEN e.out[f].nack ELSE NotNacked,
                 interval |-> IF f \in DOMAIN e.out THEN e.out[f].interval ELSE RetxInitial]
<1>1. r \in OutRecord
  <2>1. f \in DOMAIN e.out => e.out[f] \in OutRecord
    BY DEF IsEntry, IsPartialFunction
  <2>2. RetxInitial \in RetxInitial .. RetxMax
    BY PitAssumption
  <2> QED
    BY <2>1, <2>2 DEF OutRecord
<1>2. /\ IsPartialFunction(Put(e.out, f, r), Face, OutRecord)
      /\ DOMAIN Put(e.out, f, r) = DOMAIN e.out \cup {f}
  <2>1. IsPartialFunction(e.out, Face, OutRecord)
    BY DEF IsEntry
  <2> HIDE DEF r
  <2> QED
    BY <1>1, <2>1 DEF IsPartialFunction, Put
<1>3. insertOrUpdateOutRecord(e, f, i, t) = [e EXCEPT !.out = Put(e.out, f, r)]
  BY DEF insertOrUpdateOutRecord, IsEntry
<1> QED
  BY <1>2, <1>3 DEF IsEntry

-----------------------------------------------------------------------------
(* What a strategy may do with the entry of an Interest that it is told of *)

MayBecome(e, o, hops, t) ==
    /\ IsEntry(o.entry)
    /\ o.sent \subseteq Packet
    /\ o.entry.satisfied = e.satisfied
    /\ o.entry.freshness = e.freshness
    /\ o.entry.timer \in {e.timer, t}
    /\ DOMAIN o.entry.in \subseteq DOMAIN e.in
    /\ \A g \in DOMAIN o.entry.in : o.entry.in[g] = e.in[g]
    /\ DOMAIN e.out \subseteq DOMAIN o.entry.out
    /\ DOMAIN o.entry.out \subseteq DOMAIN e.out \cup hops

\* The outcome does not end the wait for an upstream that may still answer.
KeepsWaiting(e, o, t) == hasPendingOutRecords(o.entry, t) => o.entry.timer = e.timer

\* The next hops that scope control lets an Interest of inFace go to.
ScopedHops(inFace, i, nh) == {g \in DOMAIN nh : ~wouldViolateScope(inFace, i.name, g)}

\* onOutgoingInterest adds one upstream and sends one packet.
LEMMA OutgoingInterest ==
  ASSUME NEW e, IsEntry(e), NEW i \in Interest, NEW t \in Nat, NEW hops, NEW f \in Face \cap hops
  PROVE  /\ MayBecome(e, onOutgoingInterest(e, f, i, t), hops, t)
         /\ KeepsWaiting(e, onOutgoingInterest(e, f, i, t), t)
<1>1. i.nonce \in Nat /\ i.lifetime \in Nat /\ i.name \in Name
  BY ForwarderAssumption DEF Interest
<1>2. {InterestPacket(f, i)} \subseteq Packet
  BY <1>1 DEF InterestPacket, Packet, NackReason
<1> QED
  BY <1>1, <1>2, InsertOutRecord DEF MayBecome, KeepsWaiting, onOutgoingInterest, Outcome

\* onOutgoingNack removes at most the in-record of the face it Nacks.
LEMMA OutgoingNack ==
  ASSUME NEW e, IsEntry(e), NEW name \in Name, NEW f \in Face, NEW reason \in NackReason,
         NEW t \in Nat, NEW hops
  PROVE  /\ MayBecome(e, onOutgoingNack(e, name, f, reason), hops, t)
         /\ onOutgoingNack(e, name, f, reason).entry.out = e.out
         /\ onOutgoingNack(e, name, f, reason).entry.timer = e.timer
<1> DEFINE o == onOutgoingNack(e, name, f, reason)
<1> SUFFICES MayBecome(e, o, hops, t) /\ o.entry.out = e.out /\ o.entry.timer = e.timer
  OBVIOUS
<1>1. CASE f \in DOMAIN e.in /\ LinkType[f] = "p2p"
  <2>1. o = [entry |-> deleteInRecord(e, f), sent |-> {NackPacket(f, name, e.in[f].nonce, reason)}]
    BY <1>1 DEF onOutgoingNack, Outcome
  <2>2. e.in[f].nonce \in Nat
    BY <1>1 DEF IsEntry, IsPartialFunction, InRecord
  <2>3. {NackPacket(f, name, e.in[f].nonce, reason)} \subseteq Packet
    BY <2>2 DEF NackPacket, Packet
  <2>4. o.entry = deleteInRecord(e, f) /\ o.sent \subseteq Packet
    BY <2>1, <2>3
  <2> HIDE DEF o
  <2> QED
    <3> DEFINE d == deleteInRecord(e, f)
    <3>1. /\ IsEntry(d) /\ DOMAIN d.in = DOMAIN e.in \ {f}
          /\ \A z \in DOMAIN e.in : z # f => d.in[z] = e.in[z]
          /\ d.out = e.out /\ d.timer = e.timer /\ d.satisfied = e.satisfied
          /\ d.freshness = e.freshness
      BY DeleteInRecord
    <3> QED
      BY <2>4, <3>1 DEF MayBecome
<1>2. CASE ~(f \in DOMAIN e.in /\ LinkType[f] = "p2p")
  BY <1>2 DEF onOutgoingNack, MayBecome, Outcome
<1> QED
  BY <1>1, <1>2

\* An Interest with no next hop is Nacked and its entry rejected.
LEMMA NoNextHopOutcome ==
  ASSUME NEW e, IsEntry(e), NEW i \in Interest, NEW t \in Nat, NEW hops, NEW f \in Face
  PROVE  /\ MayBecome(e, NoNextHop(e, f, i, t), hops, t)
         /\ NoNextHop(e, f, i, t).entry.out = e.out
<1> DEFINE n == onOutgoingNack(e, i.name, f, NO_ROUTE)
<1>1. i.name \in Name /\ NO_ROUTE \in NackReason
  BY DEF Interest, NackReason
<1>2. MayBecome(e, n, hops, t) /\ n.entry.out = e.out
  BY <1>1, OutgoingNack
<1>3. NoNextHop(e, f, i, t) = [entry |-> [n.entry EXCEPT !.timer = t], sent |-> n.sent]
  BY DEF NoNextHop, rejectPendingInterest, setExpiryTimer, Outcome
<1> QED
  BY <1>2, <1>3 DEF MayBecome, IsEntry

\* The exponential back-off stays between RetxInitial and RetxMax.
LEMMA DoubleInRange ==
  ASSUME NEW n \in RetxInitial .. RetxMax
  PROVE  Double(n) \in RetxInitial .. RetxMax
  BY PitAssumption DEF Double

\* best-route forwards to next hops only, or leaves no upstream pending.
LEMMA BestRouteOutcome ==
  ASSUME NEW e, IsEntry(e), NEW i \in Interest, NEW t \in Nat, NEW f \in Face,
         NEW nh, DOMAIN nh \subseteq Face,
         NEW o \in BestRouteAfterReceiveInterest(e, f, i, nh, t)
  PROVE  MayBecome(e, o, ScopedHops(f, i, nh), t) /\ KeepsWaiting(e, o, t)
<1> DEFINE retx == [e EXCEPT !.interval = Double(e.interval)]
<1>1. e.interval \in RetxInitial .. RetxMax
  BY DEF IsEntry
<1>2. /\ IsEntry(retx)
      /\ retx.in = e.in /\ retx.out = e.out /\ retx.timer = e.timer
      /\ retx.satisfied = e.satisfied /\ retx.freshness = e.freshness
  BY <1>1, DoubleInRange DEF IsEntry
<1>3. \/ o = NoNextHop(e, f, i, t) /\ ~hasPendingOutRecords(e, t)
      \/ \E g \in ScopedHops(f, i, nh) : o = onOutgoingInterest(e, g, i, t)
      \/ \E g \in ScopedHops(f, i, nh) : o = onOutgoingInterest(retx, g, i, t)
      \/ o = Outcome(e, {})
      \/ o = Outcome(retx, {})
  BY DEF BestRouteAfterReceiveInterest, LowestCost, EarliestOutRecord, isNextHopEligible, ScopedHops
<1> HIDE DEF retx
<1>4. CASE o = NoNextHop(e, f, i, t) /\ ~hasPendingOutRecords(e, t)
  BY <1>4, NoNextHopOutcome DEF KeepsWaiting, hasPendingOutRecords
<1>5. CASE \E g \in ScopedHops(f, i, nh) : o = onOutgoingInterest(e, g, i, t)
  BY <1>5, OutgoingInterest DEF ScopedHops
<1>6. CASE \E g \in ScopedHops(f, i, nh) : o = onOutgoingInterest(retx, g, i, t)
  <2>1. PICK g \in ScopedHops(f, i, nh) : o = onOutgoingInterest(retx, g, i, t)
    BY <1>6
  <2>2. g \in Face \cap ScopedHops(f, i, nh)
    BY DEF ScopedHops
  <2>3. MayBecome(retx, o, ScopedHops(f, i, nh), t) /\ KeepsWaiting(retx, o, t)
    BY <1>2, <2>1, <2>2, OutgoingInterest
  <2> QED
    BY <1>2, <2>3 DEF MayBecome, KeepsWaiting
<1>7. CASE o = Outcome(e, {})
  BY <1>7 DEF Outcome, MayBecome, KeepsWaiting
<1>8. CASE o = Outcome(retx, {})
  BY <1>2, <1>8 DEF Outcome, MayBecome, KeepsWaiting
<1> QED
  BY <1>3, <1>4, <1>5, <1>6, <1>7, <1>8

\* best-route v1 forwards to next hops only, or leaves no upstream pending.
LEMMA BestRouteV1Outcome ==
  ASSUME NEW e, IsEntry(e), NEW i \in Interest, NEW t \in Nat, NEW f \in Face,
         NEW nh, DOMAIN nh \subseteq Face,
         NEW o \in BestRouteV1AfterReceiveInterest(e, f, i, nh, t)
  PROVE  MayBecome(e, o, ScopedHops(f, i, nh), t) /\ KeepsWaiting(e, o, t)
<1>1. \/ o = Outcome(e, {})
      \/ o = Outcome(setExpiryTimer(e, t), {}) /\ ~hasPendingOutRecords(e, t)
      \/ \E g \in ScopedHops(f, i, nh) : o = onOutgoingInterest(e, g, i, t)
  BY DEF BestRouteV1AfterReceiveInterest, LowestCost, rejectPendingInterest, ScopedHops
<1>2. CASE o = Outcome(e, {})
  BY <1>2 DEF Outcome, MayBecome, KeepsWaiting
<1>3. CASE o = Outcome(setExpiryTimer(e, t), {}) /\ ~hasPendingOutRecords(e, t)
  BY <1>3, SetTimer DEF Outcome, MayBecome, KeepsWaiting, hasPendingOutRecords
<1>4. CASE \E g \in ScopedHops(f, i, nh) : o = onOutgoingInterest(e, g, i, t)
  BY <1>4, OutgoingInterest DEF ScopedHops
<1> QED
  BY <1>1, <1>2, <1>3, <1>4

\* multicast forwards to next hops only.
LEMMA MulticastOutcome ==
  ASSUME NEW e, IsEntry(e), NEW i \in Interest, NEW t \in Nat, NEW f \in Face,
         NEW nh, DOMAIN nh \subseteq Face,
         NEW o \in MulticastAfterReceiveInterest(e, f, i, nh, t)
  PROVE  MayBecome(e, o, ScopedHops(f, i, nh), t)
<1> DEFINE suppressed == {g \in DOMAIN nh : /\ g \in DOMAIN e.out
                                             /\ t - e.out[g].renewed < e.out[g].interval}
           chosen == {g \in DOMAIN nh \ suppressed : isNextHopEligible(f, i, g)}
           updated(g) == insertOrUpdateOutRecord(e, g, i, t).out[g]
           out == [g \in DOMAIN e.out \cup chosen |->
                    IF g \notin chosen THEN e.out[g]
                    ELSE IF g \notin DOMAIN e.out THEN updated(g)
                    ELSE [updated(g) EXCEPT !.interval = Double(@)]]
<1>1. CASE o = NoNextHop(e, f, i, t)
  BY <1>1, NoNextHopOutcome
<1>2. CASE o = Outcome([e EXCEPT !.out = out], {InterestPacket(g, i) : g \in chosen})
  <2>1. \A g \in chosen : updated(g) \in OutRecord
    <3>1. i.nonce \in Nat /\ i.lifetime \in Nat
      BY ForwarderAssumption DEF Interest
    <3> QED
      BY <3>1, InsertOutRecord DEF IsEntry, IsPartialFunction
  <2>2. \A g \in chosen : [updated(g) EXCEPT !.interval = Double(@)] \in OutRecord
    BY <2>1, DoubleInRange DEF OutRecord
  <2>3. \A g \in DOMAIN e.out : e.out[g] \in OutRecord
    BY DEF IsEntry, IsPartialFunction
  <2>4. IsPartialFunction(out, Face, OutRecord)
    <3>1. DOMAIN e.out \cup chosen \subseteq Face
      BY DEF IsEntry, IsPartialFunction
    <3> HIDE DEF chosen, updated
    <3> QED
      BY <2>1, <2>2, <2>3, <3>1 DEF IsPartialFunction
  <2>5. DOMAIN out = DOMAIN e.out \cup chosen
    OBVIOUS
  <2>6. {InterestPacket(g, i) : g \in chosen} \subseteq Packet
    <3>1. \A g \in chosen : g \in Face
      OBVIOUS
    <3>2. i.nonce \in Nat /\ i.name \in Name
      BY ForwarderAssumption DEF Interest
    <3>3. \A g \in chosen : InterestPacket(g, i) \in Packet
      <4> HIDE DEF chosen
      <4> QED
        BY <3>1, <3>2 DEF InterestPacket, Packet, NackReason
    <3> QED
      BY <3>3
  <2> HIDE DEF out
  <2>7. /\ IsEntry([e EXCEPT !.out = out])
        /\ [e EXCEPT !.out = out].in = e.in /\ [e EXCEPT !.out = out].out = out
        /\ [e EXCEPT !.out = out].timer = e.timer
        /\ [e EXCEPT !.out = out].satisfied = e.satisfied
        /\ [e EXCEPT !.out = out].freshness = e.freshness
    BY <2>4 DEF IsEntry
  <2>8. o.entry = [e EXCEPT !.out = out] /\ o.sent \subseteq Packet
    BY <1>2, <2>6 DEF Outcome
  <2>9. chosen \subseteq ScopedHops(f, i, nh)
    BY DEF isNextHopEligible, ScopedHops
  <2> HIDE DEF chosen
  <2> QED
    BY <2>5, <2>7, <2>8, <2>9 DEF MayBecome
<1> QED
  BY <1>1, <1>2 DEF MulticastAfterReceiveInterest

\* A strategy forwards to next hops of the FIB entry only.
LEMMA AfterReceiveInterest ==
  ASSUME NEW e, IsEntry(e), NEW i \in Interest, NEW t \in Nat, NEW f \in Face,
         NEW nh, DOMAIN nh \subseteq Face,
         NEW o \in afterReceiveInterest(e, f, i, nh, t)
  PROVE  /\ MayBecome(e, o, ScopedHops(f, i, nh), t)
         /\ StrategyOf[i.name] # "multicast" => KeepsWaiting(e, o, t)
<1>1. StrategyOf[i.name] \in StrategyNames
  BY StrategyAssumption DEF Interest
<1>2. CASE StrategyOf[i.name] = "best-route"
  BY <1>2, BestRouteOutcome DEF afterReceiveInterest
<1>3. CASE StrategyOf[i.name] = "multicast"
  BY <1>3, MulticastOutcome DEF afterReceiveInterest
<1>4. CASE StrategyOf[i.name] = "best-route-v1"
  BY <1>4, BestRouteV1Outcome DEF afterReceiveInterest
<1> QED
  BY <1>1, <1>2, <1>3, <1>4 DEF StrategyNames

\* The reason a strategy Nacks with is one it may put in a Nack.
LEMMA LeastSevereIsReason ==
  ASSUME NEW R \in SUBSET NackReason
  PROVE  LeastSevere(R) \in NackReason
<1>1. CASE R \subseteq {NONE}
  BY <1>1 DEF LeastSevere, NackReason
<1>2. CASE ~(R \subseteq {NONE})
  <2>1. \E r \in R \ {NONE} : \A s \in R \ {NONE} : r <= s
    BY <1>2 DEF NackReason, NONE, CONGESTION, DUPLICATE, NO_ROUTE
  <2>2. LeastSevere(R) \in R \ {NONE}
    BY <1>2, <2>1 DEF LeastSevere
  <2> QED
    BY <2>2
<1> QED
  BY <1>1, <1>2

\* Strategy::sendNacks removes in-records only.
LEMMA SendNacks ==
  ASSUME NEW e, IsEntry(e), NEW name \in Name, NEW reason \in NackReason, NEW t \in Nat
  PROVE  /\ MayBecome(e, sendNacks(e, name, reason), {}, t)
         /\ sendNacks(e, name, reason).entry.out = e.out
         /\ sendNacks(e, name, reason).entry.timer = e.timer
<1> DEFINE nacked == {f \in DOMAIN e.in : LinkType[f] = "p2p"}
           in == [f \in DOMAIN e.in \ nacked |-> e.in[f]]
           o == sendNacks(e, name, reason)
<1> SUFFICES MayBecome(e, o, {}, t) /\ o.entry.out = e.out /\ o.entry.timer = e.timer
  OBVIOUS
<1>1. IsPartialFunction(e.in, Face, InRecord)
  BY DEF IsEntry
<1>2. IsPartialFunction(in, Face, InRecord)
  BY <1>1 DEF IsPartialFunction
<1>3. DOMAIN in \subseteq DOMAIN e.in /\ \A g \in DOMAIN in : in[g] = e.in[g]
  OBVIOUS
<1>4. {NackPacket(f, name, e.in[f].nonce, reason) : f \in nacked} \subseteq Packet
  <2>1. \A f \in nacked : f \in Face /\ e.in[f].nonce \in Nat
    BY <1>1 DEF IsPartialFunction, InRecord
  <2>2. \A f \in nacked : NackPacket(f, name, e.in[f].nonce, reason) \in Packet
    <3> HIDE DEF nacked
    <3> QED BY <2>1 DEF NackPacket, Packet
  <2> QED
    BY <2>2
<1>5. o.entry = [e EXCEPT !.in = in] /\ o.sent \subseteq Packet
  BY <1>4 DEF sendNacks, Outcome, IsEntry
<1> HIDE DEF in, o
<1>6. /\ IsEntry(o.entry)
      /\ o.entry.in = in /\ o.entry.out = e.out /\ o.entry.timer = e.timer
      /\ o.entry.satisfied = e.satisfied /\ o.entry.freshness = e.freshness
  BY <1>2, <1>5 DEF IsEntry
<1> QED
  BY <1>3, <1>5, <1>6 DEF MayBecome

\* A strategy that handles a Nack adds no record and keeps the timer.
LEMMA AfterReceiveNack ==
  ASSUME NEW e, IsEntry(e), NEW name \in Name, NEW t \in Nat
  PROVE  /\ MayBecome(e, afterReceiveNack(e, name), {}, t)
         /\ afterReceiveNack(e, name).entry.out = e.out
         /\ afterReceiveNack(e, name).entry.timer = e.timer
<1> DEFINE notNacked == {f \in DOMAIN e.out : e.out[f].nack = NotNacked}
           reason == LeastSevere({e.out[f].nack : f \in DOMAIN e.out \ notNacked})
           bidirectional == {f \in notNacked : notNacked = {f} /\ f \in DOMAIN e.in}
           o == afterReceiveNack(e, name)
<1> SUFFICES MayBecome(e, o, {}, t) /\ o.entry.out = e.out /\ o.entry.timer = e.timer
  OBVIOUS
<1>1. reason \in NackReason
  <2>1. {e.out[f].nack : f \in DOMAIN e.out \ notNacked} \subseteq NackReason
    BY DEF IsEntry, IsPartialFunction, OutRecord
  <2> QED
    BY <2>1, LeastSevereIsReason
<1>2. bidirectional \subseteq Face
  BY DEF IsEntry, IsPartialFunction
<1>3. \/ o = Outcome(e, {})
      \/ bidirectional # {} /\ o = onOutgoingNack(e, name, CHOOSE f \in bidirectional : TRUE, reason)
      \/ o = sendNacks(e, name, reason)
  BY DEF afterReceiveNack, processNack
<1> HIDE DEF reason, bidirectional, notNacked, o
<1>4. CASE o = Outcome(e, {})
  BY <1>4 DEF Outcome, MayBecome
<1>5. CASE bidirectional # {} /\ o = onOutgoingNack(e, name, CHOOSE f \in bidirectional : TRUE, reason)
  <2> DEFINE f == CHOOSE f \in bidirectional : TRUE
  <2>1. f \in Face
    BY <1>2, <1>5
  <2> HIDE DEF f
  <2>2. o = onOutgoingNack(e, name, f, reason)
    BY <1>5 DEF f
  <2> QED
    BY <1>1, <2>1, <2>2, OutgoingNack
<1>6. CASE o = sendNacks(e, name, reason)
  BY <1>1, <1>6, SendNacks
<1> QED
  BY <1>3, <1>4, <1>5, <1>6

\* Strategy::sendDataToAll removes in-records only.
LEMMA SendDataToAll ==
  ASSUME NEW e, IsEntry(e), NEW f, NEW name \in Name, NEW t \in Nat
  PROVE  /\ MayBecome(e, sendDataToAll(e, f, name, t), {}, t)
         /\ sendDataToAll(e, f, name, t).entry.out = e.out
<1> DEFINE pending == {g \in DOMAIN e.in : /\ e.in[g].expiry > t
                                           /\ g # f \/ LinkType[g] = "ad-hoc"}
           in == [g \in DOMAIN e.in \ pending |-> e.in[g]]
           o == sendDataToAll(e, f, name, t)
<1> SUFFICES MayBecome(e, o, {}, t) /\ o.entry.out = e.out
  OBVIOUS
<1>1. IsPartialFunction(e.in, Face, InRecord)
  BY DEF IsEntry
<1>2. IsPartialFunction(in, Face, InRecord)
  BY <1>1 DEF IsPartialFunction
<1>3. DOMAIN in \subseteq DOMAIN e.in /\ \A g \in DOMAIN in : in[g] = e.in[g]
  OBVIOUS
<1>4. UNION {onOutgoingData(name, g) : g \in pending} \subseteq Packet
  <2>1. \A g \in pending : g \in Face
    BY <1>1 DEF IsPartialFunction
  <2>2. \A g \in pending : onOutgoingData(name, g) \subseteq Packet
    <3> HIDE DEF pending
    <3> QED BY <2>1 DEF onOutgoingData, DataPacket, Packet, NackReason
  <2> QED
    BY <2>2
<1>5. o.entry = [e EXCEPT !.in = in] /\ o.sent \subseteq Packet
  BY <1>4 DEF sendDataToAll, Outcome, IsEntry
<1> HIDE DEF in, o
<1>6. /\ IsEntry(o.entry)
      /\ o.entry.in = in /\ o.entry.out = e.out /\ o.entry.timer = e.timer
      /\ o.entry.satisfied = e.satisfied /\ o.entry.freshness = e.freshness
  BY <1>2, <1>5 DEF IsEntry
<1> QED
  BY <1>3, <1>5, <1>6 DEF MayBecome

-----------------------------------------------------------------------------
(* The inductive invariant *)

EntryOK(k, e, live, t) ==
    /\ IsEntry(e)
    /\ e.timer \in Nat
    /\ DOMAIN e.in \cup DOMAIN e.out \subseteq live
    /\ k.name \in Localhost => /\ DOMAIN e.in \subseteq Local
                               /\ DOMAIN e.out \subseteq Local \cup NextHopFaceId
    /\ StrategyOf[k.name] # "multicast" /\ ~e.satisfied /\ hasPendingOutRecords(e, t)
        => \A f \in DOMAIN e.in : e.in[f].expiry <= e.timer

PitOK(p, live, t) ==
    /\ IsPartialFunction(p, Key, {p[k] : k \in DOMAIN p})
    /\ \A k \in DOMAIN p : EntryOK(k, p[k], live, t)

FibOK(table, live) ==
    /\ IsPartialFunction(table, Name, {table[p] : p \in DOMAIN table})
    /\ \A p \in DOMAIN table : /\ IsPartialFunction(table[p], Face, Nat)
                               /\ DOMAIN table[p] \subseteq live
                               /\ DOMAIN table[p] # {}

IInv ==
    /\ now \in Nat
    /\ faces \subseteq Face
    /\ FibOK(fib, faces)
    /\ PitOK(pit, faces, now)
    /\ IsPartialFunction(cs, Data, Nat)
    /\ dnl \subseteq Name \X Nat
    /\ sent \subseteq Packet

\* A step that writes one entry has to establish the invariant for that entry.
LEMMA PutEntry ==
  ASSUME NEW p, NEW live, NEW t, PitOK(p, live, t), NEW k \in Key, NEW e, EntryOK(k, e, live, t)
  PROVE  PitOK(Put(p, k, e), live, t)
  BY DEF PitOK, Put, IsPartialFunction

\* Erasing an entry keeps the invariant of the PIT.
LEMMA DropEntry ==
  ASSUME NEW p, NEW live, NEW t, PitOK(p, live, t), NEW k
  PROVE  PitOK(Drop(p, k), live, t)
  BY DEF PitOK, Drop, IsPartialFunction

\* The entry an Interest belongs to, found or new, is in order but for its timer.
LEMMA PitEntryOK ==
  ASSUME IInv, NEW k \in Key
  PROVE  /\ IsEntry(PitEntry(k))
         /\ DOMAIN PitEntry(k).in \cup DOMAIN PitEntry(k).out \subseteq faces
         /\ k.name \in Localhost => /\ DOMAIN PitEntry(k).in \subseteq Local
                                    /\ DOMAIN PitEntry(k).out \subseteq Local \cup NextHopFaceId
<1>1. CASE k \in DOMAIN pit
  BY <1>1 DEF IInv, PitOK, EntryOK, PitEntry
<1>2. CASE k \notin DOMAIN pit
  BY <1>2, NewEntryIsEntry DEF PitEntry, NewEntry
<1> QED
  BY <1>1, <1>2

\* Longest prefix match finds next hops that are faces of the face table.
LEMMA NextHopsLive ==
  ASSUME IInv, NEW name
  PROVE  DOMAIN NextHops(name) \subseteq faces
<1> DEFINE matches == {p \in DOMAIN fib : <<p, name>> \in Prefix}
           longest == {p \in matches : \A q \in matches : <<q, p>> \in Prefix}
<1>1. CASE longest = {}
  BY <1>1 DEF NextHops
<1>2. CASE longest # {}
  <2>1. NextHops(name) = fib[CHOOSE p \in longest : TRUE]
    BY <1>2 DEF NextHops
  <2>2. (CHOOSE p \in longest : TRUE) \in DOMAIN fib
    BY <1>2
  <2> QED
    BY <2>1, <2>2 DEF IInv, FibOK
<1> QED
  BY <1>1, <1>2

\* Inserting into the Content Store keeps its type.
LEMMA CsInsert ==
  ASSUME IInv, NEW d \in Data, NEW c \in CsAfterInsert(d)
  PROVE  IsPartialFunction(c, Data, Nat)
<1> DEFINE full == Put(cs, d, now + d.freshness)
<1>1. now + d.freshness \in Nat
  <2>1. d.freshness \in Nat
    BY ForwarderAssumption DEF Data
  <2>2. now \in Nat
    BY DEF IInv
  <2> QED
    BY <2>1, <2>2
<1>2. IsPartialFunction(full, Data, Nat)
  BY <1>1 DEF IInv, Put, IsPartialFunction
<1>3. c = cs \/ c = full \/ \E x \in DOMAIN full : c = Drop(full, x)
  BY DEF CsAfterInsert
<1> HIDE DEF full
<1> QED
  BY <1>2, <1>3 DEF IInv, Drop, IsPartialFunction

\* What insertDeadNonceList adds are names with Nonces.
LEMMA DeadNoncesType ==
  ASSUME NEW k \in Key, NEW e, IsEntry(e), NEW F
  PROVE  DeadNonces(e, k, F) \subseteq Name \X Nat
<1>1. k.name \in Name
  BY DEF Key
<1>2. \A f \in DOMAIN e.out : e.out[f].nonce \in Nat
  BY DEF IsEntry, IsPartialFunction, OutRecord
<1> QED
  BY <1>1, <1>2 DEF DeadNonces

\* The faces an Interest may be forwarded to: live ones, and for /localhost local
\* ones or the one its NextHopFaceId tag names.
HopsOK(i, hops) ==
    /\ hops \subseteq faces
    /\ i.name \in Localhost => hops \subseteq Local \cup NextHopFaceId

\* Strategy or NextHopFaceId tag: forwarding involves live faces only, and keeps
\* the timer unless no upstream is left pending.
LEMMA ForwardOutcome ==
  ASSUME IInv, NEW e, IsEntry(e), NEW i \in Interest, NEW f \in Face, NEW o \in Forward(e, f, i)
  PROVE  \E hops : /\ HopsOK(i, hops)
                   /\ MayBecome(e, o, hops, now)
                   /\ StrategyOf[i.name] # "multicast" => KeepsWaiting(e, o, now)
<1> DEFINE nh == NextHops(i.name)
<1>1. now \in Nat /\ faces \subseteq Face
  BY DEF IInv
<1>2. DOMAIN nh \subseteq faces
  BY NextHopsLive
<1>3. CASE i.nexthop = NoFace
  <2>1. o \in afterReceiveInterest(e, f, i, nh, now)
    BY <1>3 DEF Forward
  <2>2. HopsOK(i, ScopedHops(f, i, nh))
    BY <1>2 DEF HopsOK, ScopedHops, wouldViolateScope
  <2> HIDE DEF nh
  <2> QED
    BY <1>1, <1>2, <2>1, <2>2, AfterReceiveInterest
<1>4. CASE i.nexthop # NoFace /\ i.nexthop \in faces
  <2>1. o = onOutgoingInterest(e, i.nexthop, i, now)
    BY <1>4 DEF Forward
  <2>2. HopsOK(i, {i.nexthop})
    BY <1>4 DEF HopsOK, Interest
  <2>3. i.nexthop \in Face \cap {i.nexthop}
    BY <1>1, <1>4
  <2> QED
    BY <1>1, <2>1, <2>2, <2>3, OutgoingInterest
<1>5. CASE i.nexthop # NoFace /\ i.nexthop \notin faces
  <2>1. o = Outcome(e, {})
    BY <1>5 DEF Forward
  <2>2. HopsOK(i, {}) /\ MayBecome(e, o, {}, now) /\ KeepsWaiting(e, o, now)
    BY <2>1 DEF HopsOK, Outcome, MayBecome, KeepsWaiting
  <2> QED
    BY <2>2
<1> QED
  BY <1>3, <1>4, <1>5

\* The fields of an Interest that arrives.
LEMMA InterestType ==
  ASSUME NEW i \in Interest
  PROVE  /\ KeyOf(i) \in Key /\ KeyOf(i).name = i.name
         /\ i.nonce \in Nat /\ i.lifetime \in Nat /\ i.name \in Name
  BY ForwarderAssumption DEF Interest, Key, KeyOf

\* The Content Store miss pipeline keeps the invariant.
LEMMA MissStep ==
  ASSUME IInv, NEW f \in Face, NEW i \in Interest, onContentStoreMiss(f, i)
  PROVE  IInv'
<1> DEFINE k == KeyOf(i)
           e0 == PitEntry(k)
           e1 == insertOrUpdateInRecord(e0, f, i, now)
<1>0. PICK last \in LastExpiring(e1) :
        \E o \in Forward(setExpiryTimer(e1, e1.in[last].expiry), f, i) :
            pit' = Put(pit, k, o.entry) /\ sent' = o.sent
  BY DEF onContentStoreMiss
<1>1. PICK o \in Forward(setExpiryTimer(e1, e1.in[last].expiry), f, i) :
        pit' = Put(pit, k, o.entry) /\ sent' = o.sent
  BY <1>0
<1>2. /\ f \in faces /\ ~ViolatesLocalhost(f, i.name)
      /\ now' = now /\ faces' = faces /\ fib' = fib /\ cs' = cs /\ dnl' = dnl
  BY DEF onContentStoreMiss
<1>3. now \in Nat /\ faces \subseteq Face
  BY DEF IInv
<1>4. k \in Key /\ k.name = i.name /\ i.nonce \in Nat /\ i.lifetime \in Nat
  BY InterestType
<1> HIDE DEF k
<1>5. /\ IsEntry(e0)
      /\ DOMAIN e0.in \cup DOMAIN e0.out \subseteq faces
      /\ k.name \in Localhost => /\ DOMAIN e0.in \subseteq Local
                                 /\ DOMAIN e0.out \subseteq Local \cup NextHopFaceId
  BY <1>4, PitEntryOK
<1> HIDE DEF e0
<1>6. IsEntry(e1) /\ DOMAIN e1.in = DOMAIN e0.in \cup {f} /\ e1.out = e0.out
  <2>1. IsEntry(e0) /\ now \in Nat /\ i.nonce \in Nat /\ i.lifetime \in Nat
    BY <1>3, <1>4, <1>5
  <2> QED
    BY <2>1, InsertInRecord
<1> HIDE DEF e1
<1>7. last \in DOMAIN e1.in /\ \A g \in DOMAIN e1.in : e1.in[g].expiry <= e1.in[last].expiry
  BY <1>0 DEF LastExpiring
<1>8. e1.in[last].expiry \in Nat
  BY <1>6, <1>7 DEF IsEntry, IsPartialFunction, InRecord
<1> DEFINE e2 == setExpiryTimer(e1, e1.in[last].expiry)
<1>9. /\ IsEntry(e2) /\ e2.in = e1.in /\ e2.out = e1.out /\ e2.timer = e1.in[last].expiry
  BY <1>6, <1>8, SetTimer
<1> HIDE DEF e2
<1>10. PICK hops : /\ HopsOK(i, hops)
                   /\ MayBecome(e2, o, hops, now)
                   /\ StrategyOf[i.name] # "multicast" => KeepsWaiting(e2, o, now)
  BY <1>1, <1>9, ForwardOutcome DEF e2
<1>11. EntryOK(k, o.entry, faces, now)
  <2>1. IsEntry(o.entry) /\ o.entry.timer \in Nat
    BY <1>3, <1>8, <1>9, <1>10 DEF MayBecome
  <2>2. DOMAIN o.entry.in \subseteq DOMAIN e0.in \cup {f} /\ DOMAIN o.entry.out \subseteq DOMAIN e0.out \cup hops
    BY <1>6, <1>9, <1>10 DEF MayBecome
  <2>3. DOMAIN o.entry.in \cup DOMAIN o.entry.out \subseteq faces
    BY <1>2, <1>5, <1>10, <2>2 DEF HopsOK
  <2>4. k.name \in Localhost => /\ DOMAIN o.entry.in \subseteq Local
                                /\ DOMAIN o.entry.out \subseteq Local \cup NextHopFaceId
    BY <1>2, <1>4, <1>5, <1>10, <2>2 DEF HopsOK, ViolatesLocalhost
  <2>5. StrategyOf[k.name] # "multicast" /\ hasPendingOutRecords(o.entry, now)
          => \A g \in DOMAIN o.entry.in : o.entry.in[g].expiry <= o.entry.timer
    BY <1>4, <1>7, <1>9, <1>10 DEF MayBecome, KeepsWaiting
  <2> QED
    BY <2>1, <2>3, <2>4, <2>5 DEF EntryOK
<1>12. PitOK(pit', faces, now)
  BY <1>1, <1>4, <1>11, PutEntry DEF IInv
<1>13. sent' \subseteq Packet
  BY <1>1, <1>10 DEF MayBecome
<1> QED
  BY <1>2, <1>12, <1>13 DEF IInv

\* Looping and out-of-scope packets leave all tables alone.
LEMMA LoopStep ==
  ASSUME IInv, NEW f \in Face, NEW i \in Interest, onInterestLoop(f, i)
  PROVE  IInv'
<1>1. {NackPacket(f, i.name, i.nonce, DUPLICATE)} \subseteq Packet
  BY InterestType DEF NackPacket, Packet, NackReason
<1>2. sent' \subseteq Packet
  BY <1>1 DEF onInterestLoop
<1> QED
  BY <1>2 DEF onInterestLoop, IInv

\* The Content Store hit pipeline keeps the invariant.
LEMMA HitStep ==
  ASSUME IInv, NEW f \in Face, NEW i \in Interest, onContentStoreHit(f, i)
  PROVE  IInv'
<1> DEFINE k == KeyOf(i)
           e0 == PitEntry(k)
           e1(d) == [e0 EXCEPT !.satisfied = TRUE, !.freshness = d.freshness]
<1>1. PICK d \in CsMatches(i) :
        pit' = Put(pit, k, setExpiryTimer(e1(d), now)) /\ sent' = onOutgoingData(d.name, f)
  BY DEF onContentStoreHit
<1>2. now' = now /\ faces' = faces /\ fib' = fib /\ cs' = cs /\ dnl' = dnl
  BY DEF onContentStoreHit
<1>3. k \in Key
  BY InterestType
<1> HIDE DEF k
<1>4. /\ IsEntry(e0)
      /\ DOMAIN e0.in \cup DOMAIN e0.out \subseteq faces
      /\ k.name \in Localhost => /\ DOMAIN e0.in \subseteq Local
                                 /\ DOMAIN e0.out \subseteq Local \cup NextHopFaceId
  BY <1>3, PitEntryOK
<1> HIDE DEF e0
<1>5. d \in Data
  BY DEF CsMatches, IInv, IsPartialFunction
<1>6. d.freshness \in Nat /\ d.name \in Name
  BY <1>5, ForwarderAssumption DEF Data
<1>7. /\ IsEntry(e1(d)) /\ e1(d).in = e0.in /\ e1(d).out = e0.out /\ e1(d).satisfied
  BY <1>4, <1>6, SetSatisfied
<1> DEFINE e2 == setExpiryTimer(e1(d), now)
<1> HIDE DEF e1
<1>8. now \in Nat
  BY DEF IInv
<1>9. IsEntry(e2) /\ e2.in = e0.in /\ e2.out = e0.out /\ e2.satisfied /\ e2.timer = now
  BY <1>7, <1>8, SetTimer
<1>10. pit' = Put(pit, k, e2)
  BY <1>1
<1> HIDE DEF e2
<1>11. EntryOK(k, e2, faces, now)
  BY <1>4, <1>8, <1>9 DEF EntryOK
<1>12. PitOK(pit', faces, now)
  BY <1>3, <1>10, <1>11, PutEntry DEF IInv
<1>13. sent' \subseteq Packet
  BY <1>1, <1>6 DEF onOutgoingData, DataPacket, Packet, NackReason
<1> QED
  BY <1>2, <1>12, <1>13 DEF IInv

\* Interest finalize keeps the invariant.
LEMMA FinalizeStep ==
  ASSUME IInv, NEW k \in Key, onInterestFinalize(k)
  PROVE  IInv'
<1>1. IsEntry(pit[k])
  BY DEF onInterestFinalize, IInv, PitOK, EntryOK
<1>2. dnl' \subseteq Name \X Nat
  BY <1>1, DeadNoncesType DEF onInterestFinalize, IInv
<1>3. PitOK(pit', faces, now)
  BY DropEntry DEF onInterestFinalize, IInv
<1> QED
  BY <1>2, <1>3 DEF onInterestFinalize, IInv

\* Unsolicited Data keeps the invariant.
LEMMA UnsolicitedStep ==
  ASSUME IInv, NEW f \in Face, NEW d \in Data, onDataUnsolicited(f, d)
  PROVE  IInv'
<1>1. IsPartialFunction(cs', Data, Nat)
  BY CsInsert DEF onDataUnsolicited, IInv
<1> QED
  BY <1>1 DEF onDataUnsolicited, IInv

\* What incoming Data does to a matched entry.
LEMMA SatisfiedEntry ==
  ASSUME IInv, NEW d \in Data, NEW e, IsEntry(e)
  PROVE  LET s == Satisfied(e, d) IN
         /\ IsEntry(s) /\ s.in = e.in /\ s.out = e.out /\ s.timer = now /\ s.satisfied
<1>1. now \in Nat
  BY DEF IInv
<1>2. d.freshness \in Nat
  BY ForwarderAssumption DEF Data
<1> QED
  BY <1>1, <1>2 DEF Satisfied, setExpiryTimer, IsEntry

\* Incoming Data that matches one entry keeps the invariant.
LEMMA SatisfyOneStep ==
  ASSUME IInv, NEW f \in Face, NEW d \in Data, SatisfyOne(f, d)
  PROVE  IInv'
<1> DEFINE o(k) == sendDataToAll(pit[k], f, d.name, now)
           e(k) == Satisfied(o(k).entry, d)
<1>1. PICK k \in DOMAIN pit : /\ pit' = Put(pit, k, deleteOutRecord(e(k), f))
                              /\ dnl' = dnl \cup DeadNonces(e(k), k, {f})
                              /\ sent' = o(k).sent
  BY DEF SatisfyOne
<1>2. now' = now /\ faces' = faces /\ fib' = fib /\ cs' \in CsAfterInsert(d)
  BY DEF SatisfyOne
<1>3. k \in Key /\ EntryOK(k, pit[k], faces, now) /\ now \in Nat
  BY DEF IInv, PitOK, IsPartialFunction
<1>4. IsEntry(pit[k]) /\ d.name \in Name
  BY <1>3 DEF EntryOK, Data
<1>5. MayBecome(pit[k], o(k), {}, now) /\ o(k).entry.out = pit[k].out
  BY <1>3, <1>4, SendDataToAll
<1> HIDE DEF o
<1>6. IsEntry(o(k).entry)
  BY <1>5 DEF MayBecome
<1>7. /\ IsEntry(e(k)) /\ e(k).in = o(k).entry.in /\ e(k).out = o(k).entry.out
      /\ e(k).timer = now /\ e(k).satisfied
  BY <1>6, SatisfiedEntry
<1> HIDE DEF e
<1> DEFINE s == deleteOutRecord(e(k), f)
<1>8. /\ IsEntry(s) /\ s.in = e(k).in /\ DOMAIN s.out \subseteq DOMAIN e(k).out
      /\ s.timer = now /\ s.satisfied
  BY <1>7, DeleteOutRecord
<1>9. pit' = Put(pit, k, s)
  BY <1>1
<1> HIDE DEF s
<1>10. DOMAIN s.in \subseteq DOMAIN pit[k].in /\ DOMAIN s.out \subseteq DOMAIN pit[k].out
  BY <1>5, <1>7, <1>8 DEF MayBecome
<1>11. EntryOK(k, s, faces, now)
  BY <1>3, <1>8, <1>10 DEF EntryOK
<1>12. PitOK(pit', faces, now)
  BY <1>3, <1>9, <1>11, PutEntry DEF IInv
<1>13. sent' \subseteq Packet
  BY <1>1, <1>5 DEF MayBecome
<1>14. dnl' \subseteq Name \X Nat
  BY <1>1, <1>3, <1>7, DeadNoncesType DEF IInv
<1>15. IsPartialFunction(cs', Data, Nat)
  BY <1>2, CsInsert
<1> QED
  BY <1>2, <1>12, <1>13, <1>14, <1>15 DEF IInv

\* Incoming Data that matches several entries keeps the invariant.
LEMMA SatisfyManyStep ==
  ASSUME IInv, NEW f \in Face, NEW d \in Data, SatisfyMany(f, d)
  PROVE  IInv'
<1> DEFINE matches == DataMatches(d)
           satisfied == [k \in matches |-> Satisfied(pit[k], d)]
           pending ==
            UNION {{g \in DOMAIN pit[k].in : pit[k].in[g].expiry > now} : k \in matches}
           e(k) == IF k \in matches THEN deleteOutRecord(clearInRecords(satisfied[k]), f)
                                    ELSE pit[k]
<1>1. /\ pit' = [k \in DOMAIN pit |-> e(k)]
      /\ dnl' = dnl \cup UNION {DeadNonces(satisfied[k], k, {f}) : k \in matches}
      /\ sent' = UNION {onOutgoingData(d.name, g) :
                            g \in {h \in pending : h # f \/ LinkType[h] = "ad-hoc"}}
      /\ now' = now /\ faces' = faces /\ fib' = fib /\ cs' \in CsAfterInsert(d)
  BY DEF SatisfyMany
<1>2. matches \subseteq DOMAIN pit
  BY DEF DataMatches
<1>3. \A k \in DOMAIN pit : k \in Key /\ EntryOK(k, pit[k], faces, now)
  BY DEF IInv, PitOK, IsPartialFunction
<1>4. now \in Nat /\ d.name \in Name
  BY DEF IInv, Data
<1> HIDE DEF matches
<1>5. \A k \in matches : /\ IsEntry(satisfied[k]) /\ satisfied[k].out = pit[k].out
                         /\ satisfied[k].timer = now /\ satisfied[k].satisfied
  BY <1>2, <1>3, SatisfiedEntry DEF EntryOK
<1> HIDE DEF satisfied
<1>6. \A k \in DOMAIN pit : EntryOK(k, e(k), faces, now)
  <2> SUFFICES ASSUME NEW k \in DOMAIN pit PROVE EntryOK(k, e(k), faces, now)
    OBVIOUS
  <2>1. CASE k \in matches
    <3> DEFINE c == clearInRecords(satisfied[k])
               s == deleteOutRecord(c, f)
    <3>1. /\ IsEntry(c) /\ DOMAIN c.in = {} /\ c.out = pit[k].out /\ c.timer = now /\ c.satisfied
      BY <1>5, <2>1, ClearInRecords
    <3> HIDE DEF c
    <3>2. /\ IsEntry(s) /\ s.in = c.in /\ DOMAIN s.out \subseteq DOMAIN c.out
          /\ s.timer = now /\ s.satisfied
      BY <3>1, DeleteOutRecord
    <3>3. e(k) = s
      BY <2>1 DEF c
    <3> HIDE DEF s
    <3> QED
      BY <1>3, <1>4, <3>1, <3>2, <3>3 DEF EntryOK
  <2>2. CASE k \notin matches
    BY <1>3, <2>2
  <2> QED
    BY <2>1, <2>2
<1> HIDE DEF e
<1>7. PitOK(pit', faces, now)
  BY <1>1, <1>3, <1>6 DEF PitOK, IsPartialFunction
<1>8. sent' \subseteq Packet
  <2>1. \A g \in pending : g \in Face
    BY <1>2, <1>3 DEF EntryOK, IsEntry, IsPartialFunction
  <2> HIDE DEF pending
  <2>2. \A g \in pending : onOutgoingData(d.name, g) \subseteq Packet
    BY <1>4, <2>1 DEF onOutgoingData, DataPacket, Packet, NackReason
  <2> QED
    BY <1>1, <2>2
<1>9. dnl' \subseteq Name \X Nat
  <2>1. \A k \in matches : DeadNonces(satisfied[k], k, {f}) \subseteq Name \X Nat
    BY <1>2, <1>3, <1>5, DeadNoncesType
  <2> QED
    BY <1>1, <2>1 DEF IInv
<1>10. IsPartialFunction(cs', Data, Nat)
  BY <1>1, CsInsert
<1> QED
  BY <1>1, <1>7, <1>8, <1>9, <1>10 DEF IInv

\* The incoming Nack pipeline keeps the invariant.
LEMMA NackStep ==
  ASSUME IInv, NEW f \in Face, NEW k \in Key, NEW n, NEW r \in NackReason,
         onIncomingNack(f, k, n, r)
  PROVE  IInv'
<1> DEFINE e1 == setIncomingNack(pit[k], f, r)
           e2 == IF hasPendingOutRecords(e1, now) THEN e1 ELSE setExpiryTimer(e1, now)
           o == afterReceiveNack(e2, k.name)
<1>1. /\ pit' = Put(pit, k, o.entry) /\ sent' = o.sent
      /\ now' = now /\ faces' = faces /\ fib' = fib /\ cs' = cs /\ dnl' = dnl
      /\ k \in DOMAIN pit /\ f \in DOMAIN pit[k].out
  BY DEF onIncomingNack, AcceptsNack
<1>2. EntryOK(k, pit[k], faces, now) /\ now \in Nat /\ k.name \in Name
  BY <1>1 DEF IInv, PitOK, Key
<1>3. /\ IsEntry(e1) /\ e1.in = pit[k].in /\ DOMAIN e1.out = DOMAIN pit[k].out
      /\ e1.timer = pit[k].timer /\ e1.satisfied = pit[k].satisfied
      /\ hasPendingOutRecords(e1, now) => hasPendingOutRecords(pit[k], now)
  <2> DEFINE m == Put(pit[k].out, f, [pit[k].out[f] EXCEPT !.nack = r])
  <2>1. IsEntry(pit[k]) /\ IsPartialFunction(pit[k].out, Face, OutRecord)
    BY <1>2 DEF EntryOK, IsEntry
  <2>2. [pit[k].out[f] EXCEPT !.nack = r] \in OutRecord /\ [pit[k].out[f] EXCEPT !.nack = r].nack = r
    BY <1>1, <2>1 DEF IsPartialFunction, OutRecord
  <2>3. /\ IsPartialFunction(m, Face, OutRecord) /\ DOMAIN m = DOMAIN pit[k].out
        /\ m[f].nack = r
        /\ \A g \in DOMAIN m : g # f => m[g] = pit[k].out[g]
    BY <1>1, <2>1, <2>2 DEF Put, IsPartialFunction
  <2>4. e1 = [pit[k] EXCEPT !.out = m]
    BY <2>1 DEF setIncomingNack, IsEntry
  <2> HIDE DEF m, e1
  <2>5. /\ IsEntry(e1) /\ e1.in = pit[k].in /\ e1.out = m
        /\ e1.timer = pit[k].timer /\ e1.satisfied = pit[k].satisfied
    BY <2>1, <2>3, <2>4 DEF IsEntry
  <2>6. r # NotNacked
    BY DEF NackReason, NotNacked, NONE, CONGESTION, DUPLICATE, NO_ROUTE
  <2> QED
    BY <2>3, <2>5, <2>6 DEF hasPendingOutRecords
<1> HIDE DEF e1
<1>4. /\ IsEntry(e2) /\ e2.in = e1.in /\ e2.out = e1.out /\ e2.satisfied = e1.satisfied
      /\ e2.timer \in Nat
      /\ hasPendingOutRecords(e1, now) => e2.timer = e1.timer
  BY <1>2, <1>3, SetTimer DEF EntryOK
<1> HIDE DEF e2
<1>5. /\ MayBecome(e2, o, {}, now) /\ o.entry.out = e2.out /\ o.entry.timer = e2.timer
  BY <1>2, <1>4, AfterReceiveNack
<1> HIDE DEF o
<1>6. /\ IsEntry(o.entry) /\ o.entry.satisfied = pit[k].satisfied
      /\ DOMAIN o.entry.in \subseteq DOMAIN pit[k].in
      /\ DOMAIN o.entry.out = DOMAIN pit[k].out
      /\ \A g \in DOMAIN o.entry.in : o.entry.in[g] = pit[k].in[g]
  BY <1>3, <1>4, <1>5 DEF MayBecome
<1>7. hasPendingOutRecords(o.entry, now) => hasPendingOutRecords(e1, now)
  BY <1>4, <1>5 DEF hasPendingOutRecords
<1>8. /\ o.entry.timer \in Nat
      /\ hasPendingOutRecords(o.entry, now) =>
            hasPendingOutRecords(pit[k], now) /\ o.entry.timer = pit[k].timer
  BY <1>3, <1>4, <1>5, <1>7
<1>9. EntryOK(k, o.entry, faces, now)
  BY <1>2, <1>6, <1>8 DEF EntryOK
<1>10. PitOK(pit', faces, now)
  BY <1>1, <1>9, PutEntry DEF IInv
<1>11. sent' \subseteq Packet
  BY <1>1, <1>5 DEF MayBecome
<1> QED
  BY <1>1, <1>10, <1>11 DEF IInv

\* FaceTable::remove with its cleanup keeps the invariant.
LEMMA RemoveFaceStep ==
  ASSUME IInv, NEW f \in Face, RemoveFace(f)
  PROVE  IInv'
<1> DEFINE e(k) == deleteOutRecord(deleteInRecord(pit[k], f), f)
<1>1. /\ faces' = faces \ {f} /\ sent' = {} /\ now' = now /\ cs' = cs /\ dnl' = dnl
      /\ pit' = [k \in DOMAIN pit |-> e(k)]
      /\ fib' = [p \in {q \in DOMAIN fib : ~(DOMAIN fib[q] \subseteq {f})} |-> Drop(fib[p], f)]
  BY DEF RemoveFace
<1>2. \A k \in DOMAIN pit : EntryOK(k, e(k), faces', now)
  <2> SUFFICES ASSUME NEW k \in DOMAIN pit PROVE EntryOK(k, e(k), faces', now)
    OBVIOUS
  <2> DEFINE c == deleteInRecord(pit[k], f)
             s == deleteOutRecord(c, f)
  <2>1. EntryOK(k, pit[k], faces, now) /\ IsEntry(pit[k])
    BY DEF IInv, PitOK, EntryOK
  <2>2. /\ IsEntry(c) /\ DOMAIN c.in = DOMAIN pit[k].in \ {f}
        /\ \A z \in DOMAIN pit[k].in : z # f => c.in[z] = pit[k].in[z]
        /\ c.out = pit[k].out /\ c.timer = pit[k].timer /\ c.satisfied = pit[k].satisfied
    BY <2>1, DeleteInRecord
  <2> HIDE DEF c
  <2>3. /\ IsEntry(s) /\ DOMAIN s.out = DOMAIN c.out \ {f}
        /\ \A z \in DOMAIN c.out : z # f => s.out[z] = c.out[z]
        /\ s.in = c.in /\ s.timer = c.timer /\ s.satisfied = c.satisfied
    BY <2>2, DeleteOutRecord
  <2>4. e(k) = s
    BY DEF c
  <2> HIDE DEF s, e
  <2>5. hasPendingOutRecords(s, now) => hasPendingOutRecords(pit[k], now)
    BY <2>2, <2>3 DEF hasPendingOutRecords
  <2> QED
    BY <1>1, <2>1, <2>2, <2>3, <2>4, <2>5 DEF EntryOK
<1> HIDE DEF e
<1>3. PitOK(pit', faces', now)
  BY <1>1, <1>2 DEF PitOK, IInv, IsPartialFunction
<1>4. FibOK(fib', faces')
  <2>1. \A p \in DOMAIN fib' : p \in DOMAIN fib /\ ~(DOMAIN fib[p] \subseteq {f}) /\ fib'[p] = Drop(fib[p], f)
    BY <1>1
  <2>2. \A p \in DOMAIN fib : /\ IsPartialFunction(fib[p], Face, Nat)
                              /\ DOMAIN fib[p] \subseteq faces
    BY DEF IInv, FibOK
  <2>3. \A p \in DOMAIN fib' : /\ IsPartialFunction(fib'[p], Face, Nat)
                               /\ DOMAIN fib'[p] \subseteq faces'
                               /\ DOMAIN fib'[p] # {}
    BY <1>1, <2>1, <2>2 DEF Drop, IsPartialFunction
  <2>4. DOMAIN fib' \subseteq Name
    BY <2>1 DEF IInv, FibOK, IsPartialFunction
  <2>5. fib' \in [DOMAIN fib' -> {fib'[p] : p \in DOMAIN fib'}]
    BY <1>1
  <2> QED
    BY <2>3, <2>4, <2>5 DEF FibOK, IsPartialFunction
<1> QED
  BY <1>1, <1>3, <1>4 DEF IInv

\* Adding a next hop keeps the invariant.
LEMMA AddNextHopStep ==
  ASSUME IInv, NEW r \in Route, addNextHop(r[1], r[2], r[3])
  PROVE  IInv'
<1> DEFINE old == IF r[1] \in DOMAIN fib THEN fib[r[1]] ELSE [g \in {} |-> 0]
           new == Put(old, r[2], r[3])
<1>1. r[1] \in Name /\ r[2] \in Face /\ r[3] \in Nat
  BY ForwarderAssumption
<1>2. r[2] \in faces /\ fib' = Put(fib, r[1], new) /\ UNCHANGED <<now, faces, pit, cs, dnl>> /\ sent' = {}
  BY DEF addNextHop
<1>3. IsPartialFunction(old, Face, Nat) /\ DOMAIN old \subseteq faces
  BY DEF IInv, FibOK, IsPartialFunction
<1> HIDE DEF old
<1>4. IsPartialFunction(new, Face, Nat) /\ DOMAIN new \subseteq faces /\ DOMAIN new # {}
  BY <1>1, <1>2, <1>3 DEF Put, IsPartialFunction
<1> HIDE DEF new
<1>5. FibOK(fib', faces)
  BY <1>1, <1>2, <1>4 DEF IInv, FibOK, Put, IsPartialFunction
<1> QED
  BY <1>2, <1>5 DEF IInv

\* Removing a next hop keeps the invariant: no FIB entry is left empty.
LEMMA RemoveNextHopStep ==
  ASSUME IInv, NEW p \in Name, NEW f \in Face, removeNextHop(p, f)
  PROVE  IInv'
<1>1. /\ p \in DOMAIN fib /\ UNCHANGED <<now, faces, pit, cs, dnl>> /\ sent' = {}
      /\ fib' = IF DOMAIN fib[p] \subseteq {f} THEN Drop(fib, p) ELSE Put(fib, p, Drop(fib[p], f))
  BY DEF removeNextHop, WithoutNextHop
<1>2. FibOK(fib, faces)
  BY DEF IInv
<1>3. CASE DOMAIN fib[p] \subseteq {f}
  <2>1. FibOK(fib', faces)
    BY <1>1, <1>2, <1>3 DEF FibOK, Drop, IsPartialFunction
  <2> QED
    BY <1>1, <2>1 DEF IInv
<1>4. CASE ~(DOMAIN fib[p] \subseteq {f})
  <2> DEFINE new == Drop(fib[p], f)
  <2>1. IsPartialFunction(new, Face, Nat) /\ DOMAIN new \subseteq faces /\ DOMAIN new # {}
    BY <1>1, <1>2, <1>4 DEF FibOK, Drop, IsPartialFunction
  <2>2. fib' = Put(fib, p, new)
    BY <1>1, <1>4
  <2> HIDE DEF new
  <2>3. FibOK(fib', faces)
    BY <1>2, <2>1, <2>2 DEF FibOK, Put, IsPartialFunction
  <2> QED
    BY <1>1, <2>3 DEF IInv
<1> QED
  BY <1>3, <1>4

\* The passing of time keeps the invariant: out-records only stop being pending.
LEMMA TickStep ==
  ASSUME IInv, Tick
  PROVE  IInv'
<1>1. now \in Nat /\ now' = now + 1 /\ UNCHANGED <<faces, fib, pit, cs, dnl>> /\ sent' = {}
  BY DEF Tick, IInv
<1>2. \A k \in DOMAIN pit : EntryOK(k, pit[k], faces, now + 1)
  <2> SUFFICES ASSUME NEW k \in DOMAIN pit PROVE EntryOK(k, pit[k], faces, now + 1)
    OBVIOUS
  <2>1. EntryOK(k, pit[k], faces, now)
    BY DEF IInv, PitOK
  <2>2. \A f \in DOMAIN pit[k].out : pit[k].out[f].expiry \in Nat
    BY <2>1 DEF EntryOK, IsEntry, IsPartialFunction, OutRecord
  <2>3. hasPendingOutRecords(pit[k], now + 1) => hasPendingOutRecords(pit[k], now)
    BY <1>1, <2>2 DEF hasPendingOutRecords
  <2> QED
    BY <2>1, <2>3 DEF EntryOK
<1> QED
  BY <1>1, <1>2 DEF IInv, PitOK

\* The invariant holds when NFD starts.
LEMMA InitIInv == Init => IInv
  BY DEF Init, IInv, FibOK, PitOK, IsPartialFunction

\* Every pipeline, table update and timer keeps the invariant.
LEMMA NextIInv == IInv /\ [Next]_vars => IInv'
<1> SUFFICES ASSUME IInv, [Next]_vars PROVE IInv'
  OBVIOUS
<1>1. CASE \E f \in Face, i \in Interest : onIncomingInterest(f, i)
  <2>1. PICK f \in Face, i \in Interest : onIncomingInterest(f, i)
    BY <1>1
  <2>2. CASE InterestDrop(f, i)
    BY <2>2 DEF InterestDrop, IInv
  <2> QED
    BY <2>1, <2>2, LoopStep, HitStep, MissStep DEF onIncomingInterest
<1>2. CASE \E k \in Key : onInterestFinalize(k)
  BY <1>2, FinalizeStep
<1>3. CASE \E f \in Face, d \in Data : onIncomingData(f, d)
  <2>1. PICK f \in Face, d \in Data : onIncomingData(f, d)
    BY <1>3
  <2>2. CASE DataDrop(f, d)
    BY <2>2 DEF DataDrop, IInv
  <2> QED
    BY <2>1, <2>2, UnsolicitedStep, SatisfyOneStep, SatisfyManyStep DEF onIncomingData
<1>4. CASE \E f \in Face, k \in Key, n \in Nonce :
              NackDrop(f, k, n) \/ \E r \in NackReason : onIncomingNack(f, k, n, r)
  <2>1. PICK f \in Face, k \in Key, n \in Nonce :
              NackDrop(f, k, n) \/ \E r \in NackReason : onIncomingNack(f, k, n, r)
    BY <1>4
  <2>2. CASE NackDrop(f, k, n)
    BY <2>2 DEF NackDrop, IInv
  <2> QED
    BY <2>1, <2>2, NackStep
<1>5. CASE \E f \in Face : RemoveFace(f)
  BY <1>5, RemoveFaceStep
<1>6. CASE \E p \in Name, f \in Face : removeNextHop(p, f)
  BY <1>6, RemoveNextHopStep
<1>7. CASE \E r \in Route : addNextHop(r[1], r[2], r[3])
  BY <1>7, AddNextHopStep
<1>8. CASE DnlForget
  BY <1>8 DEF DnlForget, IInv
<1>9. CASE Tick
  BY <1>9, TickStep
<1>10. CASE UNCHANGED vars
  BY <1>10 DEF vars, IInv
<1> QED
  BY <1>1, <1>2, <1>3, <1>4, <1>5, <1>6, <1>7, <1>8, <1>9, <1>10 DEF Next

\* The inductive invariant holds throughout: what the pipelines rely on in the
\* tables is what every step leaves in them.
THEOREM Invariance == Spec => []IInv
  BY InitIInv, NextIInv, PTL DEF Spec

\* The state of the pipelines keeps its type: records and entries are well formed,
\* suppression intervals stay within RETX_SUPPRESSION_INITIAL and _MAX.
THEOREM TypeCorrect == Spec => []TypeOK
<1>1. IInv => TypeOK
  BY DEF IInv, TypeOK, FibOK, PitOK, EntryOK
<1> QED
  BY <1>1, Invariance, PTL

\* No PIT entry is without an expiry timer, whatever the pipelines do.
THEOREM EntriesExpire == Spec => []EveryEntryHasTimer
<1>1. IInv => EveryEntryHasTimer
  BY DEF IInv, PitOK, EntryOK, EveryEntryHasTimer, NoTimer
<1> QED
  BY <1>1, Invariance, PTL

\* Neither FIB nor PIT refers to a face that FaceTable::remove has removed.
THEOREM FacesCleanedUp == Spec => []NoDanglingFaces
<1>1. IInv => NoDanglingFaces
  BY DEF IInv, FibOK, PitOK, EntryOK, NoDanglingFaces
<1> QED
  BY <1>1, Invariance, PTL

\* Under best-route, v1 and v2, no entry expires before its downstreams do while
\* an upstream may still answer.
THEOREM DownstreamsKept == Spec => []PendingNotAbandoned
<1>1. IInv => PendingNotAbandoned
  BY DEF IInv, PitOK, EntryOK, PendingNotAbandoned
<1> QED
  BY <1>1, Invariance, PTL

-----------------------------------------------------------------------------
(* Scope control: what the packets of a step may be *)

ScopedData(S) == \A p \in S : p.type = "Data" /\ p.name \in Localhost => p.face \in Local

\* All Interests among the packets are i, sent to hops, with the in-records kept.
ForwardsOnly(e, o, i, hops) ==
    \A p \in o.sent :
        /\ p.type # "Data"
        /\ p.type = "Interest" => /\ p.face \in hops /\ p.name = i.name /\ p.nonce = i.nonce
                                  /\ o.entry.in = e.in

\* onOutgoingInterest sends the Interest to one of the hops.
LEMMA OutgoingInterestForwards ==
  ASSUME NEW e, IsEntry(e), NEW i \in Interest, NEW t \in Nat, NEW hops, NEW f \in Face \cap hops
  PROVE  ForwardsOnly(e, onOutgoingInterest(e, f, i, t), i, hops)
<1>1. insertOrUpdateOutRecord(e, f, i, t).in = e.in
  BY DEF insertOrUpdateOutRecord, IsEntry
<1> QED
  BY <1>1 DEF ForwardsOnly, onOutgoingInterest, Outcome, InterestPacket

\* An Interest without a next hop is not forwarded.
LEMMA NoNextHopForwards ==
  ASSUME NEW e, NEW i, NEW t, NEW hops, NEW f
  PROVE  ForwardsOnly(e, NoNextHop(e, f, i, t), i, hops)
<1>1. \A p \in onOutgoingNack(e, i.name, f, NO_ROUTE).sent : p.type = "Nack"
  BY DEF onOutgoingNack, Outcome, NackPacket
<1> QED
  BY <1>1 DEF NoNextHop, Outcome, ForwardsOnly

\* Every strategy asks wouldViolateScope about each next hop it uses.
LEMMA StrategyForwards ==
  ASSUME NEW e, IsEntry(e), NEW i \in Interest, NEW t \in Nat, NEW f \in Face,
         NEW nh, DOMAIN nh \subseteq Face,
         NEW o \in afterReceiveInterest(e, f, i, nh, t)
  PROVE  ForwardsOnly(e, o, i, ScopedHops(f, i, nh))
<1> DEFINE H == ScopedHops(f, i, nh)
           retx == [e EXCEPT !.interval = Double(e.interval)]
<1>1. StrategyOf[i.name] \in StrategyNames
  BY StrategyAssumption DEF Interest
<1>2. H \subseteq Face
  BY DEF ScopedHops
<1>3. IsEntry(retx) /\ retx.in = e.in
  <2>1. e.interval \in RetxInitial .. RetxMax
    BY DEF IsEntry
  <2> QED
    BY <2>1, DoubleInRange DEF IsEntry
<1>4. CASE StrategyOf[i.name] = "best-route"
  <2>1. o \in BestRouteAfterReceiveInterest(e, f, i, nh, t)
    BY <1>4 DEF afterReceiveInterest
  <2>2. \/ o = NoNextHop(e, f, i, t)
        \/ \E g \in H : o = onOutgoingInterest(e, g, i, t)
        \/ \E g \in H : o = onOutgoingInterest(retx, g, i, t)
        \/ o.sent = {}
    BY <2>1 DEF BestRouteAfterReceiveInterest, LowestCost, EarliestOutRecord, isNextHopEligible,
                ScopedHops, Outcome
  <2> HIDE DEF retx, H
  <2>3. CASE \E g \in H : o = onOutgoingInterest(retx, g, i, t)
    <3>1. ForwardsOnly(retx, o, i, H)
      BY <1>2, <1>3, <2>3, OutgoingInterestForwards
    <3> QED
      BY <1>3, <3>1 DEF ForwardsOnly, H
  <2>4. CASE \E g \in H : o = onOutgoingInterest(e, g, i, t)
    <3>1. ForwardsOnly(e, o, i, H)
      BY <1>2, <2>4, OutgoingInterestForwards
    <3> QED
      BY <3>1 DEF H
  <2>5. CASE o = NoNextHop(e, f, i, t)
    BY <2>5, NoNextHopForwards
  <2>6. CASE o.sent = {}
    BY <2>6 DEF ForwardsOnly
  <2> QED
    BY <2>2, <2>3, <2>4, <2>5, <2>6
<1>5. CASE StrategyOf[i.name] = "multicast"
  <2> DEFINE suppressed == {g \in DOMAIN nh : /\ g \in DOMAIN e.out
                                               /\ t - e.out[g].renewed < e.out[g].interval}
             chosen == {g \in DOMAIN nh \ suppressed : isNextHopEligible(f, i, g)}
             out == [g \in DOMAIN e.out \cup chosen |->
                        IF g \notin chosen THEN e.out[g]
                        ELSE IF g \notin DOMAIN e.out
                        THEN insertOrUpdateOutRecord(e, g, i, t).out[g]
                        ELSE [insertOrUpdateOutRecord(e, g, i, t).out[g] EXCEPT !.interval = Double(@)]]
  <2>1. \/ o = NoNextHop(e, f, i, t)
        \/ o = Outcome([e EXCEPT !.out = out], {InterestPacket(g, i) : g \in chosen})
    BY <1>5 DEF afterReceiveInterest, MulticastAfterReceiveInterest
  <2>2. chosen \subseteq H
    BY DEF isNextHopEligible, ScopedHops
  <2> HIDE DEF out, chosen, H
  <2>3. CASE o = Outcome([e EXCEPT !.out = out], {InterestPacket(g, i) : g \in chosen})
    <3>1. o.entry.in = e.in /\ o.sent = {InterestPacket(g, i) : g \in chosen}
      BY <2>3 DEF Outcome, IsEntry
    <3> QED
      BY <2>2, <3>1 DEF ForwardsOnly, InterestPacket, H
  <2> QED
    BY <2>1, <2>3, NoNextHopForwards
<1>6. CASE StrategyOf[i.name] = "best-route-v1"
  <2>1. o \in BestRouteV1AfterReceiveInterest(e, f, i, nh, t)
    BY <1>6 DEF afterReceiveInterest
  <2>2. o.sent = {} \/ \E g \in H : o = onOutgoingInterest(e, g, i, t)
    BY <2>1 DEF BestRouteV1AfterReceiveInterest, LowestCost, ScopedHops, Outcome
  <2> QED
    BY <1>2, <2>2, OutgoingInterestForwards DEF ForwardsOnly
<1> QED
  BY <1>1, <1>4, <1>5, <1>6 DEF StrategyNames

\* The Interests that the Content Store miss pipeline sends are within scope.
LEMMA MissScope ==
  ASSUME IInv, NEW f \in Face, NEW i \in Interest, onContentStoreMiss(f, i)
  PROVE  /\ ScopedData(sent')
         /\ \A p \in sent' :
              p.type = "Interest" /\ p.name \in Localhop /\ p.face \notin Local \cup NextHopFaceId
                => \E k \in DOMAIN pit' : /\ k.name = p.name
                                          /\ \E g \in DOMAIN pit'[k].in \cap Local :
                                                pit'[k].in[g].nonce = p.nonce
<1> DEFINE k == KeyOf(i)
           e0 == PitEntry(k)
           e1 == insertOrUpdateInRecord(e0, f, i, now)
<1>1. PICK last \in LastExpiring(e1) :
        \E o \in Forward(setExpiryTimer(e1, e1.in[last].expiry), f, i) :
            pit' = Put(pit, k, o.entry) /\ sent' = o.sent
  BY DEF onContentStoreMiss
<1> DEFINE e2 == setExpiryTimer(e1, e1.in[last].expiry)
<1>2. PICK o \in Forward(e2, f, i) : pit' = Put(pit, k, o.entry) /\ sent' = o.sent
  BY <1>1
<1>3. now \in Nat /\ faces \subseteq Face
  BY DEF IInv
<1>4. k \in Key /\ k.name = i.name /\ i.nonce \in Nat /\ i.lifetime \in Nat
  BY InterestType
<1> HIDE DEF k
<1>5. IsEntry(e0)
  BY <1>4, PitEntryOK
<1> HIDE DEF e0
<1>6. IsEntry(e1) /\ f \in DOMAIN e1.in /\ e1.in[f].nonce = i.nonce
  <2>1. IsEntry(e1) /\ DOMAIN e1.in = DOMAIN e0.in \cup {f} /\ e1.in[f].nonce = i.nonce
    BY <1>3, <1>4, <1>5, InsertInRecord
  <2> QED
    BY <2>1
<1>7. last \in DOMAIN e1.in
  BY <1>1 DEF LastExpiring
<1>8. e1.in[last].expiry \in Nat
  BY <1>6, <1>7 DEF IsEntry, IsPartialFunction, InRecord
<1> HIDE DEF e1
<1>9. IsEntry(e2) /\ e2.in = e1.in
  BY <1>6, <1>8, SetTimer
<1> HIDE DEF e2
<1>10. \E hops : /\ ForwardsOnly(e2, o, i, hops)
                 /\ i.name \in Localhop /\ f \notin Local => hops \subseteq Local \cup NextHopFaceId
  <2> DEFINE nh == NextHops(i.name)
  <2>1. DOMAIN nh \subseteq Face
    BY <1>3, NextHopsLive
  <2>2. CASE i.nexthop = NoFace
    <3>1. o \in afterReceiveInterest(e2, f, i, nh, now)
      BY <2>2 DEF Forward
    <3>2. i.name \in Localhop /\ f \notin Local => ScopedHops(f, i, nh) \subseteq Local
      BY DEF ScopedHops, wouldViolateScope
    <3> HIDE DEF nh
    <3>3. ForwardsOnly(e2, o, i, ScopedHops(f, i, nh))
      BY <1>3, <1>9, <2>1, <3>1, StrategyForwards
    <3> QED
      BY <3>2, <3>3
  <2>3. CASE i.nexthop # NoFace /\ i.nexthop \in faces
    <3>1. o = onOutgoingInterest(e2, i.nexthop, i, now)
      BY <2>3 DEF Forward
    <3>2. i.nexthop \in Face \cap NextHopFaceId
      BY <1>3, <2>3 DEF Interest
    <3>3. ForwardsOnly(e2, o, i, NextHopFaceId)
      BY <1>3, <1>9, <3>1, <3>2, OutgoingInterestForwards
    <3> QED
      BY <3>3
  <2>4. CASE i.nexthop # NoFace /\ i.nexthop \notin faces
    BY <2>4 DEF Forward, Outcome, ForwardsOnly
  <2> QED
    BY <2>2, <2>3, <2>4
<1>11. ScopedData(sent')
  BY <1>2, <1>10 DEF ScopedData, ForwardsOnly
<1>12. ASSUME NEW p \in sent', p.type = "Interest", p.name \in Localhop,
              p.face \notin Local \cup NextHopFaceId
       PROVE  \E j \in DOMAIN pit' : /\ j.name = p.name
                                     /\ \E g \in DOMAIN pit'[j].in \cap Local :
                                            pit'[j].in[g].nonce = p.nonce
  <2>1. p.name = i.name /\ p.nonce = i.nonce /\ o.entry.in = e2.in /\ f \in Local
    BY <1>2, <1>10, <1>12 DEF ForwardsOnly
  <2>2. k \in DOMAIN pit' /\ pit'[k] = o.entry
    BY <1>2 DEF Put
  <2> QED
    BY <1>4, <1>6, <1>9, <2>1, <2>2
<1> QED
  BY <1>11, <1>12

\* The rest of the steps send no Interest.
LEMMA RepliesScope ==
  ASSUME IInv, Next, ~ \E f \in Face, i \in Interest : onContentStoreMiss(f, i)
  PROVE  ScopedData(sent') /\ \A p \in sent' : p.type # "Interest"
<1> DEFINE OK(S) == ScopedData(S) /\ \A p \in S : p.type # "Interest"
<1>1. \A name, f : OK(onOutgoingData(name, f))
  BY DEF onOutgoingData, DataPacket, ScopedData
<1>2. CASE \E f \in Face, i \in Interest : onIncomingInterest(f, i)
  <2>1. PICK f \in Face, i \in Interest : onIncomingInterest(f, i)
    BY <1>2
  <2>2. CASE InterestDrop(f, i)
    BY <2>2 DEF InterestDrop, ScopedData
  <2>3. CASE onInterestLoop(f, i)
    BY <2>3 DEF onInterestLoop, ScopedData, NackPacket
  <2>4. CASE onContentStoreHit(f, i)
    BY <1>1, <2>4 DEF onContentStoreHit
  <2> QED
    BY <2>1, <2>2, <2>3, <2>4 DEF onIncomingInterest
<1>3. CASE \E f \in Face, d \in Data : onIncomingData(f, d)
  <2>1. PICK f \in Face, d \in Data : onIncomingData(f, d)
    BY <1>3
  <2>2. CASE DataDrop(f, d) \/ onDataUnsolicited(f, d)
    BY <2>2 DEF DataDrop, onDataUnsolicited, ScopedData
  <2>3. CASE SatisfyOne(f, d)
    <3>1. \E F : sent' = UNION {onOutgoingData(d.name, g) : g \in F}
      BY <2>3 DEF SatisfyOne, sendDataToAll, Outcome
    <3> QED
      BY <1>1, <3>1 DEF ScopedData
  <2>4. CASE SatisfyMany(f, d)
    <3>1. \E F : sent' = UNION {onOutgoingData(d.name, g) : g \in F}
      BY <2>4 DEF SatisfyMany
    <3> QED
      BY <1>1, <3>1 DEF ScopedData
  <2> QED
    BY <2>1, <2>2, <2>3, <2>4 DEF onIncomingData
<1>4. CASE \E f \in Face, k \in Key, n \in Nonce :
              NackDrop(f, k, n) \/ \E r \in NackReason : onIncomingNack(f, k, n, r)
  <2>1. \A e, name : \A p \in afterReceiveNack(e, name).sent : p.type = "Nack"
    BY DEF afterReceiveNack, processNack, onOutgoingNack, sendNacks, Outcome, NackPacket
  <2>2. PICK f \in Face, k \in Key, n \in Nonce :
              NackDrop(f, k, n) \/ \E r \in NackReason : onIncomingNack(f, k, n, r)
    BY <1>4
  <2>3. CASE NackDrop(f, k, n)
    BY <2>3 DEF NackDrop, ScopedData
  <2>4. CASE \E r \in NackReason : onIncomingNack(f, k, n, r)
    <3>1. \E e : sent' = afterReceiveNack(e, k.name).sent
      BY <2>4 DEF onIncomingNack
    <3> QED
      BY <2>1, <3>1 DEF ScopedData
  <2> QED
    BY <2>2, <2>3, <2>4
<1>5. CASE \/ \E k \in Key : onInterestFinalize(k)
           \/ \E f \in Face : RemoveFace(f)
           \/ \E p \in Name, f \in Face : removeNextHop(p, f)
           \/ \E r \in Route : addNextHop(r[1], r[2], r[3])
           \/ DnlForget
           \/ Tick
  <2>1. sent' = {}
    BY <1>5 DEF onInterestFinalize, RemoveFace, removeNextHop, addNextHop, DnlForget, Tick
  <2> QED
    BY <2>1 DEF ScopedData
<1> QED
  BY <1>2, <1>3, <1>4, <1>5 DEF Next

\* /localhost and /localhop scope control cannot be circumvented, except by the
\* NextHopFaceId tag of a privileged application.
THEOREM ScopeControl == Spec => []ScopeRespected
<1>1. Init => ScopeRespected
  BY DEF Init, ScopeRespected
<1>2. IInv /\ IInv' /\ ScopeRespected /\ [Next]_vars => ScopeRespected'
  <2> SUFFICES ASSUME IInv, IInv', ScopeRespected, [Next]_vars PROVE ScopeRespected'
    OBVIOUS
  <2>1. \A k \in DOMAIN pit' : k.name \in Localhost =>
            /\ DOMAIN pit'[k].in \subseteq Local
            /\ DOMAIN pit'[k].out \subseteq Local \cup NextHopFaceId
    BY DEF IInv, PitOK, EntryOK
  <2>2. CASE UNCHANGED vars
    BY <2>2 DEF vars, ScopeRespected
  <2>3. CASE \E f \in Face, i \in Interest : onContentStoreMiss(f, i)
    BY <2>1, <2>3, MissScope DEF ScopeRespected, ScopedData
  <2>4. CASE Next /\ ~ \E f \in Face, i \in Interest : onContentStoreMiss(f, i)
    BY <2>1, <2>4, RepliesScope DEF ScopeRespected, ScopedData
  <2> QED
    BY <2>2, <2>3, <2>4
<1> QED
  BY <1>1, <1>2, Invariance, PTL DEF Spec

-----------------------------------------------------------------------------
(* Replies: what a step sends in exchange for in-records *)

\* Every Data or Nack of the outcome answers an in-record that it removes, once.
Replied(e, o) ==
    /\ \A p \in Replies(o.sent) : p.face \in DOMAIN e.in \ DOMAIN o.entry.in
    /\ \A p, q \in Replies(o.sent) : p.face = q.face => p = q
    /\ \A f \in DOMAIN e.in \ DOMAIN o.entry.in : \E p \in Replies(o.sent) : p.face = f

\* onOutgoingNack exchanges one in-record for one Nack.
LEMMA OutgoingNackReplies ==
  ASSUME NEW e, IsEntry(e), NEW name, NEW f, NEW reason
  PROVE  LET o == onOutgoingNack(e, name, f, reason) IN
         /\ Replied(e, o)
         /\ \A p \in o.sent : p.face = f
<1> DEFINE o == onOutgoingNack(e, name, f, reason)
<1>1. CASE f \in DOMAIN e.in /\ LinkType[f] = "p2p"
  <2> DEFINE p == NackPacket(f, name, e.in[f].nonce, reason)
  <2>1. o.entry = deleteInRecord(e, f) /\ o.sent = {p}
    BY <1>1 DEF onOutgoingNack, Outcome
  <2>2. p.face = f /\ p.type = "Nack"
    BY DEF NackPacket
  <2>3. DOMAIN o.entry.in = DOMAIN e.in \ {f}
    BY <2>1, DeleteInRecord
  <2> HIDE DEF p, o
  <2>4. Replies(o.sent) = {p}
    BY <2>1, <2>2 DEF Replies
  <2>5. Replied(e, o)
    BY <1>1, <2>2, <2>3, <2>4 DEF Replied
  <2> QED
    BY <2>1, <2>2, <2>5 DEF o
<1>2. CASE ~(f \in DOMAIN e.in /\ LinkType[f] = "p2p")
  BY <1>2 DEF onOutgoingNack, Outcome, Replied, Replies
<1> QED
  BY <1>1, <1>2

\* Strategy::sendNacks exchanges every in-record of a point-to-point face for a Nack.
LEMMA SendNacksReplies ==
  ASSUME NEW e, IsEntry(e), NEW name, NEW reason
  PROVE  Replied(e, sendNacks(e, name, reason))
<1> DEFINE nacked == {f \in DOMAIN e.in : LinkType[f] = "p2p"}
           P(f) == NackPacket(f, name, e.in[f].nonce, reason)
           o == sendNacks(e, name, reason)
<1>1. o.entry = [e EXCEPT !.in = [f \in DOMAIN e.in \ nacked |-> e.in[f]]]
      /\ o.sent = {P(f) : f \in nacked}
  BY DEF sendNacks, Outcome, IsEntry
<1>2. DOMAIN o.entry.in = DOMAIN e.in \ nacked
  BY <1>1 DEF IsEntry
<1>3. nacked \subseteq DOMAIN e.in
  OBVIOUS
<1>4. \A f : P(f).face = f /\ P(f).type = "Nack"
  BY DEF NackPacket
<1> SUFFICES Replied(e, o)
  OBVIOUS
<1> HIDE DEF nacked, P, o
<1>5. Replies(o.sent) = {P(f) : f \in nacked}
  BY <1>1, <1>4 DEF Replies
<1> QED
  BY <1>2, <1>3, <1>4, <1>5 DEF Replied

\* A strategy that handles a Nack answers exactly the in-records it removes.
LEMMA AfterReceiveNackReplies ==
  ASSUME NEW e, IsEntry(e), NEW name
  PROVE  Replied(e, afterReceiveNack(e, name))
<1>1. \/ afterReceiveNack(e, name) = Outcome(e, {})
      \/ \E f, reason : afterReceiveNack(e, name) = onOutgoingNack(e, name, f, reason)
      \/ \E reason : afterReceiveNack(e, name) = sendNacks(e, name, reason)
  BY DEF afterReceiveNack, processNack
<1>2. Replied(e, Outcome(e, {}))
  BY DEF Replied, Replies, Outcome
<1> QED
  BY <1>1, <1>2, OutgoingNackReplies, SendNacksReplies

\* A strategy that handles an Interest replies to the face that sent it, or to none.
LEMMA StrategyReplies ==
  ASSUME NEW e, IsEntry(e), NEW i \in Interest, NEW t, NEW f,
         NEW nh, NEW o \in afterReceiveInterest(e, f, i, nh, t)
  PROVE  \/ o.entry.in = e.in /\ Replies(o.sent) = {}
         \/ o = NoNextHop(e, f, i, t)
<1> DEFINE retx == [e EXCEPT !.interval = Double(e.interval)]
           Quiet(x) == x.entry.in = e.in /\ Replies(x.sent) = {}
<1>1. StrategyOf[i.name] \in StrategyNames
  BY StrategyAssumption DEF Interest
<1>2. \A g : Quiet(onOutgoingInterest(e, g, i, t)) /\ Quiet(onOutgoingInterest(retx, g, i, t))
  <2> SUFFICES ASSUME NEW g
               PROVE  Quiet(onOutgoingInterest(e, g, i, t)) /\ Quiet(onOutgoingInterest(retx, g, i, t))
    OBVIOUS
  <2>1. Replies({InterestPacket(g, i)}) = {}
    BY DEF Replies, InterestPacket
  <2>2. \A x : onOutgoingInterest(x, g, i, t).entry = insertOrUpdateOutRecord(x, g, i, t)
               /\ onOutgoingInterest(x, g, i, t).sent = {InterestPacket(g, i)}
    BY DEF onOutgoingInterest, Outcome
  <2>3. insertOrUpdateOutRecord(e, g, i, t).in = e.in
    BY DEF insertOrUpdateOutRecord, IsEntry
  <2>4. insertOrUpdateOutRecord(retx, g, i, t).in = e.in
    BY DEF insertOrUpdateOutRecord, IsEntry
  <2> QED
    BY <2>1, <2>2, <2>3, <2>4
<1>3. Quiet(Outcome(e, {})) /\ Quiet(Outcome(retx, {})) /\ Quiet(Outcome(setExpiryTimer(e, t), {}))
  BY DEF Outcome, Replies, IsEntry, setExpiryTimer
<1>4. CASE StrategyOf[i.name] = "best-route"
  <2>1. o \in BestRouteAfterReceiveInterest(e, f, i, nh, t)
    BY <1>4 DEF afterReceiveInterest
  <2>2. \/ o = NoNextHop(e, f, i, t)
        \/ \E g : o = onOutgoingInterest(e, g, i, t)
        \/ \E g : o = onOutgoingInterest(retx, g, i, t)
        \/ o = Outcome(e, {})
        \/ o = Outcome(retx, {})
    BY <2>1 DEF BestRouteAfterReceiveInterest
  <2> HIDE DEF retx
  <2> QED
    BY <1>2, <1>3, <2>2
<1>5. CASE StrategyOf[i.name] = "multicast"
  <2>1. o \in MulticastAfterReceiveInterest(e, f, i, nh, t)
    BY <1>5 DEF afterReceiveInterest
  <2>2. \/ o = NoNextHop(e, f, i, t)
        \/ \E out, S : o = Outcome([e EXCEPT !.out = out], {InterestPacket(g, i) : g \in S})
    BY <2>1 DEF MulticastAfterReceiveInterest
  <2>3. ASSUME NEW out, NEW S, o = Outcome([e EXCEPT !.out = out], {InterestPacket(g, i) : g \in S})
        PROVE  Quiet(o)
    BY <2>3 DEF Outcome, Replies, InterestPacket, IsEntry
  <2> QED
    BY <2>2, <2>3
<1>6. CASE StrategyOf[i.name] = "best-route-v1"
  <2>1. o \in BestRouteV1AfterReceiveInterest(e, f, i, nh, t)
    BY <1>6 DEF afterReceiveInterest
  <2>2. \/ o = Outcome(e, {})
        \/ o = Outcome(setExpiryTimer(e, t), {})
        \/ \E g : o = onOutgoingInterest(e, g, i, t)
    BY <2>1 DEF BestRouteV1AfterReceiveInterest, rejectPendingInterest
  <2> QED
    BY <1>2, <1>3, <2>2
<1> QED
  BY <1>1, <1>4, <1>5, <1>6 DEF StrategyNames

-----------------------------------------------------------------------------
(* The action properties, as predicates of a step *)

Balanced ==
    \A p \in Replies(sent') :
        /\ \A q \in Replies(sent') : p.face = q.face => p = q
        /\ \/ \E k \in DOMAIN pit :
                /\ p.face \in DOMAIN pit[k].in
                /\ k \in DOMAIN pit' /\ p.face \notin DOMAIN pit'[k].in
           \/ \E i \in Interest : onIncomingInterest(p.face, i)

AnsweredOrExcused(f) ==
    \/ \E p \in Replies(sent') : p.face = f
    \/ \E d \in Data : onIncomingData(f, d)
    \/ f \notin Local /\ \E g \in Face, d \in Data : d.name \in Localhost /\ onIncomingData(g, d)

Answered ==
    \A k \in DOMAIN pit \cap DOMAIN pit' :
        \A f \in (DOMAIN pit[k].in \ DOMAIN pit'[k].in) \cap faces' :
            pit[k].in[f].expiry > now => AnsweredOrExcused(f)

Retired ==
    \A k \in DOMAIN pit : \A f \in DOMAIN pit[k].out :
        \/ k \in DOMAIN pit' /\ f \in DOMAIN pit'[k].out
        \/ <<k.name, pit[k].out[f].nonce>> \in dnl'
        \/ f \notin faces'
        \/ LET e == IF k \in DOMAIN pit' THEN pit'[k] ELSE pit[k]
           IN  e.satisfied /\ (k.mbf => e.freshness >= DnlLifetime)

GoodStep == Balanced /\ Answered /\ Retired

\* The entry that a step writes.
LEMMA PutWrites ==
  ASSUME NEW p, NEW k, NEW e
  PROVE  /\ DOMAIN Put(p, k, e) = DOMAIN p \cup {k}
         /\ Put(p, k, e)[k] = e
         /\ \A j \in DOMAIN p : j # k => Put(p, k, e)[j] = p[j]
BY DEF Put

\* Such a step has to answer the downstreams of that entry and to retire its Nonces.
LEMMA WritesOneEntry ==
  ASSUME NEW k, NEW e, pit' = Put(pit, k, e),
         k \in DOMAIN pit =>
            /\ \A f \in (DOMAIN pit[k].in \ DOMAIN e.in) \cap faces' :
                    pit[k].in[f].expiry > now => AnsweredOrExcused(f)
            /\ \A f \in DOMAIN pit[k].out :
                    \/ f \in DOMAIN e.out
                    \/ <<k.name, pit[k].out[f].nonce>> \in dnl'
                    \/ e.satisfied /\ (k.mbf => e.freshness >= DnlLifetime)
  PROVE  Answered /\ Retired
<1>1. /\ \A j \in DOMAIN pit : j \in DOMAIN pit'
      /\ pit'[k] = e
      /\ \A j \in DOMAIN pit : j # k => pit'[j] = pit[j]
  <2>1. /\ DOMAIN Put(pit, k, e) = DOMAIN pit \cup {k}
        /\ Put(pit, k, e)[k] = e
        /\ \A j \in DOMAIN pit : j # k => Put(pit, k, e)[j] = pit[j]
    BY DEF Put
  <2>2. pit' = Put(pit, k, e)
    OBVIOUS
  <2> QED
    BY ONLY <2>1, <2>2
<1>2. Answered
  <2> SUFFICES ASSUME NEW j \in DOMAIN pit, NEW f \in (DOMAIN pit[j].in \ DOMAIN pit'[j].in) \cap faces',
                      pit[j].in[f].expiry > now
               PROVE  AnsweredOrExcused(f)
    BY DEF Answered
  <2>1. j = k
    BY <1>1
  <2> QED
    BY <1>1, <2>1
<1>3. Retired
  <2> SUFFICES ASSUME NEW j \in DOMAIN pit, NEW f \in DOMAIN pit[j].out
               PROVE  \/ f \in DOMAIN pit'[j].out
                      \/ <<j.name, pit[j].out[f].nonce>> \in dnl'
                      \/ pit'[j].satisfied /\ (j.mbf => pit'[j].freshness >= DnlLifetime)
    BY <1>1 DEF Retired
  <2>1. CASE j = k
    BY <1>1, <2>1
  <2>2. CASE j # k
    BY <1>1, <2>2
  <2> QED
    BY <2>1, <2>2
<1> QED
  BY <1>2, <1>3

\* A step that leaves the PIT alone, and replies to the sender of an Interest if at all.
LEMMA ReplyOnlyStep ==
  ASSUME pit' = pit, NEW f,
         \A p, q \in Replies(sent') : p = q,
         \A p \in Replies(sent') : p.face = f /\ \E i \in Interest : onIncomingInterest(f, i)
  PROVE  GoodStep
<1>1. Balanced
  BY DEF Balanced
<1>2. Answered /\ Retired
  BY DEF Answered, Retired
<1> QED
  BY <1>1, <1>2 DEF GoodStep

LEMMA SilentStep ==
  ASSUME pit' = pit, sent' = {}
  PROVE  GoodStep
<1>1. Replies(sent') = {}
  BY DEF Replies
<1> QED
  BY <1>1 DEF GoodStep, Balanced, Answered, Retired

LEMMA LoopIsGood ==
  ASSUME NEW f \in Face, NEW i \in Interest, onInterestLoop(f, i)
  PROVE  GoodStep
<1>1. pit' = pit /\ onIncomingInterest(f, i)
  BY DEF onInterestLoop, onIncomingInterest
<1> DEFINE n == NackPacket(f, i.name, i.nonce, DUPLICATE)
<1>2. sent' \subseteq {n}
  BY DEF onInterestLoop
<1>3. n.face = f
  BY DEF NackPacket
<1> HIDE DEF n
<1>4. Replies(sent') \subseteq {n}
  BY <1>2 DEF Replies
<1> QED
  BY <1>1, <1>3, <1>4, ReplyOnlyStep

LEMMA HitIsGood ==
  ASSUME IInv, NEW f \in Face, NEW i \in Interest, onContentStoreHit(f, i)
  PROVE  GoodStep
<1> DEFINE k == KeyOf(i)
           e0 == PitEntry(k)
           e1(d) == [e0 EXCEPT !.satisfied = TRUE, !.freshness = d.freshness]
<1>1. PICK d \in CsMatches(i) :
        pit' = Put(pit, k, setExpiryTimer(e1(d), now)) /\ sent' = onOutgoingData(d.name, f)
  BY DEF onContentStoreHit
<1>2. onIncomingInterest(f, i) /\ DOMAIN e0.in = {}
  BY DEF onIncomingInterest, onContentStoreHit
<1>3. k \in DOMAIN pit => e0 = pit[k]
  BY DEF PitEntry
<1>4. k \in Key
  BY InterestType
<1> HIDE DEF k
<1>5. IsEntry(e0)
  BY <1>4, PitEntryOK
<1> HIDE DEF e0
<1> DEFINE e2 == setExpiryTimer(e1(d), now)
<1>6. e2.out = e0.out /\ e2.in = e0.in
  BY <1>5 DEF setExpiryTimer, IsEntry
<1>7. pit' = Put(pit, k, e2)
  BY <1>1
<1> HIDE DEF e2
<1>8. Answered /\ Retired
  BY <1>2, <1>3, <1>6, <1>7, WritesOneEntry
<1>9. Balanced
  <2> DEFINE n == DataPacket(f, d.name)
  <2>1. sent' \subseteq {n}
    BY <1>1 DEF onOutgoingData
  <2>2. n.face = f
    BY DEF DataPacket
  <2> HIDE DEF n
  <2>3. Replies(sent') \subseteq {n}
    BY <2>1 DEF Replies
  <2> QED
    BY <1>2, <2>2, <2>3 DEF Balanced
<1> QED
  BY <1>8, <1>9 DEF GoodStep

LEMMA MissIsGood ==
  ASSUME IInv, NEW f \in Face, NEW i \in Interest, onContentStoreMiss(f, i)
  PROVE  GoodStep
<1> DEFINE k == KeyOf(i)
           e0 == PitEntry(k)
           e1 == insertOrUpdateInRecord(e0, f, i, now)
<1>1. PICK last \in LastExpiring(e1) :
        \E o \in Forward(setExpiryTimer(e1, e1.in[last].expiry), f, i) :
            pit' = Put(pit, k, o.entry) /\ sent' = o.sent
  BY DEF onContentStoreMiss
<1> DEFINE e2 == setExpiryTimer(e1, e1.in[last].expiry)
<1>2. PICK o \in Forward(e2, f, i) : pit' = Put(pit, k, o.entry) /\ sent' = o.sent
  BY <1>1
<1>3. now \in Nat /\ onIncomingInterest(f, i)
  BY DEF IInv, onIncomingInterest
<1>4. k \in Key /\ i.nonce \in Nat /\ i.lifetime \in Nat
  BY InterestType
<1>5. k \in DOMAIN pit => e0 = pit[k]
  BY DEF PitEntry
<1> HIDE DEF k
<1>6. IsEntry(e0)
  BY <1>4, PitEntryOK
<1> HIDE DEF e0
<1>7. IsEntry(e1) /\ DOMAIN e1.in = DOMAIN e0.in \cup {f} /\ e1.out = e0.out
  BY <1>3, <1>4, <1>6, InsertInRecord
<1>8. e1.in[last].expiry \in Nat
  BY <1>1, <1>7 DEF LastExpiring, IsEntry, IsPartialFunction, InRecord
<1> HIDE DEF e1
<1>9. IsEntry(e2) /\ e2.in = e1.in /\ e2.out = e1.out
  BY <1>7, <1>8, SetTimer
<1> HIDE DEF e2
<1>10. DOMAIN e0.out \subseteq DOMAIN o.entry.out
  <2>1. PICK hops : MayBecome(e2, o, hops, now)
    BY <1>2, <1>9, ForwardOutcome
  <2> QED
    BY <1>7, <1>9, <2>1 DEF MayBecome
<1>11. \/ o.entry.in = e2.in /\ Replies(o.sent) = {}
       \/ o = NoNextHop(e2, f, i, now)
  <2> DEFINE nh == NextHops(i.name)
  <2>1. CASE i.nexthop = NoFace
    <3>1. o \in afterReceiveInterest(e2, f, i, nh, now)
      BY <2>1 DEF Forward
    <3> HIDE DEF nh
    <3> QED
      BY <1>9, <3>1, StrategyReplies
  <2>2. CASE i.nexthop # NoFace /\ i.nexthop \in faces
    <3>1. o = onOutgoingInterest(e2, i.nexthop, i, now)
      BY <2>2 DEF Forward
    <3>2. o.entry = insertOrUpdateOutRecord(e2, i.nexthop, i, now)
          /\ o.sent = {InterestPacket(i.nexthop, i)}
      BY <3>1 DEF onOutgoingInterest, Outcome
    <3>3. Replies(o.sent) = {}
      BY <3>2 DEF Replies, InterestPacket
    <3>4. o.entry.in = e2.in
      BY <1>9, <3>2 DEF insertOrUpdateOutRecord, IsEntry
    <3> QED
      BY <3>3, <3>4
  <2>3. CASE i.nexthop # NoFace /\ i.nexthop \notin faces
    BY <2>3 DEF Forward, Outcome, Replies
  <2> QED
    BY <2>1, <2>2, <2>3
<1>12. /\ \A p \in Replies(o.sent) : p.face = f
       /\ \A p, q \in Replies(o.sent) : p.face = q.face => p = q
       /\ \A g \in DOMAIN e2.in \ DOMAIN o.entry.in : \E p \in Replies(o.sent) : p.face = g
  <2>1. CASE o.entry.in = e2.in /\ Replies(o.sent) = {}
    BY <2>1
  <2>2. CASE o = NoNextHop(e2, f, i, now)
    <3> DEFINE n == onOutgoingNack(e2, i.name, f, NO_ROUTE)
    <3>1. Replied(e2, n) /\ \A p \in n.sent : p.face = f
      BY <1>9, OutgoingNackReplies
    <3>2. o.sent = n.sent /\ o.entry = setExpiryTimer(n.entry, now)
      BY <2>2 DEF NoNextHop, Outcome, rejectPendingInterest
    <3>3. n.entry.in = o.entry.in
      <4>1. IsEntry(n.entry)
        BY <1>9, DeleteInRecord DEF onOutgoingNack, Outcome
      <4> HIDE DEF n
      <4> QED
        BY <3>2, <4>1 DEF setExpiryTimer, IsEntry
    <3> HIDE DEF n
    <3>4. \A p \in Replies(o.sent) : p.face = f
      BY <3>1, <3>2 DEF Replies
    <3> QED
      BY <3>1, <3>2, <3>3, <3>4 DEF Replied
  <2> QED
    BY <1>11, <2>1, <2>2
<1>13. Balanced
  BY <1>2, <1>3, <1>12 DEF Balanced
<1>14. Answered /\ Retired
  <2>1. \A g \in DOMAIN e0.in \ DOMAIN o.entry.in : AnsweredOrExcused(g)
    BY <1>2, <1>7, <1>9, <1>12 DEF AnsweredOrExcused
  <2> QED
    BY <1>2, <1>5, <1>10, <2>1, WritesOneEntry
<1> QED
  BY <1>13, <1>14 DEF GoodStep

\* insertDeadNonceList: a Nonce that is not recorded belongs to an entry whose Data can
\* answer a looping Interest.
LEMMA DeadNoncesRecorded ==
  ASSUME NEW e, NEW k, NEW F, NEW f \in DOMAIN e.out \cap F, e.satisfied \in BOOLEAN
  PROVE  \/ <<k.name, e.out[f].nonce>> \in DeadNonces(e, k, F)
         \/ e.satisfied /\ ~(k.mbf /\ e.freshness < DnlLifetime)
BY DEF DeadNonces

LEMMA FinalizeIsGood ==
  ASSUME IInv, NEW k \in Key, onInterestFinalize(k)
  PROVE  GoodStep
<1>1. /\ k \in DOMAIN pit /\ sent' = {} /\ pit' = Drop(pit, k)
      /\ dnl' = dnl \cup DeadNonces(pit[k], k, Face)
  BY DEF onInterestFinalize
<1>2. /\ DOMAIN pit' = DOMAIN pit \ {k}
      /\ \A j \in DOMAIN pit : j # k => pit'[j] = pit[j]
  BY <1>1 DEF Drop
<1>3. IsEntry(pit[k])
  BY <1>1 DEF IInv, PitOK, EntryOK
<1>4. Balanced
  BY <1>1 DEF Balanced, Replies
<1>5. Answered
  BY <1>2 DEF Answered
<1>6. Retired
  <2> SUFFICES ASSUME NEW j \in DOMAIN pit, NEW f \in DOMAIN pit[j].out
               PROVE  \/ j \in DOMAIN pit' /\ f \in DOMAIN pit'[j].out
                      \/ <<j.name, pit[j].out[f].nonce>> \in dnl'
                      \/ /\ j \notin DOMAIN pit'
                         /\ pit[j].satisfied /\ (j.mbf => pit[j].freshness >= DnlLifetime)
    BY DEF Retired
  <2>1. CASE j = k
    <3>1. f \in Face /\ pit[k].freshness \in Nat /\ pit[k].satisfied \in BOOLEAN
      BY <1>3, <2>1 DEF IsEntry, IsPartialFunction
    <3>2. \/ <<k.name, pit[k].out[f].nonce>> \in DeadNonces(pit[k], k, Face)
          \/ pit[k].satisfied /\ ~(k.mbf /\ pit[k].freshness < DnlLifetime)
      BY <2>1, <3>1, DeadNoncesRecorded
    <3>3. ~(pit[k].freshness < DnlLifetime) => pit[k].freshness >= DnlLifetime
      BY <3>1, ForwarderAssumption
    <3> QED
      BY <1>1, <1>2, <2>1, <3>2, <3>3
  <2>2. CASE j # k
    BY <1>2, <2>2
  <2> QED
    BY <2>1, <2>2
<1> QED
  BY <1>4, <1>5, <1>6 DEF GoodStep

\* What the entry that Data satisfies keeps of the Nonces.
LEMMA SatisfiedRetires ==
  ASSUME NEW k \in Key, NEW e, IsEntry(e), e.satisfied, NEW f, NEW g \in DOMAIN e.out
  PROVE  LET s == deleteOutRecord(e, f) IN
         \/ g \in DOMAIN s.out
         \/ <<k.name, e.out[g].nonce>> \in DeadNonces(e, k, {f})
         \/ s.satisfied /\ (k.mbf => s.freshness >= DnlLifetime)
<1> DEFINE s == deleteOutRecord(e, f)
<1>1. DOMAIN s.out = DOMAIN e.out \ {f} /\ s.satisfied = e.satisfied /\ s.freshness = e.freshness
  BY DeleteOutRecord
<1> SUFFICES \/ g \in DOMAIN s.out
             \/ <<k.name, e.out[g].nonce>> \in DeadNonces(e, k, {f})
             \/ s.satisfied /\ (k.mbf => s.freshness >= DnlLifetime)
  OBVIOUS
<1> HIDE DEF s
<1>2. e.freshness \in Nat /\ e.satisfied \in BOOLEAN
  BY DEF IsEntry
<1>3. ~(e.freshness < DnlLifetime) => e.freshness >= DnlLifetime
  BY <1>2, ForwarderAssumption
<1>4. CASE g = f
  BY <1>1, <1>2, <1>3, <1>4, DeadNoncesRecorded
<1>5. CASE g # f
  BY <1>1, <1>5
<1> QED
  BY <1>4, <1>5

\* Data packets to several faces: one to each, unless it may not have it.
LEMMA DataToFaces ==
  ASSUME NEW name, NEW F, NEW S, S = UNION {onOutgoingData(name, g) : g \in F}
  PROVE  /\ \A p \in Replies(S) : p.face \in F
         /\ \A p, q \in Replies(S) : p.face = q.face => p = q
         /\ \A g \in F : (\E p \in Replies(S) : p.face = g) \/ (g \notin Local /\ name \in Localhost)
<1>1. \A g : DataPacket(g, name).face = g /\ DataPacket(g, name).type = "Data"
  BY DEF DataPacket
<1>2. \A p \in S : \E g \in F : p = DataPacket(g, name)
  BY DEF onOutgoingData
<1>3. \A g \in F : DataPacket(g, name) \in S \/ (g \notin Local /\ name \in Localhost)
  BY DEF onOutgoingData
<1> QED
  BY <1>1, <1>2, <1>3 DEF Replies

LEMMA SatisfyOneIsGood ==
  ASSUME IInv, NEW f \in Face, NEW d \in Data, SatisfyOne(f, d)
  PROVE  GoodStep
<1> DEFINE o(k) == sendDataToAll(pit[k], f, d.name, now)
           e(k) == Satisfied(o(k).entry, d)
<1>1. PICK k \in DOMAIN pit : /\ pit' = Put(pit, k, deleteOutRecord(e(k), f))
                              /\ dnl' = dnl \cup DeadNonces(e(k), k, {f})
                              /\ sent' = o(k).sent
  BY DEF SatisfyOne
<1>2. faces' = faces /\ onIncomingData(f, d)
  BY DEF SatisfyOne, onIncomingData
<1>3. k \in Key /\ IsEntry(pit[k]) /\ now \in Nat /\ d.name \in Name
  BY DEF IInv, PitOK, IsPartialFunction, EntryOK, Data
<1> DEFINE pending == {g \in DOMAIN pit[k].in : /\ pit[k].in[g].expiry > now
                                                /\ g # f \/ LinkType[g] = "ad-hoc"}
<1>4. /\ MayBecome(pit[k], o(k), {}, now) /\ o(k).entry.out = pit[k].out
      /\ DOMAIN o(k).entry.in = DOMAIN pit[k].in \ pending
      /\ o(k).sent = UNION {onOutgoingData(d.name, g) : g \in pending}
  <2>1. MayBecome(pit[k], o(k), {}, now) /\ o(k).entry.out = pit[k].out
    BY <1>3, SendDataToAll
  <2>2. /\ o(k).entry = [pit[k] EXCEPT !.in = [g \in DOMAIN pit[k].in \ pending |-> pit[k].in[g]]]
        /\ o(k).sent = UNION {onOutgoingData(d.name, g) : g \in pending}
    <3> DEFINE x == pit[k]
    <3>1. IsEntry(x)
      BY <1>3
    <3> HIDE DEF x
    <3>2. LET P == {g \in DOMAIN x.in : /\ x.in[g].expiry > now
                                        /\ g # f \/ LinkType[g] = "ad-hoc"}
              r == sendDataToAll(x, f, d.name, now)
          IN  /\ r.entry = [x EXCEPT !.in = [g \in DOMAIN x.in \ P |-> x.in[g]]]
              /\ r.sent = UNION {onOutgoingData(d.name, g) : g \in P}
      BY <3>1 DEF sendDataToAll, Outcome, IsEntry
    <3> QED
      BY <3>2 DEF x
  <2> HIDE DEF pending
  <2>3. DOMAIN o(k).entry.in = DOMAIN pit[k].in \ pending
    BY <1>3, <2>2 DEF IsEntry
  <2> QED
    BY <2>1, <2>2, <2>3
<1> HIDE DEF o
<1>5. IsEntry(o(k).entry)
  BY <1>4 DEF MayBecome
<1>6. IsEntry(e(k)) /\ e(k).in = o(k).entry.in /\ e(k).out = o(k).entry.out /\ e(k).satisfied
  BY <1>5, SatisfiedEntry
<1> HIDE DEF e
<1> DEFINE s == deleteOutRecord(e(k), f)
<1>7. s.in = e(k).in
  BY <1>6, DeleteOutRecord
<1>8. pit' = Put(pit, k, s)
  BY <1>1
<1>9. /\ \A p \in Replies(sent') : p.face \in pending
      /\ \A p, q \in Replies(sent') : p.face = q.face => p = q
      /\ \A g \in pending : \/ \E p \in Replies(sent') : p.face = g
                            \/ g \notin Local /\ d.name \in Localhost
  <2> HIDE DEF pending
  <2> DEFINE S == sent'
             name == d.name
  <2>1. S = UNION {onOutgoingData(name, g) : g \in pending}
    BY <1>1, <1>4
  <2> HIDE DEF S, name
  <2>2. /\ \A p \in Replies(S) : p.face \in pending
        /\ \A p, q \in Replies(S) : p.face = q.face => p = q
        /\ \A g \in pending : \/ \E p \in Replies(S) : p.face = g
                              \/ g \notin Local /\ name \in Localhost
    BY <2>1, DataToFaces
  <2> QED
    BY <2>2 DEF S, name
<1>10. pending \subseteq DOMAIN pit[k].in
  OBVIOUS
<1>11. \A g \in DOMAIN pit[k].out : \/ g \in DOMAIN s.out
                                    \/ <<k.name, pit[k].out[g].nonce>> \in dnl'
                                    \/ s.satisfied /\ (k.mbf => s.freshness >= DnlLifetime)
  BY <1>1, <1>3, <1>4, <1>6, SatisfiedRetires
<1> HIDE DEF s, pending
<1>12. DOMAIN s.in = DOMAIN pit[k].in \ pending
  BY <1>4, <1>6, <1>7
<1>13. Answered /\ Retired
  <2>1. \A g \in DOMAIN pit[k].in \ DOMAIN s.in : AnsweredOrExcused(g)
    BY <1>2, <1>9, <1>12 DEF AnsweredOrExcused
  <2> QED
    BY <1>8, <1>11, <2>1, WritesOneEntry
<1>14. Balanced
  <2>1. k \in DOMAIN pit' /\ pit'[k] = s
    BY <1>8 DEF Put
  <2> QED
    BY <1>9, <1>10, <1>12, <2>1 DEF Balanced
<1> QED
  BY <1>13, <1>14 DEF GoodStep

LEMMA SatisfyManyIsGood ==
  ASSUME IInv, NEW f \in Face, NEW d \in Data, SatisfyMany(f, d)
  PROVE  GoodStep
<1> DEFINE matches == DataMatches(d)
           satisfied == [k \in matches |-> Satisfied(pit[k], d)]
           pending ==
            UNION {{g \in DOMAIN pit[k].in : pit[k].in[g].expiry > now} : k \in matches}
           to == {h \in pending : h # f \/ LinkType[h] = "ad-hoc"}
           e(k) == IF k \in matches THEN deleteOutRecord(clearInRecords(satisfied[k]), f)
                                    ELSE pit[k]
<1>1. /\ pit' = [k \in DOMAIN pit |-> e(k)]
      /\ dnl' = dnl \cup UNION {DeadNonces(satisfied[k], k, {f}) : k \in matches}
      /\ sent' = UNION {onOutgoingData(d.name, g) : g \in to}
      /\ faces' = faces /\ onIncomingData(f, d)
  BY DEF SatisfyMany, onIncomingData
<1>2. matches \subseteq DOMAIN pit
  BY DEF DataMatches
<1>3. \A k \in DOMAIN pit : k \in Key /\ IsEntry(pit[k])
  BY DEF IInv, PitOK, IsPartialFunction, EntryOK
<1> HIDE DEF matches
<1>4. \A k \in matches : /\ IsEntry(satisfied[k]) /\ satisfied[k].out = pit[k].out
                         /\ satisfied[k].satisfied
  BY <1>2, <1>3, SatisfiedEntry
<1> HIDE DEF satisfied
<1>5. /\ \A p \in Replies(sent') : p.face \in to
      /\ \A p, q \in Replies(sent') : p.face = q.face => p = q
      /\ \A g \in to : \/ \E p \in Replies(sent') : p.face = g
                       \/ g \notin Local /\ d.name \in Localhost
  <2> HIDE DEF to
  <2> DEFINE S == sent'
             name == d.name
  <2>1. S = UNION {onOutgoingData(name, g) : g \in to}
    BY <1>1
  <2> HIDE DEF S, name
  <2>2. /\ \A p \in Replies(S) : p.face \in to
        /\ \A p, q \in Replies(S) : p.face = q.face => p = q
        /\ \A g \in to : \/ \E p \in Replies(S) : p.face = g
                         \/ g \notin Local /\ name \in Localhost
    BY <2>1, DataToFaces
  <2> QED
    BY <2>2 DEF S, name
<1>6. ASSUME NEW k \in matches
      PROVE  /\ DOMAIN e(k).in = {}
             /\ \A g \in DOMAIN pit[k].out :
                    \/ g \in DOMAIN e(k).out
                    \/ <<k.name, pit[k].out[g].nonce>> \in dnl'
                    \/ e(k).satisfied /\ (k.mbf => e(k).freshness >= DnlLifetime)
  <2> DEFINE c == clearInRecords(satisfied[k])
             s == deleteOutRecord(c, f)
  <2>1. /\ IsEntry(c) /\ DOMAIN c.in = {} /\ c.out = pit[k].out /\ c.satisfied
        /\ c.freshness = satisfied[k].freshness
    BY <1>4, ClearInRecords
  <2>2. e(k) = s
    OBVIOUS
  <2>3. DeadNonces(c, k, {f}) \subseteq dnl'
    <3>1. c.out = satisfied[k].out /\ c.satisfied = satisfied[k].satisfied
          /\ c.freshness = satisfied[k].freshness
      BY <1>4, ClearInRecords
    <3> HIDE DEF c
    <3>2. DeadNonces(c, k, {f}) = DeadNonces(satisfied[k], k, {f})
      BY <3>1 DEF DeadNonces
    <3> QED
      BY <1>1, <3>2
  <2> HIDE DEF c, e
  <2>4. s.in = c.in
    BY <2>1, DeleteOutRecord
  <2>5. k \in Key
    BY <1>2, <1>3
  <2>6. \A g \in DOMAIN c.out : \/ g \in DOMAIN s.out
                                \/ <<k.name, c.out[g].nonce>> \in DeadNonces(c, k, {f})
                                \/ s.satisfied /\ (k.mbf => s.freshness >= DnlLifetime)
    BY <2>1, <2>5, SatisfiedRetires
  <2> HIDE DEF s
  <2> QED
    BY <2>1, <2>2, <2>3, <2>4, <2>6
<1>7. \A k \in DOMAIN pit \ matches : e(k) = pit[k]
  OBVIOUS
<1>8. DOMAIN pit' = DOMAIN pit /\ \A k \in DOMAIN pit : pit'[k] = e(k)
  BY <1>1
<1> HIDE DEF e
<1>9. \A g \in to : \E k \in matches : g \in DOMAIN pit[k].in
  OBVIOUS
<1>10. \A k \in matches : \A g \in DOMAIN pit[k].in :
            pit[k].in[g].expiry > now => g \in to \/ g = f
  OBVIOUS
<1> HIDE DEF to
<1>11. Balanced
  <2>1. \A k \in matches : DOMAIN pit'[k].in = {}
    BY <1>2, <1>6, <1>8
  <2> QED
    BY <1>2, <1>5, <1>8, <1>9, <2>1 DEF Balanced
<1>12. Answered
  <2> SUFFICES ASSUME NEW k \in DOMAIN pit,
                      NEW g \in (DOMAIN pit[k].in \ DOMAIN pit'[k].in) \cap faces',
                      pit[k].in[g].expiry > now
               PROVE  AnsweredOrExcused(g)
    BY DEF Answered
  <2>1. k \in matches
    BY <1>7, <1>8
  <2>2. g \in to \/ g = f
    BY <1>10, <2>1
  <2> QED
    BY <1>1, <1>5, <2>2 DEF AnsweredOrExcused
<1>13. Retired
  <2> SUFFICES ASSUME NEW k \in DOMAIN pit, NEW g \in DOMAIN pit[k].out
               PROVE  \/ g \in DOMAIN pit'[k].out
                      \/ <<k.name, pit[k].out[g].nonce>> \in dnl'
                      \/ pit'[k].satisfied /\ (k.mbf => pit'[k].freshness >= DnlLifetime)
    BY <1>8 DEF Retired
  <2>1. CASE k \in matches
    BY <1>6, <1>8, <2>1
  <2>2. CASE k \notin matches
    BY <1>7, <1>8, <2>2
  <2> QED
    BY <2>1, <2>2
<1> QED
  BY <1>11, <1>12, <1>13 DEF GoodStep

LEMMA NackIsGood ==
  ASSUME IInv, NEW f \in Face, NEW k \in Key, NEW n, NEW r \in NackReason,
         onIncomingNack(f, k, n, r)
  PROVE  GoodStep
<1> DEFINE e1 == setIncomingNack(pit[k], f, r)
           e2 == IF hasPendingOutRecords(e1, now) THEN e1 ELSE setExpiryTimer(e1, now)
           o == afterReceiveNack(e2, k.name)
<1>1. /\ pit' = Put(pit, k, o.entry) /\ sent' = o.sent
      /\ k \in DOMAIN pit /\ f \in DOMAIN pit[k].out
  BY DEF onIncomingNack, AcceptsNack
<1>2. IsEntry(pit[k]) /\ now \in Nat /\ k.name \in Name
  BY <1>1 DEF IInv, PitOK, EntryOK, Key
<1>3. IsEntry(e1) /\ e1.in = pit[k].in /\ DOMAIN e1.out = DOMAIN pit[k].out
  <2> DEFINE m == Put(pit[k].out, f, [pit[k].out[f] EXCEPT !.nack = r])
  <2>1. IsPartialFunction(pit[k].out, Face, OutRecord)
    BY <1>2 DEF IsEntry
  <2>2. [pit[k].out[f] EXCEPT !.nack = r] \in OutRecord
    BY <1>1, <2>1 DEF IsPartialFunction, OutRecord
  <2>3. IsPartialFunction(m, Face, OutRecord) /\ DOMAIN m = DOMAIN pit[k].out
    BY <1>1, <2>1, <2>2 DEF Put, IsPartialFunction
  <2>4. e1 = [pit[k] EXCEPT !.out = m]
    BY <1>2 DEF setIncomingNack, IsEntry
  <2> HIDE DEF m, e1
  <2> QED
    BY <1>2, <2>3, <2>4 DEF IsEntry
<1> HIDE DEF e1
<1>4. IsEntry(e2) /\ e2.in = e1.in /\ e2.out = e1.out
  BY <1>2, <1>3, SetTimer
<1> HIDE DEF e2
<1>5. Replied(e2, o) /\ o.entry.out = e2.out
  BY <1>2, <1>4, AfterReceiveNack, AfterReceiveNackReplies
<1> HIDE DEF o
<1>6. /\ \A p \in Replies(sent') : p.face \in DOMAIN pit[k].in \ DOMAIN o.entry.in
      /\ \A p, q \in Replies(sent') : p.face = q.face => p = q
      /\ \A g \in DOMAIN pit[k].in \ DOMAIN o.entry.in : \E p \in Replies(sent') : p.face = g
  BY <1>1, <1>3, <1>4, <1>5 DEF Replied
<1>7. Answered /\ Retired
  <2>1. \A g \in DOMAIN pit[k].in \ DOMAIN o.entry.in : AnsweredOrExcused(g)
    BY <1>6 DEF AnsweredOrExcused
  <2>2. DOMAIN o.entry.out = DOMAIN pit[k].out
    BY <1>3, <1>4, <1>5
  <2> QED
    BY <1>1, <2>1, <2>2, WritesOneEntry
<1>8. Balanced
  <2>1. k \in DOMAIN pit' /\ pit'[k] = o.entry
    BY <1>1 DEF Put
  <2> QED
    BY <1>1, <1>6, <2>1 DEF Balanced
<1> QED
  BY <1>7, <1>8 DEF GoodStep

LEMMA RemoveFaceIsGood ==
  ASSUME IInv, NEW f \in Face, RemoveFace(f)
  PROVE  GoodStep
<1>1. /\ faces' = faces \ {f} /\ sent' = {}
      /\ pit' = [k \in DOMAIN pit |-> deleteOutRecord(deleteInRecord(pit[k], f), f)]
  BY DEF RemoveFace
<1>2. Balanced
  BY <1>1 DEF Balanced, Replies
<1>3. ASSUME NEW k \in DOMAIN pit
      PROVE  /\ k \in DOMAIN pit'
             /\ DOMAIN pit'[k].in = DOMAIN pit[k].in \ {f}
             /\ DOMAIN pit'[k].out = DOMAIN pit[k].out \ {f}
  <2> DEFINE c == deleteInRecord(pit[k], f)
             s == deleteOutRecord(c, f)
  <2>1. IsEntry(pit[k])
    BY DEF IInv, PitOK, EntryOK
  <2>2. IsEntry(c) /\ DOMAIN c.in = DOMAIN pit[k].in \ {f} /\ c.out = pit[k].out
    BY <2>1, DeleteInRecord
  <2>3. k \in DOMAIN pit' /\ pit'[k] = s
    BY <1>1
  <2> HIDE DEF c
  <2>4. s.in = c.in /\ DOMAIN s.out = DOMAIN c.out \ {f}
    BY <2>2, DeleteOutRecord
  <2> QED
    BY <2>2, <2>3, <2>4
<1>4. Answered
  BY <1>1, <1>3 DEF Answered
<1>5. Retired
  <2>1. \A k \in DOMAIN pit : \A g \in DOMAIN pit[k].out :
            (k \in DOMAIN pit' /\ g \in DOMAIN pit'[k].out) \/ g \notin faces'
    BY <1>1, <1>3
  <2> QED
    BY <2>1 DEF Retired
<1> QED
  BY <1>2, <1>4, <1>5 DEF GoodStep

\* Every pipeline, and every change of the tables from outside.
LEMMA StepsAreGood == IInv /\ [Next]_vars => [GoodStep]_vars
<1> SUFFICES ASSUME IInv, Next PROVE GoodStep
  OBVIOUS
<1>1. ASSUME NEW f \in Face, NEW i \in Interest, onIncomingInterest(f, i) PROVE GoodStep
  <2>1. CASE InterestDrop(f, i)
    BY <2>1, SilentStep DEF InterestDrop
  <2>2. CASE onInterestLoop(f, i)
    BY <2>2, LoopIsGood
  <2>3. CASE onContentStoreHit(f, i)
    BY <2>3, HitIsGood
  <2>4. CASE onContentStoreMiss(f, i)
    BY <2>4, MissIsGood
  <2> QED
    BY <1>1, <2>1, <2>2, <2>3, <2>4 DEF onIncomingInterest
<1>2. ASSUME NEW k \in Key, onInterestFinalize(k) PROVE GoodStep
  BY <1>2, FinalizeIsGood
<1>3. ASSUME NEW f \in Face, NEW d \in Data, onIncomingData(f, d) PROVE GoodStep
  <2>1. CASE DataDrop(f, d)
    BY <2>1, SilentStep DEF DataDrop
  <2>2. CASE onDataUnsolicited(f, d)
    BY <2>2, SilentStep DEF onDataUnsolicited
  <2>3. CASE SatisfyOne(f, d)
    BY <2>3, SatisfyOneIsGood
  <2>4. CASE SatisfyMany(f, d)
    BY <2>4, SatisfyManyIsGood
  <2> QED
    BY <1>3, <2>1, <2>2, <2>3, <2>4 DEF onIncomingData
<1>4. ASSUME NEW f \in Face, NEW k \in Key, NEW n \in Nonce, NackDrop(f, k, n) PROVE GoodStep
  BY <1>4, SilentStep DEF NackDrop
<1>5. ASSUME NEW f \in Face, NEW k \in Key, NEW n \in Nonce, NEW r \in NackReason,
             onIncomingNack(f, k, n, r)
      PROVE  GoodStep
  BY <1>5, NackIsGood
<1>6. ASSUME NEW f \in Face, RemoveFace(f) PROVE GoodStep
  BY <1>6, RemoveFaceIsGood
<1>7. CASE \/ \E p \in Name, f \in Face : removeNextHop(p, f)
           \/ \E r \in Route : addNextHop(r[1], r[2], r[3])
           \/ DnlForget
           \/ Tick
  BY <1>7, SilentStep DEF removeNextHop, addNextHop, DnlForget, Tick
<1> QED
  BY <1>1, <1>2, <1>3, <1>4, <1>5, <1>6, <1>7 DEF Next

\* Flow balance: Forwarder and strategies send a face at most one Data or Nack in a
\* step, in exchange for an in-record or for the Interest being processed.
THEOREM FlowBalanceHolds == Spec => FlowBalance
<1>1. IInv /\ [Next]_vars => [Balanced]_vars
  BY StepsAreGood DEF GoodStep
<1> QED
  BY <1>1, Invariance, PTL DEF Spec, FlowBalance, Balanced

\* A pipeline that removes unexpired in-records from an entry it keeps answers their
\* faces, except the one that sent the Data and those that scope control excludes.
THEOREM DownstreamsAnsweredHolds == Spec => DownstreamsAnswered
<1>1. IInv /\ [Next]_vars => [Answered]_vars
  BY StepsAreGood DEF GoodStep
<1> QED
  BY <1>1, Invariance, PTL DEF Spec, DownstreamsAnswered, Answered, AnsweredOrExcused

\* insertDeadNonceList: the Nonce of an out-record leaves the PIT for the Dead Nonce
\* List, unless the face is gone or the Content Store has the Data to stop a loop.
THEOREM NoncesRetireHolds == Spec => NoncesRetire
<1>1. IInv /\ [Next]_vars => [Retired]_vars
  BY StepsAreGood DEF GoodStep
<1> QED
  BY <1>1, Invariance, PTL DEF Spec, NoncesRetire, Retired

=============================================================================
