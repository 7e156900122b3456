----------------------------- MODULE Forwarder -----------------------------
(***************************************************************************)
(* The forwarding pipelines of NFD (daemon/fw/forwarder.cpp) over the PIT, *)
(* the FIB, the Content Store, the Dead Nonce List and the face table.     *)
(*                                                                         *)
(* NFD runs its pipelines to completion on one thread, so a pipeline is    *)
(* one step, from the packet a face delivers to the packets it sends.      *)
(* What interleaves is the order in which packets, expiry timers, face     *)
(* removals and FIB updates reach that thread. A timer fires some time     *)
(* after it is due, never before: Tick may run past it.                    *)
(*                                                                         *)
(* Interests carry no forwarding hint. The Content Store is any cache of   *)
(* at most CsLimit packets, the Dead Nonce List any set that forgets.      *)
(***************************************************************************)
EXTENDS Strategies

CONSTANTS
    Prefix,             \* <<p, n>> when p is a prefix of n
    Nonce,              \* Nonces of the Interests that arrive
    Lifetime,           \* their InterestLifetimes
    NextHopFaceId,      \* their NextHopFaceId tags: faces, or NoFace
    NoFace,
    MustBeFresh,        \* their MustBeFresh selectors
    Freshness,          \* FreshnessPeriods of the Data that arrive
    Route,              \* next hops management may add: <<name, face, cost>>
    Permanent,          \* faces that never close, such as the internal face
    CsLimit,            \* capacity of the Content Store
    DnlLifetime,        \* DeadNonceList::getLifetime()
    UnsolicitedPolicy,  \* which unsolicited Data the Content Store admits
    MaxTime             \* bound: no step is taken after this instant

ASSUME ForwarderAssumption ==
    /\ Prefix \subseteq Name \X Name
    /\ Nonce \subseteq Nat
    /\ Lifetime \subseteq Nat
    /\ NoFace \notin Face
    /\ NextHopFaceId \subseteq Face \cup {NoFace}
    /\ MustBeFresh \subseteq BOOLEAN
    /\ Freshness \subseteq Nat
    /\ Route \subseteq Name \X Face \X Nat
    /\ Permanent \subseteq Face
    /\ CsLimit \in Nat
    /\ DnlLifetime \in Nat
    /\ UnsolicitedPolicy \in {"drop-all", "admit-local", "admit-network", "admit-all"}
    /\ MaxTime \in Nat

VARIABLES
    now,    \* steady_clock::now(), in ticks
    faces,  \* m_faceTable
    fib,    \* m_fib: name |-> face |-> cost
    pit,    \* m_pit: key |-> entry
    cs,     \* m_cs: Data |-> the instant it becomes stale
    dnl,    \* m_deadNonceList: <<name, nonce>>
    sent    \* packets the last step handed to faces

vars == <<now, faces, fib, pit, cs, dnl, sent>>

Interest == [name : Name, mbf : MustBeFresh, nonce : Nonce, lifetime : Lifetime,
             nexthop : NextHopFaceId]
Data == [name : Name, freshness : Freshness]

\* Interests with the same name and selectors share a PIT entry.
Key == [name : Name, mbf : BOOLEAN]
KeyOf(i) == [name |-> i.name, mbf |-> i.mbf]

\* Pit::insert: the entry the Interest belongs to, new if there is none.
PitEntry(k) == IF k \in DOMAIN pit THEN pit[k] ELSE NewEntry

TypeOK ==
    /\ now \in Nat
    /\ faces \subseteq Face
    /\ IsPartialFunction(fib, Name, {fib[p] : p \in DOMAIN fib})
    /\ \A p \in DOMAIN fib : IsPartialFunction(fib[p], Face, Nat)
    /\ IsPartialFunction(pit, Key, {pit[k] : k \in DOMAIN pit})
    /\ \A k \in DOMAIN pit : IsEntry(pit[k])
    /\ IsPartialFunction(cs, Data, Nat)
    /\ dnl \subseteq Name \X Nat
    /\ sent \subseteq Packet

Init ==
    /\ now = 0
    /\ faces = Face
    /\ fib = [n \in {} |-> 0]
    /\ pit = [k \in {} |-> 0]
    /\ cs = [d \in {} |-> 0]
    /\ dnl = {}
    /\ sent = {}

-----------------------------------------------------------------------------
(* Tables *)

\* Strategy::lookupFib without a forwarding hint: longest prefix match, and the
\* empty entry when no prefix of the name has an entry.
NextHops(name) ==
    LET matches == {p \in DOMAIN fib : <<p, name>> \in Prefix}
        longest == {p \in matches : \A q \in matches : <<q, p>> \in Prefix}
    IN  IF longest = {} THEN [f \in {} |-> 0] ELSE fib[CHOOSE p \in longest : TRUE]

\* Fib::removeNextHop erases the entry with its last next hop.
WithoutNextHop(table, p, f) ==
    IF DOMAIN table[p] \subseteq {f} THEN Drop(table, p) ELSE Put(table, p, Drop(table[p], f))

\* Data a Content Store lookup may return.
CsMatches(i) ==
    {d \in DOMAIN cs : <<i.name, d.name>> \in Prefix /\ (i.mbf => cs[d] >= now)}

\* Contents of the Content Store after inserting d, evicting one packet, any of
\* them, when it is full.
CsAfterInsert(d) ==
    LET full == Put(cs, d, now + d.freshness) IN
    IF CsLimit = 0 THEN {cs}
    ELSE IF Cardinality(DOMAIN full) <= CsLimit THEN {full}
    ELSE {Drop(full, x) : x \in DOMAIN full}

\* Pit::findAllDataMatches; MustBeFresh plays no part in it.
DataMatches(d) == {k \in DOMAIN pit : <<k.name, d.name>> \in Prefix}

ViolatesLocalhost(f, name) == f \notin Local /\ name \in Localhost

\* Mutant: no Nonce of a satisfied entry is recorded.
DeadNoncesIfUnsatisfied(e, k, F) ==
    {<<k.name, e.out[f].nonce>> : f \in {g \in DOMAIN e.out \cap F : ~e.satisfied}}

\* insertDeadNonceList: the Nonces of the out-records of faces F, unless the entry
\* was satisfied by Data that the Content Store can answer a looping Interest with.
DeadNonces(e, k, F) ==
    {<<k.name, e.out[f].nonce>> :
        f \in {g \in DOMAIN e.out \cap F :
                  e.satisfied => (k.mbf /\ e.freshness < DnlLifetime)}}

-----------------------------------------------------------------------------
(* Incoming Interest pipeline *)

InterestDrop(f, i) ==
    /\ f \in faces
    /\ ViolatesLocalhost(f, i.name)
    /\ sent' = {}
    /\ UNCHANGED <<now, faces, fib, pit, cs, dnl>>

\* On a point-to-point face, a Nonce repeated by the face that sent it first is a
\* retransmission, not a loop.
IsLooping(f, i) ==
    LET dnw == findDuplicateNonce(PitEntry(KeyOf(i)), i.nonce, f) IN
    \/ <<i.name, i.nonce>> \in dnl
    \/ dnw # {} /\ ~(LinkType[f] = "p2p" /\ "IN_SAME" \in dnw)

\* Mutant: the PIT entry is inserted before the Dead Nonce List is consulted.
InsertBeforeLoopCheck(f, i) ==
    /\ f \in faces
    /\ ~ViolatesLocalhost(f, i.name)
    /\ IsLooping(f, i)
    /\ pit' = Put(pit, KeyOf(i), PitEntry(KeyOf(i)))
    /\ sent' = {}
    /\ UNCHANGED <<now, faces, fib, cs, dnl>>

onInterestLoop(f, i) ==
    /\ f \in faces
    /\ ~ViolatesLocalhost(f, i.name)
    /\ IsLooping(f, i)
    /\ sent' = IF LinkType[f] # "p2p" THEN {}
               ELSE {NackPacket(f, i.name, i.nonce, DUPLICATE)}
    /\ UNCHANGED <<now, faces, fib, pit, cs, dnl>>

onContentStoreHit(f, i) ==
    /\ f \in faces
    /\ ~ViolatesLocalhost(f, i.name)
    /\ ~IsLooping(f, i)
    /\ DOMAIN PitEntry(KeyOf(i)).in = {}
    /\ \E d \in CsMatches(i) :
        /\ pit' = Put(pit, KeyOf(i), setExpiryTimer(
                    [PitEntry(KeyOf(i)) EXCEPT !.satisfied = TRUE, !.freshness = d.freshness],
                    now))
        /\ sent' = onOutgoingData(d.name, f)
    /\ UNCHANGED <<now, faces, fib, cs, dnl>>

LastExpiring(e) == {f \in DOMAIN e.in : \A g \in DOMAIN e.in : e.in[g].expiry <= e.in[f].expiry}

\* What happens to the entry once the Interest has its in-record: it goes to the
\* face its NextHopFaceId tag names, if that exists, or to the strategy.
Forward(e, f, i) ==
    IF i.nexthop = NoFace THEN afterReceiveInterest(e, f, i, NextHops(i.name), now)
    ELSE IF i.nexthop \in faces THEN {onOutgoingInterest(e, i.nexthop, i, now)}
    ELSE {Outcome(e, {})}

\* Mutant: the timer follows the Interest just received, not the last in-record.
MissTimerFromThisInterest(f, i) ==
    /\ f \in faces
    /\ ~ViolatesLocalhost(f, i.name)
    /\ ~IsLooping(f, i)
    /\ now + i.lifetime <= MaxTime
    /\ DOMAIN PitEntry(KeyOf(i)).in # {} \/ CsMatches(i) = {}
    /\ LET e == insertOrUpdateInRecord(PitEntry(KeyOf(i)), f, i, now) IN
        \E o \in Forward(setExpiryTimer(e, now + i.lifetime), f, i) :
            /\ pit' = Put(pit, KeyOf(i), o.entry)
            /\ sent' = o.sent
    /\ UNCHANGED <<now, faces, fib, cs, dnl>>

\* A pending Interest skips the Content Store. The bound MaxTime admits only
\* Interests that expire by then.
onContentStoreMiss(f, i) ==
    /\ f \in faces
    /\ ~ViolatesLocalhost(f, i.name)
    /\ ~IsLooping(f, i)
    /\ now + i.lifetime <= MaxTime
    /\ DOMAIN PitEntry(KeyOf(i)).in # {} \/ CsMatches(i) = {}
    /\ LET e == insertOrUpdateInRecord(PitEntry(KeyOf(i)), f, i, now) IN
        \E last \in LastExpiring(e) :
          \E o \in Forward(setExpiryTimer(e, e.in[last].expiry), f, i) :
            /\ pit' = Put(pit, KeyOf(i), o.entry)
            /\ sent' = o.sent
    /\ UNCHANGED <<now, faces, fib, cs, dnl>>

\* Mutant: a timer that is late never runs.
FinalizeOnTimeOnly(k) ==
    /\ k \in DOMAIN pit
    /\ pit[k].timer = now
    /\ dnl' = dnl \cup DeadNonces(pit[k], k, Face)
    /\ pit' = Drop(pit, k)
    /\ sent' = {}
    /\ UNCHANGED <<now, faces, fib, cs>>

\* The scheduler runs the expiry timer of an entry at or after the time it is due.
onInterestFinalize(k) ==
    /\ k \in DOMAIN pit
    /\ pit[k].timer # NoTimer
    /\ pit[k].timer <= now
    /\ dnl' = dnl \cup DeadNonces(pit[k], k, Face)
    /\ pit' = Drop(pit, k)
    /\ sent' = {}
    /\ UNCHANGED <<now, faces, fib, cs>>

-----------------------------------------------------------------------------
(* Incoming Data pipeline *)

DataDrop(f, d) ==
    /\ f \in faces
    /\ ViolatesLocalhost(f, d.name)
    /\ sent' = {}
    /\ UNCHANGED <<now, faces, fib, pit, cs, dnl>>

AdmitsUnsolicited(f) ==
    \/ UnsolicitedPolicy = "admit-all"
    \/ UnsolicitedPolicy = "admit-local" /\ f \in Local
    \/ UnsolicitedPolicy = "admit-network" /\ f \notin Local

onDataUnsolicited(f, d) ==
    /\ f \in faces
    /\ ~ViolatesLocalhost(f, d.name)
    /\ DataMatches(d) = {}
    /\ IF AdmitsUnsolicited(f) THEN cs' \in CsAfterInsert(d) ELSE UNCHANGED cs
    /\ sent' = {}
    /\ UNCHANGED <<now, faces, fib, pit, dnl>>

\* What both branches do to a matched entry, before they delete records from it.
Satisfied(e, d) ==
    [setExpiryTimer(e, now) EXCEPT !.satisfied = TRUE, !.freshness = d.freshness]

\* One match: the strategy's afterReceiveData returns the Data.
SatisfyOne(f, d) ==
    /\ f \in faces
    /\ ~ViolatesLocalhost(f, d.name)
    /\ cs' \in CsAfterInsert(d)
    /\ \E k \in DOMAIN pit :
        /\ DataMatches(d) = {k}
        /\ LET o == sendDataToAll(pit[k], f, d.name, now)
               e == Satisfied(o.entry, d)
           IN  /\ pit' = Put(pit, k, deleteOutRecord(e, f))
               /\ dnl' = dnl \cup DeadNonces(e, k, {f})
               /\ sent' = o.sent
    /\ UNCHANGED <<now, faces, fib>>

\* Several matches: one packet to every face with an unexpired in-record in any of
\* them; a face that sent more than one of the Interests gets one Data.
SatisfyMany(f, d) ==
    LET matches == DataMatches(d)
        satisfied == [k \in matches |-> Satisfied(pit[k], d)]
        pendingDownstreams ==
            UNION {{g \in DOMAIN pit[k].in : pit[k].in[g].expiry > now} : k \in matches}
    IN  /\ f \in faces
        /\ ~ViolatesLocalhost(f, d.name)
        /\ \E k, j \in matches : k # j
        /\ cs' \in CsAfterInsert(d)
        /\ pit' = [k \in DOMAIN pit |->
                    IF k \in matches THEN deleteOutRecord(clearInRecords(satisfied[k]), f)
                                     ELSE pit[k]]
        /\ dnl' = dnl \cup UNION {DeadNonces(satisfied[k], k, {f}) : k \in matches}
        /\ sent' = UNION {onOutgoingData(d.name, g) :
                            g \in {h \in pendingDownstreams : h # f \/ LinkType[h] = "ad-hoc"}}
        /\ UNCHANGED <<now, faces, fib>>

-----------------------------------------------------------------------------
(* Incoming Nack pipeline *)

\* The Nack answers the last Interest forwarded to f.
AcceptsNack(f, k, nonce) ==
    /\ LinkType[f] = "p2p"
    /\ k \in DOMAIN pit
    /\ f \in DOMAIN pit[k].out
    /\ pit[k].out[f].nonce = nonce

NackDrop(f, k, nonce) ==
    /\ f \in faces
    /\ ~AcceptsNack(f, k, nonce)
    /\ sent' = {}
    /\ UNCHANGED <<now, faces, fib, pit, cs, dnl>>

onIncomingNack(f, k, nonce, reason) ==
    /\ f \in faces
    /\ AcceptsNack(f, k, nonce)
    /\ LET e == setIncomingNack(pit[k], f, reason)
           o == afterReceiveNack(
                    IF hasPendingOutRecords(e, now) THEN e ELSE setExpiryTimer(e, now), k.name)
       IN  /\ pit' = Put(pit, k, o.entry)
           /\ sent' = o.sent
    /\ UNCHANGED <<now, faces, fib, cs, dnl>>

-----------------------------------------------------------------------------
(* Faces, FIB, Dead Nonce List, time *)

\* Mutant: the cleanup forgets the out-records.
CleanupKeepsOutRecords(f) ==
    /\ f \in faces \ Permanent
    /\ faces' = faces \ {f}
    /\ pit' = [k \in DOMAIN pit |-> deleteInRecord(pit[k], f)]
    /\ fib' = [p \in {q \in DOMAIN fib : ~(DOMAIN fib[q] \subseteq {f})} |-> Drop(fib[p], f)]
    /\ sent' = {}
    /\ UNCHANGED <<now, cs, dnl>>

\* FaceTable::remove with cleanupOnFaceRemoval. FaceIds are not used again.
RemoveFace(f) ==
    /\ f \in faces \ Permanent
    /\ faces' = faces \ {f}
    /\ pit' = [k \in DOMAIN pit |-> deleteOutRecord(deleteInRecord(pit[k], f), f)]
    /\ fib' = [p \in {q \in DOMAIN fib : ~(DOMAIN fib[q] \subseteq {f})} |-> Drop(fib[p], f)]
    /\ sent' = {}
    /\ UNCHANGED <<now, cs, dnl>>

addNextHop(p, f, cost) ==
    /\ f \in faces
    /\ fib' = Put(fib, p, Put(IF p \in DOMAIN fib THEN fib[p] ELSE [g \in {} |-> 0], f, cost))
    /\ sent' = {}
    /\ UNCHANGED <<now, faces, pit, cs, dnl>>

removeNextHop(p, f) ==
    /\ f \in faces
    /\ p \in DOMAIN fib
    /\ f \in DOMAIN fib[p]
    /\ fib' = WithoutNextHop(fib, p, f)
    /\ sent' = {}
    /\ UNCHANGED <<now, faces, pit, cs, dnl>>

DnlForget ==
    /\ \E x \in dnl : dnl' = dnl \ {x}
    /\ sent' = {}
    /\ UNCHANGED <<now, faces, fib, pit, cs>>

Tick ==
    /\ now < MaxTime
    /\ now' = now + 1
    /\ sent' = {}
    /\ UNCHANGED <<faces, fib, pit, cs, dnl>>

-----------------------------------------------------------------------------

onIncomingInterest(f, i) ==
    \/ InterestDrop(f, i)
    \/ onInterestLoop(f, i)
    \/ onContentStoreHit(f, i)
    \/ onContentStoreMiss(f, i)

onIncomingData(f, d) ==
    \/ DataDrop(f, d)
    \/ onDataUnsolicited(f, d)
    \/ SatisfyOne(f, d)
    \/ SatisfyMany(f, d)

Next ==
    \/ \E f \in Face, i \in Interest : onIncomingInterest(f, i)
    \/ \E k \in Key : onInterestFinalize(k)
    \/ \E f \in Face, d \in Data : onIncomingData(f, d)
    \/ \E f \in Face, k \in Key, n \in Nonce :
        \/ NackDrop(f, k, n)
        \/ \E r \in NackReason : onIncomingNack(f, k, n, r)
    \/ \E f \in Face : RemoveFace(f)
    \/ \E p \in Name, f \in Face : removeNextHop(p, f)
    \/ \E r \in Route : addNextHop(r[1], r[2], r[3])
    \/ DnlForget
    \/ Tick

Spec == Init /\ [][Next]_vars

\* Timers of the scheduler fire, and time passes.
FairSpec == Spec /\ WF_vars(Tick) /\ \A k \in Key : WF_vars(onInterestFinalize(k))

-----------------------------------------------------------------------------
(* Properties *)

\* No PIT entry is leaked: whichever pipeline inserted or last touched an entry,
\* an expiry timer is scheduled that will run onInterestFinalize for it.
EveryEntryHasTimer == \A k \in DOMAIN pit : pit[k].timer # NoTimer

\* No record refers to a face that is gone: cleanupOnFaceRemoval leaves neither a
\* FIB next hop nor a PIT in- or out-record of it, and no FIB entry without next
\* hops, whatever the pipelines did before and do after the removal.
NoDanglingFaces ==
    /\ \A p \in DOMAIN fib : DOMAIN fib[p] \subseteq faces /\ DOMAIN fib[p] # {}
    /\ \A k \in DOMAIN pit : DOMAIN pit[k].in \cup DOMAIN pit[k].out \subseteq faces

\* /localhost stays on this host and /localhop goes one hop: only local faces are
\* downstreams of a /localhost entry, only local faces or faces a NextHopFaceId
\* tag names are its upstreams, /localhost Data goes to local faces, and a
\* /localhop Interest leaves the host only for a local downstream with its Nonce.
ScopeRespected ==
    /\ \A k \in DOMAIN pit : k.name \in Localhost =>
        /\ DOMAIN pit[k].in \subseteq Local
        /\ DOMAIN pit[k].out \subseteq Local \cup NextHopFaceId
    /\ \A p \in sent :
        /\ p.type = "Data" /\ p.name \in Localhost => p.face \in Local
        /\ p.type = "Interest" /\ p.name \in Localhop /\ p.face \notin Local \cup NextHopFaceId
            => \E k \in DOMAIN pit : /\ k.name = p.name
                                    /\ \E f \in DOMAIN pit[k].in \cap Local :
                                        pit[k].in[f].nonce = p.nonce

\* A downstream is not abandoned while an upstream may still answer: until Data
\* satisfies an entry, as long as an out-record is neither expired nor Nacked the
\* expiry timer is no earlier than any in-record's expiry. Multicast is excepted:
\* it rejects the whole entry when one downstream has no next hop left to use.
PendingNotAbandoned ==
    \A k \in DOMAIN pit :
        /\ StrategyOf[k.name] # "multicast"
        /\ ~pit[k].satisfied
        /\ hasPendingOutRecords(pit[k], now)
        => \A f \in DOMAIN pit[k].in : pit[k].in[f].expiry <= pit[k].timer

Replies(S) == {p \in S : p.type # "Interest"}

\* Flow balance: a face gets at most one Data or Nack in a step, and only in
\* exchange for an in-record that the step removes or for an Interest it received
\* from that face. Together these say that a face is never sent more Data and
\* Nacks than it sent Interests.
FlowBalance ==
    [][\A p \in Replies(sent') :
        /\ \A q \in Replies(sent') : p.face = q.face => p = q
        /\ \/ \E k \in DOMAIN pit :
                /\ p.face \in DOMAIN pit[k].in
                /\ k \in DOMAIN pit' /\ p.face \notin DOMAIN pit'[k].in
           \/ \E i \in Interest : onIncomingInterest(p.face, i)]_vars

\* No reply is swallowed: when a step removes an unexpired in-record from an entry it
\* keeps, its face is sent a Data or Nack, unless it was removed, the Data came from
\* it, or the Data is under /localhost and it is not a local face.
DownstreamsAnswered ==
    [][\A k \in DOMAIN pit \cap DOMAIN pit' :
        \A f \in (DOMAIN pit[k].in \ DOMAIN pit'[k].in) \cap faces' :
            pit[k].in[f].expiry > now =>
                \/ \E p \in Replies(sent') : p.face = f
                \/ \E d \in Data : onIncomingData(f, d)
                \/ f \notin Local /\ \E g \in Face, d \in Data :
                        d.name \in Localhost /\ onIncomingData(g, d)]_vars

\* Loop detection keeps what it needs: the Nonce of an out-record is dropped only
\* into the Dead Nonce List, unless its face was removed, a newer Interest went to
\* the same face, or the entry was answered by Data that the Content Store may
\* return to a looping Interest as well.
NoncesRetire ==
    [][\A k \in DOMAIN pit : \A f \in DOMAIN pit[k].out :
        \/ k \in DOMAIN pit' /\ f \in DOMAIN pit'[k].out
        \/ <<k.name, pit[k].out[f].nonce>> \in dnl'
        \/ f \notin faces'
        \/ LET e == IF k \in DOMAIN pit' THEN pit'[k] ELSE pit[k]
           IN  e.satisfied /\ (k.mbf => e.freshness >= DnlLifetime)]_vars

\* Every PIT entry is erased in the end, once no Interest renews it.
PitDrains == \A k \in Key : k \in DOMAIN pit ~> k \notin DOMAIN pit

=============================================================================
