-------------------------- MODULE ComponentProofs ---------------------------
(***************************************************************************)
(* Theorems about three components that share no state: the Dead Nonce     *)
(* List, the TCP transport and the prefix propagator.                      *)
(*                                                                         *)
(* Dead Nonce List, for every set of entries and every choice of           *)
(* capacities, eviction limit and mark count that satisfies DnlAssumption. *)
(* The inductive invariant adds two facts to the type invariant. Bounded   *)
(* counts the MARKs that may have been pushed since adjustCapacity last    *)
(* evicted, from the two timers. Located says where an entry that was      *)
(* added a short while ago is: age[x] elements before the newest one.      *)
(*                                                                         *)
(* TCP transport, for any number of faults, any send queue and any limit   *)
(* of the wait between attempts to connect: the transport is freed after   *)
(* the last handler that refers to it, and it never stops working while it *)
(* is UP or DOWN.                                                          *)
(*                                                                         *)
(* Prefix propagator, for any names and identities, and any number of      *)
(* changes: while nothing is lost the hub has what the names need.         *)
(*                                                                         *)
(* The invariants of the last two are predicates of the record that a      *)
(* member function works on, so that they can be said of it before and     *)
(* after.                                                                  *)
(***************************************************************************)
EXTENDS DeadNonceList, TcpTransport, PrefixPropagator, FiniteSetTheorems, SequenceTheorems,
        TLAPS

(***************************************************************************)
(* Dead Nonce List                                                         *)
(***************************************************************************)
Bounded == Len(queue) <= MAX_CAPACITY + (EXPECTED_MARK_COUNT - adjustIn) + markIn

Located ==
    \A x \in Entry : age[x] < MIN_CAPACITY =>
        /\ age[x] < Len(queue)
        /\ queue[Len(queue) - age[x]] = x

IInv == TypeOK /\ Bounded /\ Located

-----------------------------------------------------------------------------

\* evictEntries drops the oldest elements only, no more than EVICT_LIMIT of them,
\* and never goes below the capacity.
LEMMA EvictLemma ==
    ASSUME NEW S, NEW q \in Seq(S), NEW c \in Nat
    PROVE  LET r == evictEntries(q, c) IN
           /\ r \in Seq(S)
           /\ Len(r) <= Len(q)
           /\ Len(q) <= c => Len(r) = Len(q)
           /\ Len(q) > c => /\ Len(r) >= c
                            /\ Len(r) = c \/ Len(r) = Len(q) - EVICT_LIMIT
           /\ \A i \in 1 .. Len(r) : r[i] = q[i + (Len(q) - Len(r))]
<1> DEFINE n == IF Len(q) - c <= EVICT_LIMIT THEN Len(q) - c ELSE EVICT_LIMIT
           r == evictEntries(q, c)
<1>0. Len(q) \in Nat /\ EVICT_LIMIT \in Nat
  BY DnlAssumption
<1>1. CASE Len(q) - c <= 0
  <2>1. r = q
    BY <1>1 DEF evictEntries
  <2> QED
    BY <1>0, <1>1, <2>1
<1>2. CASE ~(Len(q) - c <= 0)
  <2>1. r = SubSeq(q, n + 1, Len(q))
    BY <1>2 DEF evictEntries
  <2>2. n \in Nat /\ n <= Len(q) /\ n <= Len(q) - c /\ (n = Len(q) - c \/ n = EVICT_LIMIT)
    BY <1>0, <1>2
  <2> HIDE DEF n
  <2>3. r \in Seq(S) /\ Len(r) = Len(q) - n
    BY <1>0, <2>1, <2>2
  <2>4. \A i \in 1 .. Len(r) : r[i] = q[i + n]
    BY <1>0, <2>1, <2>2, <2>3
  <2> HIDE DEF r
  <2>5. n = Len(q) - Len(r)
    BY <1>0, <2>2, <2>3
  <2>6. \A i \in 1 .. Len(r) : r[i] = q[i + (Len(q) - Len(r))]
    BY <2>4, <2>5
  <2>7. /\ Len(r) <= Len(q)
        /\ ~(Len(q) <= c)
        /\ Len(r) >= c
        /\ Len(r) = c \/ Len(r) = Len(q) - EVICT_LIMIT
    BY <1>0, <1>2, <2>2, <2>3
  <2> QED
    BY <1>0, <2>3, <2>6, <2>7 DEF r
<1> QED
  BY <1>1, <1>2

\* adjustCapacity keeps the capacity within its limits.
LEMMA CapacityLemma ==
    ASSUME NEW c \in MIN_CAPACITY .. MAX_CAPACITY, NEW counts
    PROVE  AdjustedCapacity(c, counts) \in MIN_CAPACITY .. MAX_CAPACITY
<1> DEFINE down == (c * 9) \div 10
           up == (c * 6) \div 5
<1>1. /\ MIN_CAPACITY \in Nat /\ MAX_CAPACITY \in Nat /\ MIN_CAPACITY <= MAX_CAPACITY
      /\ c \in Nat
  BY DnlAssumption
<1>2. down \in Nat /\ down <= c /\ up \in Nat /\ up >= c
  BY <1>1
<1> HIDE DEF down, up
<1> QED
  BY <1>1, <1>2 DEF AdjustedCapacity, down, up

\* The number of MARKs in a queue is a number.
LEMMA CountLemma ==
    ASSUME NEW S, NEW q \in Seq(S)
    PROVE  countMarks(q) \in Nat
<1>1. IsFiniteSet(1 .. Len(q))
  BY FS_Interval
<1>2. IsFiniteSet({i \in 1 .. Len(q) : q[i] = MARK})
  BY <1>1, FS_Subset
<1> QED
  BY <1>2, FS_CardinalityType DEF countMarks

\* Ages count up to MIN_CAPACITY.
LEMMA OlderLemma ==
    ASSUME NEW n \in 0 .. MIN_CAPACITY
    PROVE  /\ Abstract!Older(n) \in 0 .. MIN_CAPACITY
           /\ Abstract!Older(n) < MIN_CAPACITY => Abstract!Older(n) = n + 1 /\ n < MIN_CAPACITY
  BY DnlAssumption DEF Abstract!Older

\* An eviction leaves every recently added entry where it is, counted from the end.
LEMMA EvictKeepsLocated ==
    ASSUME NEW q \in Seq(Entry \cup {MARK}), NEW c \in MIN_CAPACITY .. MAX_CAPACITY,
           NEW a \in Nat, a < MIN_CAPACITY, a < Len(q), NEW x, q[Len(q) - a] = x
    PROVE  LET r == evictEntries(q, c) IN a < Len(r) /\ r[Len(r) - a] = x
<1> DEFINE r == evictEntries(q, c)
<1>0. c \in Nat /\ MIN_CAPACITY \in Nat /\ c >= MIN_CAPACITY
  BY DnlAssumption
<1>1. /\ r \in Seq(Entry \cup {MARK})
      /\ Len(r) <= Len(q)
      /\ Len(q) <= c => Len(r) = Len(q)
      /\ Len(q) > c => Len(r) >= c
      /\ \A i \in 1 .. Len(r) : r[i] = q[i + (Len(q) - Len(r))]
  BY <1>0, EvictLemma
<1> HIDE DEF r
<1>2. Len(r) \in Nat /\ Len(q) \in Nat
  BY <1>1
<1>3. a < Len(r)
  BY <1>0, <1>1, <1>2
<1>4. r[Len(r) - a] = q[(Len(r) - a) + (Len(q) - Len(r))]
  BY <1>1, <1>2, <1>3
<1>5. (Len(r) - a) + (Len(q) - Len(r)) = Len(q) - a
  BY <1>2
<1> QED
  BY <1>3, <1>4, <1>5 DEF r

-----------------------------------------------------------------------------

\* The constructor establishes the invariant.
LEMMA InitIInv == Init => IInv
<1> SUFFICES ASSUME Init PROVE IInv
  OBVIOUS
<1>1. Len(queue) = EXPECTED_MARK_COUNT /\ queue \in Seq(Entry \cup {MARK})
  <2>1. EXPECTED_MARK_COUNT \in Nat
    BY DnlAssumption
  <2> QED
    BY <2>1 DEF Init
<1> QED
  BY <1>1, DnlAssumption DEF Init, IInv, TypeOK, Bounded, Located

\* add, mark and adjustCapacity keep the invariant.
LEMMA NextIInv == IInv /\ [Next]_vars => IInv'
<1> SUFFICES ASSUME IInv, [Next]_vars PROVE IInv'
  OBVIOUS
<1>c. /\ MIN_CAPACITY \in Nat \ {0} /\ MAX_CAPACITY \in Nat /\ EXPECTED_MARK_COUNT \in Nat \ {0}
      /\ EVICT_LIMIT \in Nat /\ EVICT_LIMIT > EXPECTED_MARK_COUNT
  BY DnlAssumption
<1>t. /\ queue \in Seq(Entry \cup {MARK}) /\ capacity \in MIN_CAPACITY .. MAX_CAPACITY
      /\ capacity \in Nat /\ capacity <= MAX_CAPACITY /\ Len(queue) \in Nat
      /\ markIn \in 0 .. 1 /\ adjustIn \in 0 .. EXPECTED_MARK_COUNT
      /\ age \in [Entry -> 0 .. MIN_CAPACITY]
      /\ Len(queue) <= MAX_CAPACITY + (EXPECTED_MARK_COUNT - adjustIn) + markIn
  BY <1>c DEF IInv, TypeOK, Bounded
<1>1. ASSUME NEW x \in Entry, add(x) PROVE IInv'
  <2>p. PICK q : q = Append(queue, x)
    OBVIOUS
  <2>q. /\ q \in Seq(Entry \cup {MARK}) /\ Len(q) = Len(queue) + 1 /\ q[Len(q)] = x
        /\ \A i \in 1 .. Len(queue) : q[i] = queue[i]
    BY <1>t, <2>p
  <2>1. queue' = evictEntries(q, capacity)
    BY <1>1, <2>p DEF add
  <2>2. TypeOK'
    <3>1. queue' \in Seq(Entry \cup {MARK})
      BY <1>t, <2>1, <2>q, EvictLemma
    <3>2. age' \in [Entry -> 0 .. MIN_CAPACITY]
      BY <1>1, <1>c, <1>t, OlderLemma DEF add
    <3> QED
      BY <1>1, <3>1, <3>2 DEF add, IInv, TypeOK
  <2>3. Bounded'
    <3>1. /\ Len(q) <= capacity => Len(queue') = Len(q)
          /\ Len(q) > capacity => Len(queue') = capacity \/ Len(queue') = Len(q) - EVICT_LIMIT
      BY <1>t, <2>1, <2>q, EvictLemma
    <3>2. markIn' = markIn /\ adjustIn' = adjustIn
      BY <1>1 DEF add
    <3> QED
      BY <1>c, <1>t, <2>q, <3>1, <3>2 DEF Bounded
  <2>4. Located'
    <3> SUFFICES ASSUME NEW y \in Entry, age'[y] < MIN_CAPACITY
                 PROVE  age'[y] < Len(queue') /\ queue'[Len(queue') - age'[y]] = y
      BY DEF Located
    <3>1. age'[y] \in Nat /\ age'[y] < Len(q) /\ q[Len(q) - age'[y]] = y
      <4>1. CASE y = x
        BY <1>1, <1>t, <2>q, <4>1 DEF add
      <4>2. CASE y # x
        <5>1. age[y] < MIN_CAPACITY /\ age'[y] = age[y] + 1
          BY <1>1, <1>t, <4>2, OlderLemma DEF add
        <5>2. age[y] < Len(queue) /\ queue[Len(queue) - age[y]] = y
          BY <5>1 DEF IInv, Located
        <5>3. age[y] \in Nat /\ Len(queue) - age[y] \in 1 .. Len(queue)
          BY <1>c, <1>t, <5>2
        <5>4. Len(q) - age'[y] = Len(queue) - age[y] /\ age'[y] \in Nat /\ age'[y] < Len(q)
          BY <1>t, <2>q, <5>1, <5>2, <5>3
        <5> QED
          BY <2>q, <5>2, <5>3, <5>4
      <4> QED
        BY <4>1, <4>2
    <3>2. PICK a, c : a = age'[y] /\ c = capacity
      OBVIOUS
    <3>3. /\ q \in Seq(Entry \cup {MARK}) /\ c \in MIN_CAPACITY .. MAX_CAPACITY
          /\ a \in Nat /\ a < MIN_CAPACITY /\ a < Len(q) /\ q[Len(q) - a] = y
      BY <1>t, <2>q, <3>1, <3>2
    <3>4. LET r == evictEntries(q, c) IN a < Len(r) /\ r[Len(r) - a] = y
      BY <3>3, EvictKeepsLocated
    <3> QED
      BY <2>1, <3>2, <3>4
  <2> QED
    BY <2>2, <2>3, <2>4 DEF IInv
<1>2. CASE mark
  <2>q. /\ queue' \in Seq(Entry \cup {MARK}) /\ Len(queue') = Len(queue) + 1
        /\ \A i \in 1 .. Len(queue) : queue'[i] = queue[i]
    BY <1>t, <1>2 DEF mark
  <2>1. TypeOK'
    <3>1. actualMarkCounts' \subseteq Nat
      BY <1>2, <2>q, CountLemma DEF mark, IInv, TypeOK
    <3>2. age' \in [Entry -> 0 .. MIN_CAPACITY]
      BY <1>2, <1>c, <1>t, OlderLemma DEF mark
    <3> QED
      BY <1>2, <2>q, <3>1, <3>2 DEF mark, IInv, TypeOK
  <2>2. Bounded'
    <3>1. markIn = 0 /\ markIn' = 1 /\ adjustIn' = adjustIn
      BY <1>2 DEF mark
    <3> QED
      BY <1>c, <1>t, <2>q, <3>1 DEF Bounded
  <2>3. Located'
    <3> SUFFICES ASSUME NEW y \in Entry, age'[y] < MIN_CAPACITY
                 PROVE  age'[y] < Len(queue') /\ queue'[Len(queue') - age'[y]] = y
      BY DEF Located
    <3>1. age[y] < MIN_CAPACITY /\ age'[y] = age[y] + 1
      BY <1>2, <1>t, OlderLemma DEF mark
    <3>2. age[y] < Len(queue) /\ queue[Len(queue) - age[y]] = y
      BY <3>1 DEF IInv, Located
    <3>3. age[y] \in Nat /\ Len(queue) - age[y] \in 1 .. Len(queue)
      BY <1>c, <1>t, <3>2
    <3>4. Len(queue') - age'[y] = Len(queue) - age[y] /\ age'[y] < Len(queue')
      BY <1>t, <2>q, <3>1, <3>2, <3>3
    <3> QED
      BY <2>q, <3>2, <3>3, <3>4
  <2> QED
    BY <2>1, <2>2, <2>3 DEF IInv
<1>3. CASE adjustCapacity
  <2>0. capacity' \in MIN_CAPACITY .. MAX_CAPACITY /\ capacity' \in Nat /\ capacity' <= MAX_CAPACITY
    BY <1>3, <1>c, <1>t, CapacityLemma DEF adjustCapacity
  <2>1. queue' = evictEntries(queue, capacity') /\ age' = age /\ markIn' = markIn
        /\ adjustIn = 0 /\ adjustIn' = EXPECTED_MARK_COUNT
    BY <1>3 DEF adjustCapacity
  <2>2. TypeOK'
    <3>1. queue' \in Seq(Entry \cup {MARK})
      BY <1>t, <2>0, <2>1, EvictLemma
    <3> QED
      BY <1>3, <1>c, <1>t, <2>0, <3>1 DEF adjustCapacity, TypeOK
  <2>3. Bounded'
    <3>1. /\ Len(queue) <= capacity' => Len(queue') = Len(queue)
          /\ Len(queue) > capacity' =>
                Len(queue') = capacity' \/ Len(queue') = Len(queue) - EVICT_LIMIT
      BY <1>t, <2>0, <2>1, EvictLemma
    <3>2. Len(queue) <= MAX_CAPACITY + EXPECTED_MARK_COUNT + markIn
      BY <1>c, <1>t, <2>1
    <3> QED
      BY <1>c, <1>t, <2>0, <2>1, <3>1, <3>2 DEF Bounded
  <2>4. Located'
    <3> SUFFICES ASSUME NEW y \in Entry, age[y] < MIN_CAPACITY
                 PROVE  age[y] < Len(queue') /\ queue'[Len(queue') - age[y]] = y
      BY <2>1 DEF Located
    <3>1. age[y] \in Nat /\ age[y] < Len(queue) /\ queue[Len(queue) - age[y]] = y
      BY <1>c, <1>t DEF IInv, Located
    <3> QED
      BY <1>t, <2>0, <2>1, <3>1, EvictKeepsLocated, SMTT(30)
  <2> QED
    BY <2>2, <2>3, <2>4 DEF IInv
<1>4. CASE Tick
  BY <1>4, <1>c, <1>t DEF Tick, IInv, TypeOK, Bounded, Located
<1>5. CASE UNCHANGED vars
  BY <1>5 DEF vars, IInv, TypeOK, Bounded, Located
<1> QED
  BY <1>1, <1>2, <1>3, <1>4, <1>5 DEF Next

\* The invariant holds in every state that the timers and add() reach.
THEOREM DnlInvariance == Spec => []IInv
<1> QED
  BY InitIInv, NextIInv, PTL DEF Spec

\* Type correctness; in particular adjustCapacity keeps m_capacity between
\* MIN_CAPACITY and MAX_CAPACITY.
THEOREM DnlTypeCorrect == Spec => []TypeOK
<1>1. IInv => TypeOK
  BY DEF IInv
<1> QED
  BY <1>1, DnlInvariance, PTL

\* The queue is bounded although mark() evicts nothing and evictEntries is limited.
THEOREM DnlQueueBounded == Spec => []QueueBounded
<1>1. IInv => QueueBounded
  BY DnlAssumption DEF IInv, TypeOK, Bounded, QueueBounded
<1> QED
  BY <1>1, DnlInvariance, PTL

-----------------------------------------------------------------------------

Entries == {queue[i] : i \in 1 .. Len(queue)} \ {MARK}

\* The recently added entries are in the queue.
LEMMA RecentFound == IInv => Abstract!Recent(age) \subseteq Entries
<1> SUFFICES ASSUME IInv, NEW x \in Entry, age[x] < MIN_CAPACITY PROVE x \in Entries
  BY DEF Abstract!Recent
<1>1. age[x] < Len(queue) /\ queue[Len(queue) - age[x]] = x
  BY DEF IInv, Located
<1>2. Len(queue) - age[x] \in 1 .. Len(queue)
  BY <1>1, DnlAssumption DEF IInv, TypeOK
<1> QED
  BY <1>1, <1>2, DnlAssumption DEF Entries

\* Evicting adds no element.
LEMMA EvictSubset ==
    ASSUME NEW S, NEW q \in Seq(S), NEW c \in Nat
    PROVE  LET r == evictEntries(q, c) IN
           {r[i] : i \in 1 .. Len(r)} \subseteq {q[i] : i \in 1 .. Len(q)}
<1> DEFINE r == evictEntries(q, c)
<1>1. /\ Len(r) <= Len(q) /\ Len(r) \in Nat /\ Len(q) \in Nat
      /\ \A i \in 1 .. Len(r) : r[i] = q[i + (Len(q) - Len(r))]
  BY EvictLemma
<1> HIDE DEF r
<1>2. \A i \in 1 .. Len(r) : i + (Len(q) - Len(r)) \in 1 .. Len(q)
  BY <1>1
<1> QED
  BY <1>1, <1>2 DEF r

\* The list implements the abstract set: every step of the list is an add, a mark or
\* a forgetting of old entries, and entries younger than MIN_CAPACITY elements are
\* always found.
THEOREM DnlImplementsNonceSet == Spec => ImplementsNonceSet
<1>1. Init => Abstract!Init
  <2> SUFFICES ASSUME Init PROVE Abstract!Init
    OBVIOUS
  <2>1. EXPECTED_MARK_COUNT \in Nat
    BY DnlAssumption
  <2>2. Entries = {}
    BY <2>1 DEF Init, Entries
  <2> QED
    BY <2>2 DEF Init, Entries, Abstract!Init
<1>2. IInv /\ IInv' /\ [Next]_vars => [Abstract!Next]_<<Entries, age>>
  <2> SUFFICES ASSUME IInv, IInv', [Next]_vars
               PROVE  [Abstract!Next]_<<Entries, age>>
    OBVIOUS
  <2>t. /\ queue \in Seq(Entry \cup {MARK}) /\ capacity \in Nat /\ capacity' \in Nat
        /\ queue' \in Seq(Entry \cup {MARK})
    BY DnlAssumption DEF IInv, TypeOK
  <2>r. Abstract!Recent(age') \subseteq Entries'
    <3>1. (IInv => Abstract!Recent(age) \subseteq Entries)'
      BY RecentFound, PTL
    <3> QED
      BY <3>1 DEF Abstract!Recent
  <2>1. ASSUME NEW x \in Entry, add(x) PROVE Abstract!add(x)
    <3>p. PICK q : q = Append(queue, x)
      OBVIOUS
    <3>1. {q[i] : i \in 1 .. Len(q)} \subseteq {queue[i] : i \in 1 .. Len(queue)} \cup {x}
      BY <2>t, <3>p
    <3>2. q \in Seq(Entry \cup {MARK})
      BY <2>t, <3>p
    <3>3. queue' = evictEntries(q, capacity)
      BY <2>1, <3>p DEF add
    <3>a. LET r == evictEntries(q, capacity)
          IN  {r[i] : i \in 1 .. Len(r)} \subseteq {q[i] : i \in 1 .. Len(q)}
      BY <2>t, <3>2, EvictSubset
    <3>4. {queue'[i] : i \in 1 .. Len(queue')} \subseteq {q[i] : i \in 1 .. Len(q)}
      BY <3>3, <3>a
    <3>5. Entries' \subseteq Entries \cup {x}
      BY <3>1, <3>4 DEF Entries
    <3> QED
      BY <2>1, <2>r, <3>5 DEF add, Abstract!add, Entries
  <2>2. CASE mark
    <3>1. Entries' \subseteq Entries
      BY <2>2, <2>t DEF mark, Entries
    <3> QED
      BY <2>2, <2>r, <3>1 DEF mark, Abstract!Mark, Abstract!Next, Entries
  <2>3. CASE adjustCapacity
    <3>1. queue' = evictEntries(queue, capacity') /\ age' = age
      BY <2>3 DEF adjustCapacity
    <3>2. PICK c \in Nat : c = capacity'
      BY <2>t
    <3>3. LET r == evictEntries(queue, c)
          IN  {r[i] : i \in 1 .. Len(r)} \subseteq {queue[i] : i \in 1 .. Len(queue)}
      BY <2>t, EvictSubset
    <3>4. {queue'[i] : i \in 1 .. Len(queue')} \subseteq {queue[i] : i \in 1 .. Len(queue)}
      BY <3>1, <3>2, <3>3
    <3>5. Entries' \subseteq Entries
      BY <3>4 DEF Entries
    <3> QED
      BY <2>r, <3>1, <3>5 DEF Abstract!Forget, Abstract!Next, Entries
  <2>4. CASE Tick \/ UNCHANGED vars
    BY <2>4 DEF Tick, vars, Entries
  <2> QED
    BY <2>1, <2>2, <2>3, <2>4 DEF Next, Abstract!Next
<1>3. Abstract!Init /\ [][Abstract!Next]_<<Entries, age>> => ImplementsNonceSet
  BY DEF ImplementsNonceSet, Abstract!Spec, Entries
<1> QED
  BY <1>1, <1>2, <1>3, DnlInvariance, PTL DEF Spec

(***************************************************************************)
(* TCP transport                                                           *)
(***************************************************************************)
State == {"UP", "DOWN", "CLOSING", "FAILED", "CLOSED"}
HandlerOp == IoOp \cup {"reconnect", "deferredClose", "free"}
Result == {"ok", "aborted", "error", "eof", "too large"}
AnyHandler == [op : HandlerOp, result : Result]

Transport ==
    [state : State, persistency : Persistency, sendQueue : Nat, wait : Nat,
     timer : BOOLEAN, socket : {"connecting", "connected", "shut", "closed"},
     ops : [IoOp -> Nat], ready : Seq(AnyHandler), freed : BOOLEAN, running : BOOLEAN]

-----------------------------------------------------------------------------
(* The end of a transport *)

\* A handler that runs without starting another one when the transport shuts down.
Quiet(h) ==
    /\ h.op \in {"send", "receive"} => h.result # "ok"
    /\ h.op = "receive" => h.result # "too large"

Ending(h) == h.op \in {"deferredClose", "free"}

\* No operation is under way on a socket that was shut or closed.
Idle(u) == u.socket \in {"shut", "closed"} => u.ops = NoOps

\* While the transport is open no handler that ends it is ready.
OpenPart(u) == ~u.freed /\ \A i \in 1 .. Len(u.ready) : ~Ending(u.ready[i])

\* While it shuts down nothing is under way, and what is ready after deferredClose is
\* quiet, so that nothing comes after the handler that frees the face.
ShutPart(u) ==
    /\ ~u.timer /\ u.socket \in {"shut", "closed"}
    /\ \A i, j \in 1 .. Len(u.ready) :
          i < j /\ u.ready[i].op = "deferredClose" => Quiet(u.ready[j])

ClosingPart(u) ==
    /\ ~u.freed
    /\ \A i \in 1 .. Len(u.ready) : u.ready[i].op # "free"
    /\ \E i \in 1 .. Len(u.ready) : u.ready[i].op = "deferredClose"

\* The handler that frees the face is the last one, until it has run.
ClosedPart(u) ==
    /\ \A i \in 1 .. Len(u.ready) : Quiet(u.ready[i])
    /\ \A i \in 1 .. Len(u.ready) : u.ready[i].op = "free" => i = Len(u.ready)
    /\ IF u.freed THEN u.ready = <<>>
       ELSE u.ready # <<>> /\ u.ready[Len(u.ready)].op = "free"

EndInv(u) ==
    /\ u \in Transport
    /\ Idle(u)
    /\ IF ~u.running THEN ~u.freed
       ELSE IF ~ShuttingDown(u) THEN OpenPart(u)
       ELSE ShutPart(u) /\ IF u.state = "CLOSED" THEN ClosedPart(u) ELSE ClosingPart(u)

-----------------------------------------------------------------------------
(* The work of a transport *)

Posted(u, op) == \E i \in 1 .. Len(u.ready) : u.ready[i].op = op

\* The operation is under way, or its handler is ready with an outcome that counts.
Live(u, op) ==
    \/ u.ops[op] > 0
    \/ \E i \in 1 .. Len(u.ready) : u.ready[i].op = op /\ u.ready[i].result # "aborted"

\* While the transport is DOWN an attempt to connect is posted, or is under way with
\* an empty send queue; while it is UP and no attempt is posted, it is writing what is
\* in the send queue, and it is receiving or connecting.
WorkInv(u) ==
    /\ u.running /\ u.state = "DOWN" => Posted(u, "reconnect") \/ (u.timer /\ u.sendQueue = 0)
    /\ u.running /\ u.state = "UP" /\ ~Posted(u, "reconnect") =>
          /\ u.sendQueue > 0 => Live(u, "send")
          /\ u.timer \/ Live(u, "receive")

TcpInv == EndInv(t) /\ WorkInv(t)

-----------------------------------------------------------------------------
(* What the member functions do *)

\* The list s of handlers begins with the handlers of r.
Continues(s, r) ==
    /\ r \in Seq(AnyHandler) /\ s \in Seq(AnyHandler)
    /\ Len(r) \in Nat /\ Len(s) \in Nat /\ Len(r) <= Len(s)
    /\ \A i \in 1 .. Len(r) : s[i] = r[i]

Added(s, r) == {s[i] : i \in Len(r) + 1 .. Len(s)}

LEMMA HandlerType ==
    ASSUME NEW op \in HandlerOp, NEW r \in Result
    PROVE  Handler(op, r) \in AnyHandler /\ Handler(op, r).op = op /\ Handler(op, r).result = r
BY DEF Handler, AnyHandler

LEMMA AppendContinues ==
    ASSUME NEW r \in Seq(AnyHandler), NEW h \in AnyHandler
    PROVE  /\ Continues(Append(r, h), r)
           /\ Len(Append(r, h)) = Len(r) + 1
           /\ Append(r, h)[Len(r) + 1] = h
           /\ Added(Append(r, h), r) = {h}
<1> DEFINE s == Append(r, h)
<1>1. /\ s \in Seq(AnyHandler) /\ Len(r) \in Nat /\ Len(s) = Len(r) + 1
      /\ \A i \in 1 .. Len(r) : s[i] = r[i]
      /\ s[Len(r) + 1] = h
  BY AppendProperties, LenProperties
<1> HIDE DEF s
<1>2. Continues(s, r) BY <1>1 DEF Continues
<1>3. Len(r) + 1 .. Len(s) = {Len(r) + 1} BY <1>1
<1>4. Added(s, r) = {h} BY <1>1, <1>3 DEF Added
<1> QED BY <1>1, <1>2, <1>4 DEF s

LEMMA ConcatContinues ==
    ASSUME NEW r \in Seq(AnyHandler), NEW x \in Seq(AnyHandler)
    PROVE  /\ Continues(r \o x, r)
           /\ Added(r \o x, r) = {x[i] : i \in 1 .. Len(x)}
<1> DEFINE s == r \o x
<1>1. /\ s \in Seq(AnyHandler) /\ Len(r) \in Nat /\ Len(x) \in Nat /\ Len(s) = Len(r) + Len(x)
      /\ \A i \in 1 .. Len(r) + Len(x) : s[i] = IF i <= Len(r) THEN r[i] ELSE x[i - Len(r)]
  BY ConcatProperties, LenProperties
<1> HIDE DEF s
<1>2. ASSUME NEW i \in 1 .. Len(r) PROVE s[i] = r[i]
  <2>1. i \in 1 .. Len(r) + Len(x) /\ i <= Len(r) BY <1>1
  <2> QED BY <1>1, <2>1
<1>3. Continues(s, r) BY <1>1, <1>2 DEF Continues
<1>4. ASSUME NEW i \in Len(r) + 1 .. Len(s) PROVE i - Len(r) \in 1 .. Len(x) /\ s[i] = x[i - Len(r)]
  <2>1. i \in 1 .. Len(r) + Len(x) /\ ~(i <= Len(r)) /\ i - Len(r) \in 1 .. Len(x) BY <1>1
  <2> QED BY <1>1, <2>1
<1>5. ASSUME NEW j \in 1 .. Len(x) PROVE \E i \in Len(r) + 1 .. Len(s) : s[i] = x[j]
  <2>1. j + Len(r) \in Len(r) + 1 .. Len(s) /\ (j + Len(r)) - Len(r) = j BY <1>1
  <2>2. s[j + Len(r)] = x[j] BY <1>4, <2>1
  <2> QED BY <2>1, <2>2
<1>6. Added(s, r) = {x[i] : i \in 1 .. Len(x)}
  <2>1. Added(s, r) \subseteq {x[i] : i \in 1 .. Len(x)} BY <1>4 DEF Added
  <2>2. {x[i] : i \in 1 .. Len(x)} \subseteq Added(s, r) BY <1>5 DEF Added
  <2> QED BY <2>1, <2>2
<1> QED BY <1>3, <1>6 DEF s

LEMMA ContinuesTransitive ==
    ASSUME NEW q, NEW r, NEW s, Continues(r, q), Continues(s, r)
    PROVE  /\ Continues(s, q)
           /\ Added(s, q) = Added(r, q) \cup Added(s, r)
<1>1. /\ Len(q) \in Nat /\ Len(r) \in Nat /\ Len(s) \in Nat
      /\ Len(q) <= Len(r) /\ Len(r) <= Len(s)
      /\ \A i \in 1 .. Len(q) : r[i] = q[i]
      /\ \A i \in 1 .. Len(r) : s[i] = r[i]
  BY DEF Continues
<1>2. \A i \in 1 .. Len(q) : i \in 1 .. Len(r) BY <1>1
<1>3. Continues(s, q) BY <1>1, <1>2 DEF Continues
<1>4. \A i \in Len(q) + 1 .. Len(s) :
            i \in Len(r) + 1 .. Len(s) \/ (i \in Len(q) + 1 .. Len(r) /\ i \in 1 .. Len(r))
  BY <1>1
<1>5. /\ \A i \in Len(r) + 1 .. Len(s) : i \in Len(q) + 1 .. Len(s)
      /\ \A i \in Len(q) + 1 .. Len(r) : i \in Len(q) + 1 .. Len(s) /\ i \in 1 .. Len(r)
  BY <1>1
<1>6. Added(s, q) \subseteq Added(r, q) \cup Added(s, r) BY <1>1, <1>4 DEF Added
<1>7. Added(r, q) \cup Added(s, r) \subseteq Added(s, q) BY <1>1, <1>5 DEF Added
<1> QED BY <1>3, <1>6, <1>7

\* The handlers of a list that continues another are those of the other and the added.
LEMMA ContinuesMembers ==
    ASSUME NEW r, NEW s, Continues(s, r)
    PROVE  /\ \A i \in 1 .. Len(s) : s[i] \in AnyHandler
           /\ \A i \in 1 .. Len(s) : (\E j \in 1 .. Len(r) : s[i] = r[j]) \/ s[i] \in Added(s, r)
           /\ \A j \in 1 .. Len(r) : \E i \in 1 .. Len(s) : s[i] = r[j]
           /\ \A h \in Added(s, r) : \E i \in 1 .. Len(s) : s[i] = h
<1>1. /\ Len(r) \in Nat /\ Len(s) \in Nat /\ Len(r) <= Len(s)
      /\ \A i \in 1 .. Len(r) : s[i] = r[i]
      /\ s \in Seq(AnyHandler)
  BY DEF Continues
<1>2. \A i \in 1 .. Len(s) : i \in 1 .. Len(r) \/ i \in Len(r) + 1 .. Len(s) BY <1>1
<1>3. /\ \A i \in 1 .. Len(r) : i \in 1 .. Len(s)
      /\ \A i \in Len(r) + 1 .. Len(s) : i \in 1 .. Len(s)
  BY <1>1
<1>4. \A i \in 1 .. Len(s) : s[i] \in AnyHandler BY <1>1, LenProperties
<1>5. \A i \in 1 .. Len(s) : (\E j \in 1 .. Len(r) : s[i] = r[j]) \/ s[i] \in Added(s, r)
  BY <1>1, <1>2 DEF Added
<1>6. \A h \in Added(s, r) : \E i \in 1 .. Len(s) : s[i] = h BY <1>3 DEF Added
<1> QED BY <1>1, <1>3, <1>4, <1>5, <1>6

\* Operations under way end in the order of their kinds.
LEMMA CompletedFacts ==
    ASSUME NEW u \in Transport, NEW result \in Result
    PROVE  LET v == Completed(u, result) IN
           /\ v \in Transport
           /\ v = [u EXCEPT !.ready = v.ready, !.ops = NoOps]
           /\ Continues(v.ready, u.ready)
           /\ \A h \in Added(v.ready, u.ready) : h.op \in IoOp /\ h.result = result
           /\ \A op \in IoOp : u.ops[op] > 0 => Handler(op, result) \in Added(v.ready, u.ready)
           /\ u.ops = NoOps => v.ready = u.ready
<1> DEFINE all(op) == [i \in 1 .. u.ops[op] |-> Handler(op, result)]
           v == Completed(u, result)
<1>1. u.ready \in Seq(AnyHandler) /\ u.ops \in [IoOp -> Nat] BY DEF Transport
<1>2. ASSUME NEW op \in IoOp
      PROVE  /\ all(op) \in Seq(AnyHandler)
             /\ Len(all(op)) = u.ops[op]
             /\ \A i \in 1 .. Len(all(op)) : all(op)[i] = Handler(op, result)
             /\ u.ops[op] > 0 => \E i \in 1 .. Len(all(op)) : all(op)[i] = Handler(op, result)
             /\ u.ops[op] = 0 => all(op) = <<>>
  <2>1. u.ops[op] \in Nat BY <1>1
  <2>2. Handler(op, result) \in AnyHandler BY HandlerType DEF HandlerOp
  <2> DEFINE n == u.ops[op]
             h == Handler(op, result)
  <2> HIDE DEF n, h
  <2>3. n \in Nat /\ h \in AnyHandler BY <2>1, <2>2 DEF n, h
  <2>4. [i \in 1 .. n |-> h] \in Seq(AnyHandler) /\ Len([i \in 1 .. n |-> h]) = n BY <2>3
  <2>5. n > 0 => 1 \in 1 .. n BY <2>3
  <2>6. n = 0 => [i \in 1 .. n |-> h] = <<>> OBVIOUS
  <2> QED BY <2>3, <2>4, <2>5, <2>6 DEF n, h
<1>3. "connect" \in IoOp /\ "receive" \in IoOp /\ "send" \in IoOp BY DEF IoOp
<1> DEFINE a == all("connect")  b == all("receive")  c == all("send")
           s == ((u.ready \o a) \o b) \o c
<1>4. v = [u EXCEPT !.ready = s, !.ops = NoOps] BY DEF Completed
<1>5. /\ a \in Seq(AnyHandler) /\ b \in Seq(AnyHandler) /\ c \in Seq(AnyHandler) BY <1>2, <1>3
<1>6. /\ \A i \in 1 .. Len(a) : a[i] = Handler("connect", result)
      /\ \A i \in 1 .. Len(b) : b[i] = Handler("receive", result)
      /\ \A i \in 1 .. Len(c) : c[i] = Handler("send", result)
  BY <1>2, <1>3
<1>7. /\ u.ops["connect"] > 0 => \E i \in 1 .. Len(a) : a[i] = Handler("connect", result)
      /\ u.ops["receive"] > 0 => \E i \in 1 .. Len(b) : b[i] = Handler("receive", result)
      /\ u.ops["send"] > 0 => \E i \in 1 .. Len(c) : c[i] = Handler("send", result)
  BY <1>2, <1>3
<1>8. u.ops = NoOps => a = <<>> /\ b = <<>> /\ c = <<>>
  <2>1. u.ops = NoOps => u.ops["connect"] = 0 /\ u.ops["receive"] = 0 /\ u.ops["send"] = 0
    BY <1>3 DEF NoOps
  <2> QED BY <1>2, <1>3, <2>1
<1> HIDE DEF a, b, c, all, v
<1> DEFINE S(x) == {x[i] : i \in 1 .. Len(x)}
           r1 == u.ready \o a
           r2 == r1 \o b
<1>9. /\ Continues(s, u.ready)
      /\ Added(s, u.ready) = S(a) \cup S(b) \cup S(c)
  <2>1. Continues(r1, u.ready) /\ Added(r1, u.ready) = S(a) BY <1>1, <1>5, ConcatContinues
  <2>2. r1 \in Seq(AnyHandler) BY <2>1 DEF Continues
  <2> HIDE DEF r1
  <2>3. Continues(r2, r1) /\ Added(r2, r1) = S(b) BY <1>5, <2>2, ConcatContinues
  <2>4. r2 \in Seq(AnyHandler) BY <2>3 DEF Continues
  <2>5. s = r2 \o c BY DEF r1
  <2> HIDE DEF r2, s
  <2>6. Continues(s, r2) /\ Added(s, r2) = S(c) BY <1>5, <2>4, <2>5, ConcatContinues
  <2> HIDE DEF S
  <2>7. Continues(r2, u.ready) /\ Added(r2, u.ready) = S(a) \cup S(b)
    BY <2>1, <2>3, ContinuesTransitive
  <2>8. Continues(s, u.ready) /\ Added(s, u.ready) = Added(r2, u.ready) \cup Added(s, r2)
    BY <2>6, <2>7, ContinuesTransitive
  <2> QED BY <2>6, <2>7, <2>8
<1>10. u.ops = NoOps => s = u.ready
  <2> SUFFICES ASSUME u.ops = NoOps PROVE s = u.ready OBVIOUS
  <2>1. u.ready \o <<>> = u.ready BY <1>1, ConcatEmptySeq
  <2> QED BY <1>8, <2>1
<1> HIDE DEF s
<1>11. v \in Transport /\ v.ready = s /\ v = [u EXCEPT !.ready = v.ready, !.ops = NoOps]
  <2>1. s \in Seq(AnyHandler) BY <1>9 DEF Continues
  <2>2. NoOps \in [IoOp -> Nat] BY DEF NoOps
  <2> QED BY <1>4, <2>1, <2>2 DEF Transport
<1>12. \A h \in Added(v.ready, u.ready) : h.op \in IoOp /\ h.result = result
  <2>1. \A h \in Added(s, u.ready) : \E op \in IoOp : h = Handler(op, result)
    BY <1>3, <1>6, <1>9
  <2>2. \A op \in IoOp : Handler(op, result).op = op /\ Handler(op, result).result = result
    BY DEF Handler
  <2> QED BY <1>11, <2>1, <2>2
<1>13. \A op \in IoOp : u.ops[op] > 0 => Handler(op, result) \in Added(v.ready, u.ready)
  <2>1. \A op \in IoOp : op \in {"connect", "receive", "send"} BY DEF IoOp
  <2> QED BY <1>7, <1>9, <1>11, <2>1
<1> QED BY <1>9, <1>10, <1>11, <1>12, <1>13 DEF v

\* The socket and the handlers may change, the rest of the transport stays.
Same(u, v) ==
    /\ v.state = u.state /\ v.persistency = u.persistency /\ v.sendQueue = u.sendQueue
    /\ v.wait = u.wait /\ v.timer = u.timer /\ v.freed = u.freed /\ v.running = u.running

LEMMA PostFacts ==
    ASSUME NEW u \in Transport, NEW op \in HandlerOp
    PROVE  LET v == Post(u, op) IN
           /\ v \in Transport /\ Same(u, v) /\ v.socket = u.socket /\ v.ops = u.ops
           /\ Continues(v.ready, u.ready)
           /\ Added(v.ready, u.ready) = {Handler(op, "ok")}
           /\ Len(v.ready) = Len(u.ready) + 1
           /\ v.ready[Len(v.ready)] = Handler(op, "ok")
<1> DEFINE v == Post(u, op)
           s == Append(u.ready, Handler(op, "ok"))
<1>1. u.ready \in Seq(AnyHandler) BY DEF Transport
<1>2. Handler(op, "ok") \in AnyHandler BY HandlerType DEF Result
<1>3. v = [u EXCEPT !.ready = s] BY DEF Post
<1>4. /\ Continues(s, u.ready) /\ Added(s, u.ready) = {Handler(op, "ok")}
      /\ Len(s) = Len(u.ready) + 1 /\ s[Len(s)] = Handler(op, "ok")
  BY <1>1, <1>2, AppendContinues
<1>5. s \in Seq(AnyHandler) BY <1>4 DEF Continues
<1> HIDE DEF s, v
<1>6. v \in Transport /\ Same(u, v) /\ v.socket = u.socket /\ v.ops = u.ops /\ v.ready = s
  BY <1>3, <1>5 DEF Transport, Same
<1> QED BY <1>4, <1>6 DEF v

LEMMA StartFacts ==
    ASSUME NEW u \in Transport, NEW op \in IoOp
    PROVE  LET v == Start(u, op) IN
           /\ v \in Transport /\ Same(u, v) /\ v.socket = u.socket
           /\ Continues(v.ready, u.ready)
           /\ \A h \in Added(v.ready, u.ready) : h = Handler(op, "error")
           /\ \A o \in IoOp : v.ops[o] >= u.ops[o]
           /\ v.ops[op] > 0 \/ Handler(op, "error") \in Added(v.ready, u.ready)
           /\ u.socket \in {"shut", "closed"} => v.ops = u.ops
<1> DEFINE v == Start(u, op)
           s == Append(u.ready, Handler(op, "error"))
<1>1. u.ready \in Seq(AnyHandler) /\ u.ops \in [IoOp -> Nat]
      /\ u.socket \in {"connecting", "connected", "shut", "closed"}
  BY DEF Transport
<1>2. CASE u.socket \in {"connecting", "connected"}
  <2> DEFINE o1 == [u.ops EXCEPT ![op] = @ + 1]
  <2>1. v = [u EXCEPT !.ops = o1] BY <1>2 DEF Start, Transport
  <2>2. o1 \in [IoOp -> Nat] /\ o1[op] > 0 /\ \A o \in IoOp : o1[o] >= u.ops[o] BY <1>1
  <2> HIDE DEF o1, v
  <2>3. /\ v \in Transport /\ Same(u, v) /\ v.socket = u.socket /\ v.ops = o1
        /\ v.ready = u.ready
    BY <2>1, <2>2 DEF Transport, Same
  <2>4. Len(u.ready) \in Nat BY <1>1, LenProperties
  <2>5. Continues(v.ready, u.ready) BY <1>1, <2>3, <2>4 DEF Continues
  <2>6. Added(v.ready, u.ready) = {} BY <2>3, <2>4 DEF Added
  <2>7. ~(u.socket \in {"shut", "closed"}) BY <1>2
  <2> QED BY <2>2, <2>3, <2>5, <2>6, <2>7 DEF v
<1>3. CASE u.socket \notin {"connecting", "connected"}
  <2>1. v = [u EXCEPT !.ready = s] BY <1>3 DEF Start
  <2>2. Handler(op, "error") \in AnyHandler BY HandlerType DEF Result, HandlerOp
  <2>3. Continues(s, u.ready) /\ Added(s, u.ready) = {Handler(op, "error")}
    BY <1>1, <2>2, AppendContinues
  <2>4. s \in Seq(AnyHandler) BY <2>3 DEF Continues
  <2> HIDE DEF s, v
  <2>5. /\ v \in Transport /\ Same(u, v) /\ v.socket = u.socket /\ v.ops = u.ops
        /\ v.ready = s
    BY <2>1, <2>4 DEF Transport, Same
  <2>6. \A o \in IoOp : v.ops[o] >= u.ops[o] BY <1>1, <2>5
  <2> QED BY <2>3, <2>5, <2>6 DEF v
<1> QED BY <1>2, <1>3

LEMMA CancelFacts ==
    ASSUME NEW u \in Transport
    PROVE  LET v == cancel(u) IN
           /\ v \in Transport /\ Same(u, v) /\ v.socket = u.socket /\ v.ops = NoOps
           /\ Continues(v.ready, u.ready)
           /\ \A h \in Added(v.ready, u.ready) : h.op \in IoOp /\ h.result = "aborted"
           /\ u.ops = NoOps => v.ready = u.ready
<1> DEFINE v == Completed(u, "aborted")
<1>1. /\ v \in Transport
      /\ v = [u EXCEPT !.ready = v.ready, !.ops = NoOps]
      /\ Continues(v.ready, u.ready)
      /\ \A h \in Added(v.ready, u.ready) : h.op \in IoOp /\ h.result = "aborted"
      /\ u.ops = NoOps => v.ready = u.ready
  BY CompletedFacts DEF Result
<1> HIDE DEF v
<1> DEFINE s == v.ready
<1> HIDE DEF s
<1>2. v = [u EXCEPT !.ready = s, !.ops = NoOps] BY <1>1 DEF s
<1>3. Same(u, v) /\ v.socket = u.socket /\ v.ops = NoOps BY <1>2 DEF Transport, Same
<1> QED BY <1>1, <1>3 DEF v, cancel

LEMMA CloseFacts ==
    ASSUME NEW u \in Transport
    PROVE  LET v == close(u) IN
           /\ v \in Transport /\ Same(u, v) /\ v.socket = "closed" /\ v.ops = NoOps
           /\ Continues(v.ready, u.ready)
           /\ \A h \in Added(v.ready, u.ready) : h.op \in IoOp /\ h.result = "aborted"
           /\ u.ops = NoOps => v.ready = u.ready
<1> DEFINE w == cancel(u)
           v == close(u)
<1>1. /\ w \in Transport /\ Same(u, w) /\ w.ops = NoOps
      /\ Continues(w.ready, u.ready)
      /\ \A h \in Added(w.ready, u.ready) : h.op \in IoOp /\ h.result = "aborted"
      /\ u.ops = NoOps => w.ready = u.ready
  BY CancelFacts
<1>2. v = [w EXCEPT !.socket = "closed"] BY DEF close
<1> HIDE DEF w, v
<1>3. /\ v \in Transport /\ Same(w, v) /\ v.socket = "closed" /\ v.ops = NoOps
      /\ v.ready = w.ready
  BY <1>1, <1>2 DEF Transport, Same
<1>4. Same(u, v) BY <1>1, <1>3 DEF Same
<1> QED BY <1>1, <1>3, <1>4 DEF v

\* doClose leaves nothing under way, and deferredClose as the last handler.
LEMMA DoCloseFacts ==
    ASSUME NEW u \in Transport, Idle(u)
    PROVE  LET v == doClose(u) IN
           /\ v \in Transport /\ v.state = u.state /\ v.freed = u.freed /\ v.running = u.running
           /\ ~v.timer /\ v.socket \in {"shut", "closed"} /\ v.ops = NoOps
           /\ Continues(v.ready, u.ready)
           /\ Len(v.ready) > 0 /\ v.ready[Len(v.ready)] = Handler("deferredClose", "ok")
           /\ \A h \in Added(v.ready, u.ready) :
                (h.op \in IoOp /\ h.result = "aborted") \/ h = Handler("deferredClose", "ok")
           /\ u.ops = NoOps => Len(v.ready) = Len(u.ready) + 1
<1> DEFINE w == [u EXCEPT !.timer = FALSE]
           c == cancel(w)
           x == IF u.socket = "closed" THEN w ELSE [c EXCEPT !.socket = "shut"]
           v == doClose(u)
<1>1. w \in Transport /\ w.state = u.state /\ w.freed = u.freed /\ w.running = u.running
      /\ ~w.timer /\ w.socket = u.socket /\ w.ops = u.ops /\ w.ready = u.ready
  BY DEF Transport
<1>2. v = Post(x, "deferredClose") BY DEF doClose
<1> HIDE DEF w, v
<1>3. /\ c \in Transport /\ Same(w, c) /\ c.socket = w.socket /\ c.ops = NoOps
      /\ Continues(c.ready, w.ready)
      /\ \A h \in Added(c.ready, w.ready) : h.op \in IoOp /\ h.result = "aborted"
      /\ w.ops = NoOps => c.ready = w.ready
  BY <1>1, CancelFacts
<1> HIDE DEF c
<1>4. /\ x \in Transport /\ x.state = u.state /\ x.freed = u.freed /\ x.running = u.running
      /\ ~x.timer /\ x.socket \in {"shut", "closed"} /\ x.ops = NoOps
      /\ Continues(x.ready, u.ready)
      /\ \A h \in Added(x.ready, u.ready) : h.op \in IoOp /\ h.result = "aborted"
      /\ u.ops = NoOps => x.ready = u.ready
  <2>1. CASE u.socket = "closed"
    <3>1. x = w /\ u.ops = NoOps BY <2>1 DEF Idle
    <3>2. u.ready \in Seq(AnyHandler) /\ Len(u.ready) \in Nat BY LenProperties DEF Transport
    <3>3. Continues(u.ready, u.ready) /\ Added(u.ready, u.ready) = {}
      BY <3>2 DEF Continues, Added
    <3> QED BY <1>1, <2>1, <3>1, <3>3
  <2>2. CASE u.socket # "closed"
    <3>1. x = [c EXCEPT !.socket = "shut"] BY <2>2
    <3>2. /\ x \in Transport /\ Same(c, x) /\ x.socket = "shut" /\ x.ops = c.ops
          /\ x.ready = c.ready
      BY <1>3, <3>1 DEF Transport, Same
    <3> HIDE DEF x
    <3> QED BY <1>1, <1>3, <3>2 DEF Same
  <2> QED BY <2>1, <2>2
<1> HIDE DEF x
<1>5. /\ v \in Transport /\ Same(x, v) /\ v.socket = x.socket /\ v.ops = x.ops
      /\ Continues(v.ready, x.ready)
      /\ Added(v.ready, x.ready) = {Handler("deferredClose", "ok")}
      /\ Len(v.ready) = Len(x.ready) + 1
      /\ v.ready[Len(v.ready)] = Handler("deferredClose", "ok")
  BY <1>2, <1>4, PostFacts DEF HandlerOp
<1>6. /\ Continues(v.ready, u.ready)
      /\ Added(v.ready, u.ready) = Added(x.ready, u.ready) \cup Added(v.ready, x.ready)
  BY <1>4, <1>5, ContinuesTransitive
<1>7. Len(v.ready) > 0
  <2>1. Len(x.ready) \in Nat BY <1>4 DEF Continues
  <2> QED BY <1>5, <2>1
<1> QED BY <1>4, <1>5, <1>6, <1>7 DEF v, Same

-----------------------------------------------------------------------------
(* An open transport *)

OpenInv(u) == u \in Transport /\ Idle(u) /\ u.running /\ ~ShuttingDown(u) /\ OpenPart(u)

LEMMA OpenContinues ==
    ASSUME NEW u, NEW v, OpenInv(u), v \in Transport, Idle(v), v.running,
           v.state \in {"UP", "DOWN"}, v.freed = u.freed,
           Continues(v.ready, u.ready), \A h \in Added(v.ready, u.ready) : ~Ending(h)
    PROVE  OpenInv(v)
<1>1. \A i \in 1 .. Len(v.ready) : ~Ending(v.ready[i])
  BY ContinuesMembers DEF OpenInv, OpenPart
<1> QED BY <1>1 DEF OpenInv, OpenPart, ShuttingDown

LEMMA SocketHandlersDoNotEnd ==
    /\ \A h : h.op \in IoOp => ~Ending(h)
    /\ \A op \in IoOp \cup {"reconnect"} : \A r : ~Ending(Handler(op, r))
BY DEF Ending, IoOp, Handler

LEMMA OpenStart ==
    ASSUME NEW u, OpenInv(u), NEW op \in IoOp
    PROVE  OpenInv(Start(u, op)) /\ Same(u, Start(u, op))
<1> DEFINE v == Start(u, op)
<1>1. u \in Transport /\ Idle(u) /\ u.running /\ u.state \in {"UP", "DOWN"}
  BY DEF OpenInv, ShuttingDown, Transport, State
<1>2. /\ v \in Transport /\ Same(u, v) /\ v.socket = u.socket
      /\ Continues(v.ready, u.ready)
      /\ \A h \in Added(v.ready, u.ready) : h = Handler(op, "error")
      /\ u.socket \in {"shut", "closed"} => v.ops = u.ops
  BY <1>1, StartFacts
<1> HIDE DEF v
<1>3. Idle(v) BY <1>1, <1>2 DEF Idle
<1>4. \A h \in Added(v.ready, u.ready) : ~Ending(h) BY <1>2, SocketHandlersDoNotEnd
<1>5. OpenInv(v) BY <1>1, <1>2, <1>3, <1>4, OpenContinues DEF Same
<1> QED BY <1>2, <1>5 DEF v

LEMMA OpenPost ==
    ASSUME NEW u, OpenInv(u)
    PROVE  OpenInv(Post(u, "reconnect")) /\ Same(u, Post(u, "reconnect"))
<1> DEFINE v == Post(u, "reconnect")
<1>1. u \in Transport /\ Idle(u) /\ u.running /\ u.state \in {"UP", "DOWN"}
  BY DEF OpenInv, ShuttingDown, Transport, State
<1>2. /\ v \in Transport /\ Same(u, v) /\ v.socket = u.socket /\ v.ops = u.ops
      /\ Continues(v.ready, u.ready)
      /\ Added(v.ready, u.ready) = {Handler("reconnect", "ok")}
  BY <1>1, PostFacts DEF HandlerOp
<1> HIDE DEF v
<1>3. Idle(v) BY <1>1, <1>2 DEF Idle
<1>4. \A h \in Added(v.ready, u.ready) : ~Ending(h) BY <1>2, SocketHandlersDoNotEnd
<1>5. OpenInv(v) BY <1>1, <1>2, <1>3, <1>4, OpenContinues DEF Same
<1> QED BY <1>2, <1>5 DEF v

LEMMA OpenCancel ==
    ASSUME NEW u, OpenInv(u)
    PROVE  /\ OpenInv(cancel(u)) /\ Same(u, cancel(u))
           /\ OpenInv(close(u)) /\ Same(u, close(u))
<1> DEFINE v == cancel(u)  w == close(u)
<1>1. u \in Transport /\ Idle(u) /\ u.running /\ u.state \in {"UP", "DOWN"}
  BY DEF OpenInv, ShuttingDown, Transport, State
<1>2. /\ v \in Transport /\ Same(u, v) /\ v.ops = NoOps
      /\ Continues(v.ready, u.ready)
      /\ \A h \in Added(v.ready, u.ready) : h.op \in IoOp /\ h.result = "aborted"
  BY <1>1, CancelFacts
<1>3. /\ w \in Transport /\ Same(u, w) /\ w.ops = NoOps
      /\ Continues(w.ready, u.ready)
      /\ \A h \in Added(w.ready, u.ready) : h.op \in IoOp /\ h.result = "aborted"
  BY <1>1, CloseFacts
<1> HIDE DEF v, w
<1>4. Idle(v) /\ Idle(w) BY <1>2, <1>3 DEF Idle
<1>5. OpenInv(v) BY <1>1, <1>2, <1>4, OpenContinues, SocketHandlersDoNotEnd DEF Same
<1>6. OpenInv(w) BY <1>1, <1>3, <1>4, OpenContinues, SocketHandlersDoNotEnd DEF Same
<1> QED BY <1>2, <1>3, <1>5, <1>6 DEF v, w

\* An open transport may go UP or DOWN, and may start to shut down.
LEMMA OpenSetState ==
    ASSUME NEW u, OpenInv(u), NEW new \in {"UP", "DOWN", "CLOSING", "FAILED"}
    PROVE  LET v == setState(u, new) IN
           /\ v = [u EXCEPT !.state = new]
           /\ v \in Transport /\ v.state = new /\ v.persistency = u.persistency
           /\ v.sendQueue = u.sendQueue /\ v.wait = u.wait /\ v.timer = u.timer
           /\ v.socket = u.socket /\ v.ops = u.ops /\ v.ready = u.ready
           /\ v.freed = u.freed /\ v.running = u.running
           /\ Idle(v) /\ OpenPart(v)
           /\ new \in {"UP", "DOWN"} => OpenInv(v)
<1> DEFINE v == setState(u, new)
<1>1. u \in Transport /\ Idle(u) /\ OpenPart(u) /\ u.running /\ u.state \in {"UP", "DOWN"}
  BY DEF OpenInv, ShuttingDown, Transport, State
<1>2. u.state # new => <<u.state, new>> \in ValidTransition
  BY <1>1 DEF ValidTransition
<1>3. v = [u EXCEPT !.state = new]
  <2>1. CASE u.state = new BY <1>1, <2>1 DEF setState, Transport
  <2>2. CASE u.state # new BY <1>2, <2>2 DEF setState
  <2> QED BY <2>1, <2>2
<1>4. new \in State BY DEF State
<1> HIDE DEF v
<1>5. /\ v \in Transport /\ v.state = new /\ v.persistency = u.persistency
      /\ v.sendQueue = u.sendQueue /\ v.wait = u.wait /\ v.timer = u.timer
      /\ v.socket = u.socket /\ v.ops = u.ops /\ v.ready = u.ready
      /\ v.freed = u.freed /\ v.running = u.running
  BY <1>1, <1>3, <1>4 DEF Transport
<1>6. Idle(v) /\ OpenPart(v) BY <1>1, <1>5 DEF Idle, OpenPart
<1>7. new \in {"UP", "DOWN"} => OpenInv(v) BY <1>1, <1>5, <1>6 DEF OpenInv, ShuttingDown
<1> QED BY <1>3, <1>5, <1>6, <1>7 DEF v

LEMMA OpenEnds == ASSUME NEW u, OpenInv(u) PROVE EndInv(u) /\ EndInv(End(u)) /\ ~End(u).running
<1> DEFINE v == End(u)
<1>1. EndInv(u) BY DEF OpenInv, EndInv
<1>2. v = [u EXCEPT !.running = FALSE] /\ u \in Transport /\ Idle(u) /\ ~u.freed
  BY DEF End, OpenInv, OpenPart
<1> HIDE DEF v
<1>3. v \in Transport /\ v.socket = u.socket /\ v.ops = u.ops /\ v.freed = u.freed /\ ~v.running
  BY <1>2 DEF Transport
<1>4. EndInv(v) BY <1>2, <1>3 DEF EndInv, Idle
<1> QED BY <1>1, <1>3, <1>4 DEF v

\* An open transport that starts to shut down.
LEMMA ShutDownStarts ==
    ASSUME NEW u, u \in Transport, Idle(u), OpenPart(u), u.running, u.state \in {"CLOSING", "FAILED"}
    PROVE  EndInv(doClose(u)) /\ doClose(u).state = u.state
<1> DEFINE v == doClose(u)
<1>1. /\ v \in Transport /\ v.state = u.state /\ v.freed = u.freed /\ v.running = u.running
      /\ ~v.timer /\ v.socket \in {"shut", "closed"} /\ v.ops = NoOps
      /\ Continues(v.ready, u.ready)
      /\ Len(v.ready) > 0 /\ v.ready[Len(v.ready)] = Handler("deferredClose", "ok")
      /\ \A h \in Added(v.ready, u.ready) :
            (h.op \in IoOp /\ h.result = "aborted") \/ h = Handler("deferredClose", "ok")
  BY DoCloseFacts
<1> HIDE DEF v
<1>2. Len(v.ready) \in Nat /\ Len(v.ready) \in 1 .. Len(v.ready) BY <1>1 DEF Continues
<1>3. ASSUME NEW h \in Added(v.ready, u.ready) PROVE Quiet(h) /\ h.op # "free"
  <2>1. CASE h.op \in IoOp /\ h.result = "aborted" BY <2>1 DEF Quiet, IoOp
  <2>2. CASE h = Handler("deferredClose", "ok")
    <3>1. h.op = "deferredClose" BY <2>2 DEF Handler
    <3> QED BY <3>1 DEF Quiet
  <2> QED BY <1>1, <2>1, <2>2
<1>4. \A i \in 1 .. Len(v.ready) : v.ready[i].op # "free"
  <2>1. \A i \in 1 .. Len(u.ready) : u.ready[i].op # "free" BY DEF OpenPart, Ending
  <2>2. \A i \in 1 .. Len(v.ready) : (\E j \in 1 .. Len(u.ready) : v.ready[i] = u.ready[j])
                                          \/ v.ready[i] \in Added(v.ready, u.ready)
    BY <1>1, ContinuesMembers
  <2> QED BY <1>3, <2>1, <2>2
<1>5. ASSUME NEW i \in 1 .. Len(v.ready), NEW j \in 1 .. Len(v.ready), i < j,
             v.ready[i].op = "deferredClose"
      PROVE  Quiet(v.ready[j])
  <2>1. Len(u.ready) \in Nat BY <1>1 DEF Continues
  <2>2. ~(i \in 1 .. Len(u.ready)) BY <1>1, <1>5 DEF Continues, OpenPart, Ending
  <2>3. j \in Len(u.ready) + 1 .. Len(v.ready) BY <1>2, <1>5, <2>1, <2>2
  <2> QED BY <1>3, <2>3 DEF Added
<1>6. ShutPart(v) BY <1>1, <1>5 DEF ShutPart
<1>7. ClosingPart(v)
  <2>1. v.ready[Len(v.ready)].op = "deferredClose" BY <1>1 DEF Handler
  <2> QED BY <1>1, <1>2, <1>4, <2>1 DEF ClosingPart, OpenPart
<1>8. EndInv(v) BY <1>1, <1>6, <1>7 DEF EndInv, Idle, ShuttingDown
<1> QED BY <1>1, <1>8 DEF v

LEMMA OpenHandleError ==
    ASSUME NEW u, OpenInv(u), NEW result
    PROVE  /\ EndInv(handleError(u, result))
           /\ u.persistency = "permanent" =>
                /\ handleError(u, result) = Post(cancel(setState(u, "DOWN")), "reconnect")
                /\ OpenInv(cancel(setState(u, "DOWN")))
                /\ cancel(setState(u, "DOWN")).state = "DOWN"
           /\ u.persistency # "permanent" => ShuttingDown(handleError(u, result))
<1>1. CASE u.persistency = "permanent"
  <2>1. handleError(u, result) = Post(cancel(setState(u, "DOWN")), "reconnect")
    BY <1>1 DEF handleError
  <2> DEFINE v == setState(u, "DOWN")  w == cancel(v)
  <2>2. OpenInv(v) /\ v.state = "DOWN" BY OpenSetState
  <2> HIDE DEF v
  <2>3. OpenInv(w) /\ w.state = "DOWN" BY <2>2, OpenCancel DEF Same
  <2> HIDE DEF w
  <2>4. OpenInv(Post(w, "reconnect")) BY <2>3, OpenPost
  <2>5. EndInv(Post(w, "reconnect")) BY <2>4, OpenEnds
  <2> QED BY <1>1, <2>1, <2>3, <2>5 DEF v, w
<1>2. CASE u.persistency # "permanent"
  <2> DEFINE new == IF result = "eof" THEN "CLOSING" ELSE "FAILED"
             v == setState(u, new)
  <2>1. handleError(u, result) = doClose(v) BY <1>2 DEF handleError
  <2>2. new \in {"CLOSING", "FAILED"} OBVIOUS
  <2> HIDE DEF new
  <2>3. v \in Transport /\ Idle(v) /\ OpenPart(v) /\ v.running /\ v.state = new
    BY <2>2, OpenSetState DEF OpenInv
  <2> HIDE DEF v
  <2>4. EndInv(doClose(v)) /\ doClose(v).state = v.state BY <2>2, <2>3, ShutDownStarts
  <2> QED BY <1>2, <2>1, <2>2, <2>3, <2>4 DEF ShuttingDown
<1> QED BY <1>1, <1>2

-----------------------------------------------------------------------------
(* The work of an open transport goes on *)

\* What is posted or live stays so when handlers are added and operations started.
LEMMA StaysLive ==
    ASSUME NEW u \in Transport, NEW v \in Transport, Continues(v.ready, u.ready)
    PROVE  /\ \A op : Posted(u, op) => Posted(v, op)
           /\ \A op \in IoOp : v.ops[op] >= u.ops[op] /\ Live(u, op) => Live(v, op)
           /\ \A op : (\E h \in Added(v.ready, u.ready) : h.op = op) => Posted(v, op)
           /\ \A op : (\E h \in Added(v.ready, u.ready) : h.op = op /\ h.result # "aborted")
                        => Live(v, op)
<1>1. /\ \A j \in 1 .. Len(u.ready) : \E i \in 1 .. Len(v.ready) : v.ready[i] = u.ready[j]
      /\ \A h \in Added(v.ready, u.ready) : \E i \in 1 .. Len(v.ready) : v.ready[i] = h
  <2> DEFINE r == u.ready
             s == v.ready
  <2>1. Continues(s, r) OBVIOUS
  <2> HIDE DEF r, s
  <2>2. /\ \A i \in 1 .. Len(s) : (\E j \in 1 .. Len(r) : s[i] = r[j]) \/ s[i] \in Added(s, r)
        /\ \A j \in 1 .. Len(r) : \E i \in 1 .. Len(s) : s[i] = r[j]
        /\ \A h \in Added(s, r) : \E i \in 1 .. Len(s) : s[i] = h
    BY <2>1, ContinuesMembers
  <2> QED BY <2>2 DEF r, s
<1>2. u.ops \in [IoOp -> Nat] /\ v.ops \in [IoOp -> Nat] BY DEF Transport
<1>3. \A op : Posted(u, op) => Posted(v, op) BY <1>1 DEF Posted
<1>4. \A op \in IoOp : v.ops[op] >= u.ops[op] /\ Live(u, op) => Live(v, op)
  <2> SUFFICES ASSUME NEW op \in IoOp, v.ops[op] >= u.ops[op], Live(u, op) PROVE Live(v, op)
    OBVIOUS
  <2>1. CASE u.ops[op] > 0
    <3>1. v.ops[op] \in Nat /\ u.ops[op] \in Nat BY <1>2
    <3>2. v.ops[op] > 0 BY <2>1, <3>1
    <3> QED BY <3>2 DEF Live
  <2>2. CASE ~(u.ops[op] > 0) BY <1>1, <2>2 DEF Live
  <2> QED BY <2>1, <2>2
<1>5. \A op : (\E h \in Added(v.ready, u.ready) : h.op = op) => Posted(v, op) BY <1>1 DEF Posted
<1>6. \A op : (\E h \in Added(v.ready, u.ready) : h.op = op /\ h.result # "aborted") => Live(v, op)
  BY <1>1 DEF Live
<1> QED BY <1>3, <1>4, <1>5, <1>6

\* Everything that WorkInv asks of an open transport.
Works(u) ==
    /\ u.state = "DOWN" => Posted(u, "reconnect") \/ (u.timer /\ u.sendQueue = 0)
    /\ u.state = "UP" /\ ~Posted(u, "reconnect") =>
          /\ u.sendQueue > 0 => Live(u, "send")
          /\ u.timer \/ Live(u, "receive")

LEMMA StartWorks ==
    ASSUME NEW u, OpenInv(u), NEW op \in IoOp
    PROVE  LET v == Start(u, op) IN
           /\ Live(v, op)
           /\ \A o : Posted(u, o) => Posted(v, o)
           /\ \A o \in IoOp : Live(u, o) => Live(v, o)
<1> DEFINE v == Start(u, op)
<1>1. u \in Transport BY DEF OpenInv
<1>2. /\ v \in Transport /\ Continues(v.ready, u.ready)
      /\ \A o \in IoOp : v.ops[o] >= u.ops[o]
      /\ v.ops[op] > 0 \/ Handler(op, "error") \in Added(v.ready, u.ready)
  BY <1>1, StartFacts
<1> HIDE DEF v
<1>3. Live(v, op)
  <2>1. CASE v.ops[op] > 0 BY <2>1 DEF Live
  <2>2. CASE Handler(op, "error") \in Added(v.ready, u.ready)
    <3>1. Handler(op, "error").op = op /\ Handler(op, "error").result # "aborted" BY DEF Handler
    <3> QED BY <1>1, <1>2, <2>2, <3>1, StaysLive
  <2> QED BY <1>2, <2>1, <2>2
<1> QED BY <1>1, <1>2, <1>3, StaysLive DEF v

LEMMA ErrorWorks ==
    ASSUME NEW u, OpenInv(u), NEW result
    PROVE  WorkInv(handleError(u, result))
<1>1. CASE u.persistency = "permanent"
  <2> DEFINE w == cancel(setState(u, "DOWN"))
             v == Post(w, "reconnect")
  <2>1. handleError(u, result) = v /\ OpenInv(w) /\ w.state = "DOWN" BY <1>1, OpenHandleError
  <2> HIDE DEF w
  <2>2. OpenInv(v) /\ Same(w, v) BY <2>1, OpenPost
  <2>3. Continues(v.ready, w.ready) /\ Added(v.ready, w.ready) = {Handler("reconnect", "ok")}
    BY <2>1, PostFacts DEF OpenInv, HandlerOp
  <2> HIDE DEF v
  <2>4. Handler("reconnect", "ok").op = "reconnect" BY DEF Handler
  <2>5. Posted(v, "reconnect")
    BY <2>1, <2>2, <2>3, <2>4, StaysLive DEF OpenInv
  <2> QED BY <2>1, <2>2, <2>5 DEF WorkInv, Same
<1>2. CASE u.persistency # "permanent"
  BY <1>2, OpenHandleError DEF WorkInv, ShuttingDown
<1> QED BY <1>1, <1>2


\* After the first handler is taken the others are left.
LEMMA PopFacts ==
    ASSUME NEW u \in Transport, u.ready # <<>>
    PROVE  LET h == Head(u.ready)
               v == [u EXCEPT !.ready = Tail(@)]
           IN  /\ v \in Transport /\ Same(u, v) /\ v.socket = u.socket /\ v.ops = u.ops
               /\ h \in AnyHandler /\ h = u.ready[1]
               /\ Len(u.ready) \in Nat \ {0} /\ Len(v.ready) = Len(u.ready) - 1
               /\ \A i \in 1 .. Len(v.ready) : v.ready[i] = u.ready[i + 1]
               /\ \A i \in 1 .. Len(u.ready) : i = 1 \/ \E j \in 1 .. Len(v.ready) : i = j + 1
<1> DEFINE r == u.ready
           v == [u EXCEPT !.ready = Tail(@)]
<1>1. r \in Seq(AnyHandler) /\ r # <<>> BY DEF Transport
<1>2. v = [u EXCEPT !.ready = Tail(r)] OBVIOUS
<1> HIDE DEF r, v
<1>3. /\ Head(r) \in AnyHandler /\ Tail(r) \in Seq(AnyHandler) /\ Len(Tail(r)) = Len(r) - 1
      /\ \A i \in 1 .. Len(Tail(r)) : Tail(r)[i] = r[i + 1]
      /\ Head(r) = r[1] /\ Len(r) \in Nat \ {0}
  BY <1>1, HeadTailProperties, EmptySeq
<1>4. v \in Transport /\ Same(u, v) /\ v.socket = u.socket /\ v.ops = u.ops /\ v.ready = Tail(r)
  BY <1>2, <1>3 DEF Transport, Same
<1>5. ASSUME NEW i \in 1 .. Len(r), i # 1 PROVE \E j \in 1 .. Len(Tail(r)) : i = j + 1
  <2>1. i - 1 \in 1 .. Len(Tail(r)) /\ i = (i - 1) + 1 BY <1>3, <1>5
  <2> QED BY <2>1
<1> QED BY <1>3, <1>4, <1>5 DEF r, v

\* An open transport runs a handler.
LEMMA OpenRun ==
    ASSUME NEW u, OpenInv(u), Works(u), u.ready # <<>>
    PROVE  LET v == Run([u EXCEPT !.ready = Tail(@)], Head(u.ready)) IN EndInv(v) /\ WorkInv(v)
<1> DEFINE h == Head(u.ready)
           w == [u EXCEPT !.ready = Tail(@)]
           v == Run(w, h)
<1>1. u \in Transport BY DEF OpenInv
<1>2. /\ w \in Transport /\ Same(u, w) /\ w.socket = u.socket /\ w.ops = u.ops
      /\ h \in AnyHandler /\ h = u.ready[1]
      /\ Len(u.ready) \in Nat \ {0} /\ Len(w.ready) = Len(u.ready) - 1
      /\ \A i \in 1 .. Len(w.ready) : w.ready[i] = u.ready[i + 1]
      /\ \A i \in 1 .. Len(u.ready) : i = 1 \/ \E j \in 1 .. Len(w.ready) : i = j + 1
  BY <1>1, PopFacts
<1>3. v = Run(w, h) OBVIOUS
<1> SUFFICES EndInv(v) /\ WorkInv(v) OBVIOUS
<1> HIDE DEF h, w, v
<1>4. \A i \in 1 .. Len(w.ready) : i + 1 \in 1 .. Len(u.ready) BY <1>2
<1>5. OpenInv(w)
  <2>1. \A i \in 1 .. Len(w.ready) : ~Ending(w.ready[i]) BY <1>2, <1>4 DEF OpenInv, OpenPart
  <2> QED BY <1>2, <2>1 DEF OpenInv, OpenPart, Idle, ShuttingDown, Same
<1>6. /\ ~ShuttingDown(w) /\ w.state \in {"UP", "DOWN"}
  BY <1>5 DEF OpenInv, ShuttingDown, Transport, State
<1>7. h.op \in {"send", "receive", "connect", "reconnect"}
  <2>1. ~Ending(h)
    <3>1. 1 \in 1 .. Len(u.ready) BY <1>2
    <3> QED BY <1>2, <3>1 DEF OpenInv, OpenPart
  <2> QED BY <1>2, <2>1 DEF AnyHandler, HandlerOp, IoOp, Ending
<1>8. \A op : op # h.op /\ Posted(u, op) => Posted(w, op)
  <2> SUFFICES ASSUME NEW op, op # h.op, Posted(u, op) PROVE Posted(w, op) OBVIOUS
  <2>1. PICK i \in 1 .. Len(u.ready) : u.ready[i].op = op BY DEF Posted
  <2>2. i # 1 BY <1>2, <2>1
  <2>3. PICK j \in 1 .. Len(w.ready) : i = j + 1 BY <1>2, <2>2
  <2> QED BY <1>2, <2>1, <2>3 DEF Posted
<1>9. \A op : ~(op = h.op /\ h.result # "aborted") /\ Live(u, op) => Live(w, op)
  <2> SUFFICES ASSUME NEW op, ~(op = h.op /\ h.result # "aborted"), Live(u, op) PROVE Live(w, op)
    OBVIOUS
  <2>1. CASE u.ops[op] > 0 BY <1>2, <2>1 DEF Live
  <2>2. CASE ~(u.ops[op] > 0)
    <3>1. PICK i \in 1 .. Len(u.ready) : u.ready[i].op = op /\ u.ready[i].result # "aborted"
      BY <2>2 DEF Live
    <3>2. i # 1 BY <1>2, <3>1
    <3>3. PICK j \in 1 .. Len(w.ready) : i = j + 1 BY <1>2, <3>2
    <3> QED BY <1>2, <3>1, <3>3 DEF Live
  <2> QED BY <2>1, <2>2
<1>10. /\ w.state = u.state /\ w.timer = u.timer /\ w.sendQueue = u.sendQueue
       /\ w.sendQueue \in Nat /\ w.running
  BY <1>2, <1>5 DEF Same, Transport, OpenInv
<1>11. EndInv(w) BY <1>5, OpenEnds
<1>12. ASSUME h.op # "reconnect", h.result = "aborted" PROVE WorkInv(w)
  BY <1>8, <1>9, <1>10, <1>12 DEF Works, WorkInv
<1>13. ASSUME h.op # "reconnect", h.result # "ok", v = processErrorCode(w, h.result)
       PROVE  EndInv(v) /\ WorkInv(v)
  <2>1. CASE h.result = "aborted"
    <3>1. v = w BY <1>13, <2>1 DEF processErrorCode
    <3> QED BY <1>11, <1>12, <1>13, <2>1, <3>1
  <2>2. CASE h.result # "aborted"
    <3>1. v = handleError(w, h.result) BY <1>6, <1>13, <2>2 DEF processErrorCode
    <3> QED BY <1>5, <3>1, OpenHandleError, ErrorWorks
  <2> QED BY <2>1, <2>2
<1>14. CASE h.op = "send" /\ h.result # "ok"
  <2>1. v = processErrorCode(w, h.result) BY <1>3, <1>14 DEF Run, handleSend
  <2> QED BY <1>13, <1>14, <2>1
<1>15. CASE h.op = "send" /\ h.result = "ok"
  <2>1. v = handleSend(w, "ok") BY <1>3, <1>15 DEF Run
  <2>2. CASE w.sendQueue = 0
    <3>1. v = End(w) BY <2>1, <2>2 DEF handleSend
    <3> QED BY <1>5, <3>1, OpenEnds DEF WorkInv
  <2>3. CASE w.sendQueue # 0
    <3> DEFINE x == [w EXCEPT !.sendQueue = @ - 1]
    <3>1. /\ x \in Transport /\ x.state = w.state /\ x.timer = w.timer /\ x.freed = w.freed
          /\ x.running = w.running /\ x.socket = w.socket /\ x.ops = w.ops /\ x.ready = w.ready
          /\ x.sendQueue = w.sendQueue - 1
      <4>1. w.sendQueue - 1 \in Nat BY <1>10, <2>3
      <4> QED BY <1>2, <4>1 DEF Transport
    <3>2. v = IF x.sendQueue > 0 THEN Start(x, "send") ELSE x
      BY <2>1, <2>3 DEF handleSend, sendFromQueue
    <3> HIDE DEF x
    <3>3. OpenInv(x)
      BY <1>5, <3>1 DEF OpenInv, OpenPart, Idle, ShuttingDown
    <3>4. /\ \A op : Posted(x, op) <=> Posted(w, op)
          /\ \A op : Live(x, op) <=> Live(w, op)
      BY <3>1 DEF Posted, Live
    <3>5. /\ u.state = "DOWN" => Posted(w, "reconnect")
          /\ u.state = "UP" /\ ~Posted(w, "reconnect") => w.timer \/ Live(w, "receive")
      BY <1>8, <1>9, <1>10, <1>15, <2>3 DEF Works
    <3>6. CASE x.sendQueue > 0
      <4> DEFINE y == Start(x, "send")
      <4>1. "send" \in IoOp /\ "receive" \in IoOp BY DEF IoOp
      <4>2. OpenInv(y) /\ Same(x, y) BY <3>3, <4>1, OpenStart
      <4>3. /\ Live(y, "send")
            /\ Posted(x, "reconnect") => Posted(y, "reconnect")
            /\ Live(x, "receive") => Live(y, "receive")
        BY <3>3, <4>1, StartWorks
      <4> HIDE DEF y
      <4>4. WorkInv(y)
        BY <1>10, <3>1, <3>4, <3>5, <4>2, <4>3 DEF WorkInv, Same
      <4>5. EndInv(y) BY <4>2, OpenEnds
      <4> QED BY <3>2, <3>6, <4>4, <4>5 DEF y
    <3>7. CASE ~(x.sendQueue > 0)
      <4>1. v = x BY <3>2, <3>7
      <4>2. WorkInv(x) BY <1>10, <3>1, <3>4, <3>5, <3>7 DEF WorkInv
      <4> QED BY <3>3, <4>1, <4>2, OpenEnds
    <3> QED BY <3>6, <3>7
  <2> QED BY <2>2, <2>3
<1>16. CASE h.op = "receive" /\ h.result \notin {"ok", "too large"}
  <2>1. v = processErrorCode(w, h.result) BY <1>3, <1>16 DEF Run, handleReceive
  <2> QED BY <1>13, <1>16, <2>1
<1>17. CASE h.op = "receive" /\ h.result = "too large"
  <2> DEFINE x == setState(w, "FAILED")
  <2>1. x \in Transport /\ Idle(x) /\ OpenPart(x) /\ x.running /\ x.state = "FAILED"
    BY <1>5, <1>10, OpenSetState
  <2>2. v = doClose(x) BY <1>3, <1>17, <2>1 DEF Run, handleReceive
  <2> HIDE DEF x
  <2>3. EndInv(v) /\ v.state = "FAILED" BY <2>1, <2>2, ShutDownStarts
  <2> QED BY <2>3 DEF WorkInv
<1>18. CASE h.op = "receive" /\ h.result = "ok"
  <2>1. v = Start(w, "receive") BY <1>3, <1>18 DEF Run, handleReceive, startReceive
  <2>2. "send" \in IoOp /\ "receive" \in IoOp BY DEF IoOp
  <2>3. OpenInv(v) /\ Same(w, v) BY <1>5, <2>1, <2>2, OpenStart
  <2>4. /\ Live(v, "receive")
        /\ Posted(w, "reconnect") => Posted(v, "reconnect")
        /\ Live(w, "send") => Live(v, "send")
    BY <1>5, <2>1, <2>2, StartWorks
  <2>5. WorkInv(v) BY <1>8, <1>9, <1>10, <1>18, <2>3, <2>4 DEF WorkInv, Works, Same
  <2> QED BY <2>3, <2>5, OpenEnds
<1>19. CASE h.op = "connect" /\ h.result # "ok"
  <2>1. v = w BY <1>3, <1>19 DEF Run, handleReconnect
  <2>2. WorkInv(w)
    BY <1>8, <1>9, <1>10, <1>19 DEF Works, WorkInv
  <2> QED BY <1>11, <2>1, <2>2
<1>20. CASE h.op = "connect" /\ h.result = "ok"
  <2> DEFINE x == [w EXCEPT !.timer = FALSE, !.wait = 0]
             y == setState(x, "UP")
             z == Start(y, "receive")
  <2>1. v = IF w.socket = "closed" THEN End(w) ELSE z
    BY <1>3, <1>6, <1>20 DEF Run, handleReconnect, startReceive
  <2>2. CASE w.socket = "closed" BY <1>5, <2>1, <2>2, OpenEnds DEF WorkInv
  <2>3. CASE w.socket # "closed"
    <3>1. /\ x \in Transport /\ x.state = w.state /\ x.freed = w.freed /\ x.running = w.running
          /\ x.socket = w.socket /\ x.ops = w.ops /\ x.ready = w.ready
          /\ x.sendQueue = w.sendQueue
      BY <1>2 DEF Transport
    <3>2. v = z BY <2>1, <2>3
    <3> HIDE DEF x
    <3>3. OpenInv(x) BY <1>5, <3>1 DEF OpenInv, OpenPart, Idle, ShuttingDown
    <3>4. OpenInv(y) /\ y.state = "UP" /\ y.ops = x.ops /\ y.ready = x.ready
          /\ y.sendQueue = x.sendQueue
      BY <3>3, OpenSetState
    <3> HIDE DEF y
    <3>5. "send" \in IoOp /\ "receive" \in IoOp BY DEF IoOp
    <3>6. OpenInv(z) /\ Same(y, z) BY <3>4, <3>5, OpenStart
    <3>7. /\ Live(z, "receive")
          /\ Posted(y, "reconnect") => Posted(z, "reconnect")
          /\ Live(y, "send") => Live(z, "send")
      BY <3>4, <3>5, StartWorks
    <3>8. /\ Posted(y, "reconnect") <=> Posted(w, "reconnect")
          /\ Live(y, "send") <=> Live(w, "send")
      BY <3>1, <3>4 DEF Posted, Live
    <3> HIDE DEF z
    <3>9. ~Posted(w, "reconnect") /\ w.sendQueue > 0 => Live(w, "send")
      BY <1>6, <1>8, <1>9, <1>10, <1>20 DEF Works
    <3>10. WorkInv(z) BY <3>1, <3>4, <3>6, <3>7, <3>8, <3>9 DEF WorkInv, Same
    <3> QED BY <3>2, <3>6, <3>10, OpenEnds
  <2> QED BY <2>2, <2>3
<1>21. CASE h.op = "reconnect"
  <2> DEFINE c == close(w)
             o == [NoOps EXCEPT !["connect"] = 1]
  <2>1. v = [c EXCEPT !.socket = "connecting", !.ops = o, !.sendQueue = 0, !.timer = TRUE]
    BY <1>3, <1>6, <1>21 DEF Run, reconnect
  <2>2. OpenInv(c) /\ Same(w, c) BY <1>5, OpenCancel
  <2>3. o \in [IoOp -> Nat] BY DEF NoOps, IoOp
  <2> HIDE DEF c, o
  <2>4. /\ v \in Transport /\ v.state = c.state /\ v.freed = c.freed /\ v.running = c.running
        /\ v.ready = c.ready /\ v.socket = "connecting" /\ v.timer /\ v.sendQueue = 0
    BY <2>1, <2>2, <2>3 DEF OpenInv, Transport
  <2>5. OpenInv(v) BY <2>2, <2>4 DEF OpenInv, OpenPart, Idle, ShuttingDown
  <2>6. WorkInv(v) BY <2>4 DEF WorkInv
  <2> QED BY <2>5, <2>6, OpenEnds
<1> QED BY <1>7, <1>14, <1>15, <1>16, <1>17, <1>18, <1>19, <1>20, <1>21

-----------------------------------------------------------------------------
(* A transport that shuts down *)

\* Handlers that are quiet and do not free the transport may still be added.
LEMMA ClosingContinues ==
    ASSUME NEW w \in Transport, NEW v \in Transport,
           ShutPart(w), ClosingPart(w), w.state \in {"CLOSING", "FAILED"},
           v.state = w.state, v.freed = w.freed, v.running,
           ~v.timer, v.socket \in {"shut", "closed"}, v.ops = NoOps,
           Continues(v.ready, w.ready),
           \A h \in Added(v.ready, w.ready) : Quiet(h) /\ h.op # "free"
    PROVE  EndInv(v)
<1>1. /\ \A i \in 1 .. Len(v.ready) : (\E j \in 1 .. Len(w.ready) : v.ready[i] = w.ready[j])
                                          \/ v.ready[i] \in Added(v.ready, w.ready)
      /\ \A j \in 1 .. Len(w.ready) : \E i \in 1 .. Len(v.ready) : v.ready[i] = w.ready[j]
  <2> DEFINE r == w.ready
             s == v.ready
  <2>1. Continues(s, r) OBVIOUS
  <2> HIDE DEF r, s
  <2>2. /\ \A i \in 1 .. Len(s) : (\E j \in 1 .. Len(r) : s[i] = r[j]) \/ s[i] \in Added(s, r)
        /\ \A j \in 1 .. Len(r) : \E i \in 1 .. Len(s) : s[i] = r[j]
        /\ \A h \in Added(s, r) : \E i \in 1 .. Len(s) : s[i] = h
    BY <2>1, ContinuesMembers
  <2> QED BY <2>2 DEF r, s
<1>2. ClosingPart(v) BY <1>1 DEF ClosingPart
<1>3. ShutPart(v)
  <2> SUFFICES ASSUME NEW i \in 1 .. Len(v.ready), NEW j \in 1 .. Len(v.ready), i < j,
                      v.ready[i].op = "deferredClose"
               PROVE  Quiet(v.ready[j])
    BY DEF ShutPart
  <2>1. Len(w.ready) \in Nat /\ Len(v.ready) \in Nat /\ \A k \in 1 .. Len(w.ready) : v.ready[k] = w.ready[k]
    BY DEF Continues
  <2>2. CASE j \in 1 .. Len(w.ready)
    <3>1. i \in 1 .. Len(w.ready) BY <2>1, <2>2
    <3> QED BY <2>1, <2>2, <3>1 DEF ShutPart
  <2>3. CASE j \notin 1 .. Len(w.ready)
    <3>1. j \in Len(w.ready) + 1 .. Len(v.ready) BY <2>1, <2>3
    <3> QED BY <3>1 DEF Added
  <2> QED BY <2>2, <2>3
<1> QED BY <1>2, <1>3 DEF EndInv, Idle, ShuttingDown

LEMMA ShutRun ==
    ASSUME NEW u, EndInv(u), u.running, ShuttingDown(u), u.ready # <<>>
    PROVE  EndInv(Run([u EXCEPT !.ready = Tail(@)], Head(u.ready)))
<1> DEFINE h == Head(u.ready)
           w == [u EXCEPT !.ready = Tail(@)]
           v == Run(w, h)
<1>1. /\ u \in Transport /\ Idle(u) /\ ShutPart(u)
      /\ u.state = "CLOSED" => ClosedPart(u)
      /\ u.state # "CLOSED" => ClosingPart(u)
  BY DEF EndInv
<1>2. /\ w \in Transport /\ Same(u, w) /\ w.socket = u.socket /\ w.ops = u.ops
      /\ h \in AnyHandler /\ h = u.ready[1]
      /\ Len(u.ready) \in Nat \ {0} /\ Len(w.ready) = Len(u.ready) - 1
      /\ \A i \in 1 .. Len(w.ready) : w.ready[i] = u.ready[i + 1]
      /\ \A i \in 1 .. Len(u.ready) : i = 1 \/ \E j \in 1 .. Len(w.ready) : i = j + 1
  BY <1>1, PopFacts
<1>3. v = Run(w, h) OBVIOUS
<1> SUFFICES EndInv(v) OBVIOUS
<1> HIDE DEF h, w, v
<1>4. \A i \in 1 .. Len(w.ready) : i + 1 \in 1 .. Len(u.ready) /\ 1 < i + 1 BY <1>2
<1>5. /\ w.state = u.state /\ w.running /\ ShuttingDown(w) /\ w.freed = u.freed
      /\ w.sendQueue \in Nat /\ ~w.timer /\ w.socket \in {"shut", "closed"} /\ w.ops = NoOps
      /\ w.ready \in Seq(AnyHandler) /\ 1 \in 1 .. Len(u.ready)
      /\ w.state \in {"CLOSING", "FAILED", "CLOSED"}
  BY <1>1, <1>2 DEF Same, ShuttingDown, ShutPart, Idle, Transport
<1>6. ShutPart(w)
  <2> SUFFICES ASSUME NEW i \in 1 .. Len(w.ready), NEW j \in 1 .. Len(w.ready), i < j,
                      w.ready[i].op = "deferredClose"
               PROVE  Quiet(w.ready[j])
    BY <1>5 DEF ShutPart
  <2>1. i + 1 < j + 1 OBVIOUS
  <2> QED BY <1>1, <1>2, <1>4, <2>1 DEF ShutPart
<1>7. h.op = "deferredClose" => \A i \in 1 .. Len(w.ready) : Quiet(w.ready[i])
  BY <1>1, <1>2, <1>4, <1>5 DEF ShutPart
<1>8. h.op \in IoOp \cup {"reconnect", "deferredClose", "free"} /\ h.result \in Result
  BY <1>2 DEF AnyHandler, HandlerOp
<1> DEFINE d == [w EXCEPT !.sendQueue = 0]
           c == close(d)
<1>9. /\ c \in Transport /\ c.state = w.state /\ c.freed = w.freed /\ c.running
      /\ ~c.timer /\ c.socket = "closed" /\ c.ops = NoOps /\ c.ready = w.ready
  <2>1. /\ d \in Transport /\ d.state = w.state /\ d.freed = w.freed /\ d.running = w.running
        /\ d.timer = w.timer /\ d.ops = w.ops /\ d.ready = w.ready
    BY <1>2 DEF Transport
  <2> HIDE DEF d
  <2> QED BY <1>5, <2>1, CloseFacts DEF Same
<1>10. h.op = "deferredClose" => v = setState(c, "CLOSED")
  BY <1>3 DEF Run, deferredClose
<1> HIDE DEF c, d
<1>11. CASE w.state = "CLOSED"
  <2>1. /\ \A i \in 1 .. Len(u.ready) : Quiet(u.ready[i])
        /\ \A i \in 1 .. Len(u.ready) : u.ready[i].op = "free" => i = Len(u.ready)
        /\ ~u.freed /\ u.ready[Len(u.ready)].op = "free"
    BY <1>1, <1>5, <1>11 DEF ClosedPart
  <2>2. /\ \A i \in 1 .. Len(w.ready) : Quiet(w.ready[i])
        /\ \A i \in 1 .. Len(w.ready) : w.ready[i].op = "free" => i = Len(w.ready)
    <3>1. \A i \in 1 .. Len(w.ready) : i + 1 = Len(u.ready) => i = Len(w.ready) BY <1>2
    <3> QED BY <1>2, <1>4, <2>1, <3>1
  <2>3. CASE h.op = "free"
    <3>1. v = [w EXCEPT !.freed = TRUE] BY <1>3, <2>3 DEF Run
    <3>2. Len(w.ready) = 0
      <4>1. 1 = Len(u.ready) BY <1>2, <1>5, <2>1, <2>3
      <4>2. Len(w.ready) = Len(u.ready) - 1 BY <1>2
      <4> QED BY <4>1, <4>2
    <3>3. w.ready = <<>> BY <1>5, <3>2, EmptySeq
    <3>4. /\ v \in Transport /\ v.state = w.state /\ v.freed /\ v.running = w.running
          /\ v.timer = w.timer /\ v.socket = w.socket /\ v.ops = w.ops /\ v.ready = w.ready
      BY <1>2, <3>1 DEF Transport
    <3>5. ClosedPart(v) /\ ShutPart(v) BY <1>5, <1>6, <2>2, <3>3, <3>4 DEF ClosedPart, ShutPart
    <3> QED BY <1>5, <1>11, <3>4, <3>5 DEF EndInv, Idle, ShuttingDown
  <2>4. CASE h.op # "free"
    <3>1. /\ Len(w.ready) \in 1 .. Len(w.ready) /\ w.ready[Len(w.ready)] = u.ready[Len(u.ready)]
      <4>1. Len(u.ready) # 1 BY <1>2, <2>1, <2>4
      <4>2. Len(w.ready) \in 1 .. Len(w.ready) /\ Len(w.ready) + 1 = Len(u.ready)
        <5>1. Len(u.ready) \in Nat \ {0} /\ Len(w.ready) = Len(u.ready) - 1 BY <1>2
        <5> DEFINE n == Len(u.ready)
                   m == Len(w.ready)
        <5>2. n \in Nat /\ n # 0 /\ n # 1 /\ m = n - 1 BY <4>1, <5>1
        <5> HIDE DEF n, m
        <5>3. m \in Nat /\ m >= 1 /\ m + 1 = n BY <5>2
        <5>4. m \in 1 .. m BY <5>3
        <5> QED BY <5>3, <5>4 DEF n, m
      <4> QED BY <1>2, <4>2
    <3>2. ClosedPart(w)
      <4>1. w.ready # <<>> BY <3>1
      <4> QED BY <1>5, <2>1, <2>2, <3>1, <4>1 DEF ClosedPart
    <3>3. EndInv(w) BY <1>2, <1>5, <1>6, <1>11, <3>2 DEF EndInv, Idle
    <3>4. CASE h.op = "deferredClose"
      <4>1. v = c BY <1>9, <1>10, <1>11, <3>4 DEF setState
      <4>2. ClosedPart(c) /\ ShutPart(c) BY <1>6, <1>9, <3>2 DEF ClosedPart, ShutPart
      <4> QED BY <1>9, <1>11, <4>1, <4>2 DEF EndInv, Idle, ShuttingDown
    <3>5. CASE h.op = "reconnect"
      <4>1. v = w BY <1>3, <1>5, <3>5 DEF Run, reconnect
      <4> QED BY <3>3, <4>1
    <3>6. CASE h.op \in IoOp
      <4>1. Quiet(h) BY <1>2, <1>5, <2>1
      <4>2. v = w
        <5>1. CASE h.op = "send" BY <1>3, <1>5, <4>1, <5>1 DEF Run, Quiet, handleSend, processErrorCode
        <5>2. CASE h.op = "receive"
          <6>1. h.result # "ok" /\ h.result # "too large" BY <4>1, <5>2 DEF Quiet
          <6> QED BY <1>3, <1>5, <5>2, <6>1 DEF Run, handleReceive, processErrorCode
        <5>3. CASE h.op = "connect" BY <1>3, <1>5, <5>3 DEF Run, handleReconnect
        <5> QED BY <3>6, <5>1, <5>2, <5>3 DEF IoOp
      <4> QED BY <3>3, <4>2
    <3> QED BY <1>8, <2>4, <3>4, <3>5, <3>6
  <2> QED BY <2>3, <2>4
<1>12. CASE w.state \in {"CLOSING", "FAILED"}
  <2>1. /\ ~u.freed
        /\ \A i \in 1 .. Len(u.ready) : u.ready[i].op # "free"
        /\ \E i \in 1 .. Len(u.ready) : u.ready[i].op = "deferredClose"
    BY <1>1, <1>5, <1>12 DEF ClosingPart
  <2>2. \A i \in 1 .. Len(w.ready) : w.ready[i].op # "free" BY <1>2, <1>4, <2>1
  <2>3. CASE h.op = "deferredClose"
    <3> DEFINE e == [c EXCEPT !.state = "CLOSED"]
    <3>1. <<c.state, "CLOSED">> \in ValidTransition /\ c.state # "CLOSED"
      BY <1>9, <1>12 DEF ValidTransition
    <3>2. v = Post(e, "free") BY <1>10, <2>3, <3>1 DEF setState
    <3>3. /\ e \in Transport /\ e.state = "CLOSED" /\ e.freed = c.freed /\ e.running = c.running
          /\ e.timer = c.timer /\ e.socket = c.socket /\ e.ops = c.ops /\ e.ready = c.ready
      BY <1>9 DEF Transport, State
    <3> HIDE DEF e
    <3>4. /\ v \in Transport /\ Same(e, v) /\ v.socket = e.socket /\ v.ops = e.ops
          /\ Continues(v.ready, e.ready)
          /\ Len(v.ready) = Len(e.ready) + 1
          /\ v.ready[Len(v.ready)] = Handler("free", "ok")
      BY <3>2, <3>3, PostFacts DEF HandlerOp
    <3>5. Handler("free", "ok").op = "free" /\ Quiet(Handler("free", "ok"))
      BY DEF Handler, Quiet
    <3>6. /\ Len(w.ready) \in Nat /\ Len(v.ready) = Len(w.ready) + 1
          /\ \A i \in 1 .. Len(w.ready) : v.ready[i] = w.ready[i]
      BY <1>9, <3>3, <3>4 DEF Continues
    <3>7. \A i \in 1 .. Len(v.ready) : i \in 1 .. Len(w.ready) \/ i = Len(v.ready) BY <3>6
    <3>8. \A i \in 1 .. Len(v.ready) : Quiet(v.ready[i])
      BY <1>7, <2>3, <3>4, <3>5, <3>6, <3>7
    <3>9. \A i \in 1 .. Len(v.ready) : v.ready[i].op = "free" => i = Len(v.ready)
      BY <2>2, <3>6, <3>7
    <3>10. v.ready # <<>>
      <4>1. Len(v.ready) # 0 BY <3>6
      <4> QED BY <4>1
    <3>11. ~v.freed /\ v.running /\ v.state = "CLOSED" /\ ~v.timer /\ v.socket = "closed"
           /\ v.ops = NoOps
      BY <1>5, <1>9, <2>1, <3>3, <3>4 DEF Same
    <3>12. ClosedPart(v) BY <3>4, <3>5, <3>8, <3>9, <3>10, <3>11 DEF ClosedPart
    <3>13. ShutPart(v) BY <3>8, <3>11 DEF ShutPart
    <3> QED BY <3>4, <3>11, <3>12, <3>13 DEF EndInv, Idle, ShuttingDown
  <2>4. CASE h.op # "deferredClose"
    <3>1. ClosingPart(w)
      <4>1. PICK i \in 1 .. Len(u.ready) : u.ready[i].op = "deferredClose" BY <2>1
      <4>2. i # 1 BY <1>2, <2>4, <4>1
      <4>3. PICK j \in 1 .. Len(w.ready) : i = j + 1 BY <1>2, <4>2
      <4> QED BY <1>2, <1>5, <2>1, <2>2, <4>1, <4>3 DEF ClosingPart
    <3>2. EndInv(w) BY <1>2, <1>5, <1>6, <1>12, <3>1 DEF EndInv, Idle
    <3>3. EndInv(End(w)) /\ ~End(w).running
      <4> DEFINE e == End(w)
      <4>1. e = [w EXCEPT !.running = FALSE] BY DEF End
      <4> HIDE DEF e
      <4>2. /\ e \in Transport /\ e.socket = w.socket /\ e.ops = w.ops /\ e.freed = w.freed
            /\ ~e.running
        BY <1>2, <4>1 DEF Transport
      <4>3. EndInv(e) BY <1>5, <2>1, <4>2 DEF EndInv, Idle
      <4> QED BY <4>2, <4>3 DEF e
    <3>4. ASSUME NEW x \in Transport, x.state = w.state, x.freed = w.freed, x.running,
                 ~x.timer, x.socket = w.socket, x.ops = NoOps, x.ready = w.ready,
                 NEW op \in IoOp, v = Start(x, op)
          PROVE  EndInv(v)
      <4>1. /\ v \in Transport /\ Same(x, v) /\ v.socket = x.socket
            /\ Continues(v.ready, x.ready)
            /\ \A g \in Added(v.ready, x.ready) : g = Handler(op, "error")
            /\ x.socket \in {"shut", "closed"} => v.ops = x.ops
        BY <3>4, StartFacts
      <4>2. Quiet(Handler(op, "error")) /\ Handler(op, "error").op # "free"
        BY DEF Quiet, Handler, IoOp
      <4>3. \A g \in Added(v.ready, w.ready) : Quiet(g) /\ g.op # "free" BY <3>4, <4>1, <4>2
      <4>4. /\ v.state = w.state /\ v.freed = w.freed /\ v.running /\ ~v.timer
            /\ v.socket \in {"shut", "closed"} /\ v.ops = NoOps /\ Continues(v.ready, w.ready)
        BY <1>5, <3>4, <4>1 DEF Same
      <4> QED BY <1>2, <1>6, <1>12, <3>1, <4>1, <4>3, <4>4, ClosingContinues
    <3>5. CASE h.op = "send"
      <4>1. v = handleSend(w, h.result) BY <1>3, <3>5 DEF Run
      <4>2. CASE h.result # "ok"
        BY <1>5, <3>2, <4>1, <4>2 DEF handleSend, processErrorCode
      <4>3. CASE h.result = "ok" /\ w.sendQueue = 0
        BY <3>3, <4>1, <4>3 DEF handleSend
      <4>4. CASE h.result = "ok" /\ w.sendQueue # 0
        <5> DEFINE x == [w EXCEPT !.sendQueue = @ - 1]
        <5>1. /\ x \in Transport /\ x.state = w.state /\ x.freed = w.freed /\ x.running = w.running
              /\ x.timer = w.timer /\ x.socket = w.socket /\ x.ops = w.ops /\ x.ready = w.ready
          <6>1. w.sendQueue - 1 \in Nat BY <1>5, <4>4
          <6> QED BY <1>2, <6>1 DEF Transport
        <5>2. v = IF x.sendQueue > 0 THEN Start(x, "send") ELSE x
          BY <4>1, <4>4 DEF handleSend, sendFromQueue
        <5> HIDE DEF x
        <5>3. CASE x.sendQueue > 0
          <6>1. v = Start(x, "send") /\ "send" \in IoOp BY <5>2, <5>3 DEF IoOp
          <6> QED BY <1>5, <3>4, <5>1, <6>1
        <5>4. CASE ~(x.sendQueue > 0)
          <6>1. v = x BY <5>2, <5>4
          <6> QED BY <1>5, <3>2, <5>1, <6>1, SMTT(30)
                  DEF EndInv, Idle, ShutPart, ClosingPart, ClosedPart, ShuttingDown
        <5> QED BY <5>3, <5>4
      <4> QED BY <4>2, <4>3, <4>4
    <3>6. CASE h.op = "receive"
      <4>1. v = handleReceive(w, h.result) BY <1>3, <3>6 DEF Run
      <4>2. CASE h.result = "ok"
        <5>1. v = Start(w, "receive") /\ "receive" \in IoOp
          BY <4>1, <4>2 DEF handleReceive, startReceive, IoOp
        <5> QED BY <1>2, <1>5, <3>4, <5>1
      <4>3. CASE h.result = "too large" /\ w.state = "CLOSING"
        <5>1. setState(w, "FAILED") = End(w)
          BY <4>3 DEF setState, ValidTransition
        <5>2. v = End(w) BY <3>3, <4>1, <4>3, <5>1 DEF handleReceive
        <5> QED BY <3>3, <5>2
      <4>4. CASE h.result = "too large" /\ w.state = "FAILED"
        <5>1. setState(w, "FAILED") = w BY <4>4 DEF setState
        <5>2. v = doClose(w) BY <1>5, <4>1, <4>4, <5>1 DEF handleReceive
        <5>3. /\ v \in Transport /\ v.state = w.state /\ v.freed = w.freed /\ v.running = w.running
              /\ ~v.timer /\ v.socket \in {"shut", "closed"} /\ v.ops = NoOps
              /\ Continues(v.ready, w.ready)
              /\ \A g \in Added(v.ready, w.ready) :
                   (g.op \in IoOp /\ g.result = "aborted") \/ g = Handler("deferredClose", "ok")
          BY <1>2, <3>2, <5>2, DoCloseFacts DEF EndInv
        <5>4. ASSUME NEW g \in Added(v.ready, w.ready) PROVE Quiet(g) /\ g.op # "free"
          <6>1. CASE g.op \in IoOp /\ g.result = "aborted" BY <6>1 DEF Quiet, IoOp
          <6>2. CASE g = Handler("deferredClose", "ok")
            <7>1. g.op = "deferredClose" BY <6>2 DEF Handler
            <7> QED BY <7>1 DEF Quiet
          <6> QED BY <5>3, <6>1, <6>2
        <5> QED BY <1>2, <1>5, <1>6, <1>12, <3>1, <5>3, <5>4, ClosingContinues
      <4>5. CASE h.result \notin {"ok", "too large"}
        <5>1. v = w BY <1>5, <4>1, <4>5 DEF handleReceive, processErrorCode
        <5> QED BY <3>2, <5>1
      <4> QED BY <1>12, <4>2, <4>3, <4>4, <4>5
    <3>7. CASE h.op \in {"connect", "reconnect"}
      <4>1. v = w BY <1>3, <1>5, <3>7 DEF Run, handleReconnect, reconnect
      <4> QED BY <3>2, <4>1
    <3>8. h.op # "free" BY <1>2, <1>5, <2>1
    <3> QED BY <1>8, <2>4, <3>5, <3>6, <3>7, <3>8 DEF IoOp
  <2> QED BY <2>3, <2>4
<1> QED BY <1>5, <1>11, <1>12
\* No handler opens a transport again that shuts down.
LEMMA ShutStays ==
    ASSUME NEW w \in Transport, ShuttingDown(w), NEW h \in AnyHandler
    PROVE  ShuttingDown(Run(w, h))
<1>1. h.op \in IoOp \cup {"reconnect", "deferredClose", "free"} BY DEF AnyHandler, HandlerOp
<1>2. ASSUME NEW x \in Transport, ShuttingDown(x), NEW op \in IoOp
      PROVE  ShuttingDown(Start(x, op))
  BY <1>2, StartFacts DEF ShuttingDown, Same
<1>3. ASSUME NEW x \in Transport, ShuttingDown(x), NEW new \in {"CLOSED", "FAILED"}
      PROVE  ShuttingDown(setState(x, new))
  BY <1>3 DEF ShuttingDown, setState, End, Post, Transport
<1>4. CASE h.op = "send"
  <2> DEFINE x == [w EXCEPT !.sendQueue = @ - 1]
  <2>1. Run(w, h) = handleSend(w, h.result) BY <1>4 DEF Run
  <2>2. CASE h.result # "ok" BY <2>1, <2>2 DEF handleSend, processErrorCode
  <2>3. CASE h.result = "ok" /\ w.sendQueue = 0
    BY <2>1, <2>3 DEF handleSend, End, ShuttingDown, Transport
  <2>4. CASE h.result = "ok" /\ w.sendQueue # 0
    <3>1. w.sendQueue \in Nat BY DEF Transport
    <3>2. w.sendQueue - 1 \in Nat BY <2>4, <3>1
    <3>3. x \in Transport /\ x.state = w.state BY <3>2 DEF Transport
    <3>4. Run(w, h) = IF x.sendQueue > 0 THEN Start(x, "send") ELSE x
      BY <2>1, <2>4 DEF handleSend, sendFromQueue
    <3> HIDE DEF x
    <3>5. ShuttingDown(x) BY <3>3 DEF ShuttingDown
    <3>6. ShuttingDown(Start(x, "send")) BY <1>2, <3>3, <3>5 DEF IoOp
    <3> QED BY <3>4, <3>5, <3>6
  <2> QED BY <2>2, <2>3, <2>4
<1>5. CASE h.op = "receive"
  <2>1. Run(w, h) = handleReceive(w, h.result) BY <1>5 DEF Run
  <2>2. CASE h.result = "ok"
    <3>1. Run(w, h) = Start(w, "receive") BY <2>1, <2>2 DEF handleReceive, startReceive
    <3> QED BY <1>2, <3>1 DEF IoOp
  <2>3. CASE h.result = "too large"
    <3> DEFINE x == setState(w, "FAILED")
    <3>1. Run(w, h) = IF x.running THEN doClose(x) ELSE x BY <2>1, <2>3 DEF handleReceive
    <3>2. ShuttingDown(x) BY <1>3
    <3>3. x.running => x = w \/ w.state \in {"UP", "DOWN"}
      BY DEF setState, End, ValidTransition, Transport, State
    <3> HIDE DEF x
    <3>4. x.running => x = w BY <3>3, SMTT(30) DEF ShuttingDown
    <3>5. doClose(w).state = w.state
      BY CancelFacts DEF doClose, Post, Transport, Same, cancel, Completed
    <3> QED BY <3>1, <3>2, <3>4, <3>5 DEF ShuttingDown
  <2>4. CASE h.result \notin {"ok", "too large"}
    BY <2>1, <2>4 DEF handleReceive, processErrorCode
  <2> QED BY <2>2, <2>3, <2>4
<1>6. CASE h.op \in {"connect", "reconnect"}
  BY <1>6 DEF Run, handleReconnect, reconnect
<1>7. CASE h.op = "deferredClose"
  <2> DEFINE d == [w EXCEPT !.sendQueue = 0]
             c == close(d)
  <2>1. d \in Transport /\ d.state = w.state BY DEF Transport
  <2>2. Run(w, h) = setState(c, "CLOSED") BY <1>7 DEF Run, deferredClose
  <2> HIDE DEF d
  <2>3. c \in Transport /\ c.state = w.state BY <2>1, CloseFacts DEF Same
  <2> HIDE DEF c
  <2>4. ShuttingDown(c) BY <2>3 DEF ShuttingDown
  <2> QED BY <1>3, <2>2, <2>3, <2>4
<1>8. CASE h.op = "free" BY <1>8 DEF Run, ShuttingDown, Transport
<1> QED BY <1>1, <1>4, <1>5, <1>6, <1>7, <1>8 DEF IoOp

LEMMA RunHandlerKeeps ==
    ASSUME TcpInv, t.running, RunHandler
    PROVE  TcpInv'
<1> DEFINE h == Head(t.ready)
           w == [t EXCEPT !.ready = Tail(@)]
<1>1. t' = Run(w, h) /\ t.ready # <<>> /\ EndInv(t) /\ WorkInv(t) /\ t \in Transport
  BY DEF RunHandler, TcpInv, EndInv
<1>2. w \in Transport /\ w.state = t.state /\ h \in AnyHandler BY <1>1, PopFacts DEF Same
<1>3. CASE ShuttingDown(t)
  <2>1. EndInv(t') BY <1>1, <1>3, ShutRun
  <2> HIDE DEF h, w
  <2>2. ShuttingDown(w) BY <1>2, <1>3 DEF ShuttingDown
  <2>3. ShuttingDown(t') BY <1>1, <1>2, <2>2, ShutStays
  <2>4. WorkInv(t') BY <2>3 DEF ShuttingDown, WorkInv
  <2> QED BY <2>1, <2>4 DEF TcpInv
<1>4. CASE ~ShuttingDown(t)
  <2>1. OpenInv(t) BY <1>1, <1>4 DEF EndInv, OpenInv
  <2>2. Works(t) BY <1>1 DEF WorkInv, Works
  <2>3. EndInv(t') /\ WorkInv(t') BY <1>1, <2>1, <2>2, OpenRun
  <2> QED BY <2>3 DEF TcpInv
<1> QED BY <1>3, <1>4

-----------------------------------------------------------------------------
(* The actions *)

\* A transport that can go on in the state it has.
LEMMA OpenAndWorking ==
    ASSUME NEW u, OpenInv(u), Works(u)
    PROVE  EndInv(u) /\ WorkInv(u)
BY OpenEnds DEF WorkInv, Works

\* Only an open transport has operations under way, or a timer.
LEMMA OpenIfBusy ==
    ASSUME TcpInv, t.running, ~ShuttingDown(t) \/ t.timer \/ t.socket \in {"connecting", "connected"}
    PROVE  OpenInv(t) /\ Works(t) /\ t \in Transport
BY DEF TcpInv, EndInv, WorkInv, OpenInv, Works, ShutPart

LEMMA InitHolds ==
    ASSUME TcpInit
    PROVE  TcpInv
<1>1. PICK pers \in Persistency :
          t = [state |-> "UP", persistency |-> pers, sendQueue |-> 0, wait |-> 0, timer |-> FALSE,
               socket |-> "connected", ops |-> [NoOps EXCEPT !["receive"] = 1], ready |-> <<>>,
               freed |-> FALSE, running |-> TRUE]
  BY DEF TcpInit
<1>2. [NoOps EXCEPT !["receive"] = 1] \in [IoOp -> Nat] /\ t.ops["receive"] = 1
  BY <1>1 DEF NoOps, IoOp
<1>3. t.ready = <<>> /\ t.ready \in Seq(AnyHandler) /\ Len(t.ready) = 0 BY <1>1
<1>4. /\ t.state = "UP" /\ t.sendQueue = 0 /\ t.socket = "connected" /\ ~t.freed /\ t.running
  BY <1>1
<1>5. t \in Transport BY <1>1, <1>2, <1>3 DEF Transport, State
<1>6. OpenInv(t) BY <1>3, <1>4, <1>5 DEF OpenInv, Idle, ShuttingDown, OpenPart
<1>7. Works(t) BY <1>2, <1>4 DEF Works, Live
<1> QED BY <1>6, <1>7, OpenAndWorking DEF TcpInv

LEMMA TimeoutKeeps ==
    ASSUME TcpInv, t.running, handleReconnectTimeout
    PROVE  TcpInv'
<1> DEFINE n == IF t.wait < MaxWait THEN t.wait + 1 ELSE t.wait
           u == [t EXCEPT !.timer = FALSE, !.wait = n]
           c == close(u)
<1>1. OpenInv(t) /\ t \in Transport BY OpenIfBusy DEF handleReconnectTimeout
<1>2. t' = Post(c, "reconnect") BY DEF handleReconnectTimeout
<1>3. n \in Nat BY <1>1 DEF Transport
<1> HIDE DEF n
<1>4. /\ u \in Transport /\ u.state = t.state /\ u.freed = t.freed /\ u.running = t.running
      /\ u.socket = t.socket /\ u.ops = t.ops /\ u.ready = t.ready
  BY <1>1, <1>3 DEF Transport
<1> HIDE DEF u
<1>5. OpenInv(u) BY <1>1, <1>4 DEF OpenInv, Idle, ShuttingDown, OpenPart
<1>6. OpenInv(c) BY <1>5, OpenCancel
<1> HIDE DEF c
<1>7. OpenInv(t') BY <1>2, <1>6, OpenPost
<1>8. Posted(t', "reconnect")
  <2> DEFINE op == "reconnect"
  <2>1. op \in HandlerOp BY DEF HandlerOp
  <2>2. t' = Post(c, op) BY <1>2
  <2> HIDE DEF op
  <2>3. c \in Transport BY <1>6 DEF OpenInv
  <2>4. /\ t' \in Transport /\ Continues(t'.ready, c.ready)
        /\ Added(t'.ready, c.ready) = {Handler(op, "ok")}
    BY <2>1, <2>2, <2>3, PostFacts
  <2>5. Handler(op, "ok").op = op BY DEF Handler
  <2>6. Posted(t', op) BY <2>3, <2>4, <2>5, StaysLive
  <2> QED BY <2>6 DEF op
<1>9. Works(t') BY <1>8 DEF Works
<1> QED BY <1>7, <1>9, OpenAndWorking DEF TcpInv

\* A transport that shuts down has no work to keep.
LEMMA ShutKeeps ==
    ASSUME NEW u, EndInv(u), u.state \in {"CLOSING", "FAILED", "CLOSED"}
    PROVE  EndInv(u) /\ WorkInv(u)
BY DEF WorkInv

LEMMA CloseKeeps ==
    ASSUME TcpInv, t.running, Close
    PROVE  TcpInv'
<1> DEFINE v == setState(t, "CLOSING")
<1>1. OpenInv(t) BY OpenIfBusy DEF Close, ShuttingDown
<1>2. t' = doClose(v) BY DEF Close
<1>3. v \in Transport /\ Idle(v) /\ OpenPart(v) /\ v.running /\ v.state = "CLOSING"
  BY <1>1, OpenSetState DEF OpenInv
<1> HIDE DEF v
<1>4. EndInv(t') /\ t'.state = "CLOSING" BY <1>2, <1>3, ShutDownStarts
<1> QED BY <1>4, ShutKeeps DEF TcpInv

LEMMA SetPersistencyKeeps ==
    ASSUME TcpInv, t.running, NEW pers \in Persistency, setPersistency(pers)
    PROVE  TcpInv'
<1> DEFINE u == [t EXCEPT !.persistency = pers]
           v == setState(u, "FAILED")
<1>1. t \in Transport BY DEF TcpInv, EndInv
<1>2. /\ u \in Transport /\ u.state = t.state /\ u.freed = t.freed /\ u.running = t.running
      /\ u.timer = t.timer /\ u.sendQueue = t.sendQueue
      /\ u.socket = t.socket /\ u.ops = t.ops /\ u.ready = t.ready
  BY <1>1 DEF Transport
<1>3. t' = IF t.persistency = "permanent" /\ t.state = "DOWN" THEN doClose(v) ELSE u
  BY DEF setPersistency
<1> HIDE DEF u
<1>4. CASE t.persistency = "permanent" /\ t.state = "DOWN"
  <2>1. OpenInv(t) BY <1>4, OpenIfBusy DEF ShuttingDown
  <2>2. OpenInv(u) BY <1>2, <2>1 DEF OpenInv, Idle, ShuttingDown, OpenPart
  <2>3. v \in Transport /\ Idle(v) /\ OpenPart(v) /\ v.running /\ v.state = "FAILED"
    BY <2>2, OpenSetState DEF OpenInv
  <2>4. t' = doClose(v) BY <1>3, <1>4
  <2> HIDE DEF v
  <2>5. EndInv(t') /\ t'.state = "FAILED" BY <2>3, <2>4, ShutDownStarts
  <2> QED BY <2>5, ShutKeeps DEF TcpInv
<1>5. CASE ~(t.persistency = "permanent" /\ t.state = "DOWN")
  <2>1. t' = u BY <1>3, <1>5
  <2>2. EndInv(u) BY <1>2 DEF TcpInv, EndInv, Idle, OpenPart, ShutPart, ClosingPart, ClosedPart, ShuttingDown
  <2>3. WorkInv(u) BY <1>2 DEF TcpInv, WorkInv, Posted, Live
  <2> QED BY <2>1, <2>2, <2>3 DEF TcpInv
<1> QED BY <1>4, <1>5

LEMMA SendKeeps ==
    ASSUME TcpInv, t.running, send
    PROVE  TcpInv'
<1> DEFINE one == [t EXCEPT !.sendQueue = 1]
           more == [t EXCEPT !.sendQueue = @ + 1]
           op == "send"
<1>1. OpenInv(t) /\ Works(t) /\ t \in Transport /\ t.state = "UP"
  BY OpenIfBusy DEF send, ShuttingDown
<1>2. t' = IF t.sendQueue = 0 THEN Start(one, op) ELSE more BY DEF send, sendFromQueue
<1>3. t.sendQueue \in Nat BY <1>1 DEF Transport
<1>4. op \in IoOp BY DEF IoOp
<1>5. CASE t.sendQueue = 0
  <2>1. /\ one \in Transport /\ one.state = t.state /\ one.freed = t.freed
        /\ one.running = t.running /\ one.timer = t.timer
        /\ one.socket = t.socket /\ one.ops = t.ops /\ one.ready = t.ready
    BY <1>1 DEF Transport
  <2> HIDE DEF one
  <2>2. OpenInv(one) BY <1>1, <2>1 DEF OpenInv, Idle, ShuttingDown, OpenPart
  <2>3. t' = Start(one, op) BY <1>2, <1>5
  <2> HIDE DEF op
  <2>4. OpenInv(t') /\ Same(one, t') BY <1>4, <2>2, <2>3, OpenStart
  <2>5. /\ Live(t', op)
        /\ \A o : Posted(one, o) => Posted(t', o)
        /\ \A o \in IoOp : Live(one, o) => Live(t', o)
    BY <1>4, <2>2, <2>3, StartWorks
  <2>6. "receive" \in IoOp BY DEF IoOp
  <2>7. Works(t')
    <3>1. t'.state = "UP" /\ t'.timer = t.timer BY <1>1, <2>1, <2>4 DEF Same
    <3>2. Posted(t, "reconnect") \/ t.timer \/ Live(t, "receive") BY <1>1 DEF Works
    <3>3. Posted(t, "reconnect") => Posted(t', "reconnect") BY <2>1, <2>5 DEF Posted
    <3>4. Live(t, "receive") => Live(t', "receive") BY <2>1, <2>5, <2>6 DEF Live
    <3> QED BY <2>5, <3>1, <3>2, <3>3, <3>4 DEF Works, op
  <2> QED BY <2>4, <2>7, OpenAndWorking DEF TcpInv
<1>6. CASE t.sendQueue # 0
  <2>1. t.sendQueue + 1 \in Nat /\ t.sendQueue > 0 BY <1>3, <1>6
  <2>2. /\ more \in Transport /\ more.state = t.state /\ more.freed = t.freed
        /\ more.running = t.running /\ more.timer = t.timer
        /\ more.socket = t.socket /\ more.ops = t.ops /\ more.ready = t.ready
    BY <1>1, <2>1 DEF Transport
  <2>3. t' = more BY <1>2, <1>6
  <2> HIDE DEF more
  <2>4. OpenInv(more) BY <1>1, <2>2 DEF OpenInv, Idle, ShuttingDown, OpenPart
  <2>5. Works(more) BY <1>1, <2>1, <2>2 DEF Works, Posted, Live
  <2> QED BY <2>3, <2>4, <2>5, OpenAndWorking DEF TcpInv
<1> QED BY <1>5, <1>6

\* An operation that ends leaves its handler.
LEMMA FinishFacts ==
    ASSUME NEW u, OpenInv(u), Works(u), NEW op \in IoOp, u.ops[op] > 0,
           u.socket \in {"connecting", "connected"},
           NEW r \in Result, r # "aborted"
    PROVE  LET v == Finish(u, op, r) IN OpenInv(v) /\ Works(v)
<1> DEFINE v == Finish(u, op, r)
           o1 == [u.ops EXCEPT ![op] = @ - 1]
           s == Append(u.ready, Handler(op, r))
<1>1. u \in Transport BY DEF OpenInv
<1>2. u.ready \in Seq(AnyHandler) /\ u.ops \in [IoOp -> Nat] BY <1>1 DEF Transport
<1>3. Handler(op, r) \in AnyHandler /\ Handler(op, r).op = op /\ Handler(op, r).result = r
  BY HandlerType DEF HandlerOp
<1>4. Continues(s, u.ready) /\ Added(s, u.ready) = {Handler(op, r)} BY <1>2, <1>3, AppendContinues
<1>5. s \in Seq(AnyHandler) BY <1>4 DEF Continues
<1>6. o1 \in [IoOp -> Nat] /\ \A o \in IoOp : o # op => o1[o] >= u.ops[o]
  <2>1. u.ops[op] - 1 \in Nat BY <1>2
  <2> QED BY <1>2, <2>1
<1>7. v = [u EXCEPT !.ops = o1, !.ready = s] BY <1>1 DEF Finish, Transport
<1> HIDE DEF s, o1, v
<1>8. v \in Transport /\ Same(u, v) /\ v.socket = u.socket /\ v.ops = o1 /\ v.ready = s
  BY <1>1, <1>5, <1>6, <1>7 DEF Transport, Same
<1>9. OpenInv(v)
  <2>1. \A h \in Added(v.ready, u.ready) : ~Ending(h)
    BY <1>4, <1>8, SocketHandlersDoNotEnd
  <2>2. v.state \in {"UP", "DOWN"}
    BY <1>1, <1>8 DEF OpenInv, ShuttingDown, Transport, State, Same
  <2>3. Idle(v) /\ v.running /\ v.freed = u.freed BY <1>8 DEF Idle, OpenInv, Same
  <2> QED BY <1>4, <1>8, <2>1, <2>2, <2>3, OpenContinues
<1>10. \A o \in IoOp : Live(u, o) => Live(v, o)
  <2>1. \A o \in IoOp : v.ops[o] >= u.ops[o] /\ Live(u, o) => Live(v, o)
    BY <1>1, <1>4, <1>8, StaysLive
  <2>2. Live(v, op) BY <1>1, <1>3, <1>4, <1>8, StaysLive
  <2> QED BY <1>6, <1>8, <2>1, <2>2
<1>11. \A o : Posted(u, o) => Posted(v, o) BY <1>1, <1>4, <1>8, StaysLive
<1>12. "send" \in IoOp /\ "receive" \in IoOp BY DEF IoOp
<1>13. v.state = u.state /\ v.sendQueue = u.sendQueue /\ v.timer = u.timer BY <1>8 DEF Same
<1>14. Works(v) BY <1>10, <1>11, <1>12, <1>13 DEF Works
<1> QED BY <1>9, <1>14 DEF v

LEMMA CompleteKeeps ==
    ASSUME TcpInv, t.running, NEW op \in IoOp, Complete(op)
    PROVE  TcpInv'
<1> DEFINE r == "ok"
           u == Finish(t, op, r)
<1>1. t.socket \in {"connecting", "connected"} /\ t.ops[op] > 0 BY DEF Complete
<1>2. OpenInv(t) /\ Works(t) BY <1>1, OpenIfBusy
<1>3. r \in Result /\ r # "aborted" BY DEF Result
<1>4. t' = [u EXCEPT !.socket = "connected"] BY DEF Complete
<1> HIDE DEF r
<1>5. OpenInv(u) /\ Works(u) BY <1>1, <1>2, <1>3, FinishFacts
<1> HIDE DEF u
<1>6. u \in Transport BY <1>5 DEF OpenInv
<1>7. /\ t' \in Transport /\ Same(u, t') /\ t'.socket = "connected" /\ t'.ops = u.ops
      /\ t'.ready = u.ready
  BY <1>4, <1>6 DEF Transport, Same
<1>8. OpenInv(t') BY <1>5, <1>7 DEF OpenInv, Idle, ShuttingDown, OpenPart, Same
<1>9. Works(t') BY <1>5, <1>7 DEF Works, Posted, Live, Same
<1> QED BY <1>8, <1>9, OpenAndWorking DEF TcpInv

\* Operations that fail with the attempt to connect leave their handlers.
LEMMA AllFailFacts ==
    ASSUME NEW u, OpenInv(u), Works(u)
    PROVE  LET v == [Completed(u, "error") EXCEPT !.socket = "shut"] IN OpenInv(v) /\ Works(v)
<1> DEFINE r == "error"
           c == Completed(u, r)
           v == [c EXCEPT !.socket = "shut"]
<1>1. u \in Transport /\ r \in Result /\ r # "aborted" BY DEF OpenInv, Result
<1> SUFFICES OpenInv(v) /\ Works(v) OBVIOUS
<1> HIDE DEF r
<1>2. /\ c \in Transport
      /\ c = [u EXCEPT !.ready = c.ready, !.ops = NoOps]
      /\ Continues(c.ready, u.ready)
      /\ \A h \in Added(c.ready, u.ready) : h.op \in IoOp /\ h.result = r
      /\ \A op \in IoOp : u.ops[op] > 0 => Handler(op, r) \in Added(c.ready, u.ready)
  BY <1>1, CompletedFacts
<1> HIDE DEF c
<1>3. Same(u, c) /\ c.ops = NoOps BY <1>1, <1>2 DEF Transport, Same
<1>4. /\ v \in Transport /\ Same(c, v) /\ v.socket = "shut" /\ v.ops = c.ops
      /\ v.ready = c.ready
  BY <1>2 DEF Transport, Same
<1> HIDE DEF v
<1>5. /\ v.state = u.state /\ v.sendQueue = u.sendQueue /\ v.timer = u.timer
      /\ v.freed = u.freed /\ v.running = u.running /\ v.ops = NoOps
  BY <1>3, <1>4 DEF Same
<1>6. OpenInv(v)
  <2>1. \A h \in Added(v.ready, u.ready) : ~Ending(h) BY <1>2, <1>4, SocketHandlersDoNotEnd
  <2>2. v.state \in {"UP", "DOWN"}
    BY <1>1, <1>5 DEF OpenInv, ShuttingDown, Transport, State
  <2>3. Idle(v) /\ v.running BY <1>5 DEF Idle, OpenInv
  <2> QED BY <1>2, <1>4, <1>5, <2>1, <2>2, <2>3, OpenContinues
<1>7. ASSUME NEW o \in IoOp, Live(u, o) PROVE Live(v, o)
  <2>1. CASE u.ops[o] > 0
    <3>1. Handler(o, r) \in Added(v.ready, u.ready) BY <1>2, <1>4, <2>1
    <3>2. Handler(o, r).op = o /\ Handler(o, r).result = r BY DEF Handler
    <3> QED BY <1>1, <1>2, <1>4, <3>1, <3>2, StaysLive
  <2>2. CASE \E i \in 1 .. Len(u.ready) : u.ready[i].op = o /\ u.ready[i].result # "aborted"
    <3>1. \A j \in 1 .. Len(u.ready) : \E i \in 1 .. Len(v.ready) : v.ready[i] = u.ready[j]
      BY <1>2, <1>4, ContinuesMembers
    <3> QED BY <2>2, <3>1 DEF Live
  <2> QED BY <1>7, <2>1, <2>2 DEF Live
<1>8. \A o : Posted(u, o) => Posted(v, o) BY <1>1, <1>2, <1>4, StaysLive
<1>9. "send" \in IoOp /\ "receive" \in IoOp BY DEF IoOp
<1>10. Works(v) BY <1>5, <1>7, <1>8, <1>9 DEF Works
<1> QED BY <1>6, <1>10

LEMMA BreakKeeps ==
    ASSUME TcpInv, t.running, NEW op \in IoOp, NEW r \in Fault(op), Break(op, r)
    PROVE  TcpInv'
<1> DEFINE u == Finish(t, op, r)
           v == [Completed(u, "error") EXCEPT !.socket = "shut"]
<1>1. t.socket \in {"connecting", "connected"} /\ t.ops[op] > 0 BY DEF Break
<1>2. OpenInv(t) /\ Works(t) BY <1>1, OpenIfBusy
<1>3. r \in Result /\ r # "aborted" BY DEF Result, Fault
<1>4. t' = IF op = "connect" THEN v ELSE u BY DEF Break
<1>5. OpenInv(u) /\ Works(u) BY <1>1, <1>2, <1>3, FinishFacts
<1> HIDE DEF u
<1>6. OpenInv(v) /\ Works(v) BY <1>5, AllFailFacts
<1> HIDE DEF v
<1>7. OpenInv(t') /\ Works(t') BY <1>4, <1>5, <1>6
<1> QED BY <1>7, OpenAndWorking DEF TcpInv

-----------------------------------------------------------------------------
LEMMA TcpInvariant == TcpSpec => []TcpInv
<1>1. TcpInit => TcpInv BY InitHolds
<1>2. TcpInv /\ [TcpNext]_tcpVars => TcpInv'
  <2> SUFFICES ASSUME TcpInv, [TcpNext]_tcpVars PROVE TcpInv' OBVIOUS
  <2>1. CASE UNCHANGED tcpVars
    BY <2>1 DEF tcpVars, TcpInv, EndInv, WorkInv, Idle, OpenPart, ShutPart, ClosingPart,
                ClosedPart, ShuttingDown, Posted, Live
  <2>2. CASE TcpNext
    <3>1. t.running BY <2>2 DEF TcpNext
    <3>2. CASE RunHandler BY <3>1, <3>2, RunHandlerKeeps
    <3>3. CASE handleReconnectTimeout BY <3>1, <3>3, TimeoutKeeps
    <3>4. ASSUME NEW op \in IoOp, Complete(op) PROVE TcpInv' BY <3>1, <3>4, CompleteKeeps
    <3>5. ASSUME NEW op \in IoOp, NEW r \in Fault(op), Break(op, r) PROVE TcpInv'
      BY <3>1, <3>5, BreakKeeps
    <3>6. CASE send BY <3>1, <3>6, SendKeeps
    <3>7. CASE Close BY <3>1, <3>7, CloseKeeps
    <3>8. ASSUME NEW pers \in Persistency, setPersistency(pers) PROVE TcpInv'
      BY <3>1, <3>8, SetPersistencyKeeps
    <3> QED BY <2>2, <3>2, <3>3, <3>4, <3>5, <3>6, <3>7, <3>8 DEF TcpNext
  <2> QED BY <2>1, <2>2
<1> QED BY <1>1, <1>2, PTL DEF TcpSpec

(* The face is freed after the last handler that refers to its transport: when
   deferredClose and the deferred deallocation of the face table have run, no handler
   is ready, no operation of the socket is under way and no timer is pending, whatever
   was queued before the transport was closed. *)
THEOREM NoUseAfterFreeHolds == TcpSpec => []NoUseAfterFree
<1>1. TcpInv => NoUseAfterFree
  <2> SUFFICES ASSUME TcpInv, t.freed
               PROVE  t.ready = <<>> /\ t.ops = NoOps /\ ~t.timer
    BY DEF NoUseAfterFree
  <2>1. t.running /\ ShuttingDown(t) /\ ShutPart(t) /\ t.state = "CLOSED" /\ ClosedPart(t) /\ Idle(t)
    BY DEF TcpInv, EndInv, OpenPart, ClosingPart
  <2> QED BY <2>1 DEF ShutPart, ClosedPart, Idle
<1> QED BY <1>1, TcpInvariant, PTL

(* A transport that is DOWN has an attempt to connect posted or its timeout pending,
   and one that is UP with no attempt to connect under way is receiving and is writing
   what is in its send queue, through every connection that breaks and comes back. *)
THEOREM KeepsWorkingHolds == TcpSpec => []KeepsWorking
<1>1. TcpInv => KeepsWorking
  <2>1. \A op \in IoOp : Live(t, op) => Awaited(op) BY DEF Live, Awaited
  <2>2. \A op : Posted(t, op) => Awaited(op) BY DEF Posted, Awaited
  <2>3. "reconnect" \notin IoOp /\ "send" \in IoOp /\ "receive" \in IoOp
    BY DEF IoOp
  <2>4. Awaited("reconnect") => Posted(t, "reconnect") BY <2>3 DEF Posted, Awaited
  <2> QED BY <2>1, <2>2, <2>3, <2>4 DEF TcpInv, WorkInv, KeepsWorking
<1> QED BY <1>1, TcpInvariant, PTL

(***************************************************************************)
(* Prefix propagator: names and bags                                       *)
(***************************************************************************)
PropagatorName == LocalName \cup Identity

LEMMA PropagatorPrefixMeans ==
    ASSUME NEW m \in PropagatorName, NEW n \in PropagatorName
    PROVE  /\ Len(m) \in Nat
           /\ m = n <=> Len(m) = Len(n) /\ \A i \in 1 .. Len(m) : m[i] = n[i]
           /\ IsPrefix(m, n) <=> Len(m) <= Len(n) /\ \A i \in 1 .. Len(m) : m[i] = n[i]
<1> DEFINE S == ToSet(m)
           T == ToSet(n)
<1>1. m \in Seq(S) /\ n \in Seq(T)
  BY PropagatorAssumption DEF PropagatorName
<1> HIDE DEF S, T
<1>2. Len(m) \in Nat /\ Len(n) \in Nat
  BY <1>1, LenProperties, Zenon
<1>3. m = n <=> Len(m) = Len(n) /\ \A i \in 1 .. Len(m) : m[i] = n[i]
  <2>1. m = [i \in 1 .. Len(m) |-> m[i]] /\ n = [i \in 1 .. Len(n) |-> n[i]]
    BY <1>1
  <2> QED
    BY <2>1
<1>4. ASSUME Len(m) <= Len(n)
      PROVE  SubSeq(m, 1, Len(m)) = SubSeq(n, 1, Len(m))
               <=> \A i \in 1 .. Len(m) : m[i] = n[i]
  <2>1. SubSeq(m, 1, Len(m)) = [i \in 1 .. Len(m) |-> m[i]]
    BY <1>1, <1>2
  <2>2. SubSeq(n, 1, Len(m)) = [i \in 1 .. Len(m) |-> n[i]]
    BY <1>1, <1>2, <1>4
  <2> QED
    BY <2>1, <2>2
<1> QED
  BY <1>2, <1>3, <1>4 DEF IsPrefix

\* At most one prefix is chosen for a name, and the prefix itself would be signed under it.
LEMMA ChosenOnce ==
    ASSUME NEW u, u.identities \subseteq Identity, NEW n \in LocalName,
           NEW x \in getPrefixPropagationParameters(u, n)
    PROVE  /\ x \in u.identities
           /\ getPrefixPropagationParameters(u, n) = {x}
           /\ doesCurrentPropagatedPrefixWork(u, x)
<1> DEFINE all == {i \in u.identities : IsPrefix(i, n)}
<1>1. x \in u.identities /\ IsPrefix(x, n) /\ \A k \in all : Len(x) <= Len(k)
  BY DEF getPrefixPropagationParameters
<1>2. \A k \in u.identities : k \in PropagatorName
  BY DEF PropagatorName
<1>3. n \in PropagatorName /\ x \in PropagatorName
  BY <1>1, <1>2 DEF PropagatorName
<1>4. ASSUME NEW k \in u.identities, IsPrefix(k, n), Len(k) <= Len(x) PROVE k = x
  <2>1. Len(x) <= Len(k)
    BY <1>1, <1>4
  <2>2. /\ Len(k) \in Nat /\ Len(x) \in Nat
        /\ k = x <=> Len(k) = Len(x) /\ \A i \in 1 .. Len(k) : k[i] = x[i]
    BY <1>2, <1>3, PropagatorPrefixMeans
  <2>3. IsPrefix(k, n) <=> Len(k) <= Len(n) /\ \A i \in 1 .. Len(k) : k[i] = n[i]
    BY <1>2, <1>3, PropagatorPrefixMeans
  <2>4. IsPrefix(x, n) <=> Len(x) <= Len(n) /\ \A i \in 1 .. Len(x) : x[i] = n[i]
    BY <1>3, PropagatorPrefixMeans
  <2>5. \A i \in 1 .. Len(k) : k[i] = x[i]
    BY <1>1, <1>4, <2>1, <2>2, <2>3, <2>4
  <2> QED
    BY <1>4, <2>1, <2>2, <2>5
<1>5. ASSUME NEW k \in u.identities, IsPrefix(k, x) PROVE k = x
  <2>1. /\ Len(k) \in Nat /\ Len(x) \in Nat /\ Len(n) \in Nat
        /\ IsPrefix(k, x) <=> Len(k) <= Len(x) /\ \A i \in 1 .. Len(k) : k[i] = x[i]
    BY <1>2, <1>3, PropagatorPrefixMeans
  <2>2. IsPrefix(k, n) <=> Len(k) <= Len(n) /\ \A i \in 1 .. Len(k) : k[i] = n[i]
    BY <1>2, <1>3, PropagatorPrefixMeans
  <2>3. IsPrefix(x, n) <=> Len(x) <= Len(n) /\ \A i \in 1 .. Len(x) : x[i] = n[i]
    BY <1>3, PropagatorPrefixMeans
  <2>4. IsPrefix(k, n)
    BY <1>1, <1>5, <2>1, <2>2, <2>3
  <2> QED
    BY <1>4, <1>5, <2>1, <2>4
<1>6. IsPrefix(x, x) /\ Len(x) <= Len(x)
  BY <1>3, PropagatorPrefixMeans
<1>7. getPrefixPropagationParameters(u, n) = {x}
  BY <1>1, <1>4 DEF getPrefixPropagationParameters
<1>8. getPrefixPropagationParameters(u, x) = {x}
  BY <1>1, <1>5, <1>6 DEF getPrefixPropagationParameters
<1> QED
  BY <1>1, <1>7, <1>8 DEF doesCurrentPropagatedPrefixWork

IsBag(b) == b \in [DOMAIN b -> Nat \ {0}]

LEMMA BagMore ==
    ASSUME NEW b, IsBag(b), NEW C
    PROVE  IsBag(b (+) SetToBag(C)) /\ DOMAIN (b (+) SetToBag(C)) = DOMAIN b \cup C
<1>1. (b (+) SetToBag(C)) \in [DOMAIN b \cup C -> Nat \ {0}]
  BY DEF (+), SetToBag, IsBag
<1> QED
  BY <1>1 DEF IsBag

\* Taking one from a bag may or may not leave another one of its kind.
LEMMA BagLess ==
    ASSUME NEW b, IsBag(b), NEW c
    PROVE  /\ IsBag(b (-) SetToBag({c}))
           /\ DOMAIN (b (-) SetToBag({c})) \subseteq DOMAIN b
           /\ \A d \in DOMAIN b : d # c => d \in DOMAIN (b (-) SetToBag({c}))
<1> DEFINE z == b (-) SetToBag({c})
<1>1. DOMAIN z \subseteq DOMAIN b
  BY DEF (-), SetToBag, IsBag
<1>2. \A d \in DOMAIN b : d # c => d \in DOMAIN z
  BY DEF (-), SetToBag, IsBag
<1>3. z \in [DOMAIN z -> Nat \ {0}]
  BY DEF (-), SetToBag, IsBag
<1> QED
  BY <1>1, <1>2, <1>3 DEF IsBag

(***************************************************************************)
(* What the member functions of the propagator do                          *)
(***************************************************************************)
IsPropagator(u) ==
    /\ u = [rib |-> u.rib, identities |-> u.identities, entries |-> u.entries,
            connected |-> u.connected, sent |-> u.sent, signed |-> u.signed, odd |-> u.odd]
    /\ u.connected \in BOOLEAN
    /\ u.odd \in BOOLEAN

\* v differs from u in its entries and commands only.
SameSetting(u, v) ==
    /\ IsPropagator(v)
    /\ v.rib = u.rib /\ v.identities = u.identities
    /\ v.connected = u.connected /\ v.odd = u.odd

LEMMA SameSettingJoins ==
    ASSUME NEW u, NEW v, NEW w, SameSetting(u, v), SameSetting(v, w)
    PROVE  SameSetting(u, w)
BY DEF SameSetting

LEMMA StartSame ==
    ASSUME NEW u, IsPropagator(u), NEW X, NEW verb
    PROVE  /\ SameSetting(u, SendCommands(u, verb, X))
           /\ SameSetting(u, startPropagation(u, X))
           /\ SameSetting(u, Forget(u, X))
<1>1. ASSUME NEW v, IsPropagator(v), NEW q PROVE SameSetting(v, SendCommands(v, q, X))
  BY <1>1 DEF SendCommands, SameSetting, IsPropagator
<1>2. ASSUME NEW e PROVE SameSetting(u, [u EXCEPT !.entries = e])
  BY DEF SameSetting, IsPropagator
<1>3. SameSetting(u, Forget(u, X))
  BY <1>2 DEF Forget
<1> DEFINE e == [x \in DOMAIN u.entries |->
                    IF x \in X THEN PropagatedEntry("PROPAGATING", u.entries[x].timer)
                    ELSE u.entries[x]]
           v == [u EXCEPT !.entries = e]
           q == "register"
<1>4. startPropagation(u, X) = SendCommands(v, q, X)
  BY DEF startPropagation
<1> HIDE DEF e, q
<1>5. SameSetting(u, v)
  BY <1>2
<1> HIDE DEF v
<1>6. IsPropagator(v)
  BY <1>5 DEF SameSetting
<1>7. SameSetting(v, SendCommands(v, q, X))
  BY <1>1, <1>6
<1> QED
  BY <1>1, <1>3, <1>4, <1>5, <1>7, SameSettingJoins

LEMMA InsertSame ==
    ASSUME NEW u, IsPropagator(u), NEW names
    PROVE  SameSetting(u, afterInsertRibEntry(u, names))
<1> DEFINE new == (UNION {getPrefixPropagationParameters(u, n) : n \in names}) \ DOMAIN u.entries
           e == [x \in new \cup DOMAIN u.entries |->
                    IF x \in new THEN PropagatedEntry("NEW", "none") ELSE u.entries[x]]
           v == [u EXCEPT !.entries = e]
<1>1. afterInsertRibEntry(u, names) = IF u.connected THEN startPropagation(v, new) ELSE v
  BY DEF afterInsertRibEntry
<1> HIDE DEF e, new
<1>2. SameSetting(u, v)
  BY DEF SameSetting, IsPropagator
<1> HIDE DEF v
<1>3. IsPropagator(v)
  BY <1>2 DEF SameSetting
<1>4. SameSetting(v, startPropagation(v, new))
  BY <1>3, StartSame
<1> QED
  BY <1>1, <1>2, <1>4, SameSettingJoins

LEMMA RedoSame ==
    ASSUME NEW u, IsPropagator(u), NEW X
    PROVE  SameSetting(u, redoPropagation(u, X))
<1> DEFINE works == {x \in X : doesCurrentPropagatedPrefixWork(u, x)}
           others == X \ works
           names == {n \in u.rib : \E x \in others : IsPrefix(x, n)}
           v == Forget(u, others)
           w == startPropagation(v, works)
<1>1. redoPropagation(u, X) = afterInsertRibEntry(w, names)
  BY DEF redoPropagation
<1> HIDE DEF works, others, names
<1>2. SameSetting(u, v) /\ IsPropagator(v)
  BY StartSame DEF SameSetting
<1> HIDE DEF v
<1>3. SameSetting(v, w) /\ IsPropagator(w)
  BY <1>2, StartSame DEF SameSetting
<1> HIDE DEF w
<1>4. SameSetting(w, afterInsertRibEntry(w, names))
  BY <1>3, InsertSame
<1> QED
  BY <1>1, <1>2, <1>3, <1>4, SameSettingJoins

LEMMA EraseSame ==
    ASSUME NEW u, IsPropagator(u), NEW n
    PROVE  SameSetting(u, afterEraseRibEntry(u, n))
<1>1. ASSUME NEW x PROVE SameSetting(u, afterRibErase(u, x))
  <2> DEFINE v == Forget(u, {x})
  <2>1. SameSetting(u, v) /\ IsPropagator(v)
    BY StartSame DEF SameSetting
  <2>2. afterRibErase(u, x) \in {v, withdraw(v, x)}
    BY DEF afterRibErase
  <2> HIDE DEF v
  <2>3. SameSetting(v, withdraw(v, x))
    BY <2>1, StartSame DEF withdraw
  <2> QED
    BY <2>1, <2>2, <2>3, SameSettingJoins
<1>2. SameSetting(u, u)
  BY DEF SameSetting
<1> QED
  BY <1>1, <1>2 DEF afterEraseRibEntry

LEMMA AnswerSame ==
    ASSUME NEW u, IsPropagator(u), NEW x
    PROVE  /\ SameSetting(u, afterPropagateSucceed(u, x))
           /\ SameSetting(u, afterPropagateFail(u, x))
           /\ SameSetting(u, afterRevokeSucceed(u, x))
<1>1. SameSetting(u, u)
  BY DEF SameSetting
<1>2. ASSUME NEW e PROVE SameSetting(u, [u EXCEPT !.entries[x] = e])
  BY DEF SameSetting, IsPropagator
<1>3. SameSetting(u, withdraw(u, x)) /\ SameSetting(u, startPropagation(u, {x}))
  BY StartSame DEF withdraw
<1> QED
  BY <1>1, <1>2, <1>3 DEF afterPropagateSucceed, afterPropagateFail, afterRevokeSucceed

(***************************************************************************)
(* The ledger of a prefix. As long as nothing is lost, a prefix with an    *)
(* entry is with the hub, or a command is under way that brings it there   *)
(* or whose answer starts one that does. A prefix with the hub has an      *)
(* entry that is PROPAGATED and will be withdrawn with it, or a command is *)
(* under way that withdraws it or whose answer sees whether it is needed.  *)
(***************************************************************************)
AnyEntry == [status : {"NEW", "PROPAGATING", "PROPAGATED", "PROPAGATE_FAIL"},
             timer : {"none", "refresh", "retry"}]
LiveCommand == [verb : {"register", "unregister"}, prefix : Identity,
                live : {TRUE}, done : BOOLEAN]

Sent(verb, x, done) == [verb |-> verb, prefix |-> x, live |-> TRUE, done |-> done]

AllSent(verb, X) == {Sent(verb, x, FALSE) : x \in X}

Ledger(entries, cmds, h, x) ==
    /\ x \in DOMAIN entries =>
         x \in h \/ Sent("register", x, FALSE) \in cmds \/ Sent("unregister", x, TRUE) \in cmds
    /\ x \in h =>
         \/ x \in DOMAIN entries /\ entries[x].status = "PROPAGATED"
         \/ Sent("register", x, FALSE) \in cmds
         \/ Sent("register", x, TRUE) \in cmds
         \/ Sent("unregister", x, FALSE) \in cmds

Chosen(u, names) == UNION {getPrefixPropagationParameters(u, n) : n \in names}

Typed(u, h) ==
    /\ IsPropagator(u)
    /\ u.rib \subseteq LocalName
    /\ u.identities \subseteq Identity
    /\ h \subseteq Identity
    /\ IsBag(u.sent)
    /\ DOMAIN u.sent \subseteq LiveCommand
    /\ u.entries \in [DOMAIN u.entries -> AnyEntry]

Calm(u, h) ==
    /\ Typed(u, h)
    /\ DOMAIN u.entries = Chosen(u, u.rib)
    /\ u.connected =>
         /\ \A x \in DOMAIN u.entries : u.entries[x].status \in {"PROPAGATING", "PROPAGATED"}
         /\ \A x \in Identity : Ledger(u.entries, DOMAIN u.sent, h, x)
    /\ ~u.connected =>
         DOMAIN u.sent = {} /\ h = {} /\ \A x \in DOMAIN u.entries : u.entries[x].timer = "none"

LEMMA ChosenFacts ==
    ASSUME NEW u, u.identities \subseteq Identity, NEW names, names \subseteq LocalName
    PROVE  /\ Chosen(u, names) \subseteq Identity
           /\ \A x \in Chosen(u, names) : doesCurrentPropagatedPrefixWork(u, x)
<1> SUFFICES ASSUME NEW n \in names, NEW x \in getPrefixPropagationParameters(u, n)
             PROVE  x \in Identity /\ doesCurrentPropagatedPrefixWork(u, x)
  BY DEF Chosen
<1>1. x \in u.identities /\ doesCurrentPropagatedPrefixWork(u, x)
  BY ChosenOnce
<1> QED
  BY <1>1

LEMMA SameChosen ==
    ASSUME NEW u, NEW v, u.identities = v.identities
    PROVE  /\ \A n : getPrefixPropagationParameters(u, n) = getPrefixPropagationParameters(v, n)
           /\ \A names : Chosen(u, names) = Chosen(v, names)
<1>1. \A n : getPrefixPropagationParameters(u, n) = getPrefixPropagationParameters(v, n)
  BY DEF getPrefixPropagationParameters
<1> QED
  BY <1>1 DEF Chosen

\* v is u with the propagation of the entries X started.
Started(u, v, X) ==
    /\ SameSetting(u, v)
    /\ v.entries = [x \in DOMAIN u.entries |->
                       IF x \in X THEN [status |-> "PROPAGATING", timer |-> u.entries[x].timer]
                       ELSE u.entries[x]]
    /\ IsBag(v.sent)
    /\ DOMAIN v.sent = DOMAIN u.sent \cup AllSent("register", X)

LEMMA SendEffect ==
    ASSUME NEW u, IsPropagator(u), u.connected, IsBag(u.sent), NEW verb, NEW X
    PROVE  LET v == SendCommands(u, verb, X)
           IN  /\ v.entries = u.entries
               /\ IsBag(v.sent)
               /\ DOMAIN v.sent = DOMAIN u.sent \cup AllSent(verb, X)
<1> DEFINE C == {Command(u, verb, x) : x \in X}
           v == SendCommands(u, verb, X)
<1>1. C = AllSent(verb, X)
  <2>1. u.connected = TRUE
    BY DEF IsPropagator
  <2> QED
    BY <2>1 DEF Command, Sent, AllSent
<1>2. v = [u EXCEPT !.sent = u.sent (+) SetToBag(C)]
  BY DEF SendCommands
<1> HIDE DEF C
<1>3. v.entries = u.entries /\ v.sent = u.sent (+) SetToBag(C)
  BY <1>2 DEF IsPropagator
<1>4. IsBag(u.sent (+) SetToBag(C)) /\ DOMAIN (u.sent (+) SetToBag(C)) = DOMAIN u.sent \cup C
  BY BagMore
<1> QED
  BY <1>1, <1>3, <1>4

LEMMA EntriesSet ==
    ASSUME NEW u, IsPropagator(u), NEW e
    PROVE  LET v == [u EXCEPT !.entries = e]
           IN  SameSetting(u, v) /\ v.entries = e /\ v.sent = u.sent
BY DEF IsPropagator, SameSetting

LEMMA StartEffect ==
    ASSUME NEW u, IsPropagator(u), u.connected, IsBag(u.sent), NEW X
    PROVE  Started(u, startPropagation(u, X), X)
<1> DEFINE e == [x \in DOMAIN u.entries |->
                    IF x \in X THEN [status |-> "PROPAGATING", timer |-> u.entries[x].timer]
                    ELSE u.entries[x]]
           v == [u EXCEPT !.entries = e]
           q == "register"
           w == SendCommands(v, q, X)
<1>1. startPropagation(u, X) = w
  BY DEF startPropagation, PropagatedEntry
<1>2. SameSetting(u, startPropagation(u, X))
  BY StartSame
<1> SUFFICES /\ w.entries = e
             /\ IsBag(w.sent)
             /\ DOMAIN w.sent = DOMAIN u.sent \cup AllSent(q, X)
  BY <1>1, <1>2 DEF Started
<1> HIDE DEF e, q
<1>3. SameSetting(u, v) /\ v.entries = e /\ v.sent = u.sent
  BY EntriesSet
<1> HIDE DEF v
<1>4. IsPropagator(v) /\ v.connected /\ IsBag(v.sent)
  BY <1>3 DEF SameSetting
<1>5. /\ w.entries = v.entries
      /\ IsBag(w.sent)
      /\ DOMAIN w.sent = DOMAIN v.sent \cup AllSent(q, X)
  BY <1>4, SendEffect
<1> QED
  BY <1>3, <1>5

\* v is u with entries for the prefixes new, propagated if there is a hub.
Extended(u, v, new) ==
    /\ SameSetting(u, v)
    /\ v.entries \in [DOMAIN u.entries \cup new -> AnyEntry]
    /\ \A x \in DOMAIN u.entries : v.entries[x] = u.entries[x]
    /\ IsBag(v.sent)
    /\ u.connected =>
         /\ \A x \in new : v.entries[x].status = "PROPAGATING"
         /\ DOMAIN v.sent = DOMAIN u.sent \cup AllSent("register", new)
    /\ ~u.connected => v.sent = u.sent /\ \A x \in new : v.entries[x].timer = "none"

LEMMA InsertEffect ==
    ASSUME NEW u, IsPropagator(u), IsBag(u.sent), u.entries \in [DOMAIN u.entries -> AnyEntry],
           NEW names
    PROVE  Extended(u, afterInsertRibEntry(u, names), Chosen(u, names) \ DOMAIN u.entries)
<1> DEFINE new == Chosen(u, names) \ DOMAIN u.entries
           e == [x \in new \cup DOMAIN u.entries |->
                    IF x \in new THEN [status |-> "NEW", timer |-> "none"] ELSE u.entries[x]]
           v == [u EXCEPT !.entries = e]
           w == startPropagation(v, new)
           r == afterInsertRibEntry(u, names)
<1>1. r = IF u.connected THEN w ELSE v
  <2>1. new = (UNION {getPrefixPropagationParameters(u, n) : n \in names}) \ DOMAIN u.entries
    BY DEF Chosen
  <2> HIDE DEF new
  <2> QED
    BY <2>1 DEF afterInsertRibEntry, PropagatedEntry
<1>2. SameSetting(u, r)
  BY InsertSame
<1>3. new \cap DOMAIN u.entries = {}
  OBVIOUS
<1> HIDE DEF new, r
<1>4. /\ e \in [DOMAIN u.entries \cup new -> AnyEntry]
      /\ \A x \in DOMAIN u.entries : e[x] = u.entries[x]
      /\ \A x \in new : e[x].timer = "none"
  BY <1>3 DEF AnyEntry
<1> HIDE DEF e
<1>5. SameSetting(u, v) /\ v.entries = e /\ v.sent = u.sent
  BY EntriesSet
<1> HIDE DEF v
<1>6. CASE u.connected
  <2>1. Started(v, w, new)
    BY <1>5, <1>6, StartEffect DEF SameSetting
  <2> HIDE DEF w
  <2>2. r = w
    BY <1>1, <1>6
  <2>3. /\ w.entries = [x \in DOMAIN e |->
                           IF x \in new THEN [status |-> "PROPAGATING", timer |-> e[x].timer]
                           ELSE e[x]]
        /\ IsBag(w.sent)
        /\ DOMAIN w.sent = DOMAIN u.sent \cup AllSent("register", new)
    BY <1>5, <2>1 DEF Started
  <2>4. /\ w.entries \in [DOMAIN u.entries \cup new -> AnyEntry]
        /\ \A x \in DOMAIN u.entries : w.entries[x] = u.entries[x]
        /\ \A x \in new : w.entries[x].status = "PROPAGATING"
    BY <1>3, <1>4, <2>3 DEF AnyEntry
  <2> QED
    BY <1>2, <1>6, <2>2, <2>3, <2>4 DEF Extended, new, r
<1>7. CASE ~u.connected
  <2>1. r = v
    BY <1>1, <1>7
  <2> QED
    BY <1>2, <1>4, <1>5, <1>7, <2>1 DEF Extended, new, r
<1> QED
  BY <1>6, <1>7

\* Entries whose prefix still works are only propagated again.
LEMMA RedoEffect ==
    ASSUME NEW u, IsPropagator(u), u.connected, IsBag(u.sent),
           u.entries \in [DOMAIN u.entries -> AnyEntry],
           NEW X, X \subseteq DOMAIN u.entries, \A x \in X : doesCurrentPropagatedPrefixWork(u, x)
    PROVE  Started(u, redoPropagation(u, X), X)
<1> DEFINE works == {x \in X : doesCurrentPropagatedPrefixWork(u, x)}
           others == X \ works
           names == {n \in u.rib : \E x \in others : IsPrefix(x, n)}
           none == {}
           v == Forget(u, none)
           w == startPropagation(v, X)
           r == afterInsertRibEntry(w, none)
<1>1. redoPropagation(u, X) = r
  <2>1. works = X /\ others = {} /\ names = {}
    OBVIOUS
  <2>2. redoPropagation(u, X) = afterInsertRibEntry(startPropagation(Forget(u, others), works), names)
    BY DEF redoPropagation
  <2> QED
    BY <2>1, <2>2
<1> HIDE DEF works, others, names
<1>2. v = [u EXCEPT !.entries = [x \in DOMAIN u.entries |-> u.entries[x]]]
  BY DEF Forget
<1>3. u.entries = [x \in DOMAIN u.entries |-> u.entries[x]]
  OBVIOUS
<1>4. v = u
  BY <1>2, <1>3 DEF IsPropagator
<1> HIDE DEF v
<1>5. Started(u, w, X)
  BY <1>4, StartEffect
<1> HIDE DEF w
<1>6. /\ IsPropagator(w) /\ IsBag(w.sent) /\ w.connected
      /\ DOMAIN w.entries = DOMAIN u.entries
      /\ w.entries \in [DOMAIN w.entries -> AnyEntry]
  BY <1>5 DEF Started, SameSetting, AnyEntry
<1>7. none = {}
  OBVIOUS
<1> HIDE DEF none
<1>8. Extended(w, r, Chosen(w, none) \ DOMAIN w.entries)
  BY <1>6, InsertEffect
<1>9. Chosen(w, none) \ DOMAIN w.entries = {}
  BY <1>7 DEF Chosen
<1> HIDE DEF r
<1>10. SameSetting(w, r) /\ r.entries = w.entries /\ IsBag(r.sent) /\ DOMAIN r.sent = DOMAIN w.sent
  <2>1. SameSetting(w, r) /\ IsBag(r.sent) /\ DOMAIN r.sent = DOMAIN w.sent
    BY <1>6, <1>8, <1>9 DEF Extended, AllSent
  <2>2. /\ r.entries \in [DOMAIN w.entries -> AnyEntry]
        /\ \A x \in DOMAIN w.entries : r.entries[x] = w.entries[x]
    BY <1>8, <1>9 DEF Extended
  <2> QED
    BY <1>6, <2>1, <2>2
<1> QED
  BY <1>1, <1>5, <1>10, SameSettingJoins DEF Started

\* A prefix whose propagation is started has a registration under way.
LEMMA StartedCalm ==
    ASSUME NEW u, NEW h, Typed(u, h), u.connected, DOMAIN u.entries = Chosen(u, u.rib),
           NEW X, X \subseteq DOMAIN u.entries, NEW v, Started(u, v, X),
           \A x \in DOMAIN u.entries \ X : u.entries[x].status \in {"PROPAGATING", "PROPAGATED"},
           \A x \in Identity \ X : Ledger(u.entries, DOMAIN u.sent, h, x)
    PROVE  Calm(v, h)
<1>1. /\ SameSetting(u, v)
      /\ v.entries \in [DOMAIN u.entries -> AnyEntry]
      /\ DOMAIN v.entries = DOMAIN u.entries
      /\ \A x \in X : v.entries[x].status = "PROPAGATING"
      /\ \A x \in DOMAIN u.entries \ X : v.entries[x] = u.entries[x]
  BY DEF Started, Typed, AnyEntry
<1>2. Chosen(v, v.rib) = Chosen(u, u.rib)
  BY <1>1, SameChosen DEF SameSetting
<1>3. DOMAIN u.entries \subseteq Identity
  BY ChosenFacts DEF Typed
<1>4. \A x \in X : Sent("register", x, FALSE) \in LiveCommand
  BY <1>3 DEF Sent, LiveCommand
<1>5. Typed(v, h)
  <2>1. AllSent("register", X) \subseteq LiveCommand
    BY <1>4 DEF AllSent
  <2>2. IsBag(v.sent) /\ DOMAIN v.sent = DOMAIN u.sent \cup AllSent("register", X)
    BY DEF Started
  <2>3. DOMAIN v.sent \subseteq LiveCommand
    BY <2>1, <2>2 DEF Typed
  <2> QED
    BY <1>1, <2>2, <2>3 DEF Typed, SameSetting
<1>6. ASSUME NEW x \in Identity PROVE Ledger(v.entries, DOMAIN v.sent, h, x)
  <2>1. CASE x \in X
    <3>1. Sent("register", x, FALSE) \in DOMAIN v.sent
      BY <2>1 DEF Started, AllSent
    <3> QED
      BY <3>1 DEF Ledger
  <2>2. CASE x \notin X
    <3>1. Ledger(u.entries, DOMAIN u.sent, h, x)
      BY <2>2
    <3>2. DOMAIN u.sent \subseteq DOMAIN v.sent
      BY DEF Started
    <3> QED
      BY <1>1, <2>2, <3>1, <3>2 DEF Ledger
  <2> QED
    BY <2>1, <2>2
<1>7. \A x \in DOMAIN v.entries : v.entries[x].status \in {"PROPAGATING", "PROPAGATED"}
  BY <1>1
<1>8. v.connected
  BY <1>1 DEF SameSetting
<1> QED
  BY <1>1, <1>2, <1>5, <1>6, <1>7, <1>8 DEF Calm

LEMMA InitCalm ==
    PropagatorInit => Calm(p, hub) /\ nLost = 0
<1> SUFFICES ASSUME PropagatorInit PROVE Calm(p, hub) /\ nLost = 0
  OBVIOUS
<1>1. PICK ids \in SUBSET Identity :
          p = [rib |-> {}, identities |-> ids,
               entries |-> [x \in {} |-> PropagatedEntry("NEW", "none")],
               connected |-> FALSE, sent |-> EmptyBag, signed |-> {}, odd |-> FALSE]
  BY DEF PropagatorInit
<1>2. EmptyBag \in [{} -> Nat \ {0}] /\ DOMAIN EmptyBag = {}
  BY DEF EmptyBag, SetToBag
<1>3. IsBag(p.sent) /\ DOMAIN p.sent = {}
  BY <1>1, <1>2 DEF IsBag
<1>4. IsPropagator(p)
  BY <1>1 DEF IsPropagator
<1>5. DOMAIN p.entries = {} /\ p.entries \in [DOMAIN p.entries -> AnyEntry]
  BY <1>1
<1>6. p.rib = {} /\ p.identities \subseteq Identity /\ ~p.connected
  BY <1>1
<1>7. hub = {} /\ nLost = 0
  BY DEF PropagatorInit
<1>8. Typed(p, hub)
  BY <1>3, <1>4, <1>5, <1>6, <1>7 DEF Typed
<1>9. Chosen(p, p.rib) = {}
  BY <1>6 DEF Chosen
<1> QED
  BY <1>3, <1>5, <1>6, <1>7, <1>8, <1>9 DEF Calm

WithNames(u, names, signed) == [u EXCEPT !.rib = names, !.signed = signed]

LEMMA NamesSet ==
    ASSUME NEW u, IsPropagator(u), NEW names, NEW signed
    PROVE  LET v == WithNames(u, names, signed)
           IN  /\ IsPropagator(v) /\ v.rib = names /\ v.identities = u.identities
               /\ v.connected = u.connected /\ v.sent = u.sent /\ v.entries = u.entries
               /\ v.odd = u.odd
<1> DEFINE v == WithNames(u, names, signed)
<1>1. v = [rib |-> names, identities |-> u.identities, entries |-> u.entries,
           connected |-> u.connected, sent |-> u.sent, signed |-> signed, odd |-> u.odd]
  <2> DEFINE w == [u EXCEPT !.rib = names]
  <2>1. v = [w EXCEPT !.signed = signed]
    BY DEF WithNames
  <2>2. w = [rib |-> names, identities |-> u.identities, entries |-> u.entries,
             connected |-> u.connected, sent |-> u.sent, signed |-> u.signed, odd |-> u.odd]
    BY DEF IsPropagator
  <2> HIDE DEF w, v
  <2> QED
    BY <2>1, <2>2
<1>2. u.connected \in BOOLEAN /\ u.odd \in BOOLEAN
  BY DEF IsPropagator
<1> HIDE DEF v
<1> SUFFICES /\ IsPropagator(v) /\ v.rib = names /\ v.identities = u.identities
             /\ v.connected = u.connected /\ v.sent = u.sent /\ v.entries = u.entries
             /\ v.odd = u.odd
  BY DEF v
<1> QED
  BY <1>1, <1>2 DEF IsPropagator

LEMMA InsertNameCalm ==
    ASSUME Calm(p, hub), NEW n \in LocalName, InsertName(n)
    PROVE  Calm(p', hub')
<1> DEFINE names == p.rib \cup {n}
           signed == IF Signable(p, n) THEN p.signed \cup {n} ELSE p.signed
           u == WithNames(p, names, signed)
           one == {n}
           new == Chosen(u, one) \ DOMAIN u.entries
           v == afterInsertRibEntry(u, one)
<1>1. p' = v /\ hub' = hub
  BY DEF InsertName, WithNames
<1>2. one = {n} /\ names = p.rib \cup {n} /\ IsPropagator(p)
  BY DEF Calm, Typed
<1> HIDE DEF names, signed, one
<1>3. /\ IsPropagator(u) /\ u.rib = p.rib \cup {n} /\ u.identities = p.identities
      /\ u.connected = p.connected /\ u.sent = p.sent /\ u.entries = p.entries
  <2>1. /\ IsPropagator(u) /\ u.rib = names /\ u.identities = p.identities
        /\ u.connected = p.connected /\ u.sent = p.sent /\ u.entries = p.entries
        /\ u.odd = p.odd
    BY <1>2, NamesSet
  <2> QED
    BY <1>2, <2>1
<1> HIDE DEF u
<1>4. Typed(u, hub)
  BY <1>3 DEF Calm, Typed
<1>5. Extended(u, v, new)
  BY <1>4, InsertEffect DEF Typed
<1>6. Chosen(u, u.rib) = DOMAIN u.entries \cup Chosen(u, one)
  <2>1. DOMAIN u.entries = Chosen(u, p.rib)
    BY <1>3, SameChosen DEF Calm
  <2> QED
    BY <1>3, <1>2, <2>1 DEF Chosen
<1>7. Chosen(u, one) \subseteq Identity
  BY <1>2, <1>4, ChosenFacts DEF Typed
<1>8. new \subseteq Identity /\ DOMAIN u.entries \cup new = Chosen(u, u.rib) /\ new \cap DOMAIN u.entries = {}
  BY <1>6, <1>7
<1> HIDE DEF new, v
<1>9. /\ SameSetting(u, v) /\ IsBag(v.sent)
      /\ v.entries \in [DOMAIN u.entries \cup new -> AnyEntry]
      /\ DOMAIN v.entries = DOMAIN u.entries \cup new
      /\ \A x \in DOMAIN u.entries : v.entries[x] = u.entries[x]
  BY <1>5 DEF Extended
<1>10. DOMAIN v.entries = Chosen(v, v.rib)
  BY <1>8, <1>9, SameChosen DEF SameSetting
<1>11. CASE u.connected
  <2>1. /\ \A x \in new : v.entries[x].status = "PROPAGATING"
        /\ DOMAIN v.sent = DOMAIN u.sent \cup AllSent("register", new)
    BY <1>5, <1>11 DEF Extended
  <2>2. \A x \in new : Sent("register", x, FALSE) \in LiveCommand
    BY <1>8 DEF Sent, LiveCommand
  <2>3. DOMAIN v.sent \subseteq LiveCommand
    BY <1>4, <2>1, <2>2 DEF Typed, AllSent
  <2>4. Typed(v, hub)
    BY <1>4, <1>9, <2>3 DEF Typed, SameSetting
  <2>5. ASSUME NEW x \in Identity PROVE Ledger(v.entries, DOMAIN v.sent, hub, x)
    <3>1. CASE x \in new
      <4>1. Sent("register", x, FALSE) \in DOMAIN v.sent
        BY <2>1, <3>1 DEF AllSent
      <4> QED
        BY <4>1 DEF Ledger
    <3>2. CASE x \notin new
      <4>1. Ledger(u.entries, DOMAIN u.sent, hub, x)
        BY <1>3, <1>11 DEF Calm
      <4>2. DOMAIN u.sent \subseteq DOMAIN v.sent
        BY <2>1
      <4> QED
        BY <1>9, <3>2, <4>1, <4>2 DEF Ledger
    <3> QED
      BY <3>1, <3>2
  <2>6. \A x \in DOMAIN v.entries : v.entries[x].status \in {"PROPAGATING", "PROPAGATED"}
    BY <1>3, <1>9, <1>11, <2>1 DEF Calm
  <2>7. v.connected
    BY <1>9, <1>11 DEF SameSetting
  <2> QED
    BY <1>1, <1>10, <2>4, <2>5, <2>6, <2>7 DEF Calm
<1>12. CASE ~u.connected
  <2>1. v.sent = u.sent /\ \A x \in new : v.entries[x].timer = "none"
    BY <1>5, <1>12 DEF Extended
  <2>2. Typed(v, hub)
    BY <1>4, <1>9, <2>1 DEF Typed, SameSetting
  <2>3. ~v.connected
    BY <1>9, <1>12 DEF SameSetting
  <2>4. DOMAIN v.sent = {} /\ hub = {}
    BY <1>3, <1>12, <2>1 DEF Calm
  <2>5. \A x \in DOMAIN v.entries : v.entries[x].timer = "none"
    BY <1>3, <1>9, <1>12, <2>1 DEF Calm
  <2> QED
    BY <1>1, <1>10, <2>2, <2>3, <2>4, <2>5 DEF Calm
<1> QED
  BY <1>11, <1>12

\* What is left without the entry of x. If it was PROPAGATED it is withdrawn.
LEMMA RibEraseCalm ==
    ASSUME NEW u, NEW h, Typed(u, h), NEW x \in DOMAIN u.entries, x \in Identity,
           Chosen(u, u.rib) = DOMAIN u.entries \ {x},
           u.connected =>
             /\ \A y \in DOMAIN u.entries : u.entries[y].status \in {"PROPAGATING", "PROPAGATED"}
             /\ \A y \in Identity : Ledger(u.entries, DOMAIN u.sent, h, y),
           ~u.connected =>
             DOMAIN u.sent = {} /\ h = {} /\ \A y \in DOMAIN u.entries : u.entries[y].timer = "none"
    PROVE  Calm(afterRibErase(u, x), h)
<1> DEFINE e == [y \in DOMAIN u.entries \ {x} |-> u.entries[y]]
           v == [u EXCEPT !.entries = e]
           q == "unregister"
           one == {x}
           w == SendCommands(v, q, one)
           r == afterRibErase(u, x)
<1>1. r = IF u.connected /\ u.entries[x].status = "PROPAGATED" THEN w ELSE v
  BY DEF afterRibErase, Forget, withdraw
<1>2. one = {x} /\ q = "unregister"
  OBVIOUS
<1>3. /\ e \in [DOMAIN u.entries \ {x} -> AnyEntry]
      /\ DOMAIN e = DOMAIN u.entries \ {x}
      /\ \A y \in DOMAIN e : e[y] = u.entries[y]
  BY DEF Typed
<1> HIDE DEF e, q, one
<1>4. SameSetting(u, v) /\ v.entries = e /\ v.sent = u.sent
  BY EntriesSet DEF Typed
<1> HIDE DEF v
<1>5. Typed(v, h) /\ DOMAIN v.entries = Chosen(v, v.rib)
  <2>1. Typed(v, h)
    BY <1>3, <1>4 DEF Typed, SameSetting
  <2>2. Chosen(v, v.rib) = Chosen(u, u.rib)
    BY <1>4, SameChosen DEF SameSetting
  <2> QED
    BY <1>3, <1>4, <2>1, <2>2
<1>6. CASE ~u.connected
  <2>1. r = v /\ ~v.connected
    BY <1>1, <1>4, <1>6 DEF SameSetting
  <2>2. DOMAIN v.sent = {} /\ h = {} /\ \A y \in DOMAIN v.entries : v.entries[y].timer = "none"
    BY <1>3, <1>4, <1>6
  <2> QED
    BY <1>5, <2>1, <2>2 DEF Calm
<1>7. CASE u.connected /\ u.entries[x].status # "PROPAGATED"
  <2>1. r = v /\ v.connected
    BY <1>1, <1>4, <1>7 DEF SameSetting
  <2>2. \A y \in Identity : Ledger(u.entries, DOMAIN u.sent, h, y)
    BY <1>7
  <2>3. \A y \in Identity : Ledger(v.entries, DOMAIN v.sent, h, y)
    BY <1>3, <1>4, <1>7, <2>2 DEF Ledger
  <2>4. \A y \in DOMAIN v.entries : v.entries[y].status \in {"PROPAGATING", "PROPAGATED"}
    BY <1>3, <1>4, <1>7
  <2> QED
    BY <1>5, <2>1, <2>3, <2>4 DEF Calm
<1>8. CASE u.connected /\ u.entries[x].status = "PROPAGATED"
  <2>1. r = w /\ v.connected
    BY <1>1, <1>4, <1>8 DEF SameSetting
  <2>2. SameSetting(v, w)
    BY <1>5, StartSame DEF Typed
  <2>3. IsPropagator(v) /\ v.connected /\ IsBag(v.sent)
    BY <1>5, <2>1 DEF Typed
  <2>4. /\ w.entries = v.entries
        /\ IsBag(w.sent)
        /\ DOMAIN w.sent = DOMAIN v.sent \cup AllSent(q, one)
    BY <2>3, SendEffect
  <2> HIDE DEF w
  <2>5. DOMAIN w.sent = DOMAIN u.sent \cup {Sent("unregister", x, FALSE)}
    BY <1>2, <1>4, <2>4 DEF AllSent
  <2>6. Sent("unregister", x, FALSE) \in LiveCommand
    BY DEF Sent, LiveCommand
  <2>7. DOMAIN w.sent \subseteq LiveCommand
    BY <2>5, <2>6 DEF Typed
  <2>8. Typed(w, h)
    BY <1>5, <2>2, <2>4, <2>7 DEF Typed, SameSetting
  <2>9. DOMAIN w.entries = Chosen(w, w.rib) /\ w.connected
    BY <1>5, <2>1, <2>2, <2>4, SameChosen DEF SameSetting
  <2>10. \A y \in Identity : Ledger(u.entries, DOMAIN u.sent, h, y)
    BY <1>8
  <2>11. ASSUME NEW y \in Identity PROVE Ledger(w.entries, DOMAIN w.sent, h, y)
    BY <1>3, <1>4, <2>4, <2>5, <2>10 DEF Ledger
  <2>12. \A y \in DOMAIN w.entries : w.entries[y].status \in {"PROPAGATING", "PROPAGATED"}
    BY <1>3, <1>4, <1>8, <2>4
  <2> QED
    BY <2>1, <2>8, <2>9, <2>11, <2>12 DEF Calm
<1> QED
  BY <1>6, <1>7, <1>8

LEMMA EraseNameCalm ==
    ASSUME Calm(p, hub), NEW n \in LocalName, EraseName(n)
    PROVE  Calm(p', hub')
<1> DEFINE names == p.rib \ {n}
           signed == p.signed \ {n}
           u == WithNames(p, names, signed)
           gone == {x \in getPrefixPropagationParameters(u, n) \cap DOMAIN u.entries :
                        \A m \in u.rib : getPrefixPropagationParameters(u, m) # {x}}
           v == afterEraseRibEntry(u, n)
<1>1. p' = v /\ hub' = hub /\ n \in p.rib
  BY DEF EraseName, WithNames
<1>2. names = p.rib \ {n} /\ IsPropagator(p)
  BY DEF Calm, Typed
<1>3. v = IF gone = {} THEN u ELSE afterRibErase(u, CHOOSE x \in gone : TRUE)
  BY DEF afterEraseRibEntry
<1> HIDE DEF names, signed, v
<1>4. /\ IsPropagator(u) /\ u.rib = names /\ u.identities = p.identities
      /\ u.connected = p.connected /\ u.sent = p.sent /\ u.entries = p.entries
      /\ u.odd = p.odd
  BY <1>2, NamesSet
<1> HIDE DEF u
<1>5. Typed(u, hub)
  BY <1>2, <1>4 DEF Calm, Typed
<1>6. DOMAIN u.entries = Chosen(u, u.rib \cup {n})
  <2>1. DOMAIN u.entries = Chosen(u, p.rib)
    BY <1>4, SameChosen DEF Calm
  <2> QED
    BY <1>1, <1>2, <1>4, <2>1
<1>7. DOMAIN u.entries = Chosen(u, u.rib) \cup getPrefixPropagationParameters(u, n)
  BY <1>6 DEF Chosen
<1>8. ASSUME NEW m \in u.rib \cup {n}, NEW x \in getPrefixPropagationParameters(u, m)
      PROVE  getPrefixPropagationParameters(u, m) = {x} /\ x \in Identity
  BY <1>5, ChosenOnce DEF Typed
<1>9. u.connected =>
        /\ \A y \in DOMAIN u.entries : u.entries[y].status \in {"PROPAGATING", "PROPAGATED"}
        /\ \A y \in Identity : Ledger(u.entries, DOMAIN u.sent, hub, y)
  BY <1>4 DEF Calm
<1>10. ~u.connected =>
         DOMAIN u.sent = {} /\ hub = {} /\ \A y \in DOMAIN u.entries : u.entries[y].timer = "none"
  BY <1>4 DEF Calm
<1>11. CASE gone = {}
  <2>1. getPrefixPropagationParameters(u, n) \subseteq Chosen(u, u.rib)
    BY <1>7, <1>11 DEF Chosen
  <2>2. DOMAIN u.entries = Chosen(u, u.rib)
    BY <1>7, <2>1
  <2> QED
    BY <1>1, <1>3, <1>5, <1>9, <1>10, <1>11, <2>2 DEF Calm
<1>12. CASE gone # {}
  <2> DEFINE x == CHOOSE x \in gone : TRUE
  <2>1. x \in gone
    BY <1>12
  <2>2. v = afterRibErase(u, x)
    BY <1>3, <1>12
  <2> HIDE DEF x
  <2>3. /\ x \in getPrefixPropagationParameters(u, n) /\ x \in DOMAIN u.entries
        /\ \A m \in u.rib : getPrefixPropagationParameters(u, m) # {x}
    BY <2>1
  <2>4. getPrefixPropagationParameters(u, n) = {x} /\ x \in Identity
    BY <1>8, <2>3
  <2>5. x \notin Chosen(u, u.rib)
    BY <1>8, <2>3 DEF Chosen
  <2>6. Chosen(u, u.rib) = DOMAIN u.entries \ {x}
    BY <1>7, <2>4, <2>5
  <2>7. Calm(afterRibErase(u, x), hub)
    BY <1>5, <1>9, <1>10, <2>3, <2>4, <2>6, RibEraseCalm
  <2> QED
    BY <1>1, <2>2, <2>7
<1> QED
  BY <1>11, <1>12

LEMMA ConnectedSet ==
    ASSUME NEW u, IsPropagator(u)
    PROVE  LET v == [u EXCEPT !.connected = TRUE]
           IN  /\ IsPropagator(v) /\ v.connected /\ v.rib = u.rib /\ v.identities = u.identities
               /\ v.sent = u.sent /\ v.entries = u.entries /\ v.odd = u.odd
<1> DEFINE c == TRUE
           v == [u EXCEPT !.connected = c]
<1>1. c \in BOOLEAN /\ c
  OBVIOUS
<1> HIDE DEF c
<1>2. v = [rib |-> u.rib, identities |-> u.identities, entries |-> u.entries,
           connected |-> c, sent |-> u.sent, signed |-> u.signed, odd |-> u.odd]
  BY DEF IsPropagator
<1>3. u.odd \in BOOLEAN
  BY DEF IsPropagator
<1> SUFFICES /\ IsPropagator(v) /\ v.connected /\ v.rib = u.rib /\ v.identities = u.identities
             /\ v.sent = u.sent /\ v.entries = u.entries /\ v.odd = u.odd
  BY DEF c
<1> HIDE DEF v
<1> QED
  BY <1>1, <1>2, <1>3 DEF IsPropagator

LEMMA ConnectHubCalm ==
    ASSUME Calm(p, hub), ConnectHub
    PROVE  Calm(p', hub')
<1> DEFINE u == [p EXCEPT !.connected = TRUE]
           X == DOMAIN u.entries
           v == redoPropagation(u, X)
<1>1. p' = v /\ hub' = hub /\ ~p.connected
  BY DEF ConnectHub, afterHubConnect
<1>2. /\ IsPropagator(u) /\ u.connected /\ u.rib = p.rib /\ u.identities = p.identities
      /\ u.sent = p.sent /\ u.entries = p.entries
  BY ConnectedSet DEF Calm, Typed
<1> HIDE DEF u
<1>3. Typed(u, hub)
  BY <1>2 DEF Calm, Typed
<1>4. X = Chosen(u, u.rib)
  BY <1>2, SameChosen DEF Calm
<1>5. \A x \in X : doesCurrentPropagatedPrefixWork(u, x)
  BY <1>3, <1>4, ChosenFacts DEF Typed
<1>6. X \subseteq DOMAIN u.entries
  OBVIOUS
<1>7. DOMAIN u.entries = Chosen(u, u.rib)
  BY <1>4
<1>8. IsBag(u.sent) /\ u.entries \in [DOMAIN u.entries -> AnyEntry]
  BY <1>3 DEF Typed
<1>9. \A x \in Identity \ X : Ledger(u.entries, DOMAIN u.sent, hub, x)
  BY <1>1 DEF Calm, Ledger
<1>10. \A x \in DOMAIN u.entries \ X : u.entries[x].status \in {"PROPAGATING", "PROPAGATED"}
  OBVIOUS
<1> HIDE DEF X
<1>11. Started(u, v, X)
  BY <1>2, <1>5, <1>6, <1>8, RedoEffect
<1> HIDE DEF v
<1>12. Calm(v, hub)
  BY <1>2, <1>3, <1>6, <1>7, <1>9, <1>10, <1>11, StartedCalm
<1> QED
  BY <1>1, <1>12

LEMMA TimerCalm ==
    ASSUME Calm(p, hub), NEW x, TimerRuns(x)
    PROVE  Calm(p', hub')
<1> DEFINE e == [p.entries EXCEPT ![x].timer = "none"]
           u == [p EXCEPT !.entries = e]
           X == {x}
           v == redoPropagation(u, X)
<1>1. p' = v /\ hub' = hub /\ x \in DOMAIN p.entries /\ p.entries[x].timer # "none"
  BY DEF TimerRuns
<1>2. p.connected
  BY <1>1 DEF Calm
<1>3. /\ e \in [DOMAIN p.entries -> AnyEntry]
      /\ \A y \in DOMAIN e : e[y].status = p.entries[y].status
  BY <1>1 DEF Calm, Typed, AnyEntry
<1> HIDE DEF e
<1>4. SameSetting(p, u) /\ u.entries = e /\ u.sent = p.sent
  BY EntriesSet DEF Calm, Typed
<1> HIDE DEF u
<1>5. IsPropagator(u) /\ u.connected /\ DOMAIN u.entries = DOMAIN p.entries
  BY <1>2, <1>3, <1>4 DEF SameSetting
<1>6. Typed(u, hub)
  BY <1>3, <1>4 DEF Calm, Typed, SameSetting
<1>7. DOMAIN u.entries = Chosen(u, u.rib)
  BY <1>4, <1>5, SameChosen DEF Calm, SameSetting
<1>8. X \subseteq DOMAIN u.entries
  BY <1>1, <1>5
<1>9. \A y \in X : doesCurrentPropagatedPrefixWork(u, y)
  <2>1. \A y \in Chosen(u, u.rib) : doesCurrentPropagatedPrefixWork(u, y)
    BY <1>6, ChosenFacts DEF Typed
  <2> QED
    BY <1>7, <1>8, <2>1
<1>10. IsBag(u.sent) /\ u.entries \in [DOMAIN u.entries -> AnyEntry]
  BY <1>6 DEF Typed
<1>11. \A y \in DOMAIN u.entries \ X : u.entries[y].status \in {"PROPAGATING", "PROPAGATED"}
  BY <1>2, <1>3, <1>4, <1>5 DEF Calm
<1>12. \A y \in Identity \ X : Ledger(u.entries, DOMAIN u.sent, hub, y)
  <2>1. \A y \in Identity : Ledger(p.entries, DOMAIN p.sent, hub, y)
    BY <1>2 DEF Calm
  <2> QED
    BY <1>3, <1>4, <1>5, <2>1 DEF Ledger
<1> HIDE DEF X
<1>13. Started(u, v, X)
  BY <1>5, <1>8, <1>9, <1>10, RedoEffect
<1> HIDE DEF v
<1>14. Calm(v, hub)
  BY <1>5, <1>6, <1>7, <1>8, <1>11, <1>12, <1>13, StartedCalm
<1> QED
  BY <1>1, <1>14

LEMMA SentSet ==
    ASSUME NEW u, IsPropagator(u), NEW z
    PROVE  LET v == [u EXCEPT !.sent = z]
           IN  SameSetting(u, v) /\ v.entries = u.entries /\ v.sent = z
BY DEF IsPropagator, SameSetting

\* Commands are told apart by what they ask for, for which prefix, and by whether they are done.
LEMMA SentDiffer ==
    ASSUME NEW c \in LiveCommand
    PROVE  /\ c = Sent(c.verb, c.prefix, c.done)
           /\ c.verb \in {"register", "unregister"} /\ c.prefix \in Identity /\ c.done \in BOOLEAN
           /\ \A verb, x, done : Sent(verb, x, done) = c =>
                                    verb = c.verb /\ x = c.prefix /\ done = c.done
<1>1. c = Sent(c.verb, c.prefix, c.done)
  BY DEF LiveCommand, Sent
<1>2. c.verb \in {"register", "unregister"} /\ c.prefix \in Identity /\ c.done \in BOOLEAN
  BY DEF LiveCommand
<1>3. ASSUME NEW verb, NEW x, NEW done, Sent(verb, x, done) = c
      PROVE  verb = c.verb /\ x = c.prefix /\ done = c.done
  BY <1>3 DEF Sent
<1> QED
  BY <1>1, <1>2, <1>3

\* Other prefixes do not notice that a command is answered or executed.
LEMMA LedgerOther ==
    ASSUME NEW c \in LiveCommand, NEW x, x # c.prefix, NEW entries, NEW newEntries,
           NEW cmds, NEW newCmds, NEW h, NEW newHub, Ledger(entries, cmds, h, x),
           \A d \in cmds : d # c => d \in newCmds,
           x \in DOMAIN newEntries <=> x \in DOMAIN entries,
           x \in DOMAIN entries => newEntries[x] = entries[x],
           x \in newHub <=> x \in h
    PROVE  Ledger(newEntries, newCmds, newHub, x)
<1>1. \A verb, done : Sent(verb, x, done) # c
  BY SentDiffer
<1>2. \A verb, done : Sent(verb, x, done) \in cmds => Sent(verb, x, done) \in newCmds
  BY <1>1
<1> QED
  BY <1>2 DEF Ledger

LEMMA ExecuteCalm ==
    ASSUME Calm(p, hub), NEW c \in DOMAIN p.sent, Execute(c)
    PROVE  Calm(p', hub')
<1> DEFINE d == [c EXCEPT !.done = TRUE]
           y == p.sent (-) SetToBag({c})
           D == {d}
           z == y (+) SetToBag(D)
           u == [p EXCEPT !.sent = z]
<1>1. p' = u /\ hub' = Executed(c) /\ ~c.done
  BY DEF Execute
<1>2. c \in LiveCommand
  BY DEF Calm, Typed
<1>3. /\ c = Sent(c.verb, c.prefix, c.done)
      /\ c.verb \in {"register", "unregister"} /\ c.prefix \in Identity /\ c.done \in BOOLEAN
  BY <1>2, SentDiffer
<1>4. d = Sent(c.verb, c.prefix, TRUE) /\ d \in LiveCommand
  <2> DEFINE b == TRUE
  <2>1. /\ c = [verb |-> c.verb, prefix |-> c.prefix, live |-> c.live, done |-> c.done]
        /\ c.live = TRUE
    BY <1>2 DEF LiveCommand
  <2>2. b \in BOOLEAN
    OBVIOUS
  <2> HIDE DEF b
  <2>3. [c EXCEPT !.done = b] = [verb |-> c.verb, prefix |-> c.prefix, live |-> c.live, done |-> b]
    BY <2>1
  <2>4. d = Sent(c.verb, c.prefix, b)
    BY <2>1, <2>3, Zenon DEF Sent, b
  <2>5. Sent(c.verb, c.prefix, b) \in LiveCommand
    BY <1>3, <2>2 DEF LiveCommand, Sent
  <2> QED
    BY <2>4, <2>5 DEF b
<1>5. D = {d}
  OBVIOUS
<1> HIDE DEF d, D
<1>6. /\ IsBag(y) /\ DOMAIN y \subseteq DOMAIN p.sent
      /\ \A g \in DOMAIN p.sent : g # c => g \in DOMAIN y
  BY BagLess DEF Calm, Typed
<1> HIDE DEF y
<1>7. IsBag(z) /\ DOMAIN z = DOMAIN y \cup D
  BY <1>6, BagMore
<1> HIDE DEF z
<1>8. SameSetting(p, u) /\ u.entries = p.entries /\ u.sent = z
  BY SentSet DEF Calm, Typed
<1> HIDE DEF u
<1>9. p.connected
  BY DEF Calm
<1>10. hub' \subseteq Identity
  BY <1>1, <1>3 DEF Executed, Calm, Typed
<1>11. DOMAIN z \subseteq LiveCommand
  BY <1>4, <1>5, <1>6, <1>7 DEF Calm, Typed
<1>12. Typed(u, hub')
  BY <1>7, <1>8, <1>10, <1>11 DEF Calm, Typed, SameSetting
<1>13. DOMAIN u.entries = Chosen(u, u.rib)
  BY <1>8, SameChosen DEF Calm, SameSetting
<1>14. ASSUME NEW x \in Identity PROVE Ledger(u.entries, DOMAIN u.sent, hub', x)
  <2>1. Ledger(p.entries, DOMAIN p.sent, hub, x)
    BY <1>9 DEF Calm
  <2>2. CASE x # c.prefix
    <3>1. x \in hub' <=> x \in hub
      BY <1>1, <2>2 DEF Executed
    <3>2. \A g \in DOMAIN p.sent : g # c => g \in DOMAIN u.sent
      BY <1>6, <1>7, <1>8
    <3> QED
      BY <1>2, <1>8, <2>1, <2>2, <3>1, <3>2, LedgerOther
  <2>3. CASE x = c.prefix /\ c.verb = "register"
    <3>1. x \in hub' /\ Sent("register", x, TRUE) \in DOMAIN u.sent
      BY <1>1, <1>4, <1>5, <1>7, <1>8, <2>3 DEF Executed
    <3> QED
      BY <3>1 DEF Ledger
  <2>4. CASE x = c.prefix /\ c.verb = "unregister"
    <3>1. x \notin hub' /\ Sent("unregister", x, TRUE) \in DOMAIN u.sent
      BY <1>1, <1>4, <1>5, <1>7, <1>8, <2>4 DEF Executed
    <3> QED
      BY <3>1 DEF Ledger
  <2> QED
    BY <1>3, <2>2, <2>3, <2>4
<1>15. u.connected /\ \A x \in DOMAIN u.entries : u.entries[x].status \in {"PROPAGATING", "PROPAGATED"}
  BY <1>8, <1>9 DEF Calm, SameSetting
<1>16. Calm(u, hub')
  BY <1>12, <1>13, <1>14, <1>15 DEF Calm
<1> QED
  BY <1>1, <1>16

\* The state after the answer to command c is taken from those under way.
LEMMA AnswerTaken ==
    ASSUME Calm(p, hub), NEW c \in DOMAIN p.sent, c.done
    PROVE  LET u == [p EXCEPT !.sent = @ (-) SetToBag({c})]
           IN  /\ Typed(u, hub) /\ SameSetting(p, u) /\ u.connected
               /\ u.entries = p.entries /\ DOMAIN u.entries = Chosen(u, u.rib)
               /\ \A d \in DOMAIN p.sent : d # c => d \in DOMAIN u.sent
               /\ c = Sent(c.verb, c.prefix, TRUE)
               /\ c.verb \in {"register", "unregister"} /\ c.prefix \in Identity
               /\ \A x \in DOMAIN u.entries :
                     u.entries[x].status \in {"PROPAGATING", "PROPAGATED"}
               /\ \A x \in Identity \ {c.prefix} : Ledger(u.entries, DOMAIN u.sent, hub, x)
<1> DEFINE y == p.sent (-) SetToBag({c})
           u == [p EXCEPT !.sent = y]
<1>1. c \in LiveCommand
  BY DEF Calm, Typed
<1>2. /\ c = Sent(c.verb, c.prefix, c.done)
      /\ c.verb \in {"register", "unregister"} /\ c.prefix \in Identity /\ c.done \in BOOLEAN
  BY <1>1, SentDiffer
<1>3. c.done = TRUE
  BY <1>2
<1>4. /\ IsBag(y) /\ DOMAIN y \subseteq DOMAIN p.sent
      /\ \A g \in DOMAIN p.sent : g # c => g \in DOMAIN y
  BY BagLess DEF Calm, Typed
<1> HIDE DEF y
<1>5. SameSetting(p, u) /\ u.entries = p.entries /\ u.sent = y
  BY SentSet DEF Calm, Typed
<1>6. p.connected
  BY DEF Calm
<1> HIDE DEF u
<1>7. Typed(u, hub)
  BY <1>4, <1>5 DEF Calm, Typed, SameSetting
<1>8. DOMAIN u.entries = Chosen(u, u.rib)
  BY <1>5, SameChosen DEF Calm, SameSetting
<1>9. u.connected /\ \A x \in DOMAIN u.entries : u.entries[x].status \in {"PROPAGATING", "PROPAGATED"}
  BY <1>5, <1>6 DEF Calm, SameSetting
<1>10. ASSUME NEW x \in Identity \ {c.prefix} PROVE Ledger(u.entries, DOMAIN u.sent, hub, x)
  <2>1. Ledger(p.entries, DOMAIN p.sent, hub, x)
    BY <1>6 DEF Calm
  <2>2. \A g \in DOMAIN p.sent : g # c => g \in DOMAIN u.sent
    BY <1>4, <1>5
  <2>3. x # c.prefix
    OBVIOUS
  <2> QED
    BY <1>1, <1>5, <2>1, <2>2, <2>3, LedgerOther
<1> QED
  BY <1>2, <1>3, <1>4, <1>5, <1>7, <1>8, <1>9, <1>10 DEF u, y

LEMMA SentApart ==
    ASSUME NEW x
    PROVE  /\ Sent("register", x, FALSE) # Sent("register", x, TRUE)
           /\ Sent("unregister", x, FALSE) # Sent("unregister", x, TRUE)
           /\ Sent("register", x, FALSE) # Sent("unregister", x, TRUE)
           /\ Sent("register", x, TRUE) # Sent("unregister", x, TRUE)
BY DEF Sent

LEMMA AnswerCalm ==
    ASSUME Calm(p, hub), NEW c \in DOMAIN p.sent, Answer(c)
    PROVE  Calm(p', hub')
<1> DEFINE u == [p EXCEPT !.sent = @ (-) SetToBag({c})]
           x == c.prefix
<1>1. /\ c.done /\ hub' = hub
      /\ c.verb = "register" => p' = afterPropagateSucceed(u, x)
      /\ c.verb # "register" => p' = afterRevokeSucceed(u, x)
  BY DEF Answer
<1>2. /\ Typed(u, hub) /\ SameSetting(p, u) /\ u.connected
      /\ u.entries = p.entries /\ DOMAIN u.entries = Chosen(u, u.rib)
      /\ \A d \in DOMAIN p.sent : d # c => d \in DOMAIN u.sent
      /\ c = Sent(c.verb, c.prefix, TRUE)
      /\ c.verb \in {"register", "unregister"} /\ c.prefix \in Identity
      /\ \A z \in DOMAIN u.entries :
            u.entries[z].status \in {"PROPAGATING", "PROPAGATED"}
      /\ \A z \in Identity \ {c.prefix} : Ledger(u.entries, DOMAIN u.sent, hub, z)
  BY <1>1, AnswerTaken
<1>3. c \in LiveCommand /\ IsPropagator(u) /\ IsBag(u.sent)
  BY <1>2 DEF Calm, Typed
<1>4. Ledger(p.entries, DOMAIN p.sent, hub, x) /\ x \in Identity
  BY <1>2 DEF Calm, SameSetting
<1> HIDE DEF u, x
<1>5. CASE c.verb = "register" /\ x \in DOMAIN u.entries
  <2> DEFINE done == [status |-> "PROPAGATED", timer |-> "refresh"]
             e == [u.entries EXCEPT ![x] = done]
             v == [u EXCEPT !.entries = e]
  <2>1. p' = v
    BY <1>1, <1>5 DEF afterPropagateSucceed, PropagatedEntry
  <2>2. /\ e \in [DOMAIN u.entries -> AnyEntry] /\ DOMAIN e = DOMAIN u.entries
        /\ e[x].status = "PROPAGATED"
        /\ \A z \in DOMAIN u.entries : z # x => e[z] = u.entries[z]
    BY <1>2, <1>5 DEF Typed, AnyEntry
  <2> HIDE DEF e
  <2>3. SameSetting(u, v) /\ v.entries = e /\ v.sent = u.sent
    BY <1>3, EntriesSet
  <2> HIDE DEF v
  <2>4. Typed(v, hub)
    BY <1>2, <2>2, <2>3 DEF Typed, SameSetting
  <2>5. DOMAIN v.entries = Chosen(v, v.rib)
    BY <1>2, <2>2, <2>3, SameChosen DEF SameSetting
  <2>6. ASSUME NEW z \in Identity PROVE Ledger(v.entries, DOMAIN v.sent, hub, z)
    <3>1. CASE z = x
      <4>1. Sent("register", x, FALSE) # c /\ Sent("unregister", x, TRUE) # c
        BY <1>2, <1>5, SentApart DEF x
      <4>2. Sent("register", x, FALSE) \in DOMAIN p.sent => Sent("register", x, FALSE) \in DOMAIN v.sent
        BY <1>2, <2>3, <4>1
      <4>3. Sent("unregister", x, TRUE) \in DOMAIN p.sent => Sent("unregister", x, TRUE) \in DOMAIN v.sent
        BY <1>2, <2>3, <4>1
      <4> QED
        BY <1>2, <1>4, <1>5, <2>2, <2>3, <3>1, <4>2, <4>3 DEF Ledger
    <3>2. CASE z # x
      <4>1. Ledger(u.entries, DOMAIN u.sent, hub, z)
        BY <1>2, <3>2 DEF x
      <4> QED
        BY <2>2, <2>3, <3>2, <4>1 DEF Ledger
    <3> QED
      BY <3>1, <3>2
  <2>7. v.connected /\ \A z \in DOMAIN v.entries : v.entries[z].status \in {"PROPAGATING", "PROPAGATED"}
    BY <1>2, <2>2, <2>3 DEF SameSetting
  <2>8. Calm(v, hub)
    BY <2>4, <2>5, <2>6, <2>7 DEF Calm
  <2> QED
    BY <1>1, <2>1, <2>8
<1>6. CASE c.verb = "register" /\ x \notin DOMAIN u.entries
  <2> DEFINE q == "unregister"
             one == {x}
             v == SendCommands(u, q, one)
  <2>1. p' = v
    BY <1>1, <1>6 DEF afterPropagateSucceed, withdraw
  <2>2. one = {x} /\ q = "unregister"
    OBVIOUS
  <2> HIDE DEF q, one
  <2>3. SameSetting(u, v)
    BY <1>3, StartSame
  <2>4. /\ v.entries = u.entries
        /\ IsBag(v.sent)
        /\ DOMAIN v.sent = DOMAIN u.sent \cup AllSent(q, one)
    BY <1>2, <1>3, SendEffect
  <2> HIDE DEF v
  <2>5. DOMAIN v.sent = DOMAIN u.sent \cup {Sent("unregister", x, FALSE)}
    BY <2>2, <2>4 DEF AllSent
  <2>6. Sent("unregister", x, FALSE) \in LiveCommand
    BY <1>4 DEF Sent, LiveCommand
  <2>7. DOMAIN v.sent \subseteq LiveCommand
    BY <1>2, <2>5, <2>6 DEF Typed
  <2>8. Typed(v, hub)
    BY <1>2, <2>3, <2>4, <2>7 DEF Typed, SameSetting
  <2>9. DOMAIN v.entries = Chosen(v, v.rib)
    BY <1>2, <2>3, <2>4, SameChosen DEF SameSetting
  <2>10. ASSUME NEW z \in Identity PROVE Ledger(v.entries, DOMAIN v.sent, hub, z)
    <3>1. CASE z = x
      BY <1>6, <2>4, <2>5, <3>1 DEF Ledger
    <3>2. CASE z # x
      <4>1. Ledger(u.entries, DOMAIN u.sent, hub, z)
        BY <1>2, <3>2 DEF x
      <4> QED
        BY <2>4, <2>5, <4>1 DEF Ledger
    <3> QED
      BY <3>1, <3>2
  <2>11. v.connected /\ \A z \in DOMAIN v.entries : v.entries[z].status \in {"PROPAGATING", "PROPAGATED"}
    BY <1>2, <2>3, <2>4 DEF SameSetting
  <2>12. Calm(v, hub)
    BY <2>8, <2>9, <2>10, <2>11 DEF Calm
  <2> QED
    BY <1>1, <2>1, <2>12
<1>7. CASE c.verb = "unregister" /\ x \in DOMAIN u.entries
  <2> DEFINE X == {x}
             v == startPropagation(u, X)
  <2>1. p' = v
    BY <1>1, <1>2, <1>7 DEF afterRevokeSucceed
  <2>2. X = {x}
    OBVIOUS
  <2> HIDE DEF X
  <2>3. Started(u, v, X)
    BY <1>2, <1>3, StartEffect
  <2> HIDE DEF v
  <2>4. \A z \in Identity \ X : Ledger(u.entries, DOMAIN u.sent, hub, z)
    BY <1>2, <2>2 DEF x
  <2>5. X \subseteq DOMAIN u.entries
    BY <1>7, <2>2
  <2>6. \A z \in DOMAIN u.entries \ X : u.entries[z].status \in {"PROPAGATING", "PROPAGATED"}
    BY <1>2
  <2>7. Calm(v, hub)
    BY <1>2, <2>3, <2>4, <2>5, <2>6, StartedCalm
  <2> QED
    BY <1>1, <2>1, <2>7
<1>8. CASE c.verb = "unregister" /\ x \notin DOMAIN u.entries
  <2>1. p' = u
    BY <1>1, <1>8 DEF afterRevokeSucceed
  <2>2. ASSUME NEW z \in Identity PROVE Ledger(u.entries, DOMAIN u.sent, hub, z)
    <3>1. CASE z = x
      <4>1. /\ Sent("register", x, FALSE) # c /\ Sent("register", x, TRUE) # c
            /\ Sent("unregister", x, FALSE) # c
        BY <1>2, <1>8, SentApart DEF x
      <4>2. /\ Sent("register", x, FALSE) \in DOMAIN p.sent => Sent("register", x, FALSE) \in DOMAIN u.sent
            /\ Sent("register", x, TRUE) \in DOMAIN p.sent => Sent("register", x, TRUE) \in DOMAIN u.sent
            /\ Sent("unregister", x, FALSE) \in DOMAIN p.sent => Sent("unregister", x, FALSE) \in DOMAIN u.sent
        BY <1>2, <4>1
      <4> QED
        BY <1>2, <1>4, <1>8, <3>1, <4>2 DEF Ledger
    <3>2. CASE z # x
      BY <1>2, <3>2 DEF x
    <3> QED
      BY <3>1, <3>2
  <2> QED
    BY <1>1, <1>2, <2>1, <2>2 DEF Calm
<1> QED
  BY <1>2, <1>5, <1>6, <1>7, <1>8

(***************************************************************************)
(* All steps of the propagator                                             *)
(***************************************************************************)
PropagatorInv ==
    /\ IsPropagator(p)
    /\ nLost \in Nat
    /\ ~p.odd /\ nLost = 0 => Calm(p, hub)

LEMMA DisconnectOdd ==
    ASSUME IsPropagator(p), NEW linkLost \in BOOLEAN, DisconnectHub(linkLost)
    PROVE  IsPropagator(p') /\ p'.odd
<1>1. PICK z : p' = afterHubDisconnect([p EXCEPT !.connected = FALSE, !.odd = TRUE, !.sent = z])
  BY Zenon DEF DisconnectHub
<1> DEFINE no == FALSE
           yes == TRUE
           u == [p EXCEPT !.connected = no, !.odd = yes, !.sent = z]
           e == [x \in DOMAIN u.entries |-> PropagatedEntry("NEW", "none")]
<1>2. p' = [u EXCEPT !.entries = e]
  BY <1>1 DEF afterHubDisconnect
<1>3. no \in BOOLEAN /\ yes \in BOOLEAN /\ yes
  OBVIOUS
<1> HIDE DEF no, yes, e
<1>4. u = [rib |-> p.rib, identities |-> p.identities, entries |-> p.entries,
           connected |-> no, sent |-> z, signed |-> p.signed, odd |-> yes]
  <2> DEFINE v == [p EXCEPT !.connected = no]
             w == [v EXCEPT !.odd = yes]
  <2>1. u = [w EXCEPT !.sent = z]
    OBVIOUS
  <2>2. v = [rib |-> p.rib, identities |-> p.identities, entries |-> p.entries,
             connected |-> no, sent |-> p.sent, signed |-> p.signed, odd |-> p.odd]
    BY DEF IsPropagator
  <2> HIDE DEF v, u
  <2>3. w = [rib |-> p.rib, identities |-> p.identities, entries |-> p.entries,
             connected |-> no, sent |-> p.sent, signed |-> p.signed, odd |-> yes]
    BY <2>2
  <2> HIDE DEF w
  <2> QED
    BY <2>1, <2>3
<1> HIDE DEF u
<1>5. IsPropagator(u) /\ u.odd
  BY <1>3, <1>4 DEF IsPropagator
<1>6. SameSetting(u, [u EXCEPT !.entries = e])
  BY <1>5, EntriesSet
<1> QED
  BY <1>2, <1>5, <1>6 DEF SameSetting

LEMMA ChangeIdentitiesOdd ==
    ASSUME IsPropagator(p), NEW i, ChangeIdentities(i)
    PROVE  IsPropagator(p') /\ p'.odd
<1> DEFINE yes == TRUE
           ids == IF i \in p.identities THEN p.identities \ {i} ELSE p.identities \cup {i}
           u == [p EXCEPT !.identities = ids, !.odd = yes]
           s == {n \in u.signed : Signable(u, n)}
<1>1. p' = [u EXCEPT !.signed = s]
  BY DEF ChangeIdentities
<1>2. yes \in BOOLEAN /\ yes /\ p.connected \in BOOLEAN
  BY DEF IsPropagator
<1> HIDE DEF yes, ids, s
<1>3. u = [rib |-> p.rib, identities |-> ids, entries |-> p.entries,
           connected |-> p.connected, sent |-> p.sent, signed |-> p.signed, odd |-> yes]
  <2> DEFINE v == [p EXCEPT !.identities = ids]
  <2>1. u = [v EXCEPT !.odd = yes]
    OBVIOUS
  <2>2. v = [rib |-> p.rib, identities |-> ids, entries |-> p.entries,
             connected |-> p.connected, sent |-> p.sent, signed |-> p.signed, odd |-> p.odd]
    BY DEF IsPropagator
  <2> HIDE DEF v, u
  <2> QED
    BY <2>1, <2>2
<1> HIDE DEF u
<1>4. p' = [rib |-> p.rib, identities |-> ids, entries |-> p.entries,
            connected |-> p.connected, sent |-> p.sent, signed |-> s, odd |-> yes]
  BY <1>1, <1>3
<1> QED
  BY <1>2, <1>4 DEF IsPropagator

\* A step leaves the history of odd events and lost commands alone or adds to it.
LEMMA HistoryGrows ==
    ASSUME IsPropagator(p), nLost \in Nat, PropagatorNext
    PROVE  /\ IsPropagator(p') /\ nLost' \in Nat
           /\ p.odd => p'.odd
           /\ nLost # 0 => nLost' # 0
<1>1. ASSUME NEW n \in LocalName, InsertName(n) PROVE IsPropagator(p') /\ p'.odd = p.odd /\ nLost' = nLost
  <2> DEFINE names == p.rib \cup {n}
             signed == IF Signable(p, n) THEN p.signed \cup {n} ELSE p.signed
             u == WithNames(p, names, signed)
             one == {n}
  <2>1. p' = afterInsertRibEntry(u, one) /\ nLost' = nLost
    BY <1>1 DEF InsertName, WithNames, Change
  <2> HIDE DEF names, signed, one
  <2>2. /\ IsPropagator(u) /\ u.rib = names /\ u.identities = p.identities
        /\ u.connected = p.connected /\ u.sent = p.sent /\ u.entries = p.entries
        /\ u.odd = p.odd
    BY NamesSet
  <2> HIDE DEF u
  <2>3. SameSetting(u, afterInsertRibEntry(u, one))
    BY <2>2, InsertSame
  <2> QED
    BY <2>1, <2>2, <2>3 DEF SameSetting
<1>2. ASSUME NEW n \in LocalName, EraseName(n) PROVE IsPropagator(p') /\ p'.odd = p.odd /\ nLost' = nLost
  <2> DEFINE names == p.rib \ {n}
             signed == p.signed \ {n}
             u == WithNames(p, names, signed)
  <2>1. p' = afterEraseRibEntry(u, n) /\ nLost' = nLost
    BY <1>2 DEF EraseName, WithNames, Change
  <2> HIDE DEF names, signed
  <2>2. /\ IsPropagator(u) /\ u.rib = names /\ u.identities = p.identities
        /\ u.connected = p.connected /\ u.sent = p.sent /\ u.entries = p.entries
        /\ u.odd = p.odd
    BY NamesSet
  <2> HIDE DEF u
  <2>3. SameSetting(u, afterEraseRibEntry(u, n))
    BY <2>2, EraseSame
  <2> QED
    BY <2>1, <2>2, <2>3 DEF SameSetting
<1>3. ASSUME ConnectHub PROVE IsPropagator(p') /\ p'.odd = p.odd /\ nLost' = nLost
  <2> DEFINE u == [p EXCEPT !.connected = TRUE]
             X == DOMAIN u.entries
  <2>1. p' = redoPropagation(u, X) /\ nLost' = nLost
    BY <1>3 DEF ConnectHub, afterHubConnect, Change
  <2>2. IsPropagator(u) /\ u.odd = p.odd
    BY ConnectedSet
  <2> HIDE DEF u
  <2>3. SameSetting(u, redoPropagation(u, X))
    BY <2>2, RedoSame
  <2> QED
    BY <2>1, <2>2, <2>3 DEF SameSetting
<1>4. ASSUME NEW c, Execute(c) PROVE IsPropagator(p') /\ p'.odd = p.odd /\ nLost' = nLost
  <2> DEFINE z == (p.sent (-) SetToBag({c})) (+) SetToBag({[c EXCEPT !.done = TRUE]})
  <2>1. p' = [p EXCEPT !.sent = z] /\ nLost' = nLost
    BY <1>4 DEF Execute
  <2> HIDE DEF z
  <2> QED
    BY <2>1, SentSet DEF SameSetting
<1>5. ASSUME NEW c, Answer(c) \/ FailCommand(c)
      PROVE  IsPropagator(p') /\ p'.odd = p.odd /\ nLost' \in {nLost, nLost + 1}
  <2> DEFINE z == p.sent (-) SetToBag({c})
             u == [p EXCEPT !.sent = z]
             x == c.prefix
  <2>1. /\ p' \in {afterPropagateSucceed(u, x), afterRevokeSucceed(u, x), afterPropagateFail(u, x), u}
        /\ nLost' \in {nLost, nLost + 1}
    BY <1>5 DEF Answer, FailCommand, afterRevokeFail
  <2> HIDE DEF z, x
  <2>2. SameSetting(p, u) /\ IsPropagator(u)
    BY SentSet DEF SameSetting
  <2> HIDE DEF u
  <2>3. /\ SameSetting(u, afterPropagateSucceed(u, x))
        /\ SameSetting(u, afterPropagateFail(u, x))
        /\ SameSetting(u, afterRevokeSucceed(u, x))
    BY <2>2, AnswerSame
  <2> QED
    BY <2>1, <2>2, <2>3 DEF SameSetting
<1>6. ASSUME NEW x, TimerRuns(x) PROVE IsPropagator(p') /\ p'.odd = p.odd /\ nLost' = nLost
  <2> DEFINE e == [p.entries EXCEPT ![x].timer = "none"]
             u == [p EXCEPT !.entries = e]
             X == {x}
  <2>1. p' = redoPropagation(u, X) /\ nLost' = nLost
    BY <1>6 DEF TimerRuns
  <2> HIDE DEF e, X
  <2>2. SameSetting(p, u) /\ IsPropagator(u)
    BY EntriesSet DEF SameSetting
  <2> HIDE DEF u
  <2>3. SameSetting(u, redoPropagation(u, X))
    BY <2>2, RedoSame
  <2> QED
    BY <2>1, <2>2, <2>3 DEF SameSetting
<1>7. ASSUME NEW linkLost \in BOOLEAN, DisconnectHub(linkLost)
      PROVE  IsPropagator(p') /\ p'.odd /\ nLost' = nLost
  <2>1. nLost' = nLost
    BY <1>7, Zenon DEF DisconnectHub, Change
  <2> QED
    BY <1>7, <2>1, DisconnectOdd
<1>8. ASSUME NEW i, ChangeIdentities(i) PROVE IsPropagator(p') /\ p'.odd /\ nLost' = nLost
  <2>1. nLost' = nLost
    BY <1>8 DEF ChangeIdentities, Change
  <2> QED
    BY <1>8, <2>1, ChangeIdentitiesOdd
<1> QED
  BY <1>1, <1>2, <1>3, <1>4, <1>5, <1>6, <1>7, <1>8 DEF PropagatorNext

LEMMA NextPropagatorInv ==
    ASSUME PropagatorInv, [PropagatorNext]_propagatorVars
    PROVE  PropagatorInv'
<1>1. CASE UNCHANGED propagatorVars
  <2>1. p' = p /\ hub' = hub /\ nLost' = nLost
    BY <1>1 DEF propagatorVars
  <2> QED
    BY <2>1 DEF PropagatorInv
<1>2. CASE PropagatorNext
  <2>1. /\ IsPropagator(p') /\ nLost' \in Nat
        /\ p.odd => p'.odd
        /\ nLost # 0 => nLost' # 0
    BY <1>2, HistoryGrows DEF PropagatorInv
  <2>2. ASSUME ~p'.odd, nLost' = 0 PROVE Calm(p', hub')
    <3>1. Calm(p, hub) /\ IsPropagator(p) /\ nLost \in Nat
      BY <2>1, <2>2 DEF PropagatorInv
    <3>2. ASSUME NEW c \in DOMAIN p.sent, FailCommand(c) PROVE FALSE
      <4>1. c.live
        BY <3>1 DEF Calm, Typed, LiveCommand
      <4>2. nLost' = nLost + 1
        BY <3>2, <4>1 DEF FailCommand
      <4> QED
        BY <2>2, <3>1, <4>2
    <3>3. ASSUME NEW linkLost \in BOOLEAN, DisconnectHub(linkLost) PROVE FALSE
      BY <2>2, <3>1, <3>3, DisconnectOdd
    <3>4. ASSUME NEW i, ChangeIdentities(i) PROVE FALSE
      BY <2>2, <3>1, <3>4, ChangeIdentitiesOdd
    <3>5. CASE \E n \in LocalName : InsertName(n) \/ EraseName(n)
      BY <3>1, <3>5, InsertNameCalm, EraseNameCalm
    <3>6. CASE ConnectHub
      BY <3>1, <3>6, ConnectHubCalm
    <3>7. CASE \E c \in DOMAIN p.sent : Execute(c) \/ Answer(c)
      BY <3>1, <3>7, ExecuteCalm, AnswerCalm
    <3>8. CASE \E x \in Identity : TimerRuns(x)
      BY <3>1, <3>8, TimerCalm
    <3> QED
      BY <1>2, <3>2, <3>3, <3>4, <3>5, <3>6, <3>7, <3>8 DEF PropagatorNext
  <2> QED
    BY <2>1, <2>2 DEF PropagatorInv
<1> QED
  BY <1>1, <1>2

(* As long as no command was lost, the hub stayed connected and the identities the
   same, the hub has exactly the prefixes that the names in the RIB need whenever no
   command of AutoPrefixPropagator is under way, for any names, identities and number
   of insertions and erasures, however these crossed with executions and answers. *)
THEOREM PropagationFollows == PropagatorSpec => []HubFollowsNames
<1>1. PropagatorInit => PropagatorInv
  BY InitCalm DEF PropagatorInv, Calm, Typed
<1>2. PropagatorInv /\ [PropagatorNext]_propagatorVars => PropagatorInv'
  BY NextPropagatorInv
<1>3. PropagatorInv => HubFollowsNames
  <2> SUFFICES ASSUME PropagatorInv, p.connected, ~p.odd, nLost = 0, p.sent = EmptyBag
               PROVE  hub = Wanted(p.rib)
    BY DEF HubFollowsNames
  <2>1. Calm(p, hub)
    BY DEF PropagatorInv
  <2>2. DOMAIN p.sent = {}
    BY DEF EmptyBag, SetToBag
  <2>3. \A x \in Identity : x \in hub <=> x \in DOMAIN p.entries
    BY <2>1, <2>2 DEF Calm, Ledger
  <2>4. DOMAIN p.entries = Chosen(p, p.rib) /\ hub \subseteq Identity
    BY <2>1 DEF Calm, Typed
  <2>5. Chosen(p, p.rib) \subseteq Identity
    BY <2>1, ChosenFacts DEF Calm, Typed
  <2>6. Chosen(p, p.rib) = Wanted(p.rib)
    BY DEF Chosen, Wanted
  <2> QED
    BY <2>3, <2>4, <2>5, <2>6
<1> QED
  BY <1>1, <1>2, <1>3, PTL DEF PropagatorSpec

=============================================================================
