--------------------------- MODULE DeadNonceList ---------------------------
(***************************************************************************)
(* The Dead Nonce List, daemon/table/dead-nonce-list: a queue of hashes of *)
(* name and Nonce without timestamps. A MARK is pushed at fixed intervals, *)
(* so the number of MARKs in the queue tells how long entries live, and    *)
(* the capacity is adjusted once per lifetime to keep that number at       *)
(* EXPECTED_MARK_COUNT.                                                    *)
(*                                                                         *)
(* The unit of time is the mark interval. Timers that are due run before   *)
(* time passes, in either order; packets are handled in between.           *)
(***************************************************************************)
EXTENDS Integers, Sequences, FiniteSets

CONSTANTS
    Entry,                          \* hashes of name and Nonce, other than MARK
    MARK,
    INITIAL_CAPACITY, MIN_CAPACITY, MAX_CAPACITY,
    EXPECTED_MARK_COUNT,
    EVICT_LIMIT

\* The static assertions of the destructor. EVICT_LIMIT is 64 in the code and
\* EXPECTED_MARK_COUNT 5: an eviction keeps up with the MARKs of one lifetime.
ASSUME DnlAssumption ==
    /\ MARK \notin Entry
    /\ MIN_CAPACITY \in Nat \ {0} /\ INITIAL_CAPACITY \in Nat /\ MAX_CAPACITY \in Nat
    /\ MIN_CAPACITY <= INITIAL_CAPACITY /\ INITIAL_CAPACITY <= MAX_CAPACITY
    /\ (MIN_CAPACITY * 6) \div 5 > MIN_CAPACITY
    /\ EXPECTED_MARK_COUNT \in Nat \ {0}
    /\ EXPECTED_MARK_COUNT <= MIN_CAPACITY
    /\ EVICT_LIMIT \in Nat
    /\ EVICT_LIMIT > EXPECTED_MARK_COUNT

VARIABLES
    queue,              \* m_queue, oldest first; m_ht is its index by value
    capacity,           \* m_capacity
    actualMarkCounts,   \* the values in m_actualMarkCounts
    markIn, adjustIn,   \* mark intervals until m_markEvent, m_adjustCapacityEvent
    age                 \* history: elements pushed since an entry was last added,
                        \* at most MIN_CAPACITY

vars == <<queue, capacity, actualMarkCounts, markIn, adjustIn, age>>

\* What the list promises to loop detection, see ImplementsNonceSet.
Abstract == INSTANCE NonceSet WITH
    dnl <- {queue[i] : i \in 1 .. Len(queue)} \ {MARK},
    Retention <- MIN_CAPACITY

TypeOK ==
    /\ queue \in Seq(Entry \cup {MARK})
    /\ capacity \in MIN_CAPACITY .. MAX_CAPACITY
    /\ actualMarkCounts \subseteq Nat
    /\ markIn \in 0 .. 1
    /\ adjustIn \in 0 .. EXPECTED_MARK_COUNT
    /\ age \in [Entry -> 0 .. MIN_CAPACITY]

Init ==
    /\ queue = [i \in 1 .. EXPECTED_MARK_COUNT |-> MARK]
    /\ capacity = INITIAL_CAPACITY
    /\ actualMarkCounts = {}
    /\ markIn = 1
    /\ adjustIn = EXPECTED_MARK_COUNT
    /\ age = [x \in Entry |-> MIN_CAPACITY]

countMarks(q) == Cardinality({i \in 1 .. Len(q) : q[i] = MARK})

\* Mutant: the newest elements go.
EvictNewest(q, c) == IF Len(q) <= c THEN q ELSE SubSeq(q, 1, c)

\* At most EVICT_LIMIT of the oldest entries go at a time.
evictEntries(q, c) ==
    LET nOverCapacity == Len(q) - c
        nEvict == IF nOverCapacity <= EVICT_LIMIT THEN nOverCapacity ELSE EVICT_LIMIT
    IN  IF nOverCapacity <= 0 THEN q ELSE SubSeq(q, nEvict + 1, Len(q))

\* Mutant: counts equal to EXPECTED_MARK_COUNT call for an adjustment too, so that
\* there is no count at which the capacity rests.
AdjustWithoutRest(c, counts) ==
    IF \A n \in counts : n >= EXPECTED_MARK_COUNT
    THEN IF (c * 9) \div 10 >= MIN_CAPACITY THEN (c * 9) \div 10 ELSE MIN_CAPACITY
    ELSE IF (c * 6) \div 5 <= MAX_CAPACITY THEN (c * 6) \div 5 ELSE MAX_CAPACITY

\* Mutant: the capacity is raised when all counts are above the expected one.
AdjustSwapped(c, counts) ==
    IF \A n \in counts : n < EXPECTED_MARK_COUNT
    THEN IF (c * 9) \div 10 >= MIN_CAPACITY THEN (c * 9) \div 10 ELSE MIN_CAPACITY
    ELSE IF \A n \in counts : n > EXPECTED_MARK_COUNT
    THEN IF (c * 6) \div 5 <= MAX_CAPACITY THEN (c * 6) \div 5 ELSE MAX_CAPACITY
    ELSE c

\* CAPACITY_UP is 1.2, CAPACITY_DOWN is 0.9. With no count at all, "all counts are
\* above expected count" holds and the capacity goes down.
AdjustedCapacity(c, counts) ==
    LET down == (c * 9) \div 10
        up == (c * 6) \div 5
    IN  IF \A n \in counts : n > EXPECTED_MARK_COUNT
        THEN IF down >= MIN_CAPACITY THEN down ELSE MIN_CAPACITY
        ELSE IF \A n \in counts : n < EXPECTED_MARK_COUNT
        THEN IF up <= MAX_CAPACITY THEN up ELSE MAX_CAPACITY
        ELSE c

add(x) ==
    /\ queue' = evictEntries(Append(queue, x), capacity)
    /\ age' = [y \in Entry |-> IF y = x THEN 0 ELSE Abstract!Older(age[y])]
    /\ UNCHANGED <<capacity, actualMarkCounts, markIn, adjustIn>>

mark ==
    /\ markIn = 0
    /\ queue' = Append(queue, MARK)
    /\ actualMarkCounts' = actualMarkCounts \cup {countMarks(queue')}
    /\ markIn' = 1
    /\ age' = [y \in Entry |-> Abstract!Older(age[y])]
    /\ UNCHANGED <<capacity, adjustIn>>

\* Mutant: the list is only trimmed when an entry is added.
AdjustWithoutEviction ==
    /\ adjustIn = 0
    /\ capacity' = AdjustedCapacity(capacity, actualMarkCounts)
    /\ actualMarkCounts' = {}
    /\ adjustIn' = EXPECTED_MARK_COUNT
    /\ UNCHANGED <<queue, markIn, age>>

adjustCapacity ==
    /\ adjustIn = 0
    /\ capacity' = AdjustedCapacity(capacity, actualMarkCounts)
    /\ actualMarkCounts' = {}
    /\ queue' = evictEntries(queue, capacity')
    /\ adjustIn' = EXPECTED_MARK_COUNT
    /\ UNCHANGED <<markIn, age>>

Tick ==
    /\ markIn > 0 /\ adjustIn > 0
    /\ markIn' = markIn - 1
    /\ adjustIn' = adjustIn - 1
    /\ UNCHANGED <<queue, capacity, actualMarkCounts, age>>

Next == mark \/ adjustCapacity \/ Tick \/ \E x \in Entry : add(x)

Spec == Init /\ [][Next]_vars

-----------------------------------------------------------------------------
(* Properties *)

\* Memory stays bounded: between two evictions by adjustCapacity at most
\* EXPECTED_MARK_COUNT + 1 MARKs are pushed, which is all that the queue may hold
\* beyond MAX_CAPACITY.
QueueBounded == Len(queue) <= MAX_CAPACITY + EXPECTED_MARK_COUNT + 1

\* An entry is found from the moment it is added until at least MIN_CAPACITY newer
\* elements were pushed, though an eviction may be limited, lag behind the capacity
\* or follow a cut of it; and no entry appears that was not added.
ImplementsNonceSet == Abstract!Spec

=============================================================================
