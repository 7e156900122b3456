---------------------------- MODULE ContentStore ----------------------------
(***************************************************************************)
(* The Content Store: the table (daemon/table/cs.cpp, cs-entry.cpp) and    *)
(* its replacement policies (cs-policy.cpp, cs-policy-lru.cpp,             *)
(* cs-policy-priority-fifo.cpp), with the commands of CsManager and of the *)
(* tables section of the configuration that change them.                   *)
(*                                                                         *)
(* A policy keeps the entries of the table in cleanup queues: lru in one,  *)
(* priority_fifo in three. The move of an entry from the fifo queue to the *)
(* stale queue is a timer, which runs some time after it is due.           *)
(***************************************************************************)
EXTENDS CsLookup, Lists

CONSTANTS
    Limit,       \* capacities that management may set
    EraseCount,  \* counts of an erase command
    ERASE_LIMIT,
    MaxTime      \* bound: no Data is inserted that becomes stale later

ASSUME ContentStoreAssumption ==
    /\ Limit \subseteq Nat
    /\ EraseCount \subseteq Nat
    /\ ERASE_LIMIT \in Nat
    /\ MaxTime \in Nat

QueueType == {"lru", "unsolicited", "stale", "fifo"}
PolicyName == {"lru", "priority_fifo"}

VARIABLES
    now,        \* steady_clock::now(), in ticks
    table,      \* m_table: Data |-> [staleTime, unsolicited]
    policy,     \* the name of m_policy
    limit,      \* m_policy's m_limit
    queues,     \* the cleanup queues of m_policy, front first
    moveStale,  \* Data |-> when its moveStaleEventId is due
    admit,      \* m_shouldAdmit
    serve       \* m_shouldServe

vars == <<now, table, policy, limit, queues, moveStale, admit, serve>>

Stored == DOMAIN table

Put(m, x, y) == [z \in DOMAIN m \cup {x} |-> IF z = x THEN y ELSE m[z]]

EmptyQueues == [q \in QueueType |-> <<>>]

Init ==
    /\ now = 0
    /\ table = [d \in {} |-> 0]
    /\ policy = "lru"
    /\ limit \in Limit
    /\ queues = EmptyQueues
    /\ moveStale = [d \in {} |-> 0]
    /\ admit = TRUE
    /\ serve = TRUE

-----------------------------------------------------------------------------
(* The replacement policies *)

Without(m, S) == [d \in DOMAIN m \ S |-> m[d]]

detachQueue(Q, S) == [q \in QueueType |-> SeqWithout(Q[q], S)]

attachQueue(Q, q, d) == [Q EXCEPT ![q] = Append(@, d)]

\* Mutant: an entry that is refreshed or moved stays in its old place too.
MoveWithoutDetach(Q, q, d) == attachQueue(Q, q, d)

\* What doAfterInsert, doAfterRefresh, doBeforeUse and moveToStaleQueue do to queues.
MoveToQueue(Q, q, d) == attachQueue(detachQueue(Q, {d}), q, d)

\* Mutant: the timer of an entry that is refreshed is not started again.
TimersKept(q, d, at) ==
    IF q = "fifo" /\ d \notin DOMAIN moveStale THEN Put(moveStale, d, at) ELSE moveStale

\* The timer of an entry that is refreshed is cancelled, and a new one is started if
\* the entry goes to the fifo queue.
TimersAfter(q, d, at) == IF q = "fifo" THEN Put(moveStale, d, at) ELSE Without(moveStale, {d})

\* Queues that an entry may be attached to. The clock is read again to tell whether
\* the entry is stale already, so that one without freshness may be either.
QueuesFor(d, entry) ==
    IF policy = "lru" THEN {"lru"}
    ELSE IF entry.unsolicited THEN {"unsolicited"}
    ELSE IF d.freshness = 0 THEN {"stale", "fifo"}
    ELSE {"fifo"}

\* Mutant: stale entries are evicted before unsolicited ones.
StaleFirst(Q) == Q["lru"] \o Q["stale"] \o Q["unsolicited"] \o Q["fifo"]

\* The order in which evictEntries of either policy takes entries.
EvictionOrder(Q) == Q["lru"] \o Q["unsolicited"] \o Q["stale"] \o Q["fifo"]

Evicted(Q, size, n) ==
    LET order == EvictionOrder(Q) IN
    IF size <= n THEN {} ELSE {order[i] : i \in 1 .. size - n}

-----------------------------------------------------------------------------
(* Cs *)

\* Unsolicited Data refreshes a solicited entry but does not make it unsolicited.
\* A new entry may be evicted at once, a refresh evicts nothing.
insert(d, isUnsolicited, noCache) ==
    LET isNewEntry == d \notin Stored
        entry == [staleTime |-> now + d.freshness,
                  unsolicited |-> isUnsolicited /\ (isNewEntry \/ table[d].unsolicited)]
        full == Put(table, d, entry)
    IN  /\ admit /\ limit # 0 /\ ~noCache
        /\ now + d.freshness <= MaxTime
        /\ \E q \in QueuesFor(d, entry) :
            LET Q == MoveToQueue(queues, q, d)
                gone == IF isNewEntry THEN Evicted(Q, Cardinality(DOMAIN full), limit) ELSE {}
            IN  /\ table' = Without(full, gone)
                /\ queues' = detachQueue(Q, gone)
                /\ moveStale' = Without(TimersAfter(q, d, entry.staleTime), gone)
        /\ UNCHANGED <<now, policy, limit, admit, serve>>

\* Data that is not admitted, or that says NO_CACHE, leaves the store as it is, even
\* if the store holds it.
InsertRefused(noCache) ==
    /\ ~admit \/ limit = 0 \/ noCache
    /\ UNCHANGED vars

\* The first n Data of the table whose full names are under the prefix.
FirstUnder(prefix, n) ==
    LET s == Sorted(Stored)
        first == RangeFirst(s, prefix)
    IN  {s[p] : p \in {r \in first .. RangeLast(s, prefix) - 1 : r < first + n}}

\* A hit counts as a use of the entry, which matters to lru.
Used(Q, S) ==
    IF policy = "lru" /\ S # {} THEN MoveToQueue(Q, "lru", CHOOSE d \in S : TRUE) ELSE Q

\* CsManager::erase: the first Data under the prefix go, as many as the command asks
\* for but no more than ERASE_LIMIT. To tell whether some are left it looks one up,
\* which counts as a use.
erase(prefix, count) ==
    LET gone == FirstUnder(prefix, IF count <= ERASE_LIMIT THEN count ELSE ERASE_LIMIT)
        rest == [name |-> prefix, rightmost |-> FALSE, mbf |-> FALSE]
        used == IF count > ERASE_LIMIT /\ Cardinality(gone) = ERASE_LIMIT /\ serve /\ limit # 0
                THEN Found(Stored \ gone, rest, {}) ELSE {}
    IN  /\ table' = Without(table, gone)
        /\ queues' = Used(detachQueue(queues, gone), used)
        /\ moveStale' = Without(moveStale, gone)
        /\ UNCHANGED <<now, policy, limit, admit, serve>>

Fresh == {d \in Stored : ~(table[d].staleTime < now)}

find(i) ==
    LET hit == Found(Stored, i, Fresh) IN
    /\ serve /\ limit # 0
    /\ hit # {}
    /\ queues' = Used(queues, hit)
    /\ UNCHANGED <<now, table, policy, limit, moveStale, admit, serve>>

\* Mutant: a lower limit takes effect at the next insertion only.
SetLimitOnly(n) == limit' = n /\ UNCHANGED <<table, queues, moveStale>>

\* Policy::setLimit
setLimit(n) ==
    LET gone == Evicted(queues, Cardinality(Stored), n) IN
    /\ limit' = n
    /\ table' = Without(table, gone)
    /\ queues' = detachQueue(queues, gone)
    /\ moveStale' = Without(moveStale, gone)

\* CsManager::changeConfig: a new limit, if the command has one, then the flags.
changeConfig(hasCapacity, n, shouldAdmit, shouldServe) ==
    /\ IF hasCapacity THEN setLimit(n) ELSE UNCHANGED <<limit, table, queues, moveStale>>
    /\ admit' = shouldAdmit
    /\ serve' = shouldServe
    /\ UNCHANGED <<now, policy>>

\* The tables section, read at start and on each reload: a new limit, and a new
\* policy if the store is empty then.
processConfig(n, p) ==
    /\ setLimit(n)
    /\ policy' = IF DOMAIN table' = {} THEN p ELSE policy
    /\ UNCHANGED <<now, admit, serve>>

moveToStaleQueue(d) ==
    /\ d \in DOMAIN moveStale
    /\ moveStale[d] <= now
    /\ queues' = MoveToQueue(queues, "stale", d)
    /\ moveStale' = Without(moveStale, {d})
    /\ UNCHANGED <<now, table, policy, limit, admit, serve>>

Tick ==
    /\ now < MaxTime + 1
    /\ now' = now + 1
    /\ UNCHANGED <<table, policy, limit, queues, moveStale, admit, serve>>

Next ==
    \/ \E d \in Data, isUnsolicited, noCache \in BOOLEAN : insert(d, isUnsolicited, noCache)
    \/ \E noCache \in BOOLEAN : InsertRefused(noCache)
    \/ \E i \in Interest : find(i) \/ \E n \in EraseCount : erase(i.name, n)
    \/ \E hasCapacity, a, s \in BOOLEAN, n \in Limit : changeConfig(hasCapacity, n, a, s)
    \/ \E n \in Limit, p \in PolicyName : processConfig(n, p)
    \/ \E d \in Data : moveToStaleQueue(d)
    \/ Tick

Spec == Init /\ [][Next]_vars

-----------------------------------------------------------------------------
(* Properties *)

Occurrences(d) ==
    UNION {{q} \X {i \in 1 .. Len(queues[q]) : queues[q][i] = d} : q \in QueueType}

\* "The Table iterator of an Entry should be in exactly one queue at any moment", in a
\* queue of the policy in force; and no queue holds an iterator that the table erased.
QueuesIndexTable ==
    \A d \in Data :
        /\ Cardinality(Occurrences(d)) = IF d \in Stored THEN 1 ELSE 0
        /\ \A o \in Occurrences(d) : o[1] = "lru" <=> policy = "lru"

\* The store is never left larger than its limit: insert, setLimit and a reload of
\* the configuration evict at once, and an admitted entry is never there twice.
SizeWithinLimit == Cardinality(Stored) <= limit

\* Under priority_fifo the queues mirror what the entries are, through refreshes,
\* solicited or not: the unsolicited queue holds the unsolicited entries, an entry in
\* the fifo queue has a timer due exactly when it becomes stale, and an entry in the
\* stale queue is as old as its freshness period.
QueuesMirrorEntries ==
    \A d \in Stored : \A o \in Occurrences(d) : policy = "priority_fifo" =>
        /\ o[1] = "unsolicited" <=> table[d].unsolicited
        /\ o[1] = "fifo" <=> d \in DOMAIN moveStale
        /\ o[1] = "fifo" => moveStale[d] = table[d].staleTime
        /\ o[1] = "stale" => table[d].staleTime <= now

\* priority_fifo gives up what it values least: as long as an unsolicited entry is
\* left, no solicited one goes, unless it is erased by name.
UnsolicitedEvictedFirst ==
    [][/\ policy = "priority_fifo"
       /\ ~(\E i \in Interest, n \in EraseCount : erase(i.name, n))
       => \A d \in Stored \ DOMAIN table' : \A e \in DOMAIN table' :
            ~table[d].unsolicited => ~table'[e].unsolicited]_vars

\* cs.hpp: "A lookup invokes either callback exactly once". A rightmost lookup by full
\* name, of Data that is there but is not fresh, runs past the start of its range.
LookupCompletes ==
    \A i \in Interest : FindPosition(Sorted(Stored), i, Fresh) # Undefined

=============================================================================
