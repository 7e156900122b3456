------------------------- MODULE DeadNonceListLoad -------------------------
(***************************************************************************)
(* The Dead Nonce List under a steady load: in every mark interval the     *)
(* same number of entries is added, after the timers that are due. The     *)
(* number is chosen at the start and kept. (With entries that arrive at    *)
(* varying times within the intervals, the number of MARKs varies by one   *)
(* and the capacity need not settle.)                                      *)
(***************************************************************************)
EXTENDS DeadNonceList

CONSTANT Rates    \* entries added per mark interval

ASSUME LoadAssumption == Rates \subseteq Nat

VARIABLES rate, quota    \* chosen from Rates; still to be added in this interval

loadVars == <<vars, rate, quota>>

LoadInit ==
    /\ Init
    /\ rate \in Rates
    /\ quota = rate

LoadAdd(x) ==
    /\ quota > 0
    /\ markIn > 0 /\ adjustIn > 0
    /\ add(x)
    /\ quota' = quota - 1
    /\ UNCHANGED rate

LoadTimers == (mark \/ adjustCapacity) /\ UNCHANGED <<rate, quota>>

LoadTick ==
    /\ quota = 0
    /\ Tick
    /\ quota' = rate
    /\ UNCHANGED rate

LoadNext == LoadTimers \/ LoadTick \/ \E x \in Entry : LoadAdd(x)

\* Time passes, timers run and the load goes on.
LoadSpec == LoadInit /\ [][LoadNext]_loadVars /\ WF_loadVars(LoadNext)

-----------------------------------------------------------------------------

\* The control loop of adjustCapacity settles: it does not swing between raising
\* and lowering the capacity for ever.
CapacitySettles == \E c \in MIN_CAPACITY .. MAX_CAPACITY : <>[](capacity = c)

\* It settles where entries live long enough: the queue spans EXPECTED_MARK_COUNT
\* marks up to the push of the next entries, unless the capacity is at its maximum.
LifetimeReached ==
    <>[](capacity = MAX_CAPACITY \/ countMarks(queue) >= EXPECTED_MARK_COUNT - 1)

=============================================================================
