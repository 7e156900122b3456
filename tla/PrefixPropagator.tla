-------------------------- MODULE PrefixPropagator --------------------------
(***************************************************************************)
(* Automatic prefix propagation (rib/auto-prefix-propagator and            *)
(* propagated-entry): for the names in the local RIB the shortest prefixes *)
(* that an identity of the key chain can sign are registered with a hub.   *)
(* The registrations are refreshed, and retried when they fail; a prefix   *)
(* that no name needs any more is withdrawn.                               *)
(*                                                                         *)
(* Commands to the hub are executed and answered in any order, or lost.    *)
(* The answer finds its entry by the name of the prefix: the entry may     *)
(* have been erased, or erased and made again. The propagator is a record  *)
(* p; an operator on it stands for a member function:                      *)
(*   rib, identities   the names in the RIB, the prefixes that can be      *)
(*                     signed                                              *)
(*   entries           m_propagatedEntries: status and pending timer       *)
(*   connected         m_hasConnectedHub                                   *)
(*   sent              commands under way: done once the hub has executed  *)
(*                     it, live while the link it was sent on is up        *)
(*   signed, odd       history: names that could be signed all the time    *)
(*                     since they were inserted; whether the hub was lost  *)
(*                     or an identity added or deleted                     *)
(* Names under /localhost are not propagated and left out; the name        *)
(* /localhop/nfd is the hub. afterEraseRibEntry looks at these names too   *)
(* when it asks whether another name needs the prefix, which matters for   *)
(* an identity of a prefix that they share with other names: it is assumed *)
(* that none is for the empty name, and no name is under /localhop.        *)
(***************************************************************************)
EXTENDS Integers, SequencesExt, Bags

CONSTANTS
    LocalName,        \* names that may be in the RIB, sequences of components
    Identity,         \* prefixes that an identity may be for
    MaxChanges,       \* changes of RIB, identities and connection to the hub
    MaxLost           \* commands that fail or whose answer is lost

ASSUME PropagatorAssumption ==
    /\ \A n \in LocalName \cup Identity : n \in Seq(ToSet(n))
    /\ <<>> \notin Identity
    /\ MaxChanges \in Nat
    /\ MaxLost \in Nat

VARIABLES p, hub, nChanges, nLost

propagatorVars == <<p, hub, nChanges, nLost>>

PropagatedEntry(status, timer) == [status |-> status, timer |-> timer]

PropagatorInit ==
    /\ \E ids \in SUBSET Identity :
          p = [rib |-> {}, identities |-> ids,
               entries |-> [x \in {} |-> PropagatedEntry("NEW", "none")],
               connected |-> FALSE, sent |-> EmptyBag, signed |-> {}, odd |-> FALSE]
    /\ hub = {}
    /\ nChanges = 0 /\ nLost = 0

\* The shortest prefix that can be signed, if there is any.
getPrefixPropagationParameters(u, n) ==
    LET all == {i \in u.identities : IsPrefix(i, n)}
    IN  {i \in all : \A k \in all : Len(i) <= Len(k)}

doesCurrentPropagatedPrefixWork(u, x) == getPrefixPropagationParameters(u, x) = {x}

\* A command without hub is not delivered.
Command(u, verb, x) == [verb |-> verb, prefix |-> x, live |-> u.connected, done |-> FALSE]

SendCommands(u, verb, prefixes) ==
    [u EXCEPT !.sent = @ (+) SetToBag({Command(u, verb, x) : x \in prefixes})]

withdraw(u, x) == SendCommands(u, "unregister", {x})

\* startPropagation and advertise, for several entries. Timers of theirs stay pending.
startPropagation(u, prefixes) ==
    SendCommands([u EXCEPT !.entries = [x \in DOMAIN @ |->
                     IF x \in prefixes THEN PropagatedEntry("PROPAGATING", @[x].timer) ELSE @[x]]],
                 "register", prefixes)

(* afterInsertRibEntry and afterRibInsert, for one name or several: every prefix
   that has no entry gets one, which is propagated if there is a hub. *)
afterInsertRibEntry(u, names) ==
    LET new == (UNION {getPrefixPropagationParameters(u, n) : n \in names}) \ DOMAIN u.entries
        v == [u EXCEPT !.entries = [x \in new \cup DOMAIN @ |->
                           IF x \in new THEN PropagatedEntry("NEW", "none") ELSE @[x]]]
    IN  IF u.connected THEN startPropagation(v, new) ELSE v

Forget(u, prefixes) == [u EXCEPT !.entries = [x \in DOMAIN @ \ prefixes |-> @[x]]]

(* redoPropagation, for several entries. Their order makes no difference: a prefix
   that is chosen for a name works, and is not one of those that are forgotten. *)
redoPropagation(u, prefixes) ==
    LET works == {x \in prefixes : doesCurrentPropagatedPrefixWork(u, x)}
        others == prefixes \ works
    IN  afterInsertRibEntry(startPropagation(Forget(u, others), works),
                            {n \in u.rib : \E x \in others : IsPrefix(x, n)})

afterRibErase(u, x) ==
    IF u.connected /\ u.entries[x].status = "PROPAGATED" THEN withdraw(Forget(u, {x}), x)
    ELSE Forget(u, {x})

\* The entry is kept for another name that it is propagated for.
afterEraseRibEntry(u, n) ==
    LET gone == {x \in getPrefixPropagationParameters(u, n) \cap DOMAIN u.entries :
                     \A m \in u.rib : getPrefixPropagationParameters(u, m) # {x}}
    IN  IF gone = {} THEN u ELSE afterRibErase(u, CHOOSE x \in gone : TRUE)

afterHubConnect(u) == redoPropagation(u, DOMAIN u.entries)

afterHubDisconnect(u) == [u EXCEPT !.entries = [x \in DOMAIN @ |-> PropagatedEntry("NEW", "none")]]

\* Mutant: a prefix that was erased meanwhile is left with the hub.
SucceedWithoutWithdrawal(u, x) ==
    IF x \notin DOMAIN u.entries THEN u
    ELSE [u EXCEPT !.entries[x] = PropagatedEntry("PROPAGATED", "refresh")]

afterPropagateSucceed(u, x) ==
    IF x \notin DOMAIN u.entries THEN withdraw(u, x)
    ELSE [u EXCEPT !.entries[x] = PropagatedEntry("PROPAGATED", "refresh")]

\* Mutant: a failed registration waits for the next connection of the hub.
FailWithoutRetry(u, x) ==
    IF x \notin DOMAIN u.entries THEN u
    ELSE [u EXCEPT !.entries[x] = PropagatedEntry("PROPAGATE_FAIL", "none")]

afterPropagateFail(u, x) ==
    IF x \notin DOMAIN u.entries THEN u
    ELSE [u EXCEPT !.entries[x] = PropagatedEntry("PROPAGATE_FAIL", "retry")]

\* The prefix is needed again: the revocation may have undone a registration.
afterRevokeSucceed(u, x) ==
    IF x \in DOMAIN u.entries /\ u.entries[x].status # "PROPAGATE_FAIL"
      THEN startPropagation(u, {x}) ELSE u

afterRevokeFail(u, x) == u

(***************************************************************************)
(* Changes of the RIB, of the key chain and of the connection              *)
(***************************************************************************)
Change == nChanges < MaxChanges /\ nChanges' = nChanges + 1 /\ UNCHANGED nLost

Signable(u, n) == getPrefixPropagationParameters(u, n) # {}

InsertName(n) ==
    /\ Change
    /\ n \notin p.rib
    /\ p' = afterInsertRibEntry([p EXCEPT !.rib = @ \cup {n},
                                          !.signed = IF Signable(p, n) THEN @ \cup {n} ELSE @], {n})
    /\ UNCHANGED hub

EraseName(n) ==
    /\ Change
    /\ n \in p.rib
    /\ p' = afterEraseRibEntry([p EXCEPT !.rib = @ \ {n}, !.signed = @ \ {n}], n)
    /\ UNCHANGED hub

ConnectHub ==
    /\ Change
    /\ ~p.connected
    /\ p' = afterHubConnect([p EXCEPT !.connected = TRUE])
    /\ UNCHANGED hub

\* The link may go with it, and then what the hub had registered for it.
DisconnectHub(linkLost) ==
    LET dead(c) == [c EXCEPT !.live = FALSE]
    IN  /\ Change
        /\ p.connected
        /\ p' = afterHubDisconnect([p EXCEPT !.connected = FALSE, !.odd = TRUE,
                                             !.sent = IF linkLost THEN BagOfAll(dead, @) ELSE @])
        /\ hub' = IF linkLost THEN {} ELSE hub

ChangeIdentities(i) ==
    LET u == [p EXCEPT !.identities = IF i \in @ THEN @ \ {i} ELSE @ \cup {i}, !.odd = TRUE]
    IN  /\ Change
        /\ p' = [u EXCEPT !.signed = {n \in @ : Signable(u, n)}]
        /\ UNCHANGED hub

(***************************************************************************)
(* The hub, answers and timers                                             *)
(***************************************************************************)
Executed(c) == IF c.verb = "register" THEN hub \cup {c.prefix} ELSE hub \ {c.prefix}

Execute(c) ==
    /\ c.live /\ ~c.done
    /\ hub' = Executed(c)
    /\ p' = [p EXCEPT !.sent = (@ (-) SetToBag({c})) (+) SetToBag({[c EXCEPT !.done = TRUE]})]
    /\ UNCHANGED <<nChanges, nLost>>

Answer(c) ==
    LET u == [p EXCEPT !.sent = @ (-) SetToBag({c})]
    IN  /\ c.live /\ c.done
        /\ p' = IF c.verb = "register" THEN afterPropagateSucceed(u, c.prefix)
                                       ELSE afterRevokeSucceed(u, c.prefix)
        /\ UNCHANGED <<hub, nChanges, nLost>>

\* The command is refused, lost or its answer is.
FailCommand(c) ==
    LET u == [p EXCEPT !.sent = @ (-) SetToBag({c})]
    IN  /\ c.live => nLost < MaxLost
        /\ nLost' = IF c.live THEN nLost + 1 ELSE nLost
        /\ p' = IF c.verb = "register" THEN afterPropagateFail(u, c.prefix)
                                       ELSE afterRevokeFail(u, c.prefix)
        /\ UNCHANGED <<hub, nChanges>>

\* onRefreshTimer and onRetryTimer
TimerRuns(x) ==
    /\ x \in DOMAIN p.entries
    /\ p.entries[x].timer # "none"
    /\ p' = redoPropagation([p EXCEPT !.entries[x].timer = "none"], {x})
    /\ UNCHANGED <<hub, nChanges, nLost>>

PropagatorNext ==
    \/ \E n \in LocalName : InsertName(n) \/ EraseName(n)
    \/ ConnectHub
    \/ \E linkLost \in BOOLEAN : DisconnectHub(linkLost)
    \/ \E i \in Identity : ChangeIdentities(i)
    \/ \E c \in DOMAIN p.sent : Execute(c) \/ Answer(c) \/ FailCommand(c)
    \/ \E x \in Identity : TimerRuns(x)

\* Every command is answered or times out, and timers run.
PropagatorFairness ==
    /\ \A verb \in {"register", "unregister"}, x \in Identity :
          WF_propagatorVars(\E c \in DOMAIN p.sent :
                               /\ c.verb = verb /\ c.prefix = x
                               /\ Execute(c) \/ Answer(c) \/ FailCommand(c))
    /\ \A x \in Identity : WF_propagatorVars(TimerRuns(x))

PropagatorSpec == PropagatorInit /\ [][PropagatorNext]_propagatorVars /\ PropagatorFairness

-----------------------------------------------------------------------------
Wanted(names) == UNION {getPrefixPropagationParameters(p, n) : n \in names}

(* As long as no command was lost, the hub stayed connected and the identities the
   same, the hub has exactly the prefixes that the names in the RIB need whenever no
   command is under way, however insertions and erasures of a name crossed with the
   execution and the answers of earlier commands for it. *)
HubFollowsNames ==
    p.connected /\ ~p.odd /\ nLost = 0 /\ p.sent = EmptyBag => hub = Wanted(p.rib)

(* Whatever was lost and whatever happened to the identities and to the hub, every
   name that could always be signed ends up propagated under the prefix that is the
   shortest now: no retry or refresh is forgotten. *)
NamesReachHub == <>[](p.connected => Wanted(p.signed) \subseteq hub)

=============================================================================
