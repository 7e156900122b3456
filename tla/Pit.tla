-------------------------------- MODULE Pit --------------------------------
(***************************************************************************)
(* A PIT entry and what the pipelines and strategies do to one:            *)
(* daemon/table/pit-entry, pit-{in,out,face}-record and fw/algorithm.      *)
(*                                                                         *)
(* An entry is a value: in-records and out-records are functions whose     *)
(* domain is the set of faces that have such a record, since the code      *)
(* looks a record up by face and keeps at most one per face.               *)
(***************************************************************************)
EXTENDS Integers, FiniteSets

CONSTANTS
    Face,         \* faces the face table may hold
    Local,        \* the faces of scope FACE_SCOPE_LOCAL
    LinkType,     \* face |-> "p2p" | "multi-access" | "ad-hoc"
    Name,         \* names of Interests, Data and FIB entries
    Localhost,    \* the names under /localhost
    Localhop,     \* the names under /localhop
    RetxInitial,  \* RETX_SUPPRESSION_INITIAL
    RetxMax       \* RETX_SUPPRESSION_MAX

LinkTypes == {"p2p", "multi-access", "ad-hoc"}

ASSUME PitAssumption ==
    /\ Local \subseteq Face
    /\ LinkType \in [Face -> LinkTypes]
    /\ Localhost \subseteq Name
    /\ Localhop \subseteq Name
    /\ RetxInitial \in Nat \ {0}
    /\ RetxMax \in Nat
    /\ RetxInitial <= RetxMax

\* lp::NackReason, numbered by severity; NONE stands for an unknown reason.
NONE == 0
CONGESTION == 50
DUPLICATE == 100
NO_ROUTE == 150
NackReason == {NONE, CONGESTION, DUPLICATE, NO_ROUTE}

NotNacked == -1      \* m_incomingNack == nullptr
NoTimer == -1        \* an EventId no event was ever scheduled for

InRecord == [nonce : Nat, expiry : Nat]
OutRecord == [nonce : Nat, renewed : Nat, expiry : Nat,
              nack : NackReason \cup {NotNacked}, interval : RetxInitial .. RetxMax]

IsPartialFunction(m, S, T) == DOMAIN m \subseteq S /\ m \in [DOMAIN m -> T]

\* At most one record of each kind per face.
IsEntry(e) ==
    /\ e \in [in : {e.in}, out : {e.out}, timer : Nat \cup {NoTimer}, satisfied : BOOLEAN,
              freshness : Nat, interval : RetxInitial .. RetxMax]
    /\ IsPartialFunction(e.in, Face, InRecord)
    /\ IsPartialFunction(e.out, Face, OutRecord)

NewEntry == [in |-> [f \in {} |-> 0], out |-> [f \in {} |-> 0],
             timer |-> NoTimer, satisfied |-> FALSE,
             freshness |-> 0, interval |-> RetxInitial]

Put(m, f, r) == [g \in DOMAIN m \cup {f} |-> IF g = f THEN r ELSE m[g]]
Drop(m, f) == [g \in DOMAIN m \ {f} |-> m[g]]

-----------------------------------------------------------------------------
(* Records *)

insertOrUpdateInRecord(e, f, i, now) ==
    [e EXCEPT !.in = Put(@, f, [nonce |-> i.nonce, expiry |-> now + i.lifetime])]

deleteInRecord(e, f) == [e EXCEPT !.in = Drop(@, f)]

clearInRecords(e) == [e EXCEPT !.in = [f \in {} |-> 0]]

\* update() renews nonce and times; the Nack recorded on the out-record and the
\* suppression interval attached to it stay.
insertOrUpdateOutRecord(e, f, i, now) ==
    [e EXCEPT !.out = Put(@, f,
        [nonce |-> i.nonce, renewed |-> now, expiry |-> now + i.lifetime,
         nack |-> IF f \in DOMAIN e.out THEN e.out[f].nack ELSE NotNacked,
         interval |-> IF f \in DOMAIN e.out THEN e.out[f].interval ELSE RetxInitial])]

deleteOutRecord(e, f) == [e EXCEPT !.out = Drop(@, f)]

setIncomingNack(e, f, reason) ==
    [e EXCEPT !.out = Put(@, f, [@[f] EXCEPT !.nack = reason])]

-----------------------------------------------------------------------------
(* fw/algorithm.cpp *)

\* Mutant: /localhop is not looked at.
ScopeWithoutLocalhop(inFace, name, outFace) == outFace \notin Local /\ name \in Localhost

wouldViolateScope(inFace, name, outFace) ==
    /\ outFace \notin Local
    /\ \/ name \in Localhost
       \/ name \in Localhop /\ inFace \notin Local

\* Where a Nonce already occurs in an entry, seen from face f.
findDuplicateNonce(e, nonce, f) ==
    {w \in {"IN_SAME", "IN_OTHER", "OUT_SAME", "OUT_OTHER"} :
        \/ w = "IN_SAME" /\ f \in DOMAIN e.in /\ e.in[f].nonce = nonce
        \/ w = "IN_OTHER" /\ \E g \in DOMAIN e.in \ {f} : e.in[g].nonce = nonce
        \/ w = "OUT_SAME" /\ f \in DOMAIN e.out /\ e.out[f].nonce = nonce
        \/ w = "OUT_OTHER" /\ \E g \in DOMAIN e.out \ {f} : e.out[g].nonce = nonce}

hasPendingOutRecords(e, now) ==
    \E f \in DOMAIN e.out : e.out[f].expiry >= now /\ e.out[f].nack = NotNacked

\* getLastOutgoing lies within the last d ticks.
SentWithin(e, d, now) == \E f \in DOMAIN e.out : now - e.out[f].renewed < d

canForwardToLegacy(e, f, now) ==
    /\ ~(f \in DOMAIN e.out /\ e.out[f].expiry >= now)
    /\ \E g \in DOMAIN e.in \ {f} : e.in[g].expiry >= now

\* isLessSevere picks the smallest reason that is not NONE, NONE if there is none.
LeastSevere(R) ==
    IF R \subseteq {NONE} THEN NONE
    ELSE CHOOSE r \in R \ {NONE} : \A s \in R \ {NONE} : r <= s

=============================================================================
