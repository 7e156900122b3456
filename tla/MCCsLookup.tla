----------------------------- MODULE MCCsLookup -----------------------------
(***************************************************************************)
(* The search of the Content Store in every table of a few Data, any of    *)
(* them stale: names of several lengths, Data of the same name, children   *)
(* without a match. Components 1 and 2 are digests, 10 to 12 generic.      *)
(***************************************************************************)
EXTENDS CsLookup

VARIABLES store, fresh

Packet(name, digest) == [name |-> name, digest |-> digest, freshness |-> 0]
Query(name, rightmost, mbf) == [name |-> name, rightmost |-> rightmost, mbf |-> mbf]

DeepData ==
    {Packet(<<10>>, 1), Packet(<<10>>, 2), Packet(<<10, 10>>, 1), Packet(<<10, 11>>, 1),
     Packet(<<10, 11, 11>>, 2), Packet(<<10, 12, 10>>, 1), Packet(<<11>>, 1)}

\* By prefix, by name, by full name. A rightmost lookup by full name with MustBeFresh
\* is the case of LookupCompletes in ContentStore.
AllQueries ==
    {Query(n, r, m) : n \in {<<>>, <<10>>, <<10, 11>>}, r \in BOOLEAN, m \in BOOLEAN}
        \cup {Query(<<10, 2>>, r, FALSE) : r \in BOOLEAN}
        \cup {Query(<<10, 2>>, FALSE, TRUE)}

LookupInit == store = {} /\ fresh = {}

LookupNext ==
    \E d \in Data :
        \/ store' = store \cup {d} /\ fresh' = fresh \cup {d}
        \/ store' = store \ {d} /\ fresh' = fresh \ {d}
        \/ store' = store /\ fresh' = fresh \ {d}

\* Cs::find finds, for every Interest and whatever the store holds, the Data that
\* ChildSelector and MustBeFresh ask for, and misses only if there is none.
LookupCorrect == \A i \in Interest : Found(store, i, fresh) = Best(store, i, fresh)

=============================================================================
