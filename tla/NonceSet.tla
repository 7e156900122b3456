------------------------------ MODULE NonceSet ------------------------------
(***************************************************************************)
(* What loop detection expects of the Dead Nonce List: a set to which an   *)
(* entry belongs from the moment it is added, and in which it is sure to   *)
(* stay until Retention newer entries or marks have been stored. After     *)
(* that it may be forgotten at any time.                                   *)
(***************************************************************************)
EXTENDS Naturals

CONSTANTS Entry, Retention

VARIABLES
    dnl,    \* the entries that has() finds
    age     \* entries and marks stored since an entry was last added, at most Retention

Older(n) == IF n < Retention THEN n + 1 ELSE Retention

Recent(a) == {x \in Entry : a[x] < Retention}

Init ==
    /\ dnl = {}
    /\ age = [x \in Entry |-> Retention]

add(x) ==
    /\ age' = [y \in Entry |-> IF y = x THEN 0 ELSE Older(age[y])]
    /\ Recent(age') \subseteq dnl'
    /\ dnl' \subseteq dnl \cup {x}

Mark ==
    /\ age' = [x \in Entry |-> Older(age[x])]
    /\ Recent(age') \subseteq dnl'
    /\ dnl' \subseteq dnl

Forget ==
    /\ Recent(age) \subseteq dnl'
    /\ dnl' \subseteq dnl
    /\ UNCHANGED age

Next == Mark \/ Forget \/ \E x \in Entry : add(x)

Spec == Init /\ [][Next]_<<dnl, age>>

=============================================================================
