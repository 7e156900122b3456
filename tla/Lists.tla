------------------------------- MODULE Lists --------------------------------
(***************************************************************************)
(* Erasing elements from a std::list or std::vector that is modelled as a  *)
(* sequence: the others keep their order.                                  *)
(***************************************************************************)
EXTENDS Integers, Sequences

SeqWithout(s, S) ==
    LET kept[i \in 0 .. Len(s)] ==
            IF i = 0 THEN <<>>
            ELSE IF s[i] \in S THEN kept[i - 1] ELSE Append(kept[i - 1], s[i])
    IN  kept[Len(s)]

=============================================================================
