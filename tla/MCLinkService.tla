--------------------------- MODULE MCLinkService ---------------------------
(***************************************************************************)
(* A small instance of GenericLinkService: TxSequence and Sequence wrap     *)
(* around with the second fragment.                                        *)
(***************************************************************************)
EXTENDS GenericLinkService

Room == [fragment |-> 1, idle |-> 2]
OneWay == [e \in End |-> IF e = "a" THEN <<2, 1>> ELSE <<>>]
BothWays == [e \in End |-> IF e = "a" THEN <<3, 1>> ELSE <<1>>]
InFlightAB == [e \in End |-> IF e = "a" THEN 1 ELSE 2]
OneInFlight == [e \in End |-> 1]

=============================================================================
