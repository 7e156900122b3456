------------------------------- MODULE MCRib -------------------------------
(***************************************************************************)
(* A small instance of RibManager: a prefix and a longer one that inherits *)
(* its routes.                                                             *)
(***************************************************************************)
EXTENDS RibManager

TwoLevels == {<<1>>, <<1, 1>>}

=============================================================================
