---------------------------- MODULE MCForwarder ----------------------------
(***************************************************************************)
(* Small instances of Forwarder. A name is a model string; "/l" stands for *)
(* a name under /localhost, "/h" for one under /localhop, "/" is a prefix  *)
(* of every name.                                                          *)
(***************************************************************************)
EXTENDS Forwarder

MCPrefix == {<<n, n>> : n \in Name} \cup ({"/"} \cap Name) \X Name

\* Routes over the faces that lead upstream.
RouteRootB == {<<"/", "b", 0>>}
RouteBC == {<<n, f, 0>> : n \in Name, f \in Face \cap {"b", "c"}}
RouteEqual == {<<n, f, 0>> : n \in Name, f \in Face}

AllP2p == [f \in Face |-> "p2p"]
AdHocUpstream == [f \in Face |-> IF f = "b" THEN "ad-hoc" ELSE "p2p"]

AllBestRoute == [n \in Name |-> "best-route"]
V1AndMulticast == [n \in Name |-> IF n = "/h" THEN "multicast" ELSE "best-route-v1"]
AllMulticast == [n \in Name |-> "multicast"]

=============================================================================
