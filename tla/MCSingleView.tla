---------------------------- MODULE MCSingleView ----------------------------
(* Instances of SingleView for TLC. *)
EXTENDS SingleView

\* Two ports, one of them published at two ports of the host.
A == Endpoint("80", "8080")
A2 == Endpoint("80", "8081")
B == Endpoint("81", "81")
Lists == {<<>>, <<A>>, <<A, B>>, <<B, A>>, <<A, A2, B>>}
=============================================================================
