------------------------ MODULE MCContainerLifecycle ------------------------
(* Instances of OrderlyCalls for TLC. *)
EXTENDS OrderlyCalls
=============================================================================
