-------------------------- MODULE MCConnectorSuper --------------------------
(* Instances of ConnectorSuper and of the requests over it for TLC. *)
EXTENDS WebProvider
=============================================================================
