----------------------------- MODULE MCExplorer -----------------------------
(* Instances of Explorer for TLC. *)
EXTENDS Explorer
=============================================================================
