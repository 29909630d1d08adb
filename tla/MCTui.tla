------------------------------- MODULE MCTui --------------------------------
(* Instances of Tui for TLC. *)
EXTENDS Tui
=============================================================================
