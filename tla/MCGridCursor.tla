---------------------------- MODULE MCGridCursor ----------------------------
(* Instances of GridCursor for TLC. *)
EXTENDS GridCursor, TLC

Symmetry == Permutations(Containers)
=============================================================================
