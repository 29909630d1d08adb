-------------------------- MODULE MCDockerConnector --------------------------
(* Small instances of DockerConnector for TLC. *)
EXTENDS DockerConnector, TLC

CONSTANTS c1, c2

TwoCids == {c1, c2}
Symmetry == Permutations(TwoCids)
=============================================================================
