---------------------------- MODULE MCWebServer ----------------------------
(* Instances of WebServer for TLC. *)
EXTENDS WebServer, TLC

\* All browsers behind one address; which is which makes no difference.
Shared == [b \in Browsers |-> "shared"]
Symmetry == Permutations(Browsers)
=============================================================================
