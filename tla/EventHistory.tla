---------------------------- MODULE EventHistory ----------------------------
(***************************************************************************)
(* What the telemetry history promises: a log of the last `keep' events,   *)
(* oldest first.  When the limit changes only some of them need be left,   *)
(* in the order they had.                                                  *)
(***************************************************************************)
EXTENDS Naturals, Sequences

CONSTANT Events
VARIABLES log, keep

\* The last n elements of s, or all of it.
Newest(n, s) == IF Len(s) <= n THEN s ELSE SubSeq(s, Len(s) - n + 1, Len(s))

Init == log = <<>>

Add == \E e \in Events : log' = Newest(keep, Append(log, e))

Resize ==
    /\ keep' # keep
    /\ Len(log') <= keep'
    /\ \E left \in [DOMAIN log' -> DOMAIN log] :
           \A i \in DOMAIN log' : /\ log'[i] = log[left[i]]
                                 /\ \A j \in 1..i-1 : left[j] < left[i]

Next == (Add /\ keep' = keep) \/ Resize

Spec == Init /\ [][Next]_<<log, keep>>
=============================================================================
