---------------------------- MODULE OrderlyCalls ----------------------------
(***************************************************************************)
(* What the calls of a container's lifecycle promise each other when they  *)
(* do not overlap.  SetState and the collector have no lock in common, so  *)
(* that the state and the collector may disagree after calls that ran at   *)
(* the same time, or after a Start that came before the collector that was *)
(* told to stop had ended.  A history variable remembers whether that      *)
(* happened; the bound on calls is lower once it has.                      *)
(***************************************************************************)
EXTENDS ContainerLifecycle

CONSTANT MaxOverlapping   \* bound on the calls once some were not orderly

ASSUME OverlapAssumption == MaxOverlapping \in Nat

VARIABLE orderly   \* history: calls have come one at a time, none too early

Begins(c) == call[c].pc = "idle" /\ call'[c].pc # "idle"

\* All calls have returned, and no goroutine of a collector is starting or has
\* been told to stop without having done so.
Settled == Quiet /\ \A g \in Gens : poll[g] # "new" /\ ~WindingDown(g)

OrderlyInit == Init /\ orderly = TRUE

OrderlyNext ==
    /\ Next
    /\ orderly' = (orderly /\ \A c \in Callers : Begins(c) => Settled)
    /\ calls' # calls => orderly' \/ calls' <= MaxOverlapping

orderlyVars == <<vars, orderly>>

OrderlySpec == OrderlyInit /\ [][OrderlyNext]_orderlyVars /\ Fairness

-----------------------------------------------------------------------------
(* Properties. *)

\* Between orderly calls, a container that is not running has no collector that
\* nobody told to stop (SetState, "stop collector, if needed").
LeakFree ==
    orderly /\ Quiet /\ state # "running" => \A g \in Gens : ~Collecting(g)

\* Between orderly calls, a running container has a collector and a reader of
\* its stream, unless the daemon ended the last stream ("start collector, if
\* needed").
NotStarved ==
    orderly /\ Quiet /\ state = "running" =>
        \/ gens \in cut
        \/ \E g \in Gens : Collecting(g) /\ readers[g] > 0

\* The collector is in step with the state.
InStep == LeakFree /\ NotStarved

\* After orderly calls, a container that stays stopped ends up showing no
\* metrics.
GoesBlank ==
    (orderly /\ Quiet /\ state # "running")
        ~> (shown = Nil \/ state = "running" \/ ~Quiet)
=============================================================================
