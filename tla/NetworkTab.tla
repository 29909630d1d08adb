----------------------------- MODULE NetworkTab ------------------------------
(***************************************************************************)
(* The network tab's probes, internal/cwidgets/single/network.go.  A round *)
(* of probes dials all addresses of the container at the same time, looks  *)
(* whether it was cancelled meanwhile, and stores its results.  Starting a *)
(* round cancels the one before.                                           *)
(***************************************************************************)
EXTENDS Naturals, FiniteSets

CONSTANT MaxRounds   \* bound on the rounds

ASSUME RoundsAssumption == MaxRounds \in Nat

VARIABLES
    started,    \* rounds started
    rounds,     \* those whose goroutine still runs
    probing,    \* the flag
    ProbeSeq,   \* rounds whose results were stored
    Probes      \* the round whose results are shown, 0 for none

probeVars == <<started, rounds, probing, ProbeSeq, Probes>>

\* A round's goroutine is dialling, has found that it was not cancelled, or has
\* only its deferred function left.
Round == [n : 1..MaxRounds, at : {"dialling", "storing", "ending"},
          cancelled : BOOLEAN]

ProbeInit ==
    /\ started = 0 /\ rounds = {}
    /\ probing = FALSE
    /\ ProbeSeq = 0 /\ Probes = 0

Cancelled == {[r EXCEPT !.cancelled = TRUE] : r \in rounds}

RunProbes ==
    /\ started < MaxRounds
    /\ started' = started + 1
    /\ rounds' = Cancelled \cup
           {[n |-> started + 1, at |-> "dialling", cancelled |-> FALSE]}
    /\ probing' = TRUE
    /\ UNCHANGED <<ProbeSeq, Probes>>

StopProbes ==
    /\ rounds' = Cancelled
    /\ probing' = FALSE
    /\ UNCHANGED <<started, ProbeSeq, Probes>>

Goto(r, at) == rounds' = (rounds \ {r}) \cup {[r EXCEPT !.at = at]}

\* All dials have returned, which a cancellation makes them do at once.
Dialled(r) ==
    /\ r \in rounds /\ r.at = "dialling"
    /\ Goto(r, IF r.cancelled THEN "ending" ELSE "storing")
    /\ UNCHANGED <<started, probing, ProbeSeq, Probes>>

\* The results are stored, even if another round was started since.
Store(r) ==
    /\ r \in rounds /\ r.at = "storing"
    /\ Goto(r, "ending")
    /\ ProbeSeq' = ProbeSeq + 1 /\ Probes' = r.n
    /\ UNCHANGED <<started, probing>>

\* The deferred function clears the flag, whoever has set it.
End(r) ==
    /\ r \in rounds /\ r.at = "ending"
    /\ rounds' = rounds \ {r}
    /\ probing' = FALSE
    /\ UNCHANGED <<started, ProbeSeq, Probes>>

ProbeStep == \E r \in rounds : Dialled(r) \/ Store(r) \/ End(r)

\* The rounds that nobody has cancelled and that still dial.
Dialling == {r \in rounds : r.at = "dialling" /\ ~r.cancelled}

-----------------------------------------------------------------------------
(* Properties. *)

\* Every variable has its type.
ProbeTypeOK ==
    /\ rounds \subseteq Round
    /\ probing \in BOOLEAN
    /\ ProbeSeq \in 0..started /\ Probes \in 0..started

\* However often probes are asked for, by the key, the tab and the timer, only
\* one round is dialling for its own sake.
OneRound == Cardinality(Dialling) <= 1
=============================================================================
