------------------------------- MODULE WebView -------------------------------
(***************************************************************************)
(* The web tab, internal/cwidgets/single/webview.go: the endpoints found   *)
(* in a container's ports and environment, one of them selected,           *)
(* and the page that was fetched from there.                               *)
(*                                                                         *)
(* Every fetch runs in a goroutine of its own and has a number.  The       *)
(* endpoints are found again whenever the container's metadata changes,    *)
(* by the connector's goroutines.  Reading the address and taking a number *)
(* are two critical sections, but only the event loop fetches, and         *)
(* SetContainer only when the loop has called it, so that they are one     *)
(* step.  The path of the address, which stays when nobody changes it, the *)
(* modes and the scrolling of the page are left out.                       *)
(***************************************************************************)
EXTENDS Naturals, SequencesExt

CONSTANTS
    Discovered,   \* the lists of endpoints that DiscoverEndpoints may find
    Numbers,      \* ports that may be asked for
    MaxFetches    \* bound on the fetches

ASSUME FetchesAssumption == MaxFetches \in Nat

Ports == STRING \ {"none"}
ASSUME PortsAssumption ==
    /\ Discovered \subseteq Seq([Port : Ports, HostPort : Ports])
    /\ Numbers \subseteq Ports

\* An endpoint leads from a port of the host to one of the container; several
\* may lead to one port.
Endpoint(port, hostPort) == [Port |-> port, HostPort |-> hostPort]
Nowhere == Endpoint("none", "none")

VARIABLES
    endpoints, selectedEp,
    probeSeq,     \* number of the newest fetch
    fetches,      \* fetches that have not returned
    isLoading,
    probeRes      \* number and address of the page that is shown

webVars == <<endpoints, selectedEp, probeSeq, fetches, isLoading,
             probeRes>>

NoPage == [seq |-> 0, at |-> Nowhere]

Selected(eps, i) == IF i < Len(eps) THEN eps[i + 1] ELSE Nowhere
CurrentEndpoint == Selected(endpoints, selectedEp)

\* FetchCurrent, at the end of a step that has set the address.
FetchCurrent ==
    LET at == CurrentEndpoint'
    IN  IF at = Nowhere THEN UNCHANGED <<probeSeq, fetches, isLoading>>
        ELSE /\ probeSeq' = probeSeq + 1
             /\ fetches' = fetches \cup
                    {[seq |-> probeSeq + 1, at |-> at]}
             /\ isLoading' = TRUE

\* The view is opened for a container with these endpoints.
WebInit(eps) ==
    /\ endpoints = eps /\ selectedEp = 0
    /\ probeRes = NoPage
    /\ IF eps = <<>> THEN probeSeq = 0 /\ fetches = {} /\ isLoading = FALSE
       ELSE /\ probeSeq = 1 /\ isLoading = TRUE
            /\ fetches = {[seq |-> 1, at |-> eps[1]]}

\* Mutant of FetchReturns: an answer is taken whichever fetch it belongs to.
FetchReturnsAny(f) ==
    /\ f \in fetches
    /\ fetches' = fetches \ {f}
    /\ probeRes' = f /\ isLoading' = FALSE
    /\ UNCHANGED <<endpoints, selectedEp, probeSeq>>

\* The page, or the failure to get one, counts if it was asked for last.
FetchReturns(f) ==
    /\ f \in fetches
    /\ fetches' = fetches \ {f}
    /\ IF f.seq = probeSeq THEN probeRes' = f /\ isLoading' = FALSE
                           ELSE UNCHANGED <<probeRes, isLoading>>
    /\ UNCHANGED <<endpoints, selectedEp, probeSeq>>

InRange(i, eps) == IF i >= Len(eps) THEN 0 ELSE i

\* Mutant of SetContainer: the selection is kept by position.
SetContainerByIndex(eps) ==
    /\ endpoints' = eps
    /\ selectedEp' = InRange(selectedEp, eps)
    /\ UNCHANGED <<probeSeq, fetches, isLoading, probeRes>>

\* SetContainer for the container that is shown: the first endpoint with the
\* selected port is selected, without one the position is kept.
SetContainer(eps) ==
    /\ endpoints' = eps
    /\ LET i == SelectInSeq(eps, LAMBDA e : e.Port = CurrentEndpoint.Port)
       IN  selectedEp' = IF i > 0 THEN i - 1 ELSE InRange(selectedEp, eps)
    /\ UNCHANGED <<probeSeq, fetches, isLoading, probeRes>>

\* NextEndpoint and PrevEndpoint turn the other way in a longer list.
Cycle(step) ==
    /\ selectedEp' = IF Len(endpoints) > 1
                     THEN (selectedEp + step) % Len(endpoints) ELSE selectedEp
    /\ UNCHANGED <<endpoints, probeRes>>
    /\ FetchCurrent

NextEndpoint == Cycle(1)
PrevEndpoint == Cycle(IF endpoints = <<>> THEN 0 ELSE Len(endpoints) - 1)

\* The key `r', and SetCustomPath with a path alone.
Reload == UNCHANGED <<endpoints, selectedEp, probeRes>> /\ FetchCurrent

\* SetCustomPath with a port: the first endpoint that has it on either side, or
\* a new one that leads there.
SetCustomPort(port) ==
    /\ LET i == SelectInSeq(endpoints,
                            LAMBDA e : port \in {e.Port, e.HostPort})
       IN  IF i > 0 THEN selectedEp' = i - 1 /\ UNCHANGED endpoints
           ELSE /\ endpoints' = Append(endpoints, Endpoint(port, port))
                /\ selectedEp' = Len(endpoints)
    /\ UNCHANGED probeRes
    /\ FetchCurrent

WebKeys ==
    /\ probeSeq < MaxFetches
    /\ \/ NextEndpoint \/ PrevEndpoint \/ Reload
       \/ \E port \in Numbers : SetCustomPort(port)

-----------------------------------------------------------------------------
(* Properties. *)

\* Every variable has its type, and what is selected exists.
WebTypeOK ==
    /\ selectedEp \in Nat /\ (selectedEp < Len(endpoints) \/ selectedEp = 0)
    /\ isLoading \in BOOLEAN
    /\ \A f \in fetches : f.seq \in 1..probeSeq

\* Unless it says that it is loading, the tab shows the answer to the last
\* request: a slow answer never comes up after a later one ("protecting against
\* out-of-order redraw race conditions").
PageIsLatest == ~isLoading => probeRes.seq = probeSeq

\* That is always so, and the tab does not say for ever that it is loading.
PageArrives == [][PageIsLatest']_webVars /\ (isLoading ~> ~isLoading)

\* When the container's metadata changes and its selected port is still among
\* its endpoints, that port stays selected, wherever it is now in the list.
PortKept ==
    [][endpoints' # endpoints /\ CurrentEndpoint # Nowhere
         /\ (\E i \in DOMAIN endpoints' :
                 endpoints'[i].Port = CurrentEndpoint.Port)
         /\ probeSeq' = probeSeq
           => CurrentEndpoint'.Port = CurrentEndpoint.Port]_webVars
=============================================================================
