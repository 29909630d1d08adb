----------------------------- MODULE SingleView -----------------------------
(***************************************************************************)
(* The view of one container: SingleViewWithTab of grid.go with the tabs   *)
(* of internal/cwidgets/single that have work going on behind them: the    *)
(* log, the network probes, the changes of the file system and the web     *)
(* page.  The other tabs read once when they are shown, and the file tab   *)
(* is in Explorer.                                                         *)
(*                                                                         *)
(* The view takes the container's updates while it is open.  A user of the *)
(* model visits one of the four tabs besides the others: the tabs have no  *)
(* state in common but the view's.  The web server's log readers, of       *)
(* LogStream, have no view.                                                *)
(***************************************************************************)
EXTENDS LogStream, LogWidget, WebView, NetworkTab

CONSTANT MaxDiffs   \* bound on the requests for changes

ASSUME DiffsAssumption == MaxDiffs \in Nat

VARIABLES
    uses,       \* the tab that is visited, "none" without a view
    view,       \* "opening", "open" or "closed"
    ActiveTab,
    updater,    \* who gets the container's updates: "view" or "row"
    diffs,      \* requests for the changes that are not answered
    asked,      \* number of such requests
    diff        \* the request whose answer is shown, 0 for none

viewVars == <<uses, view, ActiveTab, updater, diffs, asked, diff>>
allVars == <<vars, widgetVars, webVars, probeVars, viewVars>>

Tabs == {"logs", "network", "diff", "web"}

ViewInit ==
    /\ Init /\ WidgetInit /\ ProbeInit
    /\ ActiveTab = "other" /\ updater = "row"
    /\ diffs = {} /\ asked = 0 /\ diff = 0
    /\ \/ reader = "web" /\ uses = "none" /\ view = "closed" /\ WebInit(<<>>)
       \/ /\ reader = "terminal" /\ uses \in Tabs /\ view = "opening"
          /\ IF uses = "web" THEN \E eps \in Discovered : WebInit(eps)
                             ELSE WebInit(<<>>)

-----------------------------------------------------------------------------
(* Entering and leaving tabs. *)

ShowLogs ==
    /\ Redraw /\ UNCHANGED <<webVars, probeVars, diffs, asked, diff>>
    /\ IF viewer = "ended" THEN StartLogStream ELSE UNCHANGED vars

ShowNetwork ==
    RunProbes /\ UNCHANGED <<vars, widgetVars, webVars, diffs, asked, diff>>

ShowDiff ==
    /\ asked < MaxDiffs
    /\ asked' = asked + 1 /\ diffs' = diffs \cup {asked + 1}
    /\ UNCHANGED <<vars, widgetVars, webVars, probeVars, diff>>

ShowOther == UNCHANGED <<vars, widgetVars, webVars, probeVars, diffs, asked, diff>>

\* switchTab, from any key that shows a tab, and for the tab the view is opened
\* with.
SwitchTab(tab) ==
    /\ view # "closed" /\ tab \in {uses, "other"}
    /\ view' = "open" /\ ActiveTab' = tab /\ updater' = "view"
    /\ UNCHANGED uses
    /\ \/ tab = "logs" /\ ShowLogs
       \/ tab = "network" /\ ShowNetwork
       \/ tab = "diff" /\ ShowDiff
       \/ tab \in {"web", "other"} /\ ShowOther

\* Mutant of Close: the probes are left alone.
CloseOnly ==
    /\ view = "open"
    /\ view' = "closed" /\ updater' = "row"
    /\ TabCloses
    /\ UNCHANGED <<widgetVars, webVars, probeVars, uses, ActiveTab, diffs, asked,
                   diff>>

\* The deferred functions of the view.
Close ==
    /\ view = "open"
    /\ view' = "closed" /\ updater' = "row"
    /\ StopProbes /\ TabCloses
    /\ UNCHANGED <<widgetVars, webVars, uses, ActiveTab, diffs, asked, diff>>

-----------------------------------------------------------------------------
(* The keys of the tabs, the timer, and what goes on behind the view. *)

On(tab) == view = "open" /\ ActiveTab = tab

LogKeys ==
    On("logs") /\ (Keys \/ Redraw) /\ UNCHANGED <<vars, webVars, probeVars, viewVars>>

\* The key, or the timer when the last round was long enough ago.
Reprobe ==
    On("network") /\ RunProbes /\ UNCHANGED <<vars, widgetVars, webVars, viewVars>>

WebTabKeys ==
    On("web") /\ WebKeys /\ UNCHANGED <<vars, widgetVars, probeVars, viewVars>>

\* The connector sets the container's metadata.
SetMeta ==
    /\ updater = "view" /\ uses = "web"
    /\ \E eps \in Discovered : SetContainer(eps)
    /\ UNCHANGED <<vars, widgetVars, probeVars, viewVars>>

\* The goroutine of the log tab hands a line to the widget.
Follow ==
    /\ TabTakes /\ Add(Head(logCh))
    /\ UNCHANGED <<webVars, probeVars, viewVars>>

LogSteps ==
    /\ \/ Receive \/ Write \/ RequestReturns \/ Scanner
       \/ RelayTakes \/ RelaySends \/ RelayEnds \/ TabEnds \/ Handler
       \/ Disconnect \/ HandlerLeaves
    /\ UNCHANGED <<widgetVars, webVars, probeVars, viewVars>>

Probing == ProbeStep /\ UNCHANGED <<vars, widgetVars, webVars, viewVars>>

Fetched ==
    /\ \E f \in fetches : FetchReturns(f)
    /\ UNCHANGED <<vars, widgetVars, probeVars, viewVars>>

\* The changes are answered, in any order and even after the view was closed.
DiffAnswered ==
    /\ \E n \in diffs : diffs' = diffs \ {n} /\ (diff' = n \/ UNCHANGED diff)
    /\ UNCHANGED <<vars, widgetVars, webVars, probeVars, uses, view, ActiveTab,
                   updater, asked>>

ViewNext ==
    \/ \E tab \in Tabs \cup {"other"} : SwitchTab(tab)
    \/ Close
    \/ LogKeys \/ Reprobe \/ WebTabKeys
    \/ SetMeta \/ Follow \/ LogSteps \/ Probing \/ Fetched \/ DiffAnswered

\* The goroutines of the log run on as in LogStream.  Dials and fetches have a
\* timeout.
ViewFairness ==
    /\ WF_allVars(cancelled /\ RequestReturns /\ LogSteps)
    /\ WF_allVars(Write /\ LogSteps)
    /\ WF_allVars(Scanner /\ LogSteps)
    /\ WF_allVars(Relay /\ (Follow \/ LogSteps))
    /\ WF_allVars(Handler /\ LogSteps)
    /\ WF_allVars(leave /\ HandlerLeaves /\ LogSteps)
    /\ WF_allVars(Probing)
    /\ WF_allVars(Fetched)

ViewSpec == ViewInit /\ [][ViewNext]_allVars /\ ViewFairness

-----------------------------------------------------------------------------
(* Properties. *)

\* Every variable has its type.
ViewTypeOK ==
    /\ WidgetTypeOK /\ ProbeTypeOK /\ WebTypeOK
    /\ uses \in Tabs \cup {"none"}
    /\ view \in {"opening", "open", "closed"}
    /\ ActiveTab \in {uses, "other"}
    /\ updater \in {"view", "row"}
    /\ diffs \subseteq 1..asked /\ diff \in 0..asked

\* A view that was closed has let go of everything: updates go to the row of
\* the table again, no probe is dialling that nobody stopped, and the follower
\* of the log has been told.
Released ==
    view = "closed" /\ reader = "terminal" =>
        updater = "row" /\ Dialling = {} /\ (leave \/ relay = "done")

\* The types, no line of the log lost, doubled or out of order, at most one round
\* of probes, and a closed view that let go.
ViewOK == PipelineOK /\ ViewTypeOK /\ OneRound /\ Released
=============================================================================
