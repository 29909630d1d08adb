----------------------------- MODULE LogStream ------------------------------
(***************************************************************************)
(* Following a container's log: DockerLogs of                              *)
(* pkg/connector/collector/docker_logs.go and its two kinds of reader, the *)
(* web server (StreamContainerLogs of web_bridge.go and the log handlers   *)
(* of pkg/web/server.go) and the log tab of the terminal (grid.go).        *)
(*                                                                         *)
(* Goroutines form a pipeline.  The request writes what the daemon sends   *)
(* into a pipe; the scanner cuts it into lines and sends them to logCh;    *)
(* for the web a relay passes them on to outCh, and the handler writes     *)
(* them to the client; in the terminal one goroutine adds them to the      *)
(* view, and another stream may be started when one has ended.  Lines are  *)
(* numbered.                                                               *)
(***************************************************************************)
EXTENDS Naturals, SequencesExt

CONSTANTS
    Cap,      \* capacity of logCh and of outCh (100)
    Chunk,    \* lines that fit into the scanner's buffer
    Lines     \* bound on the lines the container writes

ASSUME CapAssumption == Cap \in Nat \ {0} /\ Chunk \in Nat \ {0}
ASSUME LinesAssumption == Lines \in Nat

VARIABLES
    reader,     \* who reads: "web" or "terminal"
    written,    \* lines written into the pipe
    request,    \* the request goroutine: "reading" from the daemon, "writing"
                \* into the pipe or "returned"
    buffered,   \* lines in the scanner's buffer
    scanner,    \* "scan", "send" or "done"
    logCh,
    cancelled,  \* Stop was called
    relay,      \* "select", "send" or "done"
    item,       \* the line the relay has in hand, 0 for none
    outCh,
    leave,      \* the reader's context is done, or logQuit holds a value
    viewer,     \* "reading", "ended" (it saw the end) or "left"
    shown       \* the lines written to the client or added to the view

requestVars == <<written, request>>
scannerVars == <<buffered, scanner>>
relayVars == <<relay, item, outCh>>
vars == <<reader, requestVars, scannerVars, logCh, cancelled, relayVars, leave, viewer,
          shown>>

\* The web server's reader starts with its stream; the log tab has had none.
Init ==
    /\ written = 0 /\ buffered = 0
    /\ logCh = <<>> /\ outCh = <<>> /\ item = 0 /\ shown = <<>>
    /\ leave = FALSE
    /\ \/ /\ reader = "web"
          /\ request = "reading" /\ scanner = "scan" /\ relay = "select"
          /\ viewer = "reading" /\ cancelled = FALSE
       \/ /\ reader = "terminal"
          /\ request = "returned" /\ scanner = "done" /\ relay = "done"
          /\ viewer = "ended" /\ cancelled = TRUE

-----------------------------------------------------------------------------
(* The request. *)

Receive ==
    /\ request = "reading" /\ written < Lines
    /\ request' = "writing"
    /\ UNCHANGED <<reader, written, scannerVars, logCh, cancelled, relayVars,
                   leave, viewer, shown>>

\* A write to the pipe returns when the scanner has read it, which it does when
\* it has no line left: until then not even a cancellation ends it.
Emit(k) ==
    /\ request = "writing" /\ scanner = "scan" /\ buffered = 0
    /\ written + k <= Lines
    /\ written' = written + k
    /\ buffered' = k
    /\ request' = "reading"
    /\ UNCHANGED <<reader, scanner, logCh, cancelled, relayVars, leave, viewer,
                   shown>>

\* Logs returns and the pipe is closed: the container stopped, or the request
\* was cancelled.
RequestReturns ==
    /\ request = "reading"
    /\ request' = "returned"
    /\ UNCHANGED <<reader, written, scannerVars, logCh, cancelled, relayVars,
                   leave, viewer, shown>>

-----------------------------------------------------------------------------
(* The scanner. *)

Scan ==
    /\ scanner = "scan" /\ buffered > 0
    /\ scanner' = "send"
    /\ UNCHANGED <<reader, requestVars, buffered, logCh, cancelled, relayVars,
                   leave, viewer, shown>>

Send ==
    /\ scanner = "send" /\ Len(logCh) < Cap
    /\ logCh' = Append(logCh, written - buffered + 1)
    /\ buffered' = buffered - 1
    /\ scanner' = "scan"
    /\ UNCHANGED <<reader, requestVars, cancelled, relayVars, leave, viewer,
                   shown>>

\* The end of the pipe: logCh is closed.
Eof ==
    /\ scanner = "scan" /\ buffered = 0 /\ request = "returned"
    /\ scanner' = "done"
    /\ UNCHANGED <<reader, requestVars, buffered, logCh, cancelled, relayVars,
                   leave, viewer, shown>>

Drained == logCh = <<>> /\ scanner = "done"

-----------------------------------------------------------------------------
(* The relay of StreamContainerLogs, and the handler behind it. *)

RelayTakes ==
    /\ reader = "web" /\ relay = "select" /\ logCh # <<>>
    /\ item' = Head(logCh) /\ logCh' = Tail(logCh)
    /\ relay' = "send"
    /\ UNCHANGED <<reader, requestVars, scannerVars, cancelled, outCh, leave,
                   viewer, shown>>

RelaySends ==
    /\ relay = "send" /\ Len(outCh) < Cap
    /\ outCh' = Append(outCh, item) /\ item' = 0
    /\ relay' = "select"
    /\ UNCHANGED <<reader, requestVars, scannerVars, logCh, cancelled, leave,
                   viewer, shown>>

\* The context is done or logCh is closed: Stop, and outCh is closed.
RelayEnds ==
    /\ reader = "web" /\ relay = "select"
    /\ leave \/ Drained
    /\ relay' = "done" /\ cancelled' = TRUE
    /\ UNCHANGED <<reader, requestVars, scannerVars, logCh, item, outCh, leave,
                   viewer, shown>>

\* Mutant of HandlerTakes: the handler takes the latest line.
HandlerTakesLast ==
    /\ viewer = "reading" /\ outCh # <<>>
    /\ shown' = Append(shown, Last(outCh)) /\ outCh' = Front(outCh)
    /\ UNCHANGED <<reader, requestVars, scannerVars, logCh, cancelled, relay,
                   item, leave, viewer>>

HandlerTakes ==
    /\ viewer = "reading" /\ outCh # <<>>
    /\ shown' = Append(shown, Head(outCh)) /\ outCh' = Tail(outCh)
    /\ UNCHANGED <<reader, requestVars, scannerVars, logCh, cancelled, relay,
                   item, leave, viewer>>

\* outCh is closed: the end event, and the handler returns.
HandlerEnds ==
    /\ reader = "web" /\ viewer = "reading"
    /\ outCh = <<>> /\ relay = "done"
    /\ viewer' = "ended" /\ leave' = TRUE /\ cancelled' = TRUE
    /\ UNCHANGED <<reader, requestVars, scannerVars, logCh, relayVars, shown>>

\* The client goes away or the time of a snapshot is over: the context is done.
Disconnect ==
    /\ reader = "web" /\ viewer = "reading"
    /\ leave' = TRUE
    /\ UNCHANGED <<reader, requestVars, scannerVars, logCh, cancelled,
                   relayVars, viewer, shown>>

\* Mutant of HandlerLeaves: the deferred stopFunc is missing.
HandlerLeavesOnly ==
    /\ reader = "web" /\ viewer = "reading"
    /\ viewer' = "left" /\ leave' = TRUE
    /\ UNCHANGED <<reader, requestVars, scannerVars, logCh, cancelled,
                   relayVars, shown>>

\* The handler returns, because of the context or because a snapshot has all the
\* lines it wants; the deferred stopFunc stops the stream.
HandlerLeaves ==
    /\ reader = "web" /\ viewer = "reading"
    /\ viewer' = "left" /\ leave' = TRUE /\ cancelled' = TRUE
    /\ UNCHANGED <<reader, requestVars, scannerVars, logCh, relayVars, shown>>

-----------------------------------------------------------------------------
(* The log tab: its goroutine takes the place of the relay. *)

\* startLogStream, when the tab is shown: another stream, unless there is one.
StartLogStream ==
    /\ reader = "terminal" /\ viewer = "ended"
    /\ written' = 0 /\ buffered' = 0 /\ shown' = <<>>
    /\ request' = "reading" /\ scanner' = "scan" /\ relay' = "select"
    /\ viewer' = "reading" /\ cancelled' = FALSE
    /\ UNCHANGED <<reader, logCh, outCh, item, leave>>

TabTakes ==
    /\ reader = "terminal" /\ relay = "select" /\ logCh # <<>>
    /\ shown' = Append(shown, Head(logCh)) /\ logCh' = Tail(logCh)
    /\ UNCHANGED <<reader, requestVars, scannerVars, cancelled, relayVars,
                   leave, viewer>>

\* Mutant of TabEnds: the lines left in a closed channel are forgotten.
TabEndsEarly ==
    /\ reader = "terminal" /\ relay = "select"
    /\ leave \/ scanner = "done"
    /\ relay' = "done" /\ cancelled' = TRUE
    /\ viewer' = IF leave THEN viewer ELSE "ended"
    /\ UNCHANGED <<reader, requestVars, scannerVars, logCh, item, outCh, leave,
                   shown>>

TabEnds ==
    /\ reader = "terminal" /\ relay = "select"
    /\ leave \/ Drained
    /\ relay' = "done" /\ cancelled' = TRUE
    /\ viewer' = IF leave THEN viewer ELSE "ended"
    /\ UNCHANGED <<reader, requestVars, scannerVars, logCh, item, outCh, leave,
                   shown>>

\* The view is closed: a value for logQuit, if the goroutine still runs.
TabCloses ==
    /\ reader = "terminal" /\ viewer # "left"
    /\ viewer' = "left" /\ leave' = (leave \/ viewer = "reading")
    /\ UNCHANGED <<reader, requestVars, scannerVars, logCh, cancelled,
                   relayVars, shown>>

-----------------------------------------------------------------------------
Write == \E k \in 1..Chunk : Emit(k)
Scanner == Scan \/ Send \/ Eof
Relay == RelayTakes \/ RelaySends \/ RelayEnds \/ TabTakes \/ TabEnds
Handler == HandlerTakes \/ HandlerEnds

Next ==
    \/ Receive \/ Write \/ RequestReturns
    \/ Scanner \/ Relay \/ Handler
    \/ Disconnect \/ HandlerLeaves
    \/ StartLogStream \/ TabCloses

Spec == Init /\ [][Next]_vars

-----------------------------------------------------------------------------
(* Properties. *)

\* Every variable has its type.
TypeOK ==
    /\ reader \in {"web", "terminal"}
    /\ written \in 0..Lines /\ buffered \in 0..Chunk
    /\ request \in {"reading", "writing", "returned"}
    /\ scanner \in {"scan", "send", "done"}
    /\ logCh \in Seq(1..Lines) /\ Len(logCh) <= Cap
    /\ cancelled \in BOOLEAN /\ leave \in BOOLEAN
    /\ relay \in {"select", "send", "done"}
    /\ item \in 0..Lines
    /\ outCh \in Seq(1..Lines) /\ Len(outCh) <= Cap
    /\ viewer \in {"reading", "ended", "left"}
    /\ shown \in Seq(1..Lines)

InHand == IF item = 0 THEN <<>> ELSE <<item>>

\* The pipeline holds every line that was written, once and in order: what was
\* shown and what is still on its way make up the log.
NothingLost ==
    shown \o outCh \o InHand \o logCh
        = [i \in 1..(written - buffered) |-> i]

\* Types, capacities and content of the pipeline.
PipelineOK == TypeOK /\ NothingLost

\* A client that has not left, or the log tab, is told of the end only after
\* the last line.
EndAfterAll ==
    [][viewer' = "ended" /\ viewer = "reading" /\ ~leave
           => Len(shown) = written]_vars

\* And a reader that stays is told when the log ends.
EndReported == EndAfterAll /\ (request = "returned" ~> viewer # "reading")

Stopped == request = "returned" /\ scanner = "done" /\ relay = "done"

\* A send into a full channel that nobody will ever read.
Stuck ==
    \/ relay = "done" /\ scanner = "send" /\ Len(logCh) = Cap
    \/ viewer = "left" /\ relay = "send" /\ Len(outCh) = Cap

\* When the reader's context is done or its view closed, Stop cancels the
\* request to the daemon, however full the channels are; and when the reader has
\* gone all goroutines end, unless one of them is stuck in a send: a pipeline
\* that has room for what is on its way always ends.
Departs ==
    /\ leave ~> cancelled
    /\ viewer = "left" ~> Stopped \/ Stuck

=============================================================================
