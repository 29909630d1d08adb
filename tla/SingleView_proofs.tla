-------------------------- MODULE SingleView_proofs --------------------------
(***************************************************************************)
(* Proofs about the view of one container and the log that is followed for *)
(* it or for the web server, for every capacity of the channels, buffers   *)
(* and windows, and any number of lines, probes, fetches and requests; and *)
(* about the file explorer, one of its tabs, for any number of readers of  *)
(* the same cache of listings.                                             *)
(***************************************************************************)
EXTENDS SingleView, Explorer, Filtering_proofs

-----------------------------------------------------------------------------
(* The view is made of steps of the pipeline. *)

LEMMA ViewStepsLog == [ViewNext]_allVars => [Next]_vars
<1> SUFFICES ASSUME [ViewNext]_allVars PROVE Next \/ UNCHANGED vars
  OBVIOUS
<1>1. ASSUME NEW tab \in Tabs \cup {"other"}, SwitchTab(tab)
      PROVE  Next \/ UNCHANGED vars
  BY <1>1 DEF SwitchTab, ShowLogs, ShowNetwork, ShowDiff, ShowOther, Next
<1>2. CASE Close
  BY <1>2 DEF Close, Next
<1>3. CASE LogSteps \/ Follow
  BY <1>3 DEF LogSteps, Follow, Next, Relay
<1>4. CASE LogKeys \/ Reprobe \/ WebTabKeys \/ SetMeta \/ Probing \/ Fetched
           \/ DiffAnswered
  BY <1>4 DEF LogKeys, Reprobe, WebTabKeys, SetMeta, Probing, Fetched,
              DiffAnswered
<1>5. CASE UNCHANGED allVars
  BY <1>5 DEF allVars
<1> QED BY <1>1, <1>2, <1>3, <1>4, <1>5 DEF ViewNext

\* The pipeline behind the view behaves as the pipeline by itself: what is
\* proved of LogStream holds of every view and of the web server's readers.
THEOREM ViewImplementsLog == ViewSpec => Spec
<1>1. ViewInit => Init
  BY DEF ViewInit
<1> QED BY <1>1, ViewStepsLog, PTL DEF ViewSpec, Spec

-----------------------------------------------------------------------------
(* Sequences. *)

LEMMA Concat ==
    ASSUME NEW S, NEW s \in Seq(S), NEW t \in Seq(S)
    PROVE  /\ s \o t \in Seq(S) /\ Len(s \o t) = Len(s) + Len(t)
           /\ s \o <<>> = s
BY ConcatProperties, ConcatEmptySeq

\* Taking the head of one queue to the end of the one before it.
LEMMA Moved ==
    ASSUME NEW S, NEW s \in Seq(S), NEW t \in Seq(S), t # <<>>
    PROVE  Append(s, Head(t)) \o Tail(t) = s \o t
<1> DEFINE h == Head(t)
           r == Tail(t)
<1>1. h \in S /\ r \in Seq(S) /\ <<h>> \in Seq(S)
  OBVIOUS
<1>2. t = <<h>> \o r
  <2>1. /\ Len(t) \in Nat \ {0} /\ Len(r) = Len(t) - 1 /\ h = t[1]
        /\ \A i \in 1..Len(r) : r[i] = t[i + 1]
    BY HeadTailProperties, EmptySeq
  <2>2. /\ <<h>> \o r \in Seq(S) /\ Len(<<h>> \o r) = Len(<<h>>) + Len(r)
        /\ \A i \in 1..Len(<<h>>)+Len(r) :
               (<<h>> \o r)[i] = IF i <= Len(<<h>>) THEN <<h>>[i]
                                                     ELSE r[i - Len(<<h>>)]
    BY <1>1, ConcatProperties
  <2>3. Len(<<h>>) = 1 /\ <<h>>[1] = h
    OBVIOUS
  <2> DEFINE c == <<h>> \o r
  <2>4. c \in Seq(S) /\ Len(c) = Len(t)
    BY <2>1, <2>2, <2>3
  <2>5. \A i \in 1..Len(t) : c[i] = IF i <= 1 THEN h ELSE r[i - 1]
    <3> SUFFICES ASSUME NEW i \in 1..Len(t)
                 PROVE  c[i] = IF i <= 1 THEN h ELSE r[i - 1]
      OBVIOUS
    <3>1. i \in 1..Len(<<h>>)+Len(r)
      BY <2>1, <2>3
    <3>2. i <= 1 => i = 1
      BY <2>1
    <3> QED BY <2>2, <2>3, <3>1, <3>2
  <2> HIDE DEF c, h, r
  <2>6. \A i \in 1..Len(t) : c[i] = t[i]
    <3> SUFFICES ASSUME NEW i \in 1..Len(t) PROVE c[i] = t[i]
      OBVIOUS
    <3>1. CASE i = 1
      BY <2>1, <2>5, <3>1
    <3>2. CASE i # 1
      <4>1. i - 1 \in 1..Len(r) /\ ~(i <= 1) /\ (i - 1) + 1 = i
        BY <2>1, <3>2
      <4> QED BY <2>1, <2>5, <4>1
    <3> QED BY <3>1, <3>2
  <2> QED BY <2>4, <2>6, SeqEqual DEF c
<1>3. Append(s, h) = s \o <<h>>
  BY <1>1, AppendIsConcat
<1> HIDE DEF h, r
<1>4. (s \o <<h>>) \o r = s \o (<<h>> \o r)
  BY <1>1, ConcatAssociative
<1> QED BY <1>2, <1>3, <1>4 DEF h, r

\* Adding to a queue adds to the end of all before it.
LEMMA Added ==
    ASSUME NEW S, NEW s \in Seq(S), NEW t \in Seq(S), NEW x \in S
    PROVE  s \o Append(t, x) = Append(s \o t, x)
<1>1. <<x>> \in Seq(S) /\ s \o t \in Seq(S)
  BY Concat
<1>2. Append(t, x) = t \o <<x>> /\ Append(s \o t, x) = (s \o t) \o <<x>>
  BY <1>1, AppendIsConcat
<1>3. (s \o t) \o <<x>> = s \o (t \o <<x>>)
  BY <1>1, ConcatAssociative
<1> QED BY <1>2, <1>3

Upto(n) == [i \in 1..n |-> i]

LEMMA UptoNext ==
    ASSUME NEW n \in Nat PROVE Upto(n + 1) = Append(Upto(n), n + 1)
<1>1. /\ Upto(n) \in Seq(Nat) /\ Len(Upto(n)) = n
      /\ Upto(n + 1) \in Seq(Nat) /\ Len(Upto(n + 1)) = n + 1
      /\ \A i \in 1..n : Upto(n)[i] = i
      /\ \A i \in 1..n+1 : Upto(n + 1)[i] = i
  BY DEF Upto
<1> DEFINE a == Append(Upto(n), n + 1)
<1>2. a \in Seq(Nat) /\ Len(a) = n + 1 /\ \A i \in 1..n+1 : a[i] = i
  BY <1>1
<1> HIDE DEF a
<1>3. \A i \in 1..Len(a) : a[i] = Upto(n + 1)[i]
  BY <1>1, <1>2
<1> QED BY <1>1, <1>2, <1>3, SeqEqual DEF a

-----------------------------------------------------------------------------
(* The pipeline. *)

\* The goroutines, and what the state of one says of another: the scanner sends
\* only what it has and stops only at the end, the relay has a line in hand just
\* when it is to send it, the terminal's lines take the short way, and where
\* the end was seen nothing is left.
Goroutines ==
    /\ reader \in {"web", "terminal"}
    /\ written \in 0..Lines /\ buffered \in 0..Chunk /\ buffered <= written
    /\ request \in {"reading", "writing", "returned"}
    /\ scanner \in {"scan", "send", "done"}
    /\ cancelled \in BOOLEAN /\ leave \in BOOLEAN
    /\ relay \in {"select", "send", "done"}
    /\ viewer \in {"reading", "ended", "left"}
    /\ scanner = "send" => buffered > 0
    /\ scanner = "done" => buffered = 0 /\ request = "returned"
    /\ relay = "send" <=> item # 0
    /\ reader = "terminal" => outCh = <<>> /\ item = 0
    /\ reader = "terminal" /\ viewer = "ended" => Drained /\ relay = "done"
    /\ reader = "web" /\ relay = "done" /\ ~leave => Drained

Queues ==
    /\ logCh \in Seq(1..Lines) /\ Len(logCh) <= Cap
    /\ outCh \in Seq(1..Lines) /\ Len(outCh) <= Cap
    /\ item \in 0..Lines
    /\ shown \in Seq(1..Lines)

PipelineInv == Goroutines /\ Queues /\ NothingLost

LEMMA PipelineInit == Init => PipelineInv
<1> SUFFICES ASSUME Init PROVE PipelineInv
  OBVIOUS
<1>1. /\ written = 0 /\ buffered = 0 /\ logCh = <<>> /\ outCh = <<>>
      /\ item = 0 /\ shown = <<>> /\ leave = FALSE
  BY DEF Init
<1>2. <<>> \in Seq(1..Lines) /\ Len(<<>>) = 0
  BY EmptySeq
<1>3. Goroutines
  <2>1. 0 \in 0..Lines /\ 0 \in 0..Chunk
    BY CapAssumption, LinesAssumption
  <2>2. CASE reader = "web" /\ relay = "select" /\ viewer = "reading"
               /\ request = "reading" /\ scanner = "scan" /\ cancelled = FALSE
    <3>1. leave \in BOOLEAN /\ cancelled \in BOOLEAN
      BY <1>1, <2>2
    <3> QED BY <1>1, <2>1, <2>2, <3>1 DEF Goroutines
  <2>3. CASE reader = "terminal" /\ relay = "done" /\ viewer = "ended"
               /\ request = "returned" /\ scanner = "done" /\ cancelled = TRUE
    <3>1. leave \in BOOLEAN /\ cancelled \in BOOLEAN
      BY <1>1, <2>3
    <3> QED BY <1>1, <2>1, <2>3, <3>1 DEF Goroutines, Drained
  <2> QED BY <2>2, <2>3 DEF Init
<1>4. Queues
  BY <1>1, <1>2, CapAssumption, LinesAssumption DEF Queues
<1>5. NothingLost
  <2>1. <<>> \o <<>> = <<>>
    BY <1>2, ConcatEmptySeq
  <2>2. [i \in 1..0 |-> i] = <<>>
    OBVIOUS
  <2> QED BY <1>1, <2>1, <2>2 DEF NothingLost, InHand
<1> QED BY <1>3, <1>4, <1>5 DEF PipelineInv

LEMMA GoroutinesStep == Goroutines /\ Queues /\ [Next]_vars => Goroutines'
<1> SUFFICES ASSUME Goroutines, Queues, [Next]_vars PROVE Goroutines'
  OBVIOUS
<1> USE CapAssumption, LinesAssumption DEF Goroutines, Drained
<1>1. CASE Receive \/ RequestReturns
  BY <1>1 DEF Receive, RequestReturns, scannerVars, relayVars
<1>2. ASSUME NEW k \in 1..Chunk, Emit(k) PROVE Goroutines'
  BY <1>2 DEF Emit, relayVars
<1>3. CASE Scan \/ Eof
  BY <1>3 DEF Scan, Eof, requestVars, relayVars
<1>4. CASE Send
  BY <1>4 DEF Send, requestVars, relayVars
<1>5. CASE RelayTakes
  <2>1. Head(logCh) # 0
    BY <1>5 DEF RelayTakes, Queues
  <2> QED BY <1>5, <2>1 DEF RelayTakes, requestVars, scannerVars
<1>6. CASE RelaySends
  BY <1>6 DEF RelaySends, requestVars, scannerVars
<1>7. CASE RelayEnds
  BY <1>7 DEF RelayEnds, requestVars, scannerVars
<1>8. CASE HandlerTakes
  BY <1>8 DEF HandlerTakes, requestVars, scannerVars
<1>9. CASE HandlerEnds \/ Disconnect \/ HandlerLeaves
  BY <1>9 DEF HandlerEnds, Disconnect, HandlerLeaves, requestVars, scannerVars,
              relayVars
<1>10. CASE StartLogStream
  <2>1. 0 \in 0..Lines /\ 0 \in 0..Chunk /\ 0 <= 0
    OBVIOUS
  <2>2. /\ reader' = "terminal" /\ outCh' = <<>> /\ item' = 0
        /\ written' = 0 /\ buffered' = 0 /\ leave' \in BOOLEAN
        /\ request' = "reading" /\ scanner' = "scan" /\ relay' = "select"
        /\ viewer' = "reading" /\ cancelled' = FALSE
    BY <1>10 DEF StartLogStream
  <2> QED BY <2>1, <2>2
<1>11. CASE TabTakes
  BY <1>11 DEF TabTakes, requestVars, scannerVars, relayVars
<1>12. CASE TabEnds
  BY <1>12 DEF TabEnds, requestVars, scannerVars
<1>13. CASE TabCloses
  BY <1>13 DEF TabCloses, requestVars, scannerVars, relayVars
<1>14. CASE UNCHANGED vars
  BY <1>14 DEF vars, requestVars, scannerVars, relayVars
<1> QED BY <1>1, <1>2, <1>3, <1>4, <1>5, <1>6, <1>7, <1>8, <1>9, <1>10, <1>11,
           <1>12, <1>13, <1>14 DEF Next, Write, Scanner, Relay, Handler

\* What a step does to the queues: the line that goes from one to the next is
\* one of the log's.
LEMMA QueuesStep == Goroutines /\ Queues /\ [Next]_vars => Queues'
<1> SUFFICES ASSUME Goroutines, Queues, [Next]_vars PROVE Queues'
  OBVIOUS
<1> USE CapAssumption, LinesAssumption
<1>1. ASSUME UNCHANGED <<logCh, outCh, item, shown>> PROVE Queues'
  BY <1>1 DEF Queues
<1>2. CASE Send
  <2>1. written - buffered + 1 \in 1..Lines
    BY <1>2 DEF Send, Goroutines
  <2>2. UNCHANGED <<outCh, item, shown>>
    BY <1>2 DEF Send, relayVars
  <2> QED BY <1>2, <2>1, <2>2 DEF Send, Queues
<1>3. CASE RelayTakes
  BY <1>3 DEF RelayTakes, Queues
<1>4. CASE RelaySends
  <2>1. item \in 1..Lines
    BY <1>4 DEF RelaySends, Queues, Goroutines
  <2>2. 0 \in 0..Lines
    OBVIOUS
  <2> QED BY <1>4, <2>1, <2>2 DEF RelaySends, Queues
<1>5. CASE HandlerTakes
  BY <1>5 DEF HandlerTakes, Queues
<1>6. CASE StartLogStream
  BY <1>6 DEF StartLogStream, Queues
<1>7. CASE TabTakes
  BY <1>7 DEF TabTakes, relayVars, Queues
<1> QED
  BY <1>1, <1>2, <1>3, <1>4, <1>5, <1>6, <1>7
  DEF Next, vars, Write, Scanner, Relay, Handler, Receive, Emit, RequestReturns,
      Scan, Eof, RelayEnds, HandlerEnds, Disconnect, HandlerLeaves, TabEnds,
      TabCloses, relayVars

LEMMA ContentStep ==
    Goroutines /\ Queues /\ NothingLost /\ [Next]_vars => NothingLost'
<1> SUFFICES ASSUME Goroutines, Queues, NothingLost, [Next]_vars
             PROVE  NothingLost'
  OBVIOUS
<1> DEFINE D == 1..Lines
<1>t. /\ shown \in Seq(D) /\ outCh \in Seq(D) /\ logCh \in Seq(D)
      /\ InHand \in Seq(D) /\ item \in 0..Lines
  <2>1. item # 0 => item \in D
    BY LinesAssumption DEF Queues
  <2>2. InHand \in Seq(D)
    <3>1. CASE item = 0
      BY <3>1 DEF InHand
    <3>2. CASE item # 0
      <4>1. <<item>> \in Seq(D)
        BY <2>1, <3>2
      <4> QED BY <3>2, <4>1 DEF InHand
    <3> QED BY <3>1, <3>2
  <2> QED BY <2>2 DEF Queues
<1>n. written \in Nat /\ buffered \in Nat /\ written - buffered \in Nat
  BY CapAssumption, LinesAssumption DEF Goroutines
<1>l. shown \o outCh \o InHand \o logCh = Upto(written - buffered)
  BY DEF NothingLost, Upto
<1>c. ASSUME shown' \o outCh' \o InHand' \o logCh' = Upto(written' - buffered')
      PROVE  NothingLost'
  BY <1>c DEF NothingLost, Upto
<1> HIDE DEF D
<1>1. ASSUME UNCHANGED <<logCh, outCh, item, shown>>,
             written' - buffered' = written - buffered
      PROVE  NothingLost'
  <2>1. InHand' = InHand
    BY <1>1 DEF InHand
  <2> QED BY <1>1, <1>l, <1>c, <2>1
<1>2. ASSUME NEW k \in 1..Chunk, Emit(k) PROVE NothingLost'
  <2>1. buffered = 0 /\ written' = written + k /\ buffered' = k /\ k \in Nat
    BY <1>2, CapAssumption DEF Emit
  <2> QED BY <1>1, <1>2, <1>n, <2>1 DEF Emit, relayVars
<1>3. CASE Send
  <2> DEFINE n == written - buffered
             before == shown \o outCh \o InHand
  <2>1. /\ UNCHANGED <<outCh, item, shown>> /\ logCh' = Append(logCh, n + 1)
        /\ written' - buffered' = n + 1
    BY <1>3, <1>n DEF Send, requestVars, relayVars
  <2>2. n \in Nat /\ n + 1 \in D
    <3>1. buffered \in Nat /\ buffered > 0 /\ written \in 0..Lines
      BY <1>3, <1>n DEF Send, Goroutines
    <3> QED BY <1>n, <3>1, LinesAssumption DEF D
  <2>3. InHand' = InHand
    BY <2>1 DEF InHand
  <2>4. before \in Seq(D)
    BY <1>t, Concat
  <2> HIDE DEF n, before
  <2>5. before \o Append(logCh, n + 1) = Append(before \o logCh, n + 1)
    BY <1>t, <2>2, <2>4, Added
  <2>6. before \o logCh = Upto(n)
    BY <1>l DEF before, n
  <2>7. before \o Append(logCh, n + 1) = Upto(n + 1)
    BY <2>2, <2>5, <2>6, UptoNext
  <2> QED BY <1>c, <2>1, <2>3, <2>7 DEF before
<1>4. CASE RelayTakes
  <2> DEFINE before == shown \o outCh
             h == Head(logCh)
             r == Tail(logCh)
  <2>1. /\ UNCHANGED <<shown, outCh>> /\ item' = h /\ logCh' = r /\ logCh # <<>>
        /\ relay = "select" /\ written' - buffered' = written - buffered
    BY <1>4 DEF RelayTakes, requestVars, scannerVars
  <2>2. h \in D /\ r \in Seq(D) /\ h # 0
    BY <1>t, <2>1, LinesAssumption DEF D
  <2>3. InHand = <<>> /\ InHand' = <<h>>
    BY <2>1, <2>2 DEF Goroutines, InHand
  <2>4. before \in Seq(D) /\ before \o <<>> = before
    BY <1>t, Concat
  <2>5. Append(before, h) \o r = before \o logCh
    BY <1>t, <2>1, <2>4, Moved
  <2> HIDE DEF h, r
  <2>6. before \o <<h>> = Append(before, h)
    BY <2>2, <2>4, AppendIsConcat
  <2>7. (before \o <<h>>) \o r = before \o logCh
    BY <2>5, <2>6
  <2>8. before \o logCh = Upto(written - buffered)
    BY <1>l, <2>3, <2>4
  <2> QED BY <1>c, <2>1, <2>3, <2>7, <2>8
<1>5. CASE RelaySends
  <2>1. /\ UNCHANGED <<shown, logCh>> /\ outCh' = Append(outCh, item) /\ item' = 0
        /\ relay = "send" /\ written' - buffered' = written - buffered
    BY <1>5 DEF RelaySends, requestVars, scannerVars
  <2>2. item \in D /\ item # 0
    BY <1>t, <2>1, LinesAssumption DEF Goroutines, D
  <2>3. InHand = <<item>> /\ InHand' = <<>>
    BY <2>1, <2>2 DEF InHand
  <2>4. shown \o outCh \in Seq(D)
    BY <1>t, Concat
  <2>5. shown \o Append(outCh, item) = Append(shown \o outCh, item)
    BY <1>t, <2>2, Added
  <2>6. Append(shown \o outCh, item) = (shown \o outCh) \o <<item>>
    BY <2>2, <2>4, AppendIsConcat
  <2>7. /\ shown \o Append(outCh, item) \in Seq(D)
        /\ (shown \o Append(outCh, item)) \o <<>> = shown \o Append(outCh, item)
    <3>1. Append(outCh, item) \in Seq(D)
      BY <1>t, <2>2
    <3> QED BY <1>t, <3>1, Concat
  <2> QED BY <1>c, <1>l, <2>1, <2>3, <2>5, <2>6, <2>7
<1>6. CASE HandlerTakes
  <2> DEFINE h == Head(outCh)
             r == Tail(outCh)
  <2>1. /\ UNCHANGED <<item, logCh>> /\ outCh' = r /\ shown' = Append(shown, h)
        /\ outCh # <<>> /\ written' - buffered' = written - buffered
    BY <1>6 DEF HandlerTakes, requestVars, scannerVars
  <2>2. Append(shown, h) \o r = shown \o outCh
    BY <1>t, <2>1, Moved
  <2>3. InHand' = InHand
    BY <2>1 DEF InHand
  <2> HIDE DEF h, r
  <2> QED BY <1>c, <1>l, <2>1, <2>2, <2>3
<1>7. CASE TabTakes
  <2> DEFINE h == Head(logCh)
             r == Tail(logCh)
  <2>1. /\ UNCHANGED <<item, outCh>> /\ logCh' = r /\ shown' = Append(shown, h)
        /\ logCh # <<>> /\ written' - buffered' = written - buffered
        /\ outCh = <<>> /\ item = 0
    BY <1>7 DEF TabTakes, requestVars, scannerVars, relayVars, Goroutines
  <2>2. Append(shown, h) \o r = shown \o logCh
    BY <1>t, <2>1, Moved
  <2>3. InHand = <<>> /\ InHand' = <<>>
    BY <2>1 DEF InHand
  <2>4. Append(shown, h) \in Seq(D)
    BY <1>t, <2>1
  <2> HIDE DEF h, r
  <2>5. /\ shown \o <<>> = shown
        /\ Append(shown, h) \o <<>> = Append(shown, h)
    BY <1>t, <2>4, Concat
  <2> QED BY <1>c, <1>l, <2>1, <2>2, <2>3, <2>5
<1>8. CASE StartLogStream
  <2>1. /\ shown' = <<>> /\ outCh' = <<>> /\ item' = 0 /\ logCh' = <<>>
        /\ written' = 0 /\ buffered' = 0
    BY <1>8 DEF StartLogStream, Goroutines, Drained
  <2>2. InHand' = <<>> /\ <<>> \o <<>> = <<>> /\ Upto(0) = <<>>
    <3>1. <<>> \in Seq(D)
      OBVIOUS
    <3> QED BY <2>1, <3>1, Concat DEF InHand, Upto
  <2> QED BY <1>c, <2>1, <2>2
<1> QED
  BY <1>1, <1>2, <1>3, <1>4, <1>5, <1>6, <1>7, <1>8
  DEF Next, vars, Write, Scanner, Relay, Handler, Receive, RequestReturns,
      Scan, Eof, RelayEnds, HandlerEnds, Disconnect, HandlerLeaves, TabEnds,
      TabCloses, requestVars, scannerVars, relayVars

LEMMA PipelineStep == PipelineInv /\ [Next]_vars => PipelineInv'
BY GoroutinesStep, QueuesStep, ContentStep DEF PipelineInv

\* In the pipeline from the container's log to its reader every queue has its
\* type and respects its capacity, and no line is lost, doubled or put out of
\* order, whichever goroutine runs when and whoever leaves or ends first.
THEOREM PipelineCorrect == Spec => []PipelineOK
<1>1. PipelineInv => PipelineOK
  BY DEF PipelineInv, Goroutines, Queues, PipelineOK, TypeOK
<1> QED BY PipelineInit, PipelineStep, <1>1, PTL DEF Spec

LEMMA EndStep ==
    PipelineInv /\ [Next]_vars
        => (viewer' = "ended" /\ viewer = "reading" /\ ~leave
                => Len(shown) = written)
<1> SUFFICES ASSUME PipelineInv, [Next]_vars, viewer' = "ended",
                    viewer = "reading", ~leave
             PROVE  Len(shown) = written
  OBVIOUS
<1>1. HandlerEnds \/ TabEnds
  BY DEF Next, vars, Write, Scanner, Relay, Handler, Receive, Emit,
         RequestReturns, Scan, Send, Eof, RelayTakes, RelaySends, RelayEnds,
         HandlerTakes, Disconnect, HandlerLeaves, StartLogStream, TabTakes,
         TabCloses
<1>2. outCh = <<>> /\ item = 0 /\ logCh = <<>> /\ buffered = 0
  BY <1>1 DEF HandlerEnds, TabEnds, PipelineInv, Goroutines, Drained
<1>3. InHand = <<>> /\ shown \in Seq(1..Lines)
  BY <1>2 DEF InHand, PipelineInv, Queues
<1>4. shown \o outCh \o InHand \o logCh = shown
  BY <1>2, <1>3, Concat
<1>5. shown = Upto(written) /\ written \in Nat
  <2>1. written \in Nat /\ written - buffered = written
    BY <1>2, LinesAssumption DEF PipelineInv, Goroutines
  <2> QED BY <1>4, <2>1 DEF PipelineInv, NothingLost, Upto
<1> QED BY <1>5 DEF Upto

\* A client that has not left, or the log tab, is told of the end of the log
\* only after its last line.
THEOREM EndComesLast == Spec => EndAfterAll
<1>1. PipelineInv /\ [Next]_vars
          => [viewer' = "ended" /\ viewer = "reading" /\ ~leave
                  => Len(shown) = written]_vars
  BY EndStep
<1> QED BY PipelineInit, PipelineStep, <1>1, PTL DEF Spec, EndAfterAll

-----------------------------------------------------------------------------
(* The log tab's widget. *)

\* A buffer that is not full has lost nothing, and the window of it ends with
\* the last line at the latest.
WidgetInv ==
    /\ Entries \in Seq(Nat) /\ WidgetTypeOK
    /\ Len(Entries) < MaxEntries => Offset <= MaxOffset

LEMMA RenderedType ==
    ASSUME Entries \in Seq(Nat)
    PROVE  /\ Rendered \in Seq(Nat) /\ Len(Rendered) \in Nat
           /\ Len(Rendered) <= Len(Entries)
           /\ MaxOffset \in Nat /\ MaxOffset <= Len(Entries)
<1>1. Rendered \in Seq(Nat) /\ Len(Rendered) \in Nat /\ Len(Rendered) <= Len(Entries)
  BY OnlyInKeeps, OnlyInLength DEF Rendered
<1>2. Len(Entries) \in Nat
  OBVIOUS
<1> QED BY <1>1, <1>2, HeightAssumption DEF MaxOffset

LEMMA RenderedTypeNext ==
    ASSUME Entries' \in Seq(Nat)
    PROVE  MaxOffset' \in Nat /\ MaxOffset' <= Len(Entries')
<1>1. Len(Rendered') \in Nat /\ Len(Rendered') <= Len(Entries')
  BY OnlyInLength DEF Rendered
<1>2. Len(Entries') \in Nat
  OBVIOUS
<1> QED BY <1>1, <1>2, HeightAssumption DEF MaxOffset

\* Whatever offset the window is drawn with, it ends up with one it may have.
LEMMA DrawStep ==
    ASSUME WidgetInv, NEW o \in Nat, NEW tail \in BOOLEAN, Draw(o, tail),
           Filter' \in BOOLEAN, FilterExclude' \in BOOLEAN
    PROVE  WidgetInv'
<1>1. Entries' = Entries /\ Entries \in Seq(Nat) /\ Len(Entries) \in Nat
  BY DEF Draw, WidgetInv
<1>2. MaxOffset' \in Nat /\ MaxOffset' <= Len(Entries)
  BY <1>1, RenderedTypeNext
<1>3. AutoTail' \in BOOLEAN
  BY Zenon DEF Draw
<1>4. Offset' \in Nat /\ Offset' <= MaxOffset'
  BY <1>2 DEF Draw
<1>5. Offset' \in 0..MaxEntries
  BY <1>1, <1>2, <1>4, EntriesAssumption DEF WidgetInv, WidgetTypeOK
<1> QED BY <1>1, <1>3, <1>4, <1>5 DEF WidgetInv, WidgetTypeOK

LEMMA KeysStep == WidgetInv /\ (Keys \/ Redraw) => WidgetInv'
<1> SUFFICES ASSUME WidgetInv, Keys \/ Redraw PROVE WidgetInv'
  OBVIOUS
<1>1. /\ Offset \in Nat /\ AutoTail \in BOOLEAN /\ Filter \in BOOLEAN
      /\ FilterExclude \in BOOLEAN /\ HalfPage \in Nat
  BY EntriesAssumption, HeightAssumption DEF WidgetInv, WidgetTypeOK, HalfPage
<1>2. Filter' \in BOOLEAN /\ FilterExclude' \in BOOLEAN
  BY <1>1 DEF Keys, Redraw, Up, Down, PgUp, PgDown, ScrollTop, ScrollBottom,
              SetFilter, ToggleFilterMode, Filtered
<1>3. \E o \in Nat, tail \in BOOLEAN : Draw(o, tail)
  <2>1. CASE Up
    <3>1. (IF Offset > 0 THEN Offset - 1 ELSE 0) \in Nat
      BY <1>1
    <3> QED BY <2>1, <3>1 DEF Up
  <2>2. CASE Down
    BY <1>1, <2>2 DEF Down
  <2>3. CASE PgUp
    <3>1. (IF Offset > HalfPage THEN Offset - HalfPage ELSE 0) \in Nat
      BY <1>1
    <3> QED BY <2>3, <3>1 DEF PgUp
  <2>4. CASE PgDown
    BY <1>1, <2>4 DEF PgDown
  <2>5. CASE ScrollTop \/ ScrollBottom \/ SetFilter \/ ToggleFilterMode \/ Redraw
    BY <1>1, <2>5
    DEF ScrollTop, ScrollBottom, SetFilter, ToggleFilterMode, Redraw
  <2> QED BY <2>1, <2>2, <2>3, <2>4, <2>5 DEF Keys
<1> QED BY <1>2, <1>3, DrawStep

\* A line that is added to a buffer with room leaves what is shown, and may
\* follow it.
LEMMA AddAppends ==
    ASSUME WidgetInv, NEW line \in Nat, Add(line), Len(Entries) < MaxEntries
    PROVE  /\ Entries' = Append(Entries, line)
           /\ Rendered' = IF line \in Visible THEN Append(Rendered, line)
                                              ELSE Rendered
<1>1. Entries' = Append(Entries, line) /\ Entries \in Seq(Nat)
  BY DEF Add, WidgetInv
<1>2. Visible' = Visible
  BY DEF Add, Visible
<1>3. OnlyIn(Append(Entries, line), Visible) =
          IF line \in Visible THEN Append(OnlyIn(Entries, Visible), line)
                              ELSE OnlyIn(Entries, Visible)
  BY <1>1, OnlyInAppendIs
<1> QED BY <1>1, <1>2, <1>3 DEF Rendered

LEMMA AddStep == WidgetInv /\ (\E line \in Nat : Add(line)) => WidgetInv'
<1> SUFFICES ASSUME WidgetInv, NEW line \in Nat, Add(line) PROVE WidgetInv'
  OBVIOUS
<1>1. /\ Entries \in Seq(Nat) /\ Len(Entries) \in Nat
      /\ Len(Entries) <= MaxEntries /\ MaxEntries \in Nat \ {0}
  BY EntriesAssumption DEF WidgetInv, WidgetTypeOK
<1>2. UNCHANGED <<Offset, AutoTail, Filter, FilterExclude>>
  BY DEF Add
<1>3. CASE Len(Entries) < MaxEntries
  <2>1. /\ Entries' = Append(Entries, line) /\ Offset <= MaxOffset
        /\ Rendered' = IF line \in Visible THEN Append(Rendered, line)
                                           ELSE Rendered
    BY <1>3, AddAppends DEF WidgetInv
  <2>2. Entries' \in Seq(Nat) /\ Len(Entries') <= MaxEntries
    BY <1>1, <1>3, <2>1
  <2>3. Rendered \in Seq(Nat) /\ Len(Rendered) \in Nat /\ Offset \in Nat
    BY <1>1, RenderedType DEF WidgetInv, WidgetTypeOK
  <2>4. Len(Rendered') \in Nat /\ Len(Rendered') >= Len(Rendered)
    BY <2>1, <2>3
  <2>5. Offset <= MaxOffset'
    BY <2>1, <2>3, <2>4, HeightAssumption DEF MaxOffset
  <2> QED BY <1>2, <2>2, <2>5 DEF WidgetInv, WidgetTypeOK
<1>4. CASE ~(Len(Entries) < MaxEntries)
  <2>1. Entries' = Append(Tail(Entries), line) /\ Entries # <<>>
    BY <1>1, <1>4 DEF Add
  <2>2. Entries' \in Seq(Nat) /\ Len(Entries') = MaxEntries
    BY <1>1, <1>4, <2>1
  <2> QED BY <1>1, <1>2, <2>2 DEF WidgetInv, WidgetTypeOK
<1> QED BY <1>3, <1>4

\* The part of a sequence from one place to another is the beginning of the
\* part from there to a later place, of the sequence or of one that extends it.
LEMMA PartGrows ==
    ASSUME NEW S, NEW s \in Seq(S), NEW t \in Seq(S),
           Len(s) <= Len(t), \A i \in 1..Len(s) : t[i] = s[i],
           NEW o \in Nat, NEW m \in 0..Len(s), NEW n \in 0..Len(t),
           o <= m, m <= n
    PROVE  IsPrefix(SubSeq(s, o + 1, m), SubSeq(t, o + 1, n))
<1> DEFINE a == SubSeq(s, o + 1, m)
           b == SubSeq(t, o + 1, n)
<1>1. /\ a \in Seq(S) /\ Len(a) = IF o + 1 <= m THEN m - (o + 1) + 1 ELSE 0
      /\ \A i \in 1..m-(o+1)+1 : a[i] = s[(o + 1) + i - 1]
  <2>1. \A i \in o+1..m : s[i] \in S
    OBVIOUS
  <2> QED BY <2>1, SubSeqProperties
<1>2. /\ b \in Seq(S) /\ Len(b) = IF o + 1 <= n THEN n - (o + 1) + 1 ELSE 0
      /\ \A i \in 1..n-(o+1)+1 : b[i] = t[(o + 1) + i - 1]
  <2>1. \A i \in o+1..n : t[i] \in S
    OBVIOUS
  <2> QED BY <2>1, SubSeqProperties
<1> HIDE DEF a, b
<1>3. Len(a) = m - o /\ Len(b) = n - o /\ m - o \in Nat /\ n - o \in Nat
  BY <1>1, <1>2
<1>4. \A i \in 1..m-o : a[i] = b[i]
  <2> SUFFICES ASSUME NEW i \in 1..m-o PROVE a[i] = b[i]
    OBVIOUS
  <2>1. /\ i \in 1..m-(o+1)+1 /\ i \in 1..n-(o+1)+1
        /\ (o + 1) + i - 1 \in 1..Len(s)
    BY <1>3
  <2> QED BY <1>1, <1>2, <2>1
<1>5. /\ SubSeq(a, 1, Len(a)) = a
      /\ SubSeq(b, 1, Len(a)) \in Seq(S) /\ Len(SubSeq(b, 1, Len(a))) = Len(a)
      /\ \A i \in 1..Len(a) : SubSeq(b, 1, Len(a))[i] = b[i]
  <2>1. \A i \in 1..m-o : b[i] \in S
    BY <1>2, <1>3
  <2>2. m - o \in Int /\ 1 \in Int
    BY <1>3
  <2> DEFINE c == SubSeq(b, 1, m - o)
  <2>3. /\ c \in Seq(S) /\ Len(c) = IF 1 <= m - o THEN m - o - 1 + 1 ELSE 0
        /\ \A i \in 1..(m-o)-1+1 : c[i] = b[1 + i - 1]
    BY <2>1, <2>2, SubSeqProperties
  <2> HIDE DEF c
  <2>4. Len(c) = m - o /\ \A i \in 1..m-o : c[i] = b[i]
    BY <1>3, <2>3
  <2> QED BY <1>1, <1>3, <2>3, <2>4, SubSeqFull DEF c
<1>6. SubSeq(b, 1, Len(a)) = SubSeq(a, 1, Len(a))
  <2> DEFINE c == SubSeq(b, 1, Len(a))
  <2>1. c \in Seq(S) /\ Len(c) = Len(a) /\ \A i \in 1..Len(a) : c[i] = a[i]
    BY <1>3, <1>4, <1>5
  <2> HIDE DEF c
  <2>2. c = a
    BY <1>1, <2>1, SeqEqual
  <2> QED BY <1>5, <2>2 DEF c
<1>7. Len(a) <= Len(b)
  BY <1>3
<1> QED BY <1>6, <1>7 DEF IsPrefix, a, b

LEMMA WindowKept ==
    ASSUME WidgetInv, Len(Entries) < MaxEntries,
           Rendered' \in Seq(Nat), Len(Rendered) <= Len(Rendered'),
           \A i \in 1..Len(Rendered) : Rendered'[i] = Rendered[i],
           Offset' = Offset
    PROVE  IsPrefix(Window, Window')
<1> DEFINE Bottom(r) == IF Offset + Height < Len(r) THEN Offset + Height ELSE Len(r)
           s == Rendered
           t == Rendered'
<1>1. /\ s \in Seq(Nat) /\ t \in Seq(Nat) /\ Len(s) \in Nat /\ Len(t) \in Nat
      /\ Offset \in Nat /\ Offset <= MaxOffset /\ Height \in Nat \ {0}
  BY RenderedType, HeightAssumption DEF WidgetInv, WidgetTypeOK
<1>2. Offset <= Len(s)
  BY <1>1 DEF MaxOffset
<1>3. Window = SubSeq(s, Offset + 1, Bottom(s)) /\ Window' = SubSeq(t, Offset + 1, Bottom(t))
  BY DEF Window
<1> HIDE DEF s, t
<1>4. /\ Bottom(s) \in 0..Len(s) /\ Bottom(t) \in 0..Len(t)
      /\ Offset <= Bottom(s) /\ Bottom(s) <= Bottom(t)
  BY <1>1, <1>2 DEF s, t
<1>5. Len(s) <= Len(t) /\ \A i \in 1..Len(s) : t[i] = s[i]
  BY DEF s, t
<1> HIDE DEF Bottom
<1>6. IsPrefix(SubSeq(s, Offset + 1, Bottom(s)), SubSeq(t, Offset + 1, Bottom(t)))
  BY <1>1, <1>4, <1>5, PartGrows
<1> QED BY <1>3, <1>6

\* What a step does to the widget.
WidgetNext == Keys \/ Redraw \/ \E line \in Nat : Add(line)

LEMMA WidgetStep == WidgetInv /\ [WidgetNext]_widgetVars => WidgetInv'
<1>1. WidgetInv /\ UNCHANGED widgetVars => WidgetInv'
  BY DEF widgetVars, WidgetInv, WidgetTypeOK, MaxOffset, Rendered, Visible
<1> QED BY <1>1, KeysStep, AddStep DEF WidgetNext

LEMMA PausedStep ==
    WidgetInv /\ [WidgetNext]_widgetVars
        => [~AutoTail /\ Len(Entries) < MaxEntries /\ ~Keys
                => ~AutoTail' /\ IsPrefix(Window, Window')]_widgetVars
<1> SUFFICES ASSUME WidgetInv, WidgetNext, ~AutoTail,
                    Len(Entries) < MaxEntries, ~Keys
             PROVE  ~AutoTail' /\ IsPrefix(Window, Window')
  OBVIOUS
<1>1. /\ Entries \in Seq(Nat) /\ Rendered \in Seq(Nat) /\ Offset \in Nat
      /\ Offset <= MaxOffset /\ MaxOffset \in Nat
  BY RenderedType DEF WidgetInv, WidgetTypeOK
<1>2. CASE Redraw
  <2>1. Entries' = Entries /\ Filter' = Filter /\ FilterExclude' = FilterExclude
    BY <1>2 DEF Redraw, Draw, Filtered
  <2>2. Rendered' = Rendered
    BY <2>1 DEF Rendered, Visible
  <2>3. MaxOffset' = MaxOffset
    BY <2>2 DEF MaxOffset
  <2>4. ~(AutoTail \/ Offset > MaxOffset')
    BY <1>1, <2>3
  <2>5. ~AutoTail' /\ Offset' = Offset
    BY <1>2, <2>4 DEF Redraw, Draw
  <2> QED BY <1>1, <2>2, <2>5, WindowKept
<1>3. ASSUME NEW line \in Nat, Add(line)
      PROVE  ~AutoTail' /\ IsPrefix(Window, Window')
  <2>1. ~AutoTail' /\ Offset' = Offset
    BY <1>3 DEF Add
  <2>2. Rendered' = IF line \in Visible THEN Append(Rendered, line) ELSE Rendered
    BY <1>3, AddAppends
  <2>3. /\ Rendered' \in Seq(Nat) /\ Len(Rendered) <= Len(Rendered')
        /\ \A i \in 1..Len(Rendered) : Rendered'[i] = Rendered[i]
    <3>1. CASE line \in Visible
      BY <1>1, <2>2, <3>1
    <3>2. CASE line \notin Visible
      BY <1>1, <2>2, <3>2
    <3> QED BY <3>1, <3>2
  <2> QED BY <2>1, <2>3, WindowKept
<1> QED BY <1>2, <1>3 DEF WidgetNext

\* In a view a line that is added comes from the log, and it is a number.
LEMMA ViewStepsWidget ==
    PipelineInv /\ [ViewNext]_allVars => [WidgetNext]_widgetVars
<1> SUFFICES ASSUME PipelineInv, [ViewNext]_allVars
             PROVE  WidgetNext \/ UNCHANGED widgetVars
  OBVIOUS
<1>1. ASSUME NEW tab \in Tabs \cup {"other"}, SwitchTab(tab)
      PROVE  WidgetNext \/ UNCHANGED widgetVars
  BY <1>1 DEF SwitchTab, ShowLogs, ShowNetwork, ShowDiff, ShowOther, WidgetNext
<1>2. CASE LogKeys
  BY <1>2 DEF LogKeys, WidgetNext
<1>3. CASE Follow
  <2>1. logCh # <<>> /\ logCh \in Seq(1..Lines) /\ Add(Head(logCh))
    BY <1>3 DEF Follow, TabTakes, PipelineInv, Queues
  <2>2. Head(logCh) \in 1..Lines
    BY <2>1, HeadTailProperties
  <2>3. Head(logCh) \in Nat
    BY <2>2, LinesAssumption
  <2> QED BY <2>1, <2>3 DEF WidgetNext
<1>4. CASE Close \/ LogSteps \/ Reprobe \/ WebTabKeys \/ SetMeta \/ Probing
           \/ Fetched \/ DiffAnswered \/ UNCHANGED allVars
  BY <1>4 DEF Close, LogSteps, Reprobe, WebTabKeys, SetMeta, Probing, Fetched,
              DiffAnswered, allVars
<1> QED BY <1>1, <1>2, <1>3, <1>4 DEF ViewNext

LEMMA WidgetStart == ViewInit => WidgetInv
<1> SUFFICES ASSUME ViewInit PROVE WidgetInv
  OBVIOUS
<1>1. /\ Entries = <<>> /\ Offset = 0 /\ AutoTail \in BOOLEAN
      /\ Filter \in BOOLEAN /\ FilterExclude \in BOOLEAN
  BY DEF ViewInit, WidgetInit
<1>2. Entries \in Seq(Nat) /\ Len(Entries) = 0
  BY <1>1
<1>3. MaxOffset \in Nat
  BY <1>2, RenderedType
<1> QED BY <1>1, <1>2, <1>3, EntriesAssumption DEF WidgetInv, WidgetTypeOK

\* A window that is paused stays paused and goes on showing what it shows,
\* whatever is added below it and however often the view is drawn, until a key
\* is pressed or the buffer is full.
THEOREM PausedWindowStays == ViewSpec => PausedStays
<1>1. ViewInit => PipelineInv /\ WidgetInv
  BY PipelineInit, WidgetStart DEF ViewInit
<1>2. PipelineInv /\ WidgetInv /\ [ViewNext]_allVars => (PipelineInv /\ WidgetInv)'
  BY PipelineStep, WidgetStep, ViewStepsLog, ViewStepsWidget
<1>3. PipelineInv /\ WidgetInv /\ [ViewNext]_allVars
          => [~AutoTail /\ Len(Entries) < MaxEntries /\ ~Keys
                  => ~AutoTail' /\ IsPrefix(Window, Window')]_widgetVars
  BY PausedStep, ViewStepsWidget
<1> QED BY <1>1, <1>2, <1>3, PTL DEF ViewSpec, PausedStays

-----------------------------------------------------------------------------
(* The probes. *)

\* The rounds that may yet store results, by their numbers.
Unstored == {r.n : r \in {q \in rounds : q.at # "ending"}}

\* Every round has its own number; only the newest was not cancelled; and every
\* round that was started stores its results at most once.
ProbeInv ==
    /\ started \in 0..MaxRounds
    /\ rounds \subseteq Round /\ \A r \in rounds : r.n <= started
    /\ \A q, r \in rounds : q.n = r.n => q = r
    /\ \A r \in rounds : ~r.cancelled => r.n = started
    /\ probing \in BOOLEAN
    /\ ProbeSeq \in Nat /\ Probes \in 0..started
    /\ ProbeSeq + Cardinality(Unstored) <= started

LEMMA ProbeStart == ProbeInit => ProbeInv
<1> SUFFICES ASSUME ProbeInit PROVE ProbeInv
  OBVIOUS
<1>1. Unstored = {}
  BY DEF ProbeInit, Unstored
<1>2. /\ Cardinality(Unstored) = 0 /\ 0 \in 0..MaxRounds /\ 0 \in 0..0
      /\ started = 0 /\ ProbeSeq = 0 /\ Probes = 0
  BY <1>1, FS_EmptySet, RoundsAssumption DEF ProbeInit
<1>3. rounds = {} /\ probing \in BOOLEAN
  BY DEF ProbeInit
<1> QED BY <1>2, <1>3 DEF ProbeInv

LEMMA UnstoredType ==
    ASSUME ProbeInv
    PROVE  /\ Unstored \subseteq 1..started /\ IsFiniteSet(Unstored)
           /\ Cardinality(Unstored) \in Nat /\ started \in Nat
<1>1. started \in Nat
  BY RoundsAssumption DEF ProbeInv
<1>2. Unstored \subseteq 1..started
  BY <1>1, RoundsAssumption DEF ProbeInv, Unstored, Round
<1>3. IsFiniteSet(1..started)
  BY <1>1, FS_Interval
<1> QED BY <1>1, <1>2, <1>3, FS_Subset, FS_CardinalityType

LEMMA CancelledIs ==
    ASSUME ProbeInv
    PROVE  /\ Cancelled \subseteq Round
           /\ \A q \in Cancelled : q.cancelled /\ q.n <= started
           /\ \A q, r \in Cancelled : q.n = r.n => q = r
           /\ {r.n : r \in {q \in Cancelled : q.at # "ending"}} = Unstored
<1>1. \A r \in rounds : LET c == [r EXCEPT !.cancelled = TRUE]
                        IN  /\ c \in Round /\ c.cancelled
                            /\ c.n = r.n /\ c.at = r.at /\ c.n <= started
  BY DEF ProbeInv, Round
<1>2. Cancelled \subseteq Round /\ \A q \in Cancelled : q.cancelled /\ q.n <= started
  BY <1>1 DEF Cancelled
<1>3. ASSUME NEW q \in Cancelled, NEW r \in Cancelled, q.n = r.n PROVE q = r
  <2>1. PICK a \in rounds : q = [a EXCEPT !.cancelled = TRUE]
    BY DEF Cancelled
  <2>2. PICK b \in rounds : r = [b EXCEPT !.cancelled = TRUE]
    BY DEF Cancelled
  <2>3. a.n = b.n
    BY <1>1, <1>3, <2>1, <2>2
  <2> QED BY <2>1, <2>2, <2>3 DEF ProbeInv
<1>4. {r.n : r \in {q \in Cancelled : q.at # "ending"}} = Unstored
  <2> DEFINE C == {r.n : r \in {q \in Cancelled : q.at # "ending"}}
  <2>1. ASSUME NEW n \in C PROVE n \in Unstored
    <3>1. PICK q \in Cancelled : q.at # "ending" /\ n = q.n
      OBVIOUS
    <3>2. PICK a \in rounds : q = [a EXCEPT !.cancelled = TRUE]
      BY DEF Cancelled
    <3> QED BY <1>1, <3>1, <3>2 DEF Unstored
  <2>2. ASSUME NEW n \in Unstored PROVE n \in C
    <3>1. PICK a \in rounds : a.at # "ending" /\ n = a.n
      BY DEF Unstored
    <3>2. [a EXCEPT !.cancelled = TRUE] \in Cancelled
      BY DEF Cancelled
    <3> QED BY <1>1, <3>1, <3>2
  <2> QED BY <2>1, <2>2
<1> QED BY <1>2, <1>3, <1>4

LEMMA StopProbesStep == ProbeInv /\ StopProbes => ProbeInv'
<1> SUFFICES ASSUME ProbeInv, StopProbes PROVE ProbeInv'
  OBVIOUS
<1>1. rounds' = Cancelled /\ UNCHANGED <<started, ProbeSeq, Probes>> /\ probing' \in BOOLEAN
  BY DEF StopProbes
<1>2. Unstored' = Unstored
  BY <1>1, CancelledIs DEF Unstored
<1> QED BY <1>1, <1>2, CancelledIs DEF ProbeInv

LEMMA RunProbesStep == ProbeInv /\ RunProbes => ProbeInv'
<1> SUFFICES ASSUME ProbeInv, RunProbes PROVE ProbeInv'
  OBVIOUS
<1> DEFINE new == [n |-> started + 1, at |-> "dialling", cancelled |-> FALSE]
<1>1. /\ rounds' = Cancelled \cup {new} /\ started' = started + 1
      /\ UNCHANGED <<ProbeSeq, Probes>> /\ probing' \in BOOLEAN
      /\ started < MaxRounds
  BY DEF RunProbes
<1>2. started \in Nat /\ started' \in 0..MaxRounds /\ started + 1 \in 1..MaxRounds
  BY <1>1, RoundsAssumption DEF ProbeInv
<1>3. new \in Round /\ new.n = started + 1 /\ new.at # "ending" /\ ~new.cancelled
  BY <1>2 DEF Round
<1>4. \A q \in Cancelled : q.n \in Nat /\ q.n < started + 1
  BY <1>2, CancelledIs, RoundsAssumption DEF Round
<1> HIDE DEF new
<1>5. \A q, r \in rounds' : q.n = r.n => q = r
  BY <1>1, <1>2, <1>3, <1>4, CancelledIs
<1>6. \A r \in rounds' : r \in Round /\ r.n <= started' /\ (~r.cancelled => r.n = started')
  BY <1>1, <1>2, <1>3, <1>4, CancelledIs
<1>7. Unstored' = Unstored \cup {started + 1}
  <2>1. Unstored' = {r.n : r \in {q \in Cancelled : q.at # "ending"}} \cup {new.n}
    BY <1>1, <1>3 DEF Unstored
  <2> QED BY <1>3, <2>1, CancelledIs
<1>8. Cardinality(Unstored') <= Cardinality(Unstored) + 1 /\ Cardinality(Unstored') \in Nat
  <2> DEFINE T == Unstored \cup {started + 1}
  <2>1. /\ IsFiniteSet(T)
        /\ Cardinality(T) = IF started + 1 \in Unstored THEN Cardinality(Unstored)
                                                        ELSE Cardinality(Unstored) + 1
    BY UnstoredType, FS_AddElement
  <2> HIDE DEF T
  <2>2. Cardinality(T) \in Nat
    BY <2>1, FS_CardinalityType
  <2>3. Cardinality(Unstored) \in Nat
    BY UnstoredType
  <2> QED BY <1>7, <2>1, <2>2, <2>3 DEF T
<1>9. ProbeSeq' \in Nat /\ Probes' \in 0..started'
      /\ ProbeSeq' + Cardinality(Unstored') <= started'
  BY <1>1, <1>2, <1>8, UnstoredType DEF ProbeInv
<1> QED BY <1>1, <1>2, <1>5, <1>6, <1>9 DEF ProbeInv

\* A goroutine of a round goes on.
LEMMA GotoIs ==
    ASSUME ProbeInv, NEW r \in rounds, NEW at \in {"dialling", "storing", "ending"},
           Goto(r, at), started' = started
    PROVE  LET c == [r EXCEPT !.at = at]
           IN  /\ c \in Round /\ c.n = r.n /\ c.at = at
               /\ c.cancelled = r.cancelled
               /\ rounds' = (rounds \ {r}) \cup {c}
               /\ rounds' \subseteq Round
               /\ \A q \in rounds' : q.n <= started
               /\ \A p, q \in rounds' : p.n = q.n => p = q
               /\ \A q \in rounds' : ~q.cancelled => q.n = started
<1> DEFINE c == [r EXCEPT !.at = at]
<1>1. c \in Round /\ c.n = r.n /\ c.at = at /\ c.cancelled = r.cancelled
  BY DEF ProbeInv, Round
<1>2. rounds' = (rounds \ {r}) \cup {c}
  BY DEF Goto
<1> HIDE DEF c
<1>3. \A p, q \in rounds' : p.n = q.n => p = q
  BY <1>1, <1>2 DEF ProbeInv
<1>4. /\ rounds' \subseteq Round
      /\ \A q \in rounds' : q.n <= started /\ (~q.cancelled => q.n = started)
  BY <1>1, <1>2 DEF ProbeInv
<1> QED BY <1>1, <1>2, <1>3, <1>4 DEF c

\* A set of numbers that loses some leaves room.
LEMMA UnstoredFewer ==
    ASSUME ProbeInv, NEW T \in SUBSET Unstored
    PROVE  Cardinality(T) \in Nat /\ Cardinality(T) <= Cardinality(Unstored)
BY UnstoredType, FS_Subset, FS_CardinalityType

LEMMA DialledStep == ProbeInv /\ (\E r \in rounds : Dialled(r)) => ProbeInv'
<1> SUFFICES ASSUME ProbeInv, NEW r \in rounds, Dialled(r) PROVE ProbeInv'
  OBVIOUS
<1> DEFINE at == IF r.cancelled THEN "ending" ELSE "storing"
           c == [r EXCEPT !.at = at]
<1>1. /\ Goto(r, at) /\ at \in {"dialling", "storing", "ending"}
      /\ UNCHANGED <<started, probing, ProbeSeq, Probes>> /\ r.at = "dialling"
  BY DEF Dialled
<1> HIDE DEF at
<1>2. /\ c.n = r.n /\ rounds' = (rounds \ {r}) \cup {c}
      /\ rounds' \subseteq Round
      /\ \A q \in rounds' : q.n <= started
      /\ \A p, q \in rounds' : p.n = q.n => p = q
      /\ \A q \in rounds' : ~q.cancelled => q.n = started
  BY <1>1, GotoIs
<1> HIDE DEF c
<1>3. Unstored' \in SUBSET Unstored
  BY <1>1, <1>2 DEF Unstored
<1>4. Cardinality(Unstored') \in Nat /\ Cardinality(Unstored') <= Cardinality(Unstored)
  BY <1>3, UnstoredFewer
<1>5. ProbeSeq' + Cardinality(Unstored') <= started'
  BY <1>1, <1>4, UnstoredType DEF ProbeInv
<1> QED BY <1>1, <1>2, <1>5 DEF ProbeInv

LEMMA StoreStep == ProbeInv /\ (\E r \in rounds : Store(r)) => ProbeInv'
<1> SUFFICES ASSUME ProbeInv, NEW r \in rounds, Store(r) PROVE ProbeInv'
  OBVIOUS
<1> DEFINE c == [r EXCEPT !.at = "ending"]
<1>1. /\ Goto(r, "ending") /\ UNCHANGED <<started, probing>>
      /\ ProbeSeq' = ProbeSeq + 1 /\ Probes' = r.n /\ r.at = "storing"
  BY DEF Store
<1>2. /\ c.n = r.n /\ c.at = "ending" /\ rounds' = (rounds \ {r}) \cup {c}
      /\ rounds' \subseteq Round
      /\ \A q \in rounds' : q.n <= started
      /\ \A p, q \in rounds' : p.n = q.n => p = q
      /\ \A q \in rounds' : ~q.cancelled => q.n = started
  BY <1>1, GotoIs
<1> HIDE DEF c
<1>3. r.n \in Unstored
  BY <1>1 DEF Unstored
<1>4. Unstored' \in SUBSET (Unstored \ {r.n})
  <2> SUFFICES ASSUME NEW n \in Unstored' PROVE n \in Unstored \ {r.n}
    OBVIOUS
  <2>1. PICK q \in rounds' : q.at # "ending" /\ n = q.n
    BY DEF Unstored
  <2>2. q \in rounds /\ q # r
    BY <1>2, <2>1
  <2> QED BY <2>1, <2>2 DEF Unstored, ProbeInv
<1>5. /\ Cardinality(Unstored') \in Nat
      /\ Cardinality(Unstored') <= Cardinality(Unstored) - 1
  <2> DEFINE T == Unstored \ {r.n}
  <2>1. /\ IsFiniteSet(T)
        /\ Cardinality(T) = IF r.n \in Unstored THEN Cardinality(Unstored) - 1
                                                ELSE Cardinality(Unstored)
    BY UnstoredType, FS_RemoveElement
  <2> HIDE DEF T
  <2>2. Unstored' \in SUBSET T
    BY <1>4 DEF T
  <2>3. IsFiniteSet(Unstored') /\ Cardinality(Unstored') <= Cardinality(T)
    BY <2>1, <2>2, FS_Subset
  <2>4. Cardinality(Unstored') \in Nat
    BY <2>3, FS_CardinalityType
  <2> QED BY <1>3, <2>1, <2>3, <2>4, UnstoredType
<1>6. r.n \in 0..started
  BY DEF ProbeInv, Round
<1>7. ProbeSeq' \in Nat /\ ProbeSeq' + Cardinality(Unstored') <= started'
  BY <1>1, <1>5, UnstoredType DEF ProbeInv
<1> QED BY <1>1, <1>2, <1>6, <1>7 DEF ProbeInv

LEMMA EndingStep == ProbeInv /\ (\E r \in rounds : End(r)) => ProbeInv'
<1> SUFFICES ASSUME ProbeInv, NEW r \in rounds, End(r) PROVE ProbeInv'
  OBVIOUS
<1>1. /\ rounds' = rounds \ {r} /\ probing' \in BOOLEAN
      /\ UNCHANGED <<started, ProbeSeq, Probes>>
  BY DEF End
<1>2. Unstored' \in SUBSET Unstored
  BY <1>1 DEF Unstored
<1>3. Cardinality(Unstored') \in Nat /\ Cardinality(Unstored') <= Cardinality(Unstored)
  BY <1>2, UnstoredFewer
<1>4. ProbeSeq' + Cardinality(Unstored') <= started'
  BY <1>1, <1>3, UnstoredType DEF ProbeInv
<1> QED BY <1>1, <1>4 DEF ProbeInv

ProbeNext == RunProbes \/ StopProbes \/ ProbeStep

LEMMA ProbeNextStep == ProbeInv /\ [ProbeNext]_probeVars => ProbeInv'
<1>1. ProbeInv /\ UNCHANGED probeVars => ProbeInv'
  BY DEF probeVars, ProbeInv, Unstored
<1> QED BY <1>1, RunProbesStep, StopProbesStep, DialledStep, StoreStep, EndingStep
        DEF ProbeNext, ProbeStep

\* All rounds that dial for their own sake have the newest number.
LEMMA ProbeTypes == ProbeInv => ProbeTypeOK /\ OneRound
<1> SUFFICES ASSUME ProbeInv PROVE ProbeTypeOK /\ OneRound
  OBVIOUS
<1>1. ProbeTypeOK
  BY UnstoredType DEF ProbeInv, ProbeTypeOK
<1>2. \A q, r \in Dialling : q = r
  BY DEF Dialling, ProbeInv
<1>3. Dialling = {} \/ \E r : Dialling = {r}
  BY <1>2
<1>4. Cardinality(Dialling) = 0 \/ Cardinality(Dialling) = 1
  BY <1>3, FS_EmptySet, FS_Singleton
<1> QED BY <1>1, <1>4 DEF OneRound

-----------------------------------------------------------------------------
(* The web tab. *)

Endpoints == [Port : Ports, HostPort : Ports]

WebInv ==
    /\ endpoints \in Seq(Endpoints) /\ probeSeq \in Nat
    /\ WebTypeOK /\ PageIsLatest

LEMMA EndpointIs ==
    ASSUME NEW port \in Ports
    PROVE  /\ Endpoint(port, port) \in Endpoints
           /\ Endpoint(port, port).Port = port
BY DEF Endpoint, Endpoints

LEMMA SomewhereElse == ASSUME NEW e \in Endpoints PROVE e # Nowhere
<1>1. e.Port # "none" /\ Nowhere.Port = "none"
  BY DEF Endpoints, Ports, Nowhere, Endpoint
<1> QED BY <1>1

\* The first place in a list is a place in it.
LEMMA FirstPlace ==
    ASSUME NEW n \in Nat, NEW I \in SUBSET (1..n), I # {}
    PROVE  Min(I) \in I
<1>1. I \in SUBSET Nat
  OBVIOUS
<1>2. \E i \in I : \A j \in I : i <= j
  BY <1>1, LeastOne
<1> QED BY <1>2 DEF Min

\* A selection that exists in a list.
Selects(i, eps) == i \in Nat /\ (i < Len(eps) \/ i = 0)

LEMMA InRangeSelects ==
    ASSUME NEW eps \in Seq(Endpoints), NEW i \in Nat
    PROVE  Selects(InRange(i, eps), eps)
BY DEF InRange, Selects

\* The endpoint selected when there are new ones.
LEMMA SetContainerSelects ==
    ASSUME WebInv, NEW eps \in Seq(Endpoints), SetContainer(eps)
    PROVE  /\ Selects(selectedEp', eps)
           /\ (\E i \in 1..Len(eps) : eps[i].Port = CurrentEndpoint.Port)
                  => /\ selectedEp' < Len(eps)
                     /\ eps[selectedEp' + 1].Port = CurrentEndpoint.Port
<1> DEFINE I == {i \in 1..Len(eps) : eps[i].Port = CurrentEndpoint.Port}
           i == SelectInSeq(eps, LAMBDA e : e.Port = CurrentEndpoint.Port)
<1>1. i = IF I # {} THEN Min(I) ELSE 0
  BY DEF SelectInSeq
<1>2. selectedEp' = IF i > 0 THEN i - 1 ELSE InRange(selectedEp, eps)
  BY DEF SetContainer
<1>3. Len(eps) \in Nat /\ selectedEp \in Nat
  BY DEF WebInv, WebTypeOK
<1> HIDE DEF i
<1>4. CASE I = {}
  <2>1. i = 0
    BY <1>1, <1>4
  <2>2. selectedEp' = InRange(selectedEp, eps)
    BY <1>2, <2>1
  <2> QED BY <1>3, <1>4, <2>2, InRangeSelects
<1>5. CASE I # {}
  <2>1. Min(I) \in I
    BY <1>3, <1>5, FirstPlace
  <2>2. i \in 1..Len(eps) /\ eps[i].Port = CurrentEndpoint.Port
    BY <1>1, <1>5, <2>1
  <2>3. selectedEp' = i - 1 /\ selectedEp' + 1 = i
    BY <1>2, <1>3, <2>2
  <2> QED BY <1>3, <2>2, <2>3 DEF Selects
<1> QED BY <1>4, <1>5

\* A request for a page only adds to those that are on the way.
LEMMA FetchStep ==
    ASSUME WebInv, FetchCurrent, probeRes' = probeRes
    PROVE  /\ probeSeq' \in Nat /\ isLoading' \in BOOLEAN
           /\ \A f \in fetches' : f.seq \in 1..probeSeq'
           /\ PageIsLatest'
<1>1. CASE CurrentEndpoint' = Nowhere
  BY <1>1 DEF FetchCurrent, WebInv, WebTypeOK, PageIsLatest
<1>2. CASE CurrentEndpoint' # Nowhere
  <2>1. /\ probeSeq' = probeSeq + 1 /\ isLoading' = TRUE
        /\ fetches' = fetches \cup {[seq |-> probeSeq + 1, at |-> CurrentEndpoint']}
    BY <1>2 DEF FetchCurrent
  <2>2. \A f \in fetches' : f.seq \in 1..probeSeq + 1
    BY <2>1 DEF WebInv, WebTypeOK
  <2> QED BY <2>1, <2>2 DEF WebInv, PageIsLatest
<1> QED BY <1>1, <1>2

LEMMA WebKeysStep == WebInv /\ WebKeys => WebInv'
<1> SUFFICES ASSUME WebInv, WebKeys PROVE WebInv'
  OBVIOUS
<1>1. /\ endpoints \in Seq(Endpoints) /\ Len(endpoints) \in Nat
      /\ selectedEp \in Nat /\ (selectedEp < Len(endpoints) \/ selectedEp = 0)
  BY DEF WebInv, WebTypeOK
<1>2. ASSUME FetchCurrent, probeRes' = probeRes, endpoints' \in Seq(Endpoints),
             Selects(selectedEp', endpoints')
      PROVE  WebInv'
  BY <1>2, FetchStep DEF WebInv, WebTypeOK, Selects
<1>3. ASSUME NEW step \in Nat, Cycle(step) PROVE WebInv'
  <2>1. Selects(selectedEp', endpoints)
    BY <1>1, <1>3 DEF Cycle, Selects
  <2> QED BY <1>1, <1>2, <1>3, <2>1 DEF Cycle
<1>4. CASE NextEndpoint
  BY <1>3, <1>4 DEF NextEndpoint
<1>5. CASE PrevEndpoint
  <2>1. (IF endpoints = <<>> THEN 0 ELSE Len(endpoints) - 1) \in Nat
    BY <1>1
  <2> QED BY <1>3, <1>5, <2>1 DEF PrevEndpoint
<1>6. CASE Reload
  BY <1>1, <1>2, <1>6 DEF Reload, Selects
<1>7. ASSUME NEW port \in Numbers, SetCustomPort(port) PROVE WebInv'
  <2> DEFINE I == {i \in 1..Len(endpoints) :
                      port \in {endpoints[i].Port, endpoints[i].HostPort}}
             i == SelectInSeq(endpoints, LAMBDA e : port \in {e.Port, e.HostPort})
  <2>1. i = IF I # {} THEN Min(I) ELSE 0
    BY DEF SelectInSeq
  <2>2. /\ FetchCurrent /\ probeRes' = probeRes
        /\ IF i > 0 THEN selectedEp' = i - 1 /\ endpoints' = endpoints
           ELSE /\ endpoints' = Append(endpoints, Endpoint(port, port))
                /\ selectedEp' = Len(endpoints)
    BY <1>7 DEF SetCustomPort
  <2> HIDE DEF i
  <2>3. CASE I = {}
    <3>1. /\ endpoints' = Append(endpoints, Endpoint(port, port))
          /\ selectedEp' = Len(endpoints)
      BY <2>1, <2>2, <2>3
    <3>2. Endpoint(port, port) \in Endpoints
      BY EndpointIs, PortsAssumption
    <3>3. endpoints' \in Seq(Endpoints) /\ Selects(selectedEp', endpoints')
      BY <1>1, <3>1, <3>2 DEF Selects
    <3> QED BY <1>2, <2>2, <3>3
  <2>4. CASE I # {}
    <3>1. Min(I) \in I
      BY <1>1, <2>4, FirstPlace
    <3>2. i \in 1..Len(endpoints)
      BY <2>1, <2>4, <3>1
    <3>3. Selects(selectedEp', endpoints) /\ endpoints' = endpoints
      BY <1>1, <2>2, <3>2 DEF Selects
    <3> QED BY <1>1, <1>2, <2>2, <3>3
  <2> QED BY <2>3, <2>4
<1> QED BY <1>4, <1>5, <1>6, <1>7 DEF WebKeys

WebNext ==
    \/ WebKeys
    \/ \E eps \in Discovered : SetContainer(eps)
    \/ \E f \in fetches : FetchReturns(f)

LEMMA WebStep == WebInv /\ [WebNext]_webVars => WebInv'
<1> SUFFICES ASSUME WebInv, [WebNext]_webVars PROVE WebInv'
  OBVIOUS
<1>1. ASSUME NEW eps \in Discovered, SetContainer(eps) PROVE WebInv'
  <2>1. eps \in Seq(Endpoints)
    BY PortsAssumption DEF Endpoints
  <2>2. Selects(selectedEp', eps)
    BY <1>1, <2>1, SetContainerSelects
  <2>3. endpoints' = eps /\ UNCHANGED <<probeSeq, fetches, isLoading, probeRes>>
    BY <1>1 DEF SetContainer
  <2> QED BY <2>1, <2>2, <2>3 DEF WebInv, WebTypeOK, PageIsLatest, Selects
<1>2. ASSUME NEW f \in fetches, FetchReturns(f) PROVE WebInv'
  <2>1. /\ fetches' = fetches \ {f}
        /\ UNCHANGED <<endpoints, selectedEp, probeSeq>>
    BY <1>2 DEF FetchReturns
  <2>2. CASE f.seq = probeSeq
    <3>1. probeRes' = f /\ isLoading' = FALSE
      BY <1>2, <2>2 DEF FetchReturns
    <3>2. isLoading' \in BOOLEAN /\ probeRes'.seq = probeSeq'
      BY <2>1, <2>2, <3>1
    <3> QED BY <2>1, <3>2 DEF WebInv, WebTypeOK, PageIsLatest
  <2>3. CASE f.seq # probeSeq
    BY <1>2, <2>1, <2>3 DEF FetchReturns, WebInv, WebTypeOK, PageIsLatest
  <2> QED BY <2>2, <2>3
<1>3. CASE UNCHANGED webVars
  BY <1>3 DEF webVars, WebInv, WebTypeOK, PageIsLatest
<1> QED BY <1>1, <1>2, <1>3, WebKeysStep DEF WebNext

LEMMA WebStart == ASSUME NEW eps \in Seq(Endpoints), WebInit(eps) PROVE WebInv
<1>1. CASE eps = <<>>
  <2>1. /\ probeSeq = 0 /\ isLoading \in BOOLEAN /\ selectedEp = 0
        /\ endpoints = eps /\ fetches = {} /\ probeRes.seq = 0
    BY <1>1 DEF WebInit, NoPage
  <2> QED BY <2>1 DEF WebInv, WebTypeOK, PageIsLatest
<1>2. CASE eps # <<>>
  <2>1. /\ probeSeq = 1 /\ isLoading = TRUE /\ selectedEp = 0 /\ endpoints = eps
        /\ fetches = {[seq |-> 1, at |-> eps[1]]}
    BY <1>2 DEF WebInit
  <2> QED BY <2>1 DEF WebInv, WebTypeOK, PageIsLatest
<1> QED BY <1>1, <1>2

LEMMA PortStep ==
    WebInv /\ [WebNext]_webVars
        => [endpoints' # endpoints /\ CurrentEndpoint # Nowhere
              /\ (\E i \in DOMAIN endpoints' :
                      endpoints'[i].Port = CurrentEndpoint.Port)
              /\ probeSeq' = probeSeq
                => CurrentEndpoint'.Port = CurrentEndpoint.Port]_webVars
<1> SUFFICES ASSUME WebInv, WebNext, endpoints' # endpoints,
                    \E i \in DOMAIN endpoints' :
                        endpoints'[i].Port = CurrentEndpoint.Port,
                    probeSeq' = probeSeq
             PROVE  CurrentEndpoint'.Port = CurrentEndpoint.Port
  OBVIOUS
<1>0. /\ endpoints \in Seq(Endpoints) /\ Len(endpoints) \in Nat
      /\ selectedEp \in Nat /\ probeSeq \in Nat
  BY DEF WebInv, WebTypeOK
<1>1. ASSUME NEW eps \in Discovered, SetContainer(eps)
      PROVE  CurrentEndpoint'.Port = CurrentEndpoint.Port
  <2>1. eps \in Seq(Endpoints) /\ endpoints' = eps
    BY <1>1, PortsAssumption DEF Endpoints, SetContainer
  <2>2. \E i \in 1..Len(eps) : eps[i].Port = CurrentEndpoint.Port
    BY <2>1
  <2>3. /\ selectedEp' < Len(eps)
        /\ eps[selectedEp' + 1].Port = CurrentEndpoint.Port
    BY <1>1, <2>1, <2>2, SetContainerSelects
  <2>4. CurrentEndpoint' = eps[selectedEp' + 1]
    BY <2>1, <2>3 DEF CurrentEndpoint, Selected
  <2> QED BY <2>3, <2>4
<1>2. ASSUME NEW port \in Numbers, SetCustomPort(port) PROVE FALSE
  <2> DEFINE new == Endpoint(port, port)
  <2>1. /\ endpoints' = Append(endpoints, new) /\ selectedEp' = Len(endpoints)
        /\ FetchCurrent
    BY <1>2 DEF SetCustomPort
  <2>2. new \in Endpoints
    BY EndpointIs, PortsAssumption
  <2> HIDE DEF new
  <2>3. Len(endpoints') = Len(endpoints) + 1 /\ endpoints'[Len(endpoints) + 1] = new
    BY <1>0, <2>1, <2>2
  <2>4. CurrentEndpoint' = new
    BY <1>0, <2>1, <2>3 DEF CurrentEndpoint, Selected
  <2>5. CurrentEndpoint' # Nowhere
    BY <2>2, <2>4, SomewhereElse
  <2>6. probeSeq' = probeSeq + 1
    BY <2>1, <2>5 DEF FetchCurrent
  <2> QED BY <1>0, <2>6
<1>3. CASE NextEndpoint \/ PrevEndpoint \/ Reload
           \/ \E f \in fetches : FetchReturns(f)
  BY <1>3 DEF NextEndpoint, PrevEndpoint, Cycle, Reload, FetchReturns
<1> QED BY <1>1, <1>2, <1>3 DEF WebNext, WebKeys

-----------------------------------------------------------------------------
(* The view with all its tabs. *)

\* The view by itself, and what it has let go of when it is closed.
LayoutInv ==
    /\ uses \in Tabs \cup {"none"}
    /\ view \in {"opening", "open", "closed"}
    /\ ActiveTab \in {uses, "other"}
    /\ updater \in {"view", "row"}
    /\ asked \in Nat /\ diffs \subseteq 1..asked /\ diff \in 0..asked
    /\ view = "closed" => updater = "row" /\ Dialling = {}
    /\ view = "closed" /\ reader = "terminal" =>
           viewer = "left" /\ (leave \/ relay = "done")

ViewInv == PipelineInv /\ WidgetInv /\ ProbeInv /\ WebInv /\ LayoutInv

LEMMA ViewStepsProbes == [ViewNext]_allVars => [ProbeNext]_probeVars
<1> SUFFICES ASSUME [ViewNext]_allVars PROVE ProbeNext \/ UNCHANGED probeVars
  OBVIOUS
<1>1. ASSUME NEW tab \in Tabs \cup {"other"}, SwitchTab(tab)
      PROVE  ProbeNext \/ UNCHANGED probeVars
  BY <1>1 DEF SwitchTab, ShowLogs, ShowNetwork, ShowDiff, ShowOther, ProbeNext
<1>2. CASE Close \/ Reprobe \/ Probing
  BY <1>2 DEF Close, Reprobe, Probing, ProbeNext
<1>3. CASE LogKeys \/ WebTabKeys \/ SetMeta \/ Follow \/ LogSteps \/ Fetched
           \/ DiffAnswered \/ UNCHANGED allVars
  BY <1>3 DEF LogKeys, WebTabKeys, SetMeta, Follow, LogSteps, Fetched,
              DiffAnswered, allVars
<1> QED BY <1>1, <1>2, <1>3 DEF ViewNext

LEMMA ViewStepsWeb == [ViewNext]_allVars => [WebNext]_webVars
<1> SUFFICES ASSUME [ViewNext]_allVars PROVE WebNext \/ UNCHANGED webVars
  OBVIOUS
<1>1. ASSUME NEW tab \in Tabs \cup {"other"}, SwitchTab(tab)
      PROVE  WebNext \/ UNCHANGED webVars
  BY <1>1 DEF SwitchTab, ShowLogs, ShowNetwork, ShowDiff, ShowOther
<1>2. CASE WebTabKeys \/ SetMeta \/ Fetched
  BY <1>2 DEF WebTabKeys, SetMeta, Fetched, WebNext
<1>3. CASE Close \/ LogKeys \/ Reprobe \/ Follow \/ LogSteps \/ Probing
           \/ DiffAnswered \/ UNCHANGED allVars
  BY <1>3 DEF Close, LogKeys, Reprobe, Follow, LogSteps, Probing, DiffAnswered,
              allVars
<1> QED BY <1>1, <1>2, <1>3 DEF ViewNext

LEMMA ViewStart == ViewInit => ViewInv
<1> SUFFICES ASSUME ViewInit PROVE ViewInv
  OBVIOUS
<1>1. PipelineInv /\ WidgetInv /\ ProbeInv
  BY PipelineInit, WidgetStart, ProbeStart DEF ViewInit
<1>2. WebInv
  <2>1. \E eps \in Seq(Endpoints) : WebInit(eps)
    <3>1. <<>> \in Seq(Endpoints)
      OBVIOUS
    <3> QED BY <3>1, PortsAssumption DEF ViewInit, Endpoints
  <2> QED BY <2>1, WebStart
<1>3. LayoutInv
  <2>1. /\ ActiveTab = "other" /\ updater = "row" /\ diffs = {}
        /\ asked = 0 /\ diff = 0 /\ 0 \in 0..0
    BY DEF ViewInit
  <2>2. Dialling = {}
    BY DEF ViewInit, ProbeInit, Dialling
  <2> QED BY <2>1, <2>2 DEF ViewInit, LayoutInv
<1> QED BY <1>1, <1>2, <1>3 DEF ViewInv

\* A closed view has no new round of probes: what dials was cancelled.
LEMMA ClosedDials ==
    Dialling = {} /\ ProbeInv /\ [ProbeStep]_probeVars => Dialling' = {}
<1> SUFFICES ASSUME Dialling = {}, ProbeInv, [ProbeStep]_probeVars
             PROVE  Dialling' = {}
  OBVIOUS
<1>1. ASSUME NEW r \in rounds, Dialled(r) PROVE Dialling' = {}
  <2> DEFINE at == IF r.cancelled THEN "ending" ELSE "storing"
             c == [r EXCEPT !.at = at]
  <2>1. Goto(r, at) /\ at \in {"dialling", "storing", "ending"}
        /\ started' = started /\ at # "dialling"
    BY <1>1 DEF Dialled
  <2> HIDE DEF at
  <2>2. c.at # "dialling" /\ rounds' = (rounds \ {r}) \cup {c}
    BY <2>1, GotoIs
  <2> QED BY <2>2 DEF Dialling
<1>2. ASSUME NEW r \in rounds, Store(r) PROVE Dialling' = {}
  <2> DEFINE c == [r EXCEPT !.at = "ending"]
  <2>1. Goto(r, "ending") /\ started' = started
    BY <1>2 DEF Store
  <2>2. c.at # "dialling" /\ rounds' = (rounds \ {r}) \cup {c}
    BY <2>1, GotoIs
  <2> QED BY <2>2 DEF Dialling
<1>3. ASSUME NEW r \in rounds, End(r) PROVE Dialling' = {}
  BY <1>3 DEF End, Dialling
<1>4. CASE UNCHANGED probeVars
  BY <1>4 DEF probeVars, Dialling
<1> QED BY <1>1, <1>2, <1>3, <1>4 DEF ProbeStep

\* The log's goroutines never come back to a reader that has left.
LEMMA LeftStays ==
    /\ reader = "terminal" /\ viewer = "left" /\ (leave \/ relay = "done")
    /\ [Next]_vars
    => reader' = "terminal" /\ viewer' = "left" /\ (leave' \/ relay' = "done")
BY DEF Next, vars, Write, Scanner, Relay, Handler, Receive, Emit, RequestReturns,
       Scan, Send, Eof, RelayTakes, RelaySends, RelayEnds, HandlerTakes,
       HandlerEnds, Disconnect, HandlerLeaves, StartLogStream, TabTakes, TabEnds,
       TabCloses, requestVars, scannerVars, relayVars

LEMMA LayoutStep == ViewInv /\ [ViewNext]_allVars => LayoutInv'
<1> SUFFICES ASSUME ViewInv, [ViewNext]_allVars PROVE LayoutInv'
  OBVIOUS
<1>1. ASSUME NEW tab \in Tabs \cup {"other"}, SwitchTab(tab) PROVE LayoutInv'
  <2>1. /\ view' = "open" /\ ActiveTab' = tab /\ updater' = "view"
        /\ uses' = uses /\ tab \in {uses, "other"}
    BY <1>1 DEF SwitchTab
  <2>2. asked' \in Nat /\ diffs' \subseteq 1..asked' /\ diff' \in 0..asked'
    <3>1. asked \in Nat /\ diffs \subseteq 1..asked /\ diff \in 0..asked
      BY DEF ViewInv, LayoutInv
    <3>2. CASE ShowDiff
      <4>1. /\ asked' = asked + 1 /\ diffs' = diffs \cup {asked + 1}
            /\ diff' = diff
        BY <3>2 DEF ShowDiff
      <4> QED BY <3>1, <4>1
    <3>3. CASE UNCHANGED <<diffs, asked, diff>>
      BY <3>1, <3>3
    <3> QED
      BY <1>1, <3>2, <3>3 DEF SwitchTab, ShowLogs, ShowNetwork, ShowOther
  <2> QED BY <2>1, <2>2 DEF LayoutInv, ViewInv
<1>2. CASE Close
  <2>1. /\ view' = "closed" /\ updater' = "row"
        /\ UNCHANGED <<uses, ActiveTab, diffs, asked, diff>>
    BY <1>2 DEF Close
  <2>2. Dialling' = {}
    <3>1. rounds' = Cancelled
      BY <1>2 DEF Close, StopProbes
    <3> QED BY <3>1, CancelledIs DEF Dialling, ViewInv
  <2>3. viewer' = "left" /\ (leave' \/ relay' = "done")
    BY <1>2 DEF Close, TabCloses, relayVars, ViewInv, PipelineInv, Goroutines
  <2> QED BY <2>1, <2>2, <2>3 DEF LayoutInv, ViewInv
<1>3. ASSUME ~\E tab \in Tabs \cup {"other"} : SwitchTab(tab), ~Close
      PROVE  LayoutInv'
  <2>1. UNCHANGED <<uses, view, ActiveTab, updater, asked>>
    BY <1>3 DEF ViewNext, LogKeys, Reprobe, WebTabKeys, SetMeta, Follow, LogSteps,
                Probing, Fetched, DiffAnswered, allVars, viewVars
  <2>2. diffs' \subseteq diffs /\ (diff' \in diffs \/ diff' = diff)
    BY <1>3 DEF ViewNext, LogKeys, Reprobe, WebTabKeys, SetMeta, Follow, LogSteps,
                Probing, Fetched, DiffAnswered, allVars, viewVars
  <2>3. diffs' \subseteq 1..asked /\ diff' \in 0..asked
    <3>1. asked \in Nat /\ diffs \subseteq 1..asked /\ diff \in 0..asked
      BY DEF ViewInv, LayoutInv
    <3>2. \A n \in 1..asked : n \in 0..asked
      BY <3>1
    <3> QED BY <2>2, <3>1, <3>2
  <2>4. ASSUME view = "closed" PROVE Dialling' = {}
    <3>1. [ProbeStep]_probeVars
      BY <1>3, <2>4 DEF ViewNext, LogKeys, Reprobe, On, WebTabKeys, SetMeta,
                        Follow, LogSteps, Probing, Fetched, DiffAnswered, allVars
    <3> QED BY <2>4, <3>1, ClosedDials DEF ViewInv, LayoutInv
  <2>5. reader' = reader
    BY ViewStepsLog
    DEF Next, vars, Write, Scanner, Relay, Handler, Receive, Emit, RequestReturns,
        Scan, Send, Eof, RelayTakes, RelaySends, RelayEnds, HandlerTakes,
        HandlerEnds, Disconnect, HandlerLeaves, StartLogStream, TabTakes, TabEnds,
        TabCloses
  <2>6. ASSUME view = "closed", reader = "terminal"
        PROVE  viewer' = "left" /\ (leave' \/ relay' = "done")
    BY <2>6, LeftStays, ViewStepsLog DEF ViewInv, LayoutInv
  <2> QED BY <2>1, <2>3, <2>4, <2>5, <2>6 DEF ViewInv, LayoutInv
<1> QED BY <1>1, <1>2, <1>3

LEMMA ViewStep == ViewInv /\ [ViewNext]_allVars => ViewInv'
<1> SUFFICES ASSUME ViewInv, [ViewNext]_allVars PROVE ViewInv'
  OBVIOUS
<1>1. PipelineInv'
  BY ViewStepsLog, PipelineStep DEF ViewInv
<1>2. WidgetInv'
  BY ViewStepsWidget, WidgetStep DEF ViewInv
<1>3. ProbeInv'
  BY ViewStepsProbes, ProbeNextStep DEF ViewInv
<1>4. WebInv'
  BY ViewStepsWeb, WebStep DEF ViewInv
<1> QED BY <1>1, <1>2, <1>3, <1>4, LayoutStep DEF ViewInv

LEMMA ViewImplies == ViewInv => ViewOK
<1> SUFFICES ASSUME ViewInv PROVE ViewOK
  OBVIOUS
<1>1. PipelineOK
  BY DEF ViewInv, PipelineInv, Goroutines, Queues, PipelineOK, TypeOK
<1>2. ViewTypeOK /\ OneRound
  BY ProbeTypes DEF ViewInv, WidgetInv, WebInv, LayoutInv, ViewTypeOK
<1>3. Released
  BY DEF ViewInv, LayoutInv, Released
<1> QED BY <1>1, <1>2, <1>3 DEF ViewOK

\* The view of a container: no line of the log is lost, doubled or out of order;
\* at most one round of probes dials for its own sake; and a view that was closed
\* gave the updates back to the row, has cancelled its probes and has told the
\* follower of the log.
THEOREM ViewCorrect == ViewSpec => []ViewOK
BY ViewStart, ViewStep, ViewImplies, PTL DEF ViewSpec

\* When the metadata of the container changes, the selected port stays selected
\* if it is still among the endpoints.
THEOREM PortStaysSelected == ViewSpec => PortKept
<1>1. ViewInv /\ [ViewNext]_allVars
          => [endpoints' # endpoints /\ CurrentEndpoint # Nowhere
                /\ (\E i \in DOMAIN endpoints' :
                        endpoints'[i].Port = CurrentEndpoint.Port)
                /\ probeSeq' = probeSeq
                  => CurrentEndpoint'.Port = CurrentEndpoint.Port]_webVars
  BY PortStep, ViewStepsWeb DEF ViewInv
<1> QED BY ViewStart, ViewStep, <1>1, PTL DEF ViewSpec, PortKept

\* Unless the web tab says that it is loading, it shows the answer to the last
\* request, whatever order the answers come in.
THEOREM PageIsNeverStale == ViewSpec => []PageIsLatest
<1>1. ViewInv => PageIsLatest
  BY DEF ViewInv, WebInv
<1> QED BY ViewStart, ViewStep, <1>1, PTL DEF ViewSpec

-----------------------------------------------------------------------------
(* Paths and what is listed. *)

LEMMA SubSeqsAre ==
    /\ SubSeq(<<"d">>, 1, 1) = <<"d">> /\ SubSeq(<<"f">>, 1, 1) = <<"f">>
    /\ SubSeq(<<"d", "f">>, 1, 1) = <<"d">>
    /\ SubSeq(<<"d", "f">>, 1, 2) = <<"d", "f">>
<1>1. ASSUME NEW s \in Seq({"d", "f"}), NEW t \in Seq({"d", "f"}), Len(t) <= Len(s),
             \A i \in 1..Len(t) : t[i] = s[i]
      PROVE  SubSeq(s, 1, Len(t)) = t
  <2>1. Len(t) \in 0..Len(s) /\ 1 \in 1..Len(s) + 1
    BY <1>1
  <2>2. PICK n \in 0..Len(s) : n = Len(t)
    BY <2>1
  <2>3. /\ SubSeq(s, 1, n) \in Seq({"d", "f"}) /\ Len(SubSeq(s, 1, n)) = n
        /\ \A i \in 1..n : SubSeq(s, 1, n)[i] = s[i]
    BY <1>1
  <2>4. SubSeq(s, 1, n) = t
    BY <1>1, <2>2, <2>3, SeqEqual
  <2> QED BY <2>2, <2>4
<1>2. /\ <<"d">> \in Seq({"d", "f"}) /\ Len(<<"d">>) = 1
      /\ <<"f">> \in Seq({"d", "f"}) /\ Len(<<"f">>) = 1
      /\ <<"d", "f">> \in Seq({"d", "f"}) /\ Len(<<"d", "f">>) = 2
      /\ <<"d">>[1] = "d" /\ <<"d", "f">>[1] = "d"
  <2>1. <<"d">> \in Seq({"d", "f"}) /\ <<"f">> \in Seq({"d", "f"})
    OBVIOUS
  <2>2. <<"d", "f">> \in Seq({"d", "f"})
    OBVIOUS
  <2>3. /\ Len(<<"d">>) = 1 /\ Len(<<"f">>) = 1 /\ Len(<<"d", "f">>) = 2
        /\ <<"d">>[1] = "d" /\ <<"d", "f">>[1] = "d"
    OBVIOUS
  <2> QED BY <2>1, <2>2, <2>3
<1>3. SubSeq(<<"d", "f">>, 1, Len(<<"d">>)) = <<"d">>
  <2>1. PICK s, t : s = <<"d", "f">> /\ t = <<"d">>
    OBVIOUS
  <2>2. /\ s \in Seq({"d", "f"}) /\ t \in Seq({"d", "f"}) /\ Len(t) = 1 /\ Len(s) = 2
        /\ t[1] = s[1]
    BY <1>2, <2>1
  <2>3. SubSeq(s, 1, Len(t)) = t
    BY <1>1, <2>2
  <2> QED BY <2>1, <2>3
<1>4. ASSUME NEW s \in Seq({"d", "f"}) PROVE SubSeq(s, 1, Len(s)) = s
  BY <1>1
<1>5. PICK s, t, u : s = <<"d">> /\ t = <<"f">> /\ u = <<"d", "f">>
  OBVIOUS
<1>6. /\ SubSeq(s, 1, Len(s)) = s /\ SubSeq(t, 1, Len(t)) = t
      /\ SubSeq(u, 1, Len(u)) = u /\ Len(s) = 1 /\ Len(t) = 1 /\ Len(u) = 2
  BY <1>2, <1>4, <1>5
<1> QED BY <1>2, <1>3, <1>5, <1>6

LEMMA PathsAre ==
    /\ Front(<<"d">>) = Root /\ Front(<<"f">>) = Root
    /\ Front(<<"d", "f">>) = <<"d">>
    /\ <<"d">> # Root /\ <<"f">> # Root /\ <<"d", "f">> # Root
    /\ <<"d">> # <<"f">> /\ <<"d">> # <<"d", "f">> /\ <<"f">> # <<"d", "f">>
    /\ Append(Root, "f") = <<"f">>
<1>1. /\ Len(<<"d">>) = 1 /\ Len(<<"f">>) = 1 /\ Len(<<"d", "f">>) = 2
      /\ Len(Root) = 0
  BY DEF Root
<1>2. <<"d">>[1] = "d" /\ <<"f">>[1] = "f" /\ <<"d", "f">>[1] = "d"
  OBVIOUS
<1>3. Front(<<"d">>) = Root /\ Front(<<"f">>) = Root
  BY DEF Front, Root
<1>4. Front(<<"d", "f">>) = <<"d">>
  BY <1>1, SubSeqsAre DEF Front
<1>5. Append(Root, "f") = <<"f">>
  BY DEF Root
<1> QED BY <1>1, <1>2, <1>3, <1>4, <1>5

LEMMA PrefixesAre ==
    ASSUME NEW p \in Paths, NEW q \in Paths
    PROVE  IsStrictPrefix(p, q) <=> p = <<"d">> /\ q = <<"d", "f">>
<1>1. /\ Len(<<"d">>) = 1 /\ Len(<<"f">>) = 1 /\ Len(<<"d", "f">>) = 2
      /\ <<"d">>[1] = "d" /\ <<"f">>[1] = "f" /\ <<"d", "f">>[1] = "d"
  OBVIOUS
<1>2. /\ SubSeq(<<"d">>, 1, 1) = <<"d">> /\ SubSeq(<<"f">>, 1, 1) = <<"f">>
      /\ SubSeq(<<"d", "f">>, 1, 1) = <<"d">>
      /\ SubSeq(<<"d", "f">>, 1, 2) = <<"d", "f">>
  BY SubSeqsAre
<1>3. p \in {<<"d">>, <<"d", "f">>, <<"f">>} /\ q \in {<<"d">>, <<"d", "f">>, <<"f">>}
  BY DEF Paths
<1>4. CASE p = <<"d">>
  BY <1>1, <1>2, <1>3, <1>4, PathsAre DEF IsStrictPrefix, IsPrefix
<1>5. CASE p = <<"f">>
  BY <1>1, <1>2, <1>3, <1>5, PathsAre DEF IsStrictPrefix, IsPrefix
<1>6. CASE p = <<"d", "f">>
  BY <1>1, <1>2, <1>3, <1>6, PathsAre DEF IsStrictPrefix, IsPrefix
<1> QED BY <1>3, <1>4, <1>5, <1>6

\* Items of a listing or a search.  Only one path is ever a directory.
Infos == {info \in [path : Paths, isDir : BOOLEAN] :
             info.isDir => info.path = <<"d">>}

\* The items in a directory, without what is gone.
Lists(dir, g) == {info \in Infos : Front(info.path) = dir /\ info.path # g}

LEMMA NotAPath == NoItem.path \notin Paths
<1>1. NoItem.path[1] = "no item"
  BY DEF NoItem
<1>2. \A p \in Paths : p[1] \in {"d", "f"}
  BY DEF Paths
<1> QED BY <1>1, <1>2

LEMMA InfosAreFinite == IsFiniteSet(Infos)
<1> DEFINE kind(p, b) == [path |-> p, isDir |-> b]
           S == {kind(<<"d">>, TRUE), kind(<<"d">>, FALSE),
                 kind(<<"d", "f">>, FALSE), kind(<<"f">>, FALSE)}
<1>1. IsFiniteSet({}) /\ IsFiniteSet({kind(<<"d">>, TRUE)})
  BY FS_EmptySet, FS_Singleton
<1>2. IsFiniteSet({kind(<<"d">>, TRUE)} \cup {kind(<<"d">>, FALSE)})
  BY <1>1, FS_AddElement
<1>3. IsFiniteSet(({kind(<<"d">>, TRUE)} \cup {kind(<<"d">>, FALSE)})
                   \cup {kind(<<"d", "f">>, FALSE)})
  BY <1>2, FS_AddElement
<1>4. IsFiniteSet((({kind(<<"d">>, TRUE)} \cup {kind(<<"d">>, FALSE)})
                   \cup {kind(<<"d", "f">>, FALSE)}) \cup {kind(<<"f">>, FALSE)})
  BY <1>3, FS_AddElement
<1>5. Infos \subseteq S
  <2> SUFFICES ASSUME NEW info \in Infos PROVE info \in S
    OBVIOUS
  <2>1. PICK p \in Paths, b \in BOOLEAN : info = [path |-> p, isDir |-> b]
    BY DEF Infos
  <2>2. b => p = <<"d">>
    BY <2>1 DEF Infos
  <2> QED BY <2>1, <2>2 DEF Paths
<1>6. IsFiniteSet(S)
  <2>1. S = (({kind(<<"d">>, TRUE)} \cup {kind(<<"d">>, FALSE)})
                   \cup {kind(<<"d", "f">>, FALSE)}) \cup {kind(<<"f">>, FALSE)}
    OBVIOUS
  <2> QED BY <1>4, <2>1
<1> HIDE DEF S
<1> QED BY <1>5, <1>6, FS_Subset

\* What is listed now is in the directory, and what is gone is not.
LEMMA FreshAre ==
    ASSUME NEW t, WellFormed(t), NEW dir \in Dirs, NEW g,
           g \in Paths => t[g] = "none", NEW listing \in Fresh(t, dir)
    PROVE  listing \subseteq Lists(dir, g)
<1> SUFFICES ASSUME NEW info \in listing PROVE info \in Lists(dir, g)
  OBVIOUS
<1>1. listing \in {Children(t, dir), {}}
  BY DEF Fresh
<1>2. PICK p \in Paths : /\ Front(p) = dir /\ Exists(t, p)
                         /\ info = Info(t, p)
  BY <1>1 DEF Children
<1>3. p # Root
  BY PathsAre DEF Paths
<1>4. info = [path |-> p, isDir |-> t[p] = "dir"]
  BY <1>2, <1>3 DEF Info, IsDirectory
<1>5. t[p] # "none" /\ (t[p] = "dir" => p = <<"d">>)
  BY <1>2, <1>3 DEF Exists, WellFormed, Paths
<1>6. (t[p] = "dir") \in BOOLEAN
  OBVIOUS
<1>7. info \in Infos
  BY <1>4, <1>5, <1>6 DEF Infos
<1> QED BY <1>2, <1>4, <1>5, <1>7 DEF Lists

LEMMA SearchAre ==
    ASSUME WellFormed(tree), NEW base, NEW found \in SearchFiles(base)
    PROVE  found \subseteq Infos
<1> SUFFICES ASSUME NEW info \in found PROVE info \in Infos
  OBVIOUS
<1>1. \/ \E p \in Paths : info = Info(tree, p)
      \/ \E p \in Paths : info = [path |-> p, isDir |-> FALSE]
  <2> DEFINE there == {Info(tree, p) : p \in {q \in Paths :
                          IsPrefix(base, q) /\ Exists(tree, q)}}
             changes == {[path |-> p, isDir |-> FALSE] : p \in Paths}
  <2>1. found \in (SUBSET there) \cup (SUBSET changes)
    BY DEF SearchFiles
  <2>2. info \in there => \E p \in Paths : info = Info(tree, p)
    OBVIOUS
  <2>3. info \in changes => \E p \in Paths : info = [path |-> p, isDir |-> FALSE]
    OBVIOUS
  <2> HIDE DEF there, changes
  <2> QED BY <2>1, <2>2, <2>3
<1>2. CASE \E p \in Paths : info = Info(tree, p)
  <2>1. PICK p \in Paths : info = Info(tree, p)
    BY <1>2
  <2>2. p # Root
    BY PathsAre DEF Paths
  <2>3. info = [path |-> p, isDir |-> tree[p] = "dir"]
    BY <2>1, <2>2 DEF Info, IsDirectory
  <2>4. tree[p] = "dir" => p = <<"d">>
    BY DEF WellFormed, Paths
  <2>5. (tree[p] = "dir") \in BOOLEAN
    OBVIOUS
  <2> QED BY <2>3, <2>4, <2>5 DEF Infos
<1>3. CASE \E p \in Paths : info = [path |-> p, isDir |-> FALSE]
  BY <1>3 DEF Infos
<1> QED BY <1>1, <1>2, <1>3

LEMMA SortedAre ==
    ASSUME NEW S \in SUBSET Infos, NEW list \in Sorted(S)
    PROVE  list \in Seq(S)
<1>1. IsFiniteSet(S)
  BY InfosAreFinite, FS_Subset
<1>2. Cardinality(S) \in Nat
  BY <1>1, FS_CardinalityType
<1>3. list \in [1..Cardinality(S) -> S]
  BY DEF Sorted, SetToSeqs
<1> QED BY <1>2, <1>3

LEMMA WithIs ==
    ASSUME NEW t, WellFormed(t), NEW p \in Paths, NEW kind \in {"none", "file"},
           kind = "file" => IsDirectory(t, Front(p))
    PROVE  /\ WellFormed(With(t, p, kind))
           /\ With(t, p, kind)[p] = kind
           /\ \A q \in Paths : q # p /\ With(t, p, kind)[q] # t[q] =>
                  IsStrictPrefix(p, q) /\ With(t, p, kind)[q] = "none"
<1> DEFINE u == With(t, p, kind)
<1>1. \A q \in Paths : u[q] = IF q = p THEN kind
                              ELSE IF IsStrictPrefix(p, q) THEN "none" ELSE t[q]
  BY DEF With
<1> HIDE DEF u
<1>2. /\ <<"d">> \in Paths /\ <<"f">> \in Paths /\ <<"d", "f">> \in Paths
      /\ p \in {<<"d">>, <<"d", "f">>, <<"f">>}
  BY DEF Paths
<1>3. /\ t[<<"d">>] \in {"none", "file", "dir"}
      /\ t[<<"f">>] \in {"none", "file"}
      /\ t[<<"d", "f">>] \in {"none", "file"}
      /\ t[<<"d", "f">>] # "none" => t[<<"d">>] = "dir"
  BY <1>2, PathsAre DEF WellFormed, IsDirectory
<1>4. p = <<"d", "f">> /\ kind = "file" => t[<<"d">>] = "dir"
  BY PathsAre DEF IsDirectory
<1>5. /\ u[<<"d">>] \in {"none", "file", "dir"}
      /\ u[<<"f">>] \in {"none", "file"}
      /\ u[<<"d", "f">>] \in {"none", "file"}
      /\ u[<<"d", "f">>] # "none" => u[<<"d">>] = "dir"
  <2>1. CASE p = <<"d">>
    BY <1>1, <1>2, <1>3, <2>1, PathsAre, PrefixesAre
  <2>2. CASE p = <<"d", "f">>
    BY <1>1, <1>2, <1>3, <1>4, <2>2, PathsAre, PrefixesAre
  <2>3. CASE p = <<"f">>
    BY <1>1, <1>2, <1>3, <2>3, PathsAre, PrefixesAre
  <2> QED BY <1>2, <2>1, <2>2, <2>3
<1>6. WellFormed(u)
  BY <1>2, <1>5, PathsAre DEF WellFormed, IsDirectory, Paths
<1> QED BY <1>1, <1>6 DEF u

\* The items on show: the parent directory and what the filter lets through.
LEMMA ItemsAre ==
    ASSUME NEW dir \in Dirs, NEW es \in Seq(Infos), NEW f \in BOOLEAN
    PROVE  LET l == TotalItems(dir, es, f)
           IN  /\ Len(l) \in Nat /\ (Len(l) = 0 <=> l = <<>>)
               /\ \A i \in 1..Len(l) :
                      \/ l[i] \in Infos
                      \/ l[i].isDir /\ l[i].path = Root
<1> DEFINE passing == {info \in ToSet(es) : ~f \/ Last(info.path) = "f"}
           up == [path |-> Front(dir), isDir |-> TRUE]
           kept == OnlyIn(es, passing)
           first == IF dir = Root THEN <<>> ELSE <<up>>
           l == TotalItems(dir, es, f)
<1>1. l = first \o kept
  BY DEF TotalItems
<1>2. kept \in Seq(Infos)
  BY OnlyInKeeps
<1>4. dir # Root => up.isDir /\ up.path = Root
  BY PathsAre DEF Dirs
<1>10. (dir = Root => first = <<>>) /\ (dir # Root => first = <<up>>)
  OBVIOUS
<1> HIDE DEF first, up
<1>3. <<>> \in Seq({up}) /\ <<up>> \in Seq({up})
  OBVIOUS
<1>5. Len(<<up>>) = 1 /\ <<up>>[1] = up
  OBVIOUS
<1>11. first \in Seq({up}) /\ \A i \in 1..Len(first) : first[i] = up /\ dir # Root
  <2>1. CASE dir = Root
    BY <1>3, <1>10, <2>1
  <2>2. CASE dir # Root
    <3>1. first \in Seq({up}) /\ Len(first) = 1 /\ first[1] = up
      BY <1>3, <1>5, <1>10, <2>2
    <3> QED BY <2>2, <3>1
  <2> QED BY <2>1, <2>2
<1> DEFINE T == Infos \cup {up}
<1> HIDE DEF first, kept, up, l
<1>6. first \in Seq(T) /\ kept \in Seq(T)
  BY <1>2, <1>11
<1> HIDE DEF T
<1>7. l \in Seq(T) /\ Len(l) = Len(first) + Len(kept)
      /\ \A i \in 1..Len(first) + Len(kept) :
             l[i] = IF i <= Len(first) THEN first[i] ELSE kept[i - Len(first)]
  BY <1>1, <1>6
<1>8. Len(first) \in Nat /\ Len(kept) \in Nat
  BY <1>6
<1>9. \A i \in 1..Len(l) : \/ l[i] \in Infos
                           \/ l[i].isDir /\ l[i].path = Root
  <2> SUFFICES ASSUME NEW i \in 1..Len(l)
               PROVE  l[i] \in Infos \/ (l[i].isDir /\ l[i].path = Root)
    OBVIOUS
  <2>1. CASE i <= Len(first)
    <3>1. i \in 1..Len(first) /\ l[i] = first[i]
      BY <1>7, <1>8, <2>1
    <3> QED BY <1>4, <1>11, <3>1
  <2>2. CASE ~(i <= Len(first))
    <3>1. i - Len(first) \in 1..Len(kept) /\ l[i] = kept[i - Len(first)]
      BY <1>7, <1>8, <2>2
    <3> QED BY <1>2, <3>1
  <2> QED BY <2>1, <2>2
<1> QED BY <1>7, <1>9 DEF l

\* Where a cursor may be.
OnItem(c, l) == c \in 1..(IF l = <<>> THEN 1 ELSE Len(l))

LEMMA ClampIs ==
    ASSUME NEW dir \in Dirs, NEW es \in Seq(Infos), NEW f \in BOOLEAN,
           NEW c \in Nat \ {0}
    PROVE  /\ OnItem(Clamp(c, dir, es, f), TotalItems(dir, es, f))
           /\ OnItem(1, TotalItems(dir, es, f))
<1> DEFINE l == TotalItems(dir, es, f)
<1>1. Len(l) \in Nat /\ (Len(l) = 0 <=> l = <<>>)
  BY ItemsAre
<1>2. Clamp(c, dir, es, f) = IF c > Len(l) THEN 1 ELSE c
  BY DEF Clamp
<1> HIDE DEF l
<1>3. OnItem(1, l)
  BY <1>1 DEF OnItem
<1>4. OnItem(IF c > Len(l) THEN 1 ELSE c, l)
  BY <1>1 DEF OnItem
<1> QED BY <1>2, <1>3, <1>4 DEF l

-----------------------------------------------------------------------------
(* The invariant of the explorer. *)

\* Every listing, kept or on its way to be kept, is one of its directory and is
\* without the file that is gone.
CacheOK(cache, g) ==
    /\ DOMAIN cache = Dirs
    /\ \A dir \in Dirs : cache[dir] = NotCached \/ cache[dir] \subseteq Lists(dir, g)

ReadersOK(rd, g) ==
    /\ DOMAIN rd = Readers
    /\ \A r \in Readers :
           \/ rd[r] = Idle
           \/ rd[r].dir \in Dirs /\ rd[r].listing \subseteq Lists(rd[r].dir, g)

FilesInv ==
    /\ WellFormed(tree)
    /\ gone \in Paths \cup {NoItem.path}
    /\ gone \in Paths => tree[gone] = "none"
    /\ CacheOK(dirCache, gone)
    /\ ReadersOK(reading, gone)

\* The entries are items that the badge covers, and the file to be deleted or
\* edited is none that was listed as a directory.
ListInv ==
    /\ mode \in {"closed", "away", "list", "preview", "delete", "edit", "editor"}
    /\ currentDir \in Dirs
    /\ entries \in Seq(Infos)
    /\ filtering \in BOOLEAN /\ deep \in BOOLEAN
    /\ OnItem(cursor, Items)
    /\ \A i \in 1..Len(entries) :
           /\ deep \/ Front(entries[i].path) = currentDir
           /\ listed => entries[i].path # gone
    /\ mode \in {"delete", "edit", "editor"} => pending \in Infos /\ ~pending.isDir

ExplorerInv == FilesInv /\ ListInv

\* The item under the cursor.
LEMMA SelectedEntryIs ==
    ASSUME ListInv, HasSelected
    PROVE  /\ SelectedEntry.isDir => SelectedEntry.path \in Dirs
           /\ ~SelectedEntry.isDir => SelectedEntry \in Infos
<1>1. /\ Len(Items) \in Nat /\ (Len(Items) = 0 <=> Items = <<>>)
      /\ \A i \in 1..Len(Items) :
             Items[i] \in Infos \/ (Items[i].isDir /\ Items[i].path = Root)
  BY ItemsAre DEF Items, ListInv
<1>2. cursor \in 1..Len(Items)
  BY <1>1 DEF ListInv, OnItem, HasSelected
<1>3. \/ SelectedEntry \in Infos
      \/ SelectedEntry.isDir /\ SelectedEntry.path = Root
  BY <1>1, <1>2 DEF SelectedEntry
<1> QED BY <1>3 DEF Infos, Dirs

\* A directory is read: the entries are in it, and none of them is gone.
LEMMA ReadIntoIs ==
    ASSUME NEW dir \in Dirs, NEW cache, NEW g \in Paths \cup {NoItem.path},
           WellFormed(tree'), g \in Paths => tree'[g] = "none",
           CacheOK(cache, g), ReadInto(dir, cache)
    PROVE  /\ currentDir' = dir /\ listed' = TRUE
           /\ entries' \in Seq(Infos)
           /\ \A i \in 1..Len(entries') : /\ Front(entries'[i].path) = dir
                                          /\ entries'[i].path # g
           /\ CacheOK(dirCache', g)
<1>1. PICK listing \in ReadDir(tree', cache, dir) :
          /\ Set(dir, listing) /\ listed' = TRUE
          /\ dirCache' = Caching(cache, dir, listing)
  BY DEF ReadInto
<1>2. listing \subseteq Lists(dir, g)
  <2>1. CASE cache[dir] # NotCached
    <3>1. listing = cache[dir]
      BY <2>1 DEF ReadDir
    <3> QED BY <2>1, <3>1 DEF CacheOK
  <2>2. CASE cache[dir] = NotCached
    <3>1. listing \in Fresh(tree', dir)
      BY <2>2 DEF ReadDir
    <3>2. PICK t : t = tree'
      OBVIOUS
    <3>3. WellFormed(t) /\ (g \in Paths => t[g] = "none") /\ listing \in Fresh(t, dir)
      BY <3>1, <3>2
    <3> QED BY <3>3, FreshAre
  <2> QED BY <2>1, <2>2
<1>3. entries' \in Seq(listing)
  <2>1. entries' \in Sorted(listing)
    BY <1>1 DEF Set
  <2>2. listing \in SUBSET Infos
    BY <1>2 DEF Lists
  <2> QED BY <2>1, <2>2, SortedAre
<1>4. \A i \in 1..Len(entries') : entries'[i] \in Lists(dir, g)
  BY <1>2, <1>3
<1>5. entries' \in Seq(Infos)
  BY <1>2, <1>3 DEF Lists
<1>6. CacheOK(dirCache', g)
  BY <1>1, <1>2 DEF CacheOK, Caching
<1> QED BY <1>1, <1>4, <1>5, <1>6 DEF Set, Lists

\* The directory is read by a key: the listing is right again.
LEMMA RefreshKeeps ==
    ASSUME NEW dir \in Dirs, NEW cache, NEW g \in Paths \cup {NoItem.path},
           WellFormed(tree'), g \in Paths => tree'[g] = "none",
           CacheOK(cache, g), ReadersOK(reading', g), gone' = g,
           ReadInto(dir, cache), mode' = "list",
           filtering' \in BOOLEAN, deep' \in BOOLEAN,
           NEW c \in Nat \ {0},
           cursor' \in {1, Clamp(c, dir, entries', filtering')}
    PROVE  ExplorerInv'
<1>1. /\ currentDir' = dir /\ listed' = TRUE
      /\ entries' \in Seq(Infos)
      /\ \A i \in 1..Len(entries') : /\ Front(entries'[i].path) = dir
                                     /\ entries'[i].path # g
      /\ CacheOK(dirCache', g)
  BY ReadIntoIs
<1>2. FilesInv'
  BY <1>1 DEF FilesInv
<1>3. OnItem(cursor', TotalItems(dir, entries', filtering'))
  <2>1. PICK es, f : es = entries' /\ f = filtering'
    OBVIOUS
  <2>2. es \in Seq(Infos) /\ f \in BOOLEAN
    BY <1>1, <2>1
  <2>3. /\ OnItem(Clamp(c, dir, es, f), TotalItems(dir, es, f))
        /\ OnItem(1, TotalItems(dir, es, f))
    BY <2>2, ClampIs
  <2> QED BY <2>1, <2>3
<1>4. ListInv'
  BY <1>1, <1>3 DEF ListInv, Items
<1> QED BY <1>2, <1>4 DEF ExplorerInv

\* The listing is left as it is.
LEMMA ListKept ==
    ASSUME ListInv, UNCHANGED <<listVars, listed>>, gone' \in {gone, NoItem.path},
           mode' \in {"closed", "away", "list", "preview", "delete", "edit", "editor"},
           mode' \in {"delete", "edit", "editor"} => pending' \in Infos /\ ~pending'.isDir
    PROVE  ListInv'
<1>1. /\ currentDir' = currentDir /\ entries' = entries /\ filtering' = filtering
      /\ deep' = deep /\ cursor' = cursor /\ listed' = listed
  BY DEF listVars
<1>2. Items' = Items
  BY <1>1 DEF Items
<1>3. \A i \in 1..Len(entries) : entries[i].path # NoItem.path
  BY NotAPath DEF ListInv, Infos
<1>4. \A i \in 1..Len(entries) : /\ deep \/ Front(entries[i].path) = currentDir
                                 /\ listed => entries[i].path # gone'
  BY <1>3 DEF ListInv
<1> QED BY <1>1, <1>2, <1>4 DEF ListInv

\* What the file system is left with when a path that was gone comes back.
LEMMA StillGoneIs ==
    ASSUME gone \in Paths \cup {NoItem.path}, NEW t
    PROVE  /\ StillGone(t) \in {gone, NoItem.path}
           /\ StillGone(t) \in Paths => t[StillGone(t)] = "none"
BY NotAPath DEF StillGone, Exists

LEMMA BackAgain ==
    ASSUME NEW g, NEW h \in {g, NoItem.path}, NEW cache, NEW rd
    PROVE  /\ CacheOK(cache, g) => CacheOK(cache, h)
           /\ ReadersOK(rd, g) => ReadersOK(rd, h)
<1>1. \A dir : Lists(dir, g) \subseteq Lists(dir, h)
  BY NotAPath DEF Lists, Infos
<1> QED BY <1>1 DEF CacheOK, ReadersOK

\* A key that changes the files and reads the directory again.
LEMMA ChangedAndRead ==
    ASSUME ExplorerInv, WellFormed(tree'), gone' = StillGone(tree'),
           RefreshDir(currentDir, dirCache), UNCHANGED <<reading, filtering, deep>>
    PROVE  ExplorerInv'
<1> DEFINE g == StillGone(tree')
<1>1. PICK t : t = tree'
  OBVIOUS
<1>2. StillGone(t) \in {gone, NoItem.path}
      /\ (StillGone(t) \in Paths => t[StillGone(t)] = "none")
  BY StillGoneIs DEF ExplorerInv, FilesInv
<1>3. g \in {gone, NoItem.path} /\ (g \in Paths => tree'[g] = "none")
  BY <1>1, <1>2
<1> HIDE DEF g
<1>4. g \in Paths \cup {NoItem.path}
  BY <1>3 DEF ExplorerInv, FilesInv
<1>5. CacheOK(dirCache, g) /\ ReadersOK(reading, g)
  BY <1>3, BackAgain DEF ExplorerInv, FilesInv
<1>6. gone' = g /\ ReadersOK(reading', g)
  BY <1>5 DEF g
<1>7. /\ currentDir \in Dirs /\ filtering' \in BOOLEAN /\ deep' \in BOOLEAN
      /\ 1 \in Nat \ {0}
  BY DEF ExplorerInv, ListInv
<1>8. ReadInto(currentDir, dirCache) /\ mode' = "list" /\ cursor' = 1
  BY DEF RefreshDir
<1> QED BY <1>3, <1>4, <1>5, <1>6, <1>7, <1>8, RefreshKeeps

\* A key that reads a directory and changes no file.
LEMMA OnlyRead ==
    ASSUME ExplorerInv, NEW dir \in Dirs, ReadInto(dir, dirCache),
           mode' = "list", UNCHANGED quiet, filtering' \in BOOLEAN, deep' \in BOOLEAN,
           cursor' \in {1, Clamp(cursor, dir, entries', filtering')}
    PROVE  ExplorerInv'
<1>1. tree' = tree /\ reading' = reading /\ gone' = gone
  BY DEF quiet
<1>2. /\ gone \in Paths \cup {NoItem.path} /\ WellFormed(tree')
      /\ gone \in Paths => tree'[gone] = "none"
      /\ CacheOK(dirCache, gone) /\ ReadersOK(reading', gone)
  BY <1>1 DEF ExplorerInv, FilesInv
<1>3. cursor \in Nat \ {0}
  <2>1. Len(Items) \in Nat
    BY ItemsAre DEF Items, ExplorerInv, ListInv
  <2> QED BY <2>1 DEF ExplorerInv, ListInv, OnItem
<1> QED BY <1>1, <1>2, <1>3, RefreshKeeps

\* A key that neither touches files nor reads any.
LEMMA OnlyShown ==
    ASSUME ExplorerInv, UNCHANGED <<dirCache, quiet>>, ListInv'
    PROVE  ExplorerInv'
<1>1. tree' = tree /\ reading' = reading /\ gone' = gone /\ dirCache' = dirCache
  BY DEF quiet
<1> QED BY <1>1 DEF ExplorerInv, FilesInv

LEMMA NothingListed ==
    /\ OnItem(1, TotalItems(Root, <<>>, FALSE))
    /\ <<>> \in Seq(Infos) /\ 1..Len(<<>>) = {}
<1>1. <<>> \in Seq(Infos) /\ 1..Len(<<>>) = {}
  OBVIOUS
<1>2. Root \in Dirs /\ FALSE \in BOOLEAN /\ 1 \in Nat \ {0}
  BY DEF Dirs
<1>3. PICK es : es = <<>>
  OBVIOUS
<1>5. es \in Seq(Infos)
  BY <1>1, <1>3, Zenon
<1>4. OnItem(1, TotalItems(Root, es, FALSE))
  BY <1>2, <1>5, ClampIs
<1> QED BY <1>1, <1>3, <1>4, Zenon

LEMMA InitExplorer == ExplorerInit => ExplorerInv
<1> SUFFICES ASSUME ExplorerInit PROVE ExplorerInv
  OBVIOUS
<1>1. Root \in Dirs
  BY DEF Dirs
<1>2. gone = NoItem.path /\ gone \notin Paths
  BY NotAPath DEF ExplorerInit, NoExplorer
<1>3. WellFormed(tree)
  BY PathsAre DEF ExplorerInit, FilesInit, WellFormed, IsDirectory, Paths
<1>4. FilesInv
  BY <1>2, <1>3 DEF FilesInv, CacheOK, ReadersOK, ExplorerInit, FilesInit
<1>5. OnItem(cursor, Items)
  BY NothingListed DEF Items, ExplorerInit, NoExplorer
<1>6. entries \in Seq(Infos) /\ 1..Len(entries) = {}
  BY NothingListed DEF ExplorerInit, NoExplorer
<1>7. mode = "closed" /\ currentDir = Root /\ filtering = FALSE /\ deep = FALSE
  BY DEF ExplorerInit, NoExplorer
<1>8. ListInv
  BY <1>1, <1>5, <1>6, <1>7 DEF ListInv
<1> QED BY <1>4, <1>8 DEF ExplorerInv

\* Open, and the keys that go to a directory.
LEMMA EnterStep ==
    ASSUME ExplorerInv, NEW dir \in Dirs, RefreshDir(dir, dirCache),
           UNCHANGED quiet, filtering' = FALSE, deep' = FALSE
    PROVE  ExplorerInv'
<1>1. ReadInto(dir, dirCache) /\ mode' = "list" /\ cursor' = 1
  BY DEF RefreshDir
<1>2. filtering' \in BOOLEAN /\ deep' \in BOOLEAN
  OBVIOUS
<1> QED BY <1>1, <1>2, OnlyRead

LEMMA GoToStep ==
    ASSUME ExplorerInv, Open \/ Clear \/ GoTo PROVE ExplorerInv'
<1>1. Root \in Dirs /\ currentDir \in Dirs
  BY DEF Dirs, ExplorerInv, ListInv
<1>2. currentDir # Root => Front(currentDir) \in Dirs
  BY <1>1, PathsAre DEF Dirs
<1>3. HasSelected /\ SelectedEntry.isDir => SelectedEntry.path \in Dirs
  BY SelectedEntryIs DEF ExplorerInv
<1>4. ASSUME NEW dir \in Dirs, Enter(dir) PROVE ExplorerInv'
  <2>1. RefreshDir(dir, dirCache) /\ UNCHANGED quiet /\ filtering' = FALSE /\ deep' = FALSE
    BY <1>4 DEF Enter
  <2> QED BY <2>1, EnterStep
<1>5. CASE Open
  <2>1. RefreshDir(Root, dirCache) /\ UNCHANGED quiet /\ filtering' = FALSE /\ deep' = FALSE
    BY <1>5 DEF Open
  <2> QED BY <1>1, <2>1, EnterStep
<1>6. CASE Clear
  BY <1>1, <1>4, <1>6 DEF Clear
<1>7. CASE GoTo
  BY <1>1, <1>2, <1>3, <1>4, <1>7 DEF GoTo
<1> QED BY <1>5, <1>6, <1>7

LEMMA ReturnStep == ASSUME ExplorerInv, ReturnToTab PROVE ExplorerInv'
<1>1. /\ ReadInto(currentDir, dirCache) /\ mode' = "list" /\ UNCHANGED quiet
      /\ cursor' = Clamp(cursor, currentDir, entries', filtering')
  BY DEF ReturnToTab
<1>2. currentDir \in Dirs /\ filtering' \in BOOLEAN /\ deep' \in BOOLEAN
  BY DEF ReturnToTab, ExplorerInv, ListInv
<1> QED BY <1>1, <1>2, OnlyRead

\* The keys that leave the items and the cursor alone.
LEMMA ModeStep ==
    ASSUME ExplorerInv,
           LeaveTab \/ Preview \/ StartConfirm \/ BackToList \/ StartEditor
    PROVE  ExplorerInv'
<1>1. UNCHANGED <<listVars, listed>> /\ UNCHANGED <<dirCache, quiet>>
  BY DEF LeaveTab, Preview, StartConfirm, BackToList, StartEditor
<1>2. mode' \in {"closed", "away", "list", "preview", "delete", "edit", "editor"}
  BY DEF LeaveTab, Preview, StartConfirm, BackToList, StartEditor
<1>3. mode' \in {"delete", "edit", "editor"} => pending' \in Infos /\ ~pending'.isDir
  <2>1. CASE StartConfirm
    BY <2>1, SelectedEntryIs DEF StartConfirm, ExplorerInv
  <2>2. CASE StartEditor
    BY <2>2 DEF StartEditor, ExplorerInv, ListInv
  <2>3. CASE LeaveTab \/ Preview \/ BackToList
    BY <2>3 DEF LeaveTab, Preview, BackToList
  <2> QED BY <2>1, <2>2, <2>3
<1>4. gone' = gone
  BY <1>1 DEF quiet
<1>5. ListInv'
  BY <1>1, <1>2, <1>3, <1>4, ListKept DEF ExplorerInv
<1> QED BY <1>1, <1>5, OnlyShown

LEMMA CloseStep == ASSUME ExplorerInv, CloseExplorer PROVE ExplorerInv'
<1>1. /\ mode' = "closed" /\ currentDir' = Root /\ entries' = <<>>
      /\ filtering' = FALSE /\ deep' = FALSE /\ cursor' = 1
      /\ UNCHANGED <<dirCache, quiet>>
  BY DEF CloseExplorer
<1>2. OnItem(cursor', Items')
  BY <1>1, NothingListed DEF Items
<1>3. entries' \in Seq(Infos) /\ 1..Len(entries') = {}
  BY <1>1, NothingListed
<1>4. Root \in Dirs
  BY DEF Dirs
<1>5. ListInv'
  BY <1>1, <1>2, <1>3, <1>4 DEF ListInv
<1> QED BY <1>1, <1>5, OnlyShown

\* Move, the filter and the search.
LEMMA ShowStep ==
    ASSUME ExplorerInv, Move \/ SetEntryFilter \/ DeepSearch PROVE ExplorerInv'
<1>1. /\ mode = "list" /\ mode' = mode /\ currentDir' = currentDir
      /\ pending' = pending /\ UNCHANGED <<dirCache, quiet>> /\ gone' = gone
  BY DEF Move, SetEntryFilter, DeepSearch, Set, quiet
<1>2. Len(Items) \in Nat /\ (Len(Items) = 0 <=> Items = <<>>)
  BY ItemsAre DEF Items, ExplorerInv, ListInv
<1>3. cursor \in Nat \ {0}
  BY <1>2 DEF ExplorerInv, ListInv, OnItem
<1>4. CASE Move
  <2>1. UNCHANGED <<entries, filtering, deep, listed>> /\ cursor' \in 1..Len(Items)
    BY <1>4 DEF Move
  <2>2. Items' = Items
    BY <1>1, <2>1 DEF Items
  <2>3. OnItem(cursor', Items')
    BY <1>2, <2>1, <2>2 DEF OnItem
  <2>4. ListInv'
    BY <1>1, <2>1, <2>3 DEF ExplorerInv, ListInv
  <2> QED BY <1>1, <2>4, OnlyShown
<1>5. CASE SetEntryFilter
  <2>1. UNCHANGED <<entries, deep, listed>> /\ filtering' \in BOOLEAN
        /\ cursor' = Clamp(cursor, currentDir, entries, filtering')
    BY <1>5 DEF SetEntryFilter
  <2>2. PICK f : f = filtering'
    OBVIOUS
  <2>3. currentDir \in Dirs /\ entries \in Seq(Infos) /\ f \in BOOLEAN
    BY <2>1, <2>2 DEF ExplorerInv, ListInv
  <2>4. OnItem(Clamp(cursor, currentDir, entries, f), TotalItems(currentDir, entries, f))
    BY <1>3, <2>3, ClampIs
  <2>5. OnItem(cursor', Items')
    BY <1>1, <2>1, <2>2, <2>4 DEF Items
  <2>6. ListInv'
    BY <1>1, <2>1, <2>5 DEF ExplorerInv, ListInv
  <2> QED BY <1>1, <2>6, OnlyShown
<1>6. CASE DeepSearch
  <2>1. PICK found \in SearchFiles(currentDir) : Set(currentDir, found)
    BY <1>6 DEF DeepSearch
  <2>2. /\ deep' = TRUE /\ listed' = FALSE /\ filtering' = filtering
        /\ cursor' = Clamp(cursor, currentDir, entries', filtering)
    BY <1>6 DEF DeepSearch
  <2>3. found \in SUBSET Infos
    BY SearchAre DEF ExplorerInv, FilesInv
  <2>4. entries' \in Seq(Infos)
    <3>1. entries' \in Seq(found)
      BY <2>1, <2>3, SortedAre DEF Set
    <3> QED BY <2>3, <3>1
  <2>5. PICK es : es = entries'
    OBVIOUS
  <2>6. currentDir \in Dirs /\ es \in Seq(Infos) /\ filtering \in BOOLEAN
    BY <2>4, <2>5 DEF ExplorerInv, ListInv
  <2>7. OnItem(Clamp(cursor, currentDir, es, filtering),
               TotalItems(currentDir, es, filtering))
    BY <1>3, <2>6, ClampIs
  <2>8. OnItem(cursor', Items')
    BY <1>1, <2>2, <2>5, <2>7 DEF Items
  <2>9. ListInv'
    BY <1>1, <2>2, <2>4, <2>6, <2>8 DEF ListInv
  <2> QED BY <1>1, <2>9, OnlyShown
<1> QED BY <1>4, <1>5, <1>6

\* The confirmed path is deleted, also if nobody could tell.
LEMMA DeleteStep == ASSUME ExplorerInv, Delete PROVE ExplorerInv'
<1> DEFINE g == IF Overtaken(pending.path) THEN gone ELSE pending.path
<1>1. /\ tree' = With(tree, pending.path, "none") /\ mode = "delete"
      /\ gone' = g /\ UNCHANGED <<reading, filtering, deep>>
      /\ ReadInto(currentDir, Invalidated) /\ cursor' = 1 /\ mode' = "list"
  BY DEF Delete, RefreshDir
<1>2. pending \in Infos /\ pending.path \in Paths
  BY <1>1 DEF ExplorerInv, ListInv, Infos
<1>3. /\ WellFormed(With(tree, pending.path, "none"))
      /\ With(tree, pending.path, "none")[pending.path] = "none"
      /\ \A q \in Paths : q # pending.path
             /\ With(tree, pending.path, "none")[q] # tree[q] =>
                    With(tree, pending.path, "none")[q] = "none"
  BY <1>2, WithIs DEF ExplorerInv, FilesInv
<1>4. g \in Paths \cup {NoItem.path} /\ (g \in Paths => tree'[g] = "none")
  BY <1>1, <1>2, <1>3 DEF ExplorerInv, FilesInv
<1>5. ReadersOK(reading', g)
  <2>1. CASE Overtaken(pending.path)
    BY <1>1, <2>1 DEF ExplorerInv, FilesInv
  <2>2. CASE ~Overtaken(pending.path)
    <3>1. \A r \in Readers : \A info \in reading[r].listing : info.path # pending.path
      BY <2>2 DEF Overtaken
    <3>2. g = pending.path /\ ReadersOK(reading, gone)
      BY <2>2 DEF ExplorerInv, FilesInv
    <3> HIDE DEF g
    <3>3. ReadersOK(reading, g)
      BY <3>1, <3>2 DEF ReadersOK, Lists
    <3> QED BY <1>1, <3>3
  <2> QED BY <2>1, <2>2
<1>6. CacheOK(Invalidated, g)
  BY DEF CacheOK, Invalidated
<1>7. WellFormed(tree')
  BY <1>1, <1>3
<1>8. /\ currentDir \in Dirs /\ filtering' \in BOOLEAN /\ deep' \in BOOLEAN
      /\ 1 \in Nat \ {0}
  BY <1>1 DEF ExplorerInv, ListInv
<1> HIDE DEF g
<1> QED BY <1>1, <1>4, <1>5, <1>6, <1>7, <1>8, RefreshKeeps

LEMMA DeleteFailsStep == ASSUME ExplorerInv, DeleteFails PROVE ExplorerInv'
<1>1. /\ mode = "delete" /\ mode' = "list"
      /\ UNCHANGED <<listVars, listed>> /\ gone' = gone /\ reading' = reading
  BY DEF DeleteFails
<1>2. pending \in Infos /\ pending.path \in Paths
  BY <1>1 DEF ExplorerInv, ListInv, Infos
<1>3. WellFormed(tree') /\ (gone \in Paths => tree'[gone] = "none")
  <2>1. CASE tree' = tree
    BY <2>1 DEF ExplorerInv, FilesInv
  <2>2. CASE tree' = With(tree, pending.path, "none")
    <3>1. /\ WellFormed(With(tree, pending.path, "none"))
          /\ With(tree, pending.path, "none")[pending.path] = "none"
          /\ \A q \in Paths : q # pending.path
                 /\ With(tree, pending.path, "none")[q] # tree[q] =>
                        With(tree, pending.path, "none")[q] = "none"
      BY <1>2, WithIs DEF ExplorerInv, FilesInv
    <3> QED BY <2>2, <3>1 DEF ExplorerInv, FilesInv
  <2> QED BY <2>1, <2>2 DEF DeleteFails
<1>4. CacheOK(dirCache', gone)
  BY DEF DeleteFails, CacheOK, Invalidated, ExplorerInv, FilesInv
<1>5. FilesInv'
  BY <1>1, <1>3, <1>4 DEF ExplorerInv, FilesInv
<1>6. ListInv'
  BY <1>1, ListKept DEF ExplorerInv
<1> QED BY <1>5, <1>6 DEF ExplorerInv

\* The editor has put the file back.
LEMMA FinishEditStep == ASSUME ExplorerInv, FinishEdit PROVE ExplorerInv'
<1>1. /\ mode = "editor" /\ CanUpload(pending.path, "tmp")
      /\ tree' = Uploaded(pending.path, "tmp") /\ gone' = StillGone(tree')
      /\ RefreshDir(currentDir, dirCache) /\ UNCHANGED <<reading, filtering, deep>>
  BY DEF FinishEdit
<1>2. pending.path \in Paths /\ pending.path # Root
  BY <1>1, PathsAre DEF ExplorerInv, ListInv, Infos, Paths
<1>3. /\ tree' = With(tree, pending.path, "file")
      /\ IsDirectory(tree, Front(pending.path))
  BY <1>1, <1>2 DEF CanUpload, Uploaded, UploadTarget
<1>4. WellFormed(With(tree, pending.path, "file"))
  BY <1>2, <1>3, WithIs DEF ExplorerInv, FilesInv
<1>5. WellFormed(tree')
  BY <1>3, <1>4
<1> QED BY <1>1, <1>5, ChangedAndRead

LEMMA UploadFileStep == ASSUME ExplorerInv, UploadFile PROVE ExplorerInv'
<1>1. /\ CanUpload(currentDir, "f") /\ tree' = Uploaded(currentDir, "f")
      /\ gone' = StillGone(tree')
      /\ RefreshDir(currentDir, dirCache) /\ UNCHANGED <<reading, filtering, deep>>
  BY DEF UploadFile
<1> DEFINE p == UploadTarget(currentDir, "f")
<1>2. p \in Paths
  BY PathsAre DEF UploadTarget, ExplorerInv, ListInv, Dirs, Paths
<1>3. tree' = With(tree, p, "file") /\ IsDirectory(tree, Front(p))
  BY <1>1 DEF CanUpload, Uploaded
<1> HIDE DEF p
<1>4. WellFormed(With(tree, p, "file"))
  BY <1>2, <1>3, WithIs DEF ExplorerInv, FilesInv
<1>5. WellFormed(tree')
  BY <1>3, <1>4
<1> QED BY <1>1, <1>5, ChangedAndRead

LEMMA UploadDirStep == ASSUME ExplorerInv, UploadDir PROVE ExplorerInv'
<1>1. /\ tree' = UploadedDir(currentDir) /\ gone' = StillGone(tree')
      /\ RefreshDir(currentDir, dirCache) /\ UNCHANGED <<reading, filtering, deep>>
  BY DEF UploadDir
<1>2. WellFormed(UploadedDir(currentDir))
  <2>1. CASE currentDir = Root
    BY <2>1, PathsAre
    DEF UploadedDir, WellFormed, IsDirectory, Paths, ExplorerInv, FilesInv
  <2>2. CASE currentDir # Root
    BY <2>2 DEF UploadedDir, ExplorerInv, FilesInv
  <2> QED BY <2>1, <2>2
<1>3. WellFormed(tree')
  BY <1>1, <1>2
<1> QED BY <1>1, <1>3, ChangedAndRead

\* The container and the web server.
LEMMA EnvironmentStep == ASSUME ExplorerInv, Environment PROVE ExplorerInv'
<1>1. /\ mode' = mode /\ pending' = pending /\ UNCHANGED <<listVars, listed>>
      /\ gone' = StillGone(tree') /\ FilesNext
  BY DEF Environment
<1>2. WellFormed(tree')
  BY <1>1 DEF FilesNext, Touch, Expire, ReaderLists, ReaderStores, ExplorerInv, FilesInv
<1>3. PICK t : t = tree'
  OBVIOUS
<1>4. StillGone(t) \in {gone, NoItem.path}
      /\ (StillGone(t) \in Paths => t[StillGone(t)] = "none")
  BY StillGoneIs DEF ExplorerInv, FilesInv
<1>5. gone' \in {gone, NoItem.path} /\ (gone' \in Paths => tree'[gone'] = "none")
  BY <1>1, <1>3, <1>4
<1>6. CacheOK(dirCache', gone) /\ ReadersOK(reading', gone)
  <2>0. /\ CacheOK(dirCache, gone) /\ ReadersOK(reading, gone)
        /\ WellFormed(tree) /\ (gone \in Paths => tree[gone] = "none")
    BY DEF ExplorerInv, FilesInv
  <2>1. CASE Touch
    BY <2>0, <2>1 DEF Touch
  <2>2. ASSUME NEW dir \in Dirs, Expire(dir)
        PROVE  CacheOK(dirCache', gone) /\ ReadersOK(reading', gone)
    BY <2>0, <2>2 DEF Expire, Caching, CacheOK
  <2>3. ASSUME NEW r \in Readers, NEW dir \in Dirs, ReaderLists(r, dir)
        PROVE  CacheOK(dirCache', gone) /\ ReadersOK(reading', gone)
    <3>1. PICK listing \in Fresh(tree, dir) :
              reading' = [reading EXCEPT ![r] = [dir |-> dir, listing |-> listing]]
      BY <2>3 DEF ReaderLists
    <3>2. listing \subseteq Lists(dir, gone)
      BY <2>0, FreshAre
    <3>3. ReadersOK(reading', gone)
      BY <2>0, <3>1, <3>2 DEF ReadersOK
    <3> QED BY <2>0, <2>3, <3>3 DEF ReaderLists
  <2>4. ASSUME NEW r \in Readers, ReaderStores(r)
        PROVE  CacheOK(dirCache', gone) /\ ReadersOK(reading', gone)
    <3>1. /\ reading[r] # Idle
          /\ dirCache' = Caching(dirCache, reading[r].dir, reading[r].listing)
          /\ reading' = [reading EXCEPT ![r] = Idle]
      BY <2>4 DEF ReaderStores
    <3>2. reading[r].dir \in Dirs /\ reading[r].listing \subseteq Lists(reading[r].dir, gone)
      BY <2>0, <3>1 DEF ReadersOK
    <3>3. CacheOK(dirCache', gone)
      BY <2>0, <3>1, <3>2 DEF CacheOK, Caching
    <3>4. ReadersOK(reading', gone)
      BY <2>0, <3>1 DEF ReadersOK
    <3> QED BY <3>3, <3>4
  <2> QED BY <1>1, <2>1, <2>2, <2>3, <2>4 DEF FilesNext
<1>7. CacheOK(dirCache', gone') /\ ReadersOK(reading', gone')
  BY <1>5, <1>6, BackAgain
<1>8. gone' \in Paths \cup {NoItem.path}
  BY <1>5 DEF ExplorerInv, FilesInv
<1>9. FilesInv'
  BY <1>2, <1>5, <1>7, <1>8 DEF FilesInv
<1>10. ListInv'
  <2>1. /\ mode' \in {"closed", "away", "list", "preview", "delete", "edit", "editor"}
        /\ mode' \in {"delete", "edit", "editor"} => pending' \in Infos /\ ~pending'.isDir
    BY <1>1 DEF ExplorerInv, ListInv
  <2> QED BY <1>1, <1>5, <2>1, ListKept DEF ExplorerInv
<1> QED BY <1>9, <1>10 DEF ExplorerInv

LEMMA ExplorerStep ==
    ASSUME ExplorerInv, [ExplorerNext]_explorerVars PROVE ExplorerInv'
<1>1. CASE ExplorerKeys
  <2>1. CASE Open \/ Clear \/ GoTo
    BY <2>1, GoToStep
  <2>2. CASE ReturnToTab
    BY <2>2, ReturnStep
  <2>3. CASE LeaveTab \/ Preview \/ StartConfirm \/ BackToList \/ StartEditor
    BY <2>3, ModeStep
  <2>4. CASE CloseExplorer
    BY <2>4, CloseStep
  <2>5. CASE Move \/ SetEntryFilter \/ DeepSearch
    BY <2>5, ShowStep
  <2>6. CASE Delete
    BY <2>6, DeleteStep
  <2>7. CASE DeleteFails
    BY <2>7, DeleteFailsStep
  <2>8. CASE FinishEdit
    BY <2>8, FinishEditStep
  <2>9. CASE UploadFile
    BY <2>9, UploadFileStep
  <2>10. CASE UploadDir
    BY <2>10, UploadDirStep
  <2> QED BY <1>1, <2>1, <2>2, <2>3, <2>4, <2>5, <2>6, <2>7, <2>8, <2>9, <2>10
          DEF ExplorerKeys
<1>2. CASE Environment
  BY <1>2, EnvironmentStep
<1>3. CASE UNCHANGED explorerVars
  <2>1. /\ UNCHANGED <<dirCache, quiet>> /\ UNCHANGED <<listVars, listed>>
        /\ mode' = mode /\ pending' = pending /\ gone' = gone
    BY <1>3 DEF explorerVars, fileVars, quiet
  <2>2. ListInv'
    <3>1. /\ mode' \in {"closed", "away", "list", "preview", "delete", "edit", "editor"}
          /\ mode' \in {"delete", "edit", "editor"} => pending' \in Infos /\ ~pending'.isDir
      BY <2>1 DEF ExplorerInv, ListInv
    <3> QED BY <2>1, <3>1, ListKept DEF ExplorerInv
  <2> QED BY <2>1, <2>2, OnlyShown
<1> QED BY <1>1, <1>2, <1>3 DEF ExplorerNext

LEMMA ExplorerInvariant == ExplorerSpec => []ExplorerInv
<1>1. ExplorerInit => ExplorerInv
  BY InitExplorer
<1>2. ExplorerInv /\ [ExplorerNext]_explorerVars => ExplorerInv'
  BY ExplorerStep
<1> QED BY <1>1, <1>2, PTL DEF ExplorerSpec

\* Whatever is refreshed, filtered, found, deleted or put back under it, by this
\* or any number of other readers, the cursor of the file explorer is on an item
\* if there is one, and items from elsewhere than the directory in the title stay
\* under the badge of the search.
THEOREM ListingCorrect == ExplorerSpec => []ListingOK
<1>1. ExplorerInv => ListingOK
  <2> SUFFICES ASSUME ExplorerInv PROVE ListingOK
    OBVIOUS
  <2>1. OnItem(cursor, Items)
    BY DEF ExplorerInv, ListInv
  <2>2. cursor \in 1..(IF Items = <<>> THEN 1 ELSE Len(Items))
    BY <2>1 DEF OnItem
  <2>3. \A i \in 1..Len(entries) : entries[i].path \in Paths
    BY DEF ExplorerInv, ListInv, Infos
  <2>4. ExplorerOK
    BY <2>2, <2>3 DEF ExplorerOK, ExplorerInv, FilesInv, ListInv
  <2>5. BadgeCoversResults
    BY DEF BadgeCoversResults, ExplorerInv, ListInv
  <2> QED BY <2>4, <2>5 DEF ListingOK
<1> QED BY <1>1, ExplorerInvariant, PTL

\* A file that was reported deleted is not listed again before it is really there
\* again: no listing in the shared cache has it, and none that a request of the
\* web server is about to store, except those that were asked for before.
THEOREM DeletedIsNotListed == ExplorerSpec => []DeletedStayAway
<1>1. ExplorerInv => DeletedStayAway
  BY DEF ExplorerInv, ListInv, DeletedStayAway
<1> QED BY <1>1, ExplorerInvariant, PTL

\* Deleting a file and putting an edited one back touch nothing but the path that
\* was confirmed, however far the container has changed meanwhile.
THEOREM OnlyConfirmed == ExplorerSpec => ConfirmedOnly
<1> DEFINE touched == mode' = "list" /\ mode \in {"delete", "editor"} =>
                          \A p \in Paths : tree'[p] # tree[p] => Allowed(p)
<1>1. ExplorerInv /\ [ExplorerNext]_explorerVars => [touched]_explorerVars
  <2> SUFFICES ASSUME ExplorerInv, ExplorerNext, mode' = "list",
                      mode \in {"delete", "editor"},
                      NEW p \in Paths, tree'[p] # tree[p]
               PROVE  Allowed(p)
    OBVIOUS
  <2>1. pending.path \in Paths /\ ~pending.isDir /\ pending.path # Root
    BY PathsAre DEF ExplorerInv, ListInv, Infos, Paths
  <2>2. BackToList \/ Delete \/ DeleteFails \/ FinishEdit
    BY DEF ExplorerNext, ExplorerKeys, Environment, Open, CloseExplorer, LeaveTab,
           ReturnToTab, Move, Clear, GoTo, Enter, SetEntryFilter, DeepSearch, Preview,
           StartConfirm, StartEditor, UploadFile, UploadDir
  <2>3. \/ tree' = tree
        \/ tree' = With(tree, pending.path, "none")
        \/ /\ tree' = With(tree, pending.path, "file")
           /\ IsDirectory(tree, Front(pending.path))
    BY <2>1, <2>2 DEF BackToList, Delete, DeleteFails, FinishEdit, quiet,
                      CanUpload, Uploaded, UploadTarget
  <2>4. ASSUME NEW kind \in {"none", "file"},
               kind = "file" => IsDirectory(tree, Front(pending.path)),
               tree' = With(tree, pending.path, kind)
        PROVE  p = pending.path \/ IsStrictPrefix(pending.path, p)
    <3>1. \A q \in Paths : q # pending.path /\ With(tree, pending.path, kind)[q] # tree[q]
              => IsStrictPrefix(pending.path, q)
      BY <2>1, <2>4, WithIs DEF ExplorerInv, FilesInv
    <3> QED BY <2>4, <3>1
  <2>5. p = pending.path \/ IsStrictPrefix(pending.path, p)
    BY <2>3, <2>4
  <2> QED BY <2>1, <2>5 DEF Allowed
<1>2. ExplorerSpec => [][touched]_explorerVars
  BY <1>1, ExplorerInvariant, PTL DEF ExplorerSpec
<1> QED BY <1>2 DEF ConfirmedOnly
=============================================================================
