------------------------- MODULE Broadcaster_proofs -------------------------
(***************************************************************************)
(* Proofs about the telemetry stream, for every history size, channel      *)
(* capacity and set of clients.                                            *)
(***************************************************************************)
EXTENDS Broadcaster, SequenceTheorems, TLAPS

-----------------------------------------------------------------------------
(* Indices modulo the size of the ring. *)

LEMMA ModSmall == ASSUME NEW n \in Nat \ {0}, NEW a \in 0..n-1 PROVE a % n = a
BY SMTT(20)

LEMMA ModWrap ==
    ASSUME NEW n \in Nat \ {0}, NEW a \in 0..n-1 PROVE (a + n) % n = a
BY SMTT(20)

LEMMA ModSame == ASSUME NEW n \in Nat \ {0} PROVE n % n = 0
BY SMTT(20)

-----------------------------------------------------------------------------
(* Sequences. *)

LEMMA Concatenation ==
    ASSUME NEW s \in Seq(Nat), NEW t \in Seq(Nat)
    PROVE  /\ s \o t \in Seq(Nat) /\ Len(s \o t) = Len(s) + Len(t)
           /\ \A i \in 1..Len(s)+Len(t) :
                  (s \o t)[i] = IF i <= Len(s) THEN s[i] ELSE t[i - Len(s)]
BY ConcatProperties

LEMMA Listed ==
    ASSUME NEW s \in Seq(Nat), NEW n \in Nat, NEW k \in Int, Len(s) = n,
           \A i \in 1..n : s[i] = k + i
    PROVE  s = [i \in 1..n |-> k + i]
<1>1. s \in [1..n -> Nat]
  BY LenProperties
<1>2. s = [i \in 1..n |-> s[i]]
  BY <1>1
<1> QED BY <1>2

-----------------------------------------------------------------------------
(* The ring. *)

\* Until the ring is full event i is in slot i and the head follows it; from
\* then on the slots before the head hold the newest events and those from the
\* head on the events one round older.
RingInv ==
    /\ sent \in Nat
    /\ maxHistory = History
    /\ ~panicked
    /\ ring \in Seq(Nat) /\ count = Len(ring)
    /\ sent < History =>
           /\ Len(ring) = sent /\ head = sent
           /\ \A i \in 1..sent : ring[i] = i
    /\ sent >= History =>
           /\ Len(ring) = History /\ head \in 0..History-1
           /\ \A i \in 1..History :
                  ring[i] = IF i <= head THEN sent - head + i
                                         ELSE sent - History - head + i

LEMMA RingInit == Init => RingInv
<1> SUFFICES ASSUME Init PROVE RingInv
  OBVIOUS
<1>1. sent = 0 /\ maxHistory = History /\ ~panicked /\ ring = <<>>
      /\ head = 0 /\ count = 0
  BY DEF Init
<1>2. ring \in Seq(Nat) /\ Len(ring) = 0
  BY <1>1
<1> QED BY <1>1, <1>2, HistoryAssumption DEF RingInv

\* Broadcast while the ring is not full.
LEMMA RingAppend ==
    ASSUME RingInv, Insert(sent + 1), sent' = sent + 1,
           maxHistory' = maxHistory, sent < History
    PROVE  RingInv'
<1>1. /\ sent \in Nat /\ History \in Nat \ {0} /\ Len(ring) = sent
      /\ maxHistory = History /\ ring \in Seq(Nat) /\ head = sent
      /\ \A i \in 1..sent : ring[i] = i
  BY HistoryAssumption DEF RingInv
<1>2. /\ ring' = Append(ring, sent + 1) /\ count' = count + 1
      /\ head' = (sent + 1) % History /\ ~panicked'
  BY <1>1 DEF Insert, RingInv
<1>3. /\ ring' \in Seq(Nat) /\ Len(ring') = sent + 1
      /\ \A i \in 1..sent+1 : ring'[i] = i
  BY <1>1, <1>2
<1>4. count' = Len(ring')
  BY <1>1, <1>2, <1>3 DEF RingInv
<1>5. CASE sent + 1 < History
  <2>1. sent + 1 \in 0..History-1
    BY <1>1, <1>5
  <2>2. head' = sent + 1
    BY <1>1, <1>2, <2>1, ModSmall
  <2> QED BY <1>1, <1>2, <1>3, <1>4, <1>5, <2>2 DEF RingInv
<1>6. CASE sent + 1 = History
  <2>1. head' = 0
    BY <1>1, <1>2, <1>6, ModSame
  <2>2. ~(sent' < History) /\ head' \in 0..History-1
    BY <1>1, <1>6, <2>1
  <2>3. \A i \in 1..History :
            ring'[i] = IF i <= head' THEN sent' - head' + i
                                     ELSE sent' - History - head' + i
    BY <1>1, <1>3, <1>6, <2>1
  <2>4. sent' \in Nat /\ Len(ring') = History
    BY <1>1, <1>3, <1>6
  <2> QED BY <1>1, <1>2, <1>3, <1>4, <2>2, <2>3, <2>4 DEF RingInv
<1> QED BY <1>1, <1>5, <1>6

\* Broadcast once it is.
LEMMA RingOverwrite ==
    ASSUME RingInv, Insert(sent + 1), sent' = sent + 1,
           maxHistory' = maxHistory, sent >= History
    PROVE  RingInv'
<1>1. /\ sent \in Nat /\ History \in Nat \ {0} /\ Len(ring) = History
      /\ maxHistory = History /\ ring \in Seq(Nat) /\ head \in 0..History-1
      /\ \A i \in 1..History :
             ring[i] = IF i <= head THEN sent - head + i
                                    ELSE sent - History - head + i
  BY HistoryAssumption DEF RingInv
<1>2. /\ ring' = [ring EXCEPT ![head + 1] = sent + 1] /\ count' = count
      /\ head' = (head + 1) % History /\ ~panicked'
  BY <1>1 DEF Insert, RingInv
<1>3. /\ ring' \in Seq(Nat) /\ Len(ring') = History
      /\ \A i \in 1..History :
             ring'[i] = IF i = head + 1 THEN sent + 1 ELSE ring[i]
  BY <1>1, <1>2
<1>4. count' = Len(ring')
  BY <1>1, <1>2, <1>3 DEF RingInv
<1>5. CASE head + 1 < History
  <2>1. head' = head + 1
    BY <1>1, <1>2, <1>5, ModSmall
  <2>2. \A i \in 1..History :
            ring'[i] = IF i <= head' THEN sent' - head' + i
                                     ELSE sent' - History - head' + i
    BY <1>1, <1>3, <1>5, <2>1
  <2> QED BY <1>1, <1>2, <1>3, <1>4, <1>5, <2>1, <2>2 DEF RingInv
<1>6. CASE head + 1 = History
  <2>1. head' = 0
    BY <1>1, <1>2, <1>6, ModSame
  <2>2. ASSUME NEW i \in 1..History
        PROVE  ring'[i] = sent + 1 - History + i
    <3>1. CASE i = head + 1
      BY <1>1, <1>3, <1>6, <3>1
    <3>2. CASE i # head + 1
      <4>1. i <= head /\ ring[i] = sent - head + i
        BY <1>1, <1>6, <3>2
      <4> QED BY <1>1, <1>3, <1>6, <3>2, <4>1
    <3> QED BY <3>1, <3>2
  <2>3. \A i \in 1..History :
            ring'[i] = IF i <= head' THEN sent' - head' + i
                                     ELSE sent' - History - head' + i
    BY <1>1, <2>1, <2>2
  <2>4. ~(sent' < History) /\ head' \in 0..History-1 /\ sent' \in Nat
    BY <1>1, <2>1
  <2> QED BY <1>1, <1>2, <1>3, <1>4, <2>3, <2>4 DEF RingInv
<1> QED BY <1>1, <1>5, <1>6

LEMMA RingStep == ASSUME Resizes = {} PROVE RingInv /\ [Next]_vars => RingInv'
<1> SUFFICES ASSUME RingInv, [Next]_vars PROVE RingInv'
  OBVIOUS
<1>1. CASE Broadcast
  <2>1. maxHistory' = maxHistory /\ Insert(sent + 1)
    BY <1>1 DEF Broadcast
  <2>2. ~panicked'
    BY <2>1, HistoryAssumption DEF Insert, RingInv
  <2>3. sent' = sent + 1
    BY <1>1, <2>2 DEF Broadcast
  <2> QED BY <2>1, <2>3, RingAppend, RingOverwrite, HistoryAssumption DEF RingInv
<1>2. ASSUME UNCHANGED <<sent, ringVars>> PROVE RingInv'
  BY <1>2 DEF RingInv, ringVars
<1>3. CASE Tick
  BY <1>2, <1>3 DEF Tick
<1>4. ASSUME NEW c \in Clients,
             Connect(c) \/ Receive(c) \/ Write(c) \/ Keepalive(c)
                 \/ Disconnect(c) \/ SessionEnds(c)
      PROVE  RingInv'
  BY <1>2, <1>4 DEF Connect, Receive, Write, Keepalive, Disconnect, SessionEnds
<1>5. CASE UNCHANGED vars
  BY <1>2, <1>5 DEF vars
<1> QED BY <1>1, <1>3, <1>4, <1>5 DEF Next

\* In every state of the ring, GetHistory is the last events in order.
LEMMA RingHistory == RingInv => HistoryIsNewest
<1> SUFFICES ASSUME RingInv PROVE HistoryIsNewest
  OBVIOUS
<1>1. /\ sent \in Nat /\ History \in Nat \ {0} /\ maxHistory = History
      /\ ring \in Seq(Nat) /\ count = Len(ring)
  BY HistoryAssumption DEF RingInv
<1>2. CASE sent < History
  <2>1. /\ Len(ring) = sent /\ Kept = sent /\ count = sent
        /\ \A i \in 1..sent : ring[i] = i
    BY <1>1, <1>2 DEF RingInv, Kept
  <2>2. ring = [i \in 1..Kept |-> sent - Kept + i]
    BY <1>1, <2>1
  <2>3. GetHistory = ring
    BY <1>1, <1>2, <2>1, EmptySeq DEF GetHistory
  <2> QED BY <2>2, <2>3 DEF HistoryIsNewest
<1>3. CASE sent >= History
  <2>1. /\ Len(ring) = History /\ Kept = History /\ head \in 0..History-1
        /\ \A i \in 1..History :
               ring[i] = IF i <= head THEN sent - head + i
                                      ELSE sent - History - head + i
    BY <1>1, <1>3 DEF RingInv, Kept
  <2> DEFINE a == SubSeq(ring, head + 1, Len(ring))
             b == SubSeq(ring, 1, head)
  <2>2. /\ a \in Seq(Nat) /\ Len(a) = History - head
        /\ \A i \in 1..History-head : a[i] = ring[head + i]
    BY <1>1, <2>1
  <2>3. /\ b \in Seq(Nat) /\ Len(b) = head
        /\ \A i \in 1..head : b[i] = ring[i]
    BY <1>1, <2>1
  <2>4. GetHistory = a \o b
    BY <1>1, <2>1 DEF GetHistory
  <2> HIDE DEF a, b
  <2>5. /\ a \o b \in Seq(Nat) /\ Len(a \o b) = History
        /\ \A i \in 1..History :
               (a \o b)[i] = IF i <= History - head THEN a[i]
                                                    ELSE b[i - (History - head)]
    <3>1. Len(a) + Len(b) = History /\ Len(a) = History - head
      BY <1>1, <2>1, <2>2, <2>3
    <3>2. a \in Seq(Nat) /\ b \in Seq(Nat)
      BY <2>2, <2>3
    <3>3. /\ a \o b \in Seq(Nat) /\ Len(a \o b) = Len(a) + Len(b)
          /\ \A i \in 1..Len(a)+Len(b) :
                 (a \o b)[i] = IF i <= Len(a) THEN a[i] ELSE b[i - Len(a)]
      BY <3>2, Concatenation
    <3> QED BY ONLY <3>1, <3>3
  <2>6. ASSUME NEW i \in 1..History PROVE (a \o b)[i] = sent - History + i
    <3>1. CASE i <= History - head
      <4>1. (a \o b)[i] = ring[head + i] /\ head + i \in 1..History
        BY <1>1, <2>1, <2>2, <2>5, <3>1
      <4>2. ~(head + i <= head)
        BY <1>1, <2>1
      <4> QED BY <1>1, <2>1, <4>1, <4>2
    <3>2. CASE i > History - head
      <4>1. i - (History - head) \in 1..head
        BY <1>1, <2>1, <3>2
      <4>2. ~(i <= History - head) /\ i - (History - head) \in 1..History
        BY <1>1, <2>1, <3>2
      <4>3. (a \o b)[i] = b[i - (History - head)]
        BY <2>5, <4>2
      <4>4. (a \o b)[i] = ring[i - (History - head)]
        BY <2>3, <4>1, <4>3
      <4>5. ring[i - (History - head)] = sent - head + (i - (History - head))
        BY <2>1, <4>1, <4>2
      <4> QED BY <1>1, <2>1, <4>4, <4>5
    <3>3. i <= History - head \/ i > History - head
      BY <1>1, <2>1
    <3> QED BY <3>1, <3>2, <3>3
  <2>7. a \o b = [i \in 1..History |-> sent - History + i]
    <3>1. sent - History \in Int /\ History \in Nat
      BY <1>1
    <3> QED BY <2>5, <2>6, <3>1, Listed
  <2> QED BY <2>1, <2>4, <2>7 DEF HistoryIsNewest
<1> QED BY <1>1, <1>2, <1>3

LEMMA RingLatest == RingInv => LatestIsNewest
<1> SUFFICES ASSUME RingInv PROVE LatestIsNewest
  OBVIOUS
<1>1. /\ sent \in Nat /\ History \in Nat \ {0}
      /\ ring \in Seq(Nat) /\ count = Len(ring)
  BY HistoryAssumption DEF RingInv
<1>2. CASE sent < History /\ sent = 0
  BY <1>1, <1>2 DEF RingInv, LatestIsNewest, GetLatestEvent
<1>3. CASE sent < History /\ sent # 0
  <2>1. Len(ring) = sent /\ head = sent /\ ring[sent] = sent
    BY <1>1, <1>3 DEF RingInv
  <2>2. head + Len(ring) - 1 = (sent - 1) + sent /\ sent - 1 \in 0..sent-1
    BY <1>1, <1>3, <2>1
  <2>3. (head + Len(ring) - 1) % Len(ring) = sent - 1
    BY <1>1, <1>3, <2>1, <2>2, ModWrap
  <2> QED BY <1>1, <1>3, <2>1, <2>3 DEF LatestIsNewest, GetLatestEvent
<1>4. CASE sent >= History
  <2>1. /\ Len(ring) = History /\ head \in 0..History-1
        /\ \A i \in 1..History :
               ring[i] = IF i <= head THEN sent - head + i
                                      ELSE sent - History - head + i
    BY <1>1, <1>4 DEF RingInv
  <2>2. CASE head = 0
    <3>1. (head + Len(ring) - 1) % Len(ring) = History - 1
      BY <1>1, <2>1, <2>2, ModSmall
    <3>2. ring[History] = sent
      BY <1>1, <2>1, <2>2
    <3> QED BY <1>1, <2>1, <3>1, <3>2 DEF LatestIsNewest, GetLatestEvent
  <2>3. CASE head > 0
    <3>1. head + Len(ring) - 1 = (head - 1) + History /\ head - 1 \in 0..History-1
      BY <1>1, <2>1, <2>3
    <3>2. (head + Len(ring) - 1) % Len(ring) = head - 1
      BY <1>1, <2>1, <3>1, ModWrap
    <3>3. ring[head] = sent
      BY <1>1, <2>1, <2>3
    <3> QED BY <1>1, <2>1, <3>2, <3>3 DEF LatestIsNewest, GetLatestEvent
  <2> QED BY <1>1, <2>1, <2>2, <2>3
<1> QED BY <1>1, <1>2, <1>3, <1>4

\* As long as SetMaxHistory is not called, GetHistory returns exactly the last
\* events in order, for any size of the ring and any number of events.
THEOREM HistoryCorrect == Resizes = {} => (Spec => []HistoryIsNewest)
<1> SUFFICES ASSUME Resizes = {} PROVE Spec => []HistoryIsNewest
  OBVIOUS
<1> QED BY RingInit, RingStep, RingHistory, PTL DEF Spec

\* Under the same condition GetLatestEvent returns the newest event.
THEOREM LatestCorrect == Resizes = {} => (Spec => []LatestIsNewest)
<1> SUFFICES ASSUME Resizes = {} PROVE Spec => []LatestIsNewest
  OBVIOUS
<1> QED BY RingInit, RingStep, RingLatest, PTL DEF Spec

\* Under the same condition Broadcast never indexes outside the ring.
THEOREM RingNeverPanics == Resizes = {} => (Spec => []NeverPanics)
<1> SUFFICES ASSUME Resizes = {} PROVE Spec => []NeverPanics
  OBVIOUS
<1>1. RingInv => NeverPanics
  BY DEF RingInv, NeverPanics
<1> QED BY <1>1, RingInit, RingStep, PTL DEF Spec

-----------------------------------------------------------------------------
(* Refinement of the log: the ring under resizing. *)

\* The ring from the head on, round to the head.
Turned(r, h) == SubSeq(r, h + 1, Len(r)) \o SubSeq(r, 1, h)

LEMMA TurnedIs ==
    ASSUME NEW r \in Seq(Nat), NEW n \in Nat, Len(r) = n, NEW h \in 0..n
    PROVE  /\ Turned(r, h) \in Seq(Nat) /\ Len(Turned(r, h)) = n
           /\ \A i \in 1..n :
                  Turned(r, h)[i] = IF i <= n - h THEN r[h + i] ELSE r[i - (n - h)]
<1> DEFINE a == SubSeq(r, h + 1, Len(r))
           b == SubSeq(r, 1, h)
<1>1. a \in Seq(Nat) /\ Len(a) = n - h /\ \A i \in 1..n-h : a[i] = r[h + i]
  OBVIOUS
<1>2. b \in Seq(Nat) /\ Len(b) = h /\ \A i \in 1..h : b[i] = r[i]
  OBVIOUS
<1> HIDE DEF a, b
<1>3. /\ a \o b \in Seq(Nat) /\ Len(a \o b) = Len(a) + Len(b)
      /\ \A i \in 1..Len(a)+Len(b) :
             (a \o b)[i] = IF i <= Len(a) THEN a[i] ELSE b[i - Len(a)]
  BY <1>1, <1>2, Concatenation
<1>4. Len(a) + Len(b) = n /\ Len(a) = n - h
  BY <1>1, <1>2
<1>5. /\ a \o b \in Seq(Nat) /\ Len(a \o b) = n
      /\ \A i \in 1..n :
             (a \o b)[i] = IF i <= n - h THEN a[i] ELSE b[i - (n - h)]
  BY ONLY <1>3, <1>4
<1>6. ASSUME NEW i \in 1..n
      PROVE  (a \o b)[i] = IF i <= n - h THEN r[h + i] ELSE r[i - (n - h)]
  <2>1. CASE i <= n - h
    <3>1. (a \o b)[i] = a[i] /\ i \in 1..n-h
      BY <1>5, <2>1
    <3> QED BY <1>1, <2>1, <3>1
  <2>2. CASE ~(i <= n - h)
    <3>1. (a \o b)[i] = b[i - (n - h)] /\ i - (n - h) \in 1..h
      BY <1>5, <2>2
    <3>2. b[i - (n - h)] = r[i - (n - h)]
      BY <1>2, <3>1
    <3> QED BY <2>2, <3>1, <3>2
  <2> QED BY <2>1, <2>2
<1> QED BY <1>5, <1>6 DEF Turned, a, b

LEMMA Added ==
    ASSUME NEW s \in Seq(Nat), NEW n \in Nat, Len(s) = n, NEW e \in Nat
    PROVE  /\ Append(s, e) \in Seq(Nat) /\ Len(Append(s, e)) = n + 1
           /\ Append(s, e)[n + 1] = e
           /\ \A i \in 1..n : Append(s, e)[i] = s[i]
OBVIOUS

LEMMA TurnedAll ==
    ASSUME NEW r \in Seq(Nat), NEW n \in Nat, Len(r) = n, NEW h \in {0, n}
    PROVE  Turned(r, h) = r
<1>1. h \in 0..n
  OBVIOUS
<1>2. PICK t : t = Turned(r, h)
  OBVIOUS
<1>3. /\ t \in Seq(Nat) /\ Len(t) = n
      /\ \A i \in 1..n : t[i] = IF i <= n - h THEN r[h + i] ELSE r[i - (n - h)]
  BY <1>1, <1>2, TurnedIs
<1>4. ASSUME NEW i \in 1..n PROVE t[i] = r[i]
  <2>1. CASE h = 0
    <3>1. i <= n - h /\ h + i = i
      BY <2>1
    <3> QED BY <1>3, <3>1
  <2>2. CASE h = n
    <3>1. ~(i <= n - h) /\ i - (n - h) = i
      BY <2>2
    <3> QED BY <1>3, <3>1
  <2> QED BY <2>1, <2>2
<1>5. t = r
  BY <1>3, <1>4, SeqEqual
<1> QED BY <1>2, <1>5

\* An event is added while the ring is not full, and once it is.
LEMMA TurnedAppend ==
    ASSUME NEW n \in Nat \ {0}, NEW r \in Seq(Nat), Len(r) < n, NEW e \in Nat
    PROVE  LET h == (Len(r) + 1) % n
           IN  /\ h \in 0..Len(r)+1 /\ (Len(r) + 1 < n => h = Len(r) + 1)
               /\ Turned(Append(r, e), h)
                      = Log!Newest(n, Append(Turned(r, Len(r)), e))
<1>0. PICK m \in Nat : m = Len(r)
  OBVIOUS
<1>1. PICK s : s = Append(r, e)
  OBVIOUS
<1>2. s \in Seq(Nat) /\ Len(s) = m + 1
  BY <1>0, <1>1
<1> DEFINE h == (m + 1) % n
<1>3. h \in {0, m + 1} /\ (m + 1 < n => h = m + 1)
  <2>1. CASE m + 1 < n
    <3>1. m + 1 \in 0..n-1
      BY <2>1
    <3> QED BY <2>1, <3>1, ModSmall
  <2>2. CASE m + 1 = n
    BY <2>2, ModSame
  <2> QED BY <1>0, <2>1, <2>2
<1> HIDE DEF h
<1>4. h \in 0..m+1 /\ m + 1 \in Nat
  BY <1>3
<1>5. Turned(s, h) = s
  BY <1>2, <1>3, <1>4, TurnedAll
<1>6. Turned(r, m) = r
  BY <1>0, TurnedAll
<1>7. Log!Newest(n, s) = s
  BY <1>0, <1>2 DEF Log!Newest
<1> QED BY <1>0, <1>1, <1>3, <1>5, <1>6, <1>7 DEF h

LEMMA TurnedOverwrite ==
    ASSUME NEW n \in Nat \ {0}, NEW r \in Seq(Nat), Len(r) = n,
           NEW h \in 0..n-1, NEW e \in Nat
    PROVE  /\ (h + 1) % n \in 0..n-1
           /\ Turned([r EXCEPT ![h + 1] = e], (h + 1) % n)
                  = Log!Newest(n, Append(Turned(r, h), e))
<1> DEFINE s == [r EXCEPT ![h + 1] = e]
           g == (h + 1) % n
           t == Turned(r, h)
           u == Turned(s, g)
           v == Append(t, e)
<1>1. /\ s \in Seq(Nat) /\ Len(s) = n
      /\ \A i \in 1..n : s[i] = IF i = h + 1 THEN e ELSE r[i]
  OBVIOUS
<1>2. g = IF h + 1 = n THEN 0 ELSE h + 1
  <2>1. CASE h + 1 = n
    BY <2>1, ModSame
  <2>2. CASE h + 1 # n
    <3>1. h + 1 \in 0..n-1
      BY <2>2
    <3> QED BY <2>2, <3>1, ModSmall
  <2> QED BY <2>1, <2>2
<1>3. g \in 0..n-1
  <2> HIDE DEF g
  <2> QED BY <1>2
<1>4. /\ t \in Seq(Nat) /\ Len(t) = n
      /\ \A i \in 1..n : t[i] = IF i <= n - h THEN r[h + i] ELSE r[i - (n - h)]
  <2>1. h \in 0..n /\ n \in Nat
    OBVIOUS
  <2> QED BY <2>1, TurnedIs
<1> HIDE DEF s, g
<1>5. /\ u \in Seq(Nat) /\ Len(u) = n
      /\ \A i \in 1..n : u[i] = IF i <= n - g THEN s[g + i] ELSE s[i - (n - g)]
  <2>1. g \in 0..n /\ n \in Nat
    BY <1>3
  <2> QED BY <1>1, <2>1, TurnedIs
<1> HIDE DEF t, u
<1>6. /\ v \in Seq(Nat) /\ Len(v) = n + 1
      /\ v[n + 1] = e /\ \A i \in 1..n : v[i] = t[i]
  BY <1>4, Added
<1> HIDE DEF v
<1> DEFINE w == SubSeq(v, 2, n + 1)
<1>7. Log!Newest(n, v) = w
  <2>1. ~(Len(v) <= n) /\ Len(v) - n + 1 = 2 /\ Len(v) = n + 1
    BY <1>6
  <2> QED BY <2>1 DEF Log!Newest
<1>8. w \in Seq(Nat) /\ Len(w) = n /\ \A i \in 1..n : w[i] = v[i + 1]
  BY <1>6
<1> HIDE DEF w
<1>9. ASSUME NEW i \in 1..n PROVE u[i] = w[i]
  <2>1. w[i] = IF i = n THEN e ELSE t[i + 1]
    BY <1>6, <1>8
  <2>2. CASE i = n
    BY <1>1, <1>2, <1>5, <2>1, <2>2
  <2>3. CASE i # n
    <3>1. t[i + 1] = IF i + 1 <= n - h THEN r[h + i + 1] ELSE r[i + 1 - (n - h)]
      BY <1>4, <2>3
    <3>2. CASE h + 1 = n
      BY <1>1, <1>2, <1>5, <2>1, <2>3, <3>1, <3>2
    <3>3. CASE h + 1 # n
      <4>1. g = h + 1
        BY <1>2, <3>3
      <4>2. CASE i <= n - g
        BY <1>1, <1>5, <2>1, <2>3, <3>1, <4>1, <4>2
      <4>3. CASE ~(i <= n - g)
        BY <1>1, <1>5, <2>1, <2>3, <3>1, <4>1, <4>3
      <4> QED BY <4>2, <4>3
    <3> QED BY <3>2, <3>3
  <2> QED BY <2>2, <2>3
<1>10. u = w
  BY <1>5, <1>8, <1>9, SeqEqual
<1> QED BY <1>3, <1>7, <1>10 DEF u, s, g, v, t

\* What is left of the log: some of it, in the same order.
Leaves(s, t) ==
    \E left \in [DOMAIN t -> DOMAIN s] :
        \A i \in DOMAIN t : /\ t[i] = s[left[i]]
                            /\ \A j \in 1..i-1 : left[j] < left[i]

LEMMA TurnedCut ==
    ASSUME NEW r \in Seq(Nat), NEW h \in 0..Len(r), NEW n \in 1..Len(r)-1
    PROVE  LET g == IF h >= n THEN 0 ELSE h
               s == SubSeq(r, 1, n)
           IN  /\ s \in Seq(Nat) /\ Len(s) = n /\ g \in 0..n
               /\ Leaves(Turned(r, h), Turned(s, g))
<1> DEFINE g == IF h >= n THEN 0 ELSE h
           s == SubSeq(r, 1, n)
           t == Turned(r, h)
           u == Turned(s, g)
<1>0. PICK m \in Nat : m = Len(r)
  OBVIOUS
<1>1. s \in Seq(Nat) /\ Len(s) = n /\ \A i \in 1..n : s[i] = r[i]
  OBVIOUS
<1>2. g \in 0..n
  OBVIOUS
<1>3. /\ t \in Seq(Nat) /\ Len(t) = m
      /\ \A i \in 1..m : t[i] = IF i <= m - h THEN r[h + i] ELSE r[i - (m - h)]
  BY <1>0, TurnedIs
<1> HIDE DEF s
<1>4. /\ u \in Seq(Nat) /\ Len(u) = n
      /\ \A i \in 1..n : u[i] = IF i <= n - g THEN s[g + i] ELSE s[i - (n - g)]
  <2> HIDE DEF g
  <2>1. n \in Nat
    OBVIOUS
  <2> QED BY <1>1, <1>2, <2>1, TurnedIs
<1> HIDE DEF t, u
<1> DEFINE place(i) == IF h >= n THEN i + m - h
                       ELSE IF i <= n - h THEN i ELSE i + m - n
           left == [i \in 1..n |-> place(i)]
<1>5. DOMAIN t = 1..m /\ DOMAIN u = 1..n
  BY <1>3, <1>4
<1>6. ASSUME NEW i \in 1..n
      PROVE  /\ place(i) \in 1..m /\ u[i] = t[place(i)]
             /\ \A j \in 1..i-1 : place(j) < place(i)
  <2>1. CASE h >= n
    <3>1. place(i) = i + m - h /\ place(i) \in 1..m
      BY <1>0, <2>1
    <3>2. u[i] = r[i]
      BY <1>1, <1>4, <2>1
    <3>3. t[i + m - h] = r[i]
      <4>1. PICK q \in 1..m : q = i + m - h
        BY <3>1
      <4>2. ~(q <= m - h) /\ q - (m - h) = i
        BY <1>0, <4>1
      <4>3. t[q] = r[q - (m - h)]
        BY <1>3, <4>2
      <4> QED BY <4>1, <4>2, <4>3
    <3>4. \A j \in 1..i-1 : place(j) < place(i)
      BY <1>0, <2>1
    <3> QED BY <3>1, <3>2, <3>3, <3>4
  <2>2. CASE ~(h >= n)
    <3>1. CASE i <= n - h
      <4>1. place(i) = i /\ i \in 1..m /\ i <= m - h
        BY <1>0, <2>2, <3>1
      <4>2. u[i] = r[h + i]
        BY <1>1, <1>4, <2>2, <3>1
      <4>3. t[i] = r[h + i]
        BY <1>3, <4>1
      <4>4. \A j \in 1..i-1 : place(j) < place(i)
        BY <1>0, <2>2, <3>1
      <4> QED BY <4>1, <4>2, <4>3, <4>4
    <3>2. CASE ~(i <= n - h)
      <4>1. place(i) = i + m - n /\ i + m - n \in 1..m /\ ~(i + m - n <= m - h)
        BY <1>0, <2>2, <3>2
      <4>2. u[i] = r[i - (n - h)]
        <5>1. g = h /\ i - (n - h) \in 1..n
          BY <2>2, <3>2
        <5>2. u[i] = s[i - (n - h)]
          BY <1>4, <3>2, <5>1
        <5> QED BY <1>1, <5>1, <5>2
      <4>3. t[i + m - n] = r[i + m - n - (m - h)]
        BY <1>3, <4>1
      <4>4. \A j \in 1..i-1 : place(j) < place(i)
        BY <1>0, <2>2, <3>2
      <4>5. i + m - n - (m - h) = i - (n - h)
        BY <1>0
      <4> QED BY <4>1, <4>2, <4>3, <4>4, <4>5
    <3> QED BY <3>1, <3>2
  <2> QED BY <2>1, <2>2
<1> HIDE DEF place
<1>7. left \in [DOMAIN u -> DOMAIN t]
  BY <1>5, <1>6
<1>8. \A i \in DOMAIN u : /\ u[i] = t[left[i]]
                          /\ \A j \in 1..i-1 : left[j] < left[i]
  <2> SUFFICES ASSUME NEW i \in 1..n
               PROVE  /\ u[i] = t[left[i]]
                      /\ \A j \in 1..i-1 : left[j] < left[i]
    BY <1>5
  <2>1. left[i] = place(i) /\ \A j \in 1..i-1 : left[j] = place(j)
    OBVIOUS
  <2> QED BY <1>6, <2>1
<1> HIDE DEF left
<1>9. Leaves(t, u)
  BY <1>7, <1>8 DEF Leaves
<1> HIDE DEF g
<1> QED BY <1>1, <1>2, <1>9 DEF s, g, t, u

LEMMA AllIsLeft ==
    ASSUME NEW s \in Seq(Nat) PROVE Leaves(s, s)
<1> DEFINE left == [i \in DOMAIN s |-> i]
<1>1. DOMAIN s = 1..Len(s)
  OBVIOUS
<1>2. \A i \in DOMAIN s : s[i] = s[left[i]] /\ \A j \in 1..i-1 : left[j] < left[i]
  BY <1>1
<1>3. left \in [DOMAIN s -> DOMAIN s]
  OBVIOUS
<1> QED BY <1>2, <1>3 DEF Leaves

-----------------------------------------------------------------------------
(* The shape of the ring. *)

\* Whatever the ring was resized to, as long as a full one was given no more
\* room: until it is full the head follows the last event, and what it has is
\* in order from the head on.
Shape ==
    /\ sent \in Nat /\ maxHistory \in Nat \ {0}
    /\ ring \in Seq(Nat) /\ count = Len(ring) /\ Len(ring) <= maxHistory
    /\ head \in 0..Len(ring)
    /\ Len(ring) < maxHistory => head = Len(ring)

Increasing(s, m) ==
    /\ \A i, j \in 1..Len(s) : i < j => s[i] < s[j]
    /\ \A i \in 1..Len(s) : s[i] <= m

ShapeInv == Shape /\ Increasing(GetHistory, sent)

\* A full ring is given no more room.
NoMoreRoom == maxHistory' > maxHistory => Len(ring) < maxHistory

LEMMA HistoryTurned ==
    Shape => GetHistory = Turned(ring, head) /\ GetHistory \in Seq(Nat)
             /\ Len(GetHistory) = Len(ring)
<1> SUFFICES ASSUME Shape
             PROVE  GetHistory = Turned(ring, head) /\ GetHistory \in Seq(Nat)
                    /\ Len(GetHistory) = Len(ring)
  OBVIOUS
<1>1. PICK n \in Nat : n = Len(ring)
  BY DEF Shape
<1>2. ring \in Seq(Nat) /\ Len(ring) = n /\ head \in 0..n /\ count = n
  BY <1>1 DEF Shape
<1>3. Turned(ring, head) \in Seq(Nat) /\ Len(Turned(ring, head)) = n
  BY <1>2, TurnedIs
<1>4. GetHistory = Turned(ring, head)
  <2>1. CASE count = 0
    <3>1. n = 0 /\ head \in {0, n} /\ ring = <<>>
      BY <1>2, <2>1, EmptySeq
    <3>2. Turned(ring, head) = ring
      BY <1>2, <3>1, TurnedAll
    <3> QED BY <2>1, <3>1, <3>2 DEF GetHistory
  <2>2. CASE count # 0 /\ Len(ring) < maxHistory
    <3>1. head \in {0, n}
      BY <1>2, <2>2 DEF Shape
    <3>2. Turned(ring, head) = ring
      BY <1>2, <3>1, TurnedAll
    <3> QED BY <2>2, <3>2 DEF GetHistory
  <2>3. CASE count # 0 /\ ~(Len(ring) < maxHistory)
    BY <2>3 DEF GetHistory, Turned
  <2> QED BY <2>1, <2>2, <2>3
<1> QED BY <1>2, <1>3, <1>4

LEMMA HistoryTurnedNext ==
    Shape' => GetHistory' = Turned(ring', head') /\ GetHistory' \in Seq(Nat)
              /\ Len(GetHistory') = Len(ring')
<1>1. (Shape => GetHistory = Turned(ring, head) /\ GetHistory \in Seq(Nat)
                /\ Len(GetHistory) = Len(ring))'
  BY HistoryTurned, PTL
<1>2. Turned(ring, head)' = Turned(ring', head') /\ Len(ring)' = Len(ring')
      /\ Len(GetHistory)' = Len(GetHistory')
  OBVIOUS
<1> QED BY <1>1, <1>2

LEMMA AddedInOrder ==
    ASSUME NEW s \in Seq(Nat), NEW m \in Nat, Increasing(s, m),
           NEW n \in Nat \ {0}, Len(s) <= n
    PROVE  Increasing(Log!Newest(n, Append(s, m + 1)), m + 1)
<1>1. PICK k \in Nat : k = Len(s)
  OBVIOUS
<1>2. PICK v : v = Append(s, m + 1)
  OBVIOUS
<1>3. /\ v \in Seq(Nat) /\ Len(v) = k + 1 /\ v[k + 1] = m + 1
      /\ \A i \in 1..k : v[i] = s[i]
  BY <1>1, <1>2, Added
<1>4. \A i \in 1..k : s[i] \in Nat /\ s[i] <= m
  BY <1>1 DEF Increasing
<1>5. \A i, j \in 1..k+1 : i < j => v[i] < v[j]
  <2> SUFFICES ASSUME NEW i \in 1..k+1, NEW j \in 1..k+1, i < j PROVE v[i] < v[j]
    OBVIOUS
  <2>1. i \in 1..k
    OBVIOUS
  <2>2. CASE j = k + 1
    <3>1. v[i] \in Nat /\ v[i] <= m
      BY <1>3, <1>4, <2>1
    <3>2. v[j] = m + 1
      BY <1>3, <2>2
    <3> QED BY <3>1, <3>2
  <2>3. CASE j # k + 1
    <3>1. j \in 1..k
      BY <2>3
    <3> QED BY <1>1, <1>3, <2>1, <3>1 DEF Increasing
  <2> QED BY <2>2, <2>3
<1>6. \A i \in 1..k+1 : v[i] <= m + 1
  <2> SUFFICES ASSUME NEW i \in 1..k+1 PROVE v[i] <= m + 1
    OBVIOUS
  <2>1. CASE i = k + 1
    BY <1>3, <2>1
  <2>2. CASE i # k + 1
    <3>1. i \in 1..k
      BY <2>2
    <3>2. v[i] \in Nat /\ v[i] <= m
      BY <1>3, <1>4, <3>1
    <3> QED BY <3>2
  <2> QED BY <2>1, <2>2
<1>7. CASE k + 1 <= n
  <2>1. Log!Newest(n, v) = v
    BY <1>3, <1>7 DEF Log!Newest
  <2> QED BY <1>2, <1>3, <1>5, <1>6, <2>1 DEF Increasing
<1>8. CASE ~(k + 1 <= n)
  <2>1. k = n
    BY <1>1, <1>8
  <2>2. PICK w : w = SubSeq(v, 2, n + 1)
    OBVIOUS
  <2>3. Log!Newest(n, v) = w
    <3>1. ~(Len(v) <= n) /\ Len(v) - n + 1 = 2 /\ Len(v) = n + 1
      BY <1>3, <2>1
    <3> QED BY <2>2, <3>1 DEF Log!Newest
  <2>4. w \in Seq(Nat) /\ Len(w) = n /\ \A i \in 1..n : w[i] = v[i + 1]
    BY <1>3, <2>1, <2>2
  <2>5. \A i \in 1..n : i + 1 \in 1..k+1
    BY <2>1
  <2>6. ASSUME NEW i \in 1..n, NEW j \in 1..n, i < j PROVE w[i] < w[j]
    <3>1. v[i + 1] < v[j + 1]
      <4>1. i + 1 \in 1..k+1 /\ j + 1 \in 1..k+1 /\ i + 1 < j + 1
        BY <2>5, <2>6
      <4> QED BY <1>5, <4>1
    <3> QED BY <2>4, <3>1
  <2>7. \A i \in 1..n : w[i] <= m + 1
    BY <1>6, <2>4, <2>5
  <2>8. Increasing(w, m + 1)
    BY <2>4, <2>6, <2>7 DEF Increasing
  <2> QED BY <1>2, <2>3, <2>8
<1> QED BY <1>7, <1>8

LEMMA LeftInOrder ==
    ASSUME NEW s \in Seq(Nat), NEW t \in Seq(Nat), NEW m, Increasing(s, m),
           Leaves(s, t)
    PROVE  Increasing(t, m)
<1>1. DOMAIN s = 1..Len(s) /\ DOMAIN t = 1..Len(t)
  OBVIOUS
<1>2. PICK left \in [1..Len(t) -> 1..Len(s)] :
          \A i \in 1..Len(t) : /\ t[i] = s[left[i]]
                               /\ \A j \in 1..i-1 : left[j] < left[i]
  BY <1>1 DEF Leaves
<1>3. \A i, j \in 1..Len(t) : i < j => left[i] < left[j]
  <2> SUFFICES ASSUME NEW i \in 1..Len(t), NEW j \in 1..Len(t), i < j
               PROVE  left[i] < left[j]
    OBVIOUS
  <2>1. i \in 1..j-1
    OBVIOUS
  <2> QED BY <1>2, <2>1
<1>4. \A i \in 1..Len(t) : left[i] \in 1..Len(s)
  BY <1>2
<1> QED BY <1>2, <1>3, <1>4 DEF Increasing

\* A broadcast adds its event to the log.
LEMMA ShapeBroadcast ==
    ASSUME ShapeInv, Broadcast, ~panicked'
    PROVE  /\ ShapeInv' /\ sent' = sent + 1 /\ maxHistory' = maxHistory
           /\ GetHistory' = Log!Newest(maxHistory, Append(GetHistory, sent + 1))
<1> DEFINE e == sent + 1
<1>1. sent' = e /\ maxHistory' = maxHistory /\ Insert(e)
  BY DEF Broadcast
<1>2. PICK n \in Nat \ {0}, m \in Nat : n = maxHistory /\ m = Len(ring)
  BY DEF ShapeInv, Shape
<1>3. /\ ring \in Seq(Nat) /\ Len(ring) = m /\ m <= n /\ count = m /\ e \in Nat
      /\ head \in 0..m /\ (m < n => head = m)
  BY <1>2 DEF ShapeInv, Shape
<1> HIDE DEF e
<1>4. GetHistory = Turned(ring, head) /\ GetHistory \in Seq(Nat)
      /\ Len(GetHistory) = m
  BY <1>2, HistoryTurned DEF ShapeInv
<1>5. Shape' /\ Turned(ring', head') = Log!Newest(n, Append(Turned(ring, head), e))
  <2>1. CASE m < n
    <3>1. /\ ring' = Append(ring, e) /\ count' = m + 1 /\ head' = (m + 1) % n
          /\ head = m
      BY <1>1, <1>2, <1>3, <2>1 DEF Insert
    <3>2. ring' \in Seq(Nat) /\ Len(ring') = m + 1
      BY <1>3, <3>1
    <3>3. /\ head' \in 0..m+1 /\ (m + 1 < n => head' = m + 1)
          /\ Turned(ring', head') = Log!Newest(n, Append(Turned(ring, m), e))
      BY <1>3, <2>1, <3>1, TurnedAppend
    <3>4. Shape'
      BY <1>1, <1>2, <1>3, <2>1, <3>1, <3>2, <3>3 DEF Shape
    <3> QED BY <3>1, <3>3, <3>4
  <2>2. CASE ~(m < n)
    <3>1. m = n
      BY <1>3, <2>2
    <3>2. /\ ring' = [ring EXCEPT ![head + 1] = e] /\ count' = m
          /\ head' = (head + 1) % n /\ head \in 0..n-1
      BY <1>1, <1>2, <1>3, <3>1 DEF Insert
    <3>3. ring' \in Seq(Nat) /\ Len(ring') = n
      BY <1>3, <3>1, <3>2
    <3>4. /\ head' \in 0..n-1
          /\ Turned(ring', head') = Log!Newest(n, Append(Turned(ring, head), e))
      BY <1>3, <3>1, <3>2, TurnedOverwrite
    <3>5. Shape'
      BY <1>1, <1>2, <1>3, <3>1, <3>2, <3>3, <3>4 DEF Shape
    <3> QED BY <3>4, <3>5
  <2> QED BY <2>1, <2>2
<1>6. GetHistory' = Log!Newest(n, Append(GetHistory, e))
  BY <1>4, <1>5, HistoryTurnedNext
<1>7. Increasing(GetHistory', sent')
  <2>1. PICK s, k : s = GetHistory /\ k = sent
    OBVIOUS
  <2>2. s \in Seq(Nat) /\ k \in Nat /\ Increasing(s, k) /\ Len(s) <= n
    BY <1>3, <1>4, <2>1 DEF ShapeInv, Shape
  <2>3. Increasing(Log!Newest(n, Append(s, k + 1)), k + 1)
    BY <2>2, AddedInOrder
  <2> QED BY <1>1, <1>6, <2>1, <2>3 DEF e
<1>8. ShapeInv'
  BY <1>5, <1>7 DEF ShapeInv
<1> QED BY <1>1, <1>2, <1>6, <1>8 DEF e

\* SetMaxHistory leaves some of the log.
LEMMA ShapeResize ==
    ASSUME ShapeInv, NEW limit \in Nat \ {0}, SetMaxHistory(limit),
           limit > maxHistory => Len(ring) < maxHistory
    PROVE  /\ ShapeInv' /\ Len(GetHistory') <= maxHistory'
           /\ Leaves(GetHistory, GetHistory')
           /\ limit = maxHistory => GetHistory' = GetHistory
<1>1. PICK n \in Nat \ {0}, m \in Nat : n = maxHistory /\ m = Len(ring)
  BY DEF ShapeInv, Shape
<1>2. /\ ring \in Seq(Nat) /\ Len(ring) = m /\ m <= n /\ count = m
      /\ head \in 0..m /\ (m < n => head = m) /\ sent \in Nat
  BY <1>1 DEF ShapeInv, Shape
<1>3. GetHistory = Turned(ring, head) /\ GetHistory \in Seq(Nat)
  BY HistoryTurned DEF ShapeInv
<1>4. maxHistory' = limit /\ sent' = sent
  BY DEF SetMaxHistory
<1>5. Shape' /\ Leaves(Turned(ring, head), Turned(ring', head'))
      /\ (limit = n => ring' = ring /\ head' = head)
  <2>1. CASE m > limit
    <3>1. /\ ring' = SubSeq(ring, 1, limit) /\ count' = limit
          /\ head' = IF head >= limit THEN 0 ELSE head
      BY <1>2, <2>1 DEF SetMaxHistory
    <3>2. limit \in 1..Len(ring)-1 /\ head \in 0..Len(ring)
      BY <1>2, <2>1
    <3>3. /\ ring' \in Seq(Nat) /\ Len(ring') = limit /\ head' \in 0..limit
          /\ Leaves(Turned(ring, head), Turned(ring', head'))
      BY <1>2, <3>1, <3>2, TurnedCut
    <3>4. Shape'
      BY <1>2, <1>4, <3>1, <3>3 DEF Shape
    <3> QED BY <1>2, <2>1, <3>3, <3>4
  <2>2. CASE ~(m > limit)
    <3>1. ring' = ring /\ count' = count /\ head' = head
      BY <1>2, <2>2 DEF SetMaxHistory
    <3>2. Shape'
      BY <1>1, <1>2, <1>4, <2>2, <3>1 DEF Shape
    <3>3. Leaves(Turned(ring, head), Turned(ring, head))
      <4>1. Turned(ring, head) \in Seq(Nat)
        BY <1>3
      <4> QED BY <4>1, AllIsLeft
    <3> QED BY <3>1, <3>2, <3>3
  <2> QED BY <2>1, <2>2
<1>6. GetHistory' = Turned(ring', head') /\ GetHistory' \in Seq(Nat)
      /\ Len(GetHistory') = Len(ring')
  BY <1>5, HistoryTurnedNext
<1>7. Leaves(GetHistory, GetHistory')
  BY <1>3, <1>5, <1>6
<1>8. Len(GetHistory') <= maxHistory'
  BY <1>5, <1>6 DEF Shape
<1>9. Increasing(GetHistory', sent')
  <2>1. PICK s, t : s = GetHistory /\ t = GetHistory'
    OBVIOUS
  <2>2. s \in Seq(Nat) /\ t \in Seq(Nat) /\ Leaves(s, t) /\ Increasing(s, sent)
    BY <1>3, <1>6, <1>7, <2>1 DEF ShapeInv
  <2>3. Increasing(t, sent)
    BY <2>2, LeftInOrder
  <2> QED BY <1>4, <2>1, <2>3
<1> QED BY <1>1, <1>3, <1>5, <1>6, <1>7, <1>8, <1>9 DEF ShapeInv

\* The bound on the events is respected when the ticker decides to send.
SendBound == sent \in 0..MaxEvents /\ (tick = "send" => sent < MaxEvents)

ResizeInv == ShapeInv /\ SendBound

LEMMA ResizeInit == Init => ResizeInv
<1> SUFFICES ASSUME Init PROVE ResizeInv
  OBVIOUS
<1>1. sent = 0 /\ ring = <<>> /\ head = 0 /\ count = 0 /\ maxHistory = History
      /\ tick = "idle"
  BY DEF Init
<1>2. ring \in Seq(Nat) /\ Len(ring) = 0
  BY <1>1
<1>3. Shape
  BY <1>1, <1>2, HistoryAssumption DEF Shape
<1>4. Increasing(GetHistory, sent)
  BY <1>2, <1>3, HistoryTurned DEF Increasing
<1>5. SendBound
  BY <1>1, BoundAssumption DEF SendBound
<1> QED BY <1>3, <1>4, <1>5 DEF ResizeInv, ShapeInv

LEMMA ResizeStep ==
    ASSUME ResizeInv, [Next]_vars, [NoMoreRoom]_maxHistory
    PROVE  ResizeInv' /\ [Log!Next]_<<GetHistory, maxHistory>>
<1>1. maxHistory \in Nat \ {0} /\ sent \in 0..MaxEvents /\ MaxEvents \in Nat
  BY BoundAssumption DEF ResizeInv, ShapeInv, Shape, SendBound
<1>2. ASSUME UNCHANGED ringVars, UNCHANGED sent, tick' = tick \/ Tick
      PROVE  ResizeInv' /\ UNCHANGED <<GetHistory, maxHistory>>
  <2>1. UNCHANGED <<GetHistory, maxHistory>>
    BY <1>2 DEF ringVars, GetHistory
  <2>2. ShapeInv'
    BY <1>2, <2>1 DEF ringVars, ResizeInv, ShapeInv, Shape
  <2>3. SendBound'
    BY <1>2 DEF Tick, ResizeInv, SendBound
  <2> QED BY <2>1, <2>2, <2>3 DEF ResizeInv
<1>3. CASE Broadcast /\ ~panicked'
  <2>1. /\ ShapeInv' /\ sent' = sent + 1 /\ maxHistory' = maxHistory
        /\ GetHistory' = Log!Newest(maxHistory, Append(GetHistory, sent + 1))
    BY <1>3, ShapeBroadcast DEF ResizeInv
  <2>2. sent < MaxEvents /\ tick' = "idle"
    BY <1>3 DEF Broadcast, ResizeInv, SendBound
  <2>3. sent + 1 \in 1..MaxEvents
    BY <1>1, <2>2
  <2>4. Log!Add
    BY <2>1, <2>3 DEF Log!Add
  <2>5. SendBound'
    BY <1>1, <2>1, <2>2 DEF SendBound
  <2> QED BY <2>1, <2>4, <2>5 DEF ResizeInv, Log!Next
<1>4. CASE Broadcast /\ panicked'
  <2>1. /\ UNCHANGED <<ring, head, count, maxHistory, sent>> /\ tick' = "idle"
    BY <1>4 DEF Broadcast, Insert
  <2>2. UNCHANGED <<GetHistory, maxHistory>>
    BY <2>1 DEF GetHistory
  <2>3. ResizeInv'
    BY <2>1, <2>2 DEF ResizeInv, ShapeInv, Shape, SendBound
  <2> QED BY <2>2, <2>3
<1>5. ASSUME NEW limit \in Resizes, SetMaxHistory(limit)
      PROVE  ResizeInv' /\ [Log!Next]_<<GetHistory, maxHistory>>
  <2>1. limit \in Nat \ {0} /\ maxHistory' = limit /\ sent' = sent /\ tick' = tick
    BY <1>5, HistoryAssumption DEF SetMaxHistory
  <2>2. limit > maxHistory => Len(ring) < maxHistory
    BY <1>1, <2>1 DEF NoMoreRoom
  <2>3. /\ ShapeInv' /\ Len(GetHistory') <= maxHistory'
        /\ Leaves(GetHistory, GetHistory')
        /\ limit = maxHistory => GetHistory' = GetHistory
    BY <1>5, <2>1, <2>2, ShapeResize DEF ResizeInv
  <2>4. maxHistory' # maxHistory => Log!Resize
    BY <2>3 DEF Log!Resize, Leaves
  <2>5. SendBound'
    BY <2>1 DEF ResizeInv, SendBound
  <2> QED BY <2>1, <2>3, <2>4, <2>5 DEF ResizeInv, Log!Next
<1>6. CASE Tick
  BY <1>2, <1>6 DEF Tick
<1>7. ASSUME NEW c \in Clients,
             Connect(c) \/ Receive(c) \/ Write(c) \/ Keepalive(c)
                 \/ Disconnect(c) \/ SessionEnds(c)
      PROVE  ResizeInv' /\ UNCHANGED <<GetHistory, maxHistory>>
  BY <1>2, <1>7 DEF Connect, Receive, Write, Keepalive, Disconnect, SessionEnds
<1>8. CASE UNCHANGED vars
  BY <1>2, <1>8 DEF vars
<1> QED BY <1>3, <1>4, <1>5, <1>6, <1>7, <1>8 DEF Next

\* As long as SetMaxHistory gives no more room to a ring that is full, the ring,
\* its head and its count implement the log of the last events: a Broadcast
\* appends one event and drops at most the oldest, SetMaxHistory leaves some of
\* the events in their order, and nothing else changes what GetHistory returns.
THEOREM RingImplementsLog == Spec /\ [][NoMoreRoom]_maxHistory => ImplementsLog
<1>1. Init => Log!Init
  BY DEF Init, Log!Init, GetHistory
<1>2. ResizeInv /\ [Next]_vars /\ [NoMoreRoom]_maxHistory
          => ResizeInv' /\ [Log!Next]_<<GetHistory, maxHistory>>
  BY ResizeStep
<1> QED BY <1>1, <1>2, ResizeInit, PTL DEF Spec, ImplementsLog, Log!Spec

\* Under the same condition GetHistory returns its events "in chronological
\* order".
THEOREM HistoryStaysInOrder ==
    Spec /\ [][NoMoreRoom]_maxHistory => []HistoryInOrder
<1>1. ResizeInv /\ [Next]_vars /\ [NoMoreRoom]_maxHistory => ResizeInv'
  BY ResizeStep
<1>2. ResizeInv => HistoryInOrder
  BY DEF ResizeInv, ShapeInv, Increasing, HistoryInOrder
<1> QED BY <1>1, <1>2, ResizeInit, PTL DEF Spec

-----------------------------------------------------------------------------
(* Types and the handlers. *)

TypeInv == TypeOK /\ (tick = "send" => sent < MaxEvents)

\* TypeOK, in the parts that different steps change.
RingType == /\ ring \in Seq(Nat) /\ head \in Nat /\ count \in Nat
            /\ maxHistory \in Nat \ {0} /\ panicked \in BOOLEAN
TickType == /\ sent \in 0..MaxEvents /\ tick \in {"idle", "send"}
            /\ tick = "send" => sent < MaxEvents
ChanType == /\ chan \in [Clients -> Seq(Nat)]
            /\ \A c \in Clients : Len(chan[c]) <= ChanCap
HandlerType == /\ subscribers \subseteq Clients
               /\ handler \in [Clients -> {"off", "select", "write"}]
               /\ event \in [Clients -> Nat] /\ written \in [Clients -> Nat]
               /\ session \in [Clients -> BOOLEAN]
               /\ late \in [Clients -> Nat]

LEMMA TypeParts == TypeInv <=> RingType /\ TickType /\ ChanType /\ HandlerType
BY DEF TypeInv, TypeOK, RingType, TickType, ChanType, HandlerType

LEMMA TypeInit == Init => TypeInv
<1> SUFFICES ASSUME Init PROVE RingType /\ TickType /\ ChanType /\ HandlerType
  BY TypeParts
<1>1. RingType
  <2>1. ring = <<>> /\ head = 0 /\ count = 0 /\ maxHistory = History /\ panicked = FALSE
    BY DEF Init
  <2>2. <<>> \in Seq(Nat)
    BY EmptySeq
  <2>3. ring \in Seq(Nat) /\ head \in Nat /\ count \in Nat
    BY <2>1, <2>2
  <2>4. maxHistory \in Nat \ {0} /\ panicked \in BOOLEAN
    BY <2>1, HistoryAssumption
  <2> QED BY <2>3, <2>4 DEF RingType
<1>2. TickType
  BY BoundAssumption DEF Init, TickType
<1>3. ChanType
  <2>1. chan = [c \in Clients |-> <<>>]
    BY DEF Init
  <2>2. <<>> \in Seq(Nat) /\ Len(<<>>) = 0
    BY EmptySeq
  <2> QED BY <2>1, <2>2, CapAssumption DEF ChanType
<1>4. HandlerType
  BY DEF Init, HandlerType
<1> QED BY <1>1, <1>2, <1>3, <1>4

LEMMA InsertType ==
    ASSUME RingType, NEW e \in Nat, Insert(e), maxHistory' = maxHistory
    PROVE  RingType'
<1>1. \A n \in Nat \ {0}, a \in Nat : a % n \in Nat
  BY SMTT(20)
<1>2. (head + 1) % maxHistory \in Nat
  BY <1>1 DEF RingType
<1>3. CASE Len(ring) < maxHistory
  BY <1>2, <1>3 DEF Insert, RingType
<1>4. CASE ~(Len(ring) < maxHistory) /\ head < Len(ring)
  <2>1. ring' = [ring EXCEPT ![head + 1] = e] /\ head' = (head + 1) % maxHistory
        /\ count' = count /\ panicked' = panicked
    BY <1>4 DEF Insert
  <2>2. ring' \in Seq(Nat)
    <3>1. ring \in Seq(Nat) /\ head + 1 \in 1..Len(ring)
      BY <1>4 DEF RingType
    <3> QED BY <2>1, <3>1
  <2> QED BY <1>2, <2>1, <2>2 DEF RingType
<1>5. CASE ~(Len(ring) < maxHistory) /\ ~(head < Len(ring))
  <2>1. panicked' = TRUE /\ ring' = ring /\ head' = head /\ count' = count
    BY <1>5 DEF Insert
  <2> QED BY <2>1 DEF RingType
<1> QED BY <1>3, <1>4, <1>5

LEMMA ResizeType ==
    ASSUME RingType, NEW limit \in Resizes, SetMaxHistory(limit) PROVE RingType'
<1>1. limit \in Nat \ {0} /\ maxHistory' = limit /\ panicked' = panicked
  BY HistoryAssumption DEF SetMaxHistory
<1>2. CASE Len(ring) > limit
  <2>1. ring' = SubSeq(ring, 1, limit)
        /\ count' = (IF count > limit THEN limit ELSE count)
        /\ head' = (IF head >= limit THEN 0 ELSE head)
    BY <1>2 DEF SetMaxHistory
  <2>2. ring' \in Seq(Nat)
    BY <1>1, <1>2, <2>1 DEF RingType
  <2> QED BY <1>1, <2>1, <2>2 DEF RingType
<1>3. CASE ~(Len(ring) > limit)
  <2>1. ring' = ring /\ count' = count /\ head' = head
    BY <1>3 DEF SetMaxHistory
  <2> QED BY <1>1, <2>1 DEF RingType
<1> QED BY <1>2, <1>3

LEMMA OfferType == ASSUME ChanType, NEW e \in Nat, Offer(e) PROVE ChanType'
<1> DEFINE Next1(c) == IF c \in subscribers /\ Len(chan[c]) < ChanCap
                       THEN Append(chan[c], e) ELSE chan[c]
<1>1. ASSUME NEW c \in Clients
      PROVE  Next1(c) \in Seq(Nat) /\ Len(Next1(c)) <= ChanCap
  <2>1. chan[c] \in Seq(Nat) /\ Len(chan[c]) <= ChanCap /\ ChanCap \in Nat
    BY CapAssumption DEF ChanType
  <2> QED BY <2>1
<1>2. chan' = [c \in Clients |-> Next1(c)]
  BY DEF Offer
<1> QED BY <1>1, <1>2 DEF ChanType

\* A handler takes the head of its channel, or empties it as it leaves.
LEMMA ChanShrinks ==
    ASSUME ChanType, NEW c \in Clients,
           chan' = [chan EXCEPT ![c] = <<>>]
           \/ (chan[c] # <<>> /\ chan' = [chan EXCEPT ![c] = Tail(@)])
    PROVE  ChanType'
<1>1. chan'[c] \in Seq(Nat) /\ Len(chan'[c]) <= ChanCap
  <2>1. chan[c] \in Seq(Nat) /\ Len(chan[c]) <= ChanCap /\ ChanCap \in Nat
    BY CapAssumption DEF ChanType
  <2>2. <<>> \in Seq(Nat) /\ Len(<<>>) = 0
    BY EmptySeq
  <2>3. CASE chan' = [chan EXCEPT ![c] = <<>>]
    BY <2>1, <2>2, <2>3 DEF ChanType
  <2>4. CASE chan[c] # <<>> /\ chan' = [chan EXCEPT ![c] = Tail(@)]
    <3>1. Tail(chan[c]) \in Seq(Nat) /\ Len(Tail(chan[c])) = Len(chan[c]) - 1
      BY <2>1, <2>4
    <3> QED BY <2>1, <2>4, <3>1 DEF ChanType
  <2> QED BY <2>3, <2>4
<1>2. \A d \in Clients \ {c} : chan'[d] = chan[d]
  BY DEF ChanType
<1>3. chan' = [d \in Clients |-> chan'[d]]
  BY DEF ChanType
<1> QED BY <1>1, <1>2, <1>3 DEF ChanType

LEMMA HandlerStep ==
    ASSUME ChanType, HandlerType, NEW c \in Clients,
           Connect(c) \/ Receive(c) \/ Write(c) \/ Keepalive(c)
               \/ Disconnect(c) \/ SessionEnds(c)
    PROVE  ChanType' /\ HandlerType' /\ UNCHANGED <<sent, tick, ringVars>>
<1>1. UNCHANGED <<sent, tick, ringVars>>
  BY DEF Connect, Receive, Write, Keepalive, Disconnect, SessionEnds
<1>2. ASSUME chan' = chan PROVE ChanType'
  BY <1>2 DEF ChanType
<1>3. CASE Connect(c)
  BY <1>1, <1>2, <1>3 DEF Connect, HandlerType
<1>4. CASE Receive(c) /\ session[c]
  <2>1. ChanType'
    BY <1>4, ChanShrinks DEF Receive
  <2>2. Head(chan[c]) \in Nat
    BY <1>4 DEF Receive, ChanType
  <2> QED BY <1>1, <1>4, <2>1, <2>2 DEF Receive, HandlerType
<1>5. CASE Receive(c) /\ ~session[c]
  BY <1>1, <1>5, ChanShrinks DEF Receive, Unsubscribe, HandlerType
<1>6. CASE Write(c)
  <2>1. late' \in [Clients -> Nat]
    BY <1>6 DEF Write, HandlerType
  <2> QED BY <1>1, <1>2, <1>6, <2>1 DEF Write, HandlerType
<1>7. CASE Keepalive(c)
  BY <1>1, <1>7, ChanShrinks DEF Keepalive, Unsubscribe, HandlerType
<1>8. CASE Disconnect(c)
  BY <1>1, <1>8, ChanShrinks DEF Disconnect, Unsubscribe, HandlerType
<1>9. CASE SessionEnds(c)
  BY <1>1, <1>2, <1>9 DEF SessionEnds, HandlerType
<1> QED BY <1>3, <1>4, <1>5, <1>6, <1>7, <1>8, <1>9

LEMMA TypeStep == TypeInv /\ [Next]_vars => TypeInv'
<1> SUFFICES ASSUME RingType, TickType, ChanType, HandlerType, [Next]_vars
             PROVE  RingType' /\ TickType' /\ ChanType' /\ HandlerType'
  BY TypeParts, PTL
<1>1. ASSUME UNCHANGED ringVars PROVE RingType'
  BY <1>1 DEF RingType, ringVars
<1>2. ASSUME UNCHANGED <<subscribers, clientVars>> PROVE HandlerType'
  BY <1>2 DEF HandlerType, clientVars
<1>3. ASSUME UNCHANGED chan PROVE ChanType'
  BY <1>3 DEF ChanType
<1>4. ASSUME UNCHANGED <<sent, tick>> PROVE TickType'
  BY <1>4 DEF TickType
<1>5. CASE Tick
  BY <1>1, <1>2, <1>3, <1>5 DEF Tick, TickType
<1>6. CASE Broadcast
  <2>1. sent + 1 \in Nat /\ sent < MaxEvents
    BY <1>6, BoundAssumption DEF Broadcast, TickType
  <2>2. RingType'
    BY <1>6, <2>1, InsertType DEF Broadcast
  <2>3. HandlerType'
    BY <1>2, <1>6 DEF Broadcast
  <2>4. CASE panicked'
    BY <1>3, <1>6, <2>2, <2>3, <2>4 DEF Broadcast, TickType
  <2>5. CASE ~panicked'
    <3>1. sent' = sent + 1 /\ tick' = "idle" /\ Offer(sent + 1)
      BY <1>6, <2>5 DEF Broadcast
    <3>2. ChanType'
      BY <2>1, <3>1, OfferType
    <3>3. TickType'
      BY <2>1, <3>1, BoundAssumption DEF TickType
    <3> QED BY <2>2, <2>3, <3>2, <3>3
  <2> QED BY <2>4, <2>5
<1>7. ASSUME NEW limit \in Resizes, SetMaxHistory(limit)
      PROVE  RingType' /\ TickType' /\ ChanType' /\ HandlerType'
  <2>1. UNCHANGED <<sent, subscribers, chan, tick, clientVars>>
    BY <1>7 DEF SetMaxHistory
  <2> QED BY <1>2, <1>3, <1>4, <1>7, <2>1, ResizeType
<1>8. ASSUME NEW c \in Clients,
             Connect(c) \/ Receive(c) \/ Write(c) \/ Keepalive(c)
                 \/ Disconnect(c) \/ SessionEnds(c)
      PROVE  RingType' /\ TickType' /\ ChanType' /\ HandlerType'
  BY <1>1, <1>4, <1>8, HandlerStep
<1>9. CASE UNCHANGED vars
  BY <1>1, <1>2, <1>3, <1>4, <1>9 DEF vars
<1> QED BY <1>5, <1>6, <1>7, <1>8, <1>9 DEF Next

\* Types are respected and no channel ever holds more than its capacity,
\* whatever the clients do and however the history is resized.
THEOREM TypeCorrect == Spec => []TypeOK
<1>1. TypeInv => TypeOK
  BY DEF TypeInv
<1> QED BY <1>1, TypeInit, TypeStep, PTL DEF Spec

\* A valid session has had nothing late, and a handler that wrote something
\* late is not about to write again.
LateInv ==
    \A c \in Clients :
        /\ late[c] <= 1
        /\ session[c] => late[c] = 0
        /\ late[c] # 0 => handler[c] # "write"

LEMMA LateStep == TypeInv /\ LateInv /\ [Next]_vars => LateInv'
<1> SUFFICES ASSUME HandlerType, LateInv, [Next]_vars PROVE LateInv'
  BY TypeParts
<1>1. ASSUME UNCHANGED clientVars PROVE LateInv'
  BY <1>1 DEF LateInv, clientVars
<1>2. ASSUME NEW c \in Clients, Connect(c) PROVE LateInv'
  BY <1>2 DEF Connect, LateInv, HandlerType
<1>3. ASSUME NEW c \in Clients, Receive(c) PROVE LateInv'
  BY <1>3 DEF Receive, Unsubscribe, LateInv, HandlerType
<1>4. ASSUME NEW c \in Clients, Write(c) PROVE LateInv'
  <2>1. late[c] = 0
    BY <1>4 DEF Write, LateInv, HandlerType
  <2>2. CASE session[c]
    BY <1>4, <2>2 DEF Write, LateInv, HandlerType
  <2>3. CASE ~session[c]
    BY <1>4, <2>1, <2>3 DEF Write, LateInv, HandlerType
  <2> QED BY <2>2, <2>3
<1>5. ASSUME NEW c \in Clients, Keepalive(c) \/ Disconnect(c) PROVE LateInv'
  BY <1>5 DEF Keepalive, Disconnect, Unsubscribe, LateInv, HandlerType
<1>6. ASSUME NEW c \in Clients, SessionEnds(c) PROVE LateInv'
  BY <1>6 DEF SessionEnds, LateInv, HandlerType
<1>7. CASE Tick \/ Broadcast \/ \E limit \in Resizes : SetMaxHistory(limit)
  BY <1>1, <1>7 DEF Tick, Broadcast, SetMaxHistory
<1>8. CASE UNCHANGED vars
  BY <1>1, <1>8 DEF vars
<1> QED BY <1>2, <1>3, <1>4, <1>5, <1>6, <1>7, <1>8 DEF Next

\* However many events are queued for a client when its session ends, at most
\* the one its handler has in hand still reaches it.
THEOREM LogoutIsPrompt == Spec => []AtMostOneLate
<1>1. Init => LateInv
  BY DEF Init, LateInv
<1>2. LateInv => AtMostOneLate
  BY DEF LateInv, AtMostOneLate
<1> QED BY <1>1, <1>2, TypeInit, TypeStep, LateStep, PTL DEF Spec

-----------------------------------------------------------------------------
(* The order in which a client gets its events. *)

\* What InOrder says of the channel q of a client whose handler has e in hand
\* and has last written w, when n events have been broadcast.
Ordered(q, e, w, n) ==
    /\ \A i, j \in 1..Len(q) : i < j => q[i] < q[j]
    /\ \A i \in 1..Len(q) : q[i] > e /\ q[i] > w /\ q[i] <= n
    /\ e <= n /\ w <= n

\* InOrder, with the fact it needs that no event comes from the future.
OrderInv ==
    \A c \in Clients :
        /\ Ordered(chan[c], event[c], written[c], sent)
        /\ handler[c] = "write" => event[c] > written[c]

LEMMA OrderedEmpty ==
    ASSUME NEW n \in Nat, NEW e \in 0..n, NEW w \in 0..n
    PROVE  Ordered(<<>>, e, w, n)
<1>1. Len(<<>>) = 0
  BY EmptySeq
<1> QED BY <1>1 DEF Ordered

\* A new event is later than all the others.
LEMMA OrderedAppend ==
    ASSUME NEW q \in Seq(Nat), NEW e \in Nat, NEW w \in Nat, NEW n \in Nat,
           Ordered(q, e, w, n)
    PROVE  /\ Ordered(q, e, w, n + 1)
           /\ Ordered(Append(q, n + 1), e, w, n + 1)
<1>1. \A i \in 1..Len(q) : q[i] \in Nat
  OBVIOUS
<1>2. Ordered(q, e, w, n + 1)
  BY <1>1 DEF Ordered
<1> DEFINE t == Append(q, n + 1)
<1>3. /\ Len(t) = Len(q) + 1 /\ t[Len(q) + 1] = n + 1
      /\ \A i \in 1..Len(q) : t[i] = q[i]
  OBVIOUS
<1> HIDE DEF t
<1>4. Ordered(t, e, w, n + 1)
  <2>1. ASSUME NEW i \in 1..Len(t), NEW j \in 1..Len(t), i < j
        PROVE  t[i] < t[j]
    <3>1. i \in 1..Len(q) /\ t[i] = q[i] /\ q[i] <= n
      BY <1>3, <2>1 DEF Ordered
    <3>2. CASE j \in 1..Len(q)
      BY <1>3, <2>1, <3>1, <3>2 DEF Ordered
    <3>3. CASE j = Len(q) + 1
      BY <1>1, <1>3, <3>1, <3>3
    <3> QED BY <1>3, <3>2, <3>3
  <2>2. ASSUME NEW i \in 1..Len(t)
        PROVE  t[i] > e /\ t[i] > w /\ t[i] <= n + 1
    BY <1>1, <1>3 DEF Ordered
  <2> QED BY <1>2, <2>1, <2>2 DEF Ordered
<1> QED BY <1>2, <1>4 DEF t

\* The head may be taken in hand when it is taken from the channel.
LEMMA OrderedTake ==
    ASSUME NEW q \in Seq(Nat), NEW e \in Nat, NEW w \in Nat, NEW n \in Nat,
           Ordered(q, e, w, n), q # <<>>
    PROVE  Ordered(Tail(q), Head(q), w, n) /\ Head(q) > w
<1>1. /\ Len(q) \in Nat \ {0} /\ Head(q) = q[1] /\ Len(Tail(q)) = Len(q) - 1
      /\ \A i \in 1..Len(q)-1 : Tail(q)[i] = q[i + 1]
  OBVIOUS
<1> DEFINE t == Tail(q)
<1>2. /\ Len(t) = Len(q) - 1 /\ \A i \in 1..Len(t) : t[i] = q[i + 1]
  BY <1>1
<1> HIDE DEF t
<1>3. Ordered(t, q[1], w, n)
  BY <1>1, <1>2 DEF Ordered
<1>4. q[1] > w
  BY <1>1 DEF Ordered
<1> QED BY <1>1, <1>3, <1>4 DEF t

LEMMA OrderStep == TypeInv /\ OrderInv /\ [Next]_vars => OrderInv'
<1> SUFFICES ASSUME TickType, ChanType, HandlerType, OrderInv, [Next]_vars
             PROVE  OrderInv'
  BY TypeParts
<1>0. /\ sent \in Nat
      /\ \A c \in Clients :
             /\ chan[c] \in Seq(Nat) /\ event[c] \in Nat /\ written[c] \in Nat
             /\ event[c] \in 0..sent /\ written[c] \in 0..sent
  BY BoundAssumption DEF TickType, ChanType, HandlerType, OrderInv, Ordered
<1>1. ASSUME UNCHANGED <<sent, chan, handler, event, written>> PROVE OrderInv'
  BY <1>1 DEF OrderInv
<1>2. CASE Broadcast
  <2>1. CASE panicked'
    BY <1>1, <1>2, <2>1 DEF Broadcast, clientVars
  <2>2. CASE ~panicked'
    <3>1. /\ sent' = sent + 1 /\ Offer(sent + 1)
          /\ UNCHANGED <<handler, event, written>>
      BY <1>2, <2>2 DEF Broadcast, clientVars
    <3>2. ASSUME NEW c \in Clients
          PROVE  Ordered(chan'[c], event[c], written[c], sent + 1)
      <4>1. chan'[c] \in {chan[c], Append(chan[c], sent + 1)}
        BY <3>1 DEF Offer
      <4> QED BY <1>0, <4>1, OrderedAppend DEF OrderInv
    <3> QED BY <3>1, <3>2 DEF OrderInv
  <2> QED BY <2>1, <2>2
<1>3. ASSUME NEW c \in Clients, sent' = sent,
             \A d \in Clients \ {c} :
                 UNCHANGED <<chan[d], handler[d], event[d], written[d]>>,
             Ordered(chan'[c], event'[c], written'[c], sent),
             handler'[c] = "write" => event'[c] > written'[c]
      PROVE  OrderInv'
  BY <1>3 DEF OrderInv
<1>4. ASSUME NEW c \in Clients, Connect(c) PROVE OrderInv'
  <2>1. UNCHANGED <<sent, chan, event, written>> /\ handler'[c] = "select"
        /\ \A d \in Clients \ {c} : handler'[d] = handler[d]
    BY <1>4 DEF Connect, HandlerType
  <2> QED BY <1>3, <2>1 DEF OrderInv
<1>5. ASSUME NEW c \in Clients, Receive(c), session[c] PROVE OrderInv'
  <2>1. /\ chan[c] # <<>> /\ UNCHANGED <<sent, written>>
        /\ chan'[c] = Tail(chan[c]) /\ event'[c] = Head(chan[c])
        /\ \A d \in Clients \ {c} :
               UNCHANGED <<chan[d], handler[d], event[d]>>
    BY <1>5 DEF Receive, ChanType, HandlerType
  <2>2. Ordered(Tail(chan[c]), Head(chan[c]), written[c], sent)
        /\ Head(chan[c]) > written[c]
    BY <1>0, <2>1, OrderedTake DEF OrderInv
  <2> QED BY <1>3, <2>1, <2>2
<1>6. ASSUME NEW c \in Clients, Unsubscribe(c), UNCHANGED <<sent, written>>,
             event' \in {event, [event EXCEPT ![c] = 0]}
      PROVE  OrderInv'
  <2>1. /\ chan'[c] = <<>> /\ handler'[c] = "off" /\ event'[c] \in 0..sent
        /\ \A d \in Clients \ {c} :
               UNCHANGED <<chan[d], handler[d], event[d]>>
    BY <1>0, <1>6 DEF Unsubscribe, ChanType, HandlerType
  <2>2. Ordered(<<>>, event'[c], written[c], sent)
    BY <1>0, <2>1, OrderedEmpty
  <2> QED BY <1>3, <1>6, <2>1, <2>2
<1>7. ASSUME NEW c \in Clients, Write(c) PROVE OrderInv'
  <2>1. /\ UNCHANGED <<sent, chan>> /\ handler'[c] = "select"
        /\ event'[c] = 0 /\ written'[c] = event[c]
        /\ \A d \in Clients \ {c} :
               UNCHANGED <<handler[d], event[d], written[d]>>
    BY <1>7 DEF Write, HandlerType
  <2>2. Ordered(chan[c], 0, event[c], sent)
    BY <1>0 DEF OrderInv, Ordered
  <2> QED BY <1>3, <2>1, <2>2
<1>8. ASSUME NEW c \in Clients,
             Receive(c) \/ Keepalive(c) \/ Disconnect(c) \/ SessionEnds(c)
      PROVE  OrderInv'
  BY <1>1, <1>5, <1>6, <1>8
     DEF Receive, Keepalive, Disconnect, SessionEnds
<1>9. CASE Tick \/ \E limit \in Resizes : SetMaxHistory(limit)
  BY <1>1, <1>9 DEF Tick, SetMaxHistory, clientVars
<1>10. CASE UNCHANGED vars
  BY <1>1, <1>10 DEF vars, clientVars
<1> QED BY <1>2, <1>4, <1>7, <1>8, <1>9, <1>10 DEF Next

\* Whichever events a full channel skips, however the handlers and the ticker
\* interleave and even if a resized ring ends the ticker: no client is sent an
\* event twice or after a later one.
THEOREM StreamInOrder == Spec => []InOrder
<1>1. Init => OrderInv
  <2> SUFFICES ASSUME Init, NEW c \in Clients
               PROVE  Ordered(chan[c], event[c], written[c], sent)
                      /\ handler[c] # "write"
    BY DEF OrderInv
  <2> QED BY OrderedEmpty DEF Init
<1>2. OrderInv => InOrder
  BY DEF OrderInv, Ordered, InOrder
<1> QED BY <1>1, <1>2, TypeInit, TypeStep, OrderStep, PTL DEF Spec
=============================================================================
