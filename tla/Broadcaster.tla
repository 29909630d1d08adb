----------------------------- MODULE Broadcaster -----------------------------
(***************************************************************************)
(* The telemetry stream: the Broadcaster of pkg/web/broadcaster.go, the    *)
(* ticker of startWebServer that feeds it and the handlers of              *)
(* /api/v1/stream (handleStream) that read it.                             *)
(*                                                                         *)
(* Events are numbered in the order in which they are broadcast.  Each     *)
(* method of the Broadcaster holds its mutex from start to end and is one  *)
(* step; a handler takes an event from its channel, checks the session it  *)
(* was opened with, and writes the event in a step of its own.             *)
(***************************************************************************)
EXTENDS Naturals, Sequences, FiniteSets

CONSTANTS
    Clients,      \* browsers that open the stream
    Stalled,      \* those among them that stop reading
    ChanCap,      \* capacity of a subscriber's channel (64)
    Subscribers,  \* maxSubscribers (256)
    History,      \* maxHistory (5000)
    Resizes,      \* limits SetMaxHistory is called with
    MaxEvents     \* bound on the events broadcast

ASSUME ClientsAssumption == Stalled \subseteq Clients
ASSUME CapAssumption == ChanCap \in Nat \ {0} /\ Subscribers \in Nat \ {0}
ASSUME HistoryAssumption == History \in Nat \ {0} /\ Resizes \subseteq Nat \ {0}
ASSUME BoundAssumption == MaxEvents \in Nat

VARIABLES
    sent,        \* number of events broadcast
    ring, head, count, maxHistory,
    panicked,    \* an index was out of range
    subscribers, \* clients with a registered channel
    chan,        \* the events in each client's channel
    tick,        \* the ticker: "idle", or "send" once it saw a subscriber
    handler,     \* handler of each client: "off", "select" or "write"
    event,       \* the event a handler is about to write
    written,     \* the last event written to each client
    session,     \* the client's session is valid
    late         \* history: events written to a client after its session ended

ringVars == <<ring, head, count, maxHistory, panicked>>
clientVars == <<handler, event, written, session, late>>
vars == <<sent, ringVars, subscribers, chan, tick, clientVars>>

Init ==
    /\ sent = 0
    /\ ring = <<>> /\ head = 0 /\ count = 0
    /\ maxHistory = History
    /\ panicked = FALSE
    /\ subscribers = {}
    /\ chan = [c \in Clients |-> <<>>]
    /\ tick = "idle"
    /\ handler = [c \in Clients |-> "off"]
    /\ event = [c \in Clients |-> 0]
    /\ written = [c \in Clients |-> 0]
    /\ session = [c \in Clients |-> TRUE]
    /\ late = [c \in Clients |-> 0]

-----------------------------------------------------------------------------
(* The history. *)

\* Mutant of Insert: the head stays where it is when the ring is full.
InsertStays(e) ==
    IF Len(ring) < maxHistory
    THEN /\ ring' = Append(ring, e)
         /\ count' = count + 1
         /\ head' = (head + 1) % maxHistory
         /\ UNCHANGED panicked
    ELSE /\ ring' = [ring EXCEPT ![head + 1] = e]
         /\ UNCHANGED <<head, count, panicked>>

\* The insertion of Broadcast.  Go's slices count from 0, sequences from 1.
Insert(e) ==
    IF Len(ring) < maxHistory
    THEN /\ ring' = Append(ring, e)
         /\ count' = count + 1
         /\ head' = (head + 1) % maxHistory
         /\ UNCHANGED panicked
    ELSE IF head < Len(ring)
    THEN /\ ring' = [ring EXCEPT ![head + 1] = e]
         /\ head' = (head + 1) % maxHistory
         /\ UNCHANGED <<count, panicked>>
    ELSE panicked' = TRUE /\ UNCHANGED <<ring, head, count>>

GetHistory ==
    IF count = 0 THEN <<>>
    ELSE IF Len(ring) < maxHistory THEN ring
    ELSE SubSeq(ring, head + 1, Len(ring)) \o SubSeq(ring, 1, head)

\* The index of GetLatestEvent is taken modulo the length.
GetLatestEvent ==
    IF count = 0 THEN 0 ELSE ring[((head + Len(ring) - 1) % Len(ring)) + 1]

SetMaxHistory(limit) ==
    /\ maxHistory' = limit
    /\ IF Len(ring) > limit
       THEN /\ ring' = SubSeq(ring, 1, limit)
            /\ count' = IF count > limit THEN limit ELSE count
            /\ head' = IF head >= limit THEN 0 ELSE head
       ELSE UNCHANGED <<ring, count, head>>
    /\ UNCHANGED <<sent, panicked, subscribers, chan, tick, clientVars>>

-----------------------------------------------------------------------------
(* The ticker. *)

Tick ==
    /\ tick = "idle" /\ ~panicked
    /\ subscribers # {}
    /\ sent < MaxEvents
    /\ tick' = "send"
    /\ UNCHANGED <<sent, ringVars, subscribers, chan, clientVars>>

\* Mutant of Offer: the send waits for room.
OfferWaits(e) ==
    /\ \A c \in subscribers : Len(chan[c]) < ChanCap
    /\ chan' = [c \in Clients |->
                   IF c \in subscribers THEN Append(chan[c], e) ELSE chan[c]]

\* A full channel is skipped: its client keeps what it has.
Offer(e) ==
    chan' = [c \in Clients |->
                IF c \in subscribers /\ Len(chan[c]) < ChanCap
                THEN Append(chan[c], e) ELSE chan[c]]

Broadcast ==
    /\ tick = "send" /\ ~panicked
    /\ tick' = "idle"
    /\ Insert(sent + 1)
    /\ IF panicked' THEN UNCHANGED <<sent, chan>>
       ELSE sent' = sent + 1 /\ Offer(sent + 1)
    /\ UNCHANGED <<maxHistory, subscribers, clientVars>>

-----------------------------------------------------------------------------
(* The handlers. *)

\* Subscribe; a nil channel (the limit is reached) ends the request.
Connect(c) ==
    /\ handler[c] = "off"
    /\ session[c]
    /\ Cardinality(subscribers) < Subscribers
    /\ subscribers' = subscribers \cup {c}
    /\ handler' = [handler EXCEPT ![c] = "select"]
    /\ UNCHANGED <<sent, ringVars, chan, tick, event, written, session, late>>

\* The deferred Unsubscribe: the channel is deleted and closed.
Unsubscribe(c) ==
    /\ subscribers' = subscribers \ {c}
    /\ chan' = [chan EXCEPT ![c] = <<>>]
    /\ handler' = [handler EXCEPT ![c] = "off"]

\* Mutant of Receive: the session is not checked for events.
ReceiveUnchecked(c) ==
    /\ handler[c] = "select" /\ chan[c] # <<>>
    /\ handler' = [handler EXCEPT ![c] = "write"]
    /\ event' = [event EXCEPT ![c] = Head(chan[c])]
    /\ chan' = [chan EXCEPT ![c] = Tail(@)]
    /\ UNCHANGED <<sent, ringVars, subscribers, tick, written, session, late>>

\* Mutant of Receive: the event stays in the channel.
ReceiveKeeps(c) ==
    /\ handler[c] = "select" /\ chan[c] # <<>> /\ session[c]
    /\ handler' = [handler EXCEPT ![c] = "write"]
    /\ event' = [event EXCEPT ![c] = Head(chan[c])]
    /\ UNCHANGED <<sent, ringVars, subscribers, chan, tick, written, session,
                   late>>

\* An event: the handler returns if the session has ended.
Receive(c) ==
    /\ handler[c] = "select" /\ chan[c] # <<>>
    /\ IF session[c]
       THEN /\ handler' = [handler EXCEPT ![c] = "write"]
            /\ event' = [event EXCEPT ![c] = Head(chan[c])]
            /\ chan' = [chan EXCEPT ![c] = Tail(@)]
            /\ UNCHANGED subscribers
       ELSE Unsubscribe(c) /\ UNCHANGED event
    /\ UNCHANGED <<sent, ringVars, tick, written, session, late>>

\* The write returns when the client has taken the data.
Write(c) ==
    /\ handler[c] = "write"
    /\ written' = [written EXCEPT ![c] = event[c]]
    /\ event' = [event EXCEPT ![c] = 0]
    /\ handler' = [handler EXCEPT ![c] = "select"]
    /\ late' = IF session[c] THEN late ELSE [late EXCEPT ![c] = @ + 1]
    /\ UNCHANGED <<sent, ringVars, subscribers, chan, tick, session>>

\* Mutant of Keepalive: the ticker does not look at the session.
KeepaliveUnchecked(c) == handler[c] = "select" /\ ~session[c] /\ UNCHANGED vars

\* The keepalive ticker; with a valid session it changes nothing.
Keepalive(c) ==
    /\ handler[c] = "select" /\ ~session[c]
    /\ Unsubscribe(c)
    /\ UNCHANGED <<sent, ringVars, tick, event, written, session, late>>

\* The client goes away; a pending write fails.
Disconnect(c) ==
    /\ handler[c] # "off"
    /\ Unsubscribe(c)
    /\ event' = [event EXCEPT ![c] = 0]
    /\ UNCHANGED <<sent, ringVars, tick, written, session, late>>

\* Logout or expiry, in the session store.
SessionEnds(c) ==
    /\ session[c]
    /\ session' = [session EXCEPT ![c] = FALSE]
    /\ UNCHANGED <<sent, ringVars, subscribers, chan, tick, handler, event,
                   written, late>>

-----------------------------------------------------------------------------
Next ==
    \/ Tick \/ Broadcast
    \/ \E limit \in Resizes : SetMaxHistory(limit)
    \/ \E c \in Clients :
           \/ Connect(c) \/ Receive(c) \/ Write(c) \/ Keepalive(c)
           \/ Disconnect(c) \/ SessionEnds(c)

Spec == Init /\ [][Next]_vars

\* The ticker and the handlers run; a write to a client that has stalled need
\* not return.  The keepalive case is ready every fifteen seconds and Go's
\* select picks among the ready cases at random.
Fairness ==
    /\ WF_vars(Tick) /\ WF_vars(Broadcast)
    /\ \A c \in Clients : SF_vars(Receive(c)) /\ SF_vars(Keepalive(c))
    /\ \A c \in Clients \ Stalled : WF_vars(Write(c))

FairSpec == Spec /\ Fairness

-----------------------------------------------------------------------------
(* Properties. *)

\* Every variable has its type and the channels respect their capacity.
TypeOK ==
    /\ sent \in 0..MaxEvents
    /\ ring \in Seq(Nat) /\ head \in Nat /\ count \in Nat
    /\ maxHistory \in Nat \ {0}
    /\ panicked \in BOOLEAN
    /\ subscribers \subseteq Clients
    /\ chan \in [Clients -> Seq(Nat)]
    /\ \A c \in Clients : Len(chan[c]) <= ChanCap
    /\ tick \in {"idle", "send"}
    /\ handler \in [Clients -> {"off", "select", "write"}]
    /\ event \in [Clients -> Nat]
    /\ written \in [Clients -> Nat]
    /\ session \in [Clients -> BOOLEAN]
    /\ late \in [Clients -> Nat]

\* How much of the events broadcast so far the history keeps.
Kept == IF sent < maxHistory THEN sent ELSE maxHistory

\* GetHistory returns the last events in the order they were broadcast
\* ("a snapshot slice of all historical events in chronological order").
HistoryIsNewest == GetHistory = [i \in 1..Kept |-> sent - Kept + i]

\* GetHistory returns what it has "in chronological order".
HistoryInOrder ==
    \A i, j \in 1..Len(GetHistory) : i < j => GetHistory[i] < GetHistory[j]

\* GetLatestEvent returns "the most recent telemetry event".
LatestIsNewest == GetLatestEvent = sent

\* Broadcast never indexes outside the ring, unless the ring was resized.
NeverPanics == ~panicked

\* The ring implements the log it stands for: the newest events in the order
\* they were broadcast, and after SetMaxHistory none but some of them.
Log == INSTANCE EventHistory
           WITH Events <- 1..MaxEvents, log <- GetHistory, keep <- maxHistory
ImplementsLog == Log!Spec

\* A subscriber's channel holds events in order, all later than what its
\* handler has in hand, which is later than what was written before: a client
\* sees no event twice and none after a later one, however many it misses.
InOrder ==
    \A c \in Clients :
        /\ \A i, j \in 1..Len(chan[c]) : i < j => chan[c][i] < chan[c][j]
        /\ \A i \in 1..Len(chan[c]) :
               chan[c][i] > event[c] /\ chan[c][i] > written[c]
        /\ handler[c] = "write" => event[c] > written[c]

\* After its session has ended a client is written at most the one event its
\* handler had in hand.
AtMostOneLate == \A c \in Clients : late[c] <= 1

\* A client that reads gets every next event, or a later one, until it leaves
\* (or a resized ring makes Broadcast panic): no stalled client delays it.
NobodyStallsOthers ==
    \A c \in Clients \ Stalled, k \in 1..MaxEvents :
        (handler[c] # "off" /\ sent = k - 1 /\ chan[c] = <<>>)
            ~> (written[c] >= k \/ handler[c] = "off" \/ panicked)

\* The stream of a client whose session has ended is closed.
LogoutEndsStream ==
    \A c \in Clients \ Stalled : ~session[c] ~> handler[c] = "off"

\* A client that reads has what it is entitled to, for as long as it is.
StreamServes == NobodyStallsOthers /\ LogoutEndsStream

=============================================================================
