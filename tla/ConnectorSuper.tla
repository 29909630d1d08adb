--------------------------- MODULE ConnectorSuper ---------------------------
(***************************************************************************)
(* The supervisor of pkg/connector/main.go that dials a connector, hands   *)
(* it out, waits for it to end and dials again, over either one Docker     *)
(* connector or the MultiConnector of pkg/connector/multi.go, which dials  *)
(* one Docker connector per host.                                          *)
(*                                                                         *)
(* A Docker connector is abstracted to its link: open, broken (the daemon  *)
(* is gone, the connector has not noticed) or closed (watchEvents called   *)
(* Close).  Module DockerConnector has the details.  The menus, the grid   *)
(* and the web server are the getters.                                     *)
(***************************************************************************)
EXTENDS Naturals

CONSTANTS
    Hosts,   \* hosts that the program may be told to connect to
    Getters  \* goroutines that call Get

ASSUME HostsAssumption == Hosts # {}

VARIABLES
    multi,    \* --host was given: the connector is a MultiConnector
    hosts,    \* the hosts of --host, or the one of the default connector
    up,       \* hosts whose daemon answers
    link,     \* link[h]: the Docker connector for host h that the last dial
              \* opened
    dropped,  \* dropped[h]: one of an earlier dial, referenced by nobody
    todo,     \* hosts the dial has still to connect to
    conn,     \* cs.conn: "nil", what the last dial made ("current"), "stale"
    err,      \* cs.err, "none" for nil
    pc,       \* the supervisor's goroutine
    writer,   \* setError has called Lock, which keeps new readers out
    getter    \* getters that hold the read lock and saw no error

options == <<multi, hosts>>
linkVars == <<link, dropped>>
lockVars == <<writer, getter>>
vars == <<options, up, linkVars, todo, conn, err, pc, lockVars>>

Init ==
    /\ multi \in BOOLEAN
    /\ hosts \in SUBSET Hosts /\ hosts # {}
    /\ ~multi => \E h \in Hosts : hosts = {h}
    /\ up \in SUBSET Hosts
    /\ link = [h \in Hosts |-> "none"]
    /\ dropped = [h \in Hosts |-> "none"]
    /\ todo = hosts
    /\ conn = "nil"
    /\ err = "connecting"
    /\ pc = "dial"
    /\ writer = FALSE
    /\ getter = {}

-----------------------------------------------------------------------------
(* Hosts. *)

Broken(l) == IF l = "open" THEN "broken" ELSE l

\* The daemon stops or the network fails: every link to it is broken.
HostDown(h) ==
    /\ h \in up
    /\ up' = up \ {h}
    /\ link' = [link EXCEPT ![h] = Broken(@)]
    /\ dropped' = [dropped EXCEPT ![h] = Broken(@)]
    /\ UNCHANGED <<options, todo, conn, err, pc, lockVars>>

HostUp(h) ==
    /\ h \notin up
    /\ up' = up \cup {h}
    /\ UNCHANGED <<options, linkVars, todo, conn, err, pc, lockVars>>

\* The event stream of a broken link ends and watchEvents closes the
\* connector.
LinkEnds(h) ==
    /\ link[h] = "broken"
    /\ link' = [link EXCEPT ![h] = "closed"]
    /\ UNCHANGED <<options, up, dropped, todo, conn, err, pc, lockVars>>

DroppedEnds(h) ==
    /\ dropped[h] = "broken"
    /\ dropped' = [dropped EXCEPT ![h] = "none"]
    /\ UNCHANGED <<options, up, link, todo, conn, err, pc, lockVars>>

-----------------------------------------------------------------------------
(* The supervisor: loop, connFn and setError. *)

\* NewDocker or NewDockerWithEndpoint for the next host (AddConnector).
DialHost(h) ==
    /\ pc = "dial"
    /\ h \in todo /\ h \in up
    /\ link' = [link EXCEPT ![h] = "open"]
    /\ todo' = todo \ {h}
    /\ UNCHANGED <<options, up, dropped, conn, err, pc, lockVars>>

\* Mutant of DialFails: a host that does not answer is passed over.
DialSkips(h) ==
    /\ pc = "dial"
    /\ h \in todo \ up
    /\ todo' = todo \ {h}
    /\ UNCHANGED <<options, up, linkVars, conn, err, pc, lockVars>>

\* The first host that does not answer fails the whole dial.  The connectors
\* of the hosts dialed before it are dropped, not closed.
DialFails(h) ==
    /\ pc = "dial"
    /\ h \in todo \ up
    /\ pc' = "failed"
    /\ UNCHANGED <<options, up, linkVars, todo, conn, err, lockVars>>

DialDone ==
    /\ pc = "dial" /\ todo = {}
    /\ pc' = "store"
    /\ UNCHANGED <<options, up, linkVars, todo, conn, err, lockVars>>

\* cs.conn = conn, without the lock.
Store ==
    /\ pc = "store"
    /\ conn' = "current"
    /\ pc' = "announce"
    /\ UNCHANGED <<options, up, linkVars, todo, err, lockVars>>

\* setError calls Lock, then waits for the getters that hold the lock.
Lock ==
    /\ pc \in {"announce", "lost", "failed"}
    /\ ~writer
    /\ writer' = TRUE
    /\ UNCHANGED <<options, up, linkVars, todo, conn, err, pc, getter>>

\* Mutant of setError: the lock is kept.
setErrorKeeps(from, e, to) ==
    /\ pc = from
    /\ writer /\ getter = {}
    /\ err' = e
    /\ pc' = to
    /\ UNCHANGED <<options, up, getter, writer>>

setError(from, e, to) ==
    /\ pc = from
    /\ writer /\ getter = {}
    /\ writer' = FALSE
    /\ err' = e
    /\ pc' = to
    /\ UNCHANGED <<options, up, getter>>

Announce ==
    /\ setError("announce", "none", "wait")
    /\ UNCHANGED <<linkVars, todo, conn>>

\* A MultiConnector is closed by nobody.
Closed == ~multi /\ \E h \in hosts : link[h] = "closed"

\* Mutant of Wait: it returns while the connector is open.
WaitNot ==
    /\ pc = "wait"
    /\ pc' = "lost"
    /\ UNCHANGED <<options, up, linkVars, todo, conn, err, lockVars>>

Wait ==
    /\ pc = "wait"
    /\ Closed
    /\ pc' = "lost"
    /\ UNCHANGED <<options, up, linkVars, todo, conn, err, lockVars>>

\* The next dial.  What the last one opened and nobody closed goes on.
Dial ==
    /\ todo' = hosts
    /\ link' = [h \in Hosts |-> "none"]
    /\ dropped' = [h \in Hosts |->
                      IF link[h] \in {"open", "broken"} THEN link[h]
                                                        ELSE dropped[h]]
    /\ conn' = IF conn = "nil" THEN "nil" ELSE "stale"

\* Mutant of Lost: the loss is not reported to getters.
LostSilently ==
    /\ pc = "lost"
    /\ pc' = "dial"
    /\ Dial
    /\ UNCHANGED <<options, up, err, lockVars>>

Lost ==
    /\ setError("lost", "reconnecting", "dial")
    /\ Dial

Failed ==
    /\ setError("failed", "failed", "sleep")
    /\ UNCHANGED <<linkVars, todo, conn>>

\* Mutant of Retry: the supervisor gives up after a failed dial.
RetryNever == pc = "sleep" /\ UNCHANGED vars

\* Three seconds later.
Retry ==
    /\ pc = "sleep"
    /\ pc' = "dial"
    /\ Dial
    /\ UNCHANGED <<options, up, err, lockVars>>

-----------------------------------------------------------------------------
(* Get. *)

\* The read lock is taken and the error is nil; with an error Get returns it
\* and changes nothing.
GetLock(c) ==
    /\ c \notin getter
    /\ ~writer
    /\ err = "none"
    /\ getter' = getter \cup {c}
    /\ UNCHANGED <<options, up, linkVars, todo, conn, err, pc, writer>>

\* cs.conn is read and the lock released.
GetRead(c) ==
    /\ c \in getter
    /\ getter' = getter \ {c}
    /\ UNCHANGED <<options, up, linkVars, todo, conn, err, pc, writer>>

-----------------------------------------------------------------------------
loop ==
    \/ \E h \in Hosts : DialHost(h) \/ DialFails(h)
    \/ DialDone \/ Store \/ Lock \/ Announce \/ Wait \/ Lost \/ Failed \/ Retry

Next ==
    \/ \E h \in Hosts : HostDown(h) \/ HostUp(h) \/ LinkEnds(h) \/ DroppedEnds(h)
    \/ loop
    \/ \E c \in Getters : GetLock(c) \/ GetRead(c)

Spec == Init /\ [][Next]_vars

\* The supervisor and the getters run, and a dead stream is noticed.  Hosts
\* owe nothing.
Fairness ==
    /\ WF_vars(loop)
    /\ \A c \in Getters : WF_vars(GetRead(c))
    /\ \A h \in Hosts : WF_vars(LinkEnds(h)) /\ WF_vars(DroppedEnds(h))

FairSpec == Spec /\ Fairness

-----------------------------------------------------------------------------
(* Properties. *)

\* Every variable has its type.
TypeOK ==
    /\ multi \in BOOLEAN
    /\ hosts \subseteq Hosts
    /\ up \subseteq Hosts
    /\ link \in [Hosts -> {"none", "open", "broken", "closed"}]
    /\ dropped \in [Hosts -> {"none", "open", "broken"}]
    /\ todo \subseteq hosts
    /\ conn \in {"nil", "current", "stale"}
    /\ err \in {"none", "connecting", "reconnecting", "failed"}
    /\ pc \in {"dial", "store", "announce", "wait", "lost", "failed", "sleep"}
    /\ writer \in BOOLEAN /\ getter \subseteq Getters

\* A Get that saw no error reads a connector that was dialed for every host,
\* and never while the supervisor stores one: the store at main.go:92 takes no
\* lock and needs none.
GetIsSafe ==
    getter # {} =>
        /\ conn = "current"
        /\ \A h \in hosts : link[h] # "none"
        /\ pc \in {"wait", "lost"}

OneHost == \E h \in Hosts : hosts = {h}

\* Dialing again leaves no Docker connector running unseen, with its event
\* stream and its goroutines, unless one of several hosts did not answer
\* (AddConnector fails after others were added).
NoOrphanLinks == OneHost => \A h \in Hosts : dropped[h] = "none"

Serving == err = "none" /\ \A h \in hosts : link[h] = "open"

\* If every host is up from some time on, the program ends up serving
\* connected hosts again, however often they went down before.
Reconnects == <>[](hosts \subseteq up) => []<>Serving

\* Get does not serve a default connector whose host is gone for ever: the loss
\* ends up in cs.err even if the host never comes back.
LossIsReported ==
    \A h \in Hosts :
        (~multi /\ err = "none" /\ link[h] = "broken") ~> err # "none"

\* Without --host, a loss is reported and a host that is up again is served
\* again.
LossRepaired == (~multi => Reconnects) /\ LossIsReported
=============================================================================
