--------------------------- MODULE DockerConnector ---------------------------
(***************************************************************************)
(* The Docker connector of pkg/connector/docker.go: the registry of        *)
(* container objects that the grid and the web server read, and the four   *)
(* goroutines that keep it in step with the daemon.                        *)
(*                                                                         *)
(*   - the constructor (NewDocker), which fills the registry from one      *)
(*     ListContainers call before the event listener is attached;          *)
(*   - watchEvents, which turns daemon events into entries of two bounded  *)
(*     channels, needsRefresh and statuses, and deletes destroyed ids;     *)
(*   - Loop, which inspects one queued id at a time and applies the answer;*)
(*   - LoopStatuses, which applies the states events announce.             *)
(*                                                                         *)
(* A worker that called Get or MustGet holds a pointer.  When another      *)
(* worker deletes the id, that pointer is an orphan: writing through it    *)
(* changes no registered object.  `live' says that the held pointer is     *)
(* still the registered one.                                               *)
(*                                                                         *)
(* The daemon, its event stream and the answers to the API calls are not   *)
(* under src/: they are modelled from how docker.go uses them.             *)
(***************************************************************************)
EXTENDS Naturals, Sequences

CONSTANTS
    Cids,             \* container ids, never reused by the daemon
    RefreshCap,       \* capacity of needsRefresh (60 in the code)
    StatusCap,        \* capacity of statuses (60 in the code)
    InitialStates,    \* states of the daemon's containers at the start
    MaxChanges,       \* bound on the changes the daemon makes
    Faults,           \* what the environment may do wrong
    NoCid,            \* a worker that has handled no id yet
    InspectHasStatus  \* inspect answers carry State.Status (API >= 1.21)

ASSUME CapsAssumption == RefreshCap \in Nat \ {0} /\ StatusCap \in Nat \ {0}
ASSUME BoundAssumption == MaxChanges \in Nat
ASSUME FaultsAssumption ==
    Faults \subseteq {"list", "listen", "stream", "inspect", "close"}
ASSUME NoCidAssumption == NoCid \notin Cids
ASSUME StatusAssumption == InspectHasStatus \in BOOLEAN

DaemonStates == {"absent", "created", "running", "paused", "exited",
                 "restarting", "gone"}
ASSUME InitialAssumption == InitialStates \subseteq DaemonStates \ {"gone"}

MetaStates == {"", "created", "running", "paused", "exited", "restarting"}
Healths == {"", "healthy", "unhealthy"}
Actions == {"create", "start", "die", "stop", "pause", "unpause",
            "destroy", "healthy", "unhealthy"}

\* The states events announce; "" is a key the Go map does not hold.
actionToStatus ==
    [a \in Actions |->
        CASE a \in {"start", "unpause"} -> "running"
          [] a \in {"die", "stop"} -> "exited"
          [] a = "pause" -> "paused"
          [] OTHER -> ""]

VARIABLES
    daemon,        \* state of each container in the daemon
    health,        \* its health check status in the daemon
    changes,       \* number of daemon changes so far
    listener,      \* "none", "on", "failed" (not attached) or "ended"
    events,        \* events sent to the listener and not yet received
    registry,      \* ids in cm.containers
    meta,          \* state and health metadata of the registered objects
    needsRefresh,  \* channel of ids
    statuses,      \* channel of StatusUpdate
    closed,        \* cm.closed is closed
    init,          \* the goroutine running NewDocker
    watch,         \* watchEvents
    loop,          \* Loop
    stat,          \* LoopStatuses
    lost           \* history: what the connector was not told, and why

daemonVars == <<daemon, health, changes>>
queueVars == <<needsRefresh, statuses>>
registryVars == <<registry, meta>>
workers == <<init, watch, loop, stat>>
vars == <<daemonVars, listener, events, registryVars, queueVars, closed,
          workers, lost>>

Exists(x) == daemon[x] \notin {"absent", "gone"}

NewMeta == [state |-> "", health |-> ""]

\* Each worker between two ids: its local variables are out of scope.
InitAt(pc) == [pc |-> pc, id |-> NoCid, live |-> FALSE, todo |-> {},
               seen |-> [x \in Cids |-> "absent"]]
WatchAt(pc) == [pc |-> pc, id |-> NoCid, action |-> "create"]
LoopAt(pc) == [pc |-> pc, id |-> NoCid, live |-> FALSE, seen |-> NewMeta]
StatAt(pc) == [pc |-> pc, id |-> NoCid, live |-> FALSE, field |-> "state",
               value |-> ""]

Init ==
    /\ daemon \in [Cids -> InitialStates]
    /\ health = [x \in Cids |-> ""]
    /\ changes = 0
    /\ listener = "none"
    /\ events = <<>>
    /\ registry = {}
    /\ meta = [x \in Cids |-> NewMeta]
    /\ needsRefresh = <<>>
    /\ statuses = <<>>
    /\ closed = FALSE
    /\ init = InitAt("list")
    /\ watch = WatchAt("off")
    /\ loop = LoopAt("idle")
    /\ stat = StatAt("idle")
    /\ lost = [untold |-> {}, refresh |-> {}, inspect |-> {}]

-----------------------------------------------------------------------------
(* The daemon. *)

\* A change of container x.  The listener hears of it when it is attached;
\* a change between the listing and the attachment is heard of by nobody.
Change(x, state, h, action) ==
    /\ changes < MaxChanges
    /\ changes' = changes + 1
    /\ daemon' = [daemon EXCEPT ![x] = state]
    /\ health' = [health EXCEPT ![x] = h]
    /\ events' = IF listener = "on"
                 THEN Append(events, [id |-> x, action |-> action])
                 ELSE events
    /\ lost' = IF listener # "on" /\ init.pc # "list"
               THEN [lost EXCEPT !.untold = @ \cup {x}]
               ELSE lost
    /\ UNCHANGED <<listener, registryVars, queueVars, closed, workers>>

DaemonCreate(x) == daemon[x] = "absent" /\ Change(x, "created", "", "create")
DaemonStart(x) ==
    /\ daemon[x] \in {"created", "exited", "restarting"}
    /\ Change(x, "running", "", "start")
\* The process ends; a restart policy leaves the container "restarting".
DaemonDie(x) ==
    /\ daemon[x] \in {"running", "paused"}
    /\ \E s \in {"exited", "restarting"} : Change(x, s, health[x], "die")
\* docker stop reports "stop" after "die".
DaemonStop(x) == daemon[x] = "exited" /\ Change(x, "exited", health[x], "stop")
DaemonPause(x) ==
    daemon[x] = "running" /\ Change(x, "paused", health[x], "pause")
DaemonUnpause(x) ==
    daemon[x] = "paused" /\ Change(x, "running", health[x], "unpause")
DaemonDestroy(x) ==
    daemon[x] \in {"created", "exited"} /\ Change(x, "gone", "", "destroy")
DaemonHealth(x) ==
    /\ daemon[x] = "running"
    /\ \E h \in {"healthy", "unhealthy"} \ {health[x]} :
           Change(x, "running", h, h)

Daemon ==
    \E x \in Cids :
        \/ DaemonCreate(x) \/ DaemonStart(x) \/ DaemonDie(x) \/ DaemonStop(x)
        \/ DaemonPause(x) \/ DaemonUnpause(x) \/ DaemonDestroy(x)
        \/ DaemonHealth(x)

\* The daemon ends the event stream (restart, network failure).
StreamEnds ==
    /\ "stream" \in Faults
    /\ listener = "on"
    /\ listener' = "ended"
    /\ UNCHANGED <<daemonVars, events, registryVars, queueVars, closed,
                   workers, lost>>

-----------------------------------------------------------------------------
(* The registry. *)

\* A worker whose pointer to x is no longer the registered object.
Orphan(w, x) == IF w.id = x THEN [w EXCEPT !.live = FALSE] ELSE w

\* The metadata after a worker wrote `field' through its pointer.
SetMeta(w, field, value) ==
    IF w.live THEN [meta EXCEPT ![w.id][field] = value] ELSE meta

\* MustGet after its Get missed: the object just built, or the one another
\* worker inserted since (the recheck under the write lock).
MustGetInsert(w) ==
    /\ registry' = registry \cup {w.id}
    /\ meta' = IF w.id \in registry
               THEN meta
               ELSE [meta EXCEPT ![w.id] = NewMeta]

\* What inspect says of x: the metadata refresh will write.
Inspected(x) ==
    [state |-> IF InspectHasStatus
               THEN daemon[x]
               ELSE IF daemon[x] \in {"running", "paused"}
                    THEN "running" ELSE "exited",
     health |-> health[x]]

-----------------------------------------------------------------------------
(* NewDocker: Loop and LoopStatuses already run. *)

InitList ==
    /\ init.pc = "list"
    /\ init' = [init EXCEPT !.pc = "next", !.seen = daemon,
                            !.todo = {x \in Cids : Exists(x)}]
    /\ UNCHANGED <<daemonVars, listener, events, registryVars, queueVars,
                   closed, watch, loop, stat, lost>>

\* An error is only logged: the registry starts empty.
InitListFails ==
    /\ "list" \in Faults
    /\ init.pc = "list"
    /\ init' = InitAt("next")
    /\ lost' = [lost EXCEPT !.untold = {x \in Cids : Exists(x)}]
    /\ UNCHANGED <<daemonVars, listener, events, registryVars, queueVars,
                   closed, watch, loop, stat>>

InitGet ==
    /\ init.pc = "next"
    /\ \E x \in init.todo :
           init' = IF x \in registry
                   THEN [init EXCEPT !.pc = "set", !.id = x, !.live = TRUE,
                                     !.todo = @ \ {x}]
                   ELSE [init EXCEPT !.pc = "insert", !.id = x,
                                     !.todo = @ \ {x}]
    /\ UNCHANGED <<daemonVars, listener, events, registryVars, queueVars,
                   closed, watch, loop, stat, lost>>

InitInsert ==
    /\ init.pc = "insert"
    /\ MustGetInsert(init)
    /\ init' = [init EXCEPT !.pc = "set", !.live = TRUE]
    /\ UNCHANGED <<daemonVars, listener, events, queueVars, closed, watch,
                   loop, stat, lost>>

InitSetState ==
    /\ init.pc = "set"
    /\ meta' = SetMeta(init, "state", init.seen[init.id])
    /\ init' = [init EXCEPT !.pc = "send"]
    /\ UNCHANGED <<daemonVars, listener, events, registry, queueVars, closed,
                   watch, loop, stat, lost>>

\* The send waits for room.  Its other case, closed, cannot happen yet: nobody
\* but the caller of NewDocker could close the connector.
InitSend ==
    /\ init.pc = "send"
    /\ Len(needsRefresh) < RefreshCap
    /\ needsRefresh' = Append(needsRefresh, init.id)
    /\ init' = [init EXCEPT !.pc = "next", !.id = NoCid, !.live = FALSE]
    /\ UNCHANGED <<daemonVars, listener, events, registryVars, statuses,
                   closed, watch, loop, stat, lost>>

\* refreshAll returned: watchEvents starts and NewDocker returns.
InitDone ==
    /\ init.pc = "next" /\ init.todo = {}
    /\ init' = InitAt("done")
    /\ watch' = WatchAt("listen")
    /\ UNCHANGED <<daemonVars, listener, events, registryVars, queueVars,
                   closed, loop, stat, lost>>

-----------------------------------------------------------------------------
(* watchEvents. *)

\* AddEventListener; an error is only logged.
WatchListen ==
    /\ watch.pc = "listen"
    /\ \/ listener' = "on"
       \/ "listen" \in Faults /\ listener' = "failed"
    /\ watch' = WatchAt("range")
    /\ UNCHANGED <<daemonVars, events, registryVars, queueVars, closed, init,
                   loop, stat, lost>>

\* Mutant of WatchReceive: destroy asks for no deletion.
WatchReceiveNoDelete ==
    /\ watch.pc = "range"
    /\ events # <<>>
    /\ events' = Tail(events)
    /\ LET e == Head(events) IN
       watch' = IF e.action = "destroy"
                THEN watch
                ELSE [pc |-> IF e.action = "create"
                             THEN "create" ELSE "status",
                      id |-> e.id, action |-> e.action]
    /\ UNCHANGED <<daemonVars, listener, registryVars, queueVars, closed,
                   init, loop, stat, lost>>

\* The next event of the stream; `destroy' is handled at once by delByID, the
\* others go on to the channel sends.
WatchReceive ==
    /\ watch.pc = "range"
    /\ events # <<>>
    /\ events' = Tail(events)
    /\ LET e == Head(events) IN
       IF e.action = "destroy"
       THEN /\ registry' = registry \ {e.id}
            /\ init' = Orphan(init, e.id)
            /\ loop' = Orphan(loop, e.id)
            /\ stat' = Orphan(stat, e.id)
            /\ UNCHANGED watch
       ELSE /\ watch' = [pc |-> IF e.action = "create"
                                THEN "create" ELSE "status",
                         id |-> e.id, action |-> e.action]
            /\ UNCHANGED <<registry, init, loop, stat>>
    /\ UNCHANGED <<daemonVars, listener, meta, queueVars, closed, lost>>

\* Mutant of WatchSendCreate: the send gives up on a full channel.
WatchSendCreateDrops ==
    /\ watch.pc = "create"
    /\ needsRefresh' = IF Len(needsRefresh) < RefreshCap
                       THEN Append(needsRefresh, watch.id)
                       ELSE needsRefresh
    /\ watch' = WatchAt("range")
    /\ UNCHANGED <<daemonVars, listener, events, registryVars, statuses,
                   closed, init, loop, stat, lost>>

\* Mutant of WatchSendCreate: the send is not guarded by closed.
WatchSendCreateUnguarded ==
    /\ watch.pc = "create"
    /\ Len(needsRefresh) < RefreshCap
    /\ needsRefresh' = Append(needsRefresh, watch.id)
    /\ watch' = WatchAt("range")
    /\ UNCHANGED <<daemonVars, listener, events, registryVars, statuses,
                   closed, init, loop, stat, lost>>

\* A send that waits for room in the channel or for Close.
WatchSendCreate ==
    /\ watch.pc = "create"
    /\ \/ /\ Len(needsRefresh) < RefreshCap
          /\ needsRefresh' = Append(needsRefresh, watch.id)
          /\ watch' = WatchAt("range")
       \/ /\ closed
          /\ watch' = WatchAt("done")
          /\ UNCHANGED needsRefresh
    /\ UNCHANGED <<daemonVars, listener, events, registryVars, statuses,
                   closed, init, loop, stat, lost>>

IsHealth(action) == action \in {"healthy", "unhealthy"}

\* The update of a health or status event; only a status event asks for a
\* refresh as well.
WatchSendStatus ==
    /\ watch.pc = "status"
    /\ \/ /\ Len(statuses) < StatusCap
          /\ statuses' = Append(statuses,
                 IF IsHealth(watch.action)
                 THEN [id |-> watch.id, field |-> "health",
                       value |-> watch.action]
                 ELSE [id |-> watch.id, field |-> "state",
                       value |-> actionToStatus[watch.action]])
          /\ watch' = IF IsHealth(watch.action)
                      THEN WatchAt("range")
                      ELSE [watch EXCEPT !.pc = "refresh"]
       \/ /\ closed
          /\ watch' = WatchAt("done")
          /\ UNCHANGED statuses
    /\ UNCHANGED <<daemonVars, listener, events, registryVars, needsRefresh,
                   closed, init, loop, stat, lost>>

\* Mutant of WatchSendRefresh: a status event asks for no refresh.
WatchSendRefreshNever ==
    /\ watch.pc = "refresh"
    /\ watch' = WatchAt("range")
    /\ UNCHANGED <<daemonVars, listener, events, registryVars, queueVars,
                   closed, init, loop, stat, lost>>

\* The refresh of a status event is dropped when the channel is full.
WatchSendRefresh ==
    /\ watch.pc = "refresh"
    /\ IF Len(needsRefresh) < RefreshCap
       THEN /\ needsRefresh' = Append(needsRefresh, watch.id)
            /\ UNCHANGED lost
       ELSE /\ lost' = [lost EXCEPT !.refresh = @ \cup {watch.id}]
            /\ UNCHANGED needsRefresh
    /\ watch' = WatchAt("range")
    /\ UNCHANGED <<daemonVars, listener, events, registryVars, statuses,
                   closed, init, loop, stat>>

\* The stream is over: the range ends and watchEvents closes the connector.
WatchEnd ==
    /\ watch.pc = "range"
    /\ events = <<>>
    /\ listener = "ended"
    /\ closed' = TRUE
    /\ watch' = WatchAt("done")
    /\ UNCHANGED <<daemonVars, listener, events, registryVars, queueVars,
                   init, loop, stat, lost>>

\* Close called from outside (MultiConnector.Close).
Close ==
    /\ "close" \in Faults
    /\ ~closed
    /\ init.pc = "done"
    /\ closed' = TRUE
    /\ UNCHANGED <<daemonVars, listener, events, registryVars, queueVars,
                   workers, lost>>

-----------------------------------------------------------------------------
(* Loop and refresh. *)

\* Mutant of LoopTake: Loop is started after refreshAll.
LoopTakeLate ==
    /\ init.pc = "done"
    /\ loop.pc = "idle"
    /\ needsRefresh # <<>>
    /\ needsRefresh' = Tail(needsRefresh)
    /\ loop' = [loop EXCEPT !.pc = "get", !.id = Head(needsRefresh)]
    /\ UNCHANGED <<daemonVars, listener, events, registryVars, statuses,
                   closed, init, watch, stat, lost>>

LoopTake ==
    /\ loop.pc = "idle"
    /\ needsRefresh # <<>>
    /\ needsRefresh' = Tail(needsRefresh)
    /\ loop' = [loop EXCEPT !.pc = "get", !.id = Head(needsRefresh)]
    /\ UNCHANGED <<daemonVars, listener, events, registryVars, statuses,
                   closed, init, watch, stat, lost>>

LoopGet ==
    /\ loop.pc = "get"
    /\ loop' = IF loop.id \in registry
               THEN [loop EXCEPT !.pc = "inspect", !.live = TRUE]
               ELSE [loop EXCEPT !.pc = "insert"]
    /\ UNCHANGED <<daemonVars, listener, events, registryVars, queueVars,
                   closed, init, watch, stat, lost>>

LoopInsert ==
    /\ loop.pc = "insert"
    /\ MustGetInsert(loop)
    /\ loop' = [loop EXCEPT !.pc = "inspect", !.live = TRUE]
    /\ UNCHANGED <<daemonVars, listener, events, queueVars, closed, init,
                   watch, stat, lost>>

\* The daemon answers the inspect call.
LoopInspect ==
    /\ loop.pc = "inspect"
    /\ loop' = IF Exists(loop.id)
               THEN [loop EXCEPT !.pc = "apply", !.seen = Inspected(loop.id)]
               ELSE [loop EXCEPT !.pc = "delete"]
    /\ UNCHANGED <<daemonVars, listener, events, registryVars, queueVars,
                   closed, init, watch, stat, lost>>

\* Mutant of LoopInspectFails: any error counts as not found.
LoopInspectFailsDeletes ==
    /\ "inspect" \in Faults
    /\ loop.pc = "inspect"
    /\ loop' = [loop EXCEPT !.pc = "delete"]
    /\ lost' = [lost EXCEPT !.inspect = @ \cup {loop.id}]
    /\ UNCHANGED <<daemonVars, listener, events, registryVars, queueVars,
                   closed, init, watch, stat>>

\* Any other error: refresh returns.
LoopInspectFails ==
    /\ "inspect" \in Faults
    /\ loop.pc = "inspect"
    /\ loop' = LoopAt("idle")
    /\ lost' = [lost EXCEPT !.inspect = @ \cup {loop.id}]
    /\ UNCHANGED <<daemonVars, listener, events, registryVars, queueVars,
                   closed, init, watch, stat>>

\* Mutant of LoopDelete: a container that is not found stays registered.
LoopDeleteNever ==
    /\ loop.pc = "delete"
    /\ loop' = LoopAt("idle")
    /\ UNCHANGED <<daemonVars, listener, events, registryVars, queueVars,
                   closed, init, watch, stat, lost>>

LoopDelete ==
    /\ loop.pc = "delete"
    /\ registry' = registry \ {loop.id}
    /\ loop' = LoopAt("idle")
    /\ init' = Orphan(init, loop.id)
    /\ stat' = Orphan(stat, loop.id)
    /\ UNCHANGED <<daemonVars, listener, events, meta, queueVars, closed,
                   watch, lost>>

\* The first half of refresh: the metadata up to the first SetState.
LoopApply ==
    /\ loop.pc = "apply"
    /\ meta' = IF loop.live
               THEN [meta EXCEPT ![loop.id] = loop.seen]
               ELSE meta
    /\ loop' = [loop EXCEPT !.pc = "finish"]
    /\ UNCHANGED <<daemonVars, listener, events, registry, queueVars, closed,
                   init, watch, stat, lost>>

\* The second half, after the InspectImage call: SetState once more, with
\* State.Status as it is.
LoopFinish ==
    /\ loop.pc = "finish"
    /\ meta' = SetMeta(loop, "state",
                       IF InspectHasStatus THEN loop.seen.state ELSE "")
    /\ loop' = LoopAt("idle")
    /\ UNCHANGED <<daemonVars, listener, events, registry, queueVars, closed,
                   init, watch, stat, lost>>

LoopExit ==
    /\ loop.pc = "idle"
    /\ closed
    /\ loop' = LoopAt("done")
    /\ UNCHANGED <<daemonVars, listener, events, registryVars, queueVars,
                   closed, init, watch, stat, lost>>

-----------------------------------------------------------------------------
(* LoopStatuses. *)

StatTake ==
    /\ stat.pc = "idle"
    /\ statuses # <<>>
    /\ statuses' = Tail(statuses)
    /\ LET u == Head(statuses) IN
           stat' = [pc |-> "get", id |-> u.id, live |-> FALSE,
                    field |-> u.field, value |-> u.value]
    /\ UNCHANGED <<daemonVars, listener, events, registryVars, needsRefresh,
                   closed, init, watch, loop, lost>>

\* An update for an id the registry does not hold is ignored.
StatGet ==
    /\ stat.pc = "get"
    /\ stat' = IF stat.id \in registry
               THEN [stat EXCEPT !.pc = "apply", !.live = TRUE]
               ELSE StatAt("idle")
    /\ UNCHANGED <<daemonVars, listener, events, registryVars, queueVars,
                   closed, init, watch, loop, lost>>

StatApply ==
    /\ stat.pc = "apply"
    /\ meta' = SetMeta(stat, stat.field, stat.value)
    /\ stat' = StatAt("idle")
    /\ UNCHANGED <<daemonVars, listener, events, registry, queueVars, closed,
                   init, watch, loop, lost>>

StatExit ==
    /\ stat.pc = "idle"
    /\ closed
    /\ stat' = StatAt("done")
    /\ UNCHANGED <<daemonVars, listener, events, registryVars, queueVars,
                   closed, init, watch, loop, lost>>

-----------------------------------------------------------------------------
NewDocker == InitList \/ InitListFails \/ InitGet \/ InitInsert \/ InitSetState
             \/ InitSend \/ InitDone
WatchEvents == WatchListen \/ WatchReceive \/ WatchSendCreate
               \/ WatchSendStatus \/ WatchSendRefresh \/ WatchEnd
Loop == LoopTake \/ LoopGet \/ LoopInsert \/ LoopInspect
        \/ LoopInspectFails \/ LoopDelete \/ LoopApply \/ LoopFinish
        \/ LoopExit
LoopStatuses == StatTake \/ StatGet \/ StatApply \/ StatExit

Next == Daemon \/ StreamEnds \/ Close
        \/ NewDocker \/ WatchEvents \/ Loop \/ LoopStatuses

Spec == Init /\ [][Next]_vars

\* Go schedules every runnable goroutine, and every API call returns; the
\* daemon owes no change and no fault.
Fairness == /\ WF_vars(NewDocker)
            /\ WF_vars(WatchEvents)
            /\ WF_vars(Loop)
            /\ WF_vars(LoopStatuses)

FairSpec == Spec /\ Fairness

-----------------------------------------------------------------------------
(* Properties. *)

InitPcs == {"list", "next", "insert", "set", "send", "done"}
WatchPcs == {"off", "listen", "range", "create", "status", "refresh", "done"}
LoopPcs == {"idle", "get", "insert", "inspect", "delete", "apply", "finish",
            "done"}
StatPcs == {"idle", "get", "apply", "done"}
Meta == [state : MetaStates, health : Healths]
Event == [id : Cids, action : Actions]
ValuesOf(field) == IF field = "state" THEN MetaStates ELSE Healths
StatusUpdate == {u \in [id : Cids, field : {"state", "health"},
                        value : MetaStates \cup Healths] :
                     u.value \in ValuesOf(u.field)}

DaemonTypeOK ==
    /\ daemon \in [Cids -> DaemonStates]
    /\ health \in [Cids -> Healths]
    /\ changes \in 0..MaxChanges
    /\ listener \in {"none", "on", "failed", "ended"}
    /\ events \in Seq(Event)

RegistryTypeOK ==
    /\ registry \subseteq Cids
    /\ meta \in [Cids -> Meta]
    /\ closed \in BOOLEAN
    /\ lost \in [untold : SUBSET Cids, refresh : SUBSET Cids,
                 inspect : SUBSET Cids]

QueueTypeOK ==
    /\ needsRefresh \in Seq(Cids) /\ Len(needsRefresh) <= RefreshCap
    /\ statuses \in Seq(StatusUpdate) /\ Len(statuses) <= StatusCap

InitTypeOK ==
    /\ init \in [pc : InitPcs, id : Cids \cup {NoCid}, live : BOOLEAN,
                 todo : SUBSET Cids, seen : [Cids -> DaemonStates]]
    /\ \A x \in init.todo : init.seen[x] \in MetaStates
    /\ init.pc \in {"insert", "set", "send"} =>
           init.id \in Cids /\ init.seen[init.id] \in MetaStates

WatchTypeOK ==
    /\ watch \in [pc : WatchPcs, id : Cids \cup {NoCid}, action : Actions]
    /\ watch.pc \in {"create", "status", "refresh"} => watch.id \in Cids

LoopTypeOK ==
    /\ loop \in [pc : LoopPcs, id : Cids \cup {NoCid}, live : BOOLEAN,
                 seen : Meta]
    /\ loop.pc \notin {"idle", "done"} => loop.id \in Cids

StatTypeOK ==
    /\ stat \in [pc : StatPcs, id : Cids \cup {NoCid}, live : BOOLEAN,
                 field : {"state", "health"}, value : MetaStates \cup Healths]
    /\ stat.pc \in {"get", "apply"} => stat.id \in Cids
    /\ stat.value \in ValuesOf(stat.field)

\* Types, channel capacities, and what each program counter says of the id a
\* worker is at.
TypeOK ==
    /\ DaemonTypeOK /\ RegistryTypeOK /\ QueueTypeOK
    /\ InitTypeOK /\ WatchTypeOK /\ LoopTypeOK /\ StatTypeOK

\* The elements of a queue.
Elements(q) == {q[i] : i \in 1..Len(q)}

\* The ids queued for a refresh, and the ids of events not yet received.
Queued == Elements(needsRefresh)
Announced(action) ==
    {x \in Cids : [id |-> x, action |-> action] \in Elements(events)}

\* An entry of the registry whose container is gone is about to be removed: its
\* destroy event is still to be received, or a refresh will find it missing.
\* A failed inspect and the window before the listener are the only ways to
\* keep a ghost row (delByID, refresh and the MustGet that re-creates ids).
GhostExplained ==
    \A x \in registry :
        \/ Exists(x)
        \/ x \in lost.untold \/ x \in lost.inspect
        \/ x \in Announced("destroy")
        \/ x \in Queued
        \/ loop.id = x /\ loop.pc \in {"get", "insert", "inspect", "delete"}
        \/ init.id = x /\ init.pc \in {"set", "send"}

\* A container the daemon has and the registry lacks is about to be added: by
\* the constructor's listing, by its create event, or by a queued refresh.
\* Only the window before the listener loses one (refreshAll, watchEvents,
\* Loop and MustGet together).
MissingExplained ==
    \A x \in Cids \ registry :
        \/ ~Exists(x)
        \/ x \in lost.untold
        \/ init.pc = "list" \/ x \in init.todo
        \/ init.id = x /\ init.pc = "insert"
        \/ x \in Announced("create")
        \/ watch.id = x /\ watch.pc = "create"
        \/ x \in Queued
        \/ loop.id = x /\ loop.pc \in {"get", "insert"}
        \/ closed

\* No worker has anything left to do and the listener is attached.
Quiet ==
    /\ init.pc = "done" /\ watch.pc = "range"
    /\ loop.pc = "idle" /\ stat.pc = "idle"
    /\ listener = "on" /\ ~closed
    /\ events = <<>> /\ needsRefresh = <<>> /\ statuses = <<>>

\* After "die" of a container with a restart policy the event says "exited"
\* and an inspect says "restarting": whichever comes last stays.
Agrees(shown, actual) ==
    shown = actual \/ (shown = "exited" /\ actual = "restarting")

\* When everything announced has been handled, the state of every row is the
\* daemon's, whatever the order in which the event goroutines, the refreshes
\* and the status updates were interleaved, unless the connector was told
\* nothing (window), dropped a refresh on a full channel or had an inspect
\* fail.
SettledStates ==
    Quiet => \A x \in registry :
                \/ x \in lost.untold \/ x \in lost.inspect
                \/ x \in lost.refresh
                \/ Agrees(meta[x].state, daemon[x])

\* The registry forgets a container only when the daemon has destroyed it: no
\* failed inspect, no race of delByID with MustGet and no shutdown removes the
\* row of a container that exists.
NeverForgetsLive ==
    [][\A x \in registry : x \notin registry' => daemon[x] = "gone"]_vars

\* The constructor returns: refreshAll, which blocks on a full needsRefresh,
\* is always drained by the Loop goroutine started before it.
NewDockerReturns == <>(init.pc = "done")

\* After Close no goroutine stays blocked in a channel send: Loop,
\* LoopStatuses and the constructor end, and watchEvents ends or waits for the
\* next event of its stream.
CloseReleases ==
    closed ~> [](/\ loop.pc = "done" /\ stat.pc = "done" /\ init.pc = "done"
                 /\ watch.pc \in {"range", "done"})

\* No goroutine of the connector is ever blocked for good.
NoneStuck == NewDockerReturns /\ CloseReleases

\* Once the daemon stops changing, the registry of an open connector ends up
\* with exactly its containers and stays there, apart from those the connector
\* lost track of: no worker waits forever for another one's channel.
Converges ==
    <>[](\A x \in Cids : \/ closed
                         \/ x \in lost.untold \cup lost.inspect
                         \/ (x \in registry) <=> Exists(x))

=============================================================================
