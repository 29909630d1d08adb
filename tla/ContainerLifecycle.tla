------------------------- MODULE ContainerLifecycle -------------------------
(***************************************************************************)
(* One container object and its stats collector: Container.SetState and    *)
(* the user's operations of pkg/container/main.go with Start, Stop and the *)
(* goroutines of pkg/connector/collector/docker.go.                        *)
(*                                                                         *)
(* SetState is called by several goroutines at once (the connector's       *)
(* workers, the menus, every web request).  It starts a collector when the *)
(* state becomes "running" and stops it otherwise, deciding from a flag    *)
(* that the collector's own goroutine also clears, some time after it was  *)
(* told to stop.  Each Start is a generation: a fresh done channel, a      *)
(* fresh stream, a goroutine in client.Stats (poll), a goroutine that      *)
(* forwards samples to the stream and closes it (fwd), and the goroutines  *)
(* of Container.Read that range over the stream (readers).                 *)
(***************************************************************************)
EXTENDS Integers

CONSTANTS
    Callers,   \* goroutines that call methods of the container
    MaxCalls   \* bound on the calls they make

ASSUME MaxCallsAssumption == MaxCalls \in Nat

Gens == 1..MaxCalls
Nil == 0    \* the nil channel, as the generation that is never made
States == {"", "running", "paused", "exited"}
CallAt == {"idle", "manager", "meta", "start?", "start", "done", "spawn",
           "stream", "stop?", "stop", "signal"}

VARIABLES
    state,     \* Meta["state"]
    running,   \* the collector's atomic flag
    gens,      \* generations made so far
    doneCh,    \* the collector's done field
    streamCh,  \* the collector's stream field
    done,      \* done[g]: the channel (capacity 1) holds a value
    poll,      \* goroutine of generation g in client.Stats
    doneOf,    \* the done channel that goroutine waits on
    fwd,       \* the forwarding goroutine; "closed" once it closed its stream
    readers,   \* number of goroutines in Read ranging over each stream
    shown,     \* generation whose sample the row shows, Nil when reset
    call,      \* program counter, wanted state and generation of each caller
    calls,     \* calls made so far
    cut        \* history: generations the daemon ended by itself

channelVars == <<gens, doneCh, streamCh, done>>
goroutineVars == <<poll, doneOf, fwd, readers, shown, cut>>
vars == <<state, running, channelVars, goroutineVars, call, calls>>

Idle == [pc |-> "idle", want |-> "", gen |-> Nil]

Init ==
    /\ state = ""
    /\ running = FALSE
    /\ gens = 0
    /\ doneCh = Nil /\ streamCh = Nil
    /\ done = [g \in Gens |-> FALSE]
    /\ poll = [g \in Gens |-> "none"]
    /\ doneOf = [g \in Gens |-> Nil]
    /\ fwd = [g \in Gens |-> "none"]
    /\ readers = [g \in Gens \cup {Nil} |-> 0]
    /\ shown = Nil
    /\ call = [c \in Callers |-> Idle]
    /\ calls = 0
    /\ cut = {}

\* The done channel generation g waits on, or would if it read it now.
Awaited(g) == IF poll[g] = "new" THEN doneCh ELSE doneOf[g]

\* Generation g has been told to stop and has not reacted yet.
Signalled(g) == Awaited(g) # Nil /\ done[Awaited(g)]

Collecting(g) == poll[g] \in {"new", "stats"} /\ ~Signalled(g)

WindingDown(g) == poll[g] = "clear" \/ (poll[g] = "stats" /\ Signalled(g))

-----------------------------------------------------------------------------
(* The callers. *)

Goto(c, pc) == call' = [call EXCEPT ![c].pc = pc]
Return(c) == call' = [call EXCEPT ![c] = Idle]

Begin(c, pc, s) ==
    /\ call[c].pc = "idle"
    /\ calls < MaxCalls
    /\ calls' = calls + 1
    /\ call' = [call EXCEPT ![c] = [pc |-> pc, want |-> s, gen |-> Nil]]
    /\ UNCHANGED <<state, running, channelVars, goroutineVars>>

\* The connector sets the state it was told of.
SetState(c) == \E s \in States \ {""} : Begin(c, "meta", s)

\* The user's operations read the state, then ask the daemon.
Start(c) == state # "running" /\ Begin(c, "manager", "running")
Stop(c) == state = "running" /\ Begin(c, "manager", "exited")
Pause(c) == state = "running" /\ Begin(c, "manager", "paused")
Unpause(c) == state = "paused" /\ Begin(c, "manager", "running")

\* On an error the operation ends there.
ManagerReturns(c) ==
    /\ call[c].pc = "manager"
    /\ Goto(c, "meta") \/ Return(c)
    /\ UNCHANGED <<state, running, channelVars, goroutineVars, calls>>

\* SetMeta("state", s) under the container's lock; the rest of SetState runs
\* without it.
WriteState(c) ==
    /\ call[c].pc = "meta"
    /\ state' = call[c].want
    /\ Goto(c, IF call[c].want = "running" THEN "start?" ELSE "stop?")
    /\ UNCHANGED <<running, channelVars, goroutineVars, calls>>

\* if s == running && !c.collector.Running()
CheckStart(c) ==
    /\ call[c].pc = "start?"
    /\ IF running THEN Return(c) ELSE Goto(c, "start")
    /\ UNCHANGED <<state, running, channelVars, goroutineVars, calls>>

\* CompareAndSwap(false, true).  The loser returns from Start at once, and
\* its caller goes on to Read.
StartSwap(c) ==
    /\ call[c].pc = "start"
    /\ running' = TRUE
    /\ Goto(c, IF running THEN "stream" ELSE "done")
    /\ UNCHANGED <<state, channelVars, goroutineVars, calls>>

\* Mutant of StartDone: the channels of an earlier Start are used again.
StartDoneReuse(c) ==
    /\ call[c].pc = "done"
    /\ gens' = IF doneCh = Nil THEN 1 ELSE gens
    /\ doneCh' = gens'
    /\ call' = [call EXCEPT ![c].pc = "spawn", ![c].gen = gens']
    /\ UNCHANGED <<state, running, streamCh, done, goroutineVars, calls>>

\* c.done = make(chan bool, 1).  The bound never binds: a generation takes a
\* call of its own.
StartDone(c) ==
    /\ call[c].pc = "done"
    /\ gens < MaxCalls
    /\ gens' = gens + 1
    /\ doneCh' = gens + 1
    /\ call' = [call EXCEPT ![c].pc = "spawn", ![c].gen = gens + 1]
    /\ UNCHANGED <<state, running, streamCh, done, goroutineVars, calls>>

\* Mutant of StartSpawn: the new stream is not stored in the field.
StartSpawnHidden(c) ==
    /\ call[c].pc = "spawn"
    /\ poll' = [poll EXCEPT ![call[c].gen] = "new"]
    /\ fwd' = [fwd EXCEPT ![call[c].gen] = "open"]
    /\ Goto(c, "stream")
    /\ UNCHANGED <<state, running, gens, doneCh, streamCh, done, doneOf,
                   readers, shown, calls, cut>>

\* The stream is made and both goroutines are started.
StartSpawn(c) ==
    /\ call[c].pc = "spawn"
    /\ streamCh' = call[c].gen
    /\ poll' = [poll EXCEPT ![call[c].gen] = "new"]
    /\ fwd' = [fwd EXCEPT ![call[c].gen] = "open"]
    /\ Goto(c, "stream")
    /\ UNCHANGED <<state, running, gens, doneCh, done, doneOf, readers, shown,
                   calls, cut>>

\* c.Read(c.collector.Stream()): the field, whatever it holds by now.
ReadStream(c) ==
    /\ call[c].pc = "stream"
    /\ readers' = [readers EXCEPT ![streamCh] = @ + 1]
    /\ Return(c)
    /\ UNCHANGED <<state, running, channelVars, poll, doneOf, fwd, shown,
                   calls, cut>>

\* if s != running && c.collector.Running()
CheckStop(c) ==
    /\ call[c].pc = "stop?"
    /\ IF running THEN Goto(c, "stop") ELSE Return(c)
    /\ UNCHANGED <<state, running, channelVars, goroutineVars, calls>>

\* CompareAndSwap(true, false)
StopSwap(c) ==
    /\ call[c].pc = "stop"
    /\ running' = FALSE
    /\ IF running THEN Goto(c, "signal") ELSE Return(c)
    /\ UNCHANGED <<state, channelVars, goroutineVars, calls>>

\* Mutant of StopSignal: an unbuffered channel and no default case.
StopSignalWaits(c) ==
    /\ call[c].pc = "signal"
    /\ \E g \in Gens : poll[g] = "stats" /\ doneOf[g] = doneCh
    /\ done' = [done EXCEPT ![doneCh] = TRUE]
    /\ Return(c)
    /\ UNCHANGED <<state, running, gens, doneCh, streamCh, goroutineVars,
                   calls>>

\* Mutant of StopSignal: the flag is cleared and nobody is told.
StopSignalNever(c) ==
    /\ call[c].pc = "signal"
    /\ Return(c)
    /\ UNCHANGED <<state, running, channelVars, goroutineVars, calls>>

\* A send with a default case: lost on a full channel and on the nil one.
StopSignal(c) ==
    /\ call[c].pc = "signal"
    /\ done' = IF doneCh = Nil THEN done ELSE [done EXCEPT ![doneCh] = TRUE]
    /\ Return(c)
    /\ UNCHANGED <<state, running, gens, doneCh, streamCh, goroutineVars,
                   calls>>

-----------------------------------------------------------------------------
(* The goroutines of a generation. *)

\* opts.Done is read from the field inside the goroutine.
PollOpen(g) ==
    /\ poll[g] = "new"
    /\ poll' = [poll EXCEPT ![g] = "stats"]
    /\ doneOf' = [doneOf EXCEPT ![g] = doneCh]
    /\ UNCHANGED <<state, running, channelVars, fwd, readers, shown, call,
                   calls, cut>>

\* client.Stats takes the value off its done channel, closes the stats
\* channel and returns.
StatsDone(g) ==
    /\ poll[g] = "stats"
    /\ Signalled(g)
    /\ done' = [done EXCEPT ![doneOf[g]] = FALSE]
    /\ poll' = [poll EXCEPT ![g] = "clear"]
    /\ UNCHANGED <<state, running, gens, doneCh, streamCh, doneOf, fwd,
                   readers, shown, call, calls, cut>>

\* The daemon ends the stream, or the request failed.
StatsEnds(g) ==
    /\ poll[g] = "stats"
    /\ poll' = [poll EXCEPT ![g] = "clear"]
    /\ cut' = cut \cup {g}
    /\ UNCHANGED <<state, running, channelVars, doneOf, fwd, readers, shown,
                   call, calls>>

\* Mutant of PollClear: the flag stays set when client.Stats returned.
PollClearNever(g) ==
    /\ poll[g] = "clear"
    /\ poll' = [poll EXCEPT ![g] = "ended"]
    /\ UNCHANGED <<state, running, channelVars, doneOf, fwd, readers, shown,
                   call, calls, cut>>

\* c.running.Store(false), whoever set the flag last.
PollClear(g) ==
    /\ poll[g] = "clear"
    /\ running' = FALSE
    /\ poll' = [poll EXCEPT ![g] = "ended"]
    /\ UNCHANGED <<state, channelVars, doneOf, fwd, readers, shown, call,
                   calls, cut>>

\* Mutant of FwdClose: it closes the field's stream, not the one it was
\* started with.
FwdCloseField(g) ==
    /\ fwd[g] = "open" /\ poll[g] \in {"clear", "ended"}
    /\ fwd' = [fwd EXCEPT ![streamCh] = "closed"]
    /\ UNCHANGED <<state, running, channelVars, poll, doneOf, readers, shown,
                   call, calls, cut>>

\* The stats channel is closed: close(stream).
FwdClose(g) ==
    /\ fwd[g] = "open" /\ poll[g] \in {"clear", "ended"}
    /\ fwd' = [fwd EXCEPT ![g] = "closed"]
    /\ UNCHANGED <<state, running, channelVars, poll, doneOf, readers, shown,
                   call, calls, cut>>

\* A reader takes a sample, which may have waited in the stream's buffer.
ReaderTakes(g) ==
    /\ readers[g] > 0 /\ poll[g] \notin {"none", "new"}
    /\ shown' = g
    /\ UNCHANGED <<state, running, channelVars, poll, doneOf, fwd, readers,
                   call, calls, cut>>

\* Mutant of ReaderEnds: the row keeps its last sample.
ReaderEndsKeeps(g) ==
    /\ readers[g] > 0 /\ fwd[g] = "closed"
    /\ readers' = [readers EXCEPT ![g] = @ - 1]
    /\ UNCHANGED <<state, running, channelVars, poll, doneOf, fwd, shown,
                   call, calls, cut>>

\* The stream is closed: the metrics and the widgets are reset.
ReaderEnds(g) ==
    /\ readers[g] > 0 /\ fwd[g] = "closed"
    /\ readers' = [readers EXCEPT ![g] = @ - 1]
    /\ shown' = Nil
    /\ UNCHANGED <<state, running, channelVars, poll, doneOf, fwd, call,
                   calls, cut>>

-----------------------------------------------------------------------------
\* The rest of a call once the daemon has answered.
CallStep(c) ==
    \/ WriteState(c) \/ CheckStart(c) \/ StartSwap(c) \/ StartDone(c)
    \/ StartSpawn(c) \/ ReadStream(c) \/ CheckStop(c) \/ StopSwap(c)
    \/ StopSignal(c)

GenStep(g) == PollOpen(g) \/ StatsDone(g) \/ PollClear(g)

Next ==
    \/ \E c \in Callers :
           \/ SetState(c) \/ Start(c) \/ Stop(c) \/ Pause(c) \/ Unpause(c)
           \/ ManagerReturns(c) \/ CallStep(c)
    \/ \E g \in Gens :
           GenStep(g) \/ StatsEnds(g) \/ FwdClose(g) \/ ReaderTakes(g)
           \/ ReaderEnds(g)

Spec == Init /\ [][Next]_vars

\* Goroutines that can run do run; nobody is obliged to make a call, the
\* daemon need not answer one, and need not end a stream by itself.
Fairness ==
    /\ \A c \in Callers : WF_vars(CallStep(c))
    /\ \A g \in Gens :
           /\ WF_vars(GenStep(g))
           /\ WF_vars(FwdClose(g))
           /\ WF_vars(ReaderEnds(g))

FairSpec == Spec /\ Fairness

-----------------------------------------------------------------------------
(* Properties. *)

CallType == [pc : CallAt, want : States, gen : Gens \cup {Nil}]

\* Every variable has its type.
TypeOK ==
    /\ state \in States
    /\ running \in BOOLEAN
    /\ gens \in 0..MaxCalls /\ calls \in 0..MaxCalls
    /\ doneCh \in Gens \cup {Nil} /\ streamCh \in Gens \cup {Nil}
    /\ done \in [Gens -> BOOLEAN]
    /\ poll \in [Gens -> {"none", "new", "stats", "clear", "ended"}]
    /\ doneOf \in [Gens -> Gens \cup {Nil}]
    /\ fwd \in [Gens -> {"none", "open", "closed"}]
    /\ readers \in [Gens \cup {Nil} -> Nat]
    /\ shown \in Gens \cup {Nil}
    /\ call \in [Callers -> CallType]
    /\ cut \subseteq Gens

Spawning(c) == call[c].pc = "spawn"

\* Two calls of Start never end up with the same channels, and none starts
\* its goroutines on channels that have served before, however the compare
\* and swap of one interleaves with the rest of another (docker.go:53-60).
GenerationsApart ==
    /\ \A g \in Gens : g > gens => poll[g] = "none"
    /\ \A c \in Callers :
           Spawning(c) =>
               call[c].gen \in 1..gens /\ poll[call[c].gen] = "none"
    /\ \A c, d \in Callers :
           Spawning(c) /\ Spawning(d) /\ call[c].gen = call[d].gen => c = d

\* The flag of docker.go:54 is never stuck: while it is set, a caller is about
\* to start goroutines or some goroutine has still to clear it.  Otherwise
\* SetState would never start a collector for this container again.
FlagHasOwner ==
    running =>
        \/ \E c \in Callers : call[c].pc \in {"done", "spawn"}
        \/ \E g \in Gens : poll[g] \in {"new", "stats", "clear"}

Quiet == \A c \in Callers : call[c].pc = "idle"

\* SetState returns: neither Start nor Stop can block its caller.
CallsReturn ==
    \A c \in Callers : call[c].pc = "meta" ~> call[c].pc = "idle"

\* When client.Stats of a generation has returned, every reader of its stream
\* ends: the stream is closed by the goroutine that made it.
ReadersRelease == \A g \in Gens : poll[g] = "ended" ~> readers[g] = 0

\* No caller and no reader is blocked for good.
NoneStuck == CallsReturn /\ ReadersRelease

=============================================================================
