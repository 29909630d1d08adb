---------------------- MODULE ContainerLifecycle_proofs ----------------------
(***************************************************************************)
(* Proofs about the container lifecycle, for every set of callers and      *)
(* every bound on their calls.                                             *)
(***************************************************************************)
EXTENDS OrderlyCalls, TLAPS

LEMMA InitType == Init => TypeOK
<1> SUFFICES ASSUME Init PROVE TypeOK
  OBVIOUS
<1>1. /\ state \in States /\ running \in BOOLEAN
      /\ doneCh \in Gens \cup {Nil} /\ streamCh \in Gens \cup {Nil}
      /\ shown \in Gens \cup {Nil} /\ cut \subseteq Gens
  BY DEF Init, States
<1>2. gens \in 0..MaxCalls /\ calls \in 0..MaxCalls
  <2>1. gens = 0 /\ calls = 0
    BY DEF Init
  <2> QED BY <2>1, MaxCallsAssumption
<1>3. /\ done \in [Gens -> BOOLEAN]
      /\ poll \in [Gens -> {"none", "new", "stats", "clear", "ended"}]
      /\ doneOf \in [Gens -> Gens \cup {Nil}]
      /\ fwd \in [Gens -> {"none", "open", "closed"}]
      /\ readers \in [Gens \cup {Nil} -> Nat]
  BY DEF Init
<1>4. Idle \in CallType
  BY DEF Idle, CallType, CallAt, States
<1>5. call \in [Callers -> CallType]
  BY <1>4 DEF Init
<1> QED BY <1>1, <1>2, <1>3, <1>5 DEF TypeOK

\* A caller's program counter moves between the points of CallAt.
LEMMA GotoType ==
    ASSUME call \in [Callers -> CallType], NEW c \in Callers, NEW pc \in CallAt,
           Goto(c, pc)
    PROVE  call' \in [Callers -> CallType]
BY DEF Goto, CallType

LEMMA ReturnType ==
    ASSUME call \in [Callers -> CallType], NEW c \in Callers, Return(c)
    PROVE  call' \in [Callers -> CallType]
BY DEF Return, Idle, CallType, CallAt, States

LEMMA BeginType ==
    ASSUME TypeOK, NEW c \in Callers, NEW pc \in {"meta", "manager"},
           NEW s \in States, Begin(c, pc, s)
    PROVE  TypeOK'
<1>1. [pc |-> pc, want |-> s, gen |-> Nil] \in CallType
  BY DEF CallType, CallAt
<1>2. call' \in [Callers -> CallType]
  BY <1>1 DEF Begin, TypeOK
<1>3. calls' \in 0..MaxCalls
  BY MaxCallsAssumption DEF Begin, TypeOK
<1> QED BY <1>2, <1>3 DEF Begin, TypeOK, channelVars, goroutineVars

LEMMA CallType_ ==
    ASSUME TypeOK, NEW c \in Callers, ManagerReturns(c) \/ CallStep(c)
    PROVE  TypeOK'
<1>1. call[c] \in CallType
  BY DEF TypeOK
<1>2. CASE ManagerReturns(c)
  <2>1. call' \in [Callers -> CallType]
    BY <1>2, GotoType, ReturnType DEF ManagerReturns, TypeOK, CallAt
  <2> QED BY <1>2, <2>1 DEF ManagerReturns, TypeOK, channelVars, goroutineVars
<1>3. CASE WriteState(c)
  <2>1. call' \in [Callers -> CallType]
    BY <1>3, GotoType DEF WriteState, TypeOK, CallAt
  <2>2. state' \in States
    BY <1>1, <1>3 DEF WriteState, CallType
  <2> QED BY <1>3, <2>1, <2>2 DEF WriteState, TypeOK, channelVars, goroutineVars
<1>4. CASE CheckStart(c)
  <2>1. call' \in [Callers -> CallType]
    BY <1>4, GotoType, ReturnType DEF CheckStart, TypeOK, CallAt
  <2> QED BY <1>4, <2>1 DEF CheckStart, TypeOK, channelVars, goroutineVars
<1>5. CASE StartSwap(c)
  <2>1. call' \in [Callers -> CallType]
    BY <1>5, GotoType DEF StartSwap, TypeOK, CallAt
  <2> QED BY <1>5, <2>1 DEF StartSwap, TypeOK, channelVars, goroutineVars
<1>6. CASE StartDone(c)
  <2>1. gens + 1 \in Gens /\ gens + 1 \in 0..MaxCalls
    BY <1>6, MaxCallsAssumption DEF StartDone, TypeOK, Gens
  <2>2. [call[c] EXCEPT !.pc = "spawn", !.gen = gens + 1] \in CallType
    BY <1>1, <2>1 DEF CallType, CallAt
  <2>3. call' = [call EXCEPT ![c] =
                     [call[c] EXCEPT !.pc = "spawn", !.gen = gens + 1]]
    BY <1>6 DEF StartDone, TypeOK
  <2>4. call' \in [Callers -> CallType]
    BY <2>2, <2>3 DEF TypeOK
  <2> QED BY <1>6, <2>1, <2>4 DEF StartDone, TypeOK, goroutineVars
<1>7. CASE StartSpawn(c)
  <2>1. call' \in [Callers -> CallType]
    BY <1>7, GotoType DEF StartSpawn, TypeOK, CallAt
  <2>2. /\ streamCh' \in Gens \cup {Nil}
        /\ poll' \in [Gens -> {"none", "new", "stats", "clear", "ended"}]
        /\ fwd' \in [Gens -> {"none", "open", "closed"}]
    BY <1>1, <1>7 DEF StartSpawn, TypeOK, CallType
  <2> QED BY <1>7, <2>1, <2>2 DEF StartSpawn, TypeOK
<1>8. CASE ReadStream(c)
  <2>1. call' \in [Callers -> CallType]
    BY <1>8, ReturnType DEF ReadStream, TypeOK
  <2>2. readers' \in [Gens \cup {Nil} -> Nat]
    BY <1>8 DEF ReadStream, TypeOK
  <2> QED BY <1>8, <2>1, <2>2 DEF ReadStream, TypeOK, channelVars
<1>9. CASE CheckStop(c)
  <2>1. call' \in [Callers -> CallType]
    BY <1>9, GotoType, ReturnType DEF CheckStop, TypeOK, CallAt
  <2> QED BY <1>9, <2>1 DEF CheckStop, TypeOK, channelVars, goroutineVars
<1>10. CASE StopSwap(c)
  <2>1. call' \in [Callers -> CallType]
    BY <1>10, GotoType, ReturnType DEF StopSwap, TypeOK, CallAt
  <2> QED BY <1>10, <2>1 DEF StopSwap, TypeOK, channelVars, goroutineVars
<1>11. CASE StopSignal(c)
  <2>1. call' \in [Callers -> CallType]
    BY <1>11, ReturnType DEF StopSignal, TypeOK
  <2>2. done' \in [Gens -> BOOLEAN]
    BY <1>11 DEF StopSignal, TypeOK
  <2> QED BY <1>11, <2>1, <2>2 DEF StopSignal, TypeOK, goroutineVars
<1> QED BY <1>2, <1>3, <1>4, <1>5, <1>6, <1>7, <1>8, <1>9, <1>10, <1>11
        DEF CallStep

LEMMA GenType ==
    ASSUME TypeOK, NEW g \in Gens,
           GenStep(g) \/ StatsEnds(g) \/ FwdClose(g) \/ ReaderTakes(g)
               \/ ReaderEnds(g)
    PROVE  TypeOK'
<1>1. CASE PollOpen(g)
  BY <1>1 DEF PollOpen, TypeOK, channelVars
<1>2. CASE StatsDone(g)
  BY <1>2 DEF StatsDone, TypeOK
<1>3. CASE PollClear(g)
  BY <1>3 DEF PollClear, TypeOK, channelVars
<1>4. CASE StatsEnds(g)
  BY <1>4 DEF StatsEnds, TypeOK, channelVars
<1>5. CASE FwdClose(g)
  BY <1>5 DEF FwdClose, TypeOK, channelVars
<1>6. CASE ReaderTakes(g)
  BY <1>6 DEF ReaderTakes, TypeOK, channelVars
<1>7. CASE ReaderEnds(g)
  <2>1. readers[g] \in Nat /\ readers[g] - 1 \in Nat
    BY <1>7 DEF ReaderEnds, TypeOK
  <2>2. readers' \in [Gens \cup {Nil} -> Nat]
    BY <1>7, <2>1 DEF ReaderEnds, TypeOK
  <2> QED BY <1>7, <2>2 DEF ReaderEnds, TypeOK, channelVars
<1> QED BY <1>1, <1>2, <1>3, <1>4, <1>5, <1>6, <1>7 DEF GenStep

LEMMA TypeStep == TypeOK /\ [Next]_vars => TypeOK'
<1> SUFFICES ASSUME TypeOK, [Next]_vars PROVE TypeOK'
  OBVIOUS
<1>1. ASSUME NEW c \in Callers,
             SetState(c) \/ Start(c) \/ Stop(c) \/ Pause(c) \/ Unpause(c)
      PROVE  TypeOK'
  BY <1>1, BeginType DEF SetState, Start, Stop, Pause, Unpause, States
<1>2. CASE UNCHANGED vars
  BY <1>2 DEF vars, channelVars, goroutineVars, TypeOK
<1> QED BY <1>1, <1>2, CallType_, GenType DEF Next

\* The variables keep their types: no reader count goes below zero and no
\* goroutine waits on a channel that was never made.
THEOREM TypeCorrect == Spec => []TypeOK
BY InitType, TypeStep, PTL DEF Spec

-----------------------------------------------------------------------------
(* Generations. *)

LEMMA InitApart == Init => GenerationsApart
<1> SUFFICES ASSUME Init PROVE GenerationsApart
  OBVIOUS
<1>1. \A c \in Callers : ~Spawning(c)
  BY DEF Init, Idle, Spawning
<1>2. \A g \in Gens : poll[g] = "none"
  BY DEF Init
<1> QED BY <1>1, <1>2 DEF GenerationsApart

\* A step that spawns nothing, makes nothing and moves nobody to "spawn"
\* keeps generations apart.
LEMMA ApartFrame ==
    ASSUME TypeOK, GenerationsApart,
           gens' = gens,
           \A g \in Gens : poll[g] = "none" => poll'[g] = "none",
           \A c \in Callers : Spawning(c)' => call'[c] = call[c]
    PROVE  GenerationsApart'
<1>1. \A c \in Callers : Spawning(c)' => Spawning(c) /\ call'[c] = call[c]
  BY DEF Spawning
<1>2. \A c \in Callers : Spawning(c) => call[c].gen \in Gens
  BY MaxCallsAssumption DEF TypeOK, GenerationsApart, Gens
<1>3. \A c \in Callers :
          Spawning(c)' => /\ call'[c].gen \in 1..gens'
                          /\ poll'[call'[c].gen] = "none"
  BY <1>1, <1>2 DEF GenerationsApart
<1>4. \A c, d \in Callers :
          Spawning(c)' /\ Spawning(d)' /\ call'[c].gen = call'[d].gen => c = d
  BY <1>1 DEF GenerationsApart
<1> QED BY <1>3, <1>4 DEF GenerationsApart

LEMMA ApartStep == TypeOK /\ GenerationsApart /\ [Next]_vars => GenerationsApart'
<1> SUFFICES ASSUME TypeOK, GenerationsApart, [Next]_vars
             PROVE  GenerationsApart'
  OBVIOUS
<1>1. ASSUME NEW c \in Callers, StartDone(c) PROVE GenerationsApart'
  <2>1. /\ call'[c].pc = "spawn" /\ call'[c].gen = gens + 1
        /\ \A d \in Callers \ {c} : call'[d] = call[d]
        /\ gens' = gens + 1 /\ poll' = poll
    BY <1>1 DEF StartDone, TypeOK, CallType, goroutineVars
  <2>2. gens \in Nat /\ gens + 1 \in Gens
    BY <1>1, MaxCallsAssumption DEF StartDone, TypeOK, Gens
  <2>3. \A g \in Gens : g > gens' => poll'[g] = "none"
    BY <2>1, <2>2 DEF GenerationsApart, Gens
  <2>4. \A d \in Callers \ {c} :
            Spawning(d)' => Spawning(d) /\ call'[d].gen = call[d].gen
    BY <2>1 DEF Spawning
  <2>5. \A d \in Callers \ {c} :
            Spawning(d)' => call'[d].gen \in 1..gens /\ poll'[call'[d].gen] = "none"
    BY <2>1, <2>4 DEF GenerationsApart
  <2>6. poll'[gens + 1] = "none"
    BY <2>1, <2>2 DEF GenerationsApart
  <2>7. \A d \in Callers :
            Spawning(d)' => call'[d].gen \in 1..gens' /\ poll'[call'[d].gen] = "none"
    BY <2>1, <2>2, <2>5, <2>6
  <2>8. \A d, e \in Callers :
            Spawning(d)' /\ Spawning(e)' /\ call'[d].gen = call'[e].gen => d = e
    BY <2>1, <2>2, <2>4, <2>5 DEF GenerationsApart
  <2> QED BY <2>3, <2>7, <2>8 DEF GenerationsApart, Gens
<1>2. ASSUME NEW c \in Callers, StartSpawn(c) PROVE GenerationsApart'
  <2>1. /\ call'[c].pc = "stream"
        /\ \A d \in Callers \ {c} : call'[d] = call[d]
        /\ gens' = gens
        /\ poll' = [poll EXCEPT ![call[c].gen] = "new"]
    BY <1>2 DEF StartSpawn, Goto, TypeOK, CallType
  <2>2. Spawning(c) /\ call[c].gen \in 1..gens
    BY <1>2 DEF StartSpawn, GenerationsApart, Spawning
  <2>3. \A d \in Callers :
            Spawning(d)' => d # c /\ Spawning(d) /\ call'[d] = call[d]
    BY <2>1 DEF Spawning
  <2>4. \A d \in Callers : Spawning(d)' => call[d].gen # call[c].gen
    BY <2>2, <2>3 DEF GenerationsApart
  <2>5. gens \in Nat
    BY DEF TypeOK
  <2>6. \A g \in Gens : g # call[c].gen => poll'[g] = poll[g]
    BY <2>1 DEF TypeOK
  <2>7. \A g \in Gens : g > gens' => poll'[g] = "none"
    BY <2>1, <2>2, <2>5, <2>6 DEF GenerationsApart, Gens
  <2>8. \A d \in Callers :
            Spawning(d)' => call'[d].gen \in 1..gens' /\ poll'[call'[d].gen] = "none"
    <3> TAKE d \in Callers
    <3> HAVE Spawning(d)'
    <3>1. call'[d].gen = call[d].gen /\ call[d].gen \in 1..gens
          /\ poll[call[d].gen] = "none"
      BY <2>3 DEF GenerationsApart
    <3>2. call[d].gen \in Gens
      BY <3>1, MaxCallsAssumption DEF TypeOK, Gens
    <3> QED BY <2>1, <2>4, <2>6, <3>1, <3>2
  <2> QED BY <2>3, <2>7, <2>8 DEF GenerationsApart
<1>3. ASSUME NEW c \in Callers,
             \/ SetState(c) \/ Start(c) \/ Stop(c) \/ Pause(c) \/ Unpause(c)
             \/ ManagerReturns(c) \/ WriteState(c) \/ CheckStart(c)
             \/ StartSwap(c) \/ ReadStream(c) \/ CheckStop(c) \/ StopSwap(c)
             \/ StopSignal(c)
      PROVE  GenerationsApart'
  <2>1. gens' = gens /\ poll' = poll
    BY <1>3 DEF SetState, Start, Stop, Pause, Unpause, Begin, ManagerReturns,
       WriteState, CheckStart, StartSwap, ReadStream, CheckStop, StopSwap,
       StopSignal, channelVars, goroutineVars
  <2>2. call'[c].pc # "spawn" /\ \A d \in Callers \ {c} : call'[d] = call[d]
    <3>1. ASSUME NEW pc \in CallAt \ {"spawn"}, Goto(c, pc)
          PROVE  /\ call'[c].pc # "spawn"
                 /\ \A d \in Callers \ {c} : call'[d] = call[d]
      BY <3>1 DEF Goto, TypeOK, CallType
    <3>2. ASSUME Return(c)
          PROVE  /\ call'[c].pc # "spawn"
                 /\ \A d \in Callers \ {c} : call'[d] = call[d]
      BY <3>2 DEF Return, Idle, TypeOK
    <3>3. ASSUME NEW pc \in {"meta", "manager"}, NEW s, Begin(c, pc, s)
          PROVE  /\ call'[c].pc # "spawn"
                 /\ \A d \in Callers \ {c} : call'[d] = call[d]
      BY <3>3 DEF Begin, TypeOK
    <3>4. CASE SetState(c) \/ Start(c) \/ Stop(c) \/ Pause(c) \/ Unpause(c)
      BY <3>3, <3>4 DEF SetState, Start, Stop, Pause, Unpause
    <3>5. CASE ManagerReturns(c) \/ WriteState(c) \/ CheckStart(c)
      BY <3>1, <3>2, <3>5 DEF ManagerReturns, WriteState, CheckStart, CallAt
    <3>6. CASE \/ StartSwap(c) \/ ReadStream(c) \/ CheckStop(c) \/ StopSwap(c)
               \/ StopSignal(c)
      BY <3>1, <3>2, <3>6 DEF StartSwap, ReadStream, CheckStop, StopSwap,
         StopSignal, CallAt
    <3> QED BY <1>3, <3>4, <3>5, <3>6
  <2>3. \A d \in Callers : Spawning(d)' => call'[d] = call[d]
    BY <2>2 DEF Spawning
  <2> QED BY <2>1, <2>3, ApartFrame
<1>4. ASSUME NEW g \in Gens,
             GenStep(g) \/ StatsEnds(g) \/ FwdClose(g) \/ ReaderTakes(g)
                 \/ ReaderEnds(g)
      PROVE  GenerationsApart'
  <2>1. gens' = gens /\ call' = call
    BY <1>4 DEF GenStep, PollOpen, StatsDone, PollClear, StatsEnds, FwdClose,
       ReaderTakes, ReaderEnds, channelVars
  <2>2. \A h \in Gens : poll[h] = "none" => poll'[h] = "none"
    BY <1>4 DEF GenStep, PollOpen, StatsDone, PollClear, StatsEnds, FwdClose,
       ReaderTakes, ReaderEnds, TypeOK
  <2> QED BY <2>1, <2>2, ApartFrame
<1>5. CASE UNCHANGED vars
  BY <1>5, ApartFrame DEF vars, channelVars, goroutineVars
<1> QED BY <1>1, <1>2, <1>3, <1>4, <1>5 DEF Next, CallStep

\* Two calls of Start never share channels and none reuses old ones, for any
\* number of concurrent callers.
THEOREM GenerationsStayApart == Spec => []GenerationsApart
BY InitType, InitApart, TypeStep, ApartStep, PTL DEF Spec

-----------------------------------------------------------------------------
(* The running flag. *)

LEMMA InitFlag == Init => FlagHasOwner
BY DEF Init, FlagHasOwner

\* The only steps that take an owner away hand the flag to another one, or
\* clear it.
LEMMA FlagStep ==
    TypeOK /\ GenerationsApart /\ FlagHasOwner /\ [Next]_vars => FlagHasOwner'
<1> DEFINE Owner(c) == call[c].pc \in {"done", "spawn"}
<1> DEFINE Polling(g) == poll[g] \in {"new", "stats", "clear"}
<1> SUFFICES ASSUME TypeOK, GenerationsApart, FlagHasOwner, [Next]_vars,
                    running'
             PROVE  (\E c \in Callers : Owner(c)') \/ (\E g \in Gens : Polling(g)')
  BY DEF FlagHasOwner
<1>1. CASE \E c \in Callers : StartSwap(c) /\ ~running
  <2>1. PICK c \in Callers : StartSwap(c) /\ ~running
    BY <1>1
  <2>2. call'[c].pc = "done"
    BY <2>1 DEF StartSwap, Goto, TypeOK, CallType
  <2> QED BY <2>2
<1>2. CASE \E c \in Callers : StartSpawn(c)
  <2>1. PICK c \in Callers : StartSpawn(c)
    BY <1>2
  <2>2. call[c].gen \in Gens
    BY <2>1, MaxCallsAssumption
       DEF StartSpawn, Spawning, GenerationsApart, Gens, TypeOK
  <2>3. poll'[call[c].gen] = "new"
    BY <2>1, <2>2 DEF StartSpawn, TypeOK
  <2> QED BY <2>2, <2>3
<1>3. CASE \E c \in Callers : StartDone(c)
  <2>1. PICK c \in Callers : StartDone(c)
    BY <1>3
  <2>2. call'[c].pc = "spawn"
    BY <2>1 DEF StartDone, TypeOK, CallType
  <2> QED BY <2>2
<1>4. ASSUME NEW c \in Callers,
             \/ SetState(c) \/ Start(c) \/ Stop(c) \/ Pause(c) \/ Unpause(c)
             \/ ManagerReturns(c) \/ WriteState(c) \/ CheckStart(c)
             \/ (StartSwap(c) /\ running) \/ ReadStream(c) \/ CheckStop(c)
             \/ StopSwap(c) \/ StopSignal(c)
      PROVE  (\E d \in Callers : Owner(d)') \/ (\E g \in Gens : Polling(g)')
  <2>1. running /\ poll' = poll
    BY <1>4 DEF SetState, Start, Stop, Pause, Unpause, Begin, ManagerReturns,
       WriteState, CheckStart, StartSwap, ReadStream, CheckStop, StopSwap,
       StopSignal, channelVars, goroutineVars
  <2>2. ~Owner(c) /\ \A d \in Callers \ {c} : call'[d] = call[d]
    BY <1>4 DEF SetState, Start, Stop, Pause, Unpause, Begin, ManagerReturns,
       WriteState, CheckStart, StartSwap, ReadStream, CheckStop, StopSwap,
       StopSignal, Goto, Return, TypeOK
  <2> QED BY <2>1, <2>2 DEF FlagHasOwner
<1>5. ASSUME NEW g \in Gens,
             \/ PollOpen(g) \/ StatsDone(g) \/ StatsEnds(g) \/ FwdClose(g)
             \/ ReaderTakes(g) \/ ReaderEnds(g)
      PROVE  (\E c \in Callers : Owner(c)') \/ (\E h \in Gens : Polling(h)')
  <2>1. running /\ call' = call
    BY <1>5 DEF PollOpen, StatsDone, StatsEnds, FwdClose, ReaderTakes,
       ReaderEnds, channelVars
  <2>2. \A h \in Gens : Polling(h) => Polling(h)'
    BY <1>5 DEF PollOpen, StatsDone, StatsEnds, FwdClose, ReaderTakes,
       ReaderEnds, TypeOK
  <2> QED BY <2>1, <2>2 DEF FlagHasOwner
<1>6. ASSUME NEW g \in Gens, PollClear(g) PROVE FALSE
  BY <1>6 DEF PollClear
<1>7. CASE UNCHANGED vars
  BY <1>7 DEF vars, goroutineVars, FlagHasOwner
<1> QED BY <1>1, <1>2, <1>3, <1>4, <1>5, <1>6, <1>7 DEF Next, CallStep, GenStep

\* The collector's flag is never set with nobody left to clear it, for any
\* number of concurrent callers.
THEOREM FlagNeverStuck == Spec => []FlagHasOwner
BY InitType, InitApart, InitFlag, TypeStep, ApartStep, FlagStep, PTL DEF Spec

-----------------------------------------------------------------------------
(* Orderly calls. *)

\* What holds of the channels however the calls overlap.
Channels ==
    /\ doneCh = gens
    /\ \A g \in Gens : g > gens => ~done[g]
    /\ \A g \in Gens : fwd[g] = "closed" => poll[g] \in {"clear", "ended"}

Live == {"new", "stats", "clear"}
Newest == IF gens = Nil THEN "none" ELSE poll[gens]
Told == gens # Nil /\ done[gens]

\* While calls are orderly and the one that is under way, if any, is at pc:
\* only the newest generation lives; the flag is set just when it does, but for
\* a collector that is being started or stopped; it has a reader unless one is
\* about to be made; and it agrees with the state unless the call is about to
\* see to that.
Orderly(pc) ==
    /\ \A g \in Gens : poll[g] \in Live => g = gens
    /\ Newest \in {"stats", "clear"} => doneOf[gens] = gens
    /\ pc # "spawn" => streamCh = gens
    /\ running /\ pc \notin {"done", "spawn"} =>
           /\ Newest \in Live /\ ~Told
           /\ Newest = "clear" => gens \in cut
    /\ ~running /\ Newest \in Live =>
           \/ pc = "signal" /\ Newest # "new"
           \/ /\ pc = "idle" /\ state # "running"
              /\ Newest = "clear" \/ (Newest = "stats" /\ Told)
    /\ Newest \in {"new", "stats"} /\ ~Told /\ pc # "stream" => readers[gens] > 0
    /\ Newest = "new" => pc \in {"idle", "stream"}
    /\ pc \in {"idle", "manager", "meta", "stream"} /\ state = "running" =>
           gens \in cut \/ (running /\ Newest \in {"new", "stats"})
    /\ pc \in {"idle", "manager", "meta"} /\ state # "running" /\ running =>
           Newest = "clear"
    /\ pc \in {"start?", "start", "done", "spawn", "stream"} => state = "running"
    /\ pc \in {"stop?", "stop", "signal"} => state # "running"
    /\ pc \in {"start", "signal"} => ~running
    /\ pc \in {"done", "spawn"} => running /\ Newest \notin Live
    /\ pc = "spawn" => gens \in Gens /\ Newest = "none" /\ ~Told

\* Caller c is the only one with a call under way, and is at pc.
Alone(c, pc) ==
    /\ call[c].pc = pc /\ (pc = "spawn" => call[c].gen = gens)
    /\ \A d \in Callers \ {c} : call[d].pc = "idle"

OneByOne ==
    \/ Quiet /\ Orderly("idle")
    \/ \E c \in Callers, pc \in CallAt \ {"idle"} : Alone(c, pc) /\ Orderly(pc)

OrderlyInv == Channels /\ (orderly => OneByOne)

LEMMA GensType ==
    ASSUME TypeOK
    PROVE  /\ gens \in Nat /\ (gens # Nil => gens \in Gens)
           /\ \A g \in Gens : g \in Nat /\ g # Nil
BY MaxCallsAssumption DEF TypeOK, Gens, Nil

LEMMA ChannelsStep ==
    TypeOK /\ GenerationsApart /\ Channels /\ [Next]_vars => Channels'
<1> SUFFICES ASSUME TypeOK, GenerationsApart, Channels, [Next]_vars
             PROVE  Channels'
  OBVIOUS
<1>0. /\ gens \in Nat /\ (gens # Nil => gens \in Gens)
      /\ \A g \in Gens : g \in Nat /\ g # Nil
      /\ done \in [Gens -> BOOLEAN]
      /\ poll \in [Gens -> {"none", "new", "stats", "clear", "ended"}]
      /\ fwd \in [Gens -> {"none", "open", "closed"}]
  BY GensType DEF TypeOK
<1>1. ASSUME UNCHANGED <<gens, doneCh, done, poll, fwd>> PROVE Channels'
  BY <1>1 DEF Channels
<1>2. ASSUME NEW c \in Callers, StartDone(c) PROVE Channels'
  BY <1>0, <1>2 DEF StartDone, goroutineVars, Channels
<1>3. ASSUME NEW c \in Callers, StartSpawn(c) PROVE Channels'
  <2>1. call[c].gen \in Gens
    BY <1>0, <1>3, MaxCallsAssumption
       DEF StartSpawn, Spawning, GenerationsApart, Gens, TypeOK
  <2> QED BY <1>0, <1>3, <2>1 DEF StartSpawn, Channels
<1>4. ASSUME NEW c \in Callers, StopSignal(c) PROVE Channels'
  BY <1>0, <1>4 DEF StopSignal, goroutineVars, Channels
<1>5. ASSUME NEW g \in Gens,
             PollOpen(g) \/ StatsDone(g) \/ PollClear(g) \/ StatsEnds(g)
                 \/ FwdClose(g)
      PROVE  Channels'
  <2>1. UNCHANGED <<gens, doneCh>> /\ \A h \in Gens : done'[h] => done[h]
    BY <1>0, <1>5 DEF PollOpen, StatsDone, PollClear, StatsEnds, FwdClose, channelVars
  <2>2. \A h \in Gens : poll[h] \in {"clear", "ended"} => poll'[h] \in {"clear", "ended"}
    BY <1>0, <1>5 DEF PollOpen, StatsDone, PollClear, StatsEnds, FwdClose
  <2>3. \A h \in Gens : fwd'[h] = "closed" =>
            fwd[h] = "closed" \/ (poll' = poll /\ poll[h] \in {"clear", "ended"})
    BY <1>0, <1>5 DEF PollOpen, StatsDone, PollClear, StatsEnds, FwdClose
  <2> QED BY <2>1, <2>2, <2>3 DEF Channels
<1> QED
  BY <1>1, <1>2, <1>3, <1>4, <1>5
  DEF Next, CallStep, GenStep, vars, channelVars, goroutineVars, SetState, Start,
      Stop, Pause, Unpause, Begin, ManagerReturns, WriteState, CheckStart,
      StartSwap, ReadStream, CheckStop, StopSwap, ReaderTakes, ReaderEnds

\* The goroutines of the newest generation keep their promises to a call that is
\* at pc.
LEMMA OrderlyGen ==
    ASSUME TypeOK, Channels, NEW pc \in CallAt, Orderly(pc), NEW g \in Gens,
           GenStep(g) \/ StatsEnds(g) \/ FwdClose(g) \/ ReaderTakes(g)
               \/ ReaderEnds(g)
    PROVE  Orderly(pc)'
<1>0. /\ gens \in Nat /\ (gens # Nil => gens \in Gens) /\ g # Nil
      /\ done \in [Gens -> BOOLEAN] /\ doneOf \in [Gens -> Gens \cup {Nil}]
      /\ poll \in [Gens -> {"none", "new", "stats", "clear", "ended"}]
      /\ readers \in [Gens \cup {Nil} -> Nat] /\ doneCh = gens
      /\ running \in BOOLEAN
  BY GensType DEF TypeOK, Channels
<1>1. CASE PollOpen(g)
  <2>1. g = gens /\ Newest = "new"
    BY <1>0, <1>1 DEF PollOpen, Orderly, Live, Newest
  <2>2. /\ UNCHANGED <<state, running, gens, streamCh, done, readers, cut>>
        /\ Newest' = "stats" /\ doneOf'[gens] = gens
        /\ \A h \in Gens : h # g => poll'[h] = poll[h]
    BY <1>0, <1>1, <2>1 DEF PollOpen, Newest, channelVars
  <2>3. Told' = Told
    BY <2>2 DEF Told
  <2> QED BY <1>0, <2>1, <2>2, <2>3 DEF Orderly, Live
<1>2. CASE StatsDone(g)
  <2>1. g = gens /\ Newest = "stats" /\ doneOf[gens] = gens /\ Told
    BY <1>0, <1>2 DEF StatsDone, Orderly, Live, Newest, Signalled, Awaited, Told
  <2>2. /\ UNCHANGED <<state, running, gens, streamCh, doneOf, readers, cut>>
        /\ Newest' = "clear" /\ ~Told'
        /\ \A h \in Gens : h # g => poll'[h] = poll[h]
    BY <1>0, <1>2, <2>1 DEF StatsDone, Newest, Told
  <2> QED BY <1>0, <2>1, <2>2 DEF Orderly, Live
<1>3. CASE PollClear(g)
  <2>1. g = gens /\ Newest = "clear"
    BY <1>0, <1>3 DEF PollClear, Orderly, Live, Newest
  <2>2. /\ UNCHANGED <<state, gens, streamCh, done, doneOf, readers, cut>>
        /\ Newest' = "ended" /\ running' = FALSE
        /\ \A h \in Gens : h # g => poll'[h] = poll[h]
    BY <1>0, <1>3, <2>1 DEF PollClear, Newest, channelVars
  <2> QED BY <1>0, <2>1, <2>2 DEF Orderly, Live
<1>4. CASE StatsEnds(g)
  <2>1. g = gens /\ Newest = "stats"
    BY <1>0, <1>4 DEF StatsEnds, Orderly, Live, Newest
  <2>2. /\ UNCHANGED <<state, running, gens, streamCh, done, doneOf, readers>>
        /\ Newest' = "clear" /\ gens \in cut'
        /\ \A h \in Gens : h # g => poll'[h] = poll[h]
    BY <1>0, <1>4, <2>1 DEF StatsEnds, Newest, channelVars
  <2>3. Told' = Told
    BY <2>2 DEF Told
  <2> QED BY <1>0, <2>1, <2>2, <2>3 DEF Orderly, Live
<1>5. CASE FwdClose(g) \/ ReaderTakes(g)
  BY <1>5 DEF FwdClose, ReaderTakes, channelVars, Orderly, Newest, Told
<1>6. CASE ReaderEnds(g)
  <2>1. /\ UNCHANGED <<state, running, gens, streamCh, done, doneOf, poll, cut>>
        /\ \A h \in Gens : h # g => readers'[h] = readers[h]
    BY <1>0, <1>6 DEF ReaderEnds, channelVars
  <2>2. Newest' = Newest /\ Told' = Told
    BY <2>1 DEF Newest, Told
  <2>3. g = gens => Newest \in {"clear", "ended"}
    BY <1>0, <1>6 DEF ReaderEnds, Channels, Newest
  <2>4. Newest \in {"new", "stats"} => readers'[gens] = readers[gens]
    BY <1>0, <2>1, <2>3 DEF Newest
  <2> QED BY <2>1, <2>2, <2>4 DEF Orderly
<1> QED BY <1>1, <1>2, <1>3, <1>4, <1>5, <1>6 DEF GenStep

\* The only caller goes on, or is done.
LEMMA AloneGoes ==
    ASSUME TypeOK, NEW c \in Callers, \A d \in Callers \ {c} : call[d].pc = "idle"
    PROVE  /\ \A q \in CallAt \ {"spawn"} : Goto(c, q) => Alone(c, q)'
           /\ Return(c) => Quiet'
<1>0. call \in [Callers -> CallType]
  BY DEF TypeOK
<1>1. ASSUME NEW q \in CallAt \ {"spawn"}, Goto(c, q) PROVE Alone(c, q)'
  <2>1. call'[c].pc = q /\ \A d \in Callers \ {c} : call'[d] = call[d]
    BY <1>0, <1>1 DEF Goto, CallType
  <2> QED BY <2>1 DEF Alone
<1>2. ASSUME Return(c) PROVE Quiet'
  BY <1>0, <1>2 DEF Return, Idle, Quiet
<1> QED BY <1>1, <1>2

\* What a caller's step does to what Orderly speaks of, when it touches neither
\* channels nor goroutines.
LEMMA SameNewest ==
    ASSUME UNCHANGED <<channelVars, goroutineVars>>
    PROVE  /\ UNCHANGED <<gens, doneCh, streamCh, done, poll, doneOf, fwd, readers, cut>>
           /\ Newest' = Newest /\ Told' = Told
BY DEF channelVars, goroutineVars, Newest, Told

LEMMA OrderlyCall ==
    ASSUME TypeOK, GenerationsApart, Channels, NEW c \in Callers, NEW pc \in CallAt \ {"idle"},
           Alone(c, pc), Orderly(pc), ManagerReturns(c) \/ CallStep(c)
    PROVE  OneByOne'
<1>0. /\ gens \in Nat /\ (gens # Nil => gens \in Gens) /\ doneCh = gens
      /\ \A g \in Gens : g \in Nat /\ g # Nil
      /\ done \in [Gens -> BOOLEAN] /\ doneOf \in [Gens -> Gens \cup {Nil}]
      /\ poll \in [Gens -> {"none", "new", "stats", "clear", "ended"}]
      /\ readers \in [Gens \cup {Nil} -> Nat]
      /\ call \in [Callers -> CallType] /\ running \in BOOLEAN
  BY GensType DEF TypeOK, Channels
<1>a. call[c].pc = pc /\ \A d \in Callers \ {c} : call[d].pc = "idle"
  BY DEF Alone
<1>g. ASSUME NEW q \in CallAt \ {"idle", "spawn"}, Goto(c, q), Orderly(q)'
      PROVE  OneByOne'
  BY <1>a, <1>g, AloneGoes DEF OneByOne
<1>r. ASSUME Return(c), Orderly("idle")' PROVE OneByOne'
  BY <1>a, <1>r, AloneGoes DEF OneByOne
<1>1. CASE ManagerReturns(c)
  <2>1. pc = "manager" /\ (Goto(c, "meta") \/ Return(c)) /\ UNCHANGED <<state, running>>
    BY <1>1, <1>a DEF ManagerReturns
  <2>2. UNCHANGED <<channelVars, goroutineVars>>
    BY <1>1 DEF ManagerReturns
  <2>3. Orderly("meta")' /\ Orderly("idle")'
    BY <1>0, <2>1, <2>2, SameNewest DEF Orderly, Live
  <2> QED BY <1>g, <1>r, <2>1, <2>3 DEF CallAt
<1>2. CASE WriteState(c)
  <2> DEFINE q == IF call[c].want = "running" THEN "start?" ELSE "stop?"
  <2>1. /\ pc = "meta" /\ Goto(c, q) /\ state' = call[c].want /\ running' = running
        /\ UNCHANGED <<channelVars, goroutineVars>>
    BY <1>2, <1>a DEF WriteState
  <2>2. CASE call[c].want = "running"
    <3>1. Orderly("start?")'
      BY <1>0, <2>1, <2>2, SameNewest DEF Orderly, Live
    <3> QED BY <1>g, <2>1, <2>2, <3>1 DEF CallAt
  <2>3. CASE call[c].want # "running"
    <3>1. Orderly("stop?")'
      BY <1>0, <2>1, <2>3, SameNewest DEF Orderly, Live
    <3> QED BY <1>g, <2>1, <2>3, <3>1 DEF CallAt
  <2> QED BY <2>2, <2>3
<1>3. CASE CheckStart(c)
  <2>1. /\ pc = "start?" /\ UNCHANGED <<state, running>>
        /\ UNCHANGED <<channelVars, goroutineVars>>
        /\ IF running THEN Return(c) ELSE Goto(c, "start")
    BY <1>3, <1>a DEF CheckStart
  <2>2. IF running THEN Orderly("idle")' ELSE Orderly("start")'
    BY <1>0, <2>1, SameNewest DEF Orderly, Live
  <2> QED BY <1>g, <1>r, <2>1, <2>2 DEF CallAt
<1>4. CASE StartSwap(c)
  <2>1. pc = "start" /\ ~running
    BY <1>4, <1>a DEF StartSwap, Orderly
  <2>2. /\ Goto(c, "done") /\ running' = TRUE /\ state' = state
        /\ UNCHANGED <<channelVars, goroutineVars>>
    BY <1>4, <2>1 DEF StartSwap
  <2>3. Orderly("done")'
    BY <1>0, <2>1, <2>2, SameNewest DEF Orderly, Live
  <2> QED BY <1>g, <2>2, <2>3 DEF CallAt
<1>5. CASE StartDone(c)
  <2>1. /\ pc = "done" /\ gens' = gens + 1 /\ gens < MaxCalls
        /\ UNCHANGED <<state, running, streamCh, done>> /\ UNCHANGED goroutineVars
        /\ call'[c].pc = "spawn" /\ call'[c].gen = gens + 1
        /\ \A d \in Callers \ {c} : call'[d] = call[d]
    BY <1>0, <1>5, <1>a DEF StartDone, CallType
  <2>2. gens + 1 \in Gens /\ gens + 1 # Nil
    BY <1>0, <2>1, MaxCallsAssumption DEF Gens, Nil
  <2>3. Newest' = "none" /\ ~Told'
    BY <1>0, <2>1, <2>2 DEF Newest, Told, goroutineVars, GenerationsApart, Channels
  <2>4. \A g \in Gens : poll[g] \notin Live
    BY <1>0, <2>1 DEF Orderly, Newest
  <2>5. Orderly("spawn")'
    BY <1>0, <2>1, <2>2, <2>3, <2>4 DEF Orderly, Live, goroutineVars
  <2>6. Alone(c, "spawn")'
    BY <1>a, <2>1 DEF Alone
  <2> QED BY <2>5, <2>6 DEF OneByOne, CallAt
<1>6. CASE StartSpawn(c)
  <2>1. /\ pc = "spawn" /\ call[c].gen = gens /\ gens \in Gens /\ Goto(c, "stream")
        /\ UNCHANGED <<state, running, gens, done, doneOf, readers, cut>>
        /\ streamCh' = gens /\ Newest' = "new" /\ ~Told
        /\ \A g \in Gens : g # gens => poll'[g] = poll[g]
    BY <1>0, <1>6, <1>a DEF StartSpawn, Alone, Orderly, Newest
  <2>2. Told' = Told
    BY <2>1 DEF Told
  <2>3. Orderly("stream")'
    BY <1>0, <2>1, <2>2 DEF Orderly, Live
  <2> QED BY <1>g, <2>1, <2>3 DEF CallAt
<1>7. CASE ReadStream(c)
  <2>1. /\ pc = "stream" /\ Return(c) /\ streamCh = gens
        /\ UNCHANGED <<state, running, channelVars, poll, doneOf, cut>>
        /\ readers' = [readers EXCEPT ![gens] = @ + 1]
    BY <1>7, <1>a DEF ReadStream, Orderly
  <2>2. readers'[gens] > 0
    BY <1>0, <2>1
  <2>3. /\ UNCHANGED <<gens, streamCh, done>>
        /\ Newest' = Newest /\ Told' = Told
    BY <2>1 DEF channelVars, Newest, Told
  <2>4. Orderly("idle")'
    BY <1>0, <2>1, <2>2, <2>3 DEF Orderly, Live
  <2> QED BY <1>r, <2>1, <2>4
<1>8. CASE CheckStop(c)
  <2>1. /\ pc = "stop?" /\ UNCHANGED <<state, running>>
        /\ UNCHANGED <<channelVars, goroutineVars>>
        /\ IF running THEN Goto(c, "stop") ELSE Return(c)
    BY <1>8, <1>a DEF CheckStop
  <2>2. IF running THEN Orderly("stop")' ELSE Orderly("idle")'
    BY <1>0, <2>1, SameNewest DEF Orderly, Live
  <2> QED BY <1>g, <1>r, <2>1, <2>2 DEF CallAt
<1>9. CASE StopSwap(c)
  <2>1. /\ pc = "stop" /\ state' = state /\ running' = FALSE
        /\ UNCHANGED <<channelVars, goroutineVars>>
        /\ IF running THEN Goto(c, "signal") ELSE Return(c)
    BY <1>9, <1>a DEF StopSwap
  <2>2. IF running THEN Orderly("signal")' ELSE Orderly("idle")'
    BY <1>0, <2>1, SameNewest DEF Orderly, Live
  <2> QED BY <1>g, <1>r, <2>1, <2>2 DEF CallAt
<1>10. CASE StopSignal(c)
  <2>1. /\ pc = "signal" /\ Return(c)
        /\ UNCHANGED <<state, running, gens, streamCh, poll, doneOf, readers, cut>>
        /\ done' = IF gens = Nil THEN done ELSE [done EXCEPT ![gens] = TRUE]
    BY <1>0, <1>10, <1>a DEF StopSignal, goroutineVars
  <2>2. Newest' = Newest
    BY <2>1 DEF Newest
  <2>3. Newest # "none" => Told'
    BY <1>0, <2>1 DEF Newest, Told
  <2>4. Orderly("idle")'
    BY <1>0, <2>1, <2>2, <2>3 DEF Orderly, Live
  <2> QED BY <1>r, <2>1, <2>4
<1> QED BY <1>1, <1>2, <1>3, <1>4, <1>5, <1>6, <1>7, <1>8, <1>9, <1>10 DEF CallStep

\* A call that begins when everything is settled finds a collector that runs,
\* or none.
LEMMA OrderlyBegin ==
    ASSUME TypeOK, Channels, Settled, Orderly("idle"), NEW c \in Callers,
           NEW pc \in {"meta", "manager"}, NEW s, Begin(c, pc, s)
    PROVE  OneByOne'
<1>1. /\ gens \in Nat /\ (gens # Nil => gens \in Gens) /\ doneCh = gens
      /\ call \in [Callers -> CallType]
  BY GensType DEF TypeOK, Channels
<1>2. /\ call'[c].pc = pc /\ \A d \in Callers \ {c} : call'[d] = call[d]
      /\ UNCHANGED <<state, running>> /\ UNCHANGED <<channelVars, goroutineVars>>
  BY <1>1 DEF Begin
<1>3. Alone(c, pc)'
  BY <1>2 DEF Alone, Settled, Quiet
<1>4. Newest \notin {"new", "clear"} /\ (Newest = "stats" => ~Told)
  BY <1>1 DEF Settled, WindingDown, Signalled, Awaited, Newest, Told, Orderly
<1>5. Orderly(pc)'
  BY <1>1, <1>2, <1>4, SameNewest DEF Orderly, Live
<1> QED BY <1>3, <1>5 DEF OneByOne, CallAt

LEMMA OrderlyStart == OrderlyInit => OrderlyInv
<1> SUFFICES ASSUME OrderlyInit PROVE OrderlyInv
  OBVIOUS
<1>1. /\ state = "" /\ running = FALSE /\ gens = 0 /\ doneCh = 0 /\ streamCh = 0
      /\ \A g \in Gens : ~done[g] /\ poll[g] = "none" /\ fwd[g] = "none"
      /\ \A c \in Callers : call[c].pc = "idle"
  BY DEF OrderlyInit, Init, Nil, Idle
<1>2. Newest = "none" /\ ~Told
  BY <1>1 DEF Newest, Told, Nil
<1>3. Channels
  BY <1>1 DEF Channels
<1>4. Orderly("idle")
  BY <1>1, <1>2 DEF Orderly, Live
<1> QED BY <1>1, <1>3, <1>4 DEF OrderlyInv, OneByOne, Quiet

LEMMA OrderlyStep ==
    TypeOK /\ GenerationsApart /\ OrderlyInv /\ [OrderlyNext]_orderlyVars
        => OrderlyInv'
<1> SUFFICES ASSUME TypeOK, GenerationsApart, OrderlyInv,
                    [OrderlyNext]_orderlyVars
             PROVE  OrderlyInv'
  OBVIOUS
<1>1. Channels'
  BY ChannelsStep DEF OrderlyInv, OrderlyNext, orderlyVars
<1>2. SUFFICES ASSUME orderly' PROVE OneByOne'
  BY <1>1 DEF OrderlyInv
<1>3. CASE UNCHANGED orderlyVars
  <2>1. OneByOne /\ UNCHANGED vars
    BY <1>2, <1>3 DEF orderlyVars, OrderlyInv
  <2>2. \A pc : Orderly(pc) => Orderly(pc)'
    BY <2>1 DEF vars, channelVars, goroutineVars, Orderly, Newest, Told
  <2> QED BY <2>1, <2>2 DEF OneByOne, Alone, Quiet, vars, channelVars
<1>4. CASE OrderlyNext
  <2>1. /\ OneByOne /\ Channels /\ Next
        /\ \A c \in Callers : Begins(c) => Settled
    BY <1>2, <1>4 DEF OrderlyNext, OrderlyInv
  <2>2. ASSUME NEW c \in Callers,
               SetState(c) \/ Start(c) \/ Stop(c) \/ Pause(c) \/ Unpause(c)
        PROVE  OneByOne'
    <3>1. PICK pc \in {"meta", "manager"}, s \in States : Begin(c, pc, s)
      BY <2>2 DEF SetState, Start, Stop, Pause, Unpause, States
    <3>2. Begins(c)
      BY <3>1 DEF Begin, Begins, TypeOK
    <3>3. Settled /\ Orderly("idle")
      BY <2>1, <3>2 DEF OneByOne, Settled, Quiet, Alone
    <3> QED BY <2>1, <3>1, <3>3, OrderlyBegin
  <2>3. ASSUME NEW c \in Callers, ManagerReturns(c) \/ CallStep(c)
        PROVE  OneByOne'
    <3>1. call[c].pc # "idle"
      BY <2>3 DEF ManagerReturns, CallStep, WriteState, CheckStart, StartSwap,
         StartDone, StartSpawn, ReadStream, CheckStop, StopSwap, StopSignal
    <3>2. PICK pc \in CallAt \ {"idle"} : Alone(c, pc) /\ Orderly(pc)
      BY <2>1, <3>1 DEF OneByOne, Quiet, Alone
    <3> QED BY <2>1, <2>3, <3>2, OrderlyCall
  <2>4. ASSUME NEW g \in Gens,
               GenStep(g) \/ StatsEnds(g) \/ FwdClose(g) \/ ReaderTakes(g)
                   \/ ReaderEnds(g)
        PROVE  OneByOne'
    <3>1. call' = call /\ gens' = gens
      BY <2>4 DEF GenStep, PollOpen, StatsDone, PollClear, StatsEnds, FwdClose,
         ReaderTakes, ReaderEnds, channelVars
    <3>2. \A pc \in CallAt : Orderly(pc) => Orderly(pc)'
      BY <2>1, <2>4, OrderlyGen
    <3> QED BY <2>1, <3>1, <3>2 DEF OneByOne, Alone, Quiet, CallAt
  <2> QED BY <2>1, <2>2, <2>3, <2>4 DEF Next
<1> QED BY <1>3, <1>4

LEMMA OrderlyImplies == TypeOK /\ OrderlyInv => InStep
<1> SUFFICES ASSUME TypeOK, OrderlyInv, orderly, Quiet
             PROVE  /\ state # "running" => \A g \in Gens : ~Collecting(g)
                    /\ state = "running" =>
                           \/ gens \in cut
                           \/ \E g \in Gens : Collecting(g) /\ readers[g] > 0
  BY DEF InStep, LeakFree, NotStarved
<1>1. Orderly("idle") /\ doneCh = gens
  BY DEF OrderlyInv, OneByOne, Alone, Quiet, Channels
<1>2. gens \in Nat /\ (gens # Nil => gens \in Gens) /\ Nil \notin Gens
  BY GensType
<1>3. ASSUME state # "running", NEW g \in Gens, Collecting(g) PROVE FALSE
  <2>1. g = gens /\ Newest \in {"new", "stats"}
    BY <1>1, <1>2, <1>3 DEF Collecting, Orderly, Newest, Live
  <2>2. ~Told
    BY <1>1, <1>2, <1>3, <2>1
    DEF Collecting, Signalled, Awaited, Newest, Told, Orderly
  <2> QED BY <1>1, <1>3, <2>1, <2>2 DEF Orderly, Live
<1>4. ASSUME state = "running", gens \notin cut
      PROVE  \E g \in Gens : Collecting(g) /\ readers[g] > 0
  <2>1. running /\ Newest \in {"new", "stats"} /\ ~Told
    BY <1>1, <1>4 DEF Orderly, Live
  <2>2. gens \in Gens /\ readers[gens] > 0
    BY <1>1, <1>2, <2>1 DEF Orderly, Newest
  <2>3. Collecting(gens)
    BY <1>1, <1>2, <2>1, <2>2
    DEF Collecting, Signalled, Awaited, Newest, Told, Orderly
  <2> QED BY <2>2, <2>3
<1> QED BY <1>3, <1>4

\* When calls come one at a time, each after the collector that was told to stop
\* has ended, the collector is in step with the container's state: a container
\* that does not run has no collector that nobody told to stop, and one that runs
\* has a collector and a reader, unless the daemon ended its stream.
THEOREM CollectorInStep == OrderlySpec => []InStep
<1>1. OrderlyInit => Init
  BY DEF OrderlyInit
<1>2. [OrderlyNext]_orderlyVars => [Next]_vars
  BY DEF OrderlyNext, orderlyVars
<1> QED
  BY <1>1, <1>2, InitType, InitApart, TypeStep, ApartStep, OrderlyStart,
     OrderlyStep, OrderlyImplies, PTL
  DEF OrderlySpec
=============================================================================
