------------------------ MODULE DockerConnector_proofs ------------------------
(***************************************************************************)
(* Proofs about the Docker connector, for every set of containers, every   *)
(* channel capacity and every combination of faults.                       *)
(***************************************************************************)
EXTENDS DockerConnector, SequenceTheorems, TLAPS

-----------------------------------------------------------------------------
(* What the elements of a queue become when it is appended to or read. *)

\* Sending adds the value sent to the elements of a channel.
LEMMA ElementsAppend ==
    ASSUME NEW S, NEW q \in Seq(S), NEW x \in S
    PROVE  Elements(Append(q, x)) = Elements(q) \cup {x}
BY DEF Elements

\* Receiving leaves the elements of the tail, and at most loses the head.
LEMMA ElementsTail ==
    ASSUME NEW S, NEW q \in Seq(S), q # <<>>
    PROVE  /\ Head(q) \in Elements(q)
           /\ Elements(Tail(q)) \subseteq Elements(q)
           /\ Elements(q) = Elements(Tail(q)) \cup {Head(q)}
<1>1. Len(q) \in Nat /\ Len(q) > 0 /\ q[1] = Head(q)
  OBVIOUS
<1>2. Head(q) \in Elements(q)
  BY <1>1 DEF Elements
<1>3. Elements(Tail(q)) \subseteq Elements(q)
  <2> SUFFICES ASSUME NEW i \in 1..Len(Tail(q))
               PROVE  Tail(q)[i] \in Elements(q)
    BY DEF Elements
  <2>1. Tail(q)[i] = q[i + 1] /\ i + 1 \in 1..Len(q)
    BY <1>1
  <2> QED BY <2>1 DEF Elements
<1>4. ASSUME NEW i \in 1..Len(q), i # 1
      PROVE  q[i] \in Elements(Tail(q))
  <2>1. i - 1 \in 1..Len(Tail(q)) /\ Tail(q)[i - 1] = q[i]
    BY <1>1, <1>4
  <2> QED BY <2>1 DEF Elements
<1> QED BY <1>1, <1>2, <1>3, <1>4 DEF Elements

\* A send that found room respects the type and the capacity of a channel.
LEMMA SendType ==
    ASSUME NEW S, NEW q \in Seq(S), NEW x \in S, NEW n \in Nat, Len(q) < n
    PROVE  Append(q, x) \in Seq(S) /\ Len(Append(q, x)) <= n
OBVIOUS

\* So does a receive.
LEMMA ReceiveType ==
    ASSUME NEW S, NEW q \in Seq(S), q # <<>>, NEW n \in Nat, Len(q) <= n
    PROVE  Head(q) \in S /\ Tail(q) \in Seq(S) /\ Len(Tail(q)) <= n
OBVIOUS

-----------------------------------------------------------------------------
(* Types. *)

LEMMA InitType == Init => TypeOK
<1> SUFFICES ASSUME Init PROVE TypeOK
  OBVIOUS
<1>1. DaemonTypeOK
  <2>1. daemon \in [Cids -> DaemonStates]
    BY InitialAssumption DEF Init
  <2>2. health \in [Cids -> Healths]
    BY DEF Init, Healths
  <2>3. events = <<>> /\ changes = 0 /\ listener = "none"
    BY DEF Init
  <2> QED BY <2>1, <2>2, <2>3, EmptySeq, BoundAssumption DEF DaemonTypeOK
<1>2. RegistryTypeOK
  BY DEF Init, RegistryTypeOK, Meta, NewMeta, MetaStates, Healths
<1>3. QueueTypeOK
  <2>1. needsRefresh = <<>> /\ statuses = <<>>
    BY DEF Init
  <2> QED BY <2>1, EmptySeq, CapsAssumption DEF QueueTypeOK
<1>4. InitTypeOK
  BY DEF Init, InitAt, InitTypeOK, InitPcs, DaemonStates
<1>5. WatchTypeOK
  BY DEF Init, WatchAt, WatchTypeOK, WatchPcs, Actions
<1>6. LoopTypeOK
  BY DEF Init, LoopAt, LoopTypeOK, LoopPcs, Meta, NewMeta, MetaStates, Healths
<1>7. StatTypeOK
  BY DEF Init, StatAt, StatTypeOK, StatPcs, ValuesOf, MetaStates, Healths
<1> QED BY <1>1, <1>2, <1>3, <1>4, <1>5, <1>6, <1>7 DEF TypeOK

\* Every step of NewDocker preserves the types.
LEMMA NewDockerType == TypeOK /\ NewDocker => TypeOK'
<1> SUFFICES ASSUME TypeOK, NewDocker PROVE TypeOK'
  OBVIOUS
<1>1. CASE InitList
  <2> USE <1>1 DEF InitList, TypeOK
  <2>1. DaemonTypeOK' /\ RegistryTypeOK' /\ QueueTypeOK' /\ WatchTypeOK' /\ LoopTypeOK' /\ StatTypeOK'
    BY DEF DaemonTypeOK, RegistryTypeOK, QueueTypeOK, WatchTypeOK, LoopTypeOK, StatTypeOK, daemonVars, registryVars, queueVars
  <2>2. InitTypeOK'
    BY DEF InitTypeOK, InitPcs, DaemonTypeOK, Exists, DaemonStates, MetaStates, daemonVars, registryVars, queueVars
  <2> QED BY <2>1, <2>2
<1>2. CASE InitListFails
  <2> USE <1>2 DEF InitListFails, TypeOK
  <2>1. DaemonTypeOK' /\ QueueTypeOK' /\ WatchTypeOK' /\ LoopTypeOK' /\ StatTypeOK'
    BY DEF DaemonTypeOK, QueueTypeOK, WatchTypeOK, LoopTypeOK, StatTypeOK, daemonVars, registryVars, queueVars
  <2>2. RegistryTypeOK'
    BY DEF RegistryTypeOK, InitAt, InitTypeOK, InitPcs, DaemonStates, daemonVars, registryVars, queueVars
  <2>3. InitTypeOK'
    BY DEF InitTypeOK, InitPcs, InitAt, DaemonStates, daemonVars, registryVars, queueVars
  <2> QED BY <2>1, <2>2, <2>3
<1>3. CASE InitGet
  <2> USE <1>3 DEF InitGet, TypeOK
  <2>1. DaemonTypeOK' /\ RegistryTypeOK' /\ QueueTypeOK' /\ WatchTypeOK' /\ LoopTypeOK' /\ StatTypeOK'
    BY DEF DaemonTypeOK, RegistryTypeOK, QueueTypeOK, WatchTypeOK, LoopTypeOK, StatTypeOK, daemonVars, registryVars, queueVars
  <2>2. InitTypeOK'
    <3>1. PICK x \in init.todo :
              \/ init' = [init EXCEPT !.pc = "set", !.id = x, !.live = TRUE,
                                      !.todo = @ \ {x}]
              \/ init' = [init EXCEPT !.pc = "insert", !.id = x,
                                      !.todo = @ \ {x}]
      OBVIOUS
    <3>2. x \in Cids /\ init.seen[x] \in MetaStates
      BY DEF InitTypeOK
    <3>3. /\ init' \in [pc : InitPcs, id : Cids \cup {NoCid}, live : BOOLEAN,
                        todo : SUBSET Cids, seen : [Cids -> DaemonStates]]
          /\ init'.seen = init.seen /\ init'.todo = init.todo \ {x}
          /\ init'.id = x
      <4>1. (init.todo \ {x}) \in SUBSET Cids
        BY DEF InitTypeOK
      <4>2. "set" \in InitPcs /\ "insert" \in InitPcs
        BY DEF InitPcs
      <4> QED BY <3>1, <3>2, <4>1, <4>2 DEF InitTypeOK
    <3> QED BY <3>2, <3>3 DEF InitTypeOK
  <2> QED BY <2>1, <2>2
<1>4. CASE InitInsert
  <2> USE <1>4 DEF InitInsert, TypeOK
  <2>1. DaemonTypeOK' /\ QueueTypeOK' /\ WatchTypeOK' /\ LoopTypeOK' /\ StatTypeOK'
    BY DEF DaemonTypeOK, QueueTypeOK, WatchTypeOK, LoopTypeOK, StatTypeOK, daemonVars, queueVars
  <2>2. RegistryTypeOK'
    BY DEF RegistryTypeOK, MustGetInsert, InitTypeOK, InitPcs, Meta, MetaStates, Healths, NewMeta, daemonVars, queueVars
  <2>3. InitTypeOK'
    BY DEF InitTypeOK, InitPcs, MustGetInsert, daemonVars, queueVars
  <2> QED BY <2>1, <2>2, <2>3
<1>5. CASE InitSetState
  <2> USE <1>5 DEF InitSetState, TypeOK
  <2>1. DaemonTypeOK' /\ QueueTypeOK' /\ WatchTypeOK' /\ LoopTypeOK' /\ StatTypeOK'
    BY DEF DaemonTypeOK, QueueTypeOK, WatchTypeOK, LoopTypeOK, StatTypeOK, daemonVars, queueVars
  <2>2. RegistryTypeOK'
    BY DEF RegistryTypeOK, SetMeta, InitTypeOK, InitPcs, Meta, MetaStates, Healths, NewMeta, daemonVars, queueVars
  <2>3. InitTypeOK'
    BY DEF InitTypeOK, InitPcs, SetMeta, daemonVars, queueVars
  <2> QED BY <2>1, <2>2, <2>3
<1>6. CASE InitSend
  <2> USE <1>6 DEF InitSend, TypeOK
  <2>1. DaemonTypeOK' /\ RegistryTypeOK' /\ WatchTypeOK' /\ LoopTypeOK' /\ StatTypeOK'
    BY DEF DaemonTypeOK, RegistryTypeOK, WatchTypeOK, LoopTypeOK, StatTypeOK, daemonVars, registryVars
  <2>2. QueueTypeOK'
    BY SendType, CapsAssumption DEF QueueTypeOK, InitTypeOK
  <2>3. InitTypeOK'
    BY DEF InitTypeOK, InitPcs, daemonVars, registryVars
  <2> QED BY <2>1, <2>2, <2>3
<1>7. CASE InitDone
  <2> USE <1>7 DEF InitDone, TypeOK
  <2>1. DaemonTypeOK' /\ RegistryTypeOK' /\ QueueTypeOK' /\ LoopTypeOK' /\ StatTypeOK'
    BY DEF DaemonTypeOK, RegistryTypeOK, QueueTypeOK, LoopTypeOK, StatTypeOK, daemonVars, registryVars, queueVars
  <2>2. InitTypeOK'
    BY DEF InitTypeOK, InitPcs, InitAt, WatchAt, Actions, DaemonStates, daemonVars, registryVars, queueVars
  <2>3. WatchTypeOK'
    BY DEF WatchTypeOK, WatchPcs, InitAt, WatchAt, InitTypeOK, InitPcs, Actions, DaemonStates, daemonVars, registryVars, queueVars
  <2> QED BY <2>1, <2>2, <2>3
<1> QED BY <1>1, <1>2, <1>3, <1>4, <1>5, <1>6, <1>7 DEF NewDocker

\* Every step of WatchEvents preserves the types.
LEMMA WatchType == TypeOK /\ WatchEvents => TypeOK'
<1> SUFFICES ASSUME TypeOK, WatchEvents PROVE TypeOK'
  OBVIOUS
<1>1. CASE WatchListen
  <2> USE <1>1 DEF WatchListen, TypeOK
  <2>1. RegistryTypeOK' /\ QueueTypeOK' /\ InitTypeOK' /\ LoopTypeOK' /\ StatTypeOK'
    BY DEF RegistryTypeOK, QueueTypeOK, InitTypeOK, LoopTypeOK, StatTypeOK, daemonVars, registryVars, queueVars
  <2>2. DaemonTypeOK'
    BY DEF DaemonTypeOK, WatchAt, WatchTypeOK, WatchPcs, Actions, daemonVars, registryVars, queueVars
  <2>3. WatchTypeOK'
    BY DEF WatchTypeOK, WatchPcs, WatchAt, Actions, daemonVars, registryVars, queueVars
  <2> QED BY <2>1, <2>2, <2>3
<1>2. CASE WatchReceive
  <2> USE <1>2 DEF WatchReceive, TypeOK
  <2>1. QueueTypeOK'
    BY DEF QueueTypeOK, daemonVars, queueVars
  <2>2. DaemonTypeOK'
    BY DEF DaemonTypeOK, Orphan, WatchTypeOK, WatchPcs, Event, LoopTypeOK, StatTypeOK, InitTypeOK, LoopPcs, StatPcs, InitPcs, daemonVars, queueVars
  <2>3. RegistryTypeOK'
    BY DEF RegistryTypeOK, Orphan, WatchTypeOK, WatchPcs, DaemonTypeOK, Event, LoopTypeOK, StatTypeOK, InitTypeOK, LoopPcs, StatPcs, InitPcs, daemonVars, queueVars
  <2>4. InitTypeOK'
    BY DEF InitTypeOK, InitPcs, Orphan, WatchTypeOK, WatchPcs, DaemonTypeOK, Event, LoopTypeOK, StatTypeOK, LoopPcs, StatPcs, daemonVars, queueVars
  <2>5. WatchTypeOK'
    <3>1. Head(events) \in Event
      BY DEF DaemonTypeOK
    <3> QED BY <3>1 DEF WatchTypeOK, WatchPcs, Event
  <2>6. LoopTypeOK'
    BY DEF LoopTypeOK, LoopPcs, Orphan, WatchTypeOK, WatchPcs, DaemonTypeOK, Event, StatTypeOK, InitTypeOK, StatPcs, InitPcs, daemonVars, queueVars
  <2>7. StatTypeOK'
    BY DEF StatTypeOK, StatPcs, Orphan, WatchTypeOK, WatchPcs, DaemonTypeOK, Event, LoopTypeOK, InitTypeOK, LoopPcs, InitPcs, daemonVars, queueVars
  <2> QED BY <2>1, <2>2, <2>3, <2>4, <2>5, <2>6, <2>7
<1>3. CASE WatchSendCreate
  <2> USE <1>3 DEF WatchSendCreate, TypeOK
  <2>1. DaemonTypeOK' /\ RegistryTypeOK' /\ InitTypeOK' /\ LoopTypeOK' /\ StatTypeOK'
    BY DEF DaemonTypeOK, RegistryTypeOK, InitTypeOK, LoopTypeOK, StatTypeOK, daemonVars, registryVars
  <2>2. QueueTypeOK'
    BY SendType, CapsAssumption DEF QueueTypeOK, WatchTypeOK
  <2>3. WatchTypeOK'
    BY DEF WatchTypeOK, WatchPcs, WatchAt, Actions, daemonVars, registryVars
  <2> QED BY <2>1, <2>2, <2>3
<1>4. CASE WatchSendStatus
  <2> USE <1>4 DEF WatchSendStatus, TypeOK
  <2>1. DaemonTypeOK' /\ RegistryTypeOK' /\ InitTypeOK' /\ LoopTypeOK' /\ StatTypeOK'
    BY DEF DaemonTypeOK, RegistryTypeOK, InitTypeOK, LoopTypeOK, StatTypeOK, daemonVars, registryVars
  <2>2. QueueTypeOK'
    <3> DEFINE u == IF IsHealth(watch.action)
                    THEN [id |-> watch.id, field |-> "health",
                          value |-> watch.action]
                    ELSE [id |-> watch.id, field |-> "state",
                          value |-> actionToStatus[watch.action]]
    <3>1. watch.id \in Cids /\ watch.action \in Actions
      BY DEF WatchTypeOK
    <3>2. actionToStatus[watch.action] \in MetaStates
      BY <3>1 DEF actionToStatus, MetaStates
    <3>3. u \in StatusUpdate
      BY <3>1, <3>2 DEF StatusUpdate, ValuesOf, IsHealth, Healths
    <3>4. CASE statuses' = Append(statuses, u) /\ Len(statuses) < StatusCap
      <4> HIDE DEF u
      <4> QED BY <3>3, <3>4, SendType, CapsAssumption DEF QueueTypeOK
    <3>5. CASE statuses' = statuses
      BY <3>5 DEF QueueTypeOK
    <3> QED BY <3>4, <3>5
  <2>3. WatchTypeOK'
    <3>1. \/ watch' = WatchAt("range") \/ watch' = WatchAt("done")
          \/ watch' = [watch EXCEPT !.pc = "refresh"]
      OBVIOUS
    <3> QED BY <3>1 DEF WatchTypeOK, WatchPcs, WatchAt, Actions
  <2> QED BY <2>1, <2>2, <2>3
<1>5. CASE WatchSendRefresh
  <2> USE <1>5 DEF WatchSendRefresh, TypeOK
  <2>1. DaemonTypeOK' /\ InitTypeOK' /\ LoopTypeOK' /\ StatTypeOK'
    BY DEF DaemonTypeOK, InitTypeOK, LoopTypeOK, StatTypeOK, daemonVars, registryVars
  <2>2. RegistryTypeOK'
    BY DEF RegistryTypeOK, WatchAt, WatchTypeOK, WatchPcs, Actions, daemonVars, registryVars
  <2>3. QueueTypeOK'
    <3>1. CASE Len(needsRefresh) < RefreshCap
      <4>1. watch.id \in Cids /\ needsRefresh \in Seq(Cids)
        BY DEF WatchTypeOK, QueueTypeOK
      <4>2. needsRefresh' = Append(needsRefresh, watch.id)
        BY <3>1
      <4> QED BY <3>1, <4>1, <4>2, SendType, CapsAssumption DEF QueueTypeOK
    <3>2. CASE ~(Len(needsRefresh) < RefreshCap)
      BY <3>2 DEF QueueTypeOK
    <3> QED BY <3>1, <3>2
  <2>4. WatchTypeOK'
    BY DEF WatchTypeOK, WatchPcs, WatchAt, Actions, daemonVars, registryVars
  <2> QED BY <2>1, <2>2, <2>3, <2>4
<1>6. CASE WatchEnd
  <2> USE <1>6 DEF WatchEnd, TypeOK
  <2>1. DaemonTypeOK' /\ QueueTypeOK' /\ InitTypeOK' /\ LoopTypeOK' /\ StatTypeOK'
    BY DEF DaemonTypeOK, QueueTypeOK, InitTypeOK, LoopTypeOK, StatTypeOK, daemonVars, registryVars, queueVars
  <2>2. RegistryTypeOK'
    BY DEF RegistryTypeOK, WatchAt, WatchTypeOK, WatchPcs, Actions, daemonVars, registryVars, queueVars
  <2>3. WatchTypeOK'
    BY DEF WatchTypeOK, WatchPcs, WatchAt, Actions, daemonVars, registryVars, queueVars
  <2> QED BY <2>1, <2>2, <2>3
<1> QED BY <1>1, <1>2, <1>3, <1>4, <1>5, <1>6 DEF WatchEvents

\* Every step of Loop preserves the types.
LEMMA LoopType == TypeOK /\ Loop => TypeOK'
<1> SUFFICES ASSUME TypeOK, Loop PROVE TypeOK'
  OBVIOUS
<1>1. CASE LoopTake
  <2> USE <1>1 DEF LoopTake, TypeOK
  <2>1. DaemonTypeOK' /\ RegistryTypeOK' /\ InitTypeOK' /\ WatchTypeOK' /\ StatTypeOK'
    BY DEF DaemonTypeOK, RegistryTypeOK, InitTypeOK, WatchTypeOK, StatTypeOK, daemonVars, registryVars
  <2>2. QueueTypeOK'
    BY ReceiveType, CapsAssumption DEF QueueTypeOK
  <2>3. LoopTypeOK'
    <3>1. Head(needsRefresh) \in Cids
      BY DEF QueueTypeOK
    <3> QED BY <3>1 DEF LoopTypeOK, LoopPcs
  <2> QED BY <2>1, <2>2, <2>3
<1>2. CASE LoopGet
  <2> USE <1>2 DEF LoopGet, TypeOK
  <2>1. DaemonTypeOK' /\ RegistryTypeOK' /\ QueueTypeOK' /\ InitTypeOK' /\ WatchTypeOK' /\ StatTypeOK'
    BY DEF DaemonTypeOK, RegistryTypeOK, QueueTypeOK, InitTypeOK, WatchTypeOK, StatTypeOK, daemonVars, registryVars, queueVars
  <2>2. LoopTypeOK'
    BY DEF LoopTypeOK, LoopPcs, daemonVars, registryVars, queueVars
  <2> QED BY <2>1, <2>2
<1>3. CASE LoopInsert
  <2> USE <1>3 DEF LoopInsert, TypeOK
  <2>1. DaemonTypeOK' /\ QueueTypeOK' /\ InitTypeOK' /\ WatchTypeOK' /\ StatTypeOK'
    BY DEF DaemonTypeOK, QueueTypeOK, InitTypeOK, WatchTypeOK, StatTypeOK, daemonVars, queueVars
  <2>2. RegistryTypeOK'
    BY DEF RegistryTypeOK, MustGetInsert, LoopTypeOK, LoopPcs, Meta, MetaStates, Healths, NewMeta, daemonVars, queueVars
  <2>3. LoopTypeOK'
    BY DEF LoopTypeOK, LoopPcs, MustGetInsert, daemonVars, queueVars
  <2> QED BY <2>1, <2>2, <2>3
<1>4. CASE LoopInspect
  <2> USE <1>4 DEF LoopInspect, TypeOK
  <2>1. DaemonTypeOK' /\ RegistryTypeOK' /\ QueueTypeOK' /\ InitTypeOK' /\ WatchTypeOK' /\ StatTypeOK'
    BY DEF DaemonTypeOK, RegistryTypeOK, QueueTypeOK, InitTypeOK, WatchTypeOK, StatTypeOK, daemonVars, registryVars, queueVars
  <2>2. LoopTypeOK'
    BY DEF LoopTypeOK, LoopPcs, Inspected, Meta, MetaStates, Healths, DaemonTypeOK, DaemonStates, Exists, daemonVars, registryVars, queueVars
  <2> QED BY <2>1, <2>2
<1>5. CASE LoopInspectFails
  <2> USE <1>5 DEF LoopInspectFails, TypeOK
  <2>1. DaemonTypeOK' /\ QueueTypeOK' /\ InitTypeOK' /\ WatchTypeOK' /\ StatTypeOK'
    BY DEF DaemonTypeOK, QueueTypeOK, InitTypeOK, WatchTypeOK, StatTypeOK, daemonVars, registryVars, queueVars
  <2>2. RegistryTypeOK'
    BY DEF RegistryTypeOK, LoopAt, LoopTypeOK, LoopPcs, Meta, MetaStates, Healths, NewMeta, daemonVars, registryVars, queueVars
  <2>3. LoopTypeOK'
    BY DEF LoopTypeOK, LoopPcs, LoopAt, Meta, MetaStates, Healths, NewMeta, daemonVars, registryVars, queueVars
  <2> QED BY <2>1, <2>2, <2>3
<1>6. CASE LoopDelete
  <2> USE <1>6 DEF LoopDelete, TypeOK
  <2>1. DaemonTypeOK' /\ QueueTypeOK' /\ WatchTypeOK'
    BY DEF DaemonTypeOK, QueueTypeOK, WatchTypeOK, daemonVars, queueVars
  <2>2. RegistryTypeOK'
    BY DEF RegistryTypeOK, LoopAt, Orphan, LoopTypeOK, LoopPcs, Meta, MetaStates, Healths, NewMeta, InitTypeOK, StatTypeOK, StatPcs, InitPcs, daemonVars, queueVars
  <2>3. InitTypeOK'
    BY DEF InitTypeOK, InitPcs, LoopAt, Orphan, LoopTypeOK, LoopPcs, Meta, MetaStates, Healths, NewMeta, StatTypeOK, StatPcs, daemonVars, queueVars
  <2>4. LoopTypeOK'
    BY DEF LoopTypeOK, LoopPcs, LoopAt, Orphan, Meta, MetaStates, Healths, NewMeta, InitTypeOK, StatTypeOK, StatPcs, InitPcs, daemonVars, queueVars
  <2>5. StatTypeOK'
    BY DEF StatTypeOK, StatPcs, LoopAt, Orphan, LoopTypeOK, LoopPcs, Meta, MetaStates, Healths, NewMeta, InitTypeOK, InitPcs, daemonVars, queueVars
  <2> QED BY <2>1, <2>2, <2>3, <2>4, <2>5
<1>7. CASE LoopApply
  <2> USE <1>7 DEF LoopApply, TypeOK
  <2>1. DaemonTypeOK' /\ QueueTypeOK' /\ InitTypeOK' /\ WatchTypeOK' /\ StatTypeOK'
    BY DEF DaemonTypeOK, QueueTypeOK, InitTypeOK, WatchTypeOK, StatTypeOK, daemonVars, queueVars
  <2>2. RegistryTypeOK'
    BY DEF RegistryTypeOK, LoopTypeOK, LoopPcs, Meta, MetaStates, Healths, NewMeta, daemonVars, queueVars
  <2>3. LoopTypeOK'
    BY DEF LoopTypeOK, LoopPcs, daemonVars, queueVars
  <2> QED BY <2>1, <2>2, <2>3
<1>8. CASE LoopFinish
  <2> USE <1>8 DEF LoopFinish, TypeOK
  <2>1. DaemonTypeOK' /\ QueueTypeOK' /\ InitTypeOK' /\ WatchTypeOK' /\ StatTypeOK'
    BY DEF DaemonTypeOK, QueueTypeOK, InitTypeOK, WatchTypeOK, StatTypeOK, daemonVars, queueVars
  <2>2. RegistryTypeOK'
    BY DEF RegistryTypeOK, LoopAt, SetMeta, LoopTypeOK, LoopPcs, Meta, MetaStates, Healths, NewMeta, daemonVars, queueVars
  <2>3. LoopTypeOK'
    BY DEF LoopTypeOK, LoopPcs, LoopAt, SetMeta, Meta, MetaStates, Healths, NewMeta, daemonVars, queueVars
  <2> QED BY <2>1, <2>2, <2>3
<1>9. CASE LoopExit
  <2> USE <1>9 DEF LoopExit, TypeOK
  <2>1. DaemonTypeOK' /\ RegistryTypeOK' /\ QueueTypeOK' /\ InitTypeOK' /\ WatchTypeOK' /\ StatTypeOK'
    BY DEF DaemonTypeOK, RegistryTypeOK, QueueTypeOK, InitTypeOK, WatchTypeOK, StatTypeOK, daemonVars, registryVars, queueVars
  <2>2. LoopTypeOK'
    BY DEF LoopTypeOK, LoopPcs, LoopAt, Meta, MetaStates, Healths, NewMeta, daemonVars, registryVars, queueVars
  <2> QED BY <2>1, <2>2
<1> QED BY <1>1, <1>2, <1>3, <1>4, <1>5, <1>6, <1>7, <1>8, <1>9 DEF Loop

\* Every step of LoopStatuses preserves the types.
LEMMA StatType == TypeOK /\ LoopStatuses => TypeOK'
<1> SUFFICES ASSUME TypeOK, LoopStatuses PROVE TypeOK'
  OBVIOUS
<1>1. CASE StatTake
  <2> USE <1>1 DEF StatTake, TypeOK
  <2>1. DaemonTypeOK' /\ RegistryTypeOK' /\ InitTypeOK' /\ WatchTypeOK' /\ LoopTypeOK'
    BY DEF DaemonTypeOK, RegistryTypeOK, InitTypeOK, WatchTypeOK, LoopTypeOK, daemonVars, registryVars
  <2>2. QueueTypeOK'
    BY ReceiveType, CapsAssumption DEF QueueTypeOK
  <2>3. StatTypeOK'
    BY DEF StatTypeOK, StatPcs, QueueTypeOK, StatusUpdate, daemonVars, registryVars
  <2> QED BY <2>1, <2>2, <2>3
<1>2. CASE StatGet
  <2> USE <1>2 DEF StatGet, TypeOK
  <2>1. DaemonTypeOK' /\ RegistryTypeOK' /\ QueueTypeOK' /\ InitTypeOK' /\ WatchTypeOK' /\ LoopTypeOK'
    BY DEF DaemonTypeOK, RegistryTypeOK, QueueTypeOK, InitTypeOK, WatchTypeOK, LoopTypeOK, daemonVars, registryVars, queueVars
  <2>2. StatTypeOK'
    BY DEF StatTypeOK, StatPcs, StatAt, MetaStates, ValuesOf, daemonVars, registryVars, queueVars
  <2> QED BY <2>1, <2>2
<1>3. CASE StatApply
  <2> USE <1>3 DEF StatApply, TypeOK
  <2>1. DaemonTypeOK' /\ QueueTypeOK' /\ InitTypeOK' /\ WatchTypeOK' /\ LoopTypeOK'
    BY DEF DaemonTypeOK, QueueTypeOK, InitTypeOK, WatchTypeOK, LoopTypeOK, daemonVars, queueVars
  <2>2. RegistryTypeOK'
    BY DEF RegistryTypeOK, StatAt, SetMeta, StatTypeOK, StatPcs, Meta, MetaStates, Healths, NewMeta, ValuesOf, daemonVars, queueVars
  <2>3. StatTypeOK'
    BY DEF StatTypeOK, StatPcs, StatAt, SetMeta, MetaStates, Healths, ValuesOf, daemonVars, queueVars
  <2> QED BY <2>1, <2>2, <2>3
<1>4. CASE StatExit
  <2> USE <1>4 DEF StatExit, TypeOK
  <2>1. DaemonTypeOK' /\ RegistryTypeOK' /\ QueueTypeOK' /\ InitTypeOK' /\ WatchTypeOK' /\ LoopTypeOK'
    BY DEF DaemonTypeOK, RegistryTypeOK, QueueTypeOK, InitTypeOK, WatchTypeOK, LoopTypeOK, daemonVars, registryVars, queueVars
  <2>2. StatTypeOK'
    BY DEF StatTypeOK, StatPcs, StatAt, MetaStates, ValuesOf, daemonVars, registryVars, queueVars
  <2> QED BY <2>1, <2>2
<1> QED BY <1>1, <1>2, <1>3, <1>4 DEF LoopStatuses


\* Every change of the daemon preserves the types.
LEMMA DaemonType == TypeOK /\ (Daemon \/ StreamEnds \/ Close) => TypeOK'
<1> SUFFICES ASSUME TypeOK, Daemon \/ StreamEnds \/ Close PROVE TypeOK'
  OBVIOUS
<1>1. CASE Daemon
  <2>1. PICK x \in Cids, s \in DaemonStates, h \in Healths, a \in Actions :
            Change(x, s, h, a)
    <3>1. PICK x \in Cids :
              \/ DaemonCreate(x) \/ DaemonStart(x) \/ DaemonDie(x)
              \/ DaemonStop(x) \/ DaemonPause(x) \/ DaemonUnpause(x)
              \/ DaemonDestroy(x) \/ DaemonHealth(x)
      BY <1>1 DEF Daemon
    <3>2. health[x] \in Healths
      BY DEF TypeOK, DaemonTypeOK
    <3> QED BY <3>1, <3>2 DEF DaemonCreate, DaemonStart, DaemonDie,
            DaemonStop, DaemonPause, DaemonUnpause, DaemonDestroy,
            DaemonHealth, DaemonStates, Healths, Actions
  <2>2. DaemonTypeOK'
    <3>1. [id |-> x, action |-> a] \in Event
      BY DEF Event
    <3>2. events' \in Seq(Event)
      BY <2>1, <3>1 DEF Change, TypeOK, DaemonTypeOK
    <3> QED BY <2>1, <3>2, BoundAssumption DEF Change, TypeOK, DaemonTypeOK
  <2>3. RegistryTypeOK'
    BY <2>1 DEF Change, TypeOK, RegistryTypeOK, registryVars
  <2>4. QueueTypeOK' /\ InitTypeOK' /\ WatchTypeOK' /\ LoopTypeOK' /\ StatTypeOK'
    BY <2>1 DEF Change, TypeOK, QueueTypeOK, InitTypeOK, WatchTypeOK,
                LoopTypeOK, StatTypeOK, queueVars, workers
  <2> QED BY <2>2, <2>3, <2>4 DEF TypeOK
<1>2. CASE StreamEnds
  BY <1>2 DEF StreamEnds, TypeOK, DaemonTypeOK, RegistryTypeOK, QueueTypeOK,
     InitTypeOK, WatchTypeOK, LoopTypeOK, StatTypeOK, daemonVars,
     registryVars, queueVars, workers
<1>3. CASE Close
  BY <1>3 DEF Close, TypeOK, DaemonTypeOK, RegistryTypeOK, QueueTypeOK,
     InitTypeOK, WatchTypeOK, LoopTypeOK, StatTypeOK, daemonVars,
     registryVars, queueVars, workers
<1> QED BY <1>1, <1>2, <1>3

\* The connector never leaves its types: the channels respect their
\* capacities and every worker that is busy is busy with a container's id.
THEOREM TypeCorrect == Spec => []TypeOK
<1>1. TypeOK /\ UNCHANGED vars => TypeOK'
  BY DEF vars, daemonVars, registryVars, queueVars, workers, TypeOK,
     DaemonTypeOK, RegistryTypeOK, QueueTypeOK, InitTypeOK, WatchTypeOK,
     LoopTypeOK, StatTypeOK
<1>2. TypeOK /\ [Next]_vars => TypeOK'
  BY <1>1, DaemonType, NewDockerType, WatchType, LoopType, StatType DEF Next
<1> QED BY InitType, <1>2, PTL DEF Spec

-----------------------------------------------------------------------------
(* The registry against the daemon. *)

\* Until the constructor has listed the containers nothing has happened, and
\* until watchEvents has tried to attach its listener no event has arrived.
Startup ==
    /\ init.pc = "list" => registry = {} /\ needsRefresh = <<>>
                           /\ loop.pc = "idle"
    /\ init.pc # "done" => watch.pc = "off" /\ ~closed
    /\ watch.pc \in {"off", "listen"} => listener = "none" /\ events = <<>>

\* An id the connector is dealing with in any way.
Handled(x) ==
    \/ x \in registry \/ x \in Queued \/ x \in init.todo
    \/ init.id = x \/ watch.id = x \/ loop.id = x
    \/ \E a \in Actions : x \in Announced(a)

\* What the connector holds is true of the daemon: every id it deals with has
\* been created, and what it is about to remove is gone for good.
Truth ==
    \A x \in Cids :
        /\ Handled(x) => daemon[x] # "absent"
        /\ x \in Announced("destroy") => daemon[x] = "gone"
        /\ loop.pc = "delete" /\ loop.id = x => daemon[x] = "gone"

RegistryInv == TypeOK /\ Startup /\ Truth /\ GhostExplained /\ MissingExplained

\* Every step of NewDocker preserves the invariant.
LEMMA NewDockerInv == RegistryInv /\ NewDocker => RegistryInv'
<1> SUFFICES ASSUME RegistryInv, NewDocker PROVE RegistryInv'
  OBVIOUS
<1>0. TypeOK'
  BY NewDockerType DEF RegistryInv
<1> USE DEF RegistryInv
<1>1. CASE InitList
  <2> USE <1>1 DEF InitList
  <2>1. Startup'
    BY DEF Startup, Exists, daemonVars, registryVars, queueVars, TypeOK, QueueTypeOK
  <2>2. Truth'
    BY NoCidAssumption DEF Truth, Handled, Announced, Queued, Exists, daemonVars, registryVars, queueVars, TypeOK, InitTypeOK, WatchTypeOK, LoopTypeOK
  <2>3. GhostExplained'
    BY DEF GhostExplained, Truth, Handled, Announced, Queued, Startup, Exists, daemonVars, registryVars, queueVars, TypeOK, InitTypeOK, WatchTypeOK, LoopTypeOK, RegistryTypeOK
  <2>4. MissingExplained'
    BY DEF MissingExplained, Truth, Announced, Queued, Exists, daemonVars, registryVars, queueVars, TypeOK, InitTypeOK, WatchTypeOK, LoopTypeOK, RegistryTypeOK
  <2> QED BY <1>0, <2>1, <2>2, <2>3, <2>4
<1>2. CASE InitListFails
  <2> USE <1>2 DEF InitListFails
  <2>1. Startup'
    BY DEF Startup, InitAt, Exists, daemonVars, registryVars, queueVars, TypeOK, QueueTypeOK
  <2>2. Truth'
    BY NoCidAssumption DEF Truth, Handled, Announced, Queued, InitAt, Exists, daemonVars, registryVars, queueVars, TypeOK, InitTypeOK, WatchTypeOK, LoopTypeOK
  <2>3. GhostExplained'
    BY DEF GhostExplained, Truth, Handled, Announced, Queued, Startup, InitAt, Exists, daemonVars, registryVars, queueVars, TypeOK, InitTypeOK, WatchTypeOK, LoopTypeOK, RegistryTypeOK
  <2>4. MissingExplained'
    BY DEF MissingExplained, Truth, Announced, Queued, InitAt, Exists, daemonVars, registryVars, queueVars, TypeOK, InitTypeOK, WatchTypeOK, LoopTypeOK, RegistryTypeOK
  <2> QED BY <1>0, <2>1, <2>2, <2>3, <2>4
<1>3. CASE InitGet
  <2>1. PICK y \in init.todo :
            /\ init'.id = y /\ init'.todo = init.todo \ {y}
            /\ \/ y \in registry /\ init'.pc = "set"
               \/ y \notin registry /\ init'.pc = "insert"
    BY <1>3 DEF InitGet, TypeOK, InitTypeOK
  <2>2. /\ UNCHANGED <<daemon, listener, events, registry, needsRefresh,
                       closed, watch, loop, lost>>
        /\ init.pc = "next"
    BY <1>3 DEF InitGet, daemonVars, registryVars, queueVars
  <2>3. Startup'
    BY <2>1, <2>2 DEF Startup
  <2>4. Truth'
    BY <2>1, <2>2 DEF Truth, Handled, Announced, Queued
  <2>5. GhostExplained'
    BY <2>1, <2>2 DEF GhostExplained, Announced, Queued, Exists
  <2>6. MissingExplained'
    BY <2>1, <2>2 DEF MissingExplained, Announced, Queued, Exists
  <2> QED BY <1>0, <2>3, <2>4, <2>5, <2>6
<1>4. CASE InitInsert
  <2> USE <1>4 DEF InitInsert
  <2>1. Startup'
    BY DEF Startup, MustGetInsert, daemonVars, queueVars, TypeOK, QueueTypeOK
  <2>2. Truth'
    BY NoCidAssumption DEF Truth, Handled, Announced, Queued, MustGetInsert, daemonVars, queueVars, TypeOK, InitTypeOK, WatchTypeOK, LoopTypeOK
  <2>3. GhostExplained'
    BY DEF GhostExplained, Truth, Handled, Announced, Queued, Startup, MustGetInsert, daemonVars, queueVars, Exists, TypeOK, InitTypeOK, WatchTypeOK, LoopTypeOK, RegistryTypeOK
  <2>4. MissingExplained'
    BY DEF MissingExplained, Truth, Announced, Queued, MustGetInsert, daemonVars, queueVars, Exists, TypeOK, InitTypeOK, WatchTypeOK, LoopTypeOK, RegistryTypeOK
  <2> QED BY <1>0, <2>1, <2>2, <2>3, <2>4
<1>5. CASE InitSetState
  <2> USE <1>5 DEF InitSetState
  <2>1. Startup'
    BY DEF Startup, daemonVars, queueVars, TypeOK, QueueTypeOK
  <2>2. Truth'
    BY NoCidAssumption DEF Truth, Handled, Announced, Queued, daemonVars, queueVars, TypeOK, InitTypeOK, WatchTypeOK, LoopTypeOK
  <2>3. GhostExplained'
    BY DEF GhostExplained, Truth, Handled, Announced, Queued, Startup, daemonVars, queueVars, Exists, TypeOK, InitTypeOK, WatchTypeOK, LoopTypeOK, RegistryTypeOK
  <2>4. MissingExplained'
    BY DEF MissingExplained, Truth, Announced, Queued, daemonVars, queueVars, Exists, TypeOK, InitTypeOK, WatchTypeOK, LoopTypeOK, RegistryTypeOK
  <2> QED BY <1>0, <2>1, <2>2, <2>3, <2>4
<1>6. CASE InitSend
  <2>1. /\ UNCHANGED <<daemon, listener, events, registry, closed, watch, loop,
                       lost>>
        /\ init.pc = "send" /\ init'.pc = "next" /\ init'.id = NoCid
        /\ init'.todo = init.todo
    BY <1>6 DEF InitSend, daemonVars, registryVars, TypeOK, InitTypeOK
  <2>2. Queued' = Queued \cup {init.id}
    BY <1>6, ElementsAppend DEF InitSend, Queued, TypeOK, QueueTypeOK, InitTypeOK
  <2>3. Startup'
    BY <2>1 DEF Startup
  <2>4. Truth'
    BY <2>1, <2>2, NoCidAssumption DEF Truth, Handled, Announced
  <2>5. GhostExplained'
    BY <2>1, <2>2 DEF GhostExplained, Announced, Exists
  <2>6. MissingExplained'
    BY <2>1, <2>2 DEF MissingExplained, Announced, Exists
  <2> QED BY <1>0, <2>3, <2>4, <2>5, <2>6
<1>7. CASE InitDone
  <2>1. /\ UNCHANGED <<daemon, listener, events, registry, needsRefresh,
                       closed, loop, lost>>
        /\ init.pc = "next" /\ init.todo = {}
        /\ init'.pc = "done" /\ init'.id = NoCid /\ init'.todo = {}
        /\ watch'.pc = "listen" /\ watch'.id = NoCid /\ watch.pc # "create"
    BY <1>7 DEF InitDone, InitAt, WatchAt, Startup, daemonVars, registryVars,
             queueVars
  <2>2. Startup'
    BY <2>1 DEF Startup
  <2>3. Truth'
    BY <2>1, NoCidAssumption DEF Truth, Handled, Announced, Queued
  <2>4. GhostExplained'
    BY <2>1 DEF GhostExplained, Announced, Queued, Exists
  <2>5. MissingExplained'
    BY <2>1 DEF MissingExplained, Announced, Queued, Exists
  <2> QED BY <1>0, <2>2, <2>3, <2>4, <2>5
<1> QED BY <1>1, <1>2, <1>3, <1>4, <1>5, <1>6, <1>7 DEF NewDocker

\* Every step of WatchEvents preserves the invariant.
LEMMA WatchInv == RegistryInv /\ WatchEvents => RegistryInv'
<1> SUFFICES ASSUME RegistryInv, WatchEvents PROVE RegistryInv'
  OBVIOUS
<1>0. TypeOK'
  BY WatchType DEF RegistryInv
<1> USE DEF RegistryInv
<1>1. CASE WatchListen
  <2> USE <1>1 DEF WatchListen
  <2>1. Startup'
    BY DEF Startup, WatchAt, daemonVars, registryVars, queueVars, TypeOK, QueueTypeOK
  <2>2. Truth'
    BY NoCidAssumption DEF Truth, Handled, Announced, Queued, WatchAt, daemonVars, registryVars, queueVars, TypeOK, InitTypeOK, WatchTypeOK, LoopTypeOK
  <2>3. GhostExplained'
    BY DEF GhostExplained, Truth, Handled, Announced, Queued, Startup, WatchAt, daemonVars, registryVars, queueVars, Exists, TypeOK, InitTypeOK, WatchTypeOK, LoopTypeOK, RegistryTypeOK
  <2>4. MissingExplained'
    BY DEF MissingExplained, Truth, Announced, Queued, WatchAt, daemonVars, registryVars, queueVars, Exists, TypeOK, InitTypeOK, WatchTypeOK, LoopTypeOK, RegistryTypeOK
  <2> QED BY <1>0, <2>1, <2>2, <2>3, <2>4
<1>2. CASE WatchReceive
  <2> DEFINE e == Head(events)
  <2>1. e \in Event /\ Elements(events) = Elements(events') \cup {e}
    BY <1>2, ElementsTail DEF WatchReceive, TypeOK, DaemonTypeOK
  <2>2. /\ UNCHANGED <<daemon, listener, needsRefresh, closed, lost>>
        /\ watch.pc = "range"
    BY <1>2 DEF WatchReceive, daemonVars, queueVars
  <2>3. CASE e.action = "destroy"
    <3>1. e = [id |-> e.id, action |-> "destroy"] /\ e.id \in Cids
      BY <2>1, <2>3 DEF Event
    <3>2. e.id \in Announced("destroy")
      BY <2>1, <3>1 DEF Announced
    <3>3. daemon[e.id] = "gone"
      BY <3>1, <3>2 DEF Truth
    <3>4. /\ registry' = registry \ {e.id} /\ watch' = watch
          /\ init'.id = init.id /\ init'.pc = init.pc
          /\ init'.todo = init.todo
          /\ loop'.id = loop.id /\ loop'.pc = loop.pc
      BY <1>2, <2>3 DEF WatchReceive, Orphan, TypeOK, InitTypeOK, LoopTypeOK
    <3>5. Startup'
      BY <2>2, <3>4 DEF Startup
    <3>6. Truth'
      BY <2>1, <2>2, <3>4 DEF Truth, Handled, Announced, Queued
    <3>7. GhostExplained'
      <4> SUFFICES ASSUME NEW x \in registry', ~Exists(x),
                          x \in Announced("destroy")
                   PROVE  x \in Announced("destroy")'
        BY <2>2, <3>4 DEF GhostExplained, Queued, Exists
      <4>1. [id |-> x, action |-> "destroy"] # e
        BY <3>4
      <4> QED BY <2>1, <4>1 DEF Announced
    <3>8. MissingExplained'
      <4> SUFFICES ASSUME NEW x \in Cids \ registry', Exists(x),
                          x \notin registry, x \in Announced("create")
                   PROVE  x \in Announced("create")'
        BY <2>2, <3>3, <3>4 DEF MissingExplained, Queued, Exists
      <4>1. [id |-> x, action |-> "create"] # e
        BY <3>1
      <4> QED BY <2>1, <4>1 DEF Announced
    <3> QED BY <1>0, <3>5, <3>6, <3>7, <3>8
  <2>4. CASE e.action # "destroy"
    <3>1. /\ UNCHANGED <<registry, init, loop>>
          /\ watch'.id = e.id
          /\ watch'.pc = IF e.action = "create" THEN "create" ELSE "status"
      BY <1>2, <2>4 DEF WatchReceive
    <3>2. e = [id |-> e.id, action |-> e.action] /\ e.id \in Cids
          /\ e.action \in Actions
      BY <2>1 DEF Event
    <3>3. e.id \in Announced(e.action)
      BY <2>1, <3>2 DEF Announced
    <3>4. Startup'
      BY <2>2, <3>1 DEF Startup
    <3>5. Truth'
      BY <2>1, <2>2, <3>1, <3>2, <3>3 DEF Truth, Handled, Announced, Queued
    <3>6. GhostExplained'
      <4> SUFFICES ASSUME NEW x \in registry, ~Exists(x),
                          x \in Announced("destroy")
                   PROVE  x \in Announced("destroy")'
        BY <2>2, <3>1 DEF GhostExplained, Queued, Exists
      <4>1. [id |-> x, action |-> "destroy"] # e
        BY <2>4
      <4> QED BY <2>1, <4>1 DEF Announced
    <3>7. MissingExplained'
      <4> SUFFICES ASSUME NEW x \in Cids \ registry, Exists(x),
                          x \in Announced("create")
                   PROVE  \/ x \in Announced("create")'
                          \/ watch'.id = x /\ watch'.pc = "create"
        BY <2>2, <3>1 DEF MissingExplained, Queued, Exists
      <4>1. CASE [id |-> x, action |-> "create"] = e
        BY <3>1, <4>1
      <4>2. CASE [id |-> x, action |-> "create"] # e
        BY <2>1, <4>2 DEF Announced
      <4> QED BY <4>1, <4>2
    <3> QED BY <1>0, <3>4, <3>5, <3>6, <3>7
  <2> QED BY <2>3, <2>4
<1>3. CASE WatchSendCreate
  <2>1. /\ UNCHANGED <<daemon, listener, events, registry, closed, init, loop,
                       lost>>
        /\ watch.pc = "create" /\ watch'.pc \in {"range", "done"}
        /\ watch'.id = NoCid
        /\ \/ needsRefresh' = Append(needsRefresh, watch.id)
           \/ closed /\ needsRefresh' = needsRefresh
    BY <1>3 DEF WatchSendCreate, WatchAt, daemonVars, registryVars
  <2>2. \/ Queued' = Queued \cup {watch.id}
        \/ closed /\ Queued' = Queued
    <3>1. CASE needsRefresh' = Append(needsRefresh, watch.id)
      BY <2>1, <3>1, ElementsAppend DEF Queued, TypeOK, QueueTypeOK, WatchTypeOK
    <3> QED BY <2>1, <3>1 DEF Queued
  <2>3. Startup'
    BY <2>1 DEF Startup
  <2>4. Truth'
    BY <2>1, <2>2, NoCidAssumption DEF Truth, Handled, Announced
  <2>5. GhostExplained'
    BY <2>1, <2>2 DEF GhostExplained, Announced, Exists
  <2>6. MissingExplained'
    BY <2>1, <2>2 DEF MissingExplained, Announced, Exists
  <2> QED BY <1>0, <2>3, <2>4, <2>5, <2>6
<1>4. CASE WatchSendStatus
  <2>1. /\ UNCHANGED <<daemon, listener, events, registry, needsRefresh,
                       closed, init, loop, lost>>
        /\ watch.pc = "status"
    BY <1>4 DEF WatchSendStatus, daemonVars, registryVars
  <2>2. /\ watch'.pc \in {"range", "refresh", "done"}
        /\ watch'.id \in {watch.id, NoCid}
    <3>1. \/ watch' = WatchAt("range") \/ watch' = WatchAt("done")
          \/ watch' = [watch EXCEPT !.pc = "refresh"]
      BY <1>4 DEF WatchSendStatus
    <3> QED BY <3>1 DEF WatchAt, TypeOK, WatchTypeOK
  <2>3. Startup'
    BY <2>1, <2>2 DEF Startup
  <2>4. Truth'
    BY <2>1, <2>2, NoCidAssumption DEF Truth, Handled, Announced, Queued
  <2>5. GhostExplained'
    BY <2>1 DEF GhostExplained, Announced, Queued, Exists
  <2>6. MissingExplained'
    BY <2>1 DEF MissingExplained, Announced, Queued, Exists
  <2> QED BY <1>0, <2>3, <2>4, <2>5, <2>6
<1>5. CASE WatchSendRefresh
  <2>1. /\ UNCHANGED <<daemon, listener, events, registry, closed, init, loop>>
        /\ watch.pc = "refresh" /\ watch'.pc = "range" /\ watch'.id = NoCid
        /\ lost'.untold = lost.untold /\ lost'.inspect = lost.inspect
        /\ \/ needsRefresh' = Append(needsRefresh, watch.id)
           \/ needsRefresh' = needsRefresh
    BY <1>5 DEF WatchSendRefresh, WatchAt, TypeOK, RegistryTypeOK, daemonVars,
             registryVars
  <2>2. Queued' = Queued \cup {watch.id} \/ Queued' = Queued
    <3>1. CASE needsRefresh' = Append(needsRefresh, watch.id)
      BY <2>1, <3>1, ElementsAppend DEF Queued, TypeOK, QueueTypeOK, WatchTypeOK
    <3> QED BY <2>1, <3>1 DEF Queued
  <2>3. Startup'
    BY <2>1 DEF Startup
  <2>4. Truth'
    BY <2>1, <2>2, NoCidAssumption DEF Truth, Handled, Announced
  <2>5. GhostExplained'
    BY <2>1, <2>2 DEF GhostExplained, Announced, Exists
  <2>6. MissingExplained'
    BY <2>1, <2>2 DEF MissingExplained, Announced, Exists
  <2> QED BY <1>0, <2>3, <2>4, <2>5, <2>6
<1>6. CASE WatchEnd
  <2> USE <1>6 DEF WatchEnd
  <2>1. Startup'
    BY DEF Startup, WatchAt, daemonVars, registryVars, queueVars, TypeOK, QueueTypeOK
  <2>2. Truth'
    BY NoCidAssumption DEF Truth, Handled, Announced, Queued, WatchAt, daemonVars, registryVars, queueVars, TypeOK, InitTypeOK, WatchTypeOK, LoopTypeOK
  <2>3. GhostExplained'
    BY DEF GhostExplained, Truth, Handled, Announced, Queued, Startup, WatchAt, daemonVars, registryVars, queueVars, Exists, TypeOK, InitTypeOK, WatchTypeOK, LoopTypeOK, RegistryTypeOK
  <2>4. MissingExplained'
    BY DEF MissingExplained, Truth, Announced, Queued, WatchAt, daemonVars, registryVars, queueVars, Exists, TypeOK, InitTypeOK, WatchTypeOK, LoopTypeOK, RegistryTypeOK
  <2> QED BY <1>0, <2>1, <2>2, <2>3, <2>4
<1> QED BY <1>1, <1>2, <1>3, <1>4, <1>5, <1>6 DEF WatchEvents

\* Every step of Loop preserves the invariant.
LEMMA LoopInv == RegistryInv /\ Loop => RegistryInv'
<1> SUFFICES ASSUME RegistryInv, Loop PROVE RegistryInv'
  OBVIOUS
<1>0. TypeOK'
  BY LoopType DEF RegistryInv
<1> USE DEF RegistryInv
<1>1. CASE LoopTake
  <2> USE <1>1 DEF LoopTake
  <2>1. Queued = Queued' \cup {Head(needsRefresh)}
    BY ElementsTail DEF Queued, TypeOK, QueueTypeOK
  <2>2. Startup'
    BY <2>1 DEF Startup, daemonVars, registryVars, TypeOK, QueueTypeOK
  <2>3. Truth'
    BY <2>1, NoCidAssumption DEF Truth, Handled, Announced, Queued, daemonVars, registryVars, TypeOK, InitTypeOK, WatchTypeOK, LoopTypeOK
  <2>4. GhostExplained'
    BY <2>1 DEF GhostExplained, Truth, Handled, Announced, Queued, Startup, daemonVars, registryVars, Exists, TypeOK, InitTypeOK, WatchTypeOK, LoopTypeOK, RegistryTypeOK
  <2>5. MissingExplained'
    BY <2>1 DEF MissingExplained, Truth, Announced, Queued, daemonVars, registryVars, Exists, TypeOK, InitTypeOK, WatchTypeOK, LoopTypeOK, RegistryTypeOK
  <2> QED BY <1>0, <2>2, <2>3, <2>4, <2>5
<1>2. CASE LoopGet
  <2> USE <1>2 DEF LoopGet
  <2>1. Startup'
    BY DEF Startup, daemonVars, registryVars, queueVars, TypeOK, QueueTypeOK
  <2>2. Truth'
    BY NoCidAssumption DEF Truth, Handled, Announced, Queued, daemonVars, registryVars, queueVars, TypeOK, InitTypeOK, WatchTypeOK, LoopTypeOK
  <2>3. GhostExplained'
    BY DEF GhostExplained, Truth, Handled, Announced, Queued, Startup, daemonVars, registryVars, queueVars, Exists, TypeOK, InitTypeOK, WatchTypeOK, LoopTypeOK, RegistryTypeOK
  <2>4. MissingExplained'
    BY DEF MissingExplained, Truth, Announced, Queued, daemonVars, registryVars, queueVars, Exists, TypeOK, InitTypeOK, WatchTypeOK, LoopTypeOK, RegistryTypeOK
  <2> QED BY <1>0, <2>1, <2>2, <2>3, <2>4
<1>3. CASE LoopInsert
  <2> USE <1>3 DEF LoopInsert
  <2>1. Startup'
    BY DEF Startup, MustGetInsert, daemonVars, queueVars, TypeOK, QueueTypeOK
  <2>2. Truth'
    BY NoCidAssumption DEF Truth, Handled, Announced, Queued, MustGetInsert, daemonVars, queueVars, TypeOK, InitTypeOK, WatchTypeOK, LoopTypeOK
  <2>3. GhostExplained'
    BY DEF GhostExplained, Truth, Handled, Announced, Queued, Startup, MustGetInsert, daemonVars, queueVars, Exists, TypeOK, InitTypeOK, WatchTypeOK, LoopTypeOK, RegistryTypeOK
  <2>4. MissingExplained'
    BY DEF MissingExplained, Truth, Announced, Queued, MustGetInsert, daemonVars, queueVars, Exists, TypeOK, InitTypeOK, WatchTypeOK, LoopTypeOK, RegistryTypeOK
  <2> QED BY <1>0, <2>1, <2>2, <2>3, <2>4
<1>4. CASE LoopInspect
  <2> USE <1>4 DEF LoopInspect
  <2>1. Startup'
    BY DEF Startup, Exists, daemonVars, registryVars, queueVars, TypeOK, QueueTypeOK
  <2>2. Truth'
    BY NoCidAssumption DEF Truth, Handled, Announced, Queued, Exists, daemonVars, registryVars, queueVars, TypeOK, InitTypeOK, WatchTypeOK, LoopTypeOK
  <2>3. GhostExplained'
    BY DEF GhostExplained, Truth, Handled, Announced, Queued, Startup, Exists, daemonVars, registryVars, queueVars, TypeOK, InitTypeOK, WatchTypeOK, LoopTypeOK, RegistryTypeOK
  <2>4. MissingExplained'
    BY DEF MissingExplained, Truth, Announced, Queued, Exists, daemonVars, registryVars, queueVars, TypeOK, InitTypeOK, WatchTypeOK, LoopTypeOK, RegistryTypeOK
  <2> QED BY <1>0, <2>1, <2>2, <2>3, <2>4
<1>5. CASE LoopInspectFails
  <2> USE <1>5 DEF LoopInspectFails
  <2>1. Startup'
    BY DEF Startup, LoopAt, daemonVars, registryVars, queueVars, TypeOK, QueueTypeOK
  <2>2. Truth'
    BY NoCidAssumption DEF Truth, Handled, Announced, Queued, LoopAt, daemonVars, registryVars, queueVars, TypeOK, InitTypeOK, WatchTypeOK, LoopTypeOK
  <2>3. GhostExplained'
    BY DEF GhostExplained, Truth, Handled, Announced, Queued, Startup, LoopAt, daemonVars, registryVars, queueVars, Exists, TypeOK, InitTypeOK, WatchTypeOK, LoopTypeOK, RegistryTypeOK
  <2>4. MissingExplained'
    BY DEF MissingExplained, Truth, Announced, Queued, LoopAt, daemonVars, registryVars, queueVars, Exists, TypeOK, InitTypeOK, WatchTypeOK, LoopTypeOK, RegistryTypeOK
  <2> QED BY <1>0, <2>1, <2>2, <2>3, <2>4
<1>6. CASE LoopDelete
  <2> USE <1>6 DEF LoopDelete
  <2>1. Startup'
    BY DEF Startup, LoopAt, Orphan, daemonVars, queueVars, TypeOK, QueueTypeOK
  <2>2. Truth'
    BY NoCidAssumption DEF Truth, Handled, Announced, Queued, LoopAt, Orphan, daemonVars, queueVars, TypeOK, InitTypeOK, WatchTypeOK, LoopTypeOK
  <2>3. GhostExplained'
    BY DEF GhostExplained, Truth, Handled, Announced, Queued, Startup, LoopAt, Orphan, daemonVars, queueVars, Exists, TypeOK, InitTypeOK, WatchTypeOK, LoopTypeOK, RegistryTypeOK
  <2>4. MissingExplained'
    BY DEF MissingExplained, Truth, Announced, Queued, LoopAt, Orphan, daemonVars, queueVars, Exists, TypeOK, InitTypeOK, WatchTypeOK, LoopTypeOK, RegistryTypeOK
  <2> QED BY <1>0, <2>1, <2>2, <2>3, <2>4
<1>7. CASE LoopApply
  <2> USE <1>7 DEF LoopApply
  <2>1. Startup'
    BY DEF Startup, daemonVars, queueVars, TypeOK, QueueTypeOK
  <2>2. Truth'
    BY NoCidAssumption DEF Truth, Handled, Announced, Queued, daemonVars, queueVars, TypeOK, InitTypeOK, WatchTypeOK, LoopTypeOK
  <2>3. GhostExplained'
    BY DEF GhostExplained, Truth, Handled, Announced, Queued, Startup, daemonVars, queueVars, Exists, TypeOK, InitTypeOK, WatchTypeOK, LoopTypeOK, RegistryTypeOK
  <2>4. MissingExplained'
    BY DEF MissingExplained, Truth, Announced, Queued, daemonVars, queueVars, Exists, TypeOK, InitTypeOK, WatchTypeOK, LoopTypeOK, RegistryTypeOK
  <2> QED BY <1>0, <2>1, <2>2, <2>3, <2>4
<1>8. CASE LoopFinish
  <2> USE <1>8 DEF LoopFinish
  <2>1. Startup'
    BY DEF Startup, LoopAt, daemonVars, queueVars, TypeOK, QueueTypeOK
  <2>2. Truth'
    BY NoCidAssumption DEF Truth, Handled, Announced, Queued, LoopAt, daemonVars, queueVars, TypeOK, InitTypeOK, WatchTypeOK, LoopTypeOK
  <2>3. GhostExplained'
    BY DEF GhostExplained, Truth, Handled, Announced, Queued, Startup, LoopAt, daemonVars, queueVars, Exists, TypeOK, InitTypeOK, WatchTypeOK, LoopTypeOK, RegistryTypeOK
  <2>4. MissingExplained'
    BY DEF MissingExplained, Truth, Announced, Queued, LoopAt, daemonVars, queueVars, Exists, TypeOK, InitTypeOK, WatchTypeOK, LoopTypeOK, RegistryTypeOK
  <2> QED BY <1>0, <2>1, <2>2, <2>3, <2>4
<1>9. CASE LoopExit
  <2> USE <1>9 DEF LoopExit
  <2>1. Startup'
    BY DEF Startup, LoopAt, daemonVars, registryVars, queueVars, TypeOK, QueueTypeOK
  <2>2. Truth'
    BY NoCidAssumption DEF Truth, Handled, Announced, Queued, LoopAt, daemonVars, registryVars, queueVars, TypeOK, InitTypeOK, WatchTypeOK, LoopTypeOK
  <2>3. GhostExplained'
    BY DEF GhostExplained, Truth, Handled, Announced, Queued, Startup, LoopAt, daemonVars, registryVars, queueVars, Exists, TypeOK, InitTypeOK, WatchTypeOK, LoopTypeOK, RegistryTypeOK
  <2>4. MissingExplained'
    BY DEF MissingExplained, Truth, Announced, Queued, LoopAt, daemonVars, registryVars, queueVars, Exists, TypeOK, InitTypeOK, WatchTypeOK, LoopTypeOK, RegistryTypeOK
  <2> QED BY <1>0, <2>1, <2>2, <2>3, <2>4
<1> QED BY <1>1, <1>2, <1>3, <1>4, <1>5, <1>6, <1>7, <1>8, <1>9 DEF Loop

\* Every step of LoopStatuses preserves the invariant.
LEMMA StatInv == RegistryInv /\ LoopStatuses => RegistryInv'
<1> SUFFICES ASSUME RegistryInv, LoopStatuses PROVE RegistryInv'
  OBVIOUS
<1>0. TypeOK'
  BY StatType DEF RegistryInv
<1> USE DEF RegistryInv
<1>1. CASE StatTake
  <2> USE <1>1 DEF StatTake
  <2>1. Startup'
    BY DEF Startup, daemonVars, registryVars, TypeOK, QueueTypeOK
  <2>2. Truth'
    BY NoCidAssumption DEF Truth, Handled, Announced, Queued, daemonVars, registryVars, TypeOK, InitTypeOK, WatchTypeOK, LoopTypeOK
  <2>3. GhostExplained'
    BY DEF GhostExplained, Truth, Handled, Announced, Queued, Startup, daemonVars, registryVars, Exists, TypeOK, InitTypeOK, WatchTypeOK, LoopTypeOK, RegistryTypeOK
  <2>4. MissingExplained'
    BY DEF MissingExplained, Truth, Announced, Queued, daemonVars, registryVars, Exists, TypeOK, InitTypeOK, WatchTypeOK, LoopTypeOK, RegistryTypeOK
  <2> QED BY <1>0, <2>1, <2>2, <2>3, <2>4
<1>2. CASE StatGet
  <2> USE <1>2 DEF StatGet
  <2>1. Startup'
    BY DEF Startup, StatAt, daemonVars, registryVars, queueVars, TypeOK, QueueTypeOK
  <2>2. Truth'
    BY NoCidAssumption DEF Truth, Handled, Announced, Queued, StatAt, daemonVars, registryVars, queueVars, TypeOK, InitTypeOK, WatchTypeOK, LoopTypeOK
  <2>3. GhostExplained'
    BY DEF GhostExplained, Truth, Handled, Announced, Queued, Startup, StatAt, daemonVars, registryVars, queueVars, Exists, TypeOK, InitTypeOK, WatchTypeOK, LoopTypeOK, RegistryTypeOK
  <2>4. MissingExplained'
    BY DEF MissingExplained, Truth, Announced, Queued, StatAt, daemonVars, registryVars, queueVars, Exists, TypeOK, InitTypeOK, WatchTypeOK, LoopTypeOK, RegistryTypeOK
  <2> QED BY <1>0, <2>1, <2>2, <2>3, <2>4
<1>3. CASE StatApply
  <2> USE <1>3 DEF StatApply
  <2>1. Startup'
    BY DEF Startup, StatAt, daemonVars, queueVars, TypeOK, QueueTypeOK
  <2>2. Truth'
    BY NoCidAssumption DEF Truth, Handled, Announced, Queued, StatAt, daemonVars, queueVars, TypeOK, InitTypeOK, WatchTypeOK, LoopTypeOK
  <2>3. GhostExplained'
    BY DEF GhostExplained, Truth, Handled, Announced, Queued, Startup, StatAt, daemonVars, queueVars, Exists, TypeOK, InitTypeOK, WatchTypeOK, LoopTypeOK, RegistryTypeOK
  <2>4. MissingExplained'
    BY DEF MissingExplained, Truth, Announced, Queued, StatAt, daemonVars, queueVars, Exists, TypeOK, InitTypeOK, WatchTypeOK, LoopTypeOK, RegistryTypeOK
  <2> QED BY <1>0, <2>1, <2>2, <2>3, <2>4
<1>4. CASE StatExit
  <2> USE <1>4 DEF StatExit
  <2>1. Startup'
    BY DEF Startup, StatAt, daemonVars, registryVars, queueVars, TypeOK, QueueTypeOK
  <2>2. Truth'
    BY NoCidAssumption DEF Truth, Handled, Announced, Queued, StatAt, daemonVars, registryVars, queueVars, TypeOK, InitTypeOK, WatchTypeOK, LoopTypeOK
  <2>3. GhostExplained'
    BY DEF GhostExplained, Truth, Handled, Announced, Queued, Startup, StatAt, daemonVars, registryVars, queueVars, Exists, TypeOK, InitTypeOK, WatchTypeOK, LoopTypeOK, RegistryTypeOK
  <2>4. MissingExplained'
    BY DEF MissingExplained, Truth, Announced, Queued, StatAt, daemonVars, registryVars, queueVars, Exists, TypeOK, InitTypeOK, WatchTypeOK, LoopTypeOK, RegistryTypeOK
  <2> QED BY <1>0, <2>1, <2>2, <2>3, <2>4
<1> QED BY <1>1, <1>2, <1>3, <1>4 DEF LoopStatuses

\* The initial state satisfies the invariant.
LEMMA InitInv == Init => RegistryInv
<1> SUFFICES ASSUME Init PROVE RegistryInv
  OBVIOUS
<1>1. TypeOK
  BY InitType
<1>2. /\ registry = {} /\ needsRefresh = <<>> /\ events = <<>>
      /\ init.pc = "list" /\ init.id = NoCid /\ init.todo = {}
      /\ watch.pc = "off" /\ watch.id = NoCid
      /\ loop.pc = "idle" /\ loop.id = NoCid
      /\ listener = "none" /\ ~closed
  BY DEF Init, InitAt, WatchAt, LoopAt
<1>3. Queued = {} /\ Elements(events) = {}
  BY <1>2 DEF Queued, Elements
<1>4. Startup
  BY <1>2 DEF Startup
<1>5. Truth
  BY <1>2, <1>3, NoCidAssumption DEF Truth, Handled, Announced
<1>6. GhostExplained
  BY <1>2 DEF GhostExplained
<1>7. MissingExplained
  BY <1>2 DEF MissingExplained
<1> QED BY <1>1, <1>4, <1>5, <1>6, <1>7 DEF RegistryInv

\* Every change of the daemon, the end of its stream and Close preserve the
\* invariant.
LEMMA DaemonInv ==
    RegistryInv /\ (Daemon \/ StreamEnds \/ Close) => RegistryInv'
<1> SUFFICES ASSUME RegistryInv, Daemon \/ StreamEnds \/ Close
             PROVE  RegistryInv'
  OBVIOUS
<1>0. TypeOK'
  BY DaemonType DEF RegistryInv
<1> USE DEF RegistryInv
<1>1. CASE Daemon
  <2>1. PICK x \in Cids, s \in DaemonStates, h \in Healths, a \in Actions :
            /\ Change(x, s, h, a)
            /\ daemon[x] = "absent" <=> a = "create"
            /\ s = "gone" <=> a = "destroy"
            /\ daemon[x] # "gone" /\ s # "absent"
    <3>1. PICK x \in Cids :
              \/ DaemonCreate(x) \/ DaemonStart(x) \/ DaemonDie(x)
              \/ DaemonStop(x) \/ DaemonPause(x) \/ DaemonUnpause(x)
              \/ DaemonDestroy(x) \/ DaemonHealth(x)
      BY <1>1 DEF Daemon
    <3>2. health[x] \in Healths
      BY DEF TypeOK, DaemonTypeOK
    <3> QED BY <3>1, <3>2 DEF DaemonCreate, DaemonStart, DaemonDie,
            DaemonStop, DaemonPause, DaemonUnpause, DaemonDestroy,
            DaemonHealth, DaemonStates, Healths, Actions
  <2>2. /\ UNCHANGED <<listener, registry, needsRefresh, closed, init, watch,
                       loop>>
        /\ daemon' = [daemon EXCEPT ![x] = s]
        /\ lost'.inspect = lost.inspect
        /\ \/ lost'.untold = lost.untold \cup {x}
           \/ lost'.untold = lost.untold /\ (listener = "on" \/ init.pc = "list")
        /\ IF listener = "on"
           THEN events' = Append(events, [id |-> x, action |-> a])
           ELSE events' = events
    BY <2>1 DEF Change, registryVars, queueVars, workers, TypeOK, RegistryTypeOK
  <2>3. /\ listener = "on" =>
              Elements(events') = Elements(events) \cup {[id |-> x, action |-> a]}
        /\ listener # "on" => Elements(events') = Elements(events)
    <3> DEFINE e == [id |-> x, action |-> a]
    <3>1. e \in Event /\ events \in Seq(Event)
      BY DEF Event, TypeOK, DaemonTypeOK
    <3>2. listener = "on" => events' = Append(events, e)
      BY <2>2
    <3>3. listener # "on" => events' = events
      BY <2>2
    <3> HIDE DEF e
    <3>4. listener = "on" => Elements(events') = Elements(events) \cup {e}
      <4>1. Elements(Append(events, e)) = Elements(events) \cup {e}
        BY <3>1, ElementsAppend
      <4> QED BY <3>2, <4>1
    <3> QED BY <3>3, <3>4 DEF e
  <2>4. \A y \in Cids : daemon'[y] = IF y = x THEN s ELSE daemon[y]
    BY <2>2 DEF TypeOK, DaemonTypeOK
  <2>5. ASSUME NEW y \in Cids, NEW b \in Actions
        PROVE  y \in Announced(b)' <=> \/ y \in Announced(b)
                                       \/ listener = "on" /\ y = x /\ b = a
    <3>1. y \in Announced(b)' <=> [id |-> y, action |-> b] \in Elements(events')
      BY DEF Announced
    <3>2. y \in Announced(b) <=> [id |-> y, action |-> b] \in Elements(events)
      BY DEF Announced
    <3>3. [id |-> y, action |-> b] = [id |-> x, action |-> a] <=> y = x /\ b = a
      OBVIOUS
    <3> QED BY <2>3, <3>1, <3>2, <3>3
  <2>a. "destroy" \in Actions /\ "create" \in Actions
    BY DEF Actions
  <2>6. Startup'
    BY <2>2 DEF Startup
  <2>7. Truth'
    BY <2>1, <2>2, <2>4, <2>5, <2>a DEF Truth, Handled, Queued
  <2>8. GhostExplained'
    <3> SUFFICES ASSUME NEW y \in registry, ~Exists(y)', Exists(y),
                        y \notin lost'.untold
                 PROVE  y \in Announced("destroy")'
      BY <2>2, <2>5, <2>a DEF GhostExplained, Queued, TypeOK, RegistryTypeOK
    <3>1. y = x /\ s = "gone" /\ a = "destroy" /\ y \in Cids
      BY <2>1, <2>4 DEF Exists, TypeOK, RegistryTypeOK
    <3>2. listener = "on"
      BY <2>2, <3>1 DEF Startup
    <3> QED BY <2>5, <2>a, <3>1, <3>2
  <2>9. MissingExplained'
    <3> SUFFICES ASSUME NEW y \in Cids \ registry, Exists(y)', ~Exists(y),
                        y \notin lost'.untold, init.pc # "list"
                 PROVE  y \in Announced("create")'
      BY <2>2, <2>5, <2>a DEF MissingExplained, Queued
    <3>1. y = x /\ a = "create"
      BY <2>1, <2>4 DEF Exists
    <3> QED BY <2>2, <2>5, <2>a, <3>1
  <2> QED BY <1>0, <2>6, <2>7, <2>8, <2>9
<1>2. CASE StreamEnds
  <2>1. /\ UNCHANGED <<daemon, events, registry, needsRefresh, closed, init,
                       watch, loop, lost>>
        /\ watch.pc \notin {"off", "listen"}
    BY <1>2 DEF StreamEnds, Startup, daemonVars, registryVars, queueVars, workers
  <2>2. Startup'
    BY <2>1 DEF Startup
  <2>3. Truth' /\ GhostExplained' /\ MissingExplained'
    BY <2>1 DEF Truth, Handled, GhostExplained, MissingExplained, Announced,
                Queued, Exists
  <2> QED BY <1>0, <2>2, <2>3
<1>3. CASE Close
  <2>1. /\ UNCHANGED <<daemon, events, listener, registry, needsRefresh, init,
                       watch, loop, lost>>
        /\ init.pc = "done" /\ closed'
    BY <1>3 DEF Close, daemonVars, registryVars, queueVars, workers
  <2>2. Startup'
    BY <2>1 DEF Startup
  <2>3. Truth' /\ GhostExplained' /\ MissingExplained'
    BY <2>1 DEF Truth, Handled, GhostExplained, MissingExplained, Announced,
                Queued, Exists
  <2> QED BY <1>0, <2>2, <2>3
<1> QED BY <1>1, <1>2, <1>3

\* The invariant holds in every reachable state.
THEOREM RegistryCorrect == Spec => []RegistryInv
<1>1. RegistryInv /\ UNCHANGED vars => RegistryInv'
  <2> SUFFICES ASSUME RegistryInv, UNCHANGED vars PROVE RegistryInv'
    OBVIOUS
  <2>1. TypeOK'
    BY DEF RegistryInv, vars, daemonVars, registryVars, queueVars, workers,
       TypeOK, DaemonTypeOK, RegistryTypeOK, QueueTypeOK, InitTypeOK,
       WatchTypeOK, LoopTypeOK, StatTypeOK
  <2>2. Startup' /\ Truth' /\ GhostExplained' /\ MissingExplained'
    BY DEF RegistryInv, vars, daemonVars, registryVars, queueVars, workers,
       Startup, Truth, Handled, GhostExplained, MissingExplained, Announced,
       Queued, Exists
  <2> QED BY <2>1, <2>2 DEF RegistryInv
<1>2. RegistryInv /\ [Next]_vars => RegistryInv'
  BY <1>1, DaemonInv, NewDockerInv, WatchInv, LoopInv, StatInv DEF Next
<1> QED BY InitInv, <1>2, PTL DEF Spec

\* A row outlives its container only while its removal is under way: the
\* registry keeps no ghost that is not explained by a lost event or a failed
\* inspect.
THEOREM NoUnexplainedGhost == Spec => []GhostExplained
<1>1. RegistryInv => GhostExplained
  BY DEF RegistryInv
<1> QED BY <1>1, RegistryCorrect, PTL

\* A container of the daemon is missing from an open connector only while its
\* row is on the way, or when the connector was never told of it.
THEOREM NoUnexplainedAbsence == Spec => []MissingExplained
<1>1. RegistryInv => MissingExplained
  BY DEF RegistryInv
<1> QED BY <1>1, RegistryCorrect, PTL

\* No step removes the row of a container that the daemon still has.
THEOREM LiveRowsStay == Spec => NeverForgetsLive
<1>1. RegistryInv /\ [Next]_vars =>
          [\A x \in registry : x \notin registry' => daemon[x] = "gone"]_vars
  <2> SUFFICES ASSUME RegistryInv, [Next]_vars, NEW x \in registry,
                      x \notin registry'
               PROVE  daemon[x] = "gone"
    OBVIOUS
  <2>1. x \in Cids
    BY DEF RegistryInv, TypeOK, RegistryTypeOK
  <2>2. CASE LoopDelete
    BY <2>1, <2>2 DEF LoopDelete, RegistryInv, Truth
  <2>3. CASE WatchReceive
    <3>1. Head(events) \in Event /\ Head(events) \in Elements(events)
      BY <2>3, ElementsTail DEF WatchReceive, RegistryInv, TypeOK, DaemonTypeOK
    <3>2. Head(events).id = x /\ Head(events).action = "destroy"
      BY <2>3 DEF WatchReceive
    <3>3. Head(events) = [id |-> x, action |-> "destroy"]
      BY <3>1, <3>2 DEF Event
    <3> QED BY <2>1, <3>1, <3>3 DEF RegistryInv, Truth, Announced
  <2>4. CASE ~LoopDelete /\ ~WatchReceive
    <3>1. registry \subseteq registry'
      BY <2>4 DEF Next, Daemon, DaemonCreate, DaemonStart, DaemonDie,
         DaemonStop, DaemonPause, DaemonUnpause, DaemonDestroy, DaemonHealth,
         Change, StreamEnds, Close, NewDocker, InitList, InitListFails,
         InitGet, InitInsert, InitSetState, InitSend, InitDone, WatchEvents,
         WatchListen, WatchSendCreate, WatchSendStatus, WatchSendRefresh,
         WatchEnd, Loop, LoopTake, LoopGet, LoopInsert, LoopInspect,
         LoopInspectFails, LoopApply, LoopFinish, LoopExit, LoopStatuses,
         StatTake, StatGet, StatApply, StatExit, MustGetInsert, registryVars,
         vars
    <3> QED BY <3>1
  <2> QED BY <2>2, <2>3, <2>4
<1> QED BY <1>1, RegistryCorrect, PTL DEF Spec, NeverForgetsLive

-----------------------------------------------------------------------------
(* The state a row settles at. *)

\* The events that announce a state of x and the updates they become, and those
\* of them that are wrong about the daemon by now.
StateEvents(x) == {e \in Event : e.id = x /\ actionToStatus[e.action] # ""}
StaleEvents(x) ==
    {e \in StateEvents(x) : ~Agrees(actionToStatus[e.action], daemon[x])}
StateUpdates(x) == {u \in StatusUpdate : u.id = x /\ u.field = "state"}
StaleUpdates(x) == {u \in StateUpdates(x) : ~Agrees(u.value, daemon[x])}

\* Where such an announcement may be on its way to the row.
EventComes(x) == Elements(events) \cap StateEvents(x) # {}
WatchHas(x) ==
    watch.pc = "status" /\ watch.id = x /\ actionToStatus[watch.action] # ""
UpdateComes(x) == Elements(statuses) \cap StateUpdates(x) # {}
StatHas(x) ==
    stat.pc \in {"get", "apply"} /\ stat.id = x /\ stat.field = "state"

Ahead(x) == WatchHas(x) \/ EventComes(x)
StatusPending(x) == StatHas(x) \/ UpdateComes(x) \/ Ahead(x)

\* What is wrong in queue q is followed by something of S.
Corrected(q, W, S) ==
    \A i \in 1..Len(q) : q[i] \in W => \E k \in i+1..Len(q) : q[k] \in S

\* The last announcement under way agrees with the daemon: whatever disagrees
\* has another one behind it.
LastWord(x) ==
    /\ Corrected(events, StaleEvents(x), StateEvents(x))
    /\ WatchHas(x) =>
           Agrees(actionToStatus[watch.action], daemon[x]) \/ EventComes(x)
    /\ Ahead(x) \/ Corrected(statuses, StaleUpdates(x), StateUpdates(x))
    /\ StatHas(x) =>
           Agrees(stat.value, daemon[x]) \/ UpdateComes(x) \/ Ahead(x)

\* A refresh of x that Loop will take from its channel.
Coming(x) ==
    \/ x \in Queued
    \/ watch.id = x /\ watch.pc = "refresh"
    \/ Ahead(x)

\* A refresh of x that is still to write the state the daemon has now.
Refreshing(x) ==
    \/ Coming(x)
    \/ loop.id = x /\ loop.pc \in {"get", "insert", "inspect"}
    \/ loop.id = x /\ loop.pc \in {"apply", "finish"}
       /\ loop.seen.state = daemon[x]
    \/ init.id = x /\ init.pc \in {"insert", "set", "send"}

\* The connector is open and was told everything about x.
Followed(x) ==
    /\ Exists(x) /\ ~closed
    /\ x \notin lost.untold /\ x \notin lost.inspect /\ x \notin lost.refresh

\* Nobody writes through an orphan while the container is there.
Pointers(x) ==
    daemon[x] # "gone" =>
        /\ loop.id = x /\ loop.pc \in {"inspect", "apply", "finish"} =>
               loop.live
        /\ stat.id = x /\ stat.pc = "apply" => stat.live

Unheard(x) == daemon[x] = "absent" => ~StatusPending(x)

\* A state that Loop saw and that is out of date will be looked at again.
SeenAgain(x) ==
    loop.id = x /\ loop.pc \in {"apply", "finish"} =>
        loop.seen.state = daemon[x] \/ Coming(x)

\* A row that disagrees with the daemon is about to be written.
Settles(x) ==
    x \in registry => \/ Agrees(meta[x].state, daemon[x])
                      \/ Refreshing(x) \/ StatusPending(x)

Row(x) ==
    /\ Pointers(x) /\ Unheard(x)
    /\ Followed(x) => LastWord(x) /\ SeenAgain(x) /\ Settles(x)

\* LoopStatuses has nothing to do before watchEvents starts, which passes on
\* announcements of states and of health.
Announcing ==
    /\ watch.pc = "off" => statuses = <<>> /\ stat.pc \in {"idle", "done"}
    /\ watch.pc = "status" =>
           IsHealth(watch.action) \/ actionToStatus[watch.action] # ""

SettledInv == Announcing /\ \A x \in Cids : Row(x)

-----------------------------------------------------------------------------
(* Queues and what is wrong in them. *)

LEMMA MeetAppend ==
    ASSUME NEW T, NEW q \in Seq(T), NEW e \in T, NEW S
    PROVE  Elements(Append(q, e)) \cap S # {} <=>
               Elements(q) \cap S # {} \/ e \in S
BY ElementsAppend

LEMMA MeetTail ==
    ASSUME NEW T, NEW q \in Seq(T), q # <<>>, NEW S
    PROVE  Elements(q) \cap S # {} <=>
               Elements(Tail(q)) \cap S # {} \/ Head(q) \in S
BY ElementsTail

\* A value that is right corrects all that came before it.
LEMMA CorrectedByLast ==
    ASSUME NEW T, NEW q \in Seq(T), NEW e \in T, NEW W, NEW S, e \in S, e \notin W
    PROVE  Corrected(Append(q, e), W, S)
<1> DEFINE r == Append(q, e)
<1>1. /\ Len(q) \in Nat /\ Len(r) = Len(q) + 1 /\ r[Len(q) + 1] = e
      /\ \A i \in 1..Len(q) : r[i] = q[i]
  OBVIOUS
<1> HIDE DEF r
<1> SUFFICES ASSUME NEW i \in 1..Len(r), r[i] \in W
             PROVE  \E k \in i+1..Len(r) : r[k] \in S
  BY DEF Corrected, r
<1>2. i # Len(r)
  BY <1>1
<1>3. Len(r) \in i+1..Len(r)
  BY <1>1, <1>2
<1> QED BY <1>1, <1>3

LEMMA CorrectedByNext ==
    ASSUME NEW T, NEW q \in Seq(T), NEW e \in T, NEW W, NEW S, e \notin W,
           Corrected(q, W, S)
    PROVE  Corrected(Append(q, e), W, S)
<1> DEFINE r == Append(q, e)
<1>1. /\ Len(q) \in Nat /\ Len(r) = Len(q) + 1 /\ r[Len(q) + 1] = e
      /\ \A i \in 1..Len(q) : r[i] = q[i]
  OBVIOUS
<1> HIDE DEF r
<1> SUFFICES ASSUME NEW i \in 1..Len(r), r[i] \in W
             PROVE  \E k \in i+1..Len(r) : r[k] \in S
  BY DEF Corrected, r
<1>2. i \in 1..Len(q) /\ q[i] \in W
  BY <1>1
<1>3. PICK k \in i+1..Len(q) : q[k] \in S
  BY <1>2 DEF Corrected
<1>4. k \in i+1..Len(r) /\ k \in 1..Len(q)
  BY <1>1, <1>2, <1>3
<1> QED BY <1>1, <1>3, <1>4

LEMMA CorrectedTail ==
    ASSUME NEW T, NEW q \in Seq(T), q # <<>>, NEW W, NEW S, Corrected(q, W, S)
    PROVE  /\ Corrected(Tail(q), W, S)
           /\ Head(q) \in W => Elements(Tail(q)) \cap S # {}
<1> DEFINE r == Tail(q)
<1>1. /\ Len(q) \in Nat /\ Len(q) > 0 /\ Len(r) = Len(q) - 1 /\ q[1] = Head(q)
      /\ \A i \in 1..Len(r) : r[i] = q[i + 1]
  OBVIOUS
<1> HIDE DEF r
<1>2. ASSUME NEW i \in 1..Len(q), q[i] \in W
      PROVE  \E k \in i..Len(r) : r[k] \in S
  <2>1. PICK k \in i+1..Len(q) : q[k] \in S
    BY <1>2 DEF Corrected
  <2>2. k - 1 \in i..Len(r) /\ k - 1 \in 1..Len(r) /\ (k - 1) + 1 = k
    BY <1>1, <2>1
  <2>3. r[k - 1] = q[k]
    BY <1>1, <2>2
  <2> QED BY <2>1, <2>2, <2>3
<1>3. ASSUME NEW i \in 1..Len(r), r[i] \in W
      PROVE  \E k \in i+1..Len(r) : r[k] \in S
  <2>1. i + 1 \in 1..Len(q) /\ q[i + 1] \in W
    BY <1>1, <1>3
  <2> QED BY <1>2, <2>1
<1>4. ASSUME Head(q) \in W
      PROVE  Elements(r) \cap S # {}
  <2>1. 1 \in 1..Len(q) /\ q[1] \in W
    BY <1>1, <1>4
  <2>2. PICK k \in 1..Len(r) : r[k] \in S
    BY <1>2, <2>1
  <2> QED BY <2>2 DEF Elements
<1> QED BY <1>3, <1>4 DEF Corrected, r

\* Without announcements nothing is wrong.
LEMMA CorrectedNone ==
    ASSUME NEW q, NEW W, NEW S, W \subseteq S, Elements(q) \cap S = {}
    PROVE  Corrected(q, W, S)
BY DEF Corrected, Elements

-----------------------------------------------------------------------------
(* What a step leaves alone. *)

\* The announcements of a state, when nothing is said, sent or received.
LEMMA WordKept ==
    ASSUME NEW x \in Cids, UNCHANGED <<daemon, events, statuses>>,
           WatchHas(x)' <=> WatchHas(x),
           WatchHas(x) => watch'.action = watch.action,
           StatHas(x)' => StatHas(x) /\ stat'.value = stat.value
    PROVE  /\ Ahead(x)' <=> Ahead(x)
           /\ UpdateComes(x)' <=> UpdateComes(x)
           /\ StatusPending(x)' => StatusPending(x)
           /\ LastWord(x) => LastWord(x)'
           /\ Unheard(x) => Unheard(x)'
<1>1. EventComes(x)' <=> EventComes(x)
  BY DEF EventComes
<1>2. UpdateComes(x)' <=> UpdateComes(x)
  BY DEF UpdateComes
<1>3. Ahead(x)' <=> Ahead(x)
  BY <1>1 DEF Ahead
<1>4. StatusPending(x)' => StatusPending(x)
  BY <1>2, <1>3 DEF StatusPending
<1>5. StaleEvents(x)' = StaleEvents(x) /\ StaleUpdates(x)' = StaleUpdates(x)
  BY DEF StaleEvents, StaleUpdates
<1>6. LastWord(x) => LastWord(x)'
  BY <1>1, <1>2, <1>3, <1>5 DEF LastWord, Corrected
<1>7. Unheard(x) => Unheard(x)'
  BY <1>4 DEF Unheard
<1> QED BY <1>2, <1>3, <1>4, <1>6, <1>7

-----------------------------------------------------------------------------
(* The constructor. *)

LEMMA NewDockerSettles ==
    RegistryInv /\ SettledInv /\ NewDocker => SettledInv'
<1> SUFFICES ASSUME RegistryInv, SettledInv, NewDocker PROVE SettledInv'
  OBVIOUS
<1>1. /\ UNCHANGED <<daemon, events, statuses, closed, loop, stat>>
      /\ watch' = watch \/ (watch.pc = "off" /\ watch' = WatchAt("listen"))
      /\ lost'.inspect = lost.inspect /\ lost'.refresh = lost.refresh
      /\ \/ lost' = lost \/ InitListFails
  BY DEF NewDocker, InitList, InitListFails, InitGet, InitInsert,
     InitSetState, InitSend, InitDone, daemonVars, registryVars, queueVars,
     RegistryInv, TypeOK, RegistryTypeOK, Startup
<1>a. \/ watch' = watch
      \/ watch.pc = "off" /\ watch'.pc = "listen"
  BY <1>1 DEF WatchAt
<1>2. Announcing'
  <2>1. CASE watch' = watch
    BY <1>1, <2>1 DEF SettledInv, Announcing, IsHealth
  <2>2. CASE watch'.pc = "listen"
    BY <2>2 DEF Announcing
  <2> QED BY <1>a, <2>1, <2>2
<1>3. ASSUME NEW x \in Cids PROVE Row(x)'
  <2>1. Row(x)
    BY DEF SettledInv
  <2>2. WatchHas(x)' <=> WatchHas(x)
    <3>1. CASE watch' = watch
      BY <3>1 DEF WatchHas
    <3>2. CASE watch.pc = "off" /\ watch'.pc = "listen"
      BY <3>2 DEF WatchHas
    <3> QED BY <1>a, <3>1, <3>2
  <2>3. WatchHas(x) => watch'.action = watch.action
    BY <1>a DEF WatchHas
  <2>4. StatHas(x)' <=> StatHas(x)
    BY <1>1 DEF StatHas
  <2>5. /\ Ahead(x)' <=> Ahead(x)
        /\ UpdateComes(x)' <=> UpdateComes(x)
        /\ LastWord(x) => LastWord(x)'
        /\ Unheard(x) => Unheard(x)'
    BY <1>1, <2>2, <2>3, <2>4, WordKept
  <2>6. StatusPending(x)' <=> StatusPending(x)
    BY <2>4, <2>5 DEF StatusPending
  <2>7. Followed(x)' => Followed(x)
    <3>1. CASE lost' = lost
      BY <1>1, <3>1 DEF Followed, Exists
    <3>2. CASE InitListFails
      <4>1. lost'.untold = {y \in Cids : Exists(y)}
        BY <3>2 DEF InitListFails, RegistryInv, TypeOK, RegistryTypeOK
      <4> QED BY <1>1, <4>1 DEF Followed, Exists
    <3> QED BY <1>1, <3>1, <3>2
  <2>8. Pointers(x)'
    BY <1>1, <2>1 DEF Row, Pointers
  <2>9. Queued \subseteq Queued'
    <3>1. CASE InitSend
      BY <3>1, ElementsAppend DEF InitSend, Queued, RegistryInv, TypeOK,
         QueueTypeOK, InitTypeOK
    <3>2. CASE needsRefresh' = needsRefresh
      BY <3>2 DEF Queued
    <3> QED BY <3>1, <3>2 DEF NewDocker, InitList, InitListFails, InitGet,
            InitInsert, InitSetState, InitDone, queueVars
  <2>10. Coming(x) => Coming(x)'
    <3>1. watch.id = x /\ watch.pc = "refresh" => watch' = watch
      BY <1>1
    <3> QED BY <2>5, <2>9, <3>1 DEF Coming
  <2>11. SeenAgain(x) => SeenAgain(x)'
    BY <1>1, <2>10 DEF SeenAgain
  <2>12. ASSUME Settles(x) PROVE Settles(x)'
    <3>1. CASE init.id = x /\ init.pc \in {"insert", "set", "send"}
      <4>1. CASE init.pc = "send"
        <5>1. x \in Queued'
          <6>1. needsRefresh' = Append(needsRefresh, x)
            BY <3>1, <4>1 DEF NewDocker, InitList, InitListFails, InitGet,
               InitInsert, InitSetState, InitSend, InitDone
          <6>2. needsRefresh \in Seq(Cids)
            BY DEF RegistryInv, TypeOK, QueueTypeOK
          <6> QED BY <6>1, <6>2, ElementsAppend DEF Queued
        <5> QED BY <5>1 DEF Settles, Refreshing, Coming
      <4>2. CASE init.pc \in {"insert", "set"}
        <5>1. init'.id = x /\ init'.pc \in {"insert", "set", "send"}
          BY <3>1, <4>2 DEF NewDocker, InitList, InitListFails, InitGet,
             InitInsert, InitSetState, InitSend, InitDone, RegistryInv,
             TypeOK, InitTypeOK
        <5> QED BY <5>1 DEF Settles, Refreshing
      <4> QED BY <3>1, <4>1, <4>2
    <3>2. CASE ~(init.id = x /\ init.pc \in {"insert", "set", "send"})
      <4>1. x \in registry' => x \in registry
        BY <3>2 DEF NewDocker, InitList, InitListFails, InitGet, InitInsert,
           InitSetState, InitSend, InitDone, MustGetInsert, registryVars
      <4>2. meta'[x] = meta[x]
        BY <3>2 DEF NewDocker, InitList, InitListFails, InitGet, InitInsert,
           InitSetState, InitSend, InitDone, MustGetInsert, SetMeta,
           registryVars, RegistryInv, TypeOK, RegistryTypeOK, InitTypeOK
      <4>3. Refreshing(x) => Refreshing(x)'
        BY <1>1, <2>10, <3>2 DEF Refreshing
      <4> QED BY <1>1, <2>6, <2>12, <4>1, <4>2, <4>3 DEF Settles
    <3> QED BY <3>1, <3>2
  <2> QED BY <2>1, <2>5, <2>7, <2>8, <2>11, <2>12 DEF Row
<1> QED BY <1>2, <1>3 DEF SettledInv

-----------------------------------------------------------------------------
(* Loop. *)

\* A refresh writes the state that it saw; if the daemon has moved on since, a
\* later refresh is on its way.
LEMMA LoopSettles ==
    InspectHasStatus /\ RegistryInv /\ SettledInv /\ Loop => SettledInv'
<1> SUFFICES ASSUME InspectHasStatus, RegistryInv, SettledInv, Loop
             PROVE  SettledInv'
  OBVIOUS
<1> USE DEF RegistryInv, TypeOK
<1>1. /\ UNCHANGED <<daemon, events, statuses, closed, watch>>
      /\ stat'.pc = stat.pc /\ stat'.id = stat.id
      /\ stat'.field = stat.field /\ stat'.value = stat.value
      /\ init'.pc = init.pc /\ init'.id = init.id
      /\ lost'.untold = lost.untold /\ lost'.refresh = lost.refresh
      /\ lost.inspect \subseteq lost'.inspect
  <2>1. CASE LoopDelete
    BY <2>1 DEF LoopDelete, Orphan, daemonVars, queueVars, InitTypeOK,
       StatTypeOK
  <2>2. CASE LoopInspectFails
    BY <2>2 DEF LoopInspectFails, daemonVars, queueVars, RegistryTypeOK
  <2>3. CASE UNCHANGED <<daemonVars, events, statuses, closed, watch, stat,
                         init, lost>>
    BY <2>3 DEF daemonVars
  <2> QED BY <2>1, <2>2, <2>3 DEF Loop, LoopTake, LoopGet, LoopInsert,
          LoopInspect, LoopApply, LoopFinish, LoopExit, queueVars
<1>a. \/ loop'.pc \in {"idle", "done"}
      \/ LoopTake /\ loop'.pc = "get"
      \/ ~LoopTake /\ loop'.id = loop.id
         /\ \/ loop'.pc \in {"insert", "delete"} \/ loop'.live
            \/ loop.pc \in {"inspect", "apply"} /\ loop'.live = loop.live
  <2>1. CASE LoopTake
    BY <2>1 DEF LoopTake, LoopTypeOK
  <2>2. CASE LoopGet \/ LoopInsert
    BY <2>2 DEF LoopGet, LoopInsert, LoopTake, LoopTypeOK
  <2>3. CASE LoopInspect
    BY <2>3 DEF LoopInspect, LoopTake, LoopTypeOK
  <2>4. CASE LoopApply
    BY <2>4 DEF LoopApply, LoopTake, LoopTypeOK
  <2>5. CASE LoopInspectFails \/ LoopDelete \/ LoopFinish \/ LoopExit
    BY <2>5 DEF LoopInspectFails, LoopDelete, LoopFinish, LoopExit, LoopAt
  <2> QED BY <2>1, <2>2, <2>3, <2>4, <2>5 DEF Loop
<1>2. Announcing'
  BY <1>1 DEF SettledInv, Announcing, IsHealth
<1>3. ASSUME NEW x \in Cids PROVE Row(x)'
  <2>1. Row(x)
    BY DEF SettledInv
  <2>2. WatchHas(x)' <=> WatchHas(x)
    BY <1>1 DEF WatchHas
  <2>3. StatHas(x)' <=> StatHas(x)
    BY <1>1 DEF StatHas
  <2>4. /\ Ahead(x)' <=> Ahead(x)
        /\ UpdateComes(x)' <=> UpdateComes(x)
        /\ LastWord(x) => LastWord(x)'
        /\ Unheard(x) => Unheard(x)'
    BY <1>1, <2>2, <2>3, WordKept
  <2>5. StatusPending(x)' <=> StatusPending(x)
    BY <2>3, <2>4 DEF StatusPending
  <2>6. Followed(x)' => Followed(x)
    BY <1>1 DEF Followed, Exists
  <2>7. ASSUME daemon[x] # "gone", stat.id = x, stat.pc = "apply", stat.live
        PROVE  stat'.live
    <3>1. CASE LoopDelete
      <4>1. loop.id # x
        BY <2>7, <3>1 DEF LoopDelete, Truth
      <4> QED BY <2>7, <3>1, <4>1 DEF LoopDelete, Orphan
    <3>2. CASE stat' = stat
      BY <2>7, <3>2
    <3> QED BY <3>1, <3>2 DEF Loop, LoopTake, LoopGet, LoopInsert,
            LoopInspect, LoopInspectFails, LoopApply, LoopFinish, LoopExit
  <2>8. ASSUME loop'.id = x, loop'.pc \in {"inspect", "apply", "finish"}
        PROVE  \/ loop'.live
               \/ /\ loop.id = x /\ loop.pc \in {"inspect", "apply", "finish"}
                  /\ loop'.live = loop.live
    BY <1>a, <2>8
  <2>9. Pointers(x)'
    BY <1>1, <2>1, <2>7, <2>8 DEF Row, Pointers
  <2>10. CASE LoopTake
    <3>1. /\ loop.pc = "idle" /\ loop'.pc = "get"
          /\ loop'.id = Head(needsRefresh)
          /\ UNCHANGED <<registry, meta>>
      BY <2>10 DEF LoopTake, LoopTypeOK, registryVars
    <3>2. x \in Queued => x \in Queued' \/ loop'.id = x
      BY <2>10, <3>1, ElementsTail DEF LoopTake, Queued, QueueTypeOK
    <3>3. Refreshing(x) => Refreshing(x)'
      BY <1>1, <2>4, <3>1, <3>2 DEF Refreshing, Coming
    <3>4. Settles(x) => Settles(x)'
      BY <1>1, <2>5, <3>1, <3>3 DEF Settles
    <3>5. SeenAgain(x)'
      BY <3>1 DEF SeenAgain
    <3> QED BY <2>1, <2>4, <2>6, <2>9, <3>4, <3>5 DEF Row
  <2>11. CASE ~LoopTake
    <3>1. needsRefresh' = needsRefresh
      BY <2>11 DEF Loop, LoopGet, LoopInsert, LoopInspect, LoopInspectFails,
         LoopDelete, LoopApply, LoopFinish, LoopExit, queueVars
    <3>2. Coming(x)' <=> Coming(x)
      BY <1>1, <2>4, <3>1 DEF Coming, Queued
    <3>3. ASSUME loop.id # x, Settles(x), SeenAgain(x)
          PROVE  Settles(x)' /\ SeenAgain(x)'
      <4>1. loop'.id # x \/ loop'.pc \in {"idle", "done"}
        BY <1>a, <2>11, <3>3
      <4>2. x \in registry' => x \in registry
        BY <2>11, <3>3 DEF Loop, LoopGet, LoopInsert, LoopInspect,
           LoopInspectFails, LoopDelete, LoopApply, LoopFinish, LoopExit,
           MustGetInsert, registryVars
      <4>3. meta'[x] = meta[x]
        BY <2>11, <3>3 DEF Loop, LoopGet, LoopInsert, LoopInspect,
           LoopInspectFails, LoopDelete, LoopApply, LoopFinish, LoopExit,
           MustGetInsert, SetMeta, registryVars, RegistryTypeOK, LoopTypeOK
      <4>4. Refreshing(x) => Refreshing(x)'
        BY <1>1, <3>2, <3>3 DEF Refreshing
      <4>5. Settles(x)'
        BY <1>1, <2>5, <3>3, <4>2, <4>3, <4>4 DEF Settles
      <4>6. SeenAgain(x)'
        BY <4>1 DEF SeenAgain
      <4> QED BY <4>5, <4>6
    <3>4. ASSUME loop.id = x, Followed(x)', Settles(x), SeenAgain(x)
          PROVE  Settles(x)' /\ SeenAgain(x)'
      <4> USE <3>4
      <4>1. /\ Exists(x) /\ ~closed /\ x \notin lost'.inspect
            /\ daemon[x] # "gone"
        BY <1>1 DEF Followed, Exists
      <4>2. CASE LoopGet \/ LoopInsert
        <5>1. loop'.id = x /\ loop'.pc \in {"insert", "inspect"}
          BY <4>2 DEF LoopGet, LoopInsert, LoopTypeOK
        <5> QED BY <5>1 DEF Settles, Refreshing, SeenAgain
      <4>3. CASE LoopInspect
        <5>1. /\ loop'.id = x /\ loop'.pc = "apply"
              /\ loop'.seen.state = daemon[x]
          BY <4>1, <4>3 DEF LoopInspect, LoopTypeOK, Inspected
        <5> QED BY <1>1, <5>1 DEF Settles, Refreshing, SeenAgain
      <4>4. CASE LoopInspectFails
        BY <4>1, <4>4 DEF LoopInspectFails, RegistryTypeOK
      <4>5. CASE LoopDelete
        BY <4>1, <4>5 DEF LoopDelete, Truth
      <4>6. CASE LoopApply
        <5>1. /\ loop'.id = x /\ loop'.pc = "finish" /\ loop'.seen = loop.seen
              /\ loop.pc = "apply"
          BY <4>6 DEF LoopApply, LoopTypeOK
        <5>2. loop'.seen.state = daemon'[x] \/ Coming(x)'
          BY <1>1, <3>2, <5>1 DEF SeenAgain
        <5> QED BY <5>1, <5>2 DEF Settles, Refreshing, SeenAgain
      <4>7. CASE LoopFinish
        <5>1. loop.pc = "finish" /\ loop'.pc = "idle" /\ loop.live
          BY <2>1, <4>1, <4>7 DEF LoopFinish, LoopAt, Row, Pointers
        <5>2. meta'[x].state = loop.seen.state
          BY <4>7, <5>1 DEF LoopFinish, SetMeta, RegistryTypeOK, Meta
        <5>3. Agrees(meta'[x].state, daemon'[x]) \/ Coming(x)'
          BY <1>1, <3>2, <5>1, <5>2 DEF SeenAgain, Agrees
        <5> QED BY <5>1, <5>3 DEF Settles, Refreshing, SeenAgain
      <4>8. CASE LoopExit
        BY <4>1, <4>8 DEF LoopExit
      <4> QED BY <2>11, <4>2, <4>3, <4>4, <4>5, <4>6, <4>7, <4>8 DEF Loop
    <3> QED BY <2>1, <2>4, <2>6, <2>9, <3>3, <3>4 DEF Row
  <2> QED BY <2>10, <2>11
<1> QED BY <1>2, <1>3 DEF SettledInv

-----------------------------------------------------------------------------
(* LoopStatuses. *)

\* An announcement is written in the order the daemon made it; one that is out
\* of date has another one behind it.
LEMMA StatSettles ==
    RegistryInv /\ SettledInv /\ LoopStatuses => SettledInv'
<1> SUFFICES ASSUME RegistryInv, SettledInv, LoopStatuses PROVE SettledInv'
  OBVIOUS
<1> USE DEF RegistryInv, TypeOK
<1>1. UNCHANGED <<daemon, events, registry, needsRefresh, closed, init, watch,
                  loop, lost>>
  BY DEF LoopStatuses, StatTake, StatGet, StatApply, StatExit, daemonVars,
     registryVars, queueVars
<1>2. Announcing'
  <2>1. CASE watch.pc = "off"
    <3>1. statuses = <<>> /\ stat.pc \in {"idle", "done"}
      BY <2>1 DEF SettledInv, Announcing
    <3>2. StatExit
      BY <3>1 DEF LoopStatuses, StatTake, StatGet, StatApply
    <3>3. statuses' = <<>> /\ stat'.pc = "done"
      BY <3>1, <3>2 DEF StatExit, StatAt, queueVars
    <3>4. watch' = watch
      BY <1>1
    <3> QED BY <2>1, <3>3, <3>4 DEF SettledInv, Announcing
  <2> QED BY <1>1, <2>1 DEF SettledInv, Announcing, IsHealth
<1>3. ASSUME NEW x \in Cids PROVE Row(x)'
  <2>1. Row(x)
    BY DEF SettledInv
  <2>2. /\ WatchHas(x)' <=> WatchHas(x)
        /\ WatchHas(x) => watch'.action = watch.action
    BY <1>1 DEF WatchHas
  <2>3. Ahead(x)' <=> Ahead(x)
    BY <1>1, <2>2 DEF Ahead, EventComes
  <2>4. Coming(x)' <=> Coming(x)
    BY <1>1, <2>3 DEF Coming, Queued
  <2>5. /\ Followed(x)' <=> Followed(x)
        /\ SeenAgain(x)' <=> SeenAgain(x)
        /\ Refreshing(x)' <=> Refreshing(x)
    BY <1>1, <2>4 DEF Followed, Exists, SeenAgain, Refreshing
  <2>6. CASE StatTake
    <3> DEFINE u == Head(statuses)
    <3>1. /\ u \in StatusUpdate /\ statuses \in Seq(StatusUpdate)
          /\ statuses # <<>> /\ statuses' = Tail(statuses)
      BY <2>6 DEF StatTake, QueueTypeOK
    <3>2. /\ stat.pc = "idle" /\ stat'.pc = "get" /\ stat'.id = u.id
          /\ stat'.field = u.field /\ stat'.value = u.value /\ meta' = meta
      BY <2>6 DEF StatTake, registryVars
    <3> HIDE DEF u
    <3>3. StatHas(x)' <=> u \in StateUpdates(x)
      BY <3>1, <3>2 DEF StatHas, StateUpdates
    <3>4. ~StatHas(x)
      BY <3>2 DEF StatHas
    <3>5. UpdateComes(x) <=> UpdateComes(x)' \/ u \in StateUpdates(x)
      BY <3>1, MeetTail DEF UpdateComes, u
    <3>6. StatusPending(x)' <=> StatusPending(x)
      BY <2>3, <3>3, <3>4, <3>5 DEF StatusPending
    <3>7. StaleUpdates(x)' = StaleUpdates(x) /\ StaleEvents(x)' = StaleEvents(x)
      BY <1>1 DEF StaleUpdates, StaleEvents
    <3>8. ASSUME LastWord(x) PROVE LastWord(x)'
      <4>1. ASSUME ~Ahead(x)
            PROVE  /\ Corrected(Tail(statuses), StaleUpdates(x), StateUpdates(x))
                   /\ u \in StaleUpdates(x) => UpdateComes(x)'
        <5>1. Corrected(statuses, StaleUpdates(x), StateUpdates(x))
          BY <3>8, <4>1 DEF LastWord
        <5>2. /\ Corrected(Tail(statuses), StaleUpdates(x), StateUpdates(x))
              /\ u \in StaleUpdates(x) =>
                     Elements(Tail(statuses)) \cap StateUpdates(x) # {}
          BY <3>1, <5>1, CorrectedTail DEF u
        <5> QED BY <3>1, <5>2 DEF UpdateComes
      <4>2. StatHas(x)' => \/ Agrees(stat'.value, daemon[x])
                           \/ u \in StaleUpdates(x)
        BY <3>2, <3>3 DEF StaleUpdates
      <4>3. StatHas(x)' => \/ Agrees(stat'.value, daemon'[x])
                           \/ UpdateComes(x)' \/ Ahead(x)'
        BY <1>1, <2>3, <4>1, <4>2
      <4>4. Ahead(x)' \/ Corrected(statuses', StaleUpdates(x)', StateUpdates(x))
        BY <2>3, <3>1, <3>7, <4>1
      <4>5. Corrected(events', StaleEvents(x)', StateEvents(x))
        BY <1>1, <3>7, <3>8 DEF LastWord
      <4>6. WatchHas(x)' => \/ Agrees(actionToStatus[watch'.action], daemon'[x])
                            \/ EventComes(x)'
        BY <1>1, <2>2, <3>8 DEF LastWord, EventComes
      <4> QED BY <4>3, <4>4, <4>5, <4>6 DEF LastWord
    <3>9. Pointers(x)'
      BY <1>1, <2>1, <3>2 DEF Row, Pointers
    <3>10. Unheard(x)'
      BY <1>1, <2>1, <3>6 DEF Row, Unheard
    <3>11. Settles(x) => Settles(x)'
      BY <1>1, <2>5, <3>2, <3>6 DEF Settles
    <3> QED BY <2>1, <2>5, <3>8, <3>9, <3>10, <3>11 DEF Row
  <2>7. CASE ~StatTake
    <3>1. statuses' = statuses
      BY <2>7 DEF LoopStatuses, StatGet, StatApply, StatExit, queueVars
    <3>2. \/ stat'.pc \in {"idle", "done"}
          \/ /\ StatGet /\ stat.id \in registry
             /\ stat' = [stat EXCEPT !.pc = "apply", !.live = TRUE]
      <4>1. CASE StatGet
        BY <4>1 DEF StatGet, StatAt
      <4>2. CASE StatApply
        BY <4>2 DEF StatApply, StatAt
      <4>3. CASE StatExit
        BY <4>3 DEF StatExit, StatAt
      <4> QED BY <2>7, <4>1, <4>2, <4>3 DEF LoopStatuses
    <3>3. StatHas(x)' => StatHas(x) /\ stat'.value = stat.value
      BY <3>2 DEF StatHas, StatGet, StatTypeOK
    <3>4. /\ UpdateComes(x)' <=> UpdateComes(x)
          /\ LastWord(x) => LastWord(x)'
          /\ Unheard(x) => Unheard(x)'
      BY <1>1, <2>2, <3>1, <3>3, WordKept
    <3>5. Pointers(x)'
      BY <1>1, <2>1, <3>2 DEF Row, Pointers, StatTypeOK
    <3>6. ASSUME Followed(x), LastWord(x), Settles(x), x \in registry
          PROVE  \/ Agrees(meta'[x].state, daemon[x])
                 \/ Refreshing(x) \/ StatusPending(x)'
      <4>1. CASE StatGet
        <5>1. StatHas(x)' <=> StatHas(x)
          BY <3>6, <4>1 DEF StatGet, StatHas, StatTypeOK, StatAt
        <5>2. meta' = meta
          BY <4>1 DEF StatGet, registryVars
        <5> QED BY <2>3, <3>4, <3>6, <5>1, <5>2 DEF Settles, StatusPending
      <4>2. CASE StatApply /\ StatHas(x)
        <5>1. stat.live
          BY <2>1, <3>6, <4>2 DEF Row, Pointers, Followed, Exists, StatHas,
             StatApply
        <5>2. meta'[x].state = stat.value
          BY <4>2, <5>1 DEF StatApply, StatHas, SetMeta, RegistryTypeOK, Meta
        <5> QED BY <2>3, <3>4, <3>6, <4>2, <5>2 DEF LastWord, StatusPending
      <4>3. CASE StatApply /\ ~StatHas(x)
        <5>1. meta'[x].state = meta[x].state
          BY <4>3 DEF StatApply, StatHas, SetMeta, RegistryTypeOK, Meta,
             StatTypeOK
        <5> QED BY <2>3, <3>4, <3>6, <4>3, <5>1 DEF Settles, StatusPending
      <4>4. CASE StatExit
        BY <3>6, <4>4 DEF StatExit, Followed
      <4> QED BY <2>7, <4>1, <4>2, <4>3, <4>4 DEF LoopStatuses
    <3>7. Followed(x) /\ LastWord(x) /\ Settles(x) => Settles(x)'
      BY <1>1, <2>5, <3>6 DEF Settles
    <3> QED BY <2>1, <2>5, <3>4, <3>5, <3>7 DEF Row
  <2> QED BY <2>6, <2>7
<1> QED BY <1>2, <1>3 DEF SettledInv

-----------------------------------------------------------------------------
(* watchEvents. *)

\* What is received goes on to the updates in the order it came, and each
\* announcement asks for a refresh after it.
LEMMA ReceiveSettles ==
    RegistryInv /\ SettledInv /\ WatchReceive => SettledInv'
<1> SUFFICES ASSUME RegistryInv, SettledInv, WatchReceive PROVE SettledInv'
  OBVIOUS
<1> USE DEF RegistryInv, TypeOK
<1> DEFINE e == Head(events)
<1>1. /\ UNCHANGED <<daemon, statuses, closed, lost, meta, needsRefresh>>
      /\ loop'.pc = loop.pc /\ loop'.id = loop.id /\ loop'.seen = loop.seen
      /\ stat'.pc = stat.pc /\ stat'.id = stat.id
      /\ stat'.field = stat.field /\ stat'.value = stat.value
      /\ init'.pc = init.pc /\ init'.id = init.id
      /\ registry' \subseteq registry
      /\ watch.pc = "range"
  BY DEF WatchReceive, Orphan, daemonVars, queueVars, InitTypeOK, StatTypeOK,
     LoopTypeOK
<1>2. /\ e \in Event /\ events \in Seq(Event) /\ events # <<>>
      /\ events' = Tail(events) /\ e \in Elements(events)
  BY ElementsTail DEF WatchReceive, DaemonTypeOK
<1>3. \/ e.action = "destroy" /\ watch' = watch
      \/ e.action = "create" /\ watch'.pc = "create"
      \/ /\ e.action \notin {"destroy", "create"} /\ watch'.pc = "status"
         /\ watch'.id = e.id /\ watch'.action = e.action
  BY DEF WatchReceive
<1>4. e.action \in Actions
  BY <1>2 DEF Event
<1>5. ASSUME NEW y \in Cids, daemon[y] # "gone"
      PROVE  loop'.live = loop.live \/ loop.id # y
  <2>1. CASE e.action = "destroy"
    <3>1. e = [id |-> e.id, action |-> "destroy"] /\ e.id \in Cids
      BY <1>2, <2>1 DEF Event
    <3>2. daemon[e.id] = "gone"
      BY <1>2, <3>1 DEF Truth, Announced
    <3>3. loop' = Orphan(loop, e.id)
      BY <2>1 DEF WatchReceive
    <3> QED BY <1>5, <3>2, <3>3 DEF Orphan
  <2>2. CASE e.action # "destroy"
    BY <2>2 DEF WatchReceive
  <2> QED BY <2>1, <2>2
<1>6. ASSUME NEW y \in Cids, daemon[y] # "gone"
      PROVE  stat'.live = stat.live \/ stat.id # y
  <2>1. CASE e.action = "destroy"
    <3>1. e = [id |-> e.id, action |-> "destroy"] /\ e.id \in Cids
      BY <1>2, <2>1 DEF Event
    <3>2. daemon[e.id] = "gone"
      BY <1>2, <3>1 DEF Truth, Announced
    <3>3. stat' = Orphan(stat, e.id)
      BY <2>1 DEF WatchReceive
    <3> QED BY <1>6, <3>2, <3>3 DEF Orphan
  <2>2. CASE e.action # "destroy"
    BY <2>2 DEF WatchReceive
  <2> QED BY <2>1, <2>2
<1> HIDE DEF e
<1>7. Announcing'
  <2>1. CASE e.action \in {"destroy", "create"}
    BY <1>1, <1>3, <2>1 DEF Announcing
  <2>2. CASE e.action \notin {"destroy", "create"}
    <3>1. IsHealth(e.action) \/ actionToStatus[e.action] # ""
      BY <1>4, <2>2 DEF IsHealth, actionToStatus, Actions
    <3> QED BY <1>3, <2>2, <3>1 DEF Announcing, IsHealth
  <2> QED BY <2>1, <2>2
<1>8. ASSUME NEW x \in Cids PROVE Row(x)'
  <2>1. Row(x)
    BY DEF SettledInv
  <2>2. /\ WatchHas(x)' <=> e \in StateEvents(x)
        /\ WatchHas(x)' => watch'.action = e.action
    <3>1. CASE e.action \in {"destroy", "create"}
      <4>1. actionToStatus[e.action] = ""
        BY <1>4, <3>1 DEF actionToStatus
      <4> QED BY <1>1, <1>3, <3>1, <4>1 DEF WatchHas, StateEvents
    <3>2. CASE e.action \notin {"destroy", "create"}
      BY <1>2, <1>3, <3>2 DEF WatchHas, StateEvents
    <3> QED BY <3>1, <3>2
  <2>3. EventComes(x) <=> EventComes(x)' \/ e \in StateEvents(x)
    BY <1>2, MeetTail DEF EventComes, e
  <2>4. ~WatchHas(x)
    BY <1>1 DEF WatchHas
  <2>5. Ahead(x)' <=> Ahead(x)
    BY <2>2, <2>3, <2>4 DEF Ahead
  <2>6. StatHas(x)' <=> StatHas(x)
    BY <1>1 DEF StatHas
  <2>7. UpdateComes(x)' <=> UpdateComes(x)
    BY <1>1 DEF UpdateComes
  <2>8. StatusPending(x)' <=> StatusPending(x)
    BY <2>5, <2>6, <2>7 DEF StatusPending
  <2>9. StaleUpdates(x)' = StaleUpdates(x) /\ StaleEvents(x)' = StaleEvents(x)
    BY <1>1 DEF StaleUpdates, StaleEvents
  <2>10. ASSUME LastWord(x) PROVE LastWord(x)'
    <3>1. /\ Corrected(Tail(events), StaleEvents(x), StateEvents(x))
          /\ e \in StaleEvents(x) =>
                 Elements(Tail(events)) \cap StateEvents(x) # {}
      BY <1>2, <2>10, CorrectedTail DEF LastWord, e
    <3>2. WatchHas(x)' => \/ Agrees(actionToStatus[watch'.action], daemon'[x])
                          \/ EventComes(x)'
      BY <1>1, <1>2, <2>2, <3>1 DEF StaleEvents, EventComes
    <3>3. Ahead(x)' \/ Corrected(statuses', StaleUpdates(x)', StateUpdates(x))
      BY <1>1, <2>5, <2>9, <2>10 DEF LastWord
    <3>4. StatHas(x)' => \/ Agrees(stat'.value, daemon'[x])
                         \/ UpdateComes(x)' \/ Ahead(x)'
      BY <1>1, <2>5, <2>6, <2>7, <2>10 DEF LastWord
    <3>5. Corrected(events', StaleEvents(x)', StateEvents(x))
      BY <1>2, <2>9, <3>1
    <3> QED BY <3>2, <3>3, <3>4, <3>5 DEF LastWord
  <2>11. Coming(x) => Coming(x)'
    BY <1>1, <2>5 DEF Coming, Queued
  <2>12. Followed(x)' => Followed(x)
    BY <1>1 DEF Followed, Exists
  <2>13. SeenAgain(x) => SeenAgain(x)'
    BY <1>1, <2>11 DEF SeenAgain
  <2>14. Refreshing(x) => Refreshing(x)'
    BY <1>1, <2>11 DEF Refreshing
  <2>15. Settles(x) => Settles(x)'
    BY <1>1, <2>8, <2>14 DEF Settles
  <2>16. Pointers(x)'
    BY <1>1, <1>5, <1>6, <2>1 DEF Row, Pointers
  <2>17. Unheard(x)'
    BY <1>1, <2>1, <2>8 DEF Row, Unheard
  <2> QED BY <2>1, <2>10, <2>12, <2>13, <2>15, <2>16, <2>17 DEF Row
<1> QED BY <1>7, <1>8 DEF SettledInv

\* The update of an announcement takes its place among the updates.
LEMMA SendStatusSettles ==
    RegistryInv /\ SettledInv /\ WatchSendStatus => SettledInv'
<1> SUFFICES ASSUME RegistryInv, SettledInv, WatchSendStatus PROVE SettledInv'
  OBVIOUS
<1> USE DEF RegistryInv, TypeOK
<1>1. /\ UNCHANGED <<daemon, events, registry, meta, needsRefresh, closed,
                     init, loop, stat, lost>>
      /\ watch.pc = "status"
  BY DEF WatchSendStatus, daemonVars, registryVars
<1>2. watch'.pc \in {"range", "done", "refresh"}
  BY DEF WatchSendStatus, WatchAt, WatchTypeOK
<1>3. Announcing'
  BY <1>2 DEF Announcing
<1>4. ASSUME NEW x \in Cids PROVE Row(x)'
  <2>1. Row(x)
    BY DEF SettledInv
  <2>2. ~WatchHas(x)' /\ (Ahead(x)' <=> EventComes(x))
    BY <1>1, <1>2 DEF Ahead, WatchHas, EventComes
  <2>3. StatHas(x)' <=> StatHas(x)
    BY <1>1 DEF StatHas
  <2>4. StaleUpdates(x)' = StaleUpdates(x) /\ StaleEvents(x)' = StaleEvents(x)
    BY <1>1 DEF StaleUpdates, StaleEvents
  <2>5. Pointers(x)'
    BY <1>1, <2>1 DEF Row, Pointers
  <2>6. CASE statuses' = statuses /\ closed
    <3>1. StatusPending(x)' => StatusPending(x)
      BY <2>2, <2>3, <2>6 DEF StatusPending, UpdateComes, Ahead
    <3>2. Unheard(x)'
      BY <1>1, <2>1, <3>1 DEF Row, Unheard
    <3> QED BY <1>1, <2>5, <2>6, <3>2 DEF Row, Followed
  <2>7. CASE ~(statuses' = statuses /\ closed)
    <3> DEFINE u == IF IsHealth(watch.action)
                    THEN [id |-> watch.id, field |-> "health",
                          value |-> watch.action]
                    ELSE [id |-> watch.id, field |-> "state",
                          value |-> actionToStatus[watch.action]]
    <3>1. /\ watch.id \in Cids /\ watch.action \in Actions
          /\ statuses \in Seq(StatusUpdate) /\ statuses' = Append(statuses, u)
      BY <1>1, <2>7 DEF WatchSendStatus, WatchTypeOK, QueueTypeOK
    <3>2. actionToStatus[watch.action] \in MetaStates
      BY <3>1 DEF actionToStatus, MetaStates
    <3>3. u \in StatusUpdate
      BY <3>1, <3>2 DEF StatusUpdate, ValuesOf, IsHealth, Healths
    <3>4. IsHealth(watch.action) <=> actionToStatus[watch.action] = ""
      <4>1. IsHealth(watch.action) => actionToStatus[watch.action] = ""
        BY <3>1 DEF IsHealth, actionToStatus
      <4> QED BY <1>1, <4>1 DEF SettledInv, Announcing
    <3>5. /\ u \in StateUpdates(x) <=> WatchHas(x)
          /\ WatchHas(x) => u.value = actionToStatus[watch.action]
      BY <1>1, <3>3, <3>4 DEF StateUpdates, WatchHas
    <3>6. WatchHas(x) => watch'.pc = "refresh" /\ watch'.id = x
      BY <1>1, <3>4, <2>7 DEF WatchSendStatus, WatchHas, WatchTypeOK
    <3> HIDE DEF u
    <3>7. UpdateComes(x)' <=> UpdateComes(x) \/ WatchHas(x)
      BY <3>1, <3>3, <3>5, MeetAppend DEF UpdateComes
    <3>8. StatusPending(x)' <=> StatusPending(x)
      BY <2>2, <2>3, <3>7 DEF StatusPending, Ahead
    <3>9. Unheard(x)'
      BY <1>1, <2>1, <3>8 DEF Row, Unheard
    <3>10. ASSUME LastWord(x) PROVE LastWord(x)'
      <4>1. ASSUME ~EventComes(x)
            PROVE  Corrected(statuses', StaleUpdates(x), StateUpdates(x))
        <5>1. CASE WatchHas(x)
          <6>1. u \in StateUpdates(x) /\ u \notin StaleUpdates(x)
            BY <3>5, <3>10, <4>1, <5>1 DEF LastWord, StaleUpdates
          <6> QED BY <3>1, <3>3, <6>1, CorrectedByLast
        <5>2. CASE ~WatchHas(x)
          <6>1. /\ u \notin StaleUpdates(x)
                /\ Corrected(statuses, StaleUpdates(x), StateUpdates(x))
            BY <3>5, <3>10, <4>1, <5>2 DEF LastWord, StaleUpdates, Ahead
          <6> QED BY <3>1, <3>3, <6>1, CorrectedByNext
        <5> QED BY <5>1, <5>2
      <4>2. Ahead(x)' \/ Corrected(statuses', StaleUpdates(x)', StateUpdates(x))
        BY <2>2, <2>4, <4>1
      <4>3. StatHas(x)' => \/ Agrees(stat'.value, daemon'[x])
                           \/ UpdateComes(x)' \/ Ahead(x)'
        BY <1>1, <2>2, <2>3, <3>7, <3>10 DEF LastWord, Ahead
      <4>4. Corrected(events', StaleEvents(x)', StateEvents(x))
        BY <1>1, <2>4, <3>10 DEF LastWord
      <4> QED BY <2>2, <4>2, <4>3, <4>4 DEF LastWord
    <3>11. Coming(x) => Coming(x)'
      BY <1>1, <2>2, <3>6 DEF Coming, Ahead, Queued
    <3>12. SeenAgain(x) => SeenAgain(x)'
      BY <1>1, <3>11 DEF SeenAgain
    <3>13. Refreshing(x) => Refreshing(x)'
      BY <1>1, <3>11 DEF Refreshing
    <3>14. Settles(x) => Settles(x)'
      BY <1>1, <3>8, <3>13 DEF Settles
    <3>15. Followed(x)' => Followed(x)
      BY <1>1 DEF Followed, Exists
    <3> QED BY <2>1, <2>5, <3>9, <3>10, <3>12, <3>14, <3>15 DEF Row
  <2> QED BY <2>6, <2>7
<1> QED BY <1>3, <1>4 DEF SettledInv

\* Every step of watchEvents preserves the invariant.
LEMMA WatchSettles ==
    RegistryInv /\ SettledInv /\ WatchEvents => SettledInv'
<1> SUFFICES ASSUME RegistryInv, SettledInv, WatchEvents,
                    ~WatchReceive, ~WatchSendStatus
             PROVE  SettledInv'
  BY ReceiveSettles, SendStatusSettles
<1> USE DEF RegistryInv, TypeOK
<1>1. /\ UNCHANGED <<daemon, events, statuses, registry, meta, init, loop, stat>>
      /\ closed => closed'
      /\ lost'.untold = lost.untold /\ lost'.inspect = lost.inspect
      /\ lost.refresh \subseteq lost'.refresh
      /\ watch.pc # "status" /\ watch'.pc \notin {"off", "status"}
  <2>1. CASE WatchSendRefresh
    BY <2>1 DEF WatchSendRefresh, WatchAt, daemonVars, registryVars,
       RegistryTypeOK
  <2>2. CASE WatchListen \/ WatchSendCreate \/ WatchEnd
    BY <2>2 DEF WatchListen, WatchSendCreate, WatchEnd, WatchAt, daemonVars,
       registryVars, queueVars
  <2> QED BY <2>1, <2>2 DEF WatchEvents
<1>2. Announcing'
  BY <1>1 DEF Announcing
<1>3. ASSUME NEW x \in Cids PROVE Row(x)'
  <2>1. Row(x)
    BY DEF SettledInv
  <2>2. ~WatchHas(x) /\ ~WatchHas(x)'
    BY <1>1 DEF WatchHas
  <2>3. StatHas(x)' <=> StatHas(x)
    BY <1>1 DEF StatHas
  <2>4. /\ Ahead(x)' <=> Ahead(x)
        /\ UpdateComes(x)' <=> UpdateComes(x)
        /\ LastWord(x) => LastWord(x)'
        /\ Unheard(x) => Unheard(x)'
    BY <1>1, <2>2, <2>3, WordKept
  <2>5. StatusPending(x)' <=> StatusPending(x)
    BY <2>3, <2>4 DEF StatusPending
  <2>6. Followed(x)' => Followed(x)
    BY <1>1 DEF Followed, Exists
  <2>7. Queued \subseteq Queued'
    <3>1. CASE needsRefresh' = Append(needsRefresh, watch.id) /\ watch.id \in Cids
      BY <3>1, ElementsAppend DEF Queued, QueueTypeOK
    <3>2. CASE needsRefresh' = needsRefresh
      BY <3>2 DEF Queued
    <3> QED BY <3>1, <3>2 DEF WatchEvents, WatchListen, WatchSendCreate,
            WatchSendRefresh, WatchEnd, WatchTypeOK, queueVars
  <2>8. Followed(x)' /\ Coming(x) => Coming(x)'
    <3>1. ASSUME watch.id = x, watch.pc = "refresh", Followed(x)'
          PROVE  x \in Queued'
      <4>1. WatchSendRefresh
        BY <3>1 DEF WatchEvents, WatchListen, WatchSendCreate, WatchEnd
      <4>2. needsRefresh' = Append(needsRefresh, x)
        BY <3>1, <4>1 DEF WatchSendRefresh, Followed, RegistryTypeOK
      <4> QED BY <4>2, ElementsAppend DEF Queued, QueueTypeOK
    <3> QED BY <2>4, <2>7, <3>1 DEF Coming
  <2>9. Followed(x)' /\ SeenAgain(x) => SeenAgain(x)'
    BY <1>1, <2>8 DEF SeenAgain
  <2>10. Followed(x)' /\ Refreshing(x) => Refreshing(x)'
    BY <1>1, <2>8 DEF Refreshing
  <2>11. Followed(x)' /\ Settles(x) => Settles(x)'
    BY <1>1, <2>5, <2>10 DEF Settles
  <2>12. Pointers(x)'
    BY <1>1, <2>1 DEF Row, Pointers
  <2> QED BY <2>1, <2>4, <2>6, <2>9, <2>11, <2>12 DEF Row
<1> QED BY <1>2, <1>3 DEF SettledInv

-----------------------------------------------------------------------------
(* The daemon. *)

\* A step that says nothing of the state of x and leaves it as it is.
LEMMA OthersSettle ==
    ASSUME TypeOK, NEW x \in Cids, Row(x),
           UNCHANGED <<statuses, watch, stat, loop, init, registry, meta,
                       needsRefresh>>,
           daemon'[x] = daemon[x], closed => closed',
           lost.untold \subseteq lost'.untold,
           lost'.inspect = lost.inspect, lost'.refresh = lost.refresh,
           \/ events' = events
           \/ \E e \in Event \ StateEvents(x) : events' = Append(events, e)
    PROVE  Row(x)'
<1>1. EventComes(x)' <=> EventComes(x)
  <2>1. CASE events' = events
    BY <2>1 DEF EventComes
  <2>2. CASE \E e \in Event \ StateEvents(x) : events' = Append(events, e)
    <3>1. PICK e \in Event \ StateEvents(x) : events' = Append(events, e)
      BY <2>2
    <3> QED BY <3>1, MeetAppend DEF EventComes, TypeOK, DaemonTypeOK
  <2> QED BY <2>1, <2>2
<1>2. StaleEvents(x)' = StaleEvents(x) /\ StaleUpdates(x)' = StaleUpdates(x)
  BY DEF StaleEvents, StaleUpdates
<1>3. Corrected(events, StaleEvents(x), StateEvents(x)) =>
          Corrected(events', StaleEvents(x), StateEvents(x))
  <2>1. CASE events' = events
    BY <2>1
  <2>2. CASE \E e \in Event \ StateEvents(x) : events' = Append(events, e)
    <3>1. PICK e \in Event \ StateEvents(x) : events' = Append(events, e)
      BY <2>2
    <3>2. e \notin StaleEvents(x) /\ events \in Seq(Event)
      BY <3>1 DEF StaleEvents, TypeOK, DaemonTypeOK
    <3> QED BY <3>1, <3>2, CorrectedByNext
  <2> QED BY <2>1, <2>2
<1>4. /\ Ahead(x)' <=> Ahead(x)
      /\ UpdateComes(x)' <=> UpdateComes(x)
      /\ StatusPending(x)' <=> StatusPending(x)
  BY <1>1 DEF Ahead, WatchHas, UpdateComes, StatusPending, StatHas
<1>5. LastWord(x) => LastWord(x)'
  BY <1>1, <1>2, <1>3, <1>4 DEF LastWord, WatchHas, StatHas
<1>6. Coming(x)' <=> Coming(x)
  BY <1>4 DEF Coming, Queued
<1>7. /\ SeenAgain(x) => SeenAgain(x)'
      /\ Refreshing(x) => Refreshing(x)'
  BY <1>6 DEF SeenAgain, Refreshing
<1>8. Settles(x) => Settles(x)'
  BY <1>4, <1>7 DEF Settles
<1>9. Pointers(x)' /\ Unheard(x)'
  BY <1>4 DEF Row, Pointers, Unheard
<1>10. Followed(x)' => Followed(x)
  BY DEF Followed, Exists
<1> QED BY <1>5, <1>7, <1>8, <1>9, <1>10 DEF Row

\* A change of the daemon is announced, or the connector loses track of the
\* container.
LEMMA DaemonSettles ==
    RegistryInv /\ SettledInv /\ (Daemon \/ StreamEnds \/ Close) => SettledInv'
<1> SUFFICES ASSUME RegistryInv, SettledInv, Daemon \/ StreamEnds \/ Close
             PROVE  SettledInv'
  OBVIOUS
<1> USE DEF RegistryInv
<1>1. Announcing'
  BY DEF SettledInv, Announcing, IsHealth, Daemon, DaemonCreate, DaemonStart,
     DaemonDie, DaemonStop, DaemonPause, DaemonUnpause, DaemonDestroy,
     DaemonHealth, Change, StreamEnds, Close, workers, queueVars
<1>2. CASE StreamEnds \/ Close
  <2>1. ASSUME NEW x \in Cids PROVE Row(x)'
    <3>1. Row(x)
      BY DEF SettledInv
    <3> QED BY <1>2, <3>1, OthersSettle DEF StreamEnds, Close, daemonVars,
            registryVars, queueVars, workers
  <2> QED BY <1>1, <2>1 DEF SettledInv
<1>3. CASE Daemon
  <2>1. PICK y \in Cids, s \in DaemonStates, h \in Healths, a \in Actions :
            /\ Change(y, s, h, a)
            /\ actionToStatus[a] # "" => Agrees(actionToStatus[a], s)
            /\ actionToStatus[a] = "" =>
                   s = daemon[y] \/ daemon[y] = "absent" \/ s = "gone"
            /\ daemon[y] # "gone" /\ s # "absent"
    <3>1. PICK y \in Cids :
              \/ DaemonCreate(y) \/ DaemonStart(y) \/ DaemonDie(y)
              \/ DaemonStop(y) \/ DaemonPause(y) \/ DaemonUnpause(y)
              \/ DaemonDestroy(y) \/ DaemonHealth(y)
      BY <1>3 DEF Daemon
    <3>2. health[y] \in Healths
      BY DEF TypeOK, DaemonTypeOK
    <3>3. /\ actionToStatus["start"] = "running"
          /\ actionToStatus["unpause"] = "running"
          /\ actionToStatus["die"] = "exited" /\ actionToStatus["stop"] = "exited"
          /\ actionToStatus["pause"] = "paused"
          /\ actionToStatus["create"] = "" /\ actionToStatus["destroy"] = ""
          /\ actionToStatus["healthy"] = "" /\ actionToStatus["unhealthy"] = ""
      BY DEF actionToStatus, Actions
    <3>4. CASE DaemonCreate(y)
      BY <3>2, <3>3, <3>4 DEF DaemonCreate, DaemonStates, Healths, Actions
    <3>5. CASE DaemonStart(y)
      BY <3>2, <3>3, <3>5 DEF DaemonStart, DaemonStates, Healths, Actions, Agrees
    <3>6. CASE DaemonDie(y)
      BY <3>2, <3>3, <3>6 DEF DaemonDie, DaemonStates, Actions, Agrees
    <3>7. CASE DaemonStop(y)
      BY <3>2, <3>3, <3>7 DEF DaemonStop, DaemonStates, Actions, Agrees
    <3>8. CASE DaemonPause(y) \/ DaemonUnpause(y)
      BY <3>2, <3>3, <3>8 DEF DaemonPause, DaemonUnpause, DaemonStates,
         Actions, Agrees
    <3>9. CASE DaemonDestroy(y)
      BY <3>2, <3>3, <3>9 DEF DaemonDestroy, DaemonStates, Healths, Actions
    <3>10. CASE DaemonHealth(y)
      BY <3>2, <3>3, <3>10 DEF DaemonHealth, DaemonStates, Healths, Actions
    <3> QED BY <3>1, <3>4, <3>5, <3>6, <3>7, <3>8, <3>9, <3>10
  <2> DEFINE e == [id |-> y, action |-> a]
  <2>2. /\ UNCHANGED <<statuses, watch, stat, loop, init, registry, meta,
                       needsRefresh, closed>>
        /\ daemon' = [daemon EXCEPT ![y] = s]
        /\ lost'.inspect = lost.inspect /\ lost'.refresh = lost.refresh
        /\ lost.untold \subseteq lost'.untold
        /\ listener = "on" => events' = Append(events, e)
        /\ listener # "on" => events' = events
        /\ listener # "on" /\ init.pc # "list" => y \in lost'.untold
    BY <2>1 DEF Change, registryVars, queueVars, workers, TypeOK,
       RegistryTypeOK
  <2>3. e \in Event /\ e.id = y /\ e.action = a /\ events \in Seq(Event)
    BY DEF Event, TypeOK, DaemonTypeOK
  <2> HIDE DEF e
  <2>4. \A x \in Cids : daemon'[x] = IF x = y THEN s ELSE daemon[x]
    BY <2>2 DEF TypeOK, DaemonTypeOK
  <2>5. ASSUME NEW x \in Cids, x # y \/ (s = daemon[y] /\ actionToStatus[a] = "")
        PROVE  Row(x)'
    <3>1. Row(x) /\ daemon'[x] = daemon[x]
      BY <2>4, <2>5 DEF SettledInv
    <3>2. e \notin StateEvents(x)
      BY <2>3, <2>5 DEF StateEvents
    <3> QED BY <2>2, <2>3, <3>1, <3>2, OthersSettle
  <2>6. ASSUME s # daemon[y] \/ actionToStatus[a] # ""
        PROVE  Row(y)'
    <3>1. Row(y) /\ daemon'[y] = s
      BY <2>4 DEF SettledInv
    <3>2. Pointers(y)' /\ Unheard(y)'
      BY <2>1, <2>2, <3>1 DEF Row, Pointers, Unheard
    <3>3. ASSUME Followed(y)'
          PROVE  LastWord(y)' /\ SeenAgain(y)' /\ Settles(y)'
      <4>1. s # "gone" /\ (listener = "on" \/ init.pc = "list")
        BY <2>2, <3>1, <3>3 DEF Followed, Exists
      <4>2. CASE listener = "on" /\ actionToStatus[a] # ""
        <5>1. e \in StateEvents(y) /\ e \notin StaleEvents(y)'
          BY <2>1, <2>3, <3>1, <4>2 DEF StateEvents, StaleEvents
        <5>2. EventComes(y)'
          <6>1. Elements(Append(events, e)) = Elements(events) \cup {e}
            BY <2>3, ElementsAppend
          <6> QED BY <2>2, <4>2, <5>1, <6>1 DEF EventComes
        <5>3. Corrected(events', StaleEvents(y)', StateEvents(y))
          BY <2>2, <2>3, <4>2, <5>1, CorrectedByLast
        <5>4. Ahead(y)' /\ Coming(y)' /\ Refreshing(y)'
          BY <5>2 DEF Ahead, Coming, Refreshing
        <5> QED BY <5>2, <5>3, <5>4 DEF LastWord, SeenAgain, Settles
      <4>3. CASE listener # "on" \/ actionToStatus[a] = ""
        <5>1. /\ ~StatusPending(y)
              /\ loop.id # y \/ loop.pc = "idle"
              /\ y \notin registry
          <6>1. CASE init.pc = "list"
            <7>1. /\ registry = {} /\ loop.pc = "idle" /\ watch.pc = "off"
                  /\ events = <<>>
              BY <6>1 DEF Startup
            <7>2. statuses = <<>> /\ stat.pc \in {"idle", "done"}
              BY <7>1 DEF SettledInv, Announcing
            <7> QED BY <7>1, <7>2 DEF StatusPending, StatHas, UpdateComes,
                    Ahead, WatchHas, EventComes, Elements
          <6>2. CASE init.pc # "list"
            <7>1. daemon[y] = "absent"
              BY <2>1, <2>6, <4>1, <4>3, <6>2
            <7>2. ~StatusPending(y)
              BY <3>1, <7>1 DEF Row, Unheard
            <7>3. y \notin registry /\ loop.id # y
              BY <7>1 DEF Truth, Handled
            <7> QED BY <7>2, <7>3
          <6> QED BY <6>1, <6>2
        <5>2. events' = events \/ (e \notin StateEvents(y) /\ events' = Append(events, e))
          BY <2>2, <2>3, <4>3 DEF StateEvents
        <5>3. ~EventComes(y)'
          <6>1. ~EventComes(y)
            BY <5>1 DEF StatusPending, Ahead
          <6> QED BY <2>3, <5>2, <6>1, MeetAppend DEF EventComes
        <5>4. ~WatchHas(y)' /\ ~UpdateComes(y)' /\ ~StatHas(y)'
          BY <2>2, <5>1 DEF StatusPending, Ahead, WatchHas, UpdateComes, StatHas
        <5>5. /\ StaleEvents(y)' \subseteq StateEvents(y)
              /\ StaleUpdates(y)' \subseteq StateUpdates(y)
          BY DEF StaleEvents, StaleUpdates
        <5>6. Corrected(events', StaleEvents(y)', StateEvents(y))
          BY <5>3, <5>5, CorrectedNone DEF EventComes
        <5>7. Corrected(statuses', StaleUpdates(y)', StateUpdates(y))
          BY <5>4, <5>5, CorrectedNone DEF UpdateComes
        <5> QED BY <2>2, <5>1, <5>4, <5>6, <5>7 DEF LastWord, SeenAgain, Settles
      <4> QED BY <4>1, <4>2, <4>3
    <3> QED BY <3>2, <3>3 DEF Row
  <2> QED BY <1>1, <2>5, <2>6 DEF SettledInv
<1> QED BY <1>2, <1>3

-----------------------------------------------------------------------------
LEMMA InitSettles == Init => SettledInv
<1> SUFFICES ASSUME Init PROVE SettledInv
  OBVIOUS
<1>1. /\ registry = {} /\ events = <<>> /\ statuses = <<>>
      /\ watch.pc = "off" /\ loop.pc = "idle" /\ stat.pc = "idle"
  BY DEF Init, WatchAt, LoopAt, StatAt
<1>2. ASSUME NEW x \in Cids PROVE Row(x)
  <2>1. ~EventComes(x) /\ ~WatchHas(x) /\ ~UpdateComes(x) /\ ~StatHas(x)
    BY <1>1 DEF EventComes, WatchHas, UpdateComes, StatHas, Elements
  <2>2. /\ Corrected(events, StaleEvents(x), StateEvents(x))
        /\ Corrected(statuses, StaleUpdates(x), StateUpdates(x))
    BY <1>1 DEF Corrected
  <2> QED BY <1>1, <2>1, <2>2 DEF Row, Pointers, Unheard, StatusPending, Ahead,
          LastWord, SeenAgain, Settles
<1> QED BY <1>1, <1>2 DEF SettledInv, Announcing

\* When everything announced has been handled, every row shows the state of its
\* container, however the events, refreshes and updates were interleaved and
\* whatever the capacity of the channels, if inspect answers carry the status;
\* but for the containers the connector was not told of, whose refresh it
\* dropped or whose inspect failed.
THEOREM RowsSettle == InspectHasStatus => (Spec => []SettledStates)
<1> SUFFICES ASSUME InspectHasStatus PROVE Spec => []SettledStates
  OBVIOUS
<1>1. RegistryInv /\ SettledInv /\ UNCHANGED vars => SettledInv'
  <2> SUFFICES ASSUME RegistryInv, SettledInv, UNCHANGED vars
               PROVE  SettledInv'
    OBVIOUS
  <2>1. UNCHANGED <<daemon, events, statuses, watch, stat, loop, init, registry,
                    meta, needsRefresh, closed, lost>>
    BY DEF vars, daemonVars, registryVars, queueVars, workers
  <2>2. ASSUME NEW x \in Cids PROVE Row(x)'
    <3>1. Row(x) /\ TypeOK
      BY DEF SettledInv, RegistryInv
    <3> QED BY <2>1, <3>1, OthersSettle
  <2>3. Announcing'
    BY <2>1 DEF SettledInv, Announcing, IsHealth
  <2> QED BY <2>2, <2>3 DEF SettledInv
<1>2. RegistryInv /\ SettledInv /\ [Next]_vars => SettledInv'
  BY <1>1, DaemonSettles, NewDockerSettles, WatchSettles, LoopSettles,
     StatSettles DEF Next
<1>3. RegistryInv /\ SettledInv => SettledStates
  <2> SUFFICES ASSUME RegistryInv, SettledInv, Quiet, NEW x \in registry,
                      x \notin lost.untold, x \notin lost.inspect,
                      x \notin lost.refresh
               PROVE  Agrees(meta[x].state, daemon[x])
    BY DEF SettledStates
  <2>1. x \in Cids /\ Row(x)
    BY DEF RegistryInv, TypeOK, RegistryTypeOK, SettledInv
  <2>2. /\ Elements(events) = {} /\ Elements(statuses) = {} /\ Queued = {}
    BY DEF Quiet, Elements, Queued
  <2>3. Exists(x)
    BY <2>1, <2>2 DEF RegistryInv, GhostExplained, Announced, Quiet
  <2>4. Settles(x)
    BY <2>1, <2>3 DEF Row, Followed, Quiet
  <2>5. ~Refreshing(x) /\ ~StatusPending(x)
    BY <2>2 DEF Refreshing, Coming, Ahead, WatchHas, EventComes, UpdateComes,
       StatHas, StatusPending, Quiet
  <2> QED BY <2>4, <2>5 DEF Settles
<1> QED BY InitSettles, RegistryCorrect, <1>2, <1>3, PTL DEF Spec

=============================================================================
