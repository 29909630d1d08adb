------------------------ MODULE ConnectorSuper_proofs ------------------------
(***************************************************************************)
(* Proofs about the supervisor and the requests answered through it, for   *)
(* every set of hosts, of getters and of requests.                         *)
(***************************************************************************)
EXTENDS WebProvider, TLAPS

LEMMA InitType == Init => TypeOK
BY DEF Init, TypeOK

LEMMA HostType ==
    ASSUME TypeOK, NEW h \in Hosts,
           HostDown(h) \/ HostUp(h) \/ LinkEnds(h) \/ DroppedEnds(h)
    PROVE  TypeOK'
<1>1. CASE HostDown(h)
  BY <1>1 DEF HostDown, Broken, TypeOK, lockVars, options
<1>2. CASE HostUp(h)
  BY <1>2 DEF HostUp, TypeOK, linkVars, lockVars, options
<1>3. CASE LinkEnds(h)
  BY <1>3 DEF LinkEnds, TypeOK, lockVars, options
<1>4. CASE DroppedEnds(h)
  BY <1>4 DEF DroppedEnds, TypeOK, lockVars, options
<1> QED BY <1>1, <1>2, <1>3, <1>4

LEMMA DialType ==
    ASSUME TypeOK, Dial
    PROVE  /\ link' \in [Hosts -> {"none", "open", "broken", "closed"}]
           /\ dropped' \in [Hosts -> {"none", "open", "broken"}]
           /\ todo' = hosts
           /\ conn' \in {"nil", "current", "stale"}
BY DEF Dial, TypeOK

LEMMA LoopType == ASSUME TypeOK, loop PROVE TypeOK'
<1>1. ASSUME NEW h \in Hosts, DialHost(h) PROVE TypeOK'
  BY <1>1 DEF DialHost, TypeOK, lockVars, options
<1>2. ASSUME NEW h \in Hosts, DialFails(h) PROVE TypeOK'
  BY <1>2 DEF DialFails, TypeOK, linkVars, lockVars, options
<1>3. CASE DialDone \/ Store \/ Wait
  BY <1>3 DEF DialDone, Store, Wait, TypeOK, linkVars, lockVars, options
<1>4. CASE Lock
  BY <1>4 DEF Lock, TypeOK, linkVars, options
<1>5. CASE Announce \/ Failed
  BY <1>5 DEF Announce, Failed, setError, TypeOK, linkVars, options
<1>6. CASE Lost
  BY <1>6, DialType DEF Lost, setError, TypeOK, options
<1>7. CASE Retry
  BY <1>7, DialType DEF Retry, TypeOK, lockVars, options
<1> QED BY <1>1, <1>2, <1>3, <1>4, <1>5, <1>6, <1>7 DEF loop

LEMMA TypeStep == TypeOK /\ [Next]_vars => TypeOK'
<1> SUFFICES ASSUME TypeOK, [Next]_vars PROVE TypeOK'
  OBVIOUS
<1>1. ASSUME NEW c \in Getters, GetLock(c) \/ GetRead(c) PROVE TypeOK'
  BY <1>1 DEF GetLock, GetRead, TypeOK, linkVars, options
<1>2. CASE UNCHANGED vars
  BY <1>2 DEF vars, linkVars, lockVars, TypeOK, options
<1> QED BY <1>1, <1>2, HostType, LoopType DEF Next

THEOREM TypeCorrect == Spec => []TypeOK
BY InitType, TypeStep, PTL DEF Spec

-----------------------------------------------------------------------------
(* Get. *)

\* Where the supervisor is says what has been dialed and stored; an error is
\* absent only while it waits for the connector it announced, and a getter
\* that holds the lock keeps it absent.
GetInv ==
    /\ pc \in {"announce", "wait", "lost"} => conn = "current"
    /\ pc \in {"store", "announce", "wait", "lost"} =>
           \A h \in hosts : link[h] # "none"
    /\ pc = "dial" => \A h \in hosts \ todo : link[h] # "none"
    /\ err = "none" => pc \in {"wait", "lost"}
    /\ getter # {} => err = "none"

LEMMA GetInit == Init => GetInv
BY DEF Init, GetInv

LEMMA GetHost ==
    ASSUME TypeOK, GetInv, NEW h \in Hosts,
           HostDown(h) \/ HostUp(h) \/ LinkEnds(h) \/ DroppedEnds(h)
    PROVE  GetInv'
<1>1. \A k \in Hosts : link[k] # "none" => link'[k] # "none"
  BY DEF HostDown, HostUp, LinkEnds, DroppedEnds, Broken, TypeOK, linkVars, options
<1>2. UNCHANGED <<options, todo, conn, err, pc, getter>>
  BY DEF HostDown, HostUp, LinkEnds, DroppedEnds, lockVars, options
<1> QED BY <1>1, <1>2 DEF GetInv, TypeOK, options

LEMMA GetLoop == ASSUME TypeOK, GetInv, loop PROVE GetInv'
<1>1. ASSUME NEW h \in Hosts, DialHost(h) PROVE GetInv'
  BY <1>1 DEF DialHost, GetInv, TypeOK, lockVars, options
<1>2. ASSUME NEW h \in Hosts, DialFails(h) PROVE GetInv'
  BY <1>2 DEF DialFails, GetInv, linkVars, lockVars, options
<1>3. CASE DialDone \/ Store \/ Wait
  BY <1>3 DEF DialDone, Store, Wait, GetInv, linkVars, lockVars, options
<1>4. CASE Lock
  BY <1>4 DEF Lock, GetInv, linkVars, options
<1>5. CASE Announce \/ Failed
  BY <1>5 DEF Announce, Failed, setError, GetInv, linkVars, options
<1>6. CASE Lost
  BY <1>6 DEF Lost, setError, Dial, GetInv, options
<1>7. CASE Retry
  BY <1>7 DEF Retry, Dial, GetInv, lockVars, options
<1> QED BY <1>1, <1>2, <1>3, <1>4, <1>5, <1>6, <1>7 DEF loop

LEMMA GetStep == TypeOK /\ GetInv /\ [Next]_vars => GetInv'
<1> SUFFICES ASSUME TypeOK, GetInv, [Next]_vars PROVE GetInv'
  OBVIOUS
<1>1. ASSUME NEW c \in Getters, GetLock(c) \/ GetRead(c) PROVE GetInv'
  BY <1>1 DEF GetLock, GetRead, GetInv, linkVars, options
<1>2. CASE UNCHANGED vars
  BY <1>2 DEF vars, linkVars, lockVars, GetInv, options
<1> QED BY <1>1, <1>2, GetHost, GetLoop DEF Next

\* A Get that saw no error reads a fully dialed connector, and the supervisor
\* never stores one meanwhile, although the store takes no lock.
THEOREM GetAlwaysSafe == Spec => []GetIsSafe
<1>1. GetInv => GetIsSafe
  BY DEF GetInv, GetIsSafe
<1> QED BY <1>1, InitType, GetInit, TypeStep, GetStep, PTL DEF Spec

-----------------------------------------------------------------------------
(* One host. *)

\* With one host, a dial that failed opened nothing, and a connector is given
\* up only once it is closed.
OneHostInv ==
    OneHost =>
        /\ \A h \in Hosts : dropped[h] = "none"
        /\ \A h \in Hosts \ hosts : link[h] = "none"
        /\ pc = "dial" => \A h \in todo : link[h] = "none"
        /\ pc = "failed" \/ pc = "sleep" => \A h \in Hosts : link[h] = "none"
        /\ pc = "lost" => \A h \in hosts : link[h] = "closed"

LEMMA OneHostStep == TypeOK /\ OneHostInv /\ [Next]_vars => OneHostInv'
<1> SUFFICES ASSUME TypeOK, OneHostInv, [Next]_vars, OneHost' PROVE OneHostInv'
  BY DEF OneHostInv
<1>a. OneHost /\ hosts' = hosts /\ multi' = multi
  <2>1. hosts' = hosts /\ multi' = multi
    BY DEF Next, loop, vars, options, HostDown, HostUp, LinkEnds, DroppedEnds,
           DialHost, DialFails, DialDone, Store, Lock, Announce, Wait, Lost,
           Failed, Retry, setError, GetLock, GetRead
  <2> QED BY <2>1 DEF OneHost
<1> PICK k \in Hosts : hosts = {k}
  BY <1>a DEF OneHost
<1>1. ASSUME NEW h \in Hosts,
             HostDown(h) \/ HostUp(h) \/ LinkEnds(h) \/ DroppedEnds(h)
      PROVE  OneHostInv'
  <2>1. UNCHANGED <<todo, pc>>
    BY <1>1 DEF HostDown, HostUp, LinkEnds, DroppedEnds
  <2>2. \A x \in Hosts :
            /\ link[x] = "none" => link'[x] = "none"
            /\ link[x] = "closed" => link'[x] = "closed"
            /\ dropped[x] = "none" => dropped'[x] = "none"
    BY <1>1 DEF HostDown, HostUp, LinkEnds, DroppedEnds, Broken, linkVars, TypeOK
  <2> QED BY <1>a, <2>1, <2>2 DEF OneHostInv, TypeOK
<1>2. ASSUME NEW h \in Hosts, DialHost(h) PROVE OneHostInv'
  BY <1>a, <1>2 DEF DialHost, OneHostInv, TypeOK
<1>3. ASSUME NEW h \in Hosts, DialFails(h) PROVE OneHostInv'
  BY <1>a, <1>3 DEF DialFails, OneHostInv, linkVars, TypeOK
<1>4. CASE DialDone \/ Store \/ Wait
  BY <1>a, <1>4 DEF DialDone, Store, Wait, Closed, OneHostInv, linkVars
<1>5. CASE Lock
  BY <1>a, <1>5 DEF Lock, OneHostInv, linkVars
<1>6. CASE Announce \/ Failed
  BY <1>a, <1>6 DEF Announce, Failed, setError, OneHostInv, linkVars
<1>7. CASE Lost \/ Retry
  BY <1>a, <1>7 DEF Lost, Retry, setError, Dial, OneHostInv, TypeOK
<1>8. ASSUME NEW c \in Getters, GetLock(c) \/ GetRead(c) PROVE OneHostInv'
  BY <1>a, <1>8 DEF GetLock, GetRead, OneHostInv, linkVars
<1>9. CASE UNCHANGED vars
  BY <1>a, <1>9 DEF vars, linkVars, OneHostInv
<1> QED BY <1>1, <1>2, <1>3, <1>4, <1>5, <1>6, <1>7, <1>8, <1>9 DEF Next, loop

\* With one host, dialing again never leaves a Docker connector running unseen,
\* however often the host went down, and whether or not it was given by --host.
THEOREM NoOrphansWithOneHost == Spec => []NoOrphanLinks
<1>1. Init => OneHostInv
  BY DEF Init, OneHostInv
<1>2. OneHostInv => NoOrphanLinks
  BY DEF OneHostInv, NoOrphanLinks
<1> QED BY <1>1, <1>2, InitType, TypeStep, OneHostStep, PTL DEF Spec

-----------------------------------------------------------------------------
(* The web server's requests. *)

LEMMA RequestReads ==
    ASSUME NEW c \in Requesters, Request(c)
    PROVE  \/ GetRead(c)
           \/ Unavailable(c)
BY DEF Request, List, Check, Read, Operate, Preview

\* The requests only get what the supervisor has: with them it goes on as
\* ConnectorSuper says, so that its theorems hold in the program as a whole.
THEOREM RequestsOnlyGet == ProviderSpec => Spec
<1>1. ProviderInit => Init
  BY DEF ProviderInit
<1>2. [ProviderNext]_providerVars => [Next]_vars
  <2> SUFFICES ASSUME [ProviderNext]_providerVars PROVE [Next]_vars
    OBVIOUS
  <2>1. CASE \E c \in Requesters : Ask(c)
    BY <2>1 DEF Ask
  <2>2. CASE Connector /\ Watch
    BY <2>2 DEF Connector, Next
  <2>3. CASE Registry /\ Watch
    BY <2>3 DEF Registry
  <2>4. ASSUME NEW c \in Requesters, Request(c) PROVE [Next]_vars
    <3>1. c \in Getters
      BY RequestersAssumption
    <3>2. CASE GetRead(c)
      BY <3>1, <3>2 DEF Next
    <3>3. CASE Unavailable(c)
      BY <3>3 DEF Unavailable
    <3> QED BY <2>4, <3>2, <3>3, RequestReads
  <2>5. CASE UNCHANGED providerVars
    BY <2>5 DEF providerVars
  <2> QED BY <2>1, <2>2, <2>3, <2>4, <2>5 DEF ProviderNext
<1> QED BY <1>1, <1>2, PTL DEF ProviderSpec, Spec

\* Whatever the requests do, Get stays safe and one host has one connector.
THEOREM ProviderIsSafe == ProviderSpec => [](GetIsSafe /\ NoOrphanLinks)
BY RequestsOnlyGet, GetAlwaysSafe, NoOrphansWithOneHost, PTL

\* A container that could be seen since a request was made is one it means and
\* is listed now; without a connection there is none.  A list is answered at
\* its first look.
SeenInv ==
    /\ op \in [Requesters -> {"none", "list", "read", "operate", "preview"}]
    /\ stage \in [Requesters -> {"idle", "check", "act"}]
    /\ asked \in [Requesters -> SUBSET Hosts]
    /\ shown \in [Requesters -> SUBSET Hosts]
    /\ steady \in [Requesters -> SUBSET Hosts]
    /\ listed \subseteq Hosts
    /\ \A c \in Requesters :
           /\ steady[c] \subseteq listed \cap asked[c]
           /\ err # "none" => steady[c] = {}
           /\ op[c] = "list" => stage[c] = "check"

LEMMA SeenInit == ProviderInit => SeenInv
BY DEF ProviderInit, SeenInv

LEMMA AskSees ==
    ASSUME TypeOK, SeenInv, NEW c \in Requesters, Ask(c)
    PROVE  SeenInv'
<1>1. PICK o \in {"list", "read", "operate", "preview"},
           hs \in SUBSET hosts \ {{}} :
          /\ op' = [op EXCEPT ![c] = o]
          /\ asked' = [asked EXCEPT ![c] = hs]
          /\ steady' = [steady EXCEPT ![c] = IF err = "none" THEN hs \cap listed
                                                             ELSE {}]
  BY DEF Ask
<1>2. /\ stage' = [stage EXCEPT ![c] = "check"]
      /\ shown' = [shown EXCEPT ![c] = {}]
      /\ UNCHANGED <<listed, err>>
  BY DEF Ask, vars
<1>3. hs \subseteq Hosts
  BY DEF TypeOK
<1> QED BY <1>1, <1>2, <1>3 DEF SeenInv

\* What has been seen by a request that goes on is still listed.
LEMMA WatchSees ==
    ASSUME SeenInv, Watch, listed' \subseteq Hosts,
           UNCHANGED requestVars
    PROVE  SeenInv'
<1>1. UNCHANGED <<op, asked, stage, shown>>
  BY DEF requestVars
<1> QED BY <1>1 DEF SeenInv, Watch

LEMMA RequestSees ==
    ASSUME TypeOK, SeenInv, NEW c \in Requesters, Request(c),
           UNCHANGED listed, Watch
    PROVE  SeenInv'
<1>1. ASSUME NEW hs \in SUBSET Hosts, Reply(c, hs) PROVE SeenInv'
  BY <1>1 DEF Reply, SeenInv, Watch
<1>2. Found(c) \subseteq Hosts /\ Snapshots \subseteq Hosts
  BY DEF Found, Snapshots, SeenInv
<1>3. CASE List(c)
  BY <1>1, <1>2, <1>3 DEF List
<1>4. CASE Check(c)
  <2>1. CASE Reply(c, {})
    BY <1>1, <2>1
  <2>2. CASE /\ stage' = [stage EXCEPT ![c] = "act"]
             /\ UNCHANGED <<op, asked, shown>>
    BY <1>4, <2>2 DEF Check, SeenInv, Watch
  <2> QED BY <1>4, <2>1, <2>2 DEF Check
<1>5. CASE Read(c) \/ Operate(c) \/ Preview(c)
  BY <1>1, <1>2, <1>5 DEF Read, Operate, Preview
<1>6. CASE Unavailable(c)
  BY <1>1, <1>6 DEF Unavailable
<1> QED BY <1>3, <1>4, <1>5, <1>6 DEF Request

LEMMA SeenStep ==
    TypeOK /\ SeenInv /\ [ProviderNext]_providerVars => SeenInv'
<1> SUFFICES ASSUME TypeOK, SeenInv, [ProviderNext]_providerVars
             PROVE  SeenInv'
  OBVIOUS
<1>1. CASE Connector /\ Watch
  <2>1. listed' \subseteq listed
    BY <1>1 DEF Connector
  <2> QED BY <1>1, <2>1, WatchSees DEF Connector, SeenInv
<1>2. CASE Registry /\ Watch
  <2>1. listed' \subseteq Hosts
    BY <1>2 DEF Registry, SeenInv
  <2> QED BY <1>2, <2>1, WatchSees DEF Registry
<1>3. CASE UNCHANGED providerVars
  BY <1>3 DEF providerVars, requestVars, vars, SeenInv
<1> QED BY <1>1, <1>2, <1>3, AskSees, RequestSees DEF ProviderNext

\* A container that could be seen while a request was under way, on whatever
\* host, is in the answer of a list, and a request that means it is answered,
\* unless it is a preview, though the supervisor, the other hosts and the other
\* requests go on between its looks.
THEOREM AnswersAreWhole == ProviderSpec => StaysVisible
<1>1. SeenInv /\ [ProviderNext]_providerVars =>
          [\A c \in Requesters :
              stage[c] # "idle" /\ stage'[c] = "idle" /\ op[c] # "preview" =>
                  IF op[c] = "list" THEN steady[c] \subseteq shown'[c]
                                    ELSE steady[c] # {} => shown'[c] # {}
          ]_providerVars
  <2> SUFFICES ASSUME SeenInv, ProviderNext, NEW c \in Requesters,
                      stage[c] # "idle", stage'[c] = "idle", op[c] # "preview"
               PROVE  IF op[c] = "list" THEN steady[c] \subseteq shown'[c]
                                        ELSE steady[c] # {} => shown'[c] # {}
    OBVIOUS
  <2>1. Request(c)
    <3>1. ASSUME NEW d \in Requesters, Ask(d) PROVE FALSE
      BY <3>1 DEF Ask, SeenInv
    <3>2. ASSUME UNCHANGED stage PROVE FALSE
      BY <3>2
    <3>3. ~Connector /\ ~Registry
      BY <3>2 DEF Connector, Registry, requestVars
    <3>4. PICK d \in Requesters : Request(d)
      BY <3>1, <3>3 DEF ProviderNext
    <3>5. \/ UNCHANGED stage
          \/ stage' = [stage EXCEPT ![d] = "act"]
          \/ stage' = [stage EXCEPT ![d] = "idle"]
      BY <3>4 DEF Request, List, Check, Read, Operate, Preview, Unavailable,
         Reply
    <3>6. c = d
      BY <3>5 DEF SeenInv
    <3> QED BY <3>4, <3>6
  <2>2. steady[c] \subseteq Found(c) /\ steady[c] \subseteq Snapshots
    BY DEF SeenInv, Found, Snapshots
  <2>3. ASSUME NEW hs, Reply(c, hs) PROVE shown'[c] = hs
    BY <2>3 DEF Reply, SeenInv
  <2>4. CASE List(c)
    BY <2>2, <2>3, <2>4 DEF List
  <2>5. CASE Check(c)
    <3>1. ~(stage' = [stage EXCEPT ![c] = "act"])
      BY DEF SeenInv
    <3> QED BY <2>2, <2>5, <3>1 DEF Check
  <2>6. CASE Read(c) \/ Operate(c)
    <3>1. CASE Found(c) = {}
      BY <2>2, <2>6, <3>1 DEF Read, Operate
    <3>2. CASE \E h \in Found(c) : Reply(c, {h})
      BY <2>3, <2>6, <3>2 DEF Read, Operate
    <3> QED BY <2>6, <3>1, <3>2 DEF Read, Operate
  <2>7. CASE Unavailable(c)
    BY <2>7 DEF Unavailable, SeenInv
  <2> QED BY <2>1, <2>4, <2>5, <2>6, <2>7 DEF Request, Preview, SeenInv
<1>2. ProviderSpec => [](TypeOK /\ SeenInv)
  <2>1. ProviderSpec => []TypeOK
    BY RequestsOnlyGet, TypeCorrect, PTL
  <2> QED BY <2>1, SeenInit, SeenStep, PTL DEF ProviderSpec
<1> QED BY <1>1, <1>2, PTL DEF ProviderSpec, StaysVisible
=============================================================================
