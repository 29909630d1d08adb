----------------------------- MODULE WebProvider -----------------------------
(***************************************************************************)
(* The web server's requests about containers, handleContainers, its       *)
(* relatives and handleContainerDetail (pkg/web/server.go), answered by    *)
(* superContainerProvider (web_bridge.go) from whatever connector the      *)
(* supervisor has.                                                         *)
(*                                                                         *)
(* Each host has one container, which its connector lists or not.  A       *)
(* request about one looks for it twice, with a Get of the supervisor each *)
(* time, and asks by an ID, a part of it or a name, so that it may mean    *)
(* several.  What the container answers is left out.  Getters without a    *)
(* request are the terminal's.                                             *)
(***************************************************************************)
EXTENDS ConnectorSuper

CONSTANT Requesters  \* the getters that serve web requests

ASSUME RequestersAssumption == Requesters \subseteq Getters

VARIABLES
    listed,  \* hosts whose container is in the current connector's map
    op,      \* op[c]: the request of getter c: "none", "list", "read",
             \* "operate" or "preview"
    asked,   \* asked[c]: the hosts whose container it means
    stage,   \* stage[c]: "idle", "check" or "act"
    shown,   \* shown[c]: the containers of its last answer
    steady   \* steady[c]: those that could be seen ever since it was asked

requestVars == <<op, asked, stage, shown>>
providerVars == <<vars, listed, requestVars, steady>>

ProviderInit ==
    /\ Init
    /\ listed = {}
    /\ op = [c \in Requesters |-> "none"] /\ asked = [c \in Requesters |-> {}]
    /\ stage = [c \in Requesters |-> "idle"] /\ shown = [c \in Requesters |-> {}]
    /\ steady = [c \in Requesters |-> {}]

-----------------------------------------------------------------------------
(* A request. *)

Ask(c) ==
    /\ stage[c] = "idle" /\ c \notin getter
    /\ stage' = [stage EXCEPT ![c] = "check"]
    /\ shown' = [shown EXCEPT ![c] = {}]
    /\ \E o \in {"list", "read", "operate", "preview"}, hs \in SUBSET hosts \ {{}} :
           /\ o = "list" => hs = hosts
           /\ op' = [op EXCEPT ![c] = o]
           /\ asked' = [asked EXCEPT ![c] = hs]
           /\ steady' = [steady EXCEPT ![c] = IF err = "none" THEN hs \cap listed
                                                              ELSE {}]
    /\ UNCHANGED <<vars, listed>>

Reply(c, hs) ==
    /\ shown' = [shown EXCEPT ![c] = hs]
    /\ stage' = [stage EXCEPT ![c] = "idle"]
    /\ op' = [op EXCEPT ![c] = "none"]
    /\ asked' = [asked EXCEPT ![c] = {}]

\* Mutant of Snapshots: the connector of one host is asked.
SnapshotsOfOne == listed \cap {CHOOSE h \in hosts : TRUE}

\* GetContainerSnapshots, with the connectors of all hosts, and nothing without
\* a connection.
Snapshots == listed

\* The containers that answer to what was asked for.
Found(c) == asked[c] \cap Snapshots

\* The list, the export and the totals take what is there.
List(c) ==
    /\ stage[c] = "check" /\ op[c] = "list"
    /\ GetRead(c) /\ Reply(c, Snapshots)

\* handleContainerDetail sees whether there is such a container.
Check(c) ==
    /\ stage[c] = "check" /\ op[c] # "list"
    /\ GetRead(c)
    /\ \/ Found(c) # {} /\ stage' = [stage EXCEPT ![c] = "act"]
          /\ UNCHANGED <<op, asked, shown>>
       \/ Found(c) = {} /\ Reply(c, {})

\* The first match of a second list answers: of the handler's own list for a
\* detail, the endpoints or the probes.
Read(c) ==
    /\ stage[c] = "act" /\ op[c] = "read"
    /\ GetRead(c)
    /\ \/ \E h \in Found(c) : Reply(c, {h})
       \/ Found(c) = {} /\ Reply(c, {})

\* Of the provider's for processes, changes, files and logs.
Operate(c) ==
    /\ stage[c] = "act" /\ op[c] = "operate"
    /\ GetRead(c)
    /\ \/ \E h \in Found(c) : Reply(c, {h})
       \/ Found(c) = {} /\ Reply(c, {})

\* A preview is fetched from a port of the first match; another port is refused.
Preview(c) ==
    /\ stage[c] = "act" /\ op[c] = "preview"
    /\ GetRead(c)
    /\ \/ \E h \in Found(c) : Reply(c, {h})
       \/ Reply(c, {})

\* Get returns an error.
Unavailable(c) ==
    /\ stage[c] # "idle" /\ c \notin getter
    /\ ~writer /\ err # "none"
    /\ Reply(c, {})
    /\ UNCHANGED vars

Request(c) ==
    \/ List(c) \/ Check(c) \/ Read(c) \/ Operate(c) \/ Preview(c)
    \/ Unavailable(c)

-----------------------------------------------------------------------------
\* A getter without a request.
Idle(c) == c \in Requesters => stage[c] = "idle"

\* What a connector that was dropped listed is not seen any more.
Connector ==
    /\ \/ \E h \in Hosts : HostDown(h) \/ HostUp(h) \/ LinkEnds(h) \/ DroppedEnds(h)
       \/ loop
       \/ \E c \in Getters :
              GetLock(c) \/ (Idle(c) /\ GetRead(c))
    /\ listed' = {h \in listed : link'[h] # "none"}
    /\ UNCHANGED requestVars

\* The connector finds the container of a host, or removes it.
Registry ==
    /\ \E h \in Hosts :
           /\ link[h] = "open"
           /\ listed' = IF h \in listed THEN listed \ {h} ELSE listed \cup {h}
    /\ UNCHANGED <<vars, requestVars>>

Watch ==
    steady' = [c \in Requesters |->
                  IF err' = "none" /\ stage'[c] # "idle"
                  THEN steady[c] \cap listed' ELSE {}]

ProviderNext ==
    \/ \E c \in Requesters : Ask(c)
    \/ Connector /\ Watch
    \/ Registry /\ Watch
    \/ (\E c \in Requesters : Request(c)) /\ UNCHANGED listed /\ Watch

\* As in ConnectorSuper.  A reader that waits for the lock gets it when the
\* writer it waits for unlocks it, before another writer does (sync.RWMutex).
ProviderFairness ==
    /\ Fairness
    /\ \A c \in Requesters :
           SF_providerVars((stage[c] # "idle" /\ GetLock(c) /\ Connector /\ Watch)
                           \/ (Request(c) /\ UNCHANGED listed /\ Watch))

ProviderSpec == ProviderInit /\ [][ProviderNext]_providerVars /\ ProviderFairness

-----------------------------------------------------------------------------
(* Properties. *)

\* A container that can be seen all the time is not missing from an answer, on
\* whatever host it is and whatever happens to the others: a list has it, and a
\* request that means it is answered; a preview may be refused.
StaysVisible ==
    [][\A c \in Requesters :
           stage[c] # "idle" /\ stage'[c] = "idle" /\ op[c] # "preview" =>
               IF op[c] = "list" THEN steady[c] \subseteq shown'[c]
                                 ELSE steady[c] # {} => shown'[c] # {}
      ]_providerVars

\* Every request is answered: the supervisor that changes its error and the
\* getters never keep each other waiting for ever.
RequestsEnd == \A c \in Requesters : (stage[c] # "idle") ~> (stage[c] = "idle")

\* Requests are answered, and with everything that is there to be seen.
RequestsAnswered == StaysVisible /\ RequestsEnd
=============================================================================
