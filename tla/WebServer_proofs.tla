--------------------------- MODULE WebServer_proofs ---------------------------
(***************************************************************************)
(* Proofs about logins, sessions and the token file, for any browsers and  *)
(* addresses and for every value of the limits.                            *)
(***************************************************************************)
EXTENDS WebServer, Filtering_proofs

-----------------------------------------------------------------------------
(* The order of the sessions. *)

\* o lists the sessions of f, each once, from the least recently used on.
Lists(o, f) ==
    /\ o \in Seq(Ids) /\ ToSet(o) = DOMAIN f /\ IsInjective(o)
    /\ \A i, j \in 1..Len(o) : i < j => f[o[i]].seen <= f[o[j]].seen

LEMMA ListsKept ==
    ASSUME NEW o, NEW f, Lists(o, f), NEW ids \in SUBSET DOMAIN f
    PROVE  Lists(OnlyIn(o, ids), [id \in ids |-> f[id]])
<1> DEFINE q == OnlyIn(o, ids)
           g == [id \in ids |-> f[id]]
<1>1. o \in Seq(Ids) /\ ToSet(o) = DOMAIN f /\ IsInjective(o)
  BY DEF Lists
<1>2. PICK e : q \in Seq(Ids) /\ Keeps(o, ids, Len(o), q, e)
  BY <1>1, OnlyInKeeps
<1>3. ToSet(q) = ids /\ IsInjective(q)
  <2>1. ToSet(q) = ToSet(o) \cap ids
    BY <1>1, OnlyInRange
  <2>2. IsInjective(q)
    BY <1>1, OnlyInInjective
  <2> QED BY <1>1, <2>1, <2>2
<1> HIDE DEF q
<1>4. ASSUME NEW i \in 1..Len(q), NEW j \in 1..Len(q), i < j
      PROVE  g[q[i]].seen <= g[q[j]].seen
  <2>1. /\ e[i] \in 1..Len(o) /\ e[j] \in 1..Len(o) /\ e[i] < e[j]
        /\ q[i] = o[e[i]] /\ q[i] \in ids /\ q[j] = o[e[j]] /\ q[j] \in ids
    BY <1>2, <1>4 DEF Keeps
  <2>2. f[o[e[i]]].seen <= f[o[e[j]]].seen
    BY <2>1 DEF Lists
  <2> QED BY <2>1, <2>2
<1> QED BY <1>2, <1>3, <1>4 DEF Lists, q

LEMMA ListsMore ==
    ASSUME NEW o, NEW f, Lists(o, f), NEW x \in Ids, x \notin DOMAIN f,
           NEW g, DOMAIN g = DOMAIN f \cup {x},
           \A id \in DOMAIN f : g[id] = f[id] /\ f[id].seen <= g[x].seen
    PROVE  Lists(Append(o, x), g)
<1> DEFINE q == Append(o, x)
<1>1. o \in Seq(Ids) /\ ToSet(o) = DOMAIN f /\ IsInjective(o)
  BY DEF Lists
<1>2. /\ q \in Seq(Ids) /\ Len(q) = Len(o) + 1 /\ q[Len(o) + 1] = x
      /\ \A i \in 1..Len(o) : q[i] = o[i]
      /\ Len(o) \in Nat
  BY <1>1
<1> HIDE DEF q
<1>3. DOMAIN o = 1..Len(o) /\ DOMAIN q = 1..Len(o)+1
  BY <1>1, <1>2
<1>4. \A i \in 1..Len(o) : o[i] \in DOMAIN f
  BY <1>1, <1>3 DEF ToSet
<1>5. ToSet(q) = DOMAIN f \cup {x}
  <2>1. \A i \in DOMAIN q : i \in 1..Len(o) \/ i = Len(o) + 1
    BY <1>2, <1>3
  <2>2. ToSet(q) \subseteq DOMAIN f \cup {x}
    BY <1>2, <1>4, <2>1 DEF ToSet
  <2>3. x \in ToSet(q)
    BY <1>2, <1>3 DEF ToSet
  <2>4. ASSUME NEW y \in DOMAIN f PROVE y \in ToSet(q)
    <3>1. PICK i \in 1..Len(o) : y = o[i]
      BY <1>1, <1>3 DEF ToSet
    <3>2. i \in DOMAIN q /\ q[i] = y
      BY <1>2, <1>3, <3>1
    <3> QED BY <3>2 DEF ToSet
  <2> QED BY <2>2, <2>3, <2>4
<1>6. IsInjective(q)
  <2> SUFFICES ASSUME NEW i \in 1..Len(o)+1, NEW j \in 1..Len(o)+1, q[i] = q[j]
               PROVE  i = j
    BY <1>3 DEF IsInjective
  <2>1. CASE i \in 1..Len(o) /\ j \in 1..Len(o)
    BY <1>1, <1>2, <1>3, <2>1 DEF IsInjective
  <2>2. CASE i = Len(o) + 1 /\ j = Len(o) + 1
    BY <2>2
  <2>3. CASE i = Len(o) + 1 /\ j \in 1..Len(o)
    BY <1>2, <1>4, <2>3
  <2>4. CASE i \in 1..Len(o) /\ j = Len(o) + 1
    BY <1>2, <1>4, <2>4
  <2> QED BY <1>2, <2>1, <2>2, <2>3, <2>4
<1>7. ASSUME NEW i \in 1..Len(q), NEW j \in 1..Len(q), i < j
      PROVE  g[q[i]].seen <= g[q[j]].seen
  <2>1. i \in 1..Len(o) /\ q[i] = o[i] /\ o[i] \in DOMAIN f
    BY <1>2, <1>4, <1>7
  <2>2. CASE j = Len(o) + 1
    BY <1>2, <2>1, <2>2
  <2>3. CASE j \in 1..Len(o)
    <3>1. q[j] = o[j] /\ o[j] \in DOMAIN f
      BY <1>2, <1>4, <2>3
    <3>2. f[o[i]].seen <= f[o[j]].seen
      BY <1>7, <2>1, <2>3 DEF Lists
    <3> QED BY <2>1, <3>1, <3>2
  <2> QED BY <1>2, <2>2, <2>3
<1> QED BY <1>2, <1>5, <1>6, <1>7 DEF Lists, q

-----------------------------------------------------------------------------
(* The store. *)

\* The store is well formed, the capacity and the order included.
StoreInv ==
    /\ now \in 0..MaxTime /\ issued \in 0..MaxIds
    /\ DOMAIN sessions \subseteq 1..issued
    /\ sessions \in [DOMAIN sessions -> [created : 0..now, seen : 0..now]]
    /\ Cardinality(DOMAIN sessions) <= MaxSessions
    /\ Lists(order, sessions)

\* What a step does to the store: a session ends, one is used, one is created,
\* nothing but time passes, or the program ends.
LoggedOut(id) == \E b \in Browsers : cookie[b] = id /\ cookie'[b] = 0
Ends ==
    \E id : (Expired(id) \/ LoggedOut(id)) /\ Revoke(id) /\ UNCHANGED <<now, issued>>
Uses ==
    \E id \in DOMAIN sessions :
        ~Expired(id) /\ Touch(id) /\ UNCHANGED <<now, issued>>
Creates == \E b \in Browsers : CreateSession(b)
Rests ==
    /\ UNCHANGED <<storeVars, issued>>
    /\ now' = now \/ (now < MaxTime /\ now' = now + 1)
Forgets ==
    sessions' = <<>> /\ order' = <<>> /\ UNCHANGED <<now, issued>> /\ web' = "down"

LEMMA StoreSteps ==
    ASSUME cookie \in [Browsers -> Nat], [WebNext]_webAllVars
    PROVE  Ends \/ Uses \/ Creates \/ Rests \/ Forgets
<1>1. ASSUME NEW b \in Browsers, Login(b) PROVE Creates \/ Rests
  BY <1>1 DEF Login, Allow, RecordSuccess, RecordFailure, BadPayload, Creates,
              Rests, storeVars
<1>2. ASSUME NEW b \in Browsers, ValidateSession(b) PROVE Ends \/ Uses
  <2>1. CASE Expired(cookie[b])
    BY <1>2, <2>1 DEF ValidateSession, Ends
  <2>2. CASE ~Expired(cookie[b])
    BY <1>2, <2>2 DEF ValidateSession, Uses
  <2> QED BY <2>1, <2>2
<1>3. ASSUME NEW b \in Browsers, Logout(b) PROVE Ends
  <2>1. cookie'[b] = 0 /\ Revoke(cookie[b]) /\ UNCHANGED <<now, issued>>
    BY <1>3 DEF Logout
  <2>2. LoggedOut(cookie[b])
    BY <2>1 DEF LoggedOut
  <2> QED BY <2>1, <2>2 DEF Ends
<1>4. CASE Handle
  BY <1>1, <1>2, <1>3, <1>4 DEF Handle, Visit
<1>5. CASE Tick
  BY <1>5 DEF Tick, Advance, Rests, storeVars
<1>6. ASSUME UNCHANGED vars PROVE Rests
  BY <1>6 DEF vars, storeVars, Rests
<1>7. CASE (\E k \in {"open", "ephemeral", "persistent"} : Begin(k))
           \/ WriteToken \/ Listen \/ ListenFails \/ Cleanup \/ Other
  BY <1>6, <1>7 DEF Begin, WriteToken, Listen, ListenFails, Cleanup, Other
<1>8. CASE Stopped \/ Killed
  BY <1>8 DEF Stopped, Killed, End, Forgets
<1>9. CASE UNCHANGED webAllVars
  BY <1>6, <1>9 DEF webAllVars
<1> QED BY <1>4, <1>5, <1>7, <1>8, <1>9 DEF WebNext

LEMMA SessionsFinite ==
    ASSUME StoreInv
    PROVE  \A D \in SUBSET DOMAIN sessions : IsFiniteSet(D) /\ Cardinality(D) \in Nat
<1>1. issued \in Nat
  BY BoundAssumption DEF StoreInv
<1>2. IsFiniteSet(1..issued)
  BY <1>1, FS_Interval
<1>3. ASSUME NEW D \in SUBSET DOMAIN sessions PROVE IsFiniteSet(D)
  <2>1. D \in SUBSET (1..issued)
    BY DEF StoreInv
  <2> QED BY <1>2, <2>1, FS_Subset
<1> QED BY <1>3, FS_CardinalityType

\* A new session leaves the unexpired ones in the store, or all but the first
\* in the order, and there is room for it.
LEMMA CreateLeaves ==
    ASSUME StoreInv, NEW b \in Browsers, CreateSession(b)
    PROVE  \E ids \in SUBSET Fresh :
               /\ Admit(b, ids)
               /\ Cardinality(ids) < MaxSessions
               /\ \A id \in Fresh \ ids :
                      /\ Cardinality(Fresh) = MaxSessions
                      /\ \A i \in Fresh : sessions[id].seen <= sessions[i].seen
<1> DEFINE left == OnlyIn(order, Fresh)
<1>1. Fresh \subseteq DOMAIN sessions
  BY DEF Fresh
<1>2. /\ IsFiniteSet(Fresh) /\ Cardinality(Fresh) \in Nat
      /\ Cardinality(Fresh) <= MaxSessions
  <2>1. IsFiniteSet(DOMAIN sessions) /\ Cardinality(DOMAIN sessions) \in Nat
    BY SessionsFinite
  <2>2. /\ IsFiniteSet(Fresh) /\ Cardinality(Fresh) \in Nat
        /\ Cardinality(Fresh) <= Cardinality(DOMAIN sessions)
    BY <1>1, <2>1, SessionsFinite, FS_Subset
  <2> QED BY <2>1, <2>2, LimitAssumption DEF StoreInv
<1>3. Lists(left, [id \in Fresh |-> sessions[id]])
  BY <1>1, ListsKept DEF StoreInv
<1> HIDE DEF left
<1>4. /\ left \in Seq(Ids) /\ ToSet(left) = Fresh
      /\ \A i, j \in 1..Len(left) :
             i < j => sessions[left[i]].seen <= sessions[left[j]].seen
  <2>1. left \in Seq(Ids) /\ ToSet(left) = Fresh
    BY <1>3 DEF Lists
  <2>2. \A i \in 1..Len(left) : left[i] \in Fresh
    BY <2>1 DEF ToSet
  <2> QED BY <1>3, <2>1, <2>2 DEF Lists
<1>5. CASE Cardinality(Fresh) >= MaxSessions
  <2>1. Cardinality(Fresh) = MaxSessions /\ MaxSessions \in Nat \ {0}
    BY <1>2, <1>5, LimitAssumption
  <2>2. Fresh # {}
    BY <2>1, FS_EmptySet
  <2>3. Len(left) \in Nat \ {0} /\ left # <<>>
    BY <1>4, <2>2, EmptySeq DEF ToSet
  <2> DEFINE old == left[1]
  <2>4. old \in Fresh /\ Oldest(Fresh) = {old}
    BY <1>4, <2>3 DEF Oldest, left, ToSet
  <2>5. ASSUME NEW i \in Fresh PROVE sessions[old].seen <= sessions[i].seen
    <3>1. PICK k \in 1..Len(left) : i = left[k]
      BY <1>4 DEF ToSet
    <3>2. CASE k = 1
      <4>1. sessions[i].seen \in Nat
        BY <1>1 DEF StoreInv
      <4> QED BY <3>1, <3>2, <4>1
    <3>3. CASE k # 1
      BY <1>4, <2>3, <3>1, <3>3
    <3> QED BY <3>2, <3>3
  <2>6. Cardinality(Fresh \ {old}) < MaxSessions
    <3>1. Cardinality(Fresh \ {old}) = Cardinality(Fresh) - 1
      BY <1>2, <2>4, FS_RemoveElement
    <3> QED BY <2>1, <3>1
  <2>7. Admit(b, Fresh \ {old})
    BY <1>5, <2>4 DEF CreateSession
  <2> HIDE DEF old
  <2>8. \A id \in Fresh \ (Fresh \ {old}) : id = old
    OBVIOUS
  <2> QED BY <2>1, <2>5, <2>6, <2>7, <2>8
<1>6. CASE ~(Cardinality(Fresh) >= MaxSessions)
  <2>1. Admit(b, Fresh)
    BY <1>6 DEF CreateSession
  <2>2. Cardinality(Fresh) < MaxSessions
    BY <1>2, <1>6, LimitAssumption
  <2> QED BY <2>1, <2>2
<1> QED BY <1>5, <1>6

\* Keeping a part of the sessions.
LEMMA KeepInv ==
    ASSUME StoreInv, NEW ids \in SUBSET DOMAIN sessions, Keep(ids),
           UNCHANGED <<now, issued>>
    PROVE  StoreInv'
<1>1. Lists(order', sessions') /\ DOMAIN sessions' = ids
  BY ListsKept DEF StoreInv, Keep
<1>2. sessions' \in [ids -> [created : 0..now, seen : 0..now]]
  BY DEF StoreInv, Keep
<1>3. Cardinality(ids) <= MaxSessions
  <2>1. IsFiniteSet(DOMAIN sessions) /\ Cardinality(DOMAIN sessions) \in Nat
        /\ Cardinality(ids) \in Nat
    BY SessionsFinite
  <2>2. Cardinality(ids) <= Cardinality(DOMAIN sessions)
    BY <2>1, FS_Subset
  <2> QED BY <2>1, <2>2, LimitAssumption DEF StoreInv
<1> QED BY <1>1, <1>2, <1>3 DEF StoreInv

LEMMA TouchInv ==
    ASSUME StoreInv, NEW id \in DOMAIN sessions, Touch(id),
           UNCHANGED <<now, issued>>
    PROVE  StoreInv'
<1> DEFINE ids == DOMAIN sessions \ {id}
           o == OnlyIn(order, ids)
           f == [i \in ids |-> sessions[i]]
<1>1. /\ sessions' = [sessions EXCEPT ![id].seen = now]
      /\ order' = Append(o, id)
  BY DEF Touch, StoreInv, Lists
<1>2. Lists(o, f)
  BY ListsKept DEF StoreInv
<1>3. now \in Nat /\ \A i \in DOMAIN sessions :
          sessions[i] \in [created : 0..now, seen : 0..now]
  BY BoundAssumption DEF StoreInv
<1>4. /\ DOMAIN sessions' = DOMAIN sessions
      /\ sessions'[id].seen = now /\ sessions'[id].created = sessions[id].created
      /\ sessions' \in [DOMAIN sessions -> [created : 0..now, seen : 0..now]]
      /\ \A i \in ids : sessions'[i] = sessions[i]
  BY <1>1, <1>3 DEF StoreInv
<1>5. id \in Ids
  BY BoundAssumption DEF StoreInv, Ids
<1>6. DOMAIN f = ids /\ id \notin DOMAIN f /\ DOMAIN sessions' = DOMAIN f \cup {id}
  BY <1>4
<1>7. ASSUME NEW i \in DOMAIN f
      PROVE  sessions'[i] = f[i] /\ f[i].seen <= sessions'[id].seen
  <2>1. i \in ids /\ f[i] = sessions[i] /\ sessions[i].seen \in 0..now
    BY <1>3
  <2> QED BY <1>3, <1>4, <2>1
<1> HIDE DEF o, f
<1>8. Lists(order', sessions')
  BY <1>1, <1>2, <1>5, <1>6, <1>7, ListsMore
<1> QED BY <1>4, <1>8 DEF StoreInv

LEMMA CreateInv ==
    ASSUME StoreInv, NEW b \in Browsers, CreateSession(b) PROVE StoreInv'
<1> DEFINE new == issued + 1
<1>1. PICK ids \in SUBSET Fresh : Admit(b, ids) /\ Cardinality(ids) < MaxSessions
  BY CreateLeaves
<1>2. ids \subseteq DOMAIN sessions
  BY DEF Fresh
<1>3. issued < MaxIds /\ issued \in Nat /\ new \in Ids /\ now \in Nat
  BY BoundAssumption DEF CreateSession, StoreInv, Ids
<1>4. /\ issued' = new /\ now' = now
      /\ sessions' = [i \in ids \cup {new} |->
                         IF i = new THEN [created |-> now, seen |-> now]
                                    ELSE sessions[i]]
      /\ order' = Append(OnlyIn(order, ids), new)
  BY <1>1 DEF Admit
<1>5. new \notin DOMAIN sessions /\ DOMAIN sessions \subseteq 1..new
  BY <1>3 DEF StoreInv
<1>6. \A i \in DOMAIN sessions :
          sessions[i] \in [created : 0..now, seen : 0..now]
  BY DEF StoreInv
<1>7. /\ DOMAIN sessions' = ids \cup {new}
      /\ sessions'[new] = [created |-> now, seen |-> now]
      /\ \A i \in ids : sessions'[i] = sessions[i]
      /\ sessions' \in [ids \cup {new} -> [created : 0..now, seen : 0..now]]
  <2>1. [created |-> now, seen |-> now] \in [created : 0..now, seen : 0..now]
    BY <1>3
  <2> QED BY <1>2, <1>4, <1>5, <1>6, <2>1
<1>8. Lists(order', sessions')
  <2> DEFINE f == [i \in ids |-> sessions[i]]
  <2>1. Lists(OnlyIn(order, ids), f)
    BY <1>2, ListsKept DEF StoreInv
  <2>2. /\ DOMAIN f = ids /\ new \notin ids
        /\ \A i \in ids : sessions'[i] = f[i] /\ f[i].seen <= sessions'[new].seen
    BY <1>2, <1>3, <1>5, <1>6, <1>7
  <2> HIDE DEF f, new
  <2> QED BY <1>3, <1>4, <1>7, <2>1, <2>2, ListsMore
<1>9. Cardinality(DOMAIN sessions') <= MaxSessions
  <2>1. IsFiniteSet(ids) /\ Cardinality(ids) \in Nat
    BY <1>2, SessionsFinite
  <2>2. Cardinality(ids \cup {new}) = Cardinality(ids) + 1
    BY <1>2, <1>5, <2>1, FS_AddElement
  <2> QED BY <1>1, <1>7, <2>1, <2>2, LimitAssumption
<1>10. now' \in 0..MaxTime /\ issued' \in 0..MaxIds /\ new \in 1..new
  BY <1>3, <1>4, BoundAssumption DEF StoreInv
<1> QED BY <1>2, <1>4, <1>5, <1>7, <1>8, <1>9, <1>10 DEF StoreInv

LEMMA ForgetInv ==
    ASSUME StoreInv, sessions' = <<>>, order' = <<>>, UNCHANGED <<now, issued>>
    PROVE  StoreInv'
<1>1. DOMAIN <<>> = {} /\ Len(<<>>) = 0 /\ <<>> \in Seq(Ids)
  BY EmptySeq
<1>2. Lists(<<>>, <<>>)
  BY <1>1 DEF Lists, ToSet, IsInjective
<1>3. Cardinality({}) = 0
  BY FS_EmptySet
<1>4. <<>> \in [{} -> [created : 0..now, seen : 0..now]]
  OBVIOUS
<1> QED BY <1>1, <1>2, <1>3, <1>4, LimitAssumption DEF StoreInv

LEMMA StoreStep ==
    ASSUME StoreInv, cookie \in [Browsers -> Nat], [WebNext]_webAllVars
    PROVE  StoreInv'
<1>1. CASE Ends
  BY <1>1, KeepInv DEF Ends, Revoke
<1>2. CASE Uses
  BY <1>2, TouchInv DEF Uses
<1>3. CASE Creates
  BY <1>3, CreateInv DEF Creates
<1>4. CASE Rests
  <2>1. now' \in 0..MaxTime /\ 0..now \subseteq 0..now'
    BY <1>4, BoundAssumption DEF Rests, StoreInv
  <2>2. /\ UNCHANGED <<sessions, order, issued>>
        /\ sessions \in [DOMAIN sessions -> [created : 0..now', seen : 0..now']]
    BY <1>4, <2>1 DEF Rests, storeVars, StoreInv
  <2> QED BY <2>1, <2>2 DEF StoreInv
<1>5. CASE Forgets
  BY <1>5, ForgetInv DEF Forgets
<1> QED BY <1>1, <1>2, <1>3, <1>4, <1>5, StoreSteps

-----------------------------------------------------------------------------
(* The limiter, the cookies and the life of the server. *)

LoginInv ==
    /\ failures \in [Addresses -> Seq(0..MaxTime)]
    /\ login \in [Browsers -> {"none", "allowed", "correct"}]
    /\ cookie \in [Browsers -> 0..issued]

ServerInv == StoreInv /\ LoginInv /\ WebTypeOK

LEMMA RecentType ==
    ASSUME LoginInv, NEW a \in Addresses
    PROVE  Recent(a) \in Seq(0..MaxTime)
BY OnlyInKeeps DEF LoginInv, Recent

LEMMA CookieType ==
    ASSUME StoreInv, LoginInv PROVE cookie \in [Browsers -> Nat]
BY BoundAssumption DEF StoreInv, LoginInv

LEMMA LoginStep ==
    ASSUME ServerInv, [WebNext]_webAllVars PROVE LoginInv'
<1> USE DEF ServerInv
<1>1. ASSUME UNCHANGED <<failures, login, cookie, issued>> PROVE LoginInv'
  BY <1>1 DEF LoginInv
<1>2. ASSUME NEW b \in Browsers, Allow(b) \/ RecordFailure(b) \/ RecordSuccess(b)
      PROVE  LoginInv'
  <2> DEFINE a == AddressOf[b]
  <2>1. a \in Addresses /\ failures[a] \in Seq(0..MaxTime)
    BY AddressAssumption DEF LoginInv
  <2>2. Recent(a) \in Seq(0..MaxTime)
    BY <2>1, RecentType
  <2>3. /\ <<>> \in Seq(0..MaxTime)
        /\ Append(failures[a], now) \in Seq(0..MaxTime)
    BY <2>1, EmptySeq DEF StoreInv
  <2>4. \E q \in Seq(0..MaxTime) : failures' = [failures EXCEPT ![a] = q]
    BY <1>2, <2>2, <2>3 DEF Allow, RecordFailure, RecordSuccess
  <2>5. failures' \in [Addresses -> Seq(0..MaxTime)]
    BY <2>4 DEF LoginInv
  <2>6. /\ login' \in [Browsers -> {"none", "allowed", "correct"}]
        /\ UNCHANGED <<cookie, issued>>
    BY <1>2 DEF Allow, RecordFailure, RecordSuccess, LoginInv
  <2> QED BY <2>5, <2>6 DEF LoginInv
<1>3. ASSUME NEW b \in Browsers, BadPayload(b) PROVE LoginInv'
  BY <1>3 DEF BadPayload, LoginInv
<1>4. ASSUME NEW b \in Browsers, CreateSession(b) PROVE LoginInv'
  <2>1. /\ issued' = issued + 1 /\ UNCHANGED failures
        /\ cookie' = [cookie EXCEPT ![b] = issued + 1]
        /\ login' = [login EXCEPT ![b] = "none"]
    BY <1>4 DEF CreateSession, Admit
  <2>2. 0..issued \subseteq 0..issued+1 /\ issued + 1 \in 0..issued+1
    BY BoundAssumption DEF StoreInv
  <2> QED BY <2>1, <2>2 DEF LoginInv
<1>5. ASSUME NEW b \in Browsers, Logout(b) PROVE LoginInv'
  BY <1>5, BoundAssumption DEF Logout, LoginInv, StoreInv
<1>6. ASSUME NEW b \in Browsers, Visit(b) PROVE LoginInv'
  BY <1>1, <1>6 DEF Visit, ValidateSession
<1>7. CASE Handle
  BY <1>2, <1>3, <1>4, <1>5, <1>6, <1>7 DEF Handle, Login
<1>8. CASE Tick
  BY <1>1, <1>8 DEF Tick, Advance
<1>9. CASE Stopped \/ Killed
  <2>1. End
    BY <1>9 DEF Stopped, Killed
  <2>2. <<>> \in Seq(0..MaxTime)
    BY EmptySeq
  <2> QED BY <2>1, <2>2 DEF End, LoginInv
<1>10. ASSUME UNCHANGED vars PROVE LoginInv'
  BY <1>1, <1>10 DEF vars
<1>11. CASE (\E k \in {"open", "ephemeral", "persistent"} : Begin(k))
            \/ WriteToken \/ Listen \/ ListenFails \/ Cleanup \/ Other
  BY <1>10, <1>11 DEF Begin, WriteToken, Listen, ListenFails, Cleanup, Other
<1>12. CASE UNCHANGED webAllVars
  BY <1>10, <1>12 DEF webAllVars
<1> QED BY <1>7, <1>8, <1>9, <1>11, <1>12 DEF WebNext

LEMMA WebStep == ASSUME WebTypeOK, [WebNext]_webAllVars PROVE WebTypeOK'
<1> USE TokenAssumption DEF WebTypeOK, NoFile, Cut, Tokens
<1>1. ASSUME UNCHANGED webVars PROVE WebTypeOK'
  BY <1>1 DEF webVars
<1>2. CASE Handle \/ Tick
  BY <1>1, <1>2 DEF Handle, Tick
<1>3. ASSUME NEW k \in {"open", "ephemeral", "persistent"}, Begin(k)
      PROVE  WebTypeOK'
  <2>1. CASE k = "open" /\ UNCHANGED <<file, made>>
    BY <1>3, <2>1 DEF Begin
  <2>2. CASE file \in Tokens /\ token' = file /\ UNCHANGED <<file, made>>
    <3>1. file \in 0..made
      BY <2>2
    <3> QED BY <1>3, <2>2, <3>1 DEF Begin
  <2>3. CASE /\ made < MaxTokens /\ made' = made + 1 /\ token' = made'
             /\ file' = NoFile
    BY <1>3, <2>3 DEF Begin
  <2> QED BY <1>3, <2>1, <2>2, <2>3 DEF Begin
<1>4. CASE WriteToken \/ Listen \/ ListenFails \/ Cleanup
  BY <1>4 DEF WriteToken, Listen, ListenFails, Cleanup
<1>5. CASE Stopped \/ Killed
  BY <1>5 DEF Stopped, Killed, End
<1>6. CASE Other
  <2>1. UNCHANGED <<web, kind, token>> /\ alone' = FALSE
    BY <1>6 DEF Other
  <2>2. made' \in made..MaxTokens /\ file' \in 0..made'
    BY <1>6 DEF Other
  <2>3. token' \in 0..made' /\ made' \in 0..MaxTokens
    BY <2>1, <2>2
  <2> QED BY <2>1, <2>2, <2>3
<1>7. CASE UNCHANGED webAllVars
  BY <1>1, <1>7 DEF webAllVars
<1> QED BY <1>2, <1>3, <1>4, <1>5, <1>6, <1>7 DEF WebNext

LEMMA ServerInit == WebInit => ServerInv
<1> SUFFICES ASSUME WebInit PROVE StoreInv /\ LoginInv /\ WebTypeOK
  BY DEF ServerInv
<1>1. StoreInv
  <2>1. sessions = <<>> /\ order = <<>> /\ now = 0 /\ issued = 0
    BY DEF WebInit, Init
  <2>2. DOMAIN <<>> = {} /\ Len(<<>>) = 0 /\ <<>> \in Seq(Ids)
    BY EmptySeq
  <2>3. Lists(<<>>, <<>>)
    BY <2>2 DEF Lists, ToSet, IsInjective
  <2>4. Cardinality({}) = 0 /\ <<>> \in [{} -> [created : 0..now, seen : 0..now]]
    BY FS_EmptySet
  <2> QED BY <2>1, <2>2, <2>3, <2>4, LimitAssumption, BoundAssumption DEF StoreInv
<1>2. LoginInv
  BY EmptySeq DEF WebInit, Init, LoginInv
<1>3. WebTypeOK
  BY TokenAssumption DEF WebInit, WebTypeOK, NoFile
<1> QED BY <1>1, <1>2, <1>3

LEMMA ServerStep == ServerInv /\ [WebNext]_webAllVars => ServerInv'
BY StoreStep, LoginStep, WebStep, CookieType DEF ServerInv

LEMMA ServerInvariant == WebSpec => []ServerInv
BY ServerInit, ServerStep, PTL DEF WebSpec

\* The session store keeps its types and its capacity and lists its sessions
\* from the least to the most recently used, and the server its types, through
\* all logins, uses, expiries, evictions, ends and starts.
THEOREM ServerCorrect == WebSpec => []ServerOK
<1>1. ServerInv => ServerOK
  BY DEF ServerInv, StoreInv, LoginInv, Lists, ServerOK, StoreOK, TypeOK,
         OrderIsLRU
<1> QED BY <1>1, ServerInvariant, PTL

-----------------------------------------------------------------------------
(* How long a session lasts. *)

\* In a step a session that stays is as it was, or is used while it is not
\* expired, and no session of the past comes back.
LEMMA SessionStep ==
    ASSUME ServerInv, [WebNext]_webAllVars
    PROVE  /\ now <= now'
           /\ DOMAIN sessions' \cap (1..issued) \subseteq DOMAIN sessions
           /\ \A id \in DOMAIN sessions \cap DOMAIN sessions' :
                  \/ sessions'[id] = sessions[id]
                  \/ /\ ~Expired(id) /\ now' = now
                     /\ sessions'[id].seen = now
                     /\ sessions'[id].created = sessions[id].created
<1>1. now \in Nat /\ issued \in Nat /\ StoreInv /\ cookie \in [Browsers -> Nat]
  BY CookieType, BoundAssumption DEF ServerInv, StoreInv
<1>2. CASE Ends
  <2>1. PICK ids \in SUBSET DOMAIN sessions : Keep(ids) /\ now' = now
    BY <1>2 DEF Ends, Revoke
  <2>2. sessions' = [id \in ids |-> sessions[id]]
    BY <2>1 DEF Keep
  <2> QED BY <1>1, <2>1, <2>2
<1>3. CASE Uses
  <2>1. PICK id \in DOMAIN sessions : ~Expired(id) /\ Touch(id) /\ now' = now
    BY <1>3 DEF Uses
  <2>2. sessions' = [sessions EXCEPT ![id].seen = now]
    BY <2>1 DEF Touch
  <2>3. sessions[id] \in [created : 0..now, seen : 0..now]
    BY <1>1 DEF StoreInv
  <2>4. /\ DOMAIN sessions' = DOMAIN sessions
        /\ sessions'[id].seen = now /\ sessions'[id].created = sessions[id].created
        /\ \A i \in DOMAIN sessions \ {id} : sessions'[i] = sessions[i]
    BY <1>1, <2>2, <2>3 DEF StoreInv
  <2> QED BY <1>1, <2>1, <2>4
<1>4. CASE Creates
  <2>1. PICK b \in Browsers : CreateSession(b)
    BY <1>4 DEF Creates
  <2>2. PICK ids \in SUBSET Fresh : Admit(b, ids)
    BY <1>1, <2>1, CreateLeaves
  <2>3. /\ ids \subseteq DOMAIN sessions /\ now' = now
        /\ DOMAIN sessions' = ids \cup {issued + 1}
        /\ \A i \in DOMAIN sessions' : i # issued + 1 => sessions'[i] = sessions[i]
    BY <2>2 DEF Admit, Fresh
  <2>4. issued + 1 \notin 1..issued /\ DOMAIN sessions \subseteq 1..issued
    BY <1>1 DEF StoreInv
  <2> QED BY <1>1, <2>3, <2>4
<1>5. CASE Rests
  BY <1>1, <1>5 DEF Rests, storeVars
<1>6. CASE Forgets
  BY <1>1, <1>6 DEF Forgets
<1> QED BY <1>1, <1>2, <1>3, <1>4, <1>5, <1>6, StoreSteps

LEMMA IdleTTLType == IdleTTL \in Nat
BY LimitAssumption DEF IdleTTL

LEMMA UsedStep ==
    ASSUME ServerInv, [WebNext]_webAllVars,
           NEW id \in DOMAIN sessions \cap DOMAIN sessions',
           sessions'[id].seen # sessions[id].seen
    PROVE  /\ sessions'[id].seen - sessions[id].seen <= IdleTTL
           /\ sessions'[id].seen - sessions'[id].created <= AbsoluteTTL
<1>1. /\ ~Expired(id) /\ sessions'[id].seen = now
      /\ sessions'[id].created = sessions[id].created
  BY SessionStep
<1>2. now \in Nat /\ sessions[id] \in [created : 0..now, seen : 0..now]
  BY BoundAssumption DEF ServerInv, StoreInv
<1> QED BY <1>1, <1>2, IdleTTLType, LimitAssumption DEF Expired

LEMMA RevivedStep ==
    ASSUME ServerInv, ServerInv', [WebNext]_webAllVars, NEW id \in 1..issued,
           ~IsSessionValid(id)
    PROVE  ~IsSessionValid(id)'
<1>1. CASE id \notin DOMAIN sessions'
  BY <1>1 DEF IsSessionValid
<1>2. CASE id \in DOMAIN sessions'
  <2>1. id \in DOMAIN sessions
    BY <1>2, SessionStep
  <2>2. /\ now \in Nat /\ now' \in Nat /\ now <= now'
        /\ sessions[id] \in [created : 0..now, seen : 0..now]
    BY <2>1, BoundAssumption, SessionStep DEF ServerInv, StoreInv
  <2>3. Expired(id)
    BY <2>1, <2>2, IdleTTLType, LimitAssumption DEF IsSessionValid, Expired
  <2>4. sessions'[id] = sessions[id]
    BY <1>2, <2>1, <2>3, SessionStep
  <2>5. IdleTTL' = IdleTTL
    BY DEF IdleTTL
  <2> QED BY <2>1, <2>2, <2>4, <2>5, IdleTTLType, LimitAssumption
          DEF IsSessionValid
<1> QED BY <1>1, <1>2

LEMMA KeptStep ==
    ASSUME ServerInv, [WebNext]_webAllVars, web' # "down",
           NEW id \in DOMAIN sessions \ DOMAIN sessions', ~Expired(id),
           ~LoggedOut(id)
    PROVE  /\ Cardinality(Fresh) = MaxSessions
           /\ \A i \in Fresh : sessions[id].seen <= sessions[i].seen
<1>1. StoreInv /\ cookie \in [Browsers -> Nat]
  BY CookieType DEF ServerInv
<1>2. CASE Ends
  <2>1. PICK gone : (Expired(gone) \/ LoggedOut(gone)) /\ Revoke(gone)
    BY <1>2 DEF Ends
  <2>2. DOMAIN sessions' = DOMAIN sessions \ {gone}
    BY <2>1 DEF Revoke, Keep
  <2> QED BY <2>1, <2>2
<1>3. CASE Uses
  BY <1>1, <1>3 DEF Uses, Touch, StoreInv
<1>4. CASE Creates
  <2>1. PICK b \in Browsers : CreateSession(b)
    BY <1>4 DEF Creates
  <2>2. PICK ids \in SUBSET Fresh :
            /\ Admit(b, ids)
            /\ \A i \in Fresh \ ids :
                   /\ Cardinality(Fresh) = MaxSessions
                   /\ \A j \in Fresh : sessions[i].seen <= sessions[j].seen
    BY <1>1, <2>1, CreateLeaves
  <2>3. id \in Fresh \ ids
    BY <2>2 DEF Admit, Fresh
  <2> QED BY <2>2, <2>3
<1>5. CASE Rests
  BY <1>5 DEF Rests, storeVars
<1>6. CASE Forgets
  BY <1>6 DEF Forgets
<1> QED BY <1>1, <1>2, <1>3, <1>4, <1>5, <1>6, StoreSteps

\* A session is used only within its limits, one that is no longer valid is
\* never revived, and nobody loses a valid one but by logging out, by the end of
\* the program, or to a store full of sessions used since.
THEOREM SessionsCorrect == WebSpec => SessionsLast
<1> DEFINE Used == \A id \in DOMAIN sessions \cap DOMAIN sessions' :
                       LET used == sessions'[id].seen IN
                       used # sessions[id].seen =>
                           /\ used - sessions[id].seen <= IdleTTL
                           /\ used - sessions'[id].created <= AbsoluteTTL
           Ended == \A id \in 1..issued :
                        ~IsSessionValid(id) => ~IsSessionValid(id)'
           Kept == web' # "down" =>
                     \A id \in DOMAIN sessions \ DOMAIN sessions' :
                         \/ Expired(id)
                         \/ \E b \in Browsers : cookie[b] = id /\ cookie'[b] = 0
                         \/ LET live == {i \in DOMAIN sessions : ~Expired(i)}
                            IN  /\ Cardinality(live) = MaxSessions
                                /\ \A i \in live :
                                       sessions[id].seen <= sessions[i].seen
<1>1. ServerInv /\ [WebNext]_webAllVars => [Used]_vars
  BY UsedStep
<1>2. ServerInv /\ ServerInv' /\ [WebNext]_webAllVars => [Ended]_vars
  BY RevivedStep
<1>3. ServerInv /\ [WebNext]_webAllVars => [Kept]_webAllVars
  BY KeptStep DEF Fresh, LoggedOut
<1> QED BY <1>1, <1>2, <1>3, ServerInvariant, PTL
        DEF WebSpec, SessionsLast, SessionsExpire, UsedInTime, NeverRevived,
            LiveSessionsKept

-----------------------------------------------------------------------------
(* The rate limiter. *)

At(a) == {b \in Browsers : AddressOf[b] = a}
InFlight(a) == {b \in At(a) : login[b] = "allowed"}

\* A login that was allowed counts like a failure until it is answered.
AttemptsInv ==
    \A a \in Addresses :
        Len(Recent(a)) + Cardinality(InFlight(a)) < MaxAttempts + Cardinality(At(a))

LEMMA Counts ==
    \A a \in Addresses :
        /\ IsFiniteSet(At(a)) /\ Cardinality(At(a)) \in Nat
        /\ IsFiniteSet(InFlight(a)) /\ Cardinality(InFlight(a)) \in Nat
        /\ Cardinality(InFlight(a)) <= Cardinality(At(a))
<1> SUFFICES ASSUME NEW a \in Addresses
             PROVE  /\ IsFiniteSet(At(a)) /\ Cardinality(At(a)) \in Nat
                    /\ IsFiniteSet(InFlight(a)) /\ Cardinality(InFlight(a)) \in Nat
                    /\ Cardinality(InFlight(a)) <= Cardinality(At(a))
  OBVIOUS
<1>1. At(a) \in SUBSET Browsers /\ InFlight(a) \in SUBSET At(a)
  BY DEF At, InFlight
<1>2. IsFiniteSet(At(a))
  BY <1>1, AddressAssumption, FS_Subset
<1>3. IsFiniteSet(InFlight(a)) /\ Cardinality(InFlight(a)) <= Cardinality(At(a))
  BY <1>1, <1>2, FS_Subset
<1> QED BY <1>2, <1>3, FS_CardinalityType

LEMMA RecentLength ==
    ASSUME ServerInv, [WebNext]_webAllVars, NEW a \in Addresses
    PROVE  /\ Len(Recent(a)) \in Nat /\ Len(Recent(a)') \in Nat
           /\ Len(Recent(a)') <= Len(failures'[a])
<1>1. failures[a] \in Seq(0..MaxTime) /\ failures'[a] \in Seq(0..MaxTime)
  BY LoginStep DEF ServerInv, LoginInv
<1> QED BY <1>1, OnlyInLength DEF Recent

\* An address has as many recent failures as before, or fewer, when none is
\* recorded, and fewer logins in flight when none is allowed.
LEMMA Older ==
    ASSUME ServerInv, [WebNext]_webAllVars, NEW a \in Addresses,
           failures'[a] = failures[a]
    PROVE  Len(Recent(a)') <= Len(Recent(a))
<1>1. failures[a] \in Seq(0..MaxTime)
  BY DEF ServerInv, LoginInv
<1>2. now \in Nat /\ now' \in Nat /\ now <= now'
  BY SessionStep, StoreStep, CookieType, BoundAssumption DEF ServerInv, StoreInv
<1>3. ASSUME NEW k \in 1..Len(failures[a]),
             failures[a][k] \in {t \in Nat : t > now' - Window}
      PROVE  failures[a][k] \in {t \in Nat : t > now - Window}
  BY <1>2, <1>3, LimitAssumption
<1> QED BY <1>1, <1>3, OnlyInFewer DEF Recent

LEMMA FewerInFlight ==
    ASSUME NEW a \in Addresses,
           \A b \in At(a) : login'[b] = "allowed" => login[b] = "allowed"
    PROVE  Cardinality(InFlight(a)') <= Cardinality(InFlight(a))
<1>1. InFlight(a)' \in SUBSET InFlight(a)
  BY DEF InFlight, At
<1> QED BY <1>1, Counts, FS_Subset

LEMMA InFlightNext ==
    ASSUME NEW a \in Addresses
    PROVE  /\ Cardinality(InFlight(a)') \in Nat
           /\ Cardinality(InFlight(a)') <= Cardinality(At(a))
<1>1. InFlight(a)' \in SUBSET At(a)
  BY DEF InFlight, At
<1>2. IsFiniteSet(InFlight(a)') /\ Cardinality(InFlight(a)') <= Cardinality(At(a))
  BY <1>1, Counts, FS_Subset
<1> QED BY <1>2, FS_CardinalityType

\* No address may gain recent failures and logins in flight, unless it is left
\* with room for one failure more.
LEMMA AttemptsKept ==
    ASSUME ServerInv, AttemptsInv, [WebNext]_webAllVars, NEW a \in Addresses,
           \/ Len(Recent(a)') + Cardinality(InFlight(a)')
                  <= Len(Recent(a)) + Cardinality(InFlight(a))
           \/ Len(Recent(a)') < MaxAttempts
    PROVE  Len(Recent(a)') + Cardinality(InFlight(a)')
               < MaxAttempts + Cardinality(At(a))
<1>1. Len(Recent(a)) \in Nat /\ Len(Recent(a)') \in Nat
  BY RecentLength
<1>2. Cardinality(InFlight(a)') \in Nat /\ Cardinality(InFlight(a)) \in Nat
      /\ Cardinality(InFlight(a)') <= Cardinality(At(a))
      /\ Cardinality(At(a)) \in Nat
  BY Counts, InFlightNext
<1>3. Len(Recent(a)) + Cardinality(InFlight(a)) < MaxAttempts + Cardinality(At(a))
  BY DEF AttemptsInv
<1> QED BY <1>1, <1>2, <1>3, LimitAssumption

LEMMA AttemptsStep ==
    ServerInv /\ AttemptsInv /\ [WebNext]_webAllVars => AttemptsInv'
<1> SUFFICES ASSUME ServerInv, AttemptsInv, [WebNext]_webAllVars,
                    NEW a \in Addresses
             PROVE  Len(Recent(a)') + Cardinality(InFlight(a)')
                        < MaxAttempts + Cardinality(At(a))
  BY DEF AttemptsInv, At
<1> DEFINE Goal == Len(Recent(a)') + Cardinality(InFlight(a)')
                       < MaxAttempts + Cardinality(At(a))
<1>1. /\ failures \in [Addresses -> Seq(0..MaxTime)]
      /\ login \in [Browsers -> {"none", "allowed", "correct"}]
      /\ \A b \in Browsers : AddressOf[b] \in Addresses
      /\ \A b \in Browsers : b \in At(a) <=> AddressOf[b] = a
  BY AddressAssumption DEF ServerInv, LoginInv, At
<1>2. /\ Len(Recent(a)) \in Nat /\ Len(Recent(a)') \in Nat
      /\ Cardinality(InFlight(a)) \in Nat /\ Cardinality(InFlight(a)') \in Nat
  BY RecentLength, Counts, InFlightNext
<1>3. ASSUME Len(Recent(a)') <= Len(Recent(a)),
             \A b \in At(a) : login'[b] = "allowed" => login[b] = "allowed"
      PROVE  Goal
  BY <1>2, <1>3, FewerInFlight, AttemptsKept
<1>4. ASSUME failures'[a] = <<>> PROVE Goal
  <2>1. Len(failures'[a]) = 0
    BY <1>4, EmptySeq
  <2>2. Len(Recent(a)') < MaxAttempts
    BY <1>2, <2>1, RecentLength, LimitAssumption
  <2> QED BY <2>2, AttemptsKept
<1>5. ASSUME failures'[a] = failures[a],
             \A b \in At(a) : login'[b] = "allowed" => login[b] = "allowed"
      PROVE  Goal
  BY <1>3, <1>5, Older
<1>6. ASSUME NEW b \in Browsers, Allow(b) PROVE Goal
  <2> DEFINE c == AddressOf[b]
  <2>1. /\ failures' = [failures EXCEPT ![c] = Recent(c)]
        /\ login' = [login EXCEPT ![b] =
                        IF Len(Recent(c)) < MaxAttempts THEN "allowed" ELSE "none"]
        /\ login[b] = "none"
    BY <1>6 DEF Allow
  <2>2. CASE a = c
    <3>1. failures'[a] = Recent(a)
      BY <1>1, <2>1, <2>2
    <3>2. Len(Recent(a)') <= Len(Recent(a))
      BY <3>1, RecentLength
    <3>3. CASE Len(Recent(a)) < MaxAttempts
      <4>1. Len(Recent(a)') < MaxAttempts
        BY <1>2, <3>2, <3>3, LimitAssumption
      <4> QED BY <4>1, AttemptsKept
    <3>4. CASE ~(Len(Recent(a)) < MaxAttempts)
      <4>1. \A d \in Browsers : login'[d] = login[d]
        BY <1>1, <2>1, <2>2, <3>4
      <4> QED BY <1>1, <1>3, <3>2, <4>1 DEF At
    <3> QED BY <3>3, <3>4
  <2>3. CASE a # c
    <3>1. failures'[a] = failures[a]
      BY <1>1, <2>1, <2>3
    <3>2. \A d \in At(a) : login'[d] = login[d]
      BY <1>1, <2>1, <2>3 DEF At
    <3> QED BY <1>5, <3>1, <3>2
  <2> QED BY <2>2, <2>3
<1>7. ASSUME NEW b \in Browsers, RecordFailure(b) PROVE Goal
  <2> DEFINE c == AddressOf[b]
  <2>1. /\ failures' = [failures EXCEPT ![c] = Append(failures[c], now)]
        /\ login' = [login EXCEPT ![b] = "none"]
        /\ login[b] = "allowed" /\ UNCHANGED now
    BY <1>7 DEF RecordFailure
  <2>2. CASE a = c
    <3>1. failures'[a] = Append(failures[a], now)
      BY <1>1, <2>1, <2>2
    <3>2. Len(Recent(a)') <= Len(Recent(a)) + 1
      <4>1. failures[a] \in Seq(0..MaxTime) /\ now \in 0..MaxTime
        BY <1>1 DEF ServerInv, StoreInv
      <4> QED BY <2>1, <3>1, <4>1, OnlyInAppend DEF Recent
    <3>3. InFlight(a)' = InFlight(a) \ {b} /\ b \in InFlight(a)
      BY <1>1, <2>1, <2>2 DEF InFlight, At
    <3>4. Cardinality(InFlight(a)') = Cardinality(InFlight(a)) - 1
      BY <3>3, Counts, FS_RemoveElement
    <3>5. Len(Recent(a)') + Cardinality(InFlight(a)')
              <= Len(Recent(a)) + Cardinality(InFlight(a))
      BY <1>2, <3>2, <3>4
    <3> QED BY <3>5, AttemptsKept
  <2>3. CASE a # c
    <3>1. failures'[a] = failures[a]
      BY <1>1, <2>1, <2>3
    <3>2. \A d \in At(a) : login'[d] = "allowed" => login[d] = "allowed"
      BY <1>1, <2>1, <2>3 DEF At
    <3> QED BY <1>5, <3>1, <3>2
  <2> QED BY <2>2, <2>3
<1>8. ASSUME NEW b \in Browsers, RecordSuccess(b) PROVE Goal
  <2>1. /\ failures' = [failures EXCEPT ![AddressOf[b]] = <<>>]
        /\ login' = [login EXCEPT ![b] = "correct"]
    BY <1>8 DEF RecordSuccess
  <2>2. failures'[a] \in {<<>>, failures[a]}
    BY <1>1, <2>1
  <2>3. \A d \in At(a) : login'[d] = "allowed" => login[d] = "allowed"
    BY <1>1, <2>1 DEF At
  <2> QED BY <1>4, <1>5, <2>2, <2>3
<1>9. ASSUME NEW b \in Browsers, BadPayload(b) \/ CreateSession(b) PROVE Goal
  <2>1. UNCHANGED failures /\ login' = [login EXCEPT ![b] = "none"]
    BY <1>9 DEF BadPayload, CreateSession, Admit
  <2>2. \A d \in At(a) : login'[d] = "allowed" => login[d] = "allowed"
    BY <1>1, <2>1 DEF At
  <2> QED BY <1>5, <2>1, <2>2
<1>10. ASSUME UNCHANGED <<failures, login>> PROVE Goal
  BY <1>5, <1>10
<1>11. CASE Handle
  <2>1. ASSUME NEW b \in Browsers, Visit(b) \/ Logout(b)
        PROVE  UNCHANGED <<failures, login>>
    BY <2>1 DEF Visit, ValidateSession, Logout
  <2> QED BY <1>6, <1>7, <1>8, <1>9, <1>10, <1>11, <2>1 DEF Handle, Login
<1>12. CASE Stopped \/ Killed
  <2>1. failures'[a] = <<>>
    BY <1>12 DEF Stopped, Killed, End
  <2> QED BY <1>4, <2>1
<1>13. ASSUME UNCHANGED vars PROVE Goal
  BY <1>10, <1>13 DEF vars
<1>14. CASE Tick \/ (\E k \in {"open", "ephemeral", "persistent"} : Begin(k))
            \/ WriteToken \/ Listen \/ ListenFails \/ Cleanup \/ Other
  BY <1>10, <1>13, <1>14 DEF Tick, Advance, Begin, WriteToken, Listen,
                             ListenFails, Cleanup, Other
<1>15. CASE UNCHANGED webAllVars
  BY <1>13, <1>15 DEF webAllVars
<1> QED BY <1>11, <1>12, <1>14, <1>15 DEF WebNext

\* However the logins of an address interleave between the limiter, the
\* comparison and the recording of a failure, the address never has more
\* failures in a window than the limit and its other browsers account for.
THEOREM FailuresAreBounded == WebSpec => []FailuresBounded
<1>1. WebInit => AttemptsInv
  <2> SUFFICES ASSUME WebInit, NEW a \in Addresses
               PROVE  Len(Recent(a)) + Cardinality(InFlight(a))
                          < MaxAttempts + Cardinality(At(a))
    BY DEF AttemptsInv
  <2>1. failures[a] \in Seq(0..MaxTime) /\ Len(failures[a]) = 0
    BY EmptySeq DEF WebInit, Init
  <2>2. Len(Recent(a)) = 0
    BY <2>1, OnlyInLength DEF Recent
  <2> QED BY <2>2, Counts, LimitAssumption
<1>2. ServerInv /\ AttemptsInv => FailuresBounded
  <2> SUFFICES ASSUME ServerInv, AttemptsInv, NEW a \in Addresses
               PROVE  Len(Recent(a)) < MaxAttempts + Cardinality(At(a))
    BY DEF FailuresBounded, At
  <2>1. Len(Recent(a)) \in Nat
    BY OnlyInLength DEF Recent, ServerInv, LoginInv
  <2> QED BY <2>1, Counts, LimitAssumption DEF AttemptsInv
<1> QED BY <1>1, <1>2, ServerInvariant, AttemptsStep, PTL DEF WebSpec

-----------------------------------------------------------------------------
(* The token file. *)

\* TokenInFile, with what it needs: only an open program has no token, and the
\* file of one that is listening already has it.
FileInv ==
    /\ token = 0 <=> kind = "open"
    /\ alone /\ token # 0 =>
           /\ web \in {"listening", "up"} => file = token
           /\ web = "stopping" =>
                  file = IF kind = "ephemeral" THEN NoFile ELSE token

LEMMA FileStep == WebTypeOK /\ FileInv /\ [WebNext]_webAllVars => FileInv'
<1> SUFFICES ASSUME WebTypeOK, FileInv, [WebNext]_webAllVars PROVE FileInv'
  OBVIOUS
<1> USE TokenAssumption DEF WebTypeOK, FileInv, NoFile
<1>1. ASSUME UNCHANGED webVars PROVE FileInv'
  BY <1>1 DEF webVars
<1>2. CASE Handle \/ Tick
  BY <1>1, <1>2 DEF Handle, Tick
<1>3. ASSUME NEW k \in {"open", "ephemeral", "persistent"}, Begin(k)
      PROVE  FileInv'
  <2>1. CASE k = "open" /\ token' = 0 /\ web' = "listening"
    BY <1>3, <2>1 DEF Begin
  <2>2. CASE /\ k = "persistent" /\ file \in Tokens /\ token' = file
             /\ web' = "listening" /\ UNCHANGED <<file, made>>
    <3>1. token' # 0
      BY <2>2 DEF Tokens
    <3> QED BY <1>3, <2>2, <3>1 DEF Begin
  <2>3. CASE k # "open" /\ made' = made + 1 /\ token' = made' /\ web' = "writing"
    <3>1. token' # 0
      BY <2>3
    <3> QED BY <1>3, <2>3, <3>1 DEF Begin
  <2> QED BY <1>3, <2>1, <2>2, <2>3 DEF Begin
<1>4. CASE WriteToken \/ Listen \/ ListenFails \/ Cleanup
  BY <1>4 DEF WriteToken, Listen, ListenFails, Cleanup
<1>5. CASE Stopped \/ Killed
  BY <1>5 DEF Stopped, Killed, End
<1>6. CASE Other
  BY <1>6 DEF Other
<1>7. CASE UNCHANGED webAllVars
  BY <1>1, <1>7 DEF webAllVars
<1> QED BY <1>2, <1>3, <1>4, <1>5, <1>6, <1>7 DEF WebNext

\* Only a start changes the token, and a persistent one takes the file's.
LEMMA PersistStep ==
    ASSUME WebTypeOK, FileInv, [WebNext]_webAllVars, kind = "persistent",
           kind' = "persistent", file = token
    PROVE  token' = token
<1>1. file \in Tokens
  <2>1. token # 0 /\ token \in 0..made /\ made \in 0..MaxTokens
    BY DEF FileInv, WebTypeOK
  <2> QED BY <2>1, TokenAssumption DEF Tokens
<1>2. CASE \E k \in {"open", "ephemeral", "persistent"} : Begin(k)
  BY <1>1, <1>2 DEF Begin
<1>3. CASE ~\E k \in {"open", "ephemeral", "persistent"} : Begin(k)
  BY <1>3 DEF WebNext, Handle, Tick, WriteToken, Listen, ListenFails, Cleanup,
              Stopped, Killed, End, Other, webVars, webAllVars
<1> QED BY <1>2, <1>3

\* The token file of a server that is up has its token, one that ended by
\* itself leaves what it should, and a persistent token outlives every end of
\* the program, as long as no other program touches the file.
THEOREM TokenIsKept == WebSpec => TokenKept
<1>1. WebInit => FileInv
  BY DEF WebInit, FileInv
<1>2. WebSpec => [](WebTypeOK /\ FileInv)
  <2>1. ServerInv => WebTypeOK
    BY DEF ServerInv
  <2> QED BY <1>1, <2>1, FileStep, ServerInvariant, PTL DEF WebSpec
<1>3. FileInv => TokenInFile
  BY DEF FileInv, TokenInFile
<1>4. WebTypeOK /\ FileInv /\ [WebNext]_webAllVars
          => [kind = "persistent" /\ kind' = "persistent" /\ file = token
                  => token' = token]_webVars
  BY PersistStep
<1> QED BY <1>2, <1>3, <1>4, PTL DEF WebSpec, TokenKept, TokenPersists

-----------------------------------------------------------------------------
(* Who is let in. *)

\* In every state, whoever may ask for its status is told that it is
\* authenticated exactly when the data would be served to it.
THEOREM StatusIsRight == WebSpec => []StatusAgrees
<1>1. ASSUME NEW b \in Browsers, NEW from \in {"local", "tls", "plain"},
             NEW bearer \in {0, token}, NEW sent \in BOOLEAN
      PROVE  LET asks(path) == [method |-> "GET", path |-> path, from |-> from,
                                bearer |-> bearer, cookie |-> sent,
                                query |-> FALSE]
             IN  Access(b, asks("status")) = 200 =>
                     (AuthStatus(b, asks("status"))
                          <=> Access(b, asks("data")) = 200)
  <2> DEFINE asks(path) == [method |-> "GET", path |-> path, from |-> from,
                            bearer |-> bearer, cookie |-> sent, query |-> FALSE]
             s == asks("status")
             d == asks("data")
  <2>1. /\ Access(b, s) = 200 <=> Granted(b, s)
        /\ Access(b, d) = 200 <=> Granted(b, d)
    BY DEF Access, isAuthAction
  <2>2. ValidCookie(b, s) <=> ValidCookie(b, d)
    BY DEF ValidCookie
  <2>3. CASE token = 0 \/ from = "local"
    BY <2>1, <2>3 DEF Granted, AuthStatus
  <2>4. CASE token # 0 /\ from = "plain"
    BY <2>1, <2>4 DEF Granted
  <2>5. CASE token # 0 /\ from = "tls"
    <3>1. Granted(b, d) <=> Authorized(b, d)
      BY <2>5 DEF Granted, Public, isAuthAction
    <3>2. Authorized(b, d) <=> AuthStatus(b, s)
      BY <2>2, <2>5 DEF Authorized, AuthStatus
    <3> QED BY <2>1, <3>1, <3>2
  <2> QED BY <2>3, <2>4, <2>5
<1>2. StatusAgrees
  BY <1>1 DEF StatusAgrees
<1> QED BY <1>2, PTL
=============================================================================
