---------------------------- MODULE SessionStore ----------------------------
(***************************************************************************)
(* Logging in to the dashboard: the SessionStore and the LoginRateLimiter  *)
(* of pkg/web/server.go, and the handlers that call them.                  *)
(* WebServer puts them in a program that starts and ends.                  *)
(*                                                                         *)
(* Each method of the store and of the limiter holds its mutex and is one  *)
(* step.  handleAuthLogin calls three of them, so that several logins from *)
(* one address interleave between its steps.  Time advances in units, and  *)
(* steps of the same unit happen at the same time.                         *)
(***************************************************************************)
EXTENDS Integers, FiniteSets, SequencesExt, Filtering

CONSTANTS
    Browsers,
    Addresses,
    AddressOf,    \* the address each browser's requests come from
    MaxSessions,  \* capacity of the store (100)
    AbsoluteTTL,  \* 24 hours
    DefaultIdle,  \* the store's own idle limit (30 minutes)
    Option,       \* the value of --session-timeout
    MaxAttempts,  \* failed logins allowed in a window (5)
    Window,       \* one minute
    MaxIds,       \* bound on the sessions created
    MaxTime       \* bound on the clock

ASSUME AddressAssumption ==
    IsFiniteSet(Browsers) /\ AddressOf \in [Browsers -> Addresses]
ASSUME LimitAssumption ==
    /\ MaxSessions \in Nat \ {0} /\ MaxAttempts \in Nat \ {0}
    /\ AbsoluteTTL \in Nat \ {0} /\ DefaultIdle \in Nat \ {0}
    /\ Window \in Nat \ {0} /\ Option \in Int
ASSUME BoundAssumption == MaxIds \in Nat /\ MaxTime \in Nat

VARIABLES
    now,
    sessions,  \* the sessions by their number: when created, when last seen
    order,     \* their numbers, least recently used first
    issued,    \* the number of session IDs generated
    failures,  \* times of the failed logins of each address
    login,     \* each browser's login request: "none", "allowed" or "correct"
    cookie     \* the session each browser has, 0 for none

storeVars == <<sessions, order>>
vars == <<now, storeVars, issued, failures, login, cookie>>

Ids == 1..MaxIds

Init ==
    /\ now = 0
    /\ sessions = <<>> /\ order = <<>>
    /\ issued = 0
    /\ failures = [a \in Addresses |-> <<>>]
    /\ login = [b \in Browsers |-> "none"]
    /\ cookie = [b \in Browsers |-> 0]

\* The idle limit in force after startWebServer has applied the option: only a
\* positive or a negative value changes the store's own.
IdleTTL ==
    IF Option > 0 THEN Option ELSE IF Option < 0 THEN 0 ELSE DefaultIdle

-----------------------------------------------------------------------------
(* The store. *)

\* Mutant of Expired: the age of the session does not count.
ExpiredIdle(id) == now - sessions[id].seen > IdleTTL

Expired(id) ==
    \/ now - sessions[id].created > AbsoluteTTL
    \/ now - sessions[id].seen > IdleTTL

\* removeLocked, for all sessions but those of ids.
Keep(ids) ==
    /\ sessions' = [id \in ids |-> sessions[id]]
    /\ order' = OnlyIn(order, ids)

Revoke(id) == Keep(DOMAIN sessions \ {id})

\* IsSessionValid, which streams are checked with.
IsSessionValid(id) ==
    /\ id \in DOMAIN sessions
    /\ now - sessions[id].created <= AbsoluteTTL
    /\ IdleTTL > 0 => now - sessions[id].seen <= IdleTTL

\* Mutant of Touch: the session keeps its place in the order.
TouchInPlace(id) ==
    /\ sessions' = [sessions EXCEPT ![id].seen = now]
    /\ UNCHANGED order

\* A session that is used moves to the end of the order.
Touch(id) ==
    /\ sessions' = [sessions EXCEPT ![id].seen = now]
    /\ order' = Append(OnlyIn(order, ToSet(order) \ {id}), id)

\* Mutant of ValidateSession: the session is refreshed, then looked at.
ValidateAnyway(b) ==
    /\ cookie[b] \in DOMAIN sessions
    /\ Touch(cookie[b])
    /\ UNCHANGED <<now, issued, failures, login, cookie>>

\* A request with the browser's cookie, in corsMiddleware or handleAuthStatus.
ValidateSession(b) ==
    /\ cookie[b] \in DOMAIN sessions
    /\ IF Expired(cookie[b]) THEN Revoke(cookie[b]) ELSE Touch(cookie[b])
    /\ UNCHANGED <<now, issued, failures, login, cookie>>

\* A new session joins those of ids; the browser gets it as its cookie.
Admit(b, ids) ==
    LET new == issued + 1 IN
    /\ issued' = new
    /\ sessions' = [i \in ids \cup {new} |->
                       IF i = new THEN [created |-> now, seen |-> now]
                                  ELSE sessions[i]]
    /\ order' = Append(OnlyIn(order, ids), new)
    /\ cookie' = [cookie EXCEPT ![b] = new]
    /\ login' = [login EXCEPT ![b] = "none"]
    /\ UNCHANGED <<now, failures>>

Fresh == {id \in DOMAIN sessions : ~Expired(id)}

\* The least recently used of the sessions in ids, if there is one.
Oldest(ids) ==
    LET left == OnlyIn(order, ids) IN IF left = <<>> THEN {} ELSE {left[1]}

\* Mutant of CreateSession: expired sessions are not cleaned up first.
CreateUncleaned(b) ==
    /\ login[b] = "correct" /\ issued < MaxIds
    /\ LET all == DOMAIN sessions IN
       Admit(b, IF Cardinality(all) >= MaxSessions
                THEN all \ Oldest(all) ELSE all)

\* Expired sessions go first; if the store is still full the least recently
\* used one is evicted.
CreateSession(b) ==
    /\ login[b] = "correct" /\ issued < MaxIds
    /\ Admit(b, IF Cardinality(Fresh) >= MaxSessions
                THEN Fresh \ Oldest(Fresh) ELSE Fresh)

\* handleAuthLogout: the session is revoked and the cookie cleared.
Logout(b) ==
    /\ cookie[b] # 0
    /\ Revoke(cookie[b])
    /\ cookie' = [cookie EXCEPT ![b] = 0]
    /\ UNCHANGED <<now, issued, failures, login>>

-----------------------------------------------------------------------------
(* The rate limiter. *)

Recent(a) == OnlyIn(failures[a], {t \in Nat : t > now - Window})

\* Mutant of Allow: one attempt too many.
AllowOneMore(b) ==
    LET a == AddressOf[b] IN
    /\ login[b] = "none"
    /\ failures' = [failures EXCEPT ![a] = Recent(a)]
    /\ login' = [login EXCEPT ![b] =
                    IF Len(Recent(a)) <= MaxAttempts THEN "allowed" ELSE "none"]
    /\ UNCHANGED <<now, storeVars, issued, cookie>>

\* A login request arrives; the failures outside the window are forgotten.
Allow(b) ==
    LET a == AddressOf[b] IN
    /\ login[b] = "none"
    /\ failures' = [failures EXCEPT ![a] = Recent(a)]
    /\ login' = [login EXCEPT ![b] =
                    IF Len(Recent(a)) < MaxAttempts THEN "allowed" ELSE "none"]
    /\ UNCHANGED <<now, storeVars, issued, cookie>>

\* The payload is not JSON: nothing is recorded.
BadPayload(b) ==
    /\ login[b] = "allowed"
    /\ login' = [login EXCEPT ![b] = "none"]
    /\ UNCHANGED <<now, storeVars, issued, failures, cookie>>

RecordFailure(b) ==
    /\ login[b] = "allowed"
    /\ failures' = [failures EXCEPT ![AddressOf[b]] = Append(@, now)]
    /\ login' = [login EXCEPT ![b] = "none"]
    /\ UNCHANGED <<now, storeVars, issued, cookie>>

RecordSuccess(b) ==
    /\ login[b] = "allowed"
    /\ failures' = [failures EXCEPT ![AddressOf[b]] = <<>>]
    /\ login' = [login EXCEPT ![b] = "correct"]
    /\ UNCHANGED <<now, storeVars, issued, cookie>>

-----------------------------------------------------------------------------
Advance ==
    /\ now < MaxTime
    /\ now' = now + 1
    /\ UNCHANGED <<storeVars, issued, failures, login, cookie>>

-----------------------------------------------------------------------------
(* Properties. *)

\* Every variable has its type and the store its capacity.
TypeOK ==
    /\ now \in 0..MaxTime
    /\ DOMAIN sessions \subseteq 1..issued
    /\ \A id \in DOMAIN sessions :
           sessions[id] \in [created : 0..now, seen : 0..now]
    /\ Cardinality(DOMAIN sessions) <= MaxSessions
    /\ order \in Seq(Ids)
    /\ issued \in 0..MaxIds
    /\ failures \in [Addresses -> Seq(0..MaxTime)]
    /\ login \in [Browsers -> {"none", "allowed", "correct"}]
    /\ cookie \in [Browsers -> 0..issued]

\* The order lists exactly the sessions of the map, each once, from the least
\* to the most recently used: what CreateSession evicts is the first in it.
OrderIsLRU ==
    /\ ToSet(order) = DOMAIN sessions
    /\ IsInjective(order)
    /\ \A i, j \in 1..Len(order) :
           i < j => sessions[order[i]].seen <= sessions[order[j]].seen

\* The store is well formed: types, capacity and order.
StoreOK == TypeOK /\ OrderIsLRU

\* A session is used only within its idle limit after the previous use, and
\* never later than the absolute limit after it was created.
UsedInTime ==
    [][\A id \in DOMAIN sessions \cap DOMAIN sessions' :
           LET used == sessions'[id].seen IN
           used # sessions[id].seen =>
               /\ used - sessions[id].seen <= IdleTTL
               /\ used - sessions'[id].created <= AbsoluteTTL]_vars

\* Once a session is no longer valid no sequence of requests revives it: a
\* stream closed for it stays closed.
NeverRevived ==
    [][\A id \in 1..issued : ~IsSessionValid(id) => ~IsSessionValid(id)']_vars

\* A session ends in time and for good.
SessionsExpire == UsedInTime /\ NeverRevived

\* Logins in flight may all have been allowed before the first of them failed,
\* but no more than that: an address never has more failures in a window than
\* the limit and its other browsers account for.
FailuresBounded ==
    \A a \in Addresses :
        Len(Recent(a)) < MaxAttempts
                             + Cardinality({b \in Browsers : AddressOf[b] = a})
=============================================================================
