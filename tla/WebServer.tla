------------------------------ MODULE WebServer ------------------------------
(***************************************************************************)
(* The web server's life and the way into it: startWebServer and its       *)
(* cleanup (web_bridge.go), the token file, corsMiddleware and             *)
(* handleAuthStatus (pkg/web/server.go), over the sessions of SessionStore *)
(* which live in the program's memory, while cookies and the token file    *)
(* outlive it.                                                             *)
(*                                                                         *)
(* The program may be killed at any moment.  Other ctop programs of the    *)
(* same user write and remove the same token file.  A URL prefix is left   *)
(* out.                                                                    *)
(***************************************************************************)
EXTENDS SessionStore

CONSTANT MaxTokens  \* bound on the tokens generated

ASSUME TokenAssumption == MaxTokens \in Nat

VARIABLES
    web,    \* "down", "writing", "listening" (both before it serves), "up" or
            \* "stopping"
    kind,   \* how the program was started last: "open" without
            \* --web-auth-token, else "ephemeral" or "persistent"
    token,  \* authToken, 0 for none
    file,   \* what the token file has
    made,   \* number of tokens generated
    alone   \* no other program has touched the file since this one's start

webVars == <<web, kind, token, file, made, alone>>
webAllVars == <<vars, webVars>>

Tokens == 1..MaxTokens
NoFile == 0
Cut == MaxTokens + 1  \* a token that was written in part

WebInit ==
    /\ Init
    /\ web = "down" /\ kind = "open" /\ token = 0
    /\ file = NoFile /\ made = 0 /\ alone = TRUE

-----------------------------------------------------------------------------
(* Who is let in. *)

Requests ==
    [method : {"GET", "POST", "OPTIONS"},
     path : {"data", "index", "login", "logout", "status", "dotted"},
     from : {"local", "tls", "plain"},  \* directly from this host, or through
                                        \* TLS or a proxy that says so, or not
     bearer : 0..MaxTokens,             \* 0 for none
     cookie : BOOLEAN,
     query : BOOLEAN]                   \* a token in the URL

isAuthAction(r) == r.path \in {"login", "logout"}

ValidCookie(b, r) ==
    r.cookie /\ cookie[b] \in DOMAIN sessions /\ ~Expired(cookie[b])

\* A bearer header is looked at instead of the cookie.
Authorized(b, r) == IF r.bearer # 0 THEN r.bearer = token ELSE ValidCookie(b, r)

Public(r) ==
    \/ isAuthAction(r) \/ r.path = "status"
    \/ r.path = "index" /\ ~r.query /\ r.bearer = 0

Granted(b, r) ==
    \/ token = 0 \/ r.from = "local"
    \/ r.from = "tls" /\ (Public(r) \/ Authorized(b, r))

\* The status of corsMiddleware, 200 when it calls the handler.
Access(b, r) ==
    IF r.method = "OPTIONS" THEN 204
    ELSE IF r.path = "dotted" THEN 400
    ELSE IF r.method = "POST" /\ ~isAuthAction(r) THEN 405
    ELSE IF Granted(b, r) THEN 200
    ELSE IF r.from = "plain" THEN 403 ELSE 401

\* Mutant of AuthStatus: the header is not looked at.
AuthStatusCookie(b, r) == token = 0 \/ r.from = "local" \/ ValidCookie(b, r)

\* What handleAuthStatus answers.
AuthStatus(b, r) ==
    \/ token = 0 \/ r.from = "local"
    \/ r.bearer # 0 /\ r.bearer = token
    \/ ValidCookie(b, r)

\* The middleware or the status handler asks the store about the cookie.
AsksStore(r) ==
    /\ r.cookie /\ r.method = "GET" /\ token # 0 /\ r.from = "tls"
    /\ \/ r.path = "status" /\ r.bearer # token
       \/ r.path \in {"data", "index"} /\ r.bearer = 0

-----------------------------------------------------------------------------
(* Requests.  Stop holds the mutex of the server until Shutdown returns, and *)
(* whoever reads the token waits for it.                                     *)

Visit(b) == token # 0 /\ (\E r \in Requests : AsksStore(r)) /\ ValidateSession(b)

Login(b) ==
    \/ web = "up" /\ (Allow(b) \/ RecordSuccess(b))
    \/ web = "up" /\ token # 0 /\ RecordFailure(b)
    \/ web \in {"up", "stopping"} /\ (BadPayload(b) \/ CreateSession(b))

Handle ==
    /\ \E b \in Browsers :
           \/ Login(b)
           \/ web = "up" /\ (Visit(b) \/ Logout(b))
    /\ UNCHANGED webVars

Tick == Advance /\ UNCHANGED webVars

-----------------------------------------------------------------------------
(* The program. *)

\* Mutant of Begin: a persistent token is generated at every start.
BeginNew(k) ==
    /\ web = "down"
    /\ kind' = k /\ alone' = TRUE
    /\ \/ /\ k = "open" /\ token' = 0
          /\ web' = "listening" /\ UNCHANGED <<file, made>>
       \/ /\ k # "open"
          /\ made < MaxTokens /\ made' = made + 1 /\ token' = made'
          /\ web' = "writing" /\ file' = NoFile
    /\ UNCHANGED vars

\* The token is read or generated; the old file is removed before the new one
\* is written.
Begin(k) ==
    /\ web = "down"
    /\ kind' = k /\ alone' = TRUE
    /\ \/ /\ k = "open" /\ token' = 0
          /\ web' = "listening" /\ UNCHANGED <<file, made>>
       \/ /\ k = "persistent" /\ file \in Tokens /\ token' = file
          /\ web' = "listening" /\ UNCHANGED <<file, made>>
       \/ /\ k # "open" /\ ~(k = "persistent" /\ file \in Tokens)
          /\ made < MaxTokens /\ made' = made + 1 /\ token' = made'
          /\ web' = "writing" /\ file' = NoFile
    /\ UNCHANGED vars

WriteToken ==
    /\ web = "writing"
    /\ file' = token /\ web' = "listening"
    /\ UNCHANGED <<vars, kind, token, made, alone>>

Listen ==
    /\ web = "listening"
    /\ web' = "up"
    /\ UNCHANGED <<vars, kind, token, file, made, alone>>

\* The port is in use.
ListenFails ==
    /\ web = "listening"
    /\ web' = "down"
    /\ file' = IF kind = "ephemeral" THEN NoFile ELSE file
    /\ UNCHANGED <<vars, kind, token, made, alone>>

\* Mutant of Cleanup: the file is removed however the program was started.
CleanupAll ==
    /\ web = "up"
    /\ web' = "stopping" /\ file' = NoFile
    /\ UNCHANGED <<vars, kind, token, made, alone>>

Cleanup ==
    /\ web = "up"
    /\ web' = "stopping"
    /\ file' = IF kind = "ephemeral" THEN NoFile ELSE file
    /\ UNCHANGED <<vars, kind, token, made, alone>>

\* What was in memory is gone; browsers keep their cookies.
End ==
    /\ web' = "down"
    /\ sessions' = <<>> /\ order' = <<>>
    /\ failures' = [a \in Addresses |-> <<>>]
    /\ login' = [b \in Browsers |-> "none"]
    /\ UNCHANGED <<now, issued, cookie, kind, token, made, alone>>

\* Shutdown returns, at the latest after two seconds, and the program ends.
Stopped == web = "stopping" /\ End /\ UNCHANGED file

Killed ==
    /\ web \in {"writing", "listening", "up", "stopping"}
    /\ End
    /\ \/ UNCHANGED file
       \/ web = "writing" /\ file' = Cut

\* Another program of the user writes its own token, or ends; once in a run.
Other ==
    /\ alone /\ web # "down"
    /\ alone' = FALSE
    /\ \/ made < MaxTokens /\ made' = made + 1 /\ file' = made'
       \/ file' = NoFile /\ UNCHANGED made
    /\ UNCHANGED <<vars, web, kind, token>>

WebNext ==
    \/ Handle \/ Tick
    \/ \E k \in {"open", "ephemeral", "persistent"} : Begin(k)
    \/ WriteToken \/ Listen \/ ListenFails \/ Cleanup \/ Stopped \/ Killed
    \/ Other

WebSpec == WebInit /\ [][WebNext]_webAllVars

-----------------------------------------------------------------------------
(* Properties. *)

WebTypeOK ==
    /\ web \in {"down", "writing", "listening", "up", "stopping"}
    /\ kind \in {"open", "ephemeral", "persistent"}
    /\ token \in 0..made /\ file \in 0..made \cup {Cut}
    /\ made \in 0..MaxTokens /\ alone \in BOOLEAN

\* The store and the life of the server are well formed.
ServerOK == StoreOK /\ WebTypeOK

\* Nobody loses a session that is neither expired nor logged out, unless the
\* program ends, or the store holds only such sessions and this one has been
\* idle the longest.
LiveSessionsKept ==
    [][web' # "down" =>
       \A id \in DOMAIN sessions \ DOMAIN sessions' :
           \/ Expired(id)
           \/ \E b \in Browsers : cookie[b] = id /\ cookie'[b] = 0
           \/ LET live == {i \in DOMAIN sessions : ~Expired(i)}
              IN  /\ Cardinality(live) = MaxSessions
                  /\ \A i \in live : sessions[id].seen <= sessions[i].seen
      ]_webAllVars

\* A session lasts exactly as long as it should.
SessionsLast == SessionsExpire /\ LiveSessionsKept

\* Whoever reads the token file of a server that is up gets the token it
\* asks for, unless another program of the user came or went since; a server
\* that ended by itself leaves no file, and a persistent one leaves its token.
TokenInFile ==
    alone /\ token # 0 =>
        /\ web = "up" => file = token
        /\ web = "stopping" => file = IF kind = "ephemeral" THEN NoFile ELSE token

\* A persistent token that was written is the one of the next persistent start,
\* whether the program ended, was killed or found its port in use.
TokenPersists ==
    [][kind = "persistent" /\ kind' = "persistent" /\ file = token
           => token' = token]_webVars

\* The file is right while the program runs and after it.
TokenKept == [][TokenInFile']_webVars /\ TokenPersists

\* The dashboard is told that it is authenticated exactly when the data it asks
\* for next would be served, however it authenticates.  Only a wrong bearer
\* header sent along with a valid cookie is told otherwise.
StatusAgrees ==
    \A b \in Browsers, from \in {"local", "tls", "plain"},
       bearer \in {0, token}, sent \in BOOLEAN :
        LET asks(path) == [method |-> "GET", path |-> path, from |-> from,
                           bearer |-> bearer, cookie |-> sent, query |-> FALSE]
        IN  Access(b, asks("status")) = 200 =>
                (AuthStatus(b, asks("status")) <=> Access(b, asks("data")) = 200)
=============================================================================
