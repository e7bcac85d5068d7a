----------------------------- MODULE AuthSession -----------------------------
(***************************************************************************)
(* The login session, end to end: TokenService signs tokens with a key     *)
(* that is configured or drawn anew by every server process; JwtBearer     *)
(* accepts a token until it expires; all tabs of a browser share one       *)
(* localStorage slot; every API request carries the token that is stored   *)
(* when it is sent; a 401 answer makes the axios interceptor clear the     *)
(* slot and send its tab to /login.                                        *)
(*                                                                         *)
(* A JavaScript callback runs to its end before the next one of its tab,   *)
(* so a callback is one step; other tabs and the server run between any    *)
(* two steps.                                                              *)
(***************************************************************************)
EXTENDS Naturals, FiniteSets

CONSTANTS
    Tabs,          \* the browser's tabs on the application
    MaxLogins,     \* bound: tokens issued
    MaxRestarts,   \* bound: server restarts
    None,          \* no token
    Posted         \* a login call that is not answered yet

Tokens == 1..MaxLogins

ASSUME AuthAssumption ==
    /\ MaxLogins \in Nat
    /\ MaxRestarts \in Nat
    /\ None \notin Tokens
    /\ Posted \notin Tokens \cup {None}

VARIABLES
    config,    \* how the server is deployed, see Configs
    process,   \* how often the server was restarted
    issued,    \* how many tokens were issued
    signer,    \* the process that signed each token
    expired,   \* tokens past their lifetime and the 30 s of clock skew
    stored,    \* localStorage's dockerweb_token
    page,      \* "login" or "app": the route each tab shows
    authed,    \* AuthProvider's state in each tab
    leaving,   \* window.location.assign('/login') was called
    attempt,   \* each tab's login call: None, Posted, or the token in its answer
    requests,  \* API calls under way
    loggedOut  \* history: somebody pressed Log out

serverVars == <<config, process, issued, signer, expired>>
tabVars    == <<page, authed, leaving, attempt>>
vars == <<serverVars, stored, tabVars, requests, loggedOut>>

\* Auth:JwtSecret is configured with at least 32 characters, or missing; a Docker
\* engine may answer a call of the server with 401, or never does.
Configs == [secret : {"configured", "missing"}, engine401 : BOOLEAN]

StableSecret == config.secret = "configured"

Requests == [tab    : Tabs,
             token  : Tokens \cup {None},
             answer : {"pending", "ok", "unauthorized", "engine401"}]

TypeOK ==
    /\ config \in Configs
    /\ process \in 0..MaxRestarts
    /\ issued \in 0..MaxLogins
    /\ signer \in [Tokens -> 0..MaxRestarts]
    /\ expired \subseteq Tokens
    /\ stored \in Tokens \cup {None}
    /\ page \in [Tabs -> {"login", "app"}]
    /\ authed \in [Tabs -> BOOLEAN]
    /\ leaving \in [Tabs -> BOOLEAN]
    /\ attempt \in [Tabs -> Tokens \cup {None, Posted}]
    /\ requests \subseteq Requests
    /\ loggedOut \in BOOLEAN

Init ==
    /\ config \in Configs
    /\ process = 0
    /\ issued = 0
    /\ signer = [t \in Tokens |-> 0]
    /\ expired = {}
    /\ stored = None
    /\ page = [tab \in Tabs |-> "login"]
    /\ authed = [tab \in Tabs |-> FALSE]
    /\ leaving = [tab \in Tabs |-> FALSE]
    /\ attempt = [tab \in Tabs |-> None]
    /\ requests = {}
    /\ loggedOut = FALSE

-----------------------------------------------------------------------------
\* The server.

\* Mutant of SameKey: the configured secret is not used.
SameRandomKey(t) == signer[t] = process

\* The key is the configured secret, or a random one per process.
SameKey(t) == StableSecret \/ signer[t] = process

\* Issuer, audience, signing key and lifetime, as JwtBearer validates them.
Valid(t) ==
    /\ t # None
    /\ SameKey(t)
    /\ t \notin expired

\* An endpoint answers 401 unless the request carries a valid token; behind it,
\* DockerExceptionMiddleware passes on a 401 of the engine.
Answers(token) ==
    IF Valid(token) THEN {"ok"} \cup {a \in {"engine401"} : config.engine401}
                    ELSE {"unauthorized"}

ServerAnswers(q) ==
    /\ q \in requests
    /\ q.answer = "pending"
    /\ \E answer \in Answers(q.token) :
          requests' = (requests \ {q}) \cup {[q EXCEPT !.answer = answer]}
    /\ UNCHANGED <<serverVars, stored, tabVars, loggedOut>>

\* AuthController.Login with the right credentials, and TokenService.CreateToken.
ServerGrants(tab) ==
    /\ attempt[tab] = Posted
    /\ issued < MaxLogins
    /\ issued' = issued + 1
    /\ signer' = [signer EXCEPT ![issued + 1] = process]
    /\ attempt' = [attempt EXCEPT ![tab] = issued + 1]
    /\ UNCHANGED <<config, process, expired, stored, page, authed, leaving, requests, loggedOut>>

\* Wrong credentials, or no answer: the form shows the error.
LoginRefused(tab) ==
    /\ attempt[tab] = Posted
    /\ attempt' = [attempt EXCEPT ![tab] = None]
    /\ UNCHANGED <<serverVars, stored, page, authed, leaving, requests, loggedOut>>

TokenExpires(t) ==
    /\ t <= issued
    /\ t \notin expired
    /\ expired' = expired \cup {t}
    /\ UNCHANGED <<config, process, issued, signer, stored, tabVars, requests, loggedOut>>

\* The calls the old process had not answered fail without a status, which the
\* interceptor lets pass.
ServerRestarts ==
    /\ process < MaxRestarts
    /\ process' = process + 1
    /\ requests' = {q \in requests : q.answer # "pending"}
    /\ attempt' = [tab \in Tabs |-> IF attempt[tab] = Posted THEN None ELSE attempt[tab]]
    /\ UNCHANGED <<config, issued, signer, expired, stored, page, authed, leaving, loggedOut>>

-----------------------------------------------------------------------------
\* A tab.

\* Loading a page ends the tab's calls and rebuilds AuthProvider from the slot;
\* ProtectedRoute shows the login page to whoever is not authenticated.
Load(tab, target) ==
    /\ authed' = [authed EXCEPT ![tab] = stored # None]
    /\ page' = [page EXCEPT ![tab] = IF stored # None THEN target ELSE "login"]
    /\ leaving' = [leaving EXCEPT ![tab] = FALSE]
    /\ attempt' = [attempt EXCEPT ![tab] = None]
    /\ requests' = {q \in requests : q.tab # tab}
    /\ UNCHANGED <<serverVars, stored, loggedOut>>

\* The polling queries of the shell and the pages.  One call per token is
\* enough: calls that carry the same token are answered alike.
SendRequest(tab) ==
    /\ page[tab] = "app"
    /\ ~leaving[tab]
    /\ ~ \E q \in requests : q.tab = tab /\ q.token = stored
    /\ requests' = requests \cup {[tab |-> tab, token |-> stored, answer |-> "pending"]}
    /\ UNCHANGED <<serverVars, stored, tabVars, loggedOut>>

ReceiveOk(q) ==
    /\ q \in requests
    /\ q.answer = "ok"
    /\ requests' = requests \ {q}
    /\ UNCHANGED <<serverVars, stored, tabVars, loggedOut>>

\* Mutant of Receive401: the token is dropped, the tab stays where it is.
Receive401Stay(q) ==
    /\ q \in requests
    /\ q.answer \in {"unauthorized", "engine401"}
    /\ requests' = requests \ {q}
    /\ stored' = None
    /\ UNCHANGED <<serverVars, tabVars, loggedOut>>

\* The response interceptor, to which a 401 is a 401: clearToken, and off to
\* /login unless there.
Receive401(q) ==
    /\ q \in requests
    /\ q.answer \in {"unauthorized", "engine401"}
    /\ requests' = requests \ {q}
    /\ stored' = None
    /\ leaving' = [leaving EXCEPT ![q.tab] = @ \/ page[q.tab] # "login"]
    /\ UNCHANGED <<serverVars, page, authed, attempt, loggedOut>>

\* The navigation that location.assign started.
LoginPageLoads(tab) ==
    /\ leaving[tab]
    /\ Load(tab, "login")

\* LoginPage.handleSubmit.
SubmitLogin(tab) ==
    /\ page[tab] = "login"
    /\ attempt[tab] = None
    /\ attempt' = [attempt EXCEPT ![tab] = Posted]
    /\ UNCHANGED <<serverVars, stored, page, authed, leaving, requests, loggedOut>>

\* The answer of the login call: setToken, setAuthed(true), navigate('/').
LoginSucceeds(tab) ==
    /\ attempt[tab] \in Tokens
    /\ stored' = attempt[tab]
    /\ authed' = [authed EXCEPT ![tab] = TRUE]
    /\ page' = [page EXCEPT ![tab] = "app"]
    /\ attempt' = [attempt EXCEPT ![tab] = None]
    /\ UNCHANGED <<serverVars, leaving, requests, loggedOut>>

\* AuthProvider.logout: the calls under way are not cancelled.
Logout(tab) ==
    /\ page[tab] = "app"
    /\ stored' = None
    /\ authed' = [authed EXCEPT ![tab] = FALSE]
    /\ page' = [page EXCEPT ![tab] = "login"]
    /\ loggedOut' = TRUE
    /\ UNCHANGED <<serverVars, leaving, attempt, requests>>

\* The user reloads, or types an address.
Visit(tab) == Load(tab, "app") \/ Load(tab, "login")

-----------------------------------------------------------------------------

Server ==
    \/ \E q \in requests : ServerAnswers(q)
    \/ \E tab \in Tabs : ServerGrants(tab) \/ LoginRefused(tab)
    \/ \E t \in Tokens : TokenExpires(t)
    \/ ServerRestarts

Browser ==
    \/ \E q \in requests : ReceiveOk(q) \/ Receive401(q)
    \/ \E tab \in Tabs : \/ SendRequest(tab) \/ LoginPageLoads(tab)
                         \/ SubmitLogin(tab) \/ LoginSucceeds(tab)
                         \/ Logout(tab) \/ Visit(tab)

Next == Server \/ Browser

(***************************************************************************)
(* The shell polls every five seconds, the server answers, the browser     *)
(* runs callbacks and finishes navigations.  Nobody has to log in or out.  *)
(* Strong fairness of the two halves of a call: nobody reloads the page    *)
(* for ever just before the answer arrives.                                *)
(***************************************************************************)
Answering(tab) == \E q \in requests : q.tab = tab /\ ServerAnswers(q)
Receiving(tab) == \E q \in requests : q.tab = tab /\ (ReceiveOk(q) \/ Receive401(q))

Fairness ==
    \A tab \in Tabs : /\ WF_vars(SendRequest(tab))
                      /\ SF_vars(Answering(tab))
                      /\ SF_vars(Receiving(tab))
                      /\ WF_vars(LoginPageLoads(tab))

Spec == Init /\ [][Next]_vars /\ Fairness

-----------------------------------------------------------------------------

\* As long as no token expired, nobody logged out, no engine answers 401 and
\* the signing key is the one the server started with (a configured secret, or
\* no restart), no tab is sent to /login and no tab that shows the application has lost its token,
\* whatever calls, logins and reloads overlap.
RestartKeepsSessions ==
    expired = {} /\ ~loggedOut /\ ~config.engine401 /\ (StableSecret \/ process = 0) =>
        \A tab \in Tabs : /\ ~leaving[tab]
                          /\ page[tab] = "app" => stored # None

\* A tab that shows a protected page with no token, an expired one or one of an
\* earlier process comes to the login page, or gets a valid token from another
\* tab's login.
DeadSessionReachesLogin ==
    \A tab \in Tabs :
        page[tab] = "app" /\ ~Valid(stored) ~> page[tab] = "login" \/ Valid(stored)

-----------------------------------------------------------------------------
\* What a comment says, and the code does not do.

\* "On 401, drop the stale token": when the server refuses a token, the token
\* that the interceptor drops is not a valid one.  (The 401 of an engine says
\* nothing about tokens.)
DropsOnlyStaleTokens ==
    [][\A q \in requests :
          Receive401(q) /\ q.answer = "unauthorized" => ~Valid(stored)]_vars
=============================================================================
