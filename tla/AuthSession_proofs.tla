------------------------- MODULE AuthSession_proofs -------------------------
(***************************************************************************)
(* The safety of AuthSession, for any number of tabs, logins and restarts. *)
(***************************************************************************)
EXTENDS AuthSession, TLAPS

\* A token that is stored, answered or carried was issued, and no process signs
\* before it exists.
KnownTokens ==
    /\ stored \in 1..issued \cup {None}
    /\ \A tab \in Tabs : attempt[tab] \in 1..issued \cup {None, Posted}
    /\ \A q \in requests : q.token \in 1..issued \cup {None}
    /\ \A t \in Tokens : signer[t] <= process

\* The deployments and histories in which no session should end.
Undisturbed ==
    expired = {} /\ ~loggedOut /\ ~config.engine401 /\ (StableSecret \/ process = 0)

\* No call is without a token, and none is answered with 401.
CallsAccepted ==
    Undisturbed => \A q \in requests : q.token # None /\ q.answer \in {"pending", "ok"}

SessionInv ==
    /\ TypeOK
    /\ KnownTokens
    /\ CallsAccepted
    /\ RestartKeepsSessions

USE AuthAssumption DEF Tokens, AuthAssumption

LEMMA InitInv == ASSUME Init PROVE SessionInv
<1>1. TypeOK
  <2>1. 0 \in 0..MaxRestarts /\ 0 \in 0..MaxLogins
    OBVIOUS
  <2>2. signer \in [Tokens -> 0..MaxRestarts]
    BY <2>1 DEF Init
  <2> QED
    BY <2>1, <2>2 DEF Init, TypeOK
<1>2. KnownTokens
  BY DEF Init, KnownTokens
<1>3. CallsAccepted /\ RestartKeepsSessions
  BY DEF Init, CallsAccepted, RestartKeepsSessions
<1> QED
  BY <1>1, <1>2, <1>3 DEF SessionInv

-----------------------------------------------------------------------------
(* Types and tokens.                                                       *)

LEMMA TypeStep == ASSUME TypeOK, [Next]_vars PROVE TypeOK'
<1> USE DEF TypeOK, serverVars, tabVars
<1>1. ASSUME NEW q \in requests, ServerAnswers(q) PROVE TypeOK'
  <2>1. PICK answer \in Answers(q.token) :
            requests' = (requests \ {q}) \cup {[q EXCEPT !.answer = answer]}
    BY <1>1 DEF ServerAnswers
  <2>2. [q EXCEPT !.answer = answer] \in Requests
    BY DEF Requests, Answers
  <2> QED
    BY <1>1, <2>1, <2>2 DEF ServerAnswers
<1>2. ASSUME NEW tab \in Tabs, ServerGrants(tab) PROVE TypeOK'
  BY <1>2 DEF ServerGrants
<1>3. ASSUME NEW tab \in Tabs, LoginRefused(tab) PROVE TypeOK'
  BY <1>3 DEF LoginRefused
<1>4. ASSUME NEW t \in Tokens, TokenExpires(t) PROVE TypeOK'
  BY <1>4 DEF TokenExpires
<1>5. CASE ServerRestarts
  BY <1>5 DEF ServerRestarts
<1>6. ASSUME NEW q \in requests, ReceiveOk(q) \/ Receive401(q) PROVE TypeOK'
  <2>1. q.tab \in Tabs
    BY DEF Requests
  <2> QED
    BY <1>6, <2>1 DEF ReceiveOk, Receive401
<1>7. ASSUME NEW tab \in Tabs, SendRequest(tab) PROVE TypeOK'
  BY <1>7 DEF SendRequest, Requests
<1>8. ASSUME NEW tab \in Tabs, NEW target \in {"app", "login"}, Load(tab, target) PROVE TypeOK'
  BY <1>8 DEF Load
<1>9. ASSUME NEW tab \in Tabs, SubmitLogin(tab) \/ LoginSucceeds(tab) \/ Logout(tab) PROVE TypeOK'
  BY <1>9 DEF SubmitLogin, LoginSucceeds, Logout
<1>10. CASE UNCHANGED vars
  BY <1>10 DEF vars
<1> QED
  BY <1>1, <1>2, <1>3, <1>4, <1>5, <1>6, <1>7, <1>8, <1>9, <1>10
     DEF Next, Server, Browser, Visit, LoginPageLoads

\* No step stores, answers or carries a token that was not issued.
LEMMA TokensStep == ASSUME TypeOK, KnownTokens, [Next]_vars PROVE KnownTokens'
<1> USE DEF TypeOK, KnownTokens, serverVars, tabVars
<1>1. ASSUME NEW q \in requests, ServerAnswers(q) PROVE KnownTokens'
  <2>1. PICK answer \in Answers(q.token) :
            requests' = (requests \ {q}) \cup {[q EXCEPT !.answer = answer]}
    BY <1>1 DEF ServerAnswers
  <2>2. [q EXCEPT !.answer = answer].token = q.token
    BY DEF Requests
  <2> QED
    BY <1>1, <2>1, <2>2 DEF ServerAnswers
<1>2. ASSUME NEW tab \in Tabs, ServerGrants(tab) PROVE KnownTokens'
  BY <1>2 DEF ServerGrants
<1>3. ASSUME NEW tab \in Tabs, LoginRefused(tab) PROVE KnownTokens'
  BY <1>3 DEF LoginRefused
<1>4. ASSUME NEW t \in Tokens, TokenExpires(t) PROVE KnownTokens'
  BY <1>4 DEF TokenExpires
<1>5. CASE ServerRestarts
  BY <1>5 DEF ServerRestarts
<1>6. ASSUME NEW q \in requests, ReceiveOk(q) \/ Receive401(q) PROVE KnownTokens'
  BY <1>6 DEF ReceiveOk, Receive401
<1>7. ASSUME NEW tab \in Tabs, SendRequest(tab) PROVE KnownTokens'
  BY <1>7 DEF SendRequest
<1>8. ASSUME NEW tab \in Tabs, NEW target \in {"app", "login"}, Load(tab, target)
      PROVE  KnownTokens'
  BY <1>8 DEF Load
<1>9. ASSUME NEW tab \in Tabs, SubmitLogin(tab) \/ LoginSucceeds(tab) \/ Logout(tab)
      PROVE  KnownTokens'
  <2>1. CASE LoginSucceeds(tab)
    <3>1. attempt[tab] \in 1..issued
      BY <2>1 DEF LoginSucceeds
    <3> QED
      BY <2>1, <3>1 DEF LoginSucceeds
  <2>2. CASE SubmitLogin(tab) \/ Logout(tab)
    BY <2>2 DEF SubmitLogin, Logout
  <2> QED
    BY <1>9, <2>1, <2>2
<1>10. CASE UNCHANGED vars
  BY <1>10 DEF vars
<1> QED
  BY <1>1, <1>2, <1>3, <1>4, <1>5, <1>6, <1>7, <1>8, <1>9, <1>10
     DEF Next, Server, Browser, Visit, LoginPageLoads

-----------------------------------------------------------------------------
(* Sessions.                                                               *)

\* What disturbs a session once disturbs it for good.
LEMMA DisturbedForGood ==
    ASSUME TypeOK, [Next]_vars, Undisturbed'
    PROVE  Undisturbed
<1> USE DEF Undisturbed, StableSecret, TypeOK
<1>1. config' = config /\ expired \subseteq expired' /\ (loggedOut => loggedOut')
        /\ (process' = 0 => process = 0)
  BY DEF vars, serverVars, Next, Server, Browser, Visit, LoginPageLoads, ServerAnswers,
         ServerGrants, LoginRefused, TokenExpires, ServerRestarts, ReceiveOk, Receive401,
         SendRequest, SubmitLogin, LoginSucceeds, Logout, Load
<1> QED
  BY <1>1

\* Undisturbed, every token that was issued is valid, and the server says so.
LEMMA UndisturbedTokens ==
    ASSUME TypeOK, KnownTokens, Undisturbed, NEW t \in 1..issued
    PROVE  Valid(t) /\ Answers(t) = {"ok"}
<1>1. t \in Tokens /\ t # None
  BY DEF TypeOK
<1>2. SameKey(t)
  BY <1>1 DEF TypeOK, KnownTokens, Undisturbed, SameKey
<1>3. Valid(t)
  BY <1>1, <1>2 DEF Valid, Undisturbed
<1> QED
  BY <1>3 DEF Answers, Undisturbed

LEMMA CallsStep ==
    ASSUME SessionInv, [Next]_vars, Undisturbed'
    PROVE  \A q \in requests' : q.token # None /\ q.answer \in {"pending", "ok"}
<1> USE DEF SessionInv
<1>1. Undisturbed
  BY DisturbedForGood
<1>2. \A q \in requests : q.token # None /\ q.answer \in {"pending", "ok"}
  BY <1>1 DEF CallsAccepted
<1>3. ASSUME NEW q \in requests, ServerAnswers(q)
      PROVE  \A p \in requests' : p.token # None /\ p.answer \in {"pending", "ok"}
  <2>1. q.token \in 1..issued
    BY <1>2 DEF KnownTokens
  <2>2. requests' = (requests \ {q}) \cup {[q EXCEPT !.answer = "ok"]}
    BY <1>1, <1>3, <2>1, UndisturbedTokens DEF ServerAnswers
  <2>3. [q EXCEPT !.answer = "ok"].token = q.token /\ [q EXCEPT !.answer = "ok"].answer = "ok"
    BY DEF TypeOK, Requests
  <2> QED
    BY <1>2, <2>2, <2>3
<1>4. ASSUME NEW tab \in Tabs, SendRequest(tab)
      PROVE  \A p \in requests' : p.token # None /\ p.answer \in {"pending", "ok"}
  <2>1. stored # None
    BY <1>1, <1>4 DEF RestartKeepsSessions, Undisturbed, SendRequest
  <2> QED
    BY <1>2, <1>4, <2>1 DEF SendRequest
<1>5. \/ requests' \subseteq requests
      \/ \E q \in requests : ServerAnswers(q)
      \/ \E tab \in Tabs : SendRequest(tab)
  BY DEF vars, Next, Server, Browser, Visit, LoginPageLoads, ServerGrants, LoginRefused,
         TokenExpires, ServerRestarts, ReceiveOk, Receive401, SubmitLogin, LoginSucceeds,
         Logout, Load
<1> QED
  BY <1>2, <1>3, <1>4, <1>5

\* Undisturbed, the slot is emptied by nobody and filled before a tab shows the
\* application.
LEMMA SessionsStep ==
    ASSUME SessionInv, [Next]_vars
    PROVE  RestartKeepsSessions'
<1> USE DEF SessionInv, TypeOK
<1> SUFFICES ASSUME Undisturbed', NEW tab \in Tabs
             PROVE  ~leaving'[tab] /\ (page'[tab] = "app" => stored' # None)
  BY DEF RestartKeepsSessions, Undisturbed, StableSecret
<1>1. Undisturbed
  BY DisturbedForGood
<1>2. \A t \in Tabs : ~leaving[t] /\ (page[t] = "app" => stored # None)
  BY <1>1 DEF RestartKeepsSessions, Undisturbed
<1>3. ~ \E q \in requests : Receive401(q)
  BY <1>1 DEF CallsAccepted, Receive401
<1>4. ASSUME NEW t \in Tabs, NEW target \in {"app", "login"}, Load(t, target)
      PROVE  ~leaving'[tab] /\ (page'[tab] = "app" => stored' # None)
  BY <1>2, <1>4 DEF Load
<1>5. ASSUME NEW t \in Tabs, LoginSucceeds(t)
      PROVE  ~leaving'[tab] /\ (page'[tab] = "app" => stored' # None)
  BY <1>2, <1>5 DEF LoginSucceeds
<1>6. ~ \E t \in Tabs : Logout(t)
  BY DEF Logout, Undisturbed
<1>7. \/ UNCHANGED <<page, leaving, stored>>
      \/ \E q \in requests : Receive401(q)
      \/ \E t \in Tabs : LoginSucceeds(t) \/ Logout(t)
      \/ \E t \in Tabs, target \in {"app", "login"} : Load(t, target)
  BY DEF vars, tabVars, Next, Server, Browser, Visit, LoginPageLoads, ServerAnswers,
         ServerGrants, LoginRefused, TokenExpires, ServerRestarts, ReceiveOk,
         SendRequest, SubmitLogin
<1> QED
  BY <1>2, <1>3, <1>4, <1>5, <1>6, <1>7

-----------------------------------------------------------------------------
(* The theorems.                                                           *)

\* The inductive invariant holds in every reachable state.
THEOREM SessionInvariance == Spec => []SessionInv
<1>1. Init => SessionInv
  BY InitInv
<1>2. SessionInv /\ [Next]_vars => SessionInv'
  <2> SUFFICES ASSUME SessionInv, [Next]_vars PROVE SessionInv'
    OBVIOUS
  <2>1. TypeOK' /\ KnownTokens'
    BY TypeStep, TokensStep DEF SessionInv
  <2>2. CallsAccepted'
    BY CallsStep DEF CallsAccepted
  <2>3. RestartKeepsSessions'
    BY SessionsStep
  <2> QED
    BY <2>1, <2>2, <2>3 DEF SessionInv
<1> QED
  BY <1>1, <1>2, PTL DEF Spec

\* With a configured secret, or no restart, nobody is logged out by the system
\* alone: neither TokenService nor the interceptor nor a race of tabs does it.
THEOREM SessionsSurvive == Spec => []RestartKeepsSessions
BY SessionInvariance, PTL DEF SessionInv
=============================================================================
