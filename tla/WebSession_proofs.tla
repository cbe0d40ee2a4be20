------------------------- MODULE WebSession_proofs -------------------------
(***************************************************************************)
(* Proofs about WebSession, for any sets of accounts, tokens, slots and    *)
(* navigations: the web process and the browser only make the API take     *)
(* steps of AuthSessions, coalescing makes rotation single-use, and an     *)
(* uncontested logout is final.                                            *)
(***************************************************************************)
EXTENDS WebSession, AuthSessions_proofs

\* A step of the web session is a step of the API's sessions, or leaves them.
LEMMA WebStepIsSessionStep ==
  TypeOK /\ Inv /\ [WebNext]_<<vars, web>> => [Next]_vars
<1> SUFFICES ASSUME TypeOK, Inv, [WebNext]_<<vars, web>> PROVE [Next]_vars
  OBVIOUS
<1>1. ASSUME NEW n \in Navs, BrowserStep(n) PROVE UNCHANGED vars
  BY <1>1 DEF BrowserStep, Send, Respond, LoseResponse
<1>2. ASSUME NEW n \in Navs, ProxyStep(n) PROVE UNCHANGED vars
  BY <1>2 DEF ProxyStep, ProxyPass, ProxyJoin, ProxyStart
<1>3. ASSUME NEW n \in Navs, RouteStep(n) PROVE [Next]_vars
  <2>1. ASSUME NEW r \in Requests, RouteLogout(n, r) PROVE [Next]_vars
    <3> DEFINE a == owner[nav[n].cookies.access]
    <3>1. CASE UNCHANGED vars
      BY <3>1
    <3>2. CASE Logout(r, a)
      <4>1. PICK t \in answered : owner[t] = a
        BY <3>2 DEF Logout
      <4>2. a \in Accounts
        BY <4>1 DEF TypeOK, Inv, RowsConsistent, Row
      <4> HIDE DEF a
      <4> QED
        BY <3>2, <4>2 DEF Next, Arrival
    <3> QED
      BY <2>1, <3>1, <3>2 DEF RouteLogout
  <2>2. ASSUME NEW r \in Requests, NEW a \in Accounts, RouteLogin(n, r, a) PROVE [Next]_vars
    BY <2>2 DEF RouteLogin, Next, Arrival
  <2> QED
    BY <1>3, <2>1, <2>2 DEF RouteStep, RouteRefreshEmpty, RouteRefresh
<1>4. ASSUME NEW r \in Requests, ApiStep(r) PROVE [Next]_vars
  <2>1. CASE ApiAccept(r)
    <3>1. call[r].token \in Tokens
      BY <2>1 DEF ApiAccept, RotateRead, TypeOK
    <3> QED
      BY <2>1, <3>1 DEF ApiAccept, Next, Arrival
  <2>2. CASE ApiRefuse(r)
    BY <2>2 DEF ApiRefuse
  <2>3. CASE ApiAccount(r)
    BY <2>3 DEF ApiAccount, Next, HandlerStep
  <2>4. ASSUME NEW t \in Tokens, ApiMint(r, t) PROVE [Next]_vars
    BY <2>4 DEF ApiMint, Next, HandlerStep
  <2>5. CASE ApiReply(r)
    BY <2>5 DEF ApiReply, Next, HandlerStep
  <2> QED
    BY <1>4, <2>1, <2>2, <2>3, <2>4, <2>5 DEF ApiStep
<1>5. ASSUME NEW r \in Requests, ApiFail(r) PROVE [Next]_vars
  BY <1>5 DEF ApiFail, Next
<1>6. ASSUME NEW r \in Requests, Cut(r) PROVE UNCHANGED vars
  BY <1>6 DEF Cut
<1>7. CASE TimePasses
  BY <1>7 DEF TimePasses, CookieLapses, Next
<1> QED
  BY <1>1, <1>2, <1>3, <1>4, <1>5, <1>6, <1>7 DEF WebNext

\* Whatever the browser and the web process do, the API behaves as AuthSessions
\* says: each of its theorems holds of the composition.
THEOREM WebImplementsSessions == WebSpec => Spec
<1>1. WebInit => TypeOK /\ Inv
  BY InitOK DEF WebInit
<1>2. TypeOK /\ Inv /\ [WebNext]_<<vars, web>> => (TypeOK /\ Inv)'
  BY WebStepIsSessionStep, TypeStep, RowsStep, HandlersStep, SealStep, FirmStep DEF Inv
<1>3. WebInit => Init
  BY DEF WebInit
<1> QED
  BY <1>1, <1>2, <1>3, WebStepIsSessionStep, PTL DEF WebSpec, Spec

\* Every step keeps every variable of the web session in its type.
LEMMA WebTypeStep == TypeOK /\ WebTypeOK /\ [WebNext]_<<vars, web>> => WebTypeOK'
<1> SUFFICES ASSUME TypeOK, WebTypeOK, [WebNext]_<<vars, web>> PROVE WebTypeOK'
  OBVIOUS
<1> USE NoneAssumption, SlotAssumption, KindsAssumption
    DEF WebTypeOK, TypeOK, Handlers, Jars, EmptyJar, Pair, TokenOrNone, Nav, NoNav, NavStates,
        Call, NoCall, CallStates, GotoNav, Await, Answer, Settle, SettleIfHeard, Verdict, web,
        AtProxy, NeedsRefresh, Exchange
<1>1. ASSUME NEW n \in Navs, NEW kind \in Kinds, Send(n, kind) PROVE WebTypeOK'
  BY <1>1 DEF Send
<1>2. ASSUME NEW n \in Navs, Respond(n) PROVE WebTypeOK'
  BY <1>2 DEF Respond
<1>3. ASSUME NEW n \in Navs, LoseResponse(n) PROVE WebTypeOK'
  BY <1>3 DEF LoseResponse
<1>4. ASSUME NEW n \in Navs, ProxyPass(n) PROVE WebTypeOK'
  BY <1>4 DEF ProxyPass
<1>5. ASSUME NEW n \in Navs, ProxyJoin(n) PROVE WebTypeOK'
  BY <1>5 DEF ProxyJoin
<1>6. ASSUME NEW n \in Navs, NEW r \in Requests, ProxyStart(n, r) PROVE WebTypeOK'
  BY <1>6 DEF ProxyStart
<1>7. ASSUME NEW n \in Navs, RouteRefreshEmpty(n) PROVE WebTypeOK'
  BY <1>7 DEF RouteRefreshEmpty
<1>8. ASSUME NEW n \in Navs, NEW r \in Requests, RouteRefresh(n, r) PROVE WebTypeOK'
  BY <1>8 DEF RouteRefresh
<1>9. ASSUME NEW n \in Navs, NEW r \in Requests, NEW a \in Accounts, RouteLogin(n, r, a) PROVE WebTypeOK'
  BY <1>9 DEF RouteLogin
<1>10. ASSUME NEW n \in Navs, NEW r \in Requests, RouteLogout(n, r) PROVE WebTypeOK'
  BY <1>10 DEF RouteLogout
<1>11. ASSUME NEW r \in Requests, ApiAccept(r) PROVE WebTypeOK'
  BY <1>11 DEF ApiAccept
<1>12. ASSUME NEW r \in Requests, ApiRefuse(r) PROVE WebTypeOK'
  BY <1>12 DEF ApiRefuse
<1>13. ASSUME NEW r \in Requests, ApiAccount(r) PROVE WebTypeOK'
  BY <1>13 DEF ApiAccount
<1>14. ASSUME NEW r \in Requests, NEW t \in Tokens, ApiMint(r, t) PROVE WebTypeOK'
  BY <1>14 DEF ApiMint
<1>15. ASSUME NEW r \in Requests, ApiReply(r) PROVE WebTypeOK'
  BY <1>15 DEF ApiReply, Reply
<1>16. ASSUME NEW r \in Requests, ApiFail(r) PROVE WebTypeOK'
  BY <1>16 DEF ApiFail
<1>17. ASSUME NEW r \in Requests, Cut(r) PROVE WebTypeOK'
  BY <1>17 DEF Cut
<1>18. CASE TimePasses
  BY <1>18 DEF TimePasses, CookieLapses
<1>19. CASE UNCHANGED <<vars, web>>
  BY <1>19 DEF vars, tables
<1> QED
  BY <1>1, <1>2, <1>3, <1>4, <1>5, <1>6, <1>7, <1>8, <1>9, <1>10, <1>11, <1>12, <1>13, <1>14, <1>15, <1>16, <1>17, <1>18, <1>19
     DEF WebNext, BrowserStep, ProxyStep, RouteStep, ApiStep

\* Every step keeps the calls, the map and the rotations consistent.
LEMMA CallsStep == TypeOK /\ Inv /\ WebTypeOK /\ CallsHold /\ [WebNext]_<<vars, web>> => CallsHold'
<1> SUFFICES ASSUME TypeOK, Inv, WebTypeOK, CallsHold, [WebNext]_<<vars, web>> PROVE CallsHold'
  OBVIOUS
<1> USE NoneAssumption, SlotAssumption, KindsAssumption
    DEF TypeOK, WebTypeOK, Handlers, Inv, RowsConsistent, CallsHold, CallConsistent, Rotating,
        Call, NoCall, CallStates, Settle, SettleIfHeard, FreeCall, Idle, Handler, Goto, web,
        AtProxy, NeedsRefresh, Exchange
<1>1. ASSUME NEW n \in Navs, NEW kind \in Kinds, Send(n, kind) PROVE CallsHold'
  BY <1>1 DEF Send, vars, tables, lineage
<1>2. ASSUME NEW n \in Navs, Respond(n) PROVE CallsHold'
  BY <1>2 DEF Respond, vars, tables, lineage
<1>3. ASSUME NEW n \in Navs, LoseResponse(n) PROVE CallsHold'
  BY <1>3 DEF LoseResponse, vars, tables, lineage
<1>4. ASSUME NEW n \in Navs, ProxyPass(n) PROVE CallsHold'
  BY <1>4 DEF ProxyPass, vars, tables, lineage
<1>5. ASSUME NEW n \in Navs, ProxyJoin(n) PROVE CallsHold'
  BY <1>5 DEF ProxyJoin, vars, tables, lineage
<1>6. ASSUME NEW n \in Navs, NEW r \in Requests, ProxyStart(n, r) PROVE CallsHold'
  BY <1>6 DEF ProxyStart, NavStates, Jars, TokenOrNone, vars, tables, lineage
<1>7. ASSUME NEW n \in Navs, RouteRefreshEmpty(n) PROVE CallsHold'
  BY <1>7 DEF RouteRefreshEmpty, vars, tables, lineage
<1>8. ASSUME NEW n \in Navs, NEW r \in Requests, RouteRefresh(n, r) PROVE CallsHold'
  BY <1>8 DEF RouteRefresh, NavStates, Jars, TokenOrNone, vars, tables, lineage
<1>9. ASSUME NEW n \in Navs, NEW r \in Requests, NEW a \in Accounts, RouteLogin(n, r, a) PROVE CallsHold'
  BY <1>9 DEF RouteLogin, LoginRead, lineage
<1>10. ASSUME NEW n \in Navs, NEW r \in Requests, RouteLogout(n, r) PROVE CallsHold'
  BY <1>10 DEF RouteLogout, Logout, vars, lineage
<1>11. ASSUME NEW r \in Requests, ApiAccept(r) PROVE CallsHold'
  BY <1>11 DEF ApiAccept, RotateRead, Live, Row, lineage
<1>12. ASSUME NEW r \in Requests, ApiRefuse(r) PROVE CallsHold'
  BY <1>12 DEF ApiRefuse, vars, tables, lineage
<1>13. ASSUME NEW r \in Requests, ApiAccount(r) PROVE CallsHold'
  BY <1>13 DEF ApiAccount, RotateAccount, lineage
<1>14. ASSUME NEW r \in Requests, NEW t \in Tokens, ApiMint(r, t) PROVE CallsHold'
  <2>1. CASE LoginIssue(r, t)
    BY <1>14, <2>1 DEF ApiMint, LoginIssue
  <2>2. CASE RotateCommit(r, t)
    <3>1. /\ req[r].pc = "rotate_commit"
          /\ parent' = [parent EXCEPT ![t] = req[r].token]
          /\ req' = [req EXCEPT ![r] = Handler("reply", req[r].account, t, req[r].start, req[r].seen)]
          /\ UNCHANGED web
      BY <1>14, <2>2 DEF ApiMint, RotateCommit
    <3>2. ASSUME NEW q \in Requests, q # r PROVE CallConsistent(q)'
      <4>1. ASSUME Rotating(q), req[q].token \notin unshared PROVE req[q].token # req[r].token
        <5>1. call[q].token = req[q].token /\ call[r].token = req[r].token
          BY <3>1, <4>1
        <5>2. call[q].pc # "idle" /\ call[r].pc # "idle"
          BY <3>1, <4>1
        <5>3. req[q].token \in Tokens
          BY <4>1 DEF HandlerConsistent
        <5> QED
          BY <3>2, <4>1, <5>1, <5>2, <5>3
      <4> QED
        BY <3>1, <3>2, <4>1
    <3>3. CallConsistent(r)'
      BY <3>1
    <3> QED
      BY <3>2, <3>3
  <2> QED
    BY <1>14, <2>1, <2>2 DEF ApiMint
<1>15. ASSUME NEW r \in Requests, ApiReply(r) PROVE CallsHold'
  BY <1>15 DEF ApiReply, Reply, lineage
<1>16. ASSUME NEW r \in Requests, ApiFail(r) PROVE CallsHold'
  BY <1>16 DEF ApiFail, Abort, vars, lineage
<1>17. ASSUME NEW r \in Requests, Cut(r) PROVE CallsHold'
  BY <1>17 DEF Cut, vars, tables, lineage
<1>18. CASE TimePasses
  BY <1>18 DEF TimePasses, CookieLapses, Expire, vars, lineage
<1>19. CASE UNCHANGED <<vars, web>>
  BY <1>19 DEF vars, lineage
<1> QED
  BY <1>1, <1>2, <1>3, <1>4, <1>5, <1>6, <1>7, <1>8, <1>9, <1>10, <1>11, <1>12, <1>13, <1>14, <1>15, <1>16, <1>17, <1>18, <1>19
     DEF WebNext, BrowserStep, ProxyStep, RouteStep, ApiStep

\* Every step keeps a signed-out browser out of reach of a session.
LEMMA SignOutStep == WebTypeOK /\ LogoutSticks /\ SignOutHolds /\ [WebNext]_<<vars, web>> => (LogoutSticks /\ SignOutHolds)'
<1> SUFFICES ASSUME WebTypeOK, LogoutSticks, SignOutHolds, [WebNext]_<<vars, web>> PROVE (LogoutSticks /\ SignOutHolds)'
  OBVIOUS
<1> USE NoneAssumption, SlotAssumption, KindsAssumption
    DEF WebTypeOK, NavStates, Jars, Nav, NoNav, GotoNav, Await, Answer, Settle, SettleIfHeard, Verdict,
        EmptyJar, SignOutHolds, LogoutSticks, web, AtProxy, NeedsRefresh, Exchange
<1>1. ASSUME NEW n \in Navs, NEW kind \in Kinds, Send(n, kind) PROVE (LogoutSticks /\ SignOutHolds)'
  BY <1>1 DEF Send
<1>2. ASSUME NEW n \in Navs, Respond(n) PROVE (LogoutSticks /\ SignOutHolds)'
  BY <1>2 DEF Respond
<1>3. ASSUME NEW n \in Navs, LoseResponse(n) PROVE (LogoutSticks /\ SignOutHolds)'
  BY <1>3 DEF LoseResponse
<1>4. ASSUME NEW n \in Navs, ProxyPass(n) PROVE (LogoutSticks /\ SignOutHolds)'
  BY <1>4 DEF ProxyPass
<1>5. ASSUME NEW n \in Navs, ProxyJoin(n) PROVE (LogoutSticks /\ SignOutHolds)'
  BY <1>5 DEF ProxyJoin
<1>6. ASSUME NEW n \in Navs, NEW r \in Requests, ProxyStart(n, r) PROVE (LogoutSticks /\ SignOutHolds)'
  BY <1>6 DEF ProxyStart
<1>7. ASSUME NEW n \in Navs, RouteRefreshEmpty(n) PROVE (LogoutSticks /\ SignOutHolds)'
  BY <1>7 DEF RouteRefreshEmpty
<1>8. ASSUME NEW n \in Navs, NEW r \in Requests, RouteRefresh(n, r) PROVE (LogoutSticks /\ SignOutHolds)'
  BY <1>8 DEF RouteRefresh
<1>9. ASSUME NEW n \in Navs, NEW r \in Requests, NEW a \in Accounts, RouteLogin(n, r, a) PROVE (LogoutSticks /\ SignOutHolds)'
  BY <1>9 DEF RouteLogin
<1>10. ASSUME NEW n \in Navs, NEW r \in Requests, RouteLogout(n, r) PROVE (LogoutSticks /\ SignOutHolds)'
  BY <1>10 DEF RouteLogout
<1>11. ASSUME NEW r \in Requests, ApiAccept(r) PROVE (LogoutSticks /\ SignOutHolds)'
  BY <1>11 DEF ApiAccept
<1>12. ASSUME NEW r \in Requests, ApiRefuse(r) PROVE (LogoutSticks /\ SignOutHolds)'
  BY <1>12 DEF ApiRefuse
<1>13. ASSUME NEW r \in Requests, ApiAccount(r) PROVE (LogoutSticks /\ SignOutHolds)'
  BY <1>13 DEF ApiAccount
<1>14. ASSUME NEW r \in Requests, NEW t \in Tokens, ApiMint(r, t) PROVE (LogoutSticks /\ SignOutHolds)'
  BY <1>14 DEF ApiMint
<1>15. ASSUME NEW r \in Requests, ApiReply(r) PROVE (LogoutSticks /\ SignOutHolds)'
  BY <1>15 DEF ApiReply
<1>16. ASSUME NEW r \in Requests, ApiFail(r) PROVE (LogoutSticks /\ SignOutHolds)'
  BY <1>16 DEF ApiFail
<1>17. ASSUME NEW r \in Requests, Cut(r) PROVE (LogoutSticks /\ SignOutHolds)'
  BY <1>17 DEF Cut
<1>18. CASE TimePasses
  BY <1>18 DEF TimePasses, CookieLapses
<1>19. CASE UNCHANGED <<vars, web>>
  BY <1>19 DEF vars, tables
<1> QED
  BY <1>1, <1>2, <1>3, <1>4, <1>5, <1>6, <1>7, <1>8, <1>9, <1>10, <1>11, <1>12, <1>13, <1>14, <1>15, <1>16, <1>17, <1>18, <1>19
     DEF WebNext, BrowserStep, ProxyStep, RouteStep, ApiStep

\* A token outside unshared is rotated once: a second successor would need two
\* calls for it in the map at once, or a rotation of a row already revoked.
LEMMA CoalescedStep ==
  TypeOK /\ CallsHold /\ CoalescedRotation /\ [WebNext]_<<vars, web>> => CoalescedRotation'
<1> SUFFICES ASSUME TypeOK, CallsHold, CoalescedRotation, [WebNext]_<<vars, web>>
             PROVE CoalescedRotation'
  OBVIOUS
<1>1. ASSUME UNCHANGED parent, unshared \subseteq unshared' PROVE CoalescedRotation'
  BY <1>1 DEF CoalescedRotation
<1>2. ASSUME NEW r \in Requests, NEW t \in Tokens, ApiMint(r, t) PROVE CoalescedRotation'
  <2>1. CASE LoginIssue(r, t)
    BY <1>1, <1>2, <2>1 DEF ApiMint, LoginIssue, web
  <2>2. CASE RotateCommit(r, t)
    <3>1. /\ Rotating(r)
          /\ parent' = [parent EXCEPT ![t] = req[r].token]
          /\ unshared' = unshared
      BY <1>2, <2>2 DEF ApiMint, RotateCommit, Rotating, web
    <3>2. req[r].token \notin unshared => \A s \in Tokens : parent[s] # req[r].token
      BY <3>1 DEF CallsHold, CallConsistent
    <3> QED
      BY <3>1, <3>2 DEF CoalescedRotation, TypeOK
  <2> QED
    BY <1>2, <2>1, <2>2 DEF ApiMint
<1>3. ASSUME NEW n \in Navs, BrowserStep(n) \/ ProxyStep(n) PROVE CoalescedRotation'
  BY <1>1, <1>3 DEF BrowserStep, Send, Respond, LoseResponse, ProxyStep, ProxyPass, ProxyJoin,
                    ProxyStart, vars, lineage
<1>4. ASSUME NEW n \in Navs, RouteStep(n) PROVE CoalescedRotation'
  BY <1>1, <1>4 DEF RouteStep, RouteRefreshEmpty, RouteRefresh, RouteLogin, LoginRead,
                    RouteLogout, Logout, vars, lineage
<1>5. ASSUME NEW r \in Requests, ApiAccept(r) \/ ApiRefuse(r) \/ ApiAccount(r) \/ ApiReply(r)
      PROVE CoalescedRotation'
  BY <1>1, <1>5 DEF ApiAccept, RotateRead, ApiRefuse, ApiAccount, RotateAccount, ApiReply, Reply,
                    vars, lineage, web
<1>6. ASSUME NEW r \in Requests, ApiFail(r) \/ Cut(r) PROVE CoalescedRotation'
  BY <1>1, <1>6 DEF ApiFail, Abort, Cut, vars, lineage
<1>7. CASE TimePasses
  BY <1>1, <1>7 DEF TimePasses, CookieLapses, Expire, vars, lineage, web
<1>8. CASE UNCHANGED <<vars, web>>
  BY <1>1, <1>8 DEF vars, lineage, web
<1> QED
  BY <1>2, <1>3, <1>4, <1>5, <1>6, <1>7, <1>8 DEF WebNext, ApiStep

\* The initial state satisfies the invariant.
LEMMA WebInitOK == WebInit => WebTypeOK /\ WebInv
<1> SUFFICES ASSUME WebInit PROVE WebTypeOK /\ WebInv
  OBVIOUS
<1> USE NoneAssumption, SlotAssumption DEF WebInit, Init, EmptyJar
<1>1. WebTypeOK
  BY DEF WebTypeOK, Jars, TokenOrNone, NoNav, Nav, NavStates, NoCall, Call, CallStates
<1>2. CoalescedRotation /\ LogoutSticks /\ SignOutHolds
  BY DEF CoalescedRotation, LogoutSticks, SignOutHolds, NoNav, Nav
<1>3. CallsHold
  BY DEF CallsHold, CallConsistent, Rotating, Idle, Handler, NoCall, Call
<1> QED
  BY <1>1, <1>2, <1>3 DEF WebInv

\* The inductive invariant of the web session, beside that of the API.
THEOREM WebInvCorrect == WebSpec => [](WebTypeOK /\ WebInv)
<1>1. WebInit => TypeOK /\ Inv /\ WebTypeOK /\ WebInv
  BY InitOK, WebInitOK DEF WebInit
<1>2. TypeOK /\ Inv /\ [WebNext]_<<vars, web>> => (TypeOK /\ Inv)'
  BY WebStepIsSessionStep, TypeStep, RowsStep, HandlersStep, SealStep, FirmStep DEF Inv
<1>3. TypeOK /\ Inv /\ WebTypeOK /\ WebInv /\ [WebNext]_<<vars, web>> => (WebTypeOK /\ WebInv)'
  BY WebTypeStep, CallsStep, SignOutStep, CoalescedStep DEF WebInv
<1> QED
  BY <1>1, <1>2, <1>3, PTL DEF WebSpec

\* Every variable of the web session has its type in every reachable state.
THEOREM WebTypeCorrect == WebSpec => []WebTypeOK
BY WebInvCorrect, PTL

\* A refresh token that only the proxy's navigations exchange, with no call given
\* up, has one successor: session-refresh.ts's map makes single-use what
\* rotateRefreshToken by itself does not.
THEOREM CoalescedRotationCorrect == WebSpec => []CoalescedRotation
<1>1. WebInv => CoalescedRotation
  BY DEF WebInv
<1> QED
  BY WebInvCorrect, <1>1, PTL

\* A logout that meets no other request of the browser leaves it signed out until
\* credentials are sent again.
THEOREM LogoutSticksCorrect == WebSpec => []LogoutSticks
<1>1. WebInv => LogoutSticks
  BY DEF WebInv
<1> QED
  BY WebInvCorrect, <1>1, PTL

=============================================================================
