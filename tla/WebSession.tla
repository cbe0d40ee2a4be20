----------------------------- MODULE WebSession -----------------------------
(***************************************************************************)
(* The web front end's side of a session: one browser with its two         *)
(* cookies, the requests it has in flight to the Next.js process, the      *)
(* proxy that exchanges the refresh token before a page renders (proxy.ts, *)
(* session-refresh.ts), the session route handlers, and the calls of that  *)
(* process to the API, which is AuthSessions.  A call occupies a slot of   *)
(* Requests: the handler req[r] is its other end.                          *)
(*                                                                         *)
(* Between any two of: a request leaving the browser, reaching the web     *)
(* process, its call reaching the API, the answer returning, the response  *)
(* reaching the browser, anything else may happen, and each may be lost.   *)
(***************************************************************************)
EXTENDS AuthSessions

CONSTANTS Navs      \* requests of the browser in flight at once (bound)

CONSTANTS Kinds     \* the kinds of request it makes (bound)

ASSUME SlotAssumption == None \notin Requests
ASSUME KindsAssumption == Kinds \subseteq {"page", "refresh", "login", "logout"}

VARIABLES
  jar,      \* the kt_session and kt_refresh cookies, each as the pair it is of
  nav,      \* the browser's request in each slot
  inFlight, \* session-refresh.ts's map: the call exchanging each token
  call,     \* the web process's call to the API in each slot
  \* Observed only
  unshared, \* tokens exchanged outside inFlight: by the refresh route handler,
            \* or by a call that the web process has given up on
  signedOut \* the browser has logged out with no other request in flight, and
            \* has not sent credentials since

web == <<jar, nav, inFlight, call, unshared, signedOut>>

-----------------------------------------------------------------------------

TokenOrNone == Tokens \cup {None}

Jars == [access : TokenOrNone, refresh : TokenOrNone]
EmptyJar == [access |-> None, refresh |-> None]
Pair(t)  == [access |-> t, refresh |-> t]

\* A request at step "at": the cookies it was sent with, until they are read;
\* the call it awaits; and what its response does to the jar.
Nav(at, kind, cookies, r, verdict, t) ==
  [pc |-> at, kind |-> kind, cookies |-> cookies, call |-> r, verdict |-> verdict, pair |-> t]

NoNav == Nav("idle", "page", EmptyJar, None, "keep", None)

NavStates ==
  [pc : {"idle", "sent", "wait", "respond"},
   kind : {"page", "refresh", "login", "logout"},
   cookies : Jars,
   call : Requests \cup {None},
   verdict : {"keep", "set", "clear"},
   pair : TokenOrNone]

\* A call that presents token t (None for a login); heard while the web process
\* still awaits it.
Call(at, t, heard) == [pc |-> at, token |-> t, heard |-> heard]
NoCall == Call("idle", None, FALSE)

CallStates == [pc : {"idle", "sent", "open"}, token : TokenOrNone, heard : BOOLEAN]

\* The API is past its check of the token that call r presents.
Rotating(r) == req[r].pc \in {"rotate_account", "rotate_commit"}

FreeCall(r) == call[r].pc = "idle" /\ req[r].pc = "idle"

GotoNav(n, h) == nav' = [nav EXCEPT ![n] = h]
Await(n, r)   == GotoNav(n, Nav("wait", nav[n].kind, EmptyJar, r, "keep", None))
Answer(n, verdict) == GotoNav(n, Nav("respond", nav[n].kind, EmptyJar, None, verdict, None))

\* What becomes of the cookies when a call ends: the proxy clears them on a 401
\* and leaves them on any other failure, the refresh route clears them on both,
\* a login that fails leaves them.
Verdict(kind, outcome) ==
  IF outcome = "ok" THEN "set"
  ELSE IF kind = "refresh" \/ (kind = "page" /\ outcome = "invalid") THEN "clear"
  ELSE "keep"

\* Mutant of Settle: the entry stays in the map, as without the finally.
SettleKeepingEntry(r, outcome, t) ==
  /\ UNCHANGED inFlight
  /\ nav' = [n \in Navs |->
               IF nav[n].pc = "wait" /\ nav[n].call = r
               THEN Nav("respond", nav[n].kind, EmptyJar, None,
                        Verdict(nav[n].kind, outcome), t)
               ELSE nav[n]]

\* The promise of call r settles: its entry leaves inFlight and every request
\* that awaits it goes on, before anything else runs.
Settle(r, outcome, t) ==
  /\ inFlight' = [u \in Tokens |-> IF inFlight[u] = r THEN None ELSE inFlight[u]]
  /\ nav' = [n \in Navs |->
               IF nav[n].pc = "wait" /\ nav[n].call = r
               THEN Nav("respond", nav[n].kind, EmptyJar, None,
                        Verdict(nav[n].kind, outcome), t)
               ELSE nav[n]]

SettleIfHeard(r, outcome, t) ==
  IF call[r].heard THEN Settle(r, outcome, t) ELSE UNCHANGED <<inFlight, nav>>

-----------------------------------------------------------------------------
(* The browser                                                             *)

Send(n, kind) ==
  /\ nav[n].pc = "idle"
  /\ GotoNav(n, Nav("sent", kind, jar, None, "keep", None))
  /\ signedOut' = (signedOut /\ kind # "login")
  /\ UNCHANGED <<vars, jar, inFlight, call, unshared>>

\* The response arrives and its Set-Cookie headers are obeyed.
Respond(n) ==
  /\ nav[n].pc = "respond"
  /\ jar' = IF nav[n].verdict = "set" THEN Pair(nav[n].pair)
            ELSE IF nav[n].verdict = "clear" THEN EmptyJar ELSE jar
  /\ signedOut' = IF nav[n].kind = "logout"
                  THEN \A m \in Navs \ {n} : nav[m].pc = "idle"
                  ELSE signedOut
  /\ GotoNav(n, NoNav)
  /\ UNCHANGED <<vars, inFlight, call, unshared>>

\* The response is lost, or the browser has left the page.
LoseResponse(n) ==
  /\ nav[n].pc = "respond"
  /\ GotoNav(n, NoNav)
  /\ UNCHANGED <<vars, jar, inFlight, call, unshared, signedOut>>

\* The access cookie lives 15 minutes, the refresh cookie 30 days.
CookieLapses ==
  /\ jar # EmptyJar
  /\ jar' = IF jar.access = None THEN EmptyJar ELSE [access |-> None, refresh |-> jar.refresh]
  /\ UNCHANGED <<vars, nav, inFlight, call, unshared, signedOut>>

-----------------------------------------------------------------------------
(* proxy.ts and session-refresh.ts                                         *)

\* With an access cookie, or without a refresh cookie, the proxy does nothing.
AtProxy(n)      == nav[n].pc = "sent" /\ nav[n].kind = "page"
NeedsRefresh(n) == nav[n].cookies.access = None /\ nav[n].cookies.refresh # None

ProxyPass(n) ==
  /\ AtProxy(n)
  /\ ~NeedsRefresh(n)
  /\ Answer(n, "keep")
  /\ UNCHANGED <<vars, jar, inFlight, call, unshared, signedOut>>

\* refreshSession: an exchange of the same token that is in flight is shared ...
ProxyJoin(n) ==
  LET t == nav[n].cookies.refresh IN
  /\ AtProxy(n) /\ NeedsRefresh(n)
  /\ inFlight[t] # None
  /\ Await(n, inFlight[t])
  /\ UNCHANGED <<vars, jar, inFlight, call, unshared, signedOut>>

\* performRefresh begins, and the request awaits it.
Exchange(n, r, t) ==
  /\ FreeCall(r)
  /\ call' = [call EXCEPT ![r] = Call("sent", t, TRUE)]
  /\ Await(n, r)

\* Mutant of ProxyStart: the map is not looked up.
ProxyStartAlways(n, r) ==
  LET t == nav[n].cookies.refresh IN
  /\ AtProxy(n) /\ NeedsRefresh(n)
  /\ Exchange(n, r, t)
  /\ inFlight' = [inFlight EXCEPT ![t] = r]
  /\ UNCHANGED <<vars, jar, unshared, signedOut>>

\* Mutant of ProxyStart: the map holds the token, not the exchange.
ProxyStartKey(n, r) ==
  LET t == nav[n].cookies.refresh IN
  /\ AtProxy(n) /\ NeedsRefresh(n)
  /\ inFlight[t] = None
  /\ Exchange(n, r, t)
  /\ inFlight' = [inFlight EXCEPT ![t] = t]
  /\ UNCHANGED <<vars, jar, unshared, signedOut>>

\* ... or else one begins.
ProxyStart(n, r) ==
  LET t == nav[n].cookies.refresh IN
  /\ AtProxy(n) /\ NeedsRefresh(n)
  /\ inFlight[t] = None
  /\ Exchange(n, r, t)
  /\ inFlight' = [inFlight EXCEPT ![t] = r]
  /\ UNCHANGED <<vars, jar, unshared, signedOut>>

-----------------------------------------------------------------------------
(* The route handlers under /api/session                                   *)

\* POST /api/session/refresh exchanges the refresh cookie by itself.
RouteRefresh(n, r) ==
  LET t == nav[n].cookies.refresh IN
  /\ nav[n].pc = "sent"
  /\ nav[n].kind = "refresh"
  /\ t # None
  /\ Exchange(n, r, t)
  /\ unshared' = unshared \cup {t}
  /\ UNCHANGED <<vars, jar, inFlight, signedOut>>

RouteRefreshEmpty(n) ==
  /\ nav[n].pc = "sent"
  /\ nav[n].kind = "refresh"
  /\ nav[n].cookies.refresh = None
  /\ Answer(n, "clear")
  /\ UNCHANGED <<vars, jar, inFlight, call, unshared, signedOut>>

\* exchangeCredentialsForSession, with credentials the API accepts.
RouteLogin(n, r, a) ==
  /\ nav[n].pc = "sent"
  /\ nav[n].kind = "login"
  /\ FreeCall(r)
  /\ LoginRead(r, a)
  /\ call' = [call EXCEPT ![r] = Call("open", None, TRUE)]
  /\ Await(n, r)
  /\ UNCHANGED <<jar, inFlight, unshared, signedOut>>

\* Mutant of RouteLogout: the cookies are cleared only after the API's answer.
RouteLogoutStrict(n, r) ==
  /\ nav[n].pc = "sent"
  /\ nav[n].kind = "logout"
  /\ \/ UNCHANGED vars /\ Answer(n, "keep")
     \/ /\ nav[n].cookies.access # None
        /\ Logout(r, owner[nav[n].cookies.access])
        /\ Answer(n, "clear")
  /\ UNCHANGED <<jar, inFlight, call, unshared, signedOut>>

\* DELETE /api/session: with an access cookie the API is asked to log out,
\* which may fail; the cookies are cleared in any case.
RouteLogout(n, r) ==
  /\ nav[n].pc = "sent"
  /\ nav[n].kind = "logout"
  /\ \/ UNCHANGED vars
     \/ nav[n].cookies.access # None /\ Logout(r, owner[nav[n].cookies.access])
  /\ Answer(n, "clear")
  /\ UNCHANGED <<jar, inFlight, call, unshared, signedOut>>

-----------------------------------------------------------------------------
(* The calls at the API                                                    *)

\* The presented token is read and checked.
ApiAccept(r) ==
  /\ call[r].pc = "sent"
  /\ RotateRead(r, call[r].token)
  /\ call' = [call EXCEPT ![r] = Call("open", call[r].token, call[r].heard)]
  /\ UNCHANGED <<jar, nav, inFlight, unshared, signedOut>>

ApiRefuse(r) ==
  /\ call[r].pc = "sent"
  /\ ~Live(call[r].token)
  /\ SettleIfHeard(r, "invalid", None)
  /\ call' = [call EXCEPT ![r] = NoCall]
  /\ UNCHANGED <<vars, jar, unshared, signedOut>>

\* Accounts stay active here: a deactivated one is refused as a revoked row is.
ApiAccount(r) ==
  /\ call[r].pc = "open"
  /\ RotateAccount(r)
  /\ UNCHANGED web

ApiMint(r, t) ==
  /\ call[r].pc = "open"
  /\ LoginIssue(r, t) \/ RotateCommit(r, t)
  /\ UNCHANGED web

ApiReply(r) ==
  /\ call[r].pc = "open"
  /\ call[r].heard
  /\ Reply(r)
  /\ Settle(r, "ok", req[r].token)
  /\ call' = [call EXCEPT ![r] = NoCall]
  /\ UNCHANGED <<jar, unshared, signedOut>>

\* The API fails with something other than a 401, or its answer finds nobody.
ApiFail(r) ==
  /\ call[r].pc # "idle"
  /\ IF call[r].pc = "open" THEN Abort(r) ELSE UNCHANGED vars
  /\ SettleIfHeard(r, "transient", None)
  /\ call' = [call EXCEPT ![r] = NoCall]
  /\ UNCHANGED <<jar, unshared, signedOut>>

\* fetch rejects, by a lost connection or a timeout, while the API goes on.
Cut(r) ==
  /\ call[r].pc # "idle"
  /\ call[r].heard
  /\ Settle(r, "transient", None)
  /\ call' = [call EXCEPT ![r] = Call(call[r].pc, call[r].token, FALSE)]
  /\ unshared' = unshared \cup ({call[r].token} \ {None})
  /\ UNCHANGED <<vars, jar, signedOut>>

-----------------------------------------------------------------------------

WebInit ==
  /\ Init
  /\ jar = EmptyJar
  /\ nav = [n \in Navs |-> NoNav]
  /\ inFlight = [t \in Tokens |-> None]
  /\ call = [r \in Requests |-> NoCall]
  /\ unshared = {}
  /\ signedOut = FALSE

ProxyStep(n) == ProxyPass(n) \/ ProxyJoin(n) \/ \E r \in Requests : ProxyStart(n, r)

RouteStep(n) ==
  \/ RouteRefreshEmpty(n)
  \/ \E r \in Requests : \/ RouteRefresh(n, r)
                         \/ \E a \in Accounts : RouteLogin(n, r, a)
                         \/ RouteLogout(n, r)

ApiStep(r) ==
  \/ ApiAccept(r) \/ ApiRefuse(r) \/ ApiAccount(r)
  \/ \E t \in Tokens : ApiMint(r, t)
  \/ ApiReply(r)

BrowserStep(n) ==
  \/ \E kind \in Kinds : Send(n, kind)
  \/ Respond(n) \/ LoseResponse(n)

TimePasses ==
  \/ CookieLapses
  \/ \E t \in Tokens : Expire(t) /\ UNCHANGED web

WebNext ==
  \/ \E n \in Navs : BrowserStep(n) \/ ProxyStep(n) \/ RouteStep(n)
  \/ \E r \in Requests : ApiStep(r) \/ ApiFail(r) \/ Cut(r)
  \/ TimePasses

WebSpec == WebInit /\ [][WebNext]_<<vars, web>>

\* A call that was made is carried through: the API's event loop and the
\* database serve every handler, and a fetch ends with an answer or an error.
FairWebSpec == WebSpec /\ \A r \in Requests : WF_<<vars, web>>(ApiStep(r) \/ ApiFail(r))

-----------------------------------------------------------------------------
(* Properties                                                              *)

\* Every variable of this module has its type.
WebTypeOK ==
  /\ jar \in Jars
  /\ nav \in [Navs -> NavStates]
  /\ inFlight \in [Tokens -> Requests \cup {None}]
  /\ call \in [Requests -> CallStates]
  /\ unshared \subseteq Tokens
  /\ signedOut \in BOOLEAN

\* A logout whose response meets no other request of the browser in flight is
\* final: until credentials are sent again the browser holds no cookie of a
\* session, whether or not the API was told (logoutAction "always clears the
\* local session").
LogoutSticks == signedOut => jar = EmptyJar

\* What session-refresh.ts's map achieves: a token that was exchanged only by
\* navigations through the proxy, none of whose calls the web process gave up
\* on, has one successor, although the API's rotation by itself does not
\* guarantee it.
CoalescedRotation ==
  \A s, t \in Tokens :
    parent[s] # None /\ parent[s] = parent[t] /\ s # t => parent[s] \in unshared

\* A navigation that awaits an exchange, its own or a shared one, is released.
NavigationReleased ==
  \A n \in Navs : nav[n].pc = "wait" ~> nav[n].pc # "wait"

\* "Concurrent callers instead await the one in-flight exchange and share its
\* result" rather than "receive a spurious 401 for an otherwise-valid session":
\* no navigation's response clears the cookies of a session that is live.
NoSpuriousLogout ==
  \A n \in Navs :
    nav[n].pc = "respond" /\ nav[n].kind = "page" /\ nav[n].verdict = "clear"
      => jar.refresh = None \/ ~Live(jar.refresh)

\* The calls and the map fit together: a call for a token that is not unshared
\* is the one the map names, and such a token is rotated once at most.
CallConsistent(r) ==
  /\ call[r].pc = "idle" => req[r].pc = "idle"
  /\ call[r].pc = "sent" => req[r].pc = "idle" /\ call[r].token \in Tokens
  /\ Rotating(r) => call[r].token = req[r].token
  /\ call[r].pc # "idle" /\ call[r].token \in Tokens \ unshared =>
       inFlight[call[r].token] = r
  /\ Rotating(r) /\ req[r].token \notin unshared =>
       \A s \in Tokens : parent[s] # req[r].token

CallsHold == \A r \in Requests : CallConsistent(r)

\* A request that could still fill the jar of a signed-out browser does not exist.
SignOutHolds ==
  \A n \in Navs :
    /\ nav[n].kind = "logout" =>
         nav[n].pc # "wait" /\ (nav[n].pc = "respond" => nav[n].verdict = "clear")
    /\ signedOut /\ nav[n].pc # "idle" =>
         /\ nav[n].kind # "login"
         /\ nav[n].pc # "wait"
         /\ nav[n].pc = "sent" => nav[n].cookies = EmptyJar
         /\ nav[n].pc = "respond" => nav[n].verdict # "set"

\* What the inductive proof of CoalescedRotation and LogoutSticks needs.
WebInv ==
  /\ CoalescedRotation
  /\ LogoutSticks
  /\ CallsHold
  /\ SignOutHolds

=============================================================================
