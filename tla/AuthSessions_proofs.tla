------------------------ MODULE AuthSessions_proofs ------------------------
(***************************************************************************)
(* Proofs about AuthSessions, for any sets of accounts, tokens and request *)
(* slots: the type invariant, the inductive invariant Inv, what follows    *)
(* from it, and that AuthSessions implements SessionLedger.                *)
(***************************************************************************)
EXTENDS AuthSessionsLedger, TLAPS

\* The initial state is well typed and consistent.
LEMMA InitOK == Init => TypeOK /\ Inv
BY NoneAssumption, MaxVersionAssumption
   DEF Init, TypeOK, Inv, RowsConsistent, HandlerConsistent, SealHolds, FirmHolds, Row,
       Idle, Handler, Handlers, Minting

\* Every step keeps every variable in its type.
LEMMA TypeStep == TypeOK /\ Inv /\ [Next]_vars => TypeOK'
<1> SUFFICES ASSUME TypeOK, Inv, [Next]_vars PROVE TypeOK'
  OBVIOUS
<1> USE NoneAssumption, MaxVersionAssumption DEF TypeOK, Handlers, Handler, Idle, Goto, tables, lineage, fences
<1>1. ASSUME NEW r \in Requests, NEW a \in Accounts, LoginRead(r, a) PROVE TypeOK'
  BY <1>1 DEF LoginRead
<1>2. ASSUME NEW r \in Requests, NEW t \in Tokens, LoginIssue(r, t) PROVE TypeOK'
  BY <1>2 DEF LoginIssue
<1>3. ASSUME NEW r \in Requests, NEW t \in Tokens, RotateRead(r, t) PROVE TypeOK'
  BY <1>3 DEF RotateRead, Live, Row
<1>4. ASSUME NEW r \in Requests, RotateAccount(r) PROVE TypeOK'
  BY <1>4 DEF RotateAccount, Inv, HandlerConsistent
<1>5. ASSUME NEW r \in Requests, NEW t \in Tokens, RotateCommit(r, t) PROVE TypeOK'
  BY <1>5 DEF RotateCommit, Inv, HandlerConsistent
<1>6. ASSUME NEW r \in Requests, Reply(r) PROVE TypeOK'
  BY <1>6 DEF Reply, Inv, HandlerConsistent
<1>7. ASSUME NEW r \in Requests, NEW a \in Accounts, Logout(r, a) PROVE TypeOK'
  BY <1>7 DEF Logout, RevokeAllForAccount, Owned
<1>8. ASSUME NEW r \in Requests, NEW a \in Accounts, ApprovalCommit(r, a) PROVE TypeOK'
  BY <1>8 DEF ApprovalCommit
<1>9. ASSUME NEW r \in Requests, ApprovalRevoke(r) PROVE TypeOK'
  BY <1>9 DEF ApprovalRevoke, RevokeAfterRewrite, RevokeAllForAccount, Owned, Inv, HandlerConsistent
<1>10. ASSUME NEW r \in Requests, Abort(r) PROVE TypeOK'
  BY <1>10 DEF Abort
<1>11. ASSUME NEW t \in Tokens, Expire(t) PROVE TypeOK'
  BY <1>11 DEF Expire
<1>12. ASSUME NEW a \in Accounts, SetActive(a) PROVE TypeOK'
  BY <1>12 DEF SetActive
<1>13. CASE UNCHANGED vars
  BY <1>13 DEF vars
<1> QED
  BY <1>1, <1>2, <1>3, <1>4, <1>5, <1>6, <1>7, <1>8, <1>9, <1>10, <1>11, <1>12, <1>13
     DEF Next, Arrival, HandlerStep

\* Every step keeps the rows consistent.
LEMMA RowsStep == TypeOK /\ Inv /\ [Next]_vars => RowsConsistent'
<1> SUFFICES ASSUME TypeOK, Inv, [Next]_vars PROVE RowsConsistent'
  OBVIOUS
<1> USE NoneAssumption, MaxVersionAssumption
    DEF TypeOK, Handlers, Handler, Idle, Goto, tables, lineage, fences, Row, Inv, RowsConsistent, HandlerConsistent
<1>1. ASSUME NEW r \in Requests, NEW a \in Accounts, LoginRead(r, a) PROVE RowsConsistent'
  BY <1>1 DEF LoginRead
<1>2. ASSUME NEW r \in Requests, NEW t \in Tokens, LoginIssue(r, t) PROVE RowsConsistent'
  BY <1>2 DEF LoginIssue, IsFresh
<1>3. ASSUME NEW r \in Requests, NEW t \in Tokens, RotateRead(r, t) PROVE RowsConsistent'
  BY <1>3 DEF RotateRead, Live
<1>4. ASSUME NEW r \in Requests, RotateAccount(r) PROVE RowsConsistent'
  BY <1>4 DEF RotateAccount
<1>5. ASSUME NEW r \in Requests, NEW t \in Tokens, RotateCommit(r, t) PROVE RowsConsistent'
  BY <1>5 DEF RotateCommit, IsFresh
<1>6. ASSUME NEW r \in Requests, Reply(r) PROVE RowsConsistent'
  BY <1>6 DEF Reply
<1>7. ASSUME NEW r \in Requests, NEW a \in Accounts, Logout(r, a) PROVE RowsConsistent'
  BY <1>7 DEF Logout, RevokeAllForAccount, Owned
<1>8. ASSUME NEW r \in Requests, NEW a \in Accounts, ApprovalCommit(r, a) PROVE RowsConsistent'
  BY <1>8 DEF ApprovalCommit
<1>9. ASSUME NEW r \in Requests, ApprovalRevoke(r) PROVE RowsConsistent'
  BY <1>9 DEF ApprovalRevoke, RevokeAfterRewrite, RevokeAllForAccount, Owned
<1>10. ASSUME NEW r \in Requests, Abort(r) PROVE RowsConsistent'
  BY <1>10 DEF Abort
<1>11. ASSUME NEW t \in Tokens, Expire(t) PROVE RowsConsistent'
  BY <1>11 DEF Expire
<1>12. ASSUME NEW a \in Accounts, SetActive(a) PROVE RowsConsistent'
  BY <1>12 DEF SetActive
<1>13. CASE UNCHANGED vars
  BY <1>13 DEF vars
<1> QED
  BY <1>1, <1>2, <1>3, <1>4, <1>5, <1>6, <1>7, <1>8, <1>9, <1>10, <1>11, <1>12, <1>13
     DEF Next, Arrival, HandlerStep

\* Every step keeps every handler consistent with the rows.
LEMMA HandlersStep == TypeOK /\ Inv /\ [Next]_vars => (\A q \in Requests : HandlerConsistent(q))'
<1> SUFFICES ASSUME TypeOK, Inv, [Next]_vars PROVE (\A q \in Requests : HandlerConsistent(q))'
  OBVIOUS
<1> USE NoneAssumption, MaxVersionAssumption
    DEF TypeOK, Handlers, Handler, Idle, Goto, tables, lineage, fences, Row, Inv, RowsConsistent, HandlerConsistent
<1>1. ASSUME NEW r \in Requests, NEW a \in Accounts, LoginRead(r, a) PROVE (\A q \in Requests : HandlerConsistent(q))'
  BY <1>1 DEF LoginRead
<1>2. ASSUME NEW r \in Requests, NEW t \in Tokens, LoginIssue(r, t) PROVE (\A q \in Requests : HandlerConsistent(q))'
  BY <1>2 DEF LoginIssue, IsFresh
<1>3. ASSUME NEW r \in Requests, NEW t \in Tokens, RotateRead(r, t) PROVE (\A q \in Requests : HandlerConsistent(q))'
  BY <1>3 DEF RotateRead, Live
<1>4. ASSUME NEW r \in Requests, RotateAccount(r) PROVE (\A q \in Requests : HandlerConsistent(q))'
  BY <1>4 DEF RotateAccount
<1>5. ASSUME NEW r \in Requests, NEW t \in Tokens, RotateCommit(r, t) PROVE (\A q \in Requests : HandlerConsistent(q))'
  BY <1>5 DEF RotateCommit, IsFresh
<1>6. ASSUME NEW r \in Requests, Reply(r) PROVE (\A q \in Requests : HandlerConsistent(q))'
  BY <1>6 DEF Reply
<1>7. ASSUME NEW r \in Requests, NEW a \in Accounts, Logout(r, a) PROVE (\A q \in Requests : HandlerConsistent(q))'
  BY <1>7 DEF Logout, RevokeAllForAccount, Owned
<1>8. ASSUME NEW r \in Requests, NEW a \in Accounts, ApprovalCommit(r, a) PROVE (\A q \in Requests : HandlerConsistent(q))'
  BY <1>8 DEF ApprovalCommit
<1>9. ASSUME NEW r \in Requests, ApprovalRevoke(r) PROVE (\A q \in Requests : HandlerConsistent(q))'
  BY <1>9 DEF ApprovalRevoke, RevokeAfterRewrite, RevokeAllForAccount, Owned
<1>10. ASSUME NEW r \in Requests, Abort(r) PROVE (\A q \in Requests : HandlerConsistent(q))'
  BY <1>10 DEF Abort
<1>11. ASSUME NEW t \in Tokens, Expire(t) PROVE (\A q \in Requests : HandlerConsistent(q))'
  BY <1>11 DEF Expire
<1>12. ASSUME NEW a \in Accounts, SetActive(a) PROVE (\A q \in Requests : HandlerConsistent(q))'
  BY <1>12 DEF SetActive
<1>13. CASE UNCHANGED vars
  BY <1>13 DEF vars
<1> QED
  BY <1>1, <1>2, <1>3, <1>4, <1>5, <1>6, <1>7, <1>8, <1>9, <1>10, <1>11, <1>12, <1>13
     DEF Next, Arrival, HandlerStep

\* Every step keeps a sealed account without sessions.
LEMMA SealStep == TypeOK /\ Inv /\ [Next]_vars => SealHolds'
<1> SUFFICES ASSUME TypeOK, Inv, [Next]_vars PROVE SealHolds'
  OBVIOUS
<1> USE NoneAssumption, MaxVersionAssumption
    DEF TypeOK, Handlers, Handler, Idle, Goto, tables, lineage, fences, Row, Inv, RowsConsistent, HandlerConsistent, SealHolds, Minting, Contested
<1>1. ASSUME NEW r \in Requests, NEW a \in Accounts, LoginRead(r, a) PROVE SealHolds'
  BY <1>1 DEF LoginRead
<1>2. ASSUME NEW r \in Requests, NEW t \in Tokens, LoginIssue(r, t) PROVE SealHolds'
  BY <1>2 DEF LoginIssue, IsFresh
<1>3. ASSUME NEW r \in Requests, NEW t \in Tokens, RotateRead(r, t) PROVE SealHolds'
  BY <1>3 DEF RotateRead, Live
<1>4. ASSUME NEW r \in Requests, RotateAccount(r) PROVE SealHolds'
  BY <1>4 DEF RotateAccount
<1>5. ASSUME NEW r \in Requests, NEW t \in Tokens, RotateCommit(r, t) PROVE SealHolds'
  BY <1>5 DEF RotateCommit, IsFresh
<1>6. ASSUME NEW r \in Requests, Reply(r) PROVE SealHolds'
  BY <1>6 DEF Reply
<1>7. ASSUME NEW r \in Requests, NEW a \in Accounts, Logout(r, a) PROVE SealHolds'
  BY <1>7 DEF Logout, RevokeAllForAccount, Owned
<1>8. ASSUME NEW r \in Requests, NEW a \in Accounts, ApprovalCommit(r, a) PROVE SealHolds'
  BY <1>8 DEF ApprovalCommit
<1>9. ASSUME NEW r \in Requests, ApprovalRevoke(r) PROVE SealHolds'
  BY <1>9 DEF ApprovalRevoke, RevokeAfterRewrite, RevokeAllForAccount, Owned
<1>10. ASSUME NEW r \in Requests, Abort(r) PROVE SealHolds'
  BY <1>10 DEF Abort
<1>11. ASSUME NEW t \in Tokens, Expire(t) PROVE SealHolds'
  BY <1>11 DEF Expire
<1>12. ASSUME NEW a \in Accounts, SetActive(a) PROVE SealHolds'
  BY <1>12 DEF SetActive
<1>13. CASE UNCHANGED vars
  BY <1>13 DEF vars
<1> QED
  BY <1>1, <1>2, <1>3, <1>4, <1>5, <1>6, <1>7, <1>8, <1>9, <1>10, <1>11, <1>12, <1>13
     DEF Next, Arrival, HandlerStep

\* Every step keeps the firm version below every live or coming session.
LEMMA FirmStep == TypeOK /\ Inv /\ [Next]_vars => FirmHolds'
<1> SUFFICES ASSUME TypeOK, Inv, [Next]_vars PROVE FirmHolds'
  OBVIOUS
<1> USE NoneAssumption, MaxVersionAssumption
    DEF TypeOK, Handlers, Handler, Idle, Goto, tables, lineage, fences, Row, Inv, RowsConsistent, HandlerConsistent, FirmHolds, Minting, Contested
<1>1. ASSUME NEW r \in Requests, NEW a \in Accounts, LoginRead(r, a) PROVE FirmHolds'
  BY <1>1 DEF LoginRead
<1>2. ASSUME NEW r \in Requests, NEW t \in Tokens, LoginIssue(r, t) PROVE FirmHolds'
  BY <1>2 DEF LoginIssue, IsFresh
<1>3. ASSUME NEW r \in Requests, NEW t \in Tokens, RotateRead(r, t) PROVE FirmHolds'
  BY <1>3 DEF RotateRead, Live
<1>4. ASSUME NEW r \in Requests, RotateAccount(r) PROVE FirmHolds'
  BY <1>4 DEF RotateAccount
<1>5. ASSUME NEW r \in Requests, NEW t \in Tokens, RotateCommit(r, t) PROVE FirmHolds'
  BY <1>5 DEF RotateCommit, IsFresh
<1>6. ASSUME NEW r \in Requests, Reply(r) PROVE FirmHolds'
  BY <1>6 DEF Reply
<1>7. ASSUME NEW r \in Requests, NEW a \in Accounts, Logout(r, a) PROVE FirmHolds'
  BY <1>7 DEF Logout, RevokeAllForAccount, Owned
<1>8. ASSUME NEW r \in Requests, NEW a \in Accounts, ApprovalCommit(r, a) PROVE FirmHolds'
  BY <1>8 DEF ApprovalCommit
<1>9. ASSUME NEW r \in Requests, ApprovalRevoke(r) PROVE FirmHolds'
  BY <1>9 DEF ApprovalRevoke, RevokeAfterRewrite, RevokeAllForAccount, Owned
<1>10. ASSUME NEW r \in Requests, Abort(r) PROVE FirmHolds'
  BY <1>10 DEF Abort
<1>11. ASSUME NEW t \in Tokens, Expire(t) PROVE FirmHolds'
  BY <1>11 DEF Expire
<1>12. ASSUME NEW a \in Accounts, SetActive(a) PROVE FirmHolds'
  BY <1>12 DEF SetActive
<1>13. CASE UNCHANGED vars
  BY <1>13 DEF vars
<1> QED
  BY <1>1, <1>2, <1>3, <1>4, <1>5, <1>6, <1>7, <1>8, <1>9, <1>10, <1>11, <1>12, <1>13
     DEF Next, Arrival, HandlerStep

\* The inductive invariant holds in every reachable state.
THEOREM InvCorrect == Spec => [](TypeOK /\ Inv)
<1>1. TypeOK /\ Inv /\ [Next]_vars => (TypeOK /\ Inv)'
  BY TypeStep, RowsStep, HandlersStep, SealStep, FirmStep DEF Inv
<1> QED
  BY InitOK, <1>1, PTL DEF Spec

\* Every variable has its type in every reachable state.
THEOREM TypeCorrect == Spec => []TypeOK
BY InvCorrect, PTL

\* Once the sessions of an account have been revoked with none of its logins
\* or rotations in flight, no refresh token of it is live until it logs in
\* again: logout and updateApproval are final for requests that do not
\* overlap them.
THEOREM SealCorrect == Spec => []SealedHasNoSession
<1>1. TypeOK /\ Inv => SealedHasNoSession
  BY DEF Inv, SealHolds, SealedHasNoSession, Owned, Live
<1> QED
  BY InvCorrect, <1>1, PTL

\* The invariant bounds the login of every live session from below.
LEMMA FirmCovers == TypeOK /\ Inv => UncontestedForcesLogin
<1> SUFFICES ASSUME TypeOK, Inv, NEW t \in Tokens, Live(t)
             PROVE  origin[t] >= firm[owner[t]]
  BY DEF UncontestedForcesLogin
<1>1. firm[owner[t]] <= origin[t]
  BY DEF Inv, FirmHolds, Live
<1>2. origin[t] \in 0 .. MaxVersion /\ firm[owner[t]] \in 0 .. MaxVersion
  BY DEF TypeOK, Live, Row
<1> QED
  BY <1>1, <1>2, MaxVersionAssumption

\* A rewrite whose revocation met nothing in flight leaves no live session
\* that began before it.
THEOREM UncontestedCorrect == Spec => []UncontestedForcesLogin
BY InvCorrect, FirmCovers, PTL

\* The access token a rotation returns is no older than the request.
THEOREM FreshClaimsCorrect == Spec => []RotationClaimsFresh
<1>1. TypeOK /\ Inv => RotationClaimsFresh
  <2> SUFFICES ASSUME TypeOK, Inv, NEW r \in Requests, req[r].pc = "reply"
               PROVE  /\ claim[req[r].token] >= req[r].start
                      /\ claim[req[r].token] >= origin[req[r].token]
    BY DEF RotationClaimsFresh
  <2>1. HandlerConsistent(r) /\ req[r] \in Handlers
    BY DEF Inv, TypeOK
  <2>2. req[r].token \in Tokens
    BY <2>1 DEF HandlerConsistent
  <2>3. /\ claim[req[r].token] \in 0 .. MaxVersion
        /\ origin[req[r].token] \in 0 .. MaxVersion
        /\ req[r].start \in 0 .. MaxVersion
    BY <2>1, <2>2 DEF TypeOK, Handlers
  <2> QED
    BY <2>1, <2>3, MaxVersionAssumption DEF HandlerConsistent
<1> QED
  BY InvCorrect, <1>1, PTL

\* No step admits a refresh request for a token that already has a successor.
LEMMA AdmissionStep ==
  ASSUME TypeOK, Inv, [Next]_vars, NEW r \in Requests, NEW t \in Tokens,
         req[r].pc = "idle", req'[r].pc = "rotate_account", req'[r].token = t
  PROVE  \A s \in Tokens : parent[s] # t
<1> USE DEF TypeOK, Goto, Handler, Idle
<1>1. RotateRead(r, t)
  <2>1. req' # req
    OBVIOUS
  <2>2. ASSUME NEW q \in Requests, NEW a \in Accounts,
               LoginRead(q, a) \/ Logout(q, a) \/ ApprovalCommit(q, a)
        PROVE  FALSE
    BY <2>2 DEF LoginRead, Logout, ApprovalCommit
  <2>3. ASSUME NEW q \in Requests, NEW s \in Tokens,
               LoginIssue(q, s) \/ RotateCommit(q, s)
        PROVE  FALSE
    BY <2>3 DEF LoginIssue, RotateCommit
  <2>4. ASSUME NEW q \in Requests,
               RotateAccount(q) \/ Reply(q) \/ ApprovalRevoke(q) \/ Abort(q)
        PROVE  FALSE
    BY <2>4 DEF RotateAccount, Reply, ApprovalRevoke, Abort
  <2>5. ASSUME NEW q \in Requests, NEW s \in Tokens, RotateRead(q, s)
        PROVE  q = r /\ s = t
    BY <2>5 DEF RotateRead
  <2>6. (\A s \in Tokens : ~Expire(s)) /\ (\A a \in Accounts : ~SetActive(a)) /\ Next
    BY <2>1 DEF Expire, SetActive, vars
  <2> QED
    BY <2>2, <2>3, <2>4, <2>5, <2>6 DEF Next, Arrival, HandlerStep
<1>2. t \notin revoked /\ t # None
  BY <1>1, NoneAssumption DEF RotateRead, Live
<1> QED
  BY <1>2 DEF Inv, RowsConsistent

\* A refresh request that arrives after a rotation of its token has committed
\* is refused.
THEOREM SequentialSingleUseCorrect == Spec => SequentialSingleUse
<1>1. TypeOK /\ Inv /\ [Next]_vars =>
        [\A r \in Requests : \A t \in Tokens :
           /\ req[r].pc = "idle"
           /\ req'[r].pc = "rotate_account"
           /\ req'[r].token = t
           => \A s \in Tokens : parent[s] # t]_vars
  BY AdmissionStep
<1> QED
  BY InvCorrect, <1>1, PTL DEF Spec, SequentialSingleUse

-----------------------------------------------------------------------------
(* SessionLedger, which AuthSessions implements: its initial state maps to *)
(* the ledger's, and each of its steps maps to a step of the ledger or     *)
(* changes nothing there.                                                  *)

open   == {t \in Tokens : Live(t)}
grant  == [r \in Requests |-> GrantOf(req[r])]
ticket == [r \in Requests |-> TicketOf(req[r])]

\* The initial state maps to the empty ledger.
LEMMA LedgerInit == Init => Ledger!Init
BY DEF Init, Ledger!Init, Live, Row, GrantOf, TicketOf, Idle, Handler

\* Moving a handler on changes its own entry of the two maps only, and none
\* if it holds what it held before.
LEMMA SlotStep ==
  ASSUME TypeOK, NEW r \in Requests, NEW h, Goto(r, h)
  PROVE  /\ grant[r] = GrantOf(req[r]) /\ ticket[r] = TicketOf(req[r])
         /\ grant'  = [grant EXCEPT ![r] = GrantOf(h)]
         /\ ticket' = [ticket EXCEPT ![r] = TicketOf(h)]
         /\ GrantOf(h) = GrantOf(req[r]) => grant' = grant
         /\ TicketOf(h) = TicketOf(req[r]) => ticket' = ticket
BY DEF TypeOK, Goto, grant, ticket, GrantOf, TicketOf

\* Every step is a ledger step or leaves the ledger as it is.
LEMMA LedgerStep == TypeOK /\ Inv /\ [Next]_vars => [Ledger!Next]_(Ledger!ledger)
<1> SUFFICES ASSUME TypeOK, Inv, [Next]_vars PROVE [Ledger!Next]_(Ledger!ledger)
  OBVIOUS
<1> USE NoneAssumption DEF tables, lineage, fences, Handler, Idle
<1>1. ASSUME NEW r \in Requests, NEW a \in Accounts, LoginRead(r, a)
      PROVE  Ledger!Grant(r, a)
  <2>1. open' = open
    BY <1>1 DEF LoginRead, open, Live, Row
  <2>2. grant' = [grant EXCEPT ![r] = a] /\ ticket' = ticket
    BY <1>1, SlotStep DEF LoginRead, GrantOf, TicketOf
  <2> QED
    BY <1>1, <2>1, <2>2 DEF LoginRead, Ledger!Grant, Ledger!FreeSlot, open, grant,
       ticket, GrantOf, TicketOf
<1>2. ASSUME NEW r \in Requests, NEW t \in Tokens, LoginIssue(r, t)
      PROVE  Ledger!Open(r, t)
  <2>1. open' = open \cup {t}
    BY <1>2 DEF LoginIssue, IsFresh, open, Live, Row, TypeOK, Inv, RowsConsistent, HandlerConsistent
  <2>2. grant' = [grant EXCEPT ![r] = None] /\ ticket' = ticket
    BY <1>2, SlotStep DEF LoginIssue, GrantOf, TicketOf
  <2>3. grant[r] = req[r].account /\ req[r].account # None
    BY <1>2 DEF LoginIssue, grant, GrantOf, Inv, HandlerConsistent
  <2> QED
    BY <1>2, <2>1, <2>2, <2>3 DEF LoginIssue, IsFresh, Row, Ledger!Open, open, grant, ticket
<1>3. ASSUME NEW r \in Requests, NEW t \in Tokens, RotateRead(r, t)
      PROVE  Ledger!TakeTicket(r, t)
  <2>1. open' = open /\ t \in open
    BY <1>3 DEF RotateRead, open, Live, Row
  <2>2. ticket' = [ticket EXCEPT ![r] = t] /\ grant' = grant
    BY <1>3, SlotStep DEF RotateRead, GrantOf, TicketOf
  <2> QED
    BY <1>3, <2>1, <2>2 DEF RotateRead, Ledger!TakeTicket, Ledger!FreeSlot, open, grant,
       ticket, GrantOf, TicketOf
<1>4. ASSUME NEW r \in Requests, RotateAccount(r)
      PROVE  Ledger!Forgo(r) \/ UNCHANGED Ledger!ledger
  <2>1. open' = open
    BY <1>4 DEF RotateAccount, open, Live, Row
  <2>2. ticket[r] = req[r].token /\ grant[r] = None /\ req[r].token # None
    BY <1>4 DEF RotateAccount, ticket, TicketOf, grant, GrantOf, Inv, HandlerConsistent
  <2>3. CASE req[r].account \in isActive
    <3>1. ticket' = ticket /\ grant' = grant
      BY <1>4, <2>3, SlotStep DEF RotateAccount, GrantOf, TicketOf
    <3> QED
      BY <1>4, <2>1, <3>1 DEF RotateAccount, Ledger!ledger, open, grant, ticket
  <2>4. CASE req[r].account \notin isActive
    <3>1. /\ ticket' = [ticket EXCEPT ![r] = None]
          /\ grant'  = [grant EXCEPT ![r] = None]
      BY <1>4, <2>4, SlotStep DEF RotateAccount, GrantOf, TicketOf
    <3> QED
      BY <1>4, <2>1, <2>2, <3>1 DEF RotateAccount, Ledger!Forgo, Ledger!FreeSlot, open, grant, ticket
  <2> QED
    BY <2>3, <2>4
<1>5. ASSUME NEW r \in Requests, NEW t \in Tokens, RotateCommit(r, t)
      PROVE  Ledger!Renew(r, t)
  <2>1. /\ ticket[r] = req[r].token
        /\ req[r].token \in Tokens
        /\ owner[req[r].token] = req[r].account
        /\ req[r].account # None
    BY <1>5 DEF RotateCommit, ticket, TicketOf, Inv, HandlerConsistent
  <2>2. open' = (open \ {req[r].token}) \cup {t}
    BY <1>5, <2>1 DEF RotateCommit, IsFresh, open, Live, Row, TypeOK, Inv, RowsConsistent
  <2>3. ticket' = [ticket EXCEPT ![r] = None] /\ grant' = grant
    BY <1>5, SlotStep DEF RotateCommit, GrantOf, TicketOf
  <2> QED
    BY <1>5, <2>1, <2>2, <2>3 DEF RotateCommit, IsFresh, Row, Ledger!Renew, open, grant, ticket
<1>6. ASSUME NEW r \in Requests, Reply(r)
      PROVE  UNCHANGED Ledger!ledger
  <2>1. ticket' = ticket /\ grant' = grant
    BY <1>6, SlotStep DEF Reply, GrantOf, TicketOf
  <2> QED
    BY <1>6, <2>1 DEF Reply, Ledger!ledger, open, grant, ticket, Live, Row
<1>7. ASSUME NEW r \in Requests, NEW a \in Accounts, Logout(r, a)
      PROVE  Ledger!CloseAll(a)
  BY <1>7 DEF Logout, RevokeAllForAccount, Owned, Ledger!CloseAll, Live, Row, GrantOf, TicketOf
<1>8. ASSUME NEW r \in Requests, NEW a \in Accounts, ApprovalCommit(r, a)
      PROVE  UNCHANGED Ledger!ledger
  <2>1. ticket' = ticket /\ grant' = grant
    BY <1>8, SlotStep DEF ApprovalCommit, GrantOf, TicketOf
  <2> QED
    BY <1>8, <2>1 DEF ApprovalCommit, Ledger!ledger, open, grant, ticket, Live, Row
<1>9. ASSUME NEW r \in Requests, ApprovalRevoke(r)
      PROVE  Ledger!CloseAll(req[r].account) /\ req[r].account \in Accounts
  <2>1. ticket' = ticket /\ grant' = grant
    BY <1>9, SlotStep DEF ApprovalRevoke, GrantOf, TicketOf
  <2>2. open' = {s \in open : owner[s] # req[r].account}
    BY <1>9 DEF ApprovalRevoke, RevokeAfterRewrite, RevokeAllForAccount, Owned, open, Live, Row
  <2>3. req[r].account \in Accounts
    BY <1>9 DEF ApprovalRevoke, Inv, HandlerConsistent
  <2> QED
    BY <1>9, <2>1, <2>2, <2>3 DEF ApprovalRevoke, Ledger!CloseAll, open, grant, ticket
<1>10. ASSUME NEW r \in Requests, Abort(r)
       PROVE  Ledger!Forgo(r) \/ UNCHANGED Ledger!ledger
  <2>1. /\ ticket' = [ticket EXCEPT ![r] = None]
        /\ grant'  = [grant EXCEPT ![r] = None]
        /\ open' = open
    BY <1>10, SlotStep DEF Abort, open, Live, Row, GrantOf, TicketOf
  <2>2. CASE ticket[r] = None /\ grant[r] = None
    <3>1. ticket' = ticket /\ grant' = grant
      BY <2>1, <2>2 DEF ticket, grant
    <3> QED
      BY <1>10, <2>1, <3>1 DEF Abort, Ledger!ledger, open, grant, ticket
  <2>3. CASE ~(ticket[r] = None /\ grant[r] = None)
    BY <1>10, <2>1, <2>3 DEF Abort, Ledger!Forgo, Ledger!FreeSlot, open, grant, ticket
  <2> QED
    BY <2>2, <2>3
<1>11. ASSUME NEW t \in Tokens, Expire(t)
       PROVE  Ledger!Lapse(t)
  BY <1>11 DEF Expire, Ledger!Lapse, Live, Row, GrantOf, TicketOf
<1>12. ASSUME NEW a \in Accounts, SetActive(a)
       PROVE  UNCHANGED Ledger!ledger
  BY <1>12 DEF SetActive, Ledger!ledger, Live, Row, GrantOf, TicketOf
<1>13. CASE UNCHANGED vars
  BY <1>13 DEF vars, Ledger!ledger, Live, Row, GrantOf, TicketOf
<1> QED
  BY <1>1, <1>2, <1>3, <1>4, <1>5, <1>6, <1>7, <1>8, <1>9, <1>10, <1>11, <1>12, <1>13
     DEF Next, Arrival, HandlerStep, Ledger!Next

\* The refresh-token service implements the session ledger: a session comes
\* into being only by a login or by the rotation of a token that was live when
\* the rotation checked it.
THEOREM LedgerCorrect == Spec => ImplementsLedger
BY LedgerInit, LedgerStep, InvCorrect, PTL DEF Spec, ImplementsLedger, Ledger!Spec

=============================================================================
