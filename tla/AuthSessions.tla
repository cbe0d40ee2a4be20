---------------------------- MODULE AuthSessions ----------------------------
(***************************************************************************)
(* Refresh-token sessions of the API: TokenService (issue, rotate, revoke  *)
(* all), the AuthService login, the logout handler and the approval        *)
(* transition of BusinessAccountsService, running as concurrent request    *)
(* handlers over one PostgreSQL database.                                  *)
(*                                                                         *)
(* A handler is split where the code awaits the database: between two      *)
(* statements, or two transactions, of one handler the steps of every      *)
(* other handler may happen.  A transaction, and a single UPDATE, is one   *)
(* step: at READ COMMITTED an updateMany that waits for a rotation's row   *)
(* lock does not see the row the rotation inserts, which is the same       *)
(* outcome as the updateMany coming first.                                 *)
(*                                                                         *)
(* Everything an account row holds that a login or buildJwtPayload reads   *)
(* (password hash, role, approval status, price tier) is abstracted to a   *)
(* version number that grows with every rewrite of the row.                *)
(***************************************************************************)
EXTENDS Naturals

CONSTANTS Accounts,     \* account ids
          Tokens,       \* raw refresh tokens randomBytes may produce (bound)
          Requests,     \* handlers that may be in flight at once (bound)
          MaxVersion,   \* bound on the rewrites of one account row
          None          \* null

ASSUME NoneAssumption == None \notin Accounts /\ None \notin Tokens
ASSUME MaxVersionAssumption == MaxVersion \in Nat

VARIABLES
  \* The tables
  owner,      \* RefreshToken.accountId of each token, None while it has no row
  revoked,    \* tokens whose row has revokedAt set
  expired,    \* tokens whose row has expiresAt in the past
  version,    \* version of each account row
  isActive,   \* accounts whose isActive is true
  \* The handlers
  req,        \* the handler in flight in each slot, with its locals
  \* What an observer of the system records; no action's guard reads these
  \* but answered: a client presents only tokens it was given
  answered,   \* refresh tokens a reply has carried to a client
  parent,     \* the token each token was rotated from, None after a login
  claim,      \* account version in the access token paired with each token
  origin,     \* account version read by the login each token descends from
  fence,      \* newest version of each account whose rewrite has also revoked
              \* the account's sessions
  firm,       \* the same, for rewrites whose revocation met no login or rotation
              \* of the account in flight
  sealed      \* accounts whose sessions were revoked with no login or rotation
              \* of theirs in flight, and that have not logged in since

tables  == <<owner, revoked, expired, version, isActive>>
lineage == <<parent, claim, origin>>
fences  == <<fence, firm>>
vars    == <<tables, req, answered, lineage, fences, sealed>>

-----------------------------------------------------------------------------

Row(t)  == owner[t] # None
\* rotateRefreshToken's test on the row it read, and what revokeAll looks for
Live(t) == Row(t) /\ t \notin revoked /\ t \notin expired

Owned(a)   == {t \in Tokens : owner[t] = a}
IsFresh(t) == ~Row(t)

\* A handler that is about to run step "at".
Handler(at, a, t, arrived, read) ==
  [pc |-> at, account |-> a, token |-> t, start |-> arrived, seen |-> read]

Idle == Handler("idle", None, None, 0, 0)

Handlers ==
  [pc : {"idle", "login_issue", "rotate_account", "rotate_commit", "reply",
         "approval_revoke"},
   account : Accounts \cup {None},
   token   : Tokens \cup {None},  \* the presented token; in "reply" the new one
   start   : 0 .. MaxVersion,     \* account version when the request arrived
   seen    : 0 .. MaxVersion]     \* account version it has read, or written

\* A request past its checks that will still insert a refresh token of a
Minting(r, a) == /\ req[r].account = a
                 /\ req[r].pc \in {"login_issue", "rotate_account", "rotate_commit"}
Contested(a)  == \E r \in Requests : Minting(r, a)

Goto(r, h) == req' = [req EXCEPT ![r] = h]

-----------------------------------------------------------------------------
(* AuthService.login and the LocalStrategy before it                       *)

\* validateCredentials reads the account and compares the password with the
\* hash it read; a wrong password or an inactive account ends the request.
LoginRead(r, a) ==
  /\ req[r].pc = "idle"
  /\ a \in isActive
  /\ Goto(r, Handler("login_issue", a, None, version[a], version[a]))
  /\ sealed' = sealed \ {a}
  /\ UNCHANGED <<tables, answered, lineage, fences>>

\* login signs the access token from the account object read above and
\* issueRefreshToken inserts a row.
LoginIssue(r, t) ==
  /\ req[r].pc = "login_issue"
  /\ IsFresh(t)
  /\ owner'  = [owner EXCEPT ![t] = req[r].account]
  /\ claim'  = [claim EXCEPT ![t] = req[r].seen]
  /\ origin' = [origin EXCEPT ![t] = req[r].seen]
  /\ Goto(r, Handler("reply", req[r].account, t, req[r].start, req[r].seen))
  /\ UNCHANGED <<revoked, expired, version, isActive, answered, parent,
                 fences, sealed>>

-----------------------------------------------------------------------------
(* TokenService.rotateRefreshToken                                         *)

\* Mutant of RotateRead: the test of revokedAt is dropped.
RotateReadRevoked(r, t) ==
  /\ req[r].pc = "idle"
  /\ t \in answered \ expired
  /\ Goto(r, Handler("rotate_account", owner[t], t, version[owner[t]], 0))
  /\ UNCHANGED <<tables, answered, lineage, fences, sealed>>

\* The row of the presented token is read and checked; a missing, revoked or
\* expired row is a 401 and the request ends.
RotateRead(r, t) ==
  /\ req[r].pc = "idle"
  /\ t \in answered
  /\ Live(t)
  /\ Goto(r, Handler("rotate_account", owner[t], t, version[owner[t]], 0))
  /\ UNCHANGED <<tables, answered, lineage, fences, sealed>>

\* Mutant of RotateAccount: the claims are those of the session being renewed.
RotateAccountStale(r) ==
  /\ req[r].pc = "rotate_account"
  /\ IF req[r].account \in isActive
     THEN Goto(r, Handler("rotate_commit", req[r].account, req[r].token,
                          req[r].start, claim[req[r].token]))
     ELSE Goto(r, Idle)
  /\ UNCHANGED <<tables, answered, lineage, fences, sealed>>

\* The account is read afresh; an inactive one is a 401.
RotateAccount(r) ==
  /\ req[r].pc = "rotate_account"
  /\ IF req[r].account \in isActive
     THEN Goto(r, Handler("rotate_commit", req[r].account, req[r].token,
                          req[r].start, version[req[r].account]))
     ELSE Goto(r, Idle)
  /\ UNCHANGED <<tables, answered, lineage, fences, sealed>>

\* One transaction revokes the presented row, by id and unconditionally, and
\* inserts its successor.
RotateCommit(r, t) ==
  /\ req[r].pc = "rotate_commit"
  /\ IsFresh(t)
  /\ revoked' = revoked \cup {req[r].token}
  /\ owner'   = [owner EXCEPT ![t] = req[r].account]
  /\ parent'  = [parent EXCEPT ![t] = req[r].token]
  /\ claim'   = [claim EXCEPT ![t] = req[r].seen]
  /\ origin'  = [origin EXCEPT ![t] = origin[req[r].token]]
  /\ Goto(r, Handler("reply", req[r].account, t, req[r].start, req[r].seen))
  /\ UNCHANGED <<expired, version, isActive, answered, fences, sealed>>

\* Mutant of Reply: the account id is sent in the place of the token.
ReplyAccount(r) ==
  /\ req[r].pc = "reply"
  /\ answered' = answered \cup {req[r].account}
  /\ Goto(r, Idle)
  /\ UNCHANGED <<tables, lineage, fences, sealed>>

\* The pair reaches the client.
Reply(r) ==
  /\ req[r].pc = "reply"
  /\ answered' = answered \cup {req[r].token}
  /\ Goto(r, Idle)
  /\ UNCHANGED <<tables, lineage, fences, sealed>>

-----------------------------------------------------------------------------
(* TokenService.revokeAllForAccount and its callers                        *)

\* Mutant of RevokeAllForAccount: one row is updated, as by update or findFirst.
RevokeOneForAccount(a) ==
  /\ \/ Owned(a) = {} /\ UNCHANGED revoked
     \/ \E t \in Owned(a) : revoked' = revoked \cup {t}
  /\ sealed'  = IF Contested(a) THEN sealed ELSE sealed \cup {a}

\* The updateMany, with what the observer notes of it.
RevokeAllForAccount(a) ==
  /\ revoked' = revoked \cup Owned(a)
  /\ sealed'  = IF Contested(a) THEN sealed ELSE sealed \cup {a}

\* The same, after a transaction that made v the version of the account row.
RevokeAfterRewrite(a, v) ==
  /\ RevokeAllForAccount(a)
  /\ fence' = [fence EXCEPT ![a] = IF @ < v THEN v ELSE @]
  /\ firm'  = [firm EXCEPT ![a] = IF @ < v /\ ~Contested(a) THEN v ELSE @]

\* AuthController.logout: any holder of an access token, which is not looked
\* up anywhere, so an account that ever had a token may call it.
Logout(r, a) ==
  /\ req[r].pc = "idle"
  /\ \E t \in answered : owner[t] = a
  /\ RevokeAllForAccount(a)
  /\ UNCHANGED <<owner, expired, version, isActive, req, answered, lineage, fences>>

\* BusinessAccountsService.updateApproval: the transaction that rewrites
\* approvalStatus and priceTierId ...
ApprovalCommit(r, a) ==
  /\ req[r].pc = "idle"
  /\ version[a] < MaxVersion
  /\ version' = [version EXCEPT ![a] = @ + 1]
  /\ Goto(r, Handler("approval_revoke", a, None, version[a], version[a] + 1))
  /\ UNCHANGED <<owner, revoked, expired, isActive, answered, lineage, fences, sealed>>

\* ... and, after it and outside it, the revocation.
ApprovalRevoke(r) ==
  /\ req[r].pc = "approval_revoke"
  /\ RevokeAfterRewrite(req[r].account, req[r].seen)
  /\ Goto(r, Idle)
  /\ UNCHANGED <<owner, expired, version, isActive, answered, lineage>>

-----------------------------------------------------------------------------
(* The environment                                                         *)

\* The process stops, the connection drops or a statement fails: what is
\* committed stays, the rest of the handler is lost.
Abort(r) ==
  /\ req[r].pc # "idle"
  /\ Goto(r, Idle)
  /\ UNCHANGED <<tables, answered, lineage, fences, sealed>>

\* Time passes a row's expiresAt.
Expire(t) ==
  /\ Row(t)
  /\ t \notin expired
  /\ expired' = expired \cup {t}
  /\ UNCHANGED <<owner, revoked, version, isActive, req, answered, lineage,
                 fences, sealed>>

\* isActive is read by the code and written only by hand in the database.
SetActive(a) ==
  /\ isActive' \in {isActive \cup {a}, isActive \ {a}}
  /\ UNCHANGED <<owner, revoked, expired, version, req, answered, lineage,
                 fences, sealed>>

-----------------------------------------------------------------------------

Init ==
  /\ owner    = [t \in Tokens |-> None]
  /\ revoked  = {}
  /\ expired  = {}
  /\ version  = [a \in Accounts |-> 0]
  /\ isActive = Accounts
  /\ req      = [r \in Requests |-> Idle]
  /\ answered = {}
  /\ parent   = [t \in Tokens |-> None]
  /\ claim    = [t \in Tokens |-> 0]
  /\ origin   = [t \in Tokens |-> 0]
  /\ fence    = [a \in Accounts |-> 0]
  /\ firm     = [a \in Accounts |-> 0]
  /\ sealed   = {}

HandlerStep(r) ==
  \/ \E t \in Tokens : LoginIssue(r, t) \/ RotateCommit(r, t)
  \/ RotateAccount(r)
  \/ Reply(r)
  \/ ApprovalRevoke(r)

Arrival(r) ==
  \/ \E a \in Accounts : LoginRead(r, a) \/ Logout(r, a) \/ ApprovalCommit(r, a)
  \/ \E t \in Tokens : RotateRead(r, t)

Next ==
  \/ \E r \in Requests : Arrival(r) \/ HandlerStep(r) \/ Abort(r)
  \/ \E t \in Tokens : Expire(t)
  \/ \E a \in Accounts : SetActive(a)

Spec == Init /\ [][Next]_vars

-----------------------------------------------------------------------------
(* Properties                                                              *)

\* Every variable has its type.
TypeOK ==
  /\ owner    \in [Tokens -> Accounts \cup {None}]
  /\ revoked  \subseteq Tokens
  /\ expired  \subseteq Tokens
  /\ version  \in [Accounts -> 0 .. MaxVersion]
  /\ isActive \subseteq Accounts
  /\ req      \in [Requests -> Handlers]
  /\ answered \subseteq Tokens
  /\ parent   \in [Tokens -> Tokens \cup {None}]
  /\ claim    \in [Tokens -> 0 .. MaxVersion]
  /\ origin   \in [Tokens -> 0 .. MaxVersion]
  /\ fence    \in [Accounts -> 0 .. MaxVersion]
  /\ firm     \in [Accounts -> 0 .. MaxVersion]
  /\ sealed   \subseteq Accounts

\* A revocation of all sessions of an account that runs while no login or
\* rotation of the account is in flight is final: until the account logs in
\* again none of its refresh tokens is live, whatever requests arrive.  This
\* is what logout and updateApproval can count on revokeAllForAccount for.
SealedHasNoSession ==
  \A a \in sealed : \A t \in Owned(a) : ~Live(t)

\* A rewrite of an account whose revocation meets no login or rotation of the
\* account in flight forces a fresh login for good: every live refresh token
\* descends from a login that read the account as rewritten, or later.  It is
\* the part of updateApproval's comment that the code delivers.
UncontestedForcesLogin ==
  \A t \in Tokens : Live(t) => origin[t] >= firm[owner[t]]

\* The access token a rotation hands out carries the account as it was at
\* some moment after the request arrived: a role or approval change committed
\* before a refresh shows in that refresh (rotateRefreshToken's comment).
RotationClaimsFresh ==
  \A r \in Requests :
    req[r].pc = "reply" => /\ claim[req[r].token] >= req[r].start
                           /\ claim[req[r].token] >= origin[req[r].token]

\* A refresh request that arrives after a rotation of the same token has
\* committed is refused: rotation is single-use for requests that do not
\* overlap.
SequentialSingleUse ==
  [][\A r \in Requests : \A t \in Tokens :
       /\ req[r].pc = "idle"
       /\ req'[r].pc = "rotate_account"
       /\ req'[r].token = t
       => \A s \in Tokens : parent[s] # t]_vars

\* The rows and the handlers fit together: what the inductive proof of the
\* properties above needs to know of every reachable state.
RowsConsistent ==
  /\ \A t \in Tokens : ~Row(t) => t \notin revoked \cup expired \cup answered
  /\ \A t \in Tokens : Row(t) => origin[t] <= version[owner[t]]
  /\ \A t \in Tokens : parent[t] # None => Row(t) /\ parent[t] \in revoked

HandlerConsistent(r) ==
  /\ req[r].pc \in {"login_issue", "rotate_account", "rotate_commit", "approval_revoke"} =>
       req[r].account \in Accounts
  /\ req[r].pc = "login_issue" =>
       req[r].start <= req[r].seen /\ req[r].seen <= version[req[r].account]
  /\ req[r].pc \in {"rotate_account", "rotate_commit"} =>
       req[r].token \in Tokens /\ owner[req[r].token] = req[r].account
  /\ req[r].pc = "rotate_account" => req[r].start <= version[req[r].account]
  /\ req[r].pc = "rotate_commit" =>
       req[r].start <= req[r].seen /\ origin[req[r].token] <= req[r].seen
  /\ req[r].pc = "reply" =>
       /\ req[r].token \in Tokens
       /\ Row(req[r].token)
       /\ req[r].start <= claim[req[r].token]
       /\ origin[req[r].token] <= claim[req[r].token]

SealHolds ==
  \A a \in sealed : /\ \A r \in Requests : ~Minting(r, a)
                   /\ \A t \in Tokens : owner[t] = a => t \in revoked \cup expired

\* What is live, or may still be minted, is no older than the firm version.
FirmHolds ==
  /\ \A a \in Accounts : firm[a] <= version[a]
  /\ \A t \in Tokens :
       Row(t) /\ t \notin revoked \cup expired => firm[owner[t]] <= origin[t]
  /\ \A r \in Requests :
       /\ req[r].pc = "login_issue" => firm[req[r].account] <= req[r].seen
       /\ req[r].pc \in {"rotate_account", "rotate_commit"} =>
            firm[req[r].account] <= origin[req[r].token]
       /\ req[r].pc = "approval_revoke" => req[r].seen <= version[req[r].account]

Inv == /\ RowsConsistent
       /\ \A r \in Requests : HandlerConsistent(r)
       /\ SealHolds
       /\ FirmHolds

\* "Single-use rotation": a refresh token is rotated at most once.
SingleUseRotation ==
  \A s, t \in Tokens : parent[s] # None /\ parent[s] = parent[t] => s = t

\* updateApproval forces a fresh login: once none is at work on an account, no
\* live refresh token descends from a login that read the account before its
\* last transition, whatever overlapped the revocation and whether or not the
\* process lived to make it.
TransitionForcesLogin ==
  \A t \in Tokens :
     /\ Live(t)
     /\ \A r \in Requests :
          req[r].pc = "approval_revoke" => req[r].account # owner[t]
     => origin[t] >= version[owner[t]]

=============================================================================
