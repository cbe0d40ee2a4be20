--------------------------- MODULE PasswordReset ---------------------------
(***************************************************************************)
(* PasswordResetService (request and reset) working beside the sessions of *)
(* AuthSessions: the same accounts, the same refresh-token table and the   *)
(* same revokeAllForAccount.  A password change is a rewrite of the account *)
(* row, so it makes a new version of it.                                   *)
(***************************************************************************)
EXTENDS AuthSessions

CONSTANTS Links,    \* raw reset tokens randomBytes may produce (bound)
          Jobs      \* request() and reset() handlers in flight at once (bound)

ASSUME NoneIsNoLink == None \notin Links

VARIABLES
  linkOwner,  \* PasswordResetToken.accountId of each link, None without a row
  used,       \* links whose row has usedAt set
  lapsed,     \* links whose row has expiresAt in the past
  job,        \* the handler in flight in each slot
  \* Observed only, but for mailed: a link is presented only once it was sent
  mailed,     \* links that were mailed
  supersedes, \* for each link, the links its request() found and superseded
  redeemed    \* links whose reset has changed the password

links    == <<linkOwner, used, lapsed, mailed, supersedes, redeemed>>
recovery == <<links, job>>

-----------------------------------------------------------------------------

LinkRow(l)  == linkOwner[l] # None
LinkLive(l) == LinkRow(l) /\ l \notin used /\ l \notin lapsed
LinksOf(a)  == {l \in Links : linkOwner[l] = a}

\* A handler about to run step "at": for account a, with link l; it found the
\* links in "found", or wrote version "wrote" of the account.
Job(at, a, l, found, wrote) ==
  [pc |-> at, account |-> a, link |-> l, found |-> found, wrote |-> wrote]

IdleJob == Job("idle", None, None, {}, 0)

JobStates ==
  [pc : {"idle", "supersede", "mint", "mail", "reset_commit", "reset_revoke"},
   account : Accounts \cup {None},
   link    : Links \cup {None},
   found   : SUBSET Links,
   wrote   : 0 .. MaxVersion]

GotoJob(j, h) == job' = [job EXCEPT ![j] = h]

-----------------------------------------------------------------------------
(* request(email)                                                          *)

\* The account is looked up; an unknown or inactive one ends the request.
RequestFind(j, a) ==
  /\ job[j].pc = "idle"
  /\ a \in isActive
  /\ GotoJob(j, Job("supersede", a, None, {}, 0))
  /\ UNCHANGED <<vars, links>>

\* Mutant of RequestSupersede: the test of expiresAt is turned round.
RequestSupersedeLapsed(j) ==
  /\ job[j].pc = "supersede"
  /\ used' = used \cup (LinksOf(job[j].account) \cap lapsed)
  /\ GotoJob(j, Job("mint", job[j].account, None, LinksOf(job[j].account), 0))
  /\ UNCHANGED <<vars, linkOwner, lapsed, mailed, supersedes, redeemed>>

\* Every unused, unexpired link of the account is marked used.
RequestSupersede(j) ==
  /\ job[j].pc = "supersede"
  /\ used' = used \cup (LinksOf(job[j].account) \ lapsed)
  /\ GotoJob(j, Job("mint", job[j].account, None, LinksOf(job[j].account), 0))
  /\ UNCHANGED <<vars, linkOwner, lapsed, mailed, supersedes, redeemed>>

\* A new link is stored ...
RequestMint(j, l) ==
  /\ job[j].pc = "mint"
  /\ ~LinkRow(l)
  /\ linkOwner'  = [linkOwner EXCEPT ![l] = job[j].account]
  /\ supersedes' = [supersedes EXCEPT ![l] = job[j].found]
  /\ GotoJob(j, Job("mail", job[j].account, l, {}, 0))
  /\ UNCHANGED <<vars, used, lapsed, mailed, redeemed>>

\* Mutant of RequestMail: the mail carries the account id.
RequestMailAccount(j) ==
  /\ job[j].pc = "mail"
  /\ mailed' = mailed \cup {job[j].account}
  /\ GotoJob(j, IdleJob)
  /\ UNCHANGED <<vars, linkOwner, used, lapsed, supersedes, redeemed>>

\* ... and mailed.
RequestMail(j) ==
  /\ job[j].pc = "mail"
  /\ mailed' = mailed \cup {job[j].link}
  /\ GotoJob(j, IdleJob)
  /\ UNCHANGED <<vars, linkOwner, used, lapsed, supersedes, redeemed>>

-----------------------------------------------------------------------------
(* reset(rawToken, newPassword)                                            *)

\* Mutant of ResetCheck: the test of usedAt is dropped.
ResetCheckUsed(j, l) ==
  /\ job[j].pc = "idle"
  /\ l \in mailed \ lapsed
  /\ GotoJob(j, Job("reset_commit", linkOwner[l], l, {}, 0))
  /\ UNCHANGED <<vars, links>>

\* The link's row is read and checked; then bcrypt hashes the new password.
ResetCheck(j, l) ==
  /\ job[j].pc = "idle"
  /\ l \in mailed
  /\ LinkLive(l)
  /\ GotoJob(j, Job("reset_commit", linkOwner[l], l, {}, 0))
  /\ UNCHANGED <<vars, links>>

\* One transaction marks the link used, by id and unconditionally, and
\* rewrites the account's passwordHash.
ResetCommit(j) ==
  LET a == job[j].account IN
  /\ job[j].pc = "reset_commit"
  /\ version[a] < MaxVersion
  /\ used'     = used \cup {job[j].link}
  /\ redeemed' = redeemed \cup {job[j].link}
  /\ version'  = [version EXCEPT ![a] = @ + 1]
  /\ GotoJob(j, Job("reset_revoke", a, job[j].link, {}, version[a] + 1))
  /\ UNCHANGED <<owner, revoked, expired, isActive, req, answered, lineage,
                 fences, sealed>>
  /\ UNCHANGED <<linkOwner, lapsed, mailed, supersedes>>

\* Mutant of ResetRevoke: the id passed is the link's, which owns no session.
ResetRevokeNobody(j) ==
  LET a == job[j].account IN
  /\ job[j].pc = "reset_revoke"
  /\ UNCHANGED revoked
  /\ sealed' = IF Contested(a) THEN sealed ELSE sealed \cup {a}
  /\ fence' = [fence EXCEPT ![a] = IF @ < job[j].wrote THEN job[j].wrote ELSE @]
  /\ firm'  = [firm EXCEPT ![a] = IF @ < job[j].wrote /\ ~Contested(a)
                                  THEN job[j].wrote ELSE @]
  /\ GotoJob(j, IdleJob)
  /\ UNCHANGED <<owner, expired, version, isActive, req, answered, lineage>>
  /\ UNCHANGED links

\* After it and outside it, the sessions of the account are revoked.
ResetRevoke(j) ==
  LET a == job[j].account IN
  /\ job[j].pc = "reset_revoke"
  /\ RevokeAfterRewrite(a, job[j].wrote)
  /\ GotoJob(j, IdleJob)
  /\ UNCHANGED <<owner, expired, version, isActive, req, answered, lineage>>
  /\ UNCHANGED links

-----------------------------------------------------------------------------
(* The environment                                                         *)

\* The process stops, a statement fails or the mailer throws.
AbortJob(j) ==
  /\ job[j].pc # "idle"
  /\ GotoJob(j, IdleJob)
  /\ UNCHANGED <<vars, links>>

\* Time passes a link's expiresAt.
LapseLink(l) ==
  /\ LinkRow(l)
  /\ l \notin lapsed
  /\ lapsed' = lapsed \cup {l}
  /\ UNCHANGED <<vars, job, linkOwner, used, mailed, supersedes, redeemed>>

-----------------------------------------------------------------------------

RecoveryInit ==
  /\ Init
  /\ linkOwner  = [l \in Links |-> None]
  /\ used       = {}
  /\ lapsed     = {}
  /\ job        = [j \in Jobs |-> IdleJob]
  /\ mailed     = {}
  /\ supersedes = [l \in Links |-> {}]
  /\ redeemed   = {}

RecoveryStep(j) ==
  \/ \E a \in Accounts : RequestFind(j, a)
  \/ RequestSupersede(j)
  \/ \E l \in Links : RequestMint(j, l)
  \/ RequestMail(j)
  \/ \E l \in Links : ResetCheck(j, l)
  \/ ResetCommit(j)
  \/ ResetRevoke(j)
  \/ AbortJob(j)

SessionStep == Next /\ UNCHANGED recovery

RecoveryNext ==
  \/ SessionStep
  \/ \E j \in Jobs : RecoveryStep(j)
  \/ \E l \in Links : LapseLink(l)

RecoverySpec == RecoveryInit /\ [][RecoveryNext]_<<vars, recovery>>

-----------------------------------------------------------------------------
(* Properties                                                              *)

\* Every variable of this module has its type.
RecoveryTypeOK ==
  /\ linkOwner  \in [Links -> Accounts \cup {None}]
  /\ used       \subseteq Links
  /\ lapsed     \subseteq Links
  /\ job        \in [Jobs -> JobStates]
  /\ mailed     \subseteq Links
  /\ supersedes \in [Links -> SUBSET Links]
  /\ redeemed   \subseteq Links

\* "A second request supersedes the first": once a link exists, every link of
\* the account that its request() found is dead, and stays dead.
NewestLinkSupersedes ==
  \A l \in Links : supersedes[l] \subseteq used \cup lapsed

\* What the proofs of this module need to know of every reachable state,
\* beside the Inv of the sessions.
JobConsistent(j) ==
  /\ job[j].pc # "idle" => job[j].account \in Accounts
  /\ job[j].pc = "mint" => job[j].found \subseteq used \cup lapsed
  /\ job[j].pc \in {"mail", "reset_commit"} => job[j].link \in Links
  /\ job[j].pc = "reset_revoke" => job[j].wrote <= version[job[j].account]

RecoveryInv == /\ redeemed \subseteq used
               /\ NewestLinkSupersedes
               /\ \A j \in Jobs : JobConsistent(j)

\* A link that has changed the password is refused to every later reset
\* request, whatever was requested, aborted or reset in between.
SequentialSingleLink ==
  [][\A j \in Jobs : \A l \in Links :
       /\ job[j].pc = "idle"
       /\ job'[j].pc = "reset_commit"
       /\ job'[j].link = l
       => l \notin redeemed]_<<vars, recovery>>

\* "Single-use", and "a second request supersedes the first": a link changes the
\* password once, and when it does no other link of the account is live.
SingleUseLink ==
  [][\A j \in Jobs :
       ResetCommit(j)
         => /\ job[j].link \notin redeemed
            /\ \A l \in LinksOf(job[j].account) \ {job[j].link} : ~LinkLive(l)
    ]_<<vars, recovery>>

=============================================================================
