------------------------ MODULE PasswordReset_proofs ------------------------
(***************************************************************************)
(* Proofs about PasswordReset, for any sets of accounts, tokens, links and *)
(* handlers.  The steps of the sessions are covered by the lemmas of       *)
(* AuthSessions_proofs; what is new is that the steps of a reset keep the  *)
(* sessions' invariant, and every step keeps the links'.                   *)
(***************************************************************************)
EXTENDS PasswordReset, AuthSessions_proofs

\* The initial state.
LEMMA RecoveryInitOK == RecoveryInit => TypeOK /\ Inv /\ RecoveryTypeOK /\ RecoveryInv
BY InitOK, NoneIsNoLink, MaxVersionAssumption
   DEF RecoveryInit, RecoveryTypeOK, RecoveryInv, NewestLinkSupersedes, JobConsistent,
       IdleJob, Job, JobStates

\* The transaction of a reset keeps the sessions' invariant.
LEMMA ResetCommitKeeps ==
  ASSUME TypeOK, Inv, RecoveryTypeOK, RecoveryInv, NEW j \in Jobs, ResetCommit(j)
  PROVE  TypeOK' /\ Inv'
<1> USE NoneAssumption, MaxVersionAssumption DEF ResetCommit, lineage, fences
<1>1. job[j].account \in Accounts
  BY DEF RecoveryInv, JobConsistent
<1>2. TypeOK'
  BY <1>1 DEF TypeOK
<1>3. RowsConsistent'
  BY <1>1 DEF TypeOK, Inv, RowsConsistent, Row
<1>4. (\A r \in Requests : HandlerConsistent(r))'
  BY <1>1 DEF TypeOK, Handlers, Inv, HandlerConsistent, Row
<1>5. SealHolds'
  BY DEF Inv, SealHolds, Minting
<1>6. FirmHolds'
  BY <1>1 DEF TypeOK, Handlers, Inv, FirmHolds, HandlerConsistent, Row
<1> QED
  BY <1>2, <1>3, <1>4, <1>5, <1>6 DEF Inv

\* The revocation after it keeps it too.
LEMMA ResetRevokeKeeps ==
  ASSUME TypeOK, Inv, RecoveryTypeOK, RecoveryInv, NEW j \in Jobs, ResetRevoke(j)
  PROVE  TypeOK' /\ Inv'
<1> USE NoneAssumption, MaxVersionAssumption
    DEF ResetRevoke, RevokeAfterRewrite, RevokeAllForAccount, Owned, lineage
<1>1. /\ job[j].account \in Accounts
      /\ job[j].wrote \in 0 .. MaxVersion
      /\ job[j].wrote <= version[job[j].account]
  BY DEF RecoveryInv, JobConsistent, RecoveryTypeOK, JobStates
<1>2. TypeOK'
  BY <1>1 DEF TypeOK
<1>3. RowsConsistent'
  BY <1>1 DEF TypeOK, Inv, RowsConsistent, Row
<1>4. (\A r \in Requests : HandlerConsistent(r))'
  BY <1>1 DEF TypeOK, Handlers, Inv, HandlerConsistent, Row
<1>5. SealHolds'
  BY <1>1 DEF TypeOK, Inv, SealHolds, Minting, Contested
<1>6. FirmHolds'
  BY <1>1 DEF TypeOK, Handlers, Inv, FirmHolds, HandlerConsistent, Minting, Contested, Row
<1> QED
  BY <1>2, <1>3, <1>4, <1>5, <1>6 DEF Inv

\* Every step of the composed system keeps the sessions' invariant.
LEMMA SessionsKept ==
  TypeOK /\ Inv /\ RecoveryTypeOK /\ RecoveryInv /\ [RecoveryNext]_<<vars, recovery>>
    => TypeOK' /\ Inv'
<1> SUFFICES ASSUME TypeOK, Inv, RecoveryTypeOK, RecoveryInv, [RecoveryNext]_<<vars, recovery>>
             PROVE  TypeOK' /\ Inv'
  OBVIOUS
<1>1. CASE [Next]_vars
  BY <1>1, TypeStep, RowsStep, HandlersStep, SealStep, FirmStep DEF Inv
<1>2. ASSUME NEW j \in Jobs, ResetCommit(j) \/ ResetRevoke(j) PROVE TypeOK' /\ Inv'
  BY <1>2, ResetCommitKeeps, ResetRevokeKeeps
<1>3. [Next]_vars \/ \E j \in Jobs : ResetCommit(j) \/ ResetRevoke(j)
  BY DEF RecoveryNext, SessionStep, RecoveryStep, RequestFind, RequestSupersede, RequestMint,
     RequestMail, ResetCheck, AbortJob, LapseLink
<1> QED
  BY <1>1, <1>2, <1>3

\* Every step keeps the type of the recovery variables.
LEMMA RecoveryTypeStep ==
  TypeOK /\ Inv /\ RecoveryTypeOK /\ RecoveryInv /\ [RecoveryNext]_<<vars, recovery>>
    => RecoveryTypeOK'
<1> SUFFICES ASSUME TypeOK, Inv, RecoveryTypeOK, RecoveryInv, [RecoveryNext]_<<vars, recovery>>
             PROVE  RecoveryTypeOK'
  OBVIOUS
<1> USE NoneIsNoLink, NoneAssumption, MaxVersionAssumption
    DEF TypeOK, RecoveryTypeOK, RecoveryInv, JobConsistent, JobStates, Job, IdleJob, GotoJob, links
<1>1. ASSUME NEW j \in Jobs, NEW a \in Accounts, RequestFind(j, a) PROVE RecoveryTypeOK'
  BY <1>1 DEF RequestFind
<1>2. ASSUME NEW j \in Jobs, RequestSupersede(j) PROVE RecoveryTypeOK'
  BY <1>2 DEF RequestSupersede, LinksOf
<1>3. ASSUME NEW j \in Jobs, NEW l \in Links, RequestMint(j, l) PROVE RecoveryTypeOK'
  BY <1>3 DEF RequestMint
<1>4. ASSUME NEW j \in Jobs, RequestMail(j) PROVE RecoveryTypeOK'
  BY <1>4 DEF RequestMail
<1>5. ASSUME NEW j \in Jobs, NEW l \in Links, ResetCheck(j, l) PROVE RecoveryTypeOK'
  BY <1>5 DEF ResetCheck, LinkLive, LinkRow
<1>6. ASSUME NEW j \in Jobs, ResetCommit(j) PROVE RecoveryTypeOK'
  BY <1>6 DEF ResetCommit
<1>7. ASSUME NEW j \in Jobs, ResetRevoke(j) PROVE RecoveryTypeOK'
  BY <1>7 DEF ResetRevoke, RevokeAfterRewrite, RevokeAllForAccount, Owned
<1>8. ASSUME NEW j \in Jobs, AbortJob(j) PROVE RecoveryTypeOK'
  BY <1>8 DEF AbortJob
<1>9. ASSUME NEW l \in Links, LapseLink(l) PROVE RecoveryTypeOK'
  BY <1>9 DEF LapseLink
<1>10. CASE SessionStep
  BY <1>10 DEF SessionStep, recovery
<1>11. CASE UNCHANGED <<vars, recovery>>
  BY <1>11 DEF recovery
<1> QED
  BY <1>1, <1>2, <1>3, <1>4, <1>5, <1>6, <1>7, <1>8, <1>9, <1>10, <1>11
     DEF RecoveryNext, RecoveryStep

\* No step of the sessions takes an account back to an older version.
LEMMA VersionGrows == TypeOK /\ [Next]_vars => \A a \in Accounts : version[a] <= version'[a]
<1> SUFFICES ASSUME TypeOK, [Next]_vars, NEW a \in Accounts PROVE version[a] <= version'[a]
  OBVIOUS
<1>1. version[a] \in Nat
  BY MaxVersionAssumption DEF TypeOK
<1>2. ASSUME NEW r \in Requests, NEW b \in Accounts, ApprovalCommit(r, b)
      PROVE  version[a] <= version'[a]
  BY <1>1, <1>2 DEF ApprovalCommit, TypeOK
<1>3. version' = version \/ \E r \in Requests, b \in Accounts : ApprovalCommit(r, b)
  BY DEF Next, Arrival, HandlerStep, LoginRead, LoginIssue, RotateRead, RotateAccount,
     RotateCommit, Reply, Logout, ApprovalRevoke, Abort, Expire, SetActive, tables, vars
<1> QED
  BY <1>1, <1>2, <1>3

\* Every step keeps the links consistent.
LEMMA RecoveryInvStep ==
  TypeOK /\ Inv /\ RecoveryTypeOK /\ RecoveryInv /\ [RecoveryNext]_<<vars, recovery>>
    => RecoveryInv'
<1> SUFFICES ASSUME TypeOK, Inv, RecoveryTypeOK, RecoveryInv, [RecoveryNext]_<<vars, recovery>>
             PROVE  RecoveryInv'
  OBVIOUS
<1>0. Next => \A a \in Accounts : /\ version[a] <= version'[a]
                                  /\ version'[a] \in 0 .. MaxVersion
  BY VersionGrows, TypeStep DEF TypeOK
<1> USE NoneIsNoLink, NoneAssumption, MaxVersionAssumption
    DEF TypeOK, RecoveryTypeOK, RecoveryInv, NewestLinkSupersedes, JobConsistent, JobStates, Job, IdleJob, GotoJob, links, vars, tables
<1>1. ASSUME NEW j \in Jobs, NEW a \in Accounts, RequestFind(j, a) PROVE RecoveryInv'
  BY <1>1 DEF RequestFind
<1>2. ASSUME NEW j \in Jobs, RequestSupersede(j) PROVE RecoveryInv'
  BY <1>2 DEF RequestSupersede, LinksOf
<1>3. ASSUME NEW j \in Jobs, NEW l \in Links, RequestMint(j, l) PROVE RecoveryInv'
  BY <1>3 DEF RequestMint
<1>4. ASSUME NEW j \in Jobs, RequestMail(j) PROVE RecoveryInv'
  BY <1>4 DEF RequestMail
<1>5. ASSUME NEW j \in Jobs, NEW l \in Links, ResetCheck(j, l) PROVE RecoveryInv'
  BY <1>5 DEF ResetCheck, LinkLive, LinkRow
<1>6. ASSUME NEW j \in Jobs, ResetCommit(j) PROVE RecoveryInv'
  BY <1>6 DEF ResetCommit
<1>7. ASSUME NEW j \in Jobs, ResetRevoke(j) PROVE RecoveryInv'
  BY <1>7 DEF ResetRevoke, RevokeAfterRewrite, RevokeAllForAccount, Owned
<1>8. ASSUME NEW j \in Jobs, AbortJob(j) PROVE RecoveryInv'
  BY <1>8 DEF AbortJob
<1>9. ASSUME NEW l \in Links, LapseLink(l) PROVE RecoveryInv'
  BY <1>9 DEF LapseLink
<1>10. CASE SessionStep
  <2>1. ASSUME NEW j \in Jobs, job[j].pc = "reset_revoke"
        PROVE  job[j].wrote <= version'[job[j].account]
    <3>1. /\ job[j].account \in Accounts
          /\ job[j].wrote \in 0 .. MaxVersion
          /\ job[j].wrote <= version[job[j].account]
      BY <2>1
    <3>2. /\ version[job[j].account] <= version'[job[j].account]
          /\ version[job[j].account] \in 0 .. MaxVersion
          /\ version'[job[j].account] \in 0 .. MaxVersion
      BY <1>0, <1>10, <3>1 DEF SessionStep
    <3> QED
      BY <3>1, <3>2
  <2> QED
    BY <1>10, <2>1 DEF SessionStep, recovery
<1>11. CASE UNCHANGED <<vars, recovery>>
  BY <1>11 DEF recovery
<1> QED
  BY <1>1, <1>2, <1>3, <1>4, <1>5, <1>6, <1>7, <1>8, <1>9, <1>10, <1>11
     DEF RecoveryNext, RecoveryStep

\* The inductive invariant of the composed system.
THEOREM RecoveryInvCorrect ==
  RecoverySpec => [](TypeOK /\ Inv /\ RecoveryTypeOK /\ RecoveryInv)
BY RecoveryInitOK, SessionsKept, RecoveryTypeStep, RecoveryInvStep, PTL DEF RecoverySpec

\* Every variable of the composed system has its type.
THEOREM RecoveryTypeCorrect == RecoverySpec => []RecoveryTypeOK
BY RecoveryInvCorrect, PTL

\* Whatever a reset link supersedes stays dead.
THEOREM SupersedeCorrect == RecoverySpec => []NewestLinkSupersedes
<1>1. RecoveryInv => NewestLinkSupersedes
  BY DEF RecoveryInv
<1> QED
  BY RecoveryInvCorrect, <1>1, PTL

\* A password reset, like an approval, whose revocation meets no login or
\* rotation in flight leaves no live session that began before it.
THEOREM ResetForcesLogin == RecoverySpec => []UncontestedForcesLogin
<1>1. TypeOK /\ Inv => UncontestedForcesLogin
  BY FirmCovers
<1> QED
  BY RecoveryInvCorrect, <1>1, PTL

\* No step admits a reset request for a link that has changed the password.
LEMMA LinkAdmissionStep ==
  ASSUME RecoveryTypeOK, RecoveryInv, [RecoveryNext]_<<vars, recovery>>,
         NEW j \in Jobs, NEW l \in Links,
         job[j].pc = "idle", job'[j].pc = "reset_commit", job'[j].link = l
  PROVE  l \notin redeemed
<1> USE DEF RecoveryTypeOK, GotoJob, Job, IdleJob
<1>1. job' # job
  OBVIOUS
<1>2. ASSUME NEW i \in Jobs,
             \/ RequestSupersede(i) \/ RequestMail(i) \/ ResetCommit(i)
             \/ ResetRevoke(i) \/ AbortJob(i)
      PROVE  FALSE
  BY <1>2 DEF RequestSupersede, RequestMail, ResetCommit, ResetRevoke, AbortJob
<1>3. ASSUME NEW i \in Jobs, NEW m \in Links, ResetCheck(i, m)
      PROVE  l \notin redeemed
  BY <1>3 DEF ResetCheck, LinkLive, RecoveryInv
<1>4. ASSUME NEW i \in Jobs, NEW m \in Links, RequestMint(i, m)
      PROVE  FALSE
  BY <1>4 DEF RequestMint
<1>5. ASSUME NEW i \in Jobs, NEW a \in Accounts, RequestFind(i, a)
      PROVE  FALSE
  BY <1>5 DEF RequestFind
<1>6. ~SessionStep /\ (\A m \in Links : ~LapseLink(m)) /\ RecoveryNext
  BY <1>1 DEF SessionStep, LapseLink, recovery
<1> QED
  BY <1>2, <1>3, <1>4, <1>5, <1>6 DEF RecoveryNext, RecoveryStep

\* A reset link that has changed the password is refused to later requests.
THEOREM SequentialSingleLinkCorrect == RecoverySpec => SequentialSingleLink
<1>1. RecoveryTypeOK /\ RecoveryInv /\ [RecoveryNext]_<<vars, recovery>> =>
        [\A j \in Jobs : \A l \in Links :
           /\ job[j].pc = "idle"
           /\ job'[j].pc = "reset_commit"
           /\ job'[j].link = l
           => l \notin redeemed]_<<vars, recovery>>
  BY LinkAdmissionStep
<1> QED
  BY RecoveryInvCorrect, <1>1, PTL DEF RecoverySpec, SequentialSingleLink

=============================================================================
