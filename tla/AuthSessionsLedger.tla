------------------------- MODULE AuthSessionsLedger -------------------------
(***************************************************************************)
(* AuthSessions implements SessionLedger: an open session is a refresh     *)
(* token that would pass rotateRefreshToken's test, a grant is a login past *)
(* validateCredentials, a ticket a rotation past its own check.            *)
(***************************************************************************)
EXTENDS AuthSessions

GrantOf(h)  == IF h.pc = "login_issue" THEN h.account ELSE None
TicketOf(h) == IF h.pc \in {"rotate_account", "rotate_commit"} THEN h.token ELSE None

Ledger == INSTANCE SessionLedger WITH
            Sessions <- Tokens,
            Slots    <- Requests,
            holder   <- owner,
            open     <- {t \in Tokens : Live(t)},
            grant    <- [r \in Requests |-> GrantOf(req[r])],
            ticket   <- [r \in Requests |-> TicketOf(req[r])]

\* The refresh-token service keeps the ledger's promise: a session comes into
\* being only through a login or through the rotation of a token that was live
\* when the rotation checked it, and a rotation ends the session it renews.
ImplementsLedger == Ledger!Spec

=============================================================================
