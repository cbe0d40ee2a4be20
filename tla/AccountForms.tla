---------------------------- MODULE AccountForms ----------------------------
(***************************************************************************)
(* The account forms of the shop: sign in, register, forgotten password    *)
(* and sign out, as a visitor meets them in one browser.  Every form is a  *)
(* server action over one call of the API, whose answer may be lost on the *)
(* way back, and a page that needs a session sends the visitor to sign in  *)
(* with the address to come back to.  The handlers are in AuthSessions,    *)
(* PasswordReset and Registration: here each takes one step.               *)
(***************************************************************************)
EXTENDS Integers

CONSTANTS Mailboxes,       \* email addresses
          StaffMailboxes,  \* those of the staff, who have accounts from the start
          Passwords,
          Nobody           \* no email, password, page or link

ASSUME FormsAssumption ==
  StaffMailboxes \subseteq Mailboxes /\ Nobody \notin Mailboxes \cup Passwords

VARIABLES
  logins,       \* the password of each email, Nobody where there is no account
  session,      \* the email the session cookie is of
  place,        \* the address the browser shows
  mailed,       \* the account of the reset link the visitor has, while it works
  answer,       \* the form answered last and what it said
  done,         \* history: the API did what that form asked
  sentFrom      \* history: the page that sent the visitor to sign in

formVars == <<logins, session, place, mailed, answer, done, sentFrom>>

Tongues == {"vi", "en"}
OpenPages   == {"home", "login", "register", "business", "forgot", "reset"}
MemberPages == {"account", "admin"}

Address(locale, page, next) == [locale |-> locale, page |-> page, next |-> next]
Target(locale, page) == [locale |-> locale, page |-> page]

-----------------------------------------------------------------------------
(* Pages                                                                   *)

\* What an address turns out to be for whom the session is of.
Landing(locale, page, next, who) ==
  IF page \in MemberPages /\ who = Nobody
    THEN Address(locale, "login", Target(locale, page))
  ELSE IF page = "admin" /\ who \notin StaffMailboxes
    THEN Address(locale, "notFound", Nobody)
  ELSE Address(locale, page, next)

\* getCurrentUser takes the session to be nobody's when the API fails to say.
SeenAs(who) == {who, Nobody}

SaidNothing == answer' = [form |-> "none", says |-> ""] /\ done' = FALSE

\* A link or an address typed in.
GoTo(page) ==
  /\ \E who \in SeenAs(session) : place' = Landing(place.locale, page, Nobody, who)
  /\ sentFrom' = IF place'.page = "login" THEN place'.next ELSE Nobody
  /\ SaidNothing
  /\ UNCHANGED <<logins, session, mailed>>

\* Mutant of OtherLocale: the query is dropped.
OtherLocaleBare ==
  /\ \E who \in SeenAs(session) :
        place' = Landing(IF place.locale = "vi" THEN "en" ELSE "vi",
                         place.page, Nobody, who)
  /\ sentFrom' = IF place.page # "login" /\ place'.page = "login"
                   THEN place'.next ELSE sentFrom
  /\ SaidNothing
  /\ UNCHANGED <<logins, session, mailed>>

\* LocaleSwitcher keeps the path and the query.
OtherLocale ==
  /\ \E who \in SeenAs(session) :
        place' = Landing(IF place.locale = "vi" THEN "en" ELSE "vi",
                         place.page, place.next, who)
  /\ sentFrom' = IF place.page # "login" /\ place'.page = "login"
                   THEN place'.next ELSE sentFrom
  /\ SaidNothing
  /\ UNCHANGED <<logins, session, mailed>>

\* The tokens expire, or their session is revoked.
SessionEnds ==
  /\ session' = Nobody
  /\ SaidNothing
  /\ UNCHANGED <<logins, place, mailed, sentFrom>>

-----------------------------------------------------------------------------
(* Answers                                                                 *)

Says(form, message, did) ==
  answer' = [form |-> form, says |-> message] /\ done' = did

\* A form that answers in place.
InPlace(form, message, did) ==
  /\ Says(form, message, did)
  /\ UNCHANGED <<session, place, sentFrom>>

\* A form that signs in and leads elsewhere.
SignedIn(form, email, target) ==
  /\ Says(form, "ok", TRUE)
  /\ session' = email
  /\ \E who \in SeenAs(email) :
        place' = Landing(target.locale, target.page, Nobody, who)
  /\ sentFrom' = place'.next

\* resolveRedirectTarget, of a target that came from our own pages: it must be
\* in the locale of the form, which falls back to the account page.
ResolveRedirectTarget(next, locale) ==
  IF next = Nobody THEN Target(locale, "account")
  ELSE IF next.locale # locale THEN Target(locale, "account")
  ELSE next

\* loginAction, with the target the page validated and the action does again.
Login(email, password) ==
  LET shown == ResolveRedirectTarget(place.next, place.locale) IN
  /\ place.page = "login"
  /\ UNCHANGED <<logins, mailed>>
  /\ \/ /\ logins[email] = password
        /\ SignedIn("login", email, ResolveRedirectTarget(shown, place.locale))
     \/ /\ logins[email] # password
        /\ InPlace("login", "invalidCredentials", FALSE)
     \/ InPlace("login", "error", FALSE)

Logout ==
  /\ session # Nobody
  /\ session' = Nobody
  /\ place' = Address(place.locale, "home", Nobody)
  /\ sentFrom' = Nobody
  /\ SaidNothing
  /\ UNCHANGED <<logins, mailed>>

SubmitCustomer(email, password) ==
  /\ place.page = "register"
  /\ UNCHANGED mailed
  /\ \/ /\ logins[email] = Nobody
        /\ logins' = [logins EXCEPT ![email] = password]
        /\ \/ SignedIn("register", email, Target(place.locale, "account"))
           \/ InPlace("register", "error", TRUE)
     \/ /\ logins[email] # Nobody
        /\ InPlace("register", "emailTaken", FALSE)
        /\ UNCHANGED logins
     \/ /\ \E message \in {"invalidInput", "error"} :
              InPlace("register", message, FALSE)
        /\ UNCHANGED logins

\* A business is not signed in: it keeps the session the browser had.
SubmitBusiness(email, password) ==
  /\ place.page = "business"
  /\ UNCHANGED mailed
  /\ \/ /\ logins[email] = Nobody
        /\ logins' = [logins EXCEPT ![email] = password]
        /\ \E message \in {"ok", "error"} : InPlace("business", message, TRUE)
     \/ /\ logins[email] # Nobody
        /\ InPlace("business", "emailTaken", FALSE)
        /\ UNCHANGED logins
     \/ /\ \E message \in {"taxIdTaken", "invalidInput", "error"} :
              InPlace("business", message, FALSE)
        /\ UNCHANGED logins

\* A link is mailed if the account exists; the form says ok whatever happens
\* but an answer of 500 and above, and so also when the API was out of reach.
ForgotPassword(email) ==
  /\ place.page = "forgot"
  /\ UNCHANGED logins
  /\ \/ /\ mailed' = IF logins[email] = Nobody THEN mailed ELSE email
        /\ \E message \in {"ok", "error"} : InPlace("forgot", message, TRUE)
     \/ /\ \E message \in {"ok", "error"} : InPlace("forgot", message, FALSE)
        /\ UNCHANGED mailed

\* What the call came to, as resetPasswordAction words it.
ResetSays(outcome) ==
  IF outcome = "done" THEN "ok"
  ELSE IF outcome = "refused" THEN "resetTokenInvalid"
  ELSE "error"

ResetPassword(password, confirm) ==
  /\ place.page = "reset"
  /\ \/ /\ password # confirm
        /\ InPlace("reset", "passwordMismatch", FALSE)
        /\ UNCHANGED <<logins, mailed>>
     \/ /\ password = confirm /\ mailed # Nobody
        /\ logins' = [logins EXCEPT ![mailed] = password]
        /\ mailed' = Nobody
        /\ \E outcome \in {"done", "lost"} :
              InPlace("reset", ResetSays(outcome), TRUE)
     \/ /\ password = confirm
        /\ \E outcome \in {"lost"} \cup {r \in {"refused"} : mailed = Nobody} :
              InPlace("reset", ResetSays(outcome), FALSE)
        /\ UNCHANGED <<logins, mailed>>

\* The link expires, or another is asked for and this one is superseded.
LinkExpires ==
  /\ mailed # Nobody
  /\ mailed' = Nobody
  /\ SaidNothing
  /\ UNCHANGED <<logins, session, place, sentFrom>>

FormsInit ==
  /\ logins \in [Mailboxes -> Passwords \cup {Nobody}]
  /\ \A e \in Mailboxes : logins[e] # Nobody <=> e \in StaffMailboxes
  /\ session = Nobody /\ mailed = Nobody /\ sentFrom = Nobody /\ done = FALSE
  /\ answer = [form |-> "none", says |-> ""]
  /\ place = Address("vi", "home", Nobody)

FormsNext ==
  \/ \E page \in OpenPages \cup MemberPages : GoTo(page)
  \/ OtherLocale \/ SessionEnds \/ Logout \/ LinkExpires
  \/ \E e \in Mailboxes, p \in Passwords :
        Login(e, p) \/ SubmitCustomer(e, p) \/ SubmitBusiness(e, p)
  \/ \E e \in Mailboxes : ForgotPassword(e)
  \/ \E p, confirm \in Passwords : ResetPassword(p, confirm)

FormsSpec == FormsInit /\ [][FormsNext]_formVars

-----------------------------------------------------------------------------

\* The browser shows a page of the shop, only accounts have sessions and
\* links, and nobody anonymous stands on a page they came to by signing in.
FormsTypeOK ==
  /\ logins \in [Mailboxes -> Passwords \cup {Nobody}]
  /\ place.locale \in Tongues
  /\ place.page \in OpenPages \cup MemberPages \cup {"notFound"}
  /\ \A who \in {session, mailed} \ {Nobody} : logins[who] # Nobody
  /\ answer.says = "ok" /\ answer.form \in {"login", "register"}
       => session # Nobody

\* Signing in brings the visitor back to the page that sent them, whatever was
\* tried in between, or, after a change of language on the sign-in page, to
\* the account page: the target is of the other locale and is dropped.  A page
\* that cannot tell who signed in sends them to sign in again, and back to it.
LoginReturns ==
  [][answer'.form = "login" /\ answer'.says = "ok" /\ sentFrom # Nobody
       => LET to == IF place.locale = sentFrom.locale THEN sentFrom
                    ELSE Target(place.locale, "account")
          IN \E who \in SeenAs(session') :
               place' = Landing(to.locale, to.page, Nobody, who)]_formVars

\* What a form says is so, though answers are lost: done if it says ok, not
\* done if it gives a reason, and either way if it only says that something
\* went wrong.  The forgotten-password form says ok regardless, by design.
AnswersTrue ==
  answer.says \notin {"", "error"} /\ answer.form # "forgot"
    => (answer.says = "ok") = done

\* Both: a visitor is told the truth and is led back where they were going.
FormsTrue == []AnswersTrue /\ LoginReturns

=============================================================================
