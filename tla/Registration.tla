---------------------------- MODULE Registration ----------------------------
(***************************************************************************)
(* BusinessAccountsService.register and AuthService.registerCustomer: the  *)
(* licence goes to the object store first, then one transaction inserts    *)
(* the account and the business account (a customer has no licence).  The  *)
(* unique indexes on email and taxId are PostgreSQL's: an insert of a      *)
(* value that an open transaction has inserted waits for its end, one of a *)
(* committed value fails.                                                  *)
(***************************************************************************)
EXTENDS ObjectStore

CONSTANTS Emails, TaxIds,
          LicenceKeys \* the keys of the bucket of the documents, under "business-licences"

ASSUME TaxIdAssumption == Nil \notin TaxIds
ASSUME LicenceKeyAssumption == LicenceKeys \subseteq ObjectKeys

VARIABLES
  accounts,  \* the committed accounts, an email and its type
  companies, \* the committed business_accounts
  form,      \* the registration in each slot
  \* Observed only
  unheard    \* licences of registrations that committed and were not told so

registry == <<accounts, companies, form, unheard>>

-----------------------------------------------------------------------------

\* A registration at step "at"; a customer's has no taxId and no licence.
Form(at, e, x, k, verdict) ==
  [pc |-> at, email |-> e, taxId |-> x, licence |-> k, verdict |-> verdict]

FormStates ==
  [pc : {"idle", "account", "company", "commit", "cleanup", "answer"},
   email : Emails \cup {Nil},
   taxId : TaxIds \cup {Nil},
   licence : issued \cup {Nil},
   verdict : {"none", "created", "EMAIL_TAKEN", "TAX_ID_TAKEN", "error"}]

NoForm == Form("idle", Nil, Nil, Nil, "none")

IsBusiness(h) == form[h].licence # Nil

GotoForm(h, f) == form' = [form EXCEPT ![h] = f]
Proceed(h, at, verdict) ==
  GotoForm(h, Form(at, form[h].email, form[h].taxId, form[h].licence, verdict))

\* The catch block: a licence is cleaned up before the answer.
Refuse(h, verdict) == Proceed(h, IF IsBusiness(h) THEN "cleanup" ELSE "answer", verdict)

\* The values that transactions other than h's have inserted and hold.
HeldEmails(h) == {form[g].email : g \in {f \in Handlers \ {h} : form[f].pc \in {"company", "commit"}}}
HeldTaxIds(h) == {form[g].taxId : g \in {f \in Handlers \ {h} : form[f].pc = "commit"}}

UsedEmails == {a.email : a \in accounts}
UsedTaxIds == {c.taxId : c \in companies}

\* What h's transaction has inserted.
NewAccount(h) == [email |-> form[h].email, business |-> IsBusiness(h)]
NewCompany(h) ==
  [email |-> form[h].email, taxId |-> form[h].taxId, licence |-> form[h].licence]

-----------------------------------------------------------------------------

\* register: "Upload FIRST".
RegisterPut(h, k, e, x) ==
  /\ form[h].pc = "idle"
  /\ PutObject(k)
  /\ GotoForm(h, Form("account", e, x, k, "none"))
  /\ UNCHANGED <<accounts, companies, unheard>>

\* The put is outside the try block: no clean-up.
RegisterPutFails(k) == PutFails(k) /\ UNCHANGED registry

RegisterCustomer(h, e) ==
  /\ form[h].pc = "idle"
  /\ GotoForm(h, Form("account", e, Nil, Nil, "none"))
  /\ UNCHANGED <<store, accounts, companies, unheard>>

\* Mutant of InsertAccount: it is not part of the transaction.
InsertAccountAlone(h) ==
  /\ form[h].pc = "account"
  /\ form[h].email \notin UsedEmails \cup HeldEmails(h)
  /\ accounts' = accounts \cup {NewAccount(h)}
  /\ Proceed(h, IF IsBusiness(h) THEN "company" ELSE "commit", "none")
  /\ UNCHANGED <<store, companies, unheard>>

InsertAccount(h) ==
  /\ form[h].pc = "account"
  /\ form[h].email \notin UsedEmails \cup HeldEmails(h)
  /\ Proceed(h, IF IsBusiness(h) THEN "company" ELSE "commit", "none")
  /\ UNCHANGED <<store, accounts, companies, unheard>>

\* Mutant of EmailTaken: any unique violation is taken for the taxId's.
EmailTakenAsTaxId(h) ==
  /\ form[h].pc = "account"
  /\ form[h].email \in UsedEmails
  /\ Refuse(h, "TAX_ID_TAKEN")
  /\ UNCHANGED <<store, accounts, companies, unheard>>

\* P2002 on the model Account.
EmailTaken(h) ==
  /\ form[h].pc = "account"
  /\ form[h].email \in UsedEmails
  /\ Refuse(h, "EMAIL_TAKEN")
  /\ UNCHANGED <<store, accounts, companies, unheard>>

InsertCompany(h) ==
  /\ form[h].pc = "company"
  /\ form[h].taxId \notin UsedTaxIds \cup HeldTaxIds(h)
  /\ Proceed(h, "commit", "none")
  /\ UNCHANGED <<store, accounts, companies, unheard>>

\* P2002 on the model BusinessAccount: the account goes with the transaction.
TaxIdTaken(h) ==
  /\ form[h].pc = "company"
  /\ form[h].taxId \in UsedTaxIds
  /\ Refuse(h, "TAX_ID_TAKEN")
  /\ UNCHANGED <<store, accounts, companies, unheard>>

CommitRows(h) ==
  /\ accounts' = accounts \cup {NewAccount(h)}
  /\ companies' = companies \cup {c \in {NewCompany(h)} : IsBusiness(h)}

Commit(h) ==
  /\ form[h].pc = "commit"
  /\ CommitRows(h)
  /\ Proceed(h, "answer", "created")
  /\ UNCHANGED <<store, unheard>>

\* The transaction commits, and the handler takes it for failed.
CommitUnanswered(h) ==
  /\ form[h].pc = "commit"
  /\ CommitRows(h)
  /\ unheard' = unheard \cup ({form[h].licence} \ {Nil})
  /\ Refuse(h, "error")
  /\ UNCHANGED store

\* A statement fails or waits past the transaction's timeout: all is undone.
Rollback(h) ==
  /\ form[h].pc \in {"account", "company", "commit"}
  /\ Refuse(h, "error")
  /\ UNCHANGED <<store, accounts, companies, unheard>>

\* Mutant of DiscardLicence: the licence is left in the store.
DiscardNothing(h) ==
  /\ form[h].pc = "cleanup"
  /\ Proceed(h, "answer", form[h].verdict)
  /\ UNCHANGED <<store, accounts, companies, unheard>>

DiscardLicence(h) ==
  /\ form[h].pc = "cleanup"
  /\ DeleteObject(form[h].licence) \/ DeleteFails(form[h].licence)
  /\ Proceed(h, "answer", form[h].verdict)
  /\ UNCHANGED <<accounts, companies, unheard>>

AnswerForm(h) ==
  /\ form[h].pc = "answer"
  /\ GotoForm(h, NoForm)
  /\ UNCHANGED <<store, accounts, companies, unheard>>

\* The licence of h's registration has no row and waits for h.
HoldsLicence(h) == IsBusiness(h) /\ form[h].pc \in {"account", "company", "commit", "cleanup"}

\* The process stops; PostgreSQL undoes what was not committed.
Crash(h) ==
  /\ form[h].pc # "idle"
  /\ IF HoldsLicence(h) THEN Abandon(form[h].licence) ELSE UNCHANGED store
  /\ GotoForm(h, NoForm)
  /\ UNCHANGED <<accounts, companies, unheard>>

-----------------------------------------------------------------------------

RegistrationInit ==
  /\ StoreInit
  /\ accounts = {}
  /\ companies = {}
  /\ form = [h \in Handlers |-> NoForm]
  /\ unheard = {}

RegistrationStep(h) ==
  \/ \E e \in Emails : \/ RegisterCustomer(h, e)
                       \/ \E k \in LicenceKeys, x \in TaxIds : RegisterPut(h, k, e, x)
  \/ InsertAccount(h) \/ EmailTaken(h)
  \/ InsertCompany(h) \/ TaxIdTaken(h)
  \/ Commit(h) \/ CommitUnanswered(h) \/ Rollback(h)
  \/ DiscardLicence(h) \/ AnswerForm(h) \/ Crash(h)

RegistrationNext ==
  \/ \E h \in Handlers : RegistrationStep(h)
  \/ \E k \in LicenceKeys : RegisterPutFails(k)

RegistrationSpec == RegistrationInit /\ [][RegistrationNext]_<<store, registry>>

-----------------------------------------------------------------------------
(* Properties                                                              *)

\* Every variable has its type.
RegistrationTypeOK ==
  /\ StoreTypeOK
  /\ accounts \subseteq [email : Emails, business : BOOLEAN]
  /\ companies \subseteq [email : Emails, taxId : TaxIds, licence : issued]
  /\ form \in [Handlers -> FormStates]
  /\ unheard \subseteq issued

\* A business account that exists has its licence document in the store, unless
\* its registration committed without hearing of it and cleaned up.
LicencesStored == {c.licence : c \in companies} \ unheard \subseteq objects

\* A licence document without a business account belongs to a registration that
\* is still at it, or was cut off or failed to delete it.
LicencesAccountedFor ==
  (objects \cap LicenceKeys) \ ({c.licence : c \in companies} \cup lost)
    \subseteq {form[h].licence : h \in {g \in Handlers : HoldsLicence(g)}}

\* An email names one account and a taxId one business account, and the account
\* and its business account exist together, whatever fails or stops: nobody can
\* log in to half a registration, or find its email taken by one.
RegistrationsWhole ==
  /\ \A a, b \in accounts : a.email = b.email => a = b
  /\ \A c, d \in companies : c.taxId = d.taxId => c = d
  /\ {a.email : a \in {b \in accounts : b.business}} = {c.email : c \in companies}

\* "EMAIL_TAKEN" and "TAX_ID_TAKEN" say what is true when they are said, not
\* what a registration that has been undone since had inserted.
RefusalsTrue ==
  \A h \in Handlers : form[h].pc \in {"cleanup", "answer"} =>
    /\ form[h].verdict = "EMAIL_TAKEN" => form[h].email \in UsedEmails
    /\ form[h].verdict = "TAX_ID_TAKEN" => form[h].taxId \in UsedTaxIds

\* A transaction holds what it inserted; a licence is in the hands of one
\* registration until it has its row or is discarded.
RegistrationsHold ==
  \A h \in Handlers :
    /\ form[h].pc # "idle" => form[h].email \in Emails
    /\ IF IsBusiness(h) THEN form[h].taxId \in TaxIds ELSE form[h].taxId = Nil
    /\ form[h].pc \in {"company", "cleanup"} => IsBusiness(h)
    /\ form[h].pc \in {"company", "commit"} =>
         form[h].email \notin UsedEmails \cup HeldEmails(h)
    /\ form[h].pc = "commit" /\ IsBusiness(h) =>
         form[h].taxId \notin UsedTaxIds \cup HeldTaxIds(h)
    /\ HoldsLicence(h) =>
         /\ form[h].licence \in issued
         /\ \A g \in Handlers \ {h} : form[g].licence # form[h].licence
         /\ \A c \in companies : c.licence = form[h].licence => c.licence \in unheard
         /\ form[h].pc # "cleanup" => form[h].licence \in objects

\* What the proof that these are invariant rests on.
RegistrationInv ==
  /\ LicencesStored
  /\ LicencesAccountedFor
  /\ RegistrationsWhole
  /\ RefusalsTrue
  /\ RegistrationsHold

=============================================================================
