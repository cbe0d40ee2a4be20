----------------------------- MODULE AdminDesk -----------------------------
(***************************************************************************)
(* A tab of the admin console: the accounts page, and of the product page  *)
(* all but the product's own form (Console has it).  It shows what was     *)
(* true when it was rendered, while other tabs of the browser sign in and  *)
(* out and colleagues work in theirs; its forms are server actions, each a *)
(* call of the API behind its guards, and what a refusal becomes is        *)
(* decided by the component that called.  The handlers of variants, prices *)
(* and stock have modules of their own: here they answer with any of their *)
(* codes.                                                                  *)
(***************************************************************************)
EXTENDS Access, Integers, Sequences, FiniteSets

Seqs == INSTANCE SequencesExt

CONSTANTS Applicants,     \* ids of business accounts in order of arrival (bound)
          ListSize,       \* accounts the list answers: its first page
          Pictures        \* media rows of the product in view (bound)

ASSUME DeskAssumption ==
  Applicants \subseteq Nat /\ IsFiniteSet(Applicants) /\ ListSize \in Nat \ {0}

VARIABLES
  tab,            \* what the tab shows
  last,           \* the submission the last step answered, if it did
  applications,   \* the approval status of each account, "none" before it applies
  gallery         \* the pictures of the product in their order

deskVars == <<visitor, tab, last, applications, gallery>>

Statuses == {"PENDING", "APPROVED", "REJECTED"}

-----------------------------------------------------------------------------
(* Pages                                                                   *)

\* BusinessAccountsService.list as its controller answers: the newest of a
\* status, without their number, so the page has no pager.
AccountList(status, all) ==
  LET having == {a \in Applicants : all[a] = status} IN
  {a \in having : Cardinality({b \in having : b > a}) < ListSize}

\* A page rendered for the visitor from what the API holds now.
Rendered(page, status, all, pictures) ==
  LET shown == RequireStaff(page) IN
  IF shown = "accounts"
    THEN [page |-> shown, as |-> visitor, status |-> status,
          list |-> AccountList(status, all), applied |-> all]
  ELSE IF shown = "product"
    THEN [page |-> shown, as |-> visitor, status |-> status,
          pictures |-> pictures, priceForbidden |-> visitor \notin PriceRoles]
  ELSE [page |-> shown, as |-> visitor, status |-> status]

Quiet == [op |-> "none", code |-> "ok", notice |-> ""]

Open(page, status) ==
  /\ tab' = Rendered(page, status, applications, gallery)
  /\ last' = Quiet
  /\ UNCHANGED <<visitor, applications, gallery>>

-----------------------------------------------------------------------------
(* Submissions                                                             *)

\* Components that do nothing with the answer of the action they call.
Discarding == {"licence", "dropCert", "dropPrice"}

Notice(op, code) ==
  IF op \in Discarding \/ code = "ok" THEN ""
  ELSE MapError(code, IF op = "upload" THEN "errMediaTypeMismatch"
                                       ELSE "errUnknown")

Answered(op, code) ==
  last' = [op |-> op, code |-> code, notice |-> Notice(op, code)]

\* A refusal leaves the tab as it is, but for the notice.
Refused(op, code) ==
  /\ code # "ok"
  /\ Answered(op, code)
  /\ UNCHANGED <<visitor, tab, applications, gallery>>

\* A success revalidates the page, which is rendered anew with the answer;
\* the answer may be lost after the API has done its part.
Done(op) ==
  /\ UNCHANGED visitor
  /\ \/ /\ Answered(op, "ok")
        /\ \E all \in {applications'}, pictures \in {gallery'} :
             tab' = Rendered(tab.page, tab.status, all, pictures)
     \/ Answered(op, "lost") /\ UNCHANGED tab

\* licence only reads and revalidates nothing.  An account whose owner signs in
\* here could see its own: of those the form is shown to, only staff can.
ViewLicence(a) ==
  /\ tab.page = "accounts" /\ a \in tab.list
  /\ \/ \E code \in {Gate(AccountRoles), "lost"} : Refused("licence", code)
     \/ /\ Gate(AccountRoles) = "ok"
        /\ Answered("licence", "ok")
        /\ UNCHANGED <<visitor, tab, applications, gallery>>

\* Mutant of Offered: whatever the status shown.
OfferedAlways(a) == tab.page = "accounts" /\ a \in tab.list

\* ApprovalForm offers its two forms for the accounts it shows as PENDING.
Offered(a) ==
  /\ tab.page = "accounts" /\ a \in tab.list
  /\ tab.status = "PENDING"

DecideCodes(status) ==
  IF status = "APPROVED"
    THEN {"PRICE_TIER_REQUIRED", "PRICE_TIER_NOT_FOUND",
          "DEFAULT_TIER_NOT_ASSIGNABLE"}
    ELSE {"REJECTION_REASON_REQUIRED"}

\* Whatever the account's own status is by now, the decision replaces it.
Decide(a, status) ==
  /\ Offered(a)
  /\ \/ \E code \in {Gate(AccountRoles), "lost"} : Refused("decide", code)
     \/ /\ Gate(AccountRoles) = "ok"
        /\ \E code \in DecideCodes(status) : Refused("decide", code)
     \/ /\ Gate(AccountRoles) = "ok"
        /\ applications' = [applications EXCEPT ![a] = status]
        /\ UNCHANGED gallery
        /\ Done("decide")

\* MediaUploader: a move swaps two neighbours of the order shown and sends
\* the whole of it; the API takes only a permutation of what it has.
Swapped(s, i) == [s EXCEPT ![i] = s[i + 1], ![i + 1] = s[i]]

MoveRefused(order) ==
  IF Gate(MediaRoles) # "ok" THEN Gate(MediaRoles)
  ELSE IF Seqs!ToSet(order) # Seqs!ToSet(gallery) THEN "MEDIA_ORDER_MISMATCH"
  ELSE "ok"

Move(i) ==
  /\ tab.page = "product" /\ i \in 1 .. Len(tab.pictures) - 1
  /\ LET order == Swapped(tab.pictures, i) IN
       \/ \E code \in {MoveRefused(order), "lost"} : Refused("move", code)
       \/ /\ MoveRefused(order) = "ok"
          /\ gallery' = order
          /\ UNCHANGED applications
          /\ Done("move")

RemoveRefused(m) ==
  IF Gate(MediaRoles) # "ok" THEN Gate(MediaRoles)
  ELSE IF m \notin Seqs!ToSet(gallery) THEN "MEDIA_NOT_FOUND"
  ELSE "ok"

\* The row goes, the others keep their order.
Removed(m) ==
  \E i \in DOMAIN gallery : gallery[i] = m /\ gallery' = Seqs!RemoveAt(gallery, i)

RemovePicture(m) ==
  /\ tab.page = "product" /\ m \in Seqs!ToSet(tab.pictures)
  /\ \/ \E code \in {RemoveRefused(m), "lost"} : Refused("remove", code)
     \/ /\ RemoveRefused(m) = "ok"
        /\ Removed(m)
        /\ UNCHANGED applications
        /\ Done("remove")

\* The file itself may be of a type or size the pipe refuses without a code.
UploadPicture(m) ==
  /\ tab.page = "product" /\ m \in Pictures \ Seqs!ToSet(gallery)
  /\ \/ \E code \in {Gate(MediaRoles), "lost"} : Refused("upload", code)
     \/ Gate(MediaRoles) = "ok" /\ Refused("upload", "FILE_REFUSED")
     \/ /\ Gate(MediaRoles) = "ok"
        /\ gallery' = Append(gallery, m)
        /\ UNCHANGED applications
        /\ Done("upload")

\* The other forms of the product page, and what their handlers answer.
VariantCodes == {"ok", "VARIANT_NOT_FOUND", "SKU_TAKEN", "BARCODE_TAKEN",
                 "SKU_OR_BARCODE_TAKEN", "CARTON_MULTIPLE_INVALID"}
CertCodes    == {"ok", "VARIANT_NOT_FOUND", "CERT_VALIDITY_INVALID"}
DropCertCodes == {"ok", "CERTIFICATION_NOT_FOUND", "INTERNAL_SERVER_ERROR"}
PriceCodes   == {"ok", "VARIANT_NOT_FOUND", "TIER_NOT_FOUND",
                 "UNIT_PRICE_INVALID"}
DropPriceCodes == {"ok", "PRICE_ENTRY_NOT_FOUND", "LAST_RETAIL_PRICE"}
StockCodes   == {"ok", "VARIANT_NOT_FOUND"}

\* The price section is shown when the page could read the tiers, the stock
\* form always.
Section(op) ==
  /\ tab.page = "product"
  /\ op \in {"price", "dropPrice"} => ~tab.priceForbidden

SendForm(op, roles, codes) ==
  /\ Section(op)
  /\ \/ \E code \in {Gate(roles), "lost"} : Refused(op, code)
     \/ /\ Gate(roles) = "ok"
        /\ \/ \E code \in codes : Refused(op, code)
           \/ UNCHANGED <<applications, gallery>> /\ Done(op)

SaveVariant  == SendForm("variant", ProductRoles, VariantCodes)
SaveCert     == SendForm("cert", ProductRoles, CertCodes)
DropCert     == SendForm("dropCert", ProductRoles, DropCertCodes)
SavePrice    == SendForm("price", PriceRoles, PriceCodes)
DropPrice    == SendForm("dropPrice", PriceRoles, DropPriceCodes)
SaveStock    == SendForm("stock", StockRoles, StockCodes)

-----------------------------------------------------------------------------
(* Beyond the tab                                                          *)

\* Someone signs in or out in another tab of this browser.
SignIn(role) ==
  /\ visitor' = role
  /\ last' = Quiet
  /\ UNCHANGED <<tab, applications, gallery>>

\* A business registers: Registration has the handler.
Apply(a) ==
  /\ applications[a] = "none"
  /\ \A b \in Applicants : b < a => applications[b] # "none"
  /\ applications' = [applications EXCEPT ![a] = "PENDING"]
  /\ last' = Quiet
  /\ UNCHANGED <<visitor, tab, gallery>>

\* A colleague decides, or edits the pictures, from a tab of their own.
ColleagueDecides(a, status) ==
  /\ applications[a] # "none"
  /\ applications' = [applications EXCEPT ![a] = status]
  /\ last' = Quiet
  /\ UNCHANGED <<visitor, tab, gallery>>

ColleagueEdits ==
  /\ \/ \E i \in 1 .. Len(gallery) - 1 : gallery' = Swapped(gallery, i)
     \/ \E m \in Seqs!ToSet(gallery) : Removed(m)
     \/ \E m \in Pictures \ Seqs!ToSet(gallery) : gallery' = Append(gallery, m)
  /\ last' = Quiet
  /\ UNCHANGED <<visitor, tab, applications>>

DeskInit ==
  /\ visitor = "anonymous"
  /\ applications = [a \in Applicants |-> "none"]
  /\ gallery = <<>>
  /\ tab = Rendered("home", "PENDING", applications, gallery)
  /\ last = Quiet

DeskNext ==
  \/ \E status \in Statuses : Open("accounts", status)
  \/ \E page \in {"home", "products", "product"} : Open(page, "PENDING")
  \/ \E a \in Applicants :
        \/ ViewLicence(a)
        \/ \E status \in Statuses \ {"PENDING"} : Decide(a, status)
  \/ \E i \in 1 .. Cardinality(Pictures) : Move(i)
  \/ \E m \in Pictures : RemovePicture(m) \/ UploadPicture(m)
  \/ SaveVariant \/ SaveCert \/ DropCert \/ SavePrice \/ DropPrice \/ SaveStock
  \/ \E role \in Roles : SignIn(role)
  \/ \E a \in Applicants : Apply(a)
  \/ \E a \in Applicants, status \in Statuses \ {"PENDING"} :
        ColleagueDecides(a, status)
  \/ ColleagueEdits

DeskSpec == DeskInit /\ [][DeskNext]_deskVars

-----------------------------------------------------------------------------

\* The tab shows a page of the console, the gallery never holds a picture
\* twice, and a submission leaves a notice the page can show.
DeskTypeOK ==
  /\ visitor \in Roles
  /\ applications \in [Applicants -> Statuses \cup {"none"}]
  /\ gallery \in Seq(Pictures) /\ Seqs!IsInjective(gallery)
  /\ tab.page \in DOMAIN PageRoles \cup {"login", "notFound"}
  /\ last.notice \in {"", "errUnknown", "errForbidden", "errMediaTypeMismatch"}
                     \cup {ErrorKeys[c] : c \in DOMAIN ErrorKeys}

\* requireStaff and RolesGuard agree: a form that was offered is answered 403
\* only if another role signed in since the page was rendered, or if it is the
\* stock form, which content editors are shown and may never submit.
ForbiddenOnlyAfterRoleChange ==
  last.code = "FORBIDDEN" => last.op = "stock" \/ tab.as # visitor

\* From a tab, a decision already taken is overturned only if it was taken
\* after the tab was rendered, though the API takes any decision on top of any
\* other.
OverturnedOnlyByStaleTab ==
  [][\A a \in Applicants :
        /\ last'.op = "decide"
        /\ applications[a] # "PENDING" /\ applications'[a] # applications[a]
        => tab.applied[a] = "PENDING"]_deskVars

\* A pending account that a list of the pending leaves out stands behind
\* ListSize newer ones: without a pager, the way to it is to decide on those.
HiddenOnlyBehindNewer ==
  /\ tab.page = "accounts" /\ tab.status = "PENDING"
  => \A a \in Applicants :
        tab.applied[a] = "PENDING" /\ a \notin tab.list
          => Cardinality({b \in tab.list : b > a}) = ListSize

\* A move sent from a tab whose pictures are not the product's any more never
\* brings one back nor drops one.
MoveKeepsPictures ==
  [][last'.op = "move" => Seqs!ToSet(gallery') = Seqs!ToSet(gallery)]_deskVars

\* All of them: what a tab that shows the past may and may not do.
DeskExplained ==
  /\ [](ForbiddenOnlyAfterRoleChange /\ HiddenOnlyBehindNewer)
  /\ OverturnedOnlyByStaleTab /\ MoveKeepsPictures

=============================================================================
