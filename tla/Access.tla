------------------------------- MODULE Access -------------------------------
(***************************************************************************)
(* Who may do what: the roles the admin routes declare, the guards that    *)
(* enforce them, the gate of the admin pages, and the notice a refusal     *)
(* becomes in the console.  The browser holds one session for all its tabs.*)
(***************************************************************************)
VARIABLE visitor      \* whom the session cookie signs in: a role

Staff == {"SUPER_ADMIN", "SALES", "WAREHOUSE", "CONTENT"}
Roles == Staff \cup {"customer", "anonymous"}

\* @Roles of the routes of each admin controller; creating a tier apart.
ProductRoles  == {"SUPER_ADMIN", "CONTENT"}
TaxonomyRoles == {"SUPER_ADMIN", "CONTENT"}
MediaRoles    == {"SUPER_ADMIN", "CONTENT"}
PriceRoles    == {"SUPER_ADMIN", "SALES"}
StockRoles    == {"SUPER_ADMIN", "WAREHOUSE"}
AccountRoles  == {"SUPER_ADMIN", "SALES"}

\* JwtAuthGuard, then RolesGuard.
Gate(roles) ==
  IF visitor = "anonymous" THEN "UNAUTHORIZED"
  ELSE IF visitor \notin roles THEN "FORBIDDEN"
  ELSE "ok"

\* The roles requireStaff is given on each page of the console.
PageRoles == [home |-> Staff, products |-> {"SUPER_ADMIN", "CONTENT"},
              new |-> {"SUPER_ADMIN", "CONTENT"},
              product |-> {"SUPER_ADMIN", "CONTENT"},
              accounts |-> {"SUPER_ADMIN", "SALES"}]

\* What a page turns out to be: the anonymous are sent to sign in.
RequireStaff(page) ==
  IF visitor = "anonymous" THEN "login"
  ELSE IF visitor \notin PageRoles[page] THEN "notFound"
  ELSE page

-----------------------------------------------------------------------------

\* The notices the codes of the API have; some share one.
ErrorKeys ==
  [PRICE_TIER_REQUIRED |-> "errPriceTierRequired",
   TIER_NOT_FOUND |-> "errPriceTierRequired",
   DEFAULT_TIER_NOT_ASSIGNABLE |-> "errPriceTierRequired",
   SKU_TAKEN |-> "errSkuTaken", SKU_OR_BARCODE_TAKEN |-> "errSkuTaken",
   BOTH_LOCALES_REQUIRED |-> "errBothLocales", SLUG_TAKEN |-> "errSlugTaken",
   AGE_RANGE_INVALID |-> "errAgeRange",
   CATEGORY_NOT_FOUND |-> "errCategoryNotFound",
   BRAND_NOT_FOUND |-> "errBrandNotFound",
   BARCODE_TAKEN |-> "errBarcodeTaken",
   CARTON_MULTIPLE_INVALID |-> "errCartonInvalid",
   CERT_VALIDITY_INVALID |-> "errCertValidity",
   REJECTION_REASON_REQUIRED |-> "errRejectionReasonRequired",
   LAST_RETAIL_PRICE |-> "errLastRetailPrice"]

\* mapError: 403 first, then the code, then the fallback; an answer that
\* never came is no ApiError.
MapError(code, fallback) ==
  IF code = "FORBIDDEN" THEN "errForbidden"
  ELSE IF code = "lost" THEN "errUnknown"
  ELSE IF code \in DOMAIN ErrorKeys THEN ErrorKeys[code]
  ELSE fallback

=============================================================================
