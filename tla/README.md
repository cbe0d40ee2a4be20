# kid-toy: a formal model of the API

TLA+ modules, TLC runs and TLAPS proofs kept beside the kid-toy code base: a NestJS API over
PostgreSQL and an S3 object store (`src/apps/api`), and a Next.js web front end that acts as a
backend-for-frontend (`src/apps/web`). Paths below are relative to `src/`.

## 1. The system

The API is one Node process (several may run) whose request handlers interleave at every `await`;
the database runs at PostgreSQL's default isolation, READ COMMITTED; a Prisma call outside
`$transaction` is its own transaction. No handler takes an explicit lock and no update is
conditional on what an earlier read returned. That is where the behaviour is hard: every
"read, decide, write" sequence of the code is open to every other handler between its statements,
and a process that stops leaves what is committed and loses the rest.

| Part | State | Operations | Talks to | What makes it correct |
|---|---|---|---|---|
| Sessions: `modules/auth/{token,auth}.service.ts`, `auth.controller.ts` | `refresh_tokens`, `accounts` | login, refresh (rotate), logout, revokeAllForAccount | called by password reset and approval | revocation is final, rotation is single-use, claims are fresh |
| Password reset: `modules/auth/password-reset.service.ts` | `password_reset_tokens`, `accounts.passwordHash` | request, reset | mailer, sessions | links are single-use, a new one supersedes the old, a reset ends sessions |
| Business accounts: `modules/business-accounts` | `accounts`, `business_accounts`, licence objects | register, updateApproval, list, getLicenceUrl | object store, sessions, pricing | no orphan object or row, approval forces a fresh login |
| Price list: `modules/pricing/pricing.admin.service.ts` | `price_tiers`, `price_list_entries` | createTier, upsertEntry, deleteEntry | read by resolution | one row per key, a variant keeps a retail price |
| Price resolution: `modules/pricing/price-resolution.service.ts` | memoised default tier id | resolveUnitPrice, resolveUnitPrices | price list, business accounts, public catalog | batch and single agree, tier never stale |
| Products and variants: `modules/catalog/products.service.ts` | `products`, `product_variants`, translations, certifications | create, update, softDelete, list, variants, certifications | taxonomy, media | unique codes, age range and carton checks hold on the stored row, no lost update, errors name the right field |
| Media: `modules/catalog/media.service.ts`, `storage/storage.service.ts` | `product_media`, objects | upload, reorder, remove | object store | rows have objects, no orphans, distinct sort orders |
| Taxonomy: `modules/catalog/taxonomy.service.ts` | `categories`, `brands`, their texts | create, update, list | products, public catalog | the parent relation is a forest, names and slugs are unique |
| Public catalog: `modules/catalog/public-catalog.{service,mapper}.ts` | none | browse, findBySlug, facets | all tables, pricing, stock | one page shows one tier, paging shows each product once, facets and cards agree with what they lead to |
| Stock: `modules/inventory/variant-stock.service.ts` | `variant_stock` | setStock, getAvailability(Many) | public catalog | status derived from the rows of the variants shown |
| Web session: `web/src/{proxy.ts,lib/session*.ts,app/api/session}` | cookies, in-flight refresh map | login, logout, refresh, proxy gate | API sessions | one refresh per token, logout is final, no navigation is stranded |
| Web shop: `web/src/app/[locale]/catalog`, `components/{CatalogFilters,LocaleSwitcher}.tsx` | the address, a context of slugs | filter, page, open, switch locale | public catalog | no dead ends, a switch stays where it is |
| Account forms: `web/src/lib/auth-actions.ts`, `redirect-target.ts`, `app/[locale]/{login,register,account,...}` | cookies, the page | login, register, forgot, reset, logout | auth, password reset | forms say what happened and lead back |
| Admin console: `web/src/lib/admin-actions.ts`, `app/[locale]/admin`, `components/admin` | a tab: what was rendered, its form, its notice | the forms of products, variants, prices, stock, media, certifications, approvals | every admin service | what was accepted is stored, stale tabs do no harm, refusals are explained |
| Guards and roles: `common/{guards,decorators}`, `lib/current-user.ts` | none | RolesGuard, requireStaff | console, API | the page's gate and the API's guard agree |
| Seed: `prisma/seed.ts` | every table | a run | all | may be run again: after a crash, and on a shop in use |
| Mailer, configuration, start-up, health, request pipes, shared types | none | - | - | - |

## 2. Modules

`AuthSessions` <- `AuthSessionsLedger` (refines `SessionLedger`) <- `AuthSessions_proofs`;
`AuthSessions` <- `PasswordReset` (composes recovery with the sessions) <- `PasswordReset_proofs`;
`AuthSessions` <- `WebSession` (composes the browser and the web process with the API) <- `WebSession_proofs`;
`PriceList` <- `PriceResolution` (composes readers with staff edits) <- `Pricing_proofs`;
`PriceResolution` <- `PublicCatalog` (composes catalog queries with approvals and the memoised tier);
`PublicCatalog`, `CatalogViews`, `Storefront`, `AccountForms` <- `Shop` <- `Shop_proofs`;
`ObjectStore` <- `MediaStore`, `Registration` <- `Storage` <- `Storage_proofs`;
`Rows` <- `Products`, `Variants`, `Taxonomy`; `Access` <- `AdminDesk`;
`Products`, `Access` <- `Console` (composes the product form with the API);
`Console`, `Variants`, `Taxonomy`, `AdminDesk`, `Seed` <- `BackOffice` <- `BackOffice_proofs`;
`Ranks` has what both the price list and the catalog need of orders: places in an order and pages.

`Storage`, `Shop` and `BackOffice` put components that do not meet into one specification: a variable
`part`, chosen at first and never changed, names the component that runs, and the variables of the
others stay as they began. That leaves out only interleavings of steps that touch different
variables. The exceptions are components that do meet, and those are composed for real in one part:
the catalog's queries with price resolution, the console with the handlers of `Products`, a tab of
the console with the sign-ins of its browser. The `MC...` modules give constants their values
and state symmetry; `MCShop` also begins with the accounts and slugs of its run, lets staff change the slugs
of one locale, and has at most one of two staff at work on the price list while a price is resolved.

**AuthSessions** - `refresh_tokens` is `owner`, `revoked`, `expired`; `accounts` is `version` and
`isActive`. Everything about an account that a login or `buildJwtPayload` reads (hash, role,
approval, tier) is one version number that grows with every rewrite, because the properties only
ask how old a reading is. `req[r]` is a handler with its program counter and locals. One action
is one stretch of code between two awaits: `LoginRead`/`LoginIssue`
(`auth.service.ts:30-46`, `82-95`), `RotateRead`/`RotateAccount`/`RotateCommit`/`Reply`
(`token.service.ts:59-95`), `Logout`, `ApprovalCommit`/`ApprovalRevoke`
(`business-accounts.service.ts:160-208`). `Abort` is a process stop, a lost connection or a failed
statement at any of those points; `Expire` is time; `SetActive` a change made by hand in the
database (no code writes `isActive`). The rest is what an observer records (`parent`, `claim`, `origin`, `fence`,
`firm`, `sealed`), which no guard reads. A rotation's transaction is one step; an `updateMany` that
waits for the row lock of a rotation does not see the row the rotation inserts, so it ends as if it
had come first.

**SessionLedger** - what the token service promises without its reads, versions and replies: a
session opens through a grant or is renewed with a ticket taken while it was open, and a use of a
ticket closes it. `AuthSessionsLedger` maps handlers to grants and tickets.

**PasswordReset** - `password_reset_tokens` is `linkOwner`, `used`, `lapsed`; `job[j]` is a
`request()` or `reset()` handler. It extends the sessions: a reset's transaction makes a new account
version, its revocation is the same `RevokeAfterRewrite`.

**WebSession** - one browser: `jar` holds its two cookies, each as the pair it came with; `nav[n]` is
a request of the browser from `Send` to `Respond` (or `LoseResponse`), carrying the cookies it left
with. A page request meets the proxy (`proxy.ts`): `ProxyPass`, or, without an access cookie,
`refreshSession`: `ProxyJoin` awaits the exchange that `inFlight` names for the token, `ProxyStart`
begins one. `RouteRefresh`, `RouteLogin` and `RouteLogout` are the handlers under `app/api/session`
and the server actions that do the same. `call[r]` is the web process's end of a call whose API end
is the handler `req[r]` of `AuthSessions`: `ApiAccept`/`ApiRefuse` to `ApiReply`, `ApiFail` when it
ends with something other than a 401, `Cut` when the web process gives up while the API goes on. When a call
settles, its entry leaves the map and every request that awaits it goes on in the same step
(`Settle`), as the `finally` and the awaiting callbacks of one promise do. `unshared` and `signedOut` are observed
only. Accounts stay active and are not rewritten here: `AuthSessions` covers both.

**PriceList** - `table` is a set of rows with ids; staff handlers in `admin[s]`. Prisma's `upsert`
with a nested read runs as select then insert or update, so it is two steps. The price is data no
property tells apart and is left out: an update changes nothing here.

**PriceResolution** - readers beside the staff. A query returns any subset of the rows of its key
range: that stands for the `validFrom`/`validTo` window against the clock. A batch visits its rows
in any order.

**ObjectStore** - `StorageService` over MinIO. Keys are given out once (`buildKey` uses a UUID); a put
or a delete may do its work and fail to say so. `lost` records the keys whose object then has nobody
to delete it. Media and licences are in two buckets; here they are in one set of objects, told apart
by key (`MediaKeys`, `LicenceKeys`).

**MediaStore** - the media of one product (no operation reads another's). A row is named by its object
key; `rows` and `sortOrder` are `product_media`. `upload` is `UploadPut`, `UploadMax`,
`UploadInsert`, `UploadSign`, with `UploadCleanup` its catch block; `remove` is `RemoveFind`,
`RemoveRow`, `RemoveObject`; `reorder` is `ReorderCheck`, `ReorderCommit`, whose transaction fails if
one of its rows has gone. Each step can fail, `Stop` is the process stopping at any await, and an
insert may commit unheard (`UploadInsertUnanswered`).

**Registration** - `register` of businesses and `registerCustomer`. `form[h]` holds what its open
transaction has inserted; the unique indexes on email and taxId make `InsertAccount` and
`InsertCompany` wait while another open transaction holds the value, and fail (`EmailTaken`,
`TaxIdTaken`, by the model Prisma names) when it is committed. `DiscardLicence` is the catch block.
The login that follows a customer's registration is `AuthSessions`' own.

**Rows** - what the admin services do alike: a partial body written over a row (`undefined` leaves a
column alone, `null` clears it), a text per locale, and a slot per request.

**Products** - `products` and `texts` (the translations, each a name with its slug). `create` and
`softDelete` are one step, as their reads ask only whether a row exists and nothing deletes it;
`update` reads and checks the age range in one statement (`UpdateRead`) and writes in another
(`UpdateCommit`); the admin list reads its page and counts its total in two. The description of a locale
(`descriptions`) is apart from its name and slug, because a body may have one without the other change: left
out it stays as it was, as Prisma treats `undefined`; null clears it.

**Variants** - `variants` with the two unique columns, `certs`. A write that collides leaves the
transaction and *then* asks the database which column it was (`LookUpSku`, `LookUpBarcode`): another write may fall in between, which `raced` notes, and a variant that sends back its own
sku finds itself, which `resent` notes. A null in the units of a creation counts as a value below any other
(`SentOK`); in an update the row's value stands for it (`Counted`).

**Taxonomy** - `parents` (the category tree), `categoryTexts`, `brands`. A handler is one step.

**PublicCatalog** - `visit` is one request of the viewer, with one step per query it awaits: the tier for
the scopes, the ids of a search or of a page, the rows, the count, the tier for the prices. `walk` is
the viewer turning the pages of one query; `counts` the facets read last. Staff edit `shelf`, the
viewer's approval is `PriceResolution`'s.

**CatalogViews** - the card and the detail of one product: rows first, stock second (`getAvailabilityMany`
on the variants the first read found), composed as `public-catalog.mapper` does.

**Storefront** - one tab: `address` (all a page is made from), `shown`, and `context`, the slugs that an
effect of the product page publishes for the `LocaleSwitcher` some time after it is shown. `offered` is what
the viewer may see: `findBySlug` answers 404 for an unknown slug, a product that is not active, and one out
of the viewer's scopes alike. Staff rename, retire and rescope products and put them back, and the viewer's
own scopes change (`OfferOther`), at any time. A card leads where its page said when it was made.

**Access** - the roles each controller declares, the roles each page of the console wants
(`requireStaff`), `RolesGuard`, and `ERROR_KEY_MAP`, which makes a notice of an error code.

**AdminDesk** - a tab that shows the past: `tab` is what was rendered, `visitor` who the browser is
signed in as now. Submissions are calls behind the guards; the services they reach are modelled
elsewhere, and here answer with any code they may.

**Console** - the product form: `desks[q]` is a tab with the form it shows (a row, a text and a description
per locale) and the form it sent. `ParseProductFields` is what leaves the form: no brand where none is
chosen, no text for a locale whose name and slug are blank, no description where that is blank. `Save` and
`SubmitNew` start the handler of `Products` in slot `q`; the answer may be lost, after which the user may
send the form again. Names and slugs are kept by the form's own state through an answer (`Rerendered`), the
other fields go back to what was rendered. What a deactivation answers is discarded: it leaves no notice.

**AccountForms** - `place` (page, locale, and the `next` it carries), `session`, `logins` (the accounts and
their passwords), `mailed` (a reset link), `answer` (what the form shows) beside `done` (what the API
did). Each call of the API is one step whose answer may be lost.

**Seed** - `Script` is the list of upserts of `seed.ts`, in its order; `base` is the database, `line` the next
statement, `held` the ids the run got back and refers to rows by. `Crash` stops it between any two, `Start`
begins (again), and staff edit what it seeded between and during runs. `Take` is a row of somebody else's that has one of the unique values the script
writes beside its keys, a slug, a barcode or a taxId, before the script first wrote it or after staff
changed it there; each statement with such a value may meet one. A row of theirs that has the *key* of a
seeded one is left out: a run takes it for its own. Tiers and brands are upserted side by side in the code, which no property
tells from one after the other. Two more products, copies of the first with other values, are left out.

## 3. Runs

| Run | Bounds | Shows |
|---|---|---|
| `sessions` | 1 account, 3 tokens, 3 handlers, 1 rewrite | types, refinement of the ledger, final revocation, forced login, fresh claims, sequential single use |
| `double_rotation` | 1 account, 3 tokens, 2 handlers | **violated**: "Single-use rotation" |
| `transition` | 1 account, 3 tokens, 2 handlers | **violated**: "force a fresh login" |
| `password_reset` | 1 account, 1 token, 1 handler, 2 links, 2 jobs | superseding and sequential single use of links, resets beside sessions |
| `link_twice` | 2 links, 2 jobs, no sessions | **violated**: "Single-use", and "a second request supersedes the first" |
| `web_coalesce` | 3 tokens, 2 calls, 2 requests of the browser, pages and logins | the in-flight map makes rotation single-use |
| `web_session` | 2 tokens, 1 call, 2 requests of every kind | types, logout is final, no navigation is stranded |
| `spurious_logout` | as `web_coalesce` | **violated**: no "spurious 401" |
| `storage` | 3 names of keys, 3 handlers, 2 emails, 2 taxIds | media: rows have objects, orphans explained, distinct sort orders; registrations: licences stored and accounted for, whole registrations, true refusals |
| `shop` | prices: 1 variant, 2 tiers, quantities 1..2, 2 ids, 2 staff, 1 reader; catalog: 3 products, 4 queries, pages of 1; views: 2 variants, 2 pictures; tab: 2 products, 3 slugs of which staff change those of one locale, a search, pages of 1 of at most 2; forms: 2 mailboxes, 2 passwords | one row per key, lone deletes, batch equals single, current tier; one tier per page, faithful paging, agreeing pages, no dead ends, a switch of locale that stays where it is, true answers |
| `last_price` | prices as in `shop`, no reader | **violated**: "never left with no retail price" |
| `back_office` | products: 2, 2 requests, 2 texts, ages 0 and 1; variants: 2, 2 skus, 1 barcode; taxonomy: 3 categories, 2 brands; desk: 2 applicants, lists of 1, 2 pictures; seed: 2 edits by staff | uniqueness, checks broken only by stale reads, no lost update, true refusals, the one way to a cycle, what was accepted is stored, stale tabs do no harm, the seed can be run again |

Why the bounds are enough: the races are between two handlers on the rows of one account, one
variant or one product; a third handler is there so that a third party (a revocation, a login, an upload) can fall between
the two, and a third token or row so that a chain has a middle. In `web_session` one call at a time is
enough for two navigations to share it or to follow one another; two calls at once, which a second
exchange of one token needs, are in `web_coalesce`, and `Kinds` leaves out there what would put the
token outside the map. In the catalog a page holds one product, so that every product is a page boundary, and
three products leave a walk one behind it, one under it and one ahead; of the three one is for dealers, one
is retired, two share a name, and one meets several age buckets. A third category is the
middle of the shortest chain a move can close without naming the category itself. A desk's list of one
application is the list of 20 with its limit in reach. Two edits between runs of
the seed are enough for one to spoil a key and one to occupy another.

Tokens, links, keys and ids are never
reused, as random 32-byte values, UUIDs and cuids are not, so their number also bounds a run; every
proved property is proved without the bounds. Symmetry is over interchangeable values only, and the
one run with a liveness property (`web_session`) uses none. Deadlock is checked in
every run.

Liveness: `NavigationReleased`, under weak fairness of `ApiStep(r) \/ ApiFail(r)` for each call: the
event loop of the API and the database serve every handler, and a fetch ends with an answer or an
error. Nothing else is fair: a response may be lost, the user may leave, time may stand still. No
other liveness is claimed: a handler may always be lost, and no code retries.

In `shop` the two products of the tab begin with each other's slug in the other locale, so that a slug kept
across a switch leads astray, and a third slug lets one leave its slug and the other take it.

The violated runs are disagreements between a comment and the code that need two overlapping requests or a
stop between two statements; PROJECT.json quotes each. Two of the claims have two ways to fail, and would
stay violated were the one TLC shows mended: `TransitionForcesLogin` by a login or refresh in flight across
an approval transition, and by a process that stops between the transition and its revocation, which nothing
retries; `SingleUseLink` by two resets with one link, and by two requests that leave two live links. What
the code does deliver is stated beside each of them as a property that holds: `SequentialSingleUse` and
`CoalescedRotation`, `UncontestedForcesLogin`, `SequentialSingleLink`, `LogoutSticks`,
`LoneDeleteKeepsRetail`. `NewestLinkSupersedes` is worded likewise: two overlapping requests for a reset may
leave two live links, but each kills those it could see.

Several properties say exactly which behaviour is excused. The excuses are what the code really does,
and each is reachable in its run:

- `RowsHaveObjects` and `LicencesStored` leave out the rows
  whose own handler deleted their object because it did not hear of its commit or failed after it
  (`torn`, `unheard`), and show that no other run of the code loses an object; `OrderedUnlessContended` says
  which overlaps spoil the sort order and that a reordering repairs it.
- `StaleChecksOnly`: an inverted age range, or a master carton smaller than an inner box, needs two
  overlapping updates, the second checked on values the first has replaced; the console's own form sends both
  ages and so never does it (`ConsoleKeepsRange` in `EditsStored`).
- `CycleOnlyUnderDescendant`: a cycle of categories needs no overlap, only a move under a descendant.
- `RefusalNamesColumn` excuses an update that sends the sku its variant already has (it is told
  `SKU_TAKEN` when the barcode collided) and a collision that another write changed before it was explained.
- `AcceptedIsStored` excuses what is sent blank: a brand, a description, and the name and slug of a locale,
  whose description goes with them. The form leaves each out of the body, and the API keeps what is stored
  while answering ok.
- `OneTierUnlessApprovalChanged`: a request reads the tier twice; an approval between the reads shows
  the old scopes at the new prices.
- `WalkFaithful` claims nothing of a search or of a sort by name with ties once something changes: the ids
  of a search are read before the rows, and the order by name has no tie-breaker.
- `EmptyPageExplained` and `SwitchKeepsPlace`: a search is carried to the other locale with its page, and
  may have fewer results there; a product whose slugs changed while it was shown is followed no more, and one
  that was retired or left the viewer's scopes is said not to be found; before the effect of a product page has
  run, the switch of locale has no slugs, or those of the product before.
- `ForbiddenOnlyAfterRoleChange`: content editors are shown the stock form and are always refused.
- `OverturnedOnlyByStaleTab`: the API takes any decision on top of any other; a tab offers only
  those that were pending when it was rendered.
- `SeedFailsOnlyAfterEdit`, `SeedAddsNoRows`: a renamed sku whose barcode stays makes the next run fail, and
  so does another row that has a seeded slug, barcode or taxId; a renamed brand, or sku whose barcode
  changed too, is seeded again under its old name.
- `AnswersTrue` leaves out the forgotten-password form, which says ok whatever happened, by design.

## 4. Proofs

Every theorem is for any number of accounts, tokens, handlers, links, jobs, requests of the browser,
variants, tiers, rows, staff, readers, keys, emails, taxIds, categories, brands, products, slugs, filters,
pages and passwords, under the assumptions the modules name:

- `None`, `Missing`, `Nobody`, `Unknown` and `Null` are none of the values they stand beside, the bounds are
  naturals, the default tier is a tier;
- bodies have the fields their DTOs have, and those only;
- a catalog has finitely many products, a product finitely many variants, sort orders are integers, and
  names are naturals (they stand for a name's place in the order the database collates them by);
- the retail prices of the seed are at least 2000 VND (they are of six digits): below that, rounding to 500
  could make a dealer pay the retail price.

Every invariant and action property of every passing run is proved: of the run's specification, and for
`shop` of `ShopSpec`, which begins with any accounts and slugs. The theorems of PROJECT.json name them; each
rests on an inductive invariant, whose parts are:

- `AuthSessions_proofs`: `TypeOK`, the inductive `Inv`, and from it the five properties of the run.
  `SealedHasNoSession` is not inductive: `SealHolds` adds that no login or rotation of a sealed account is
  in flight and that revoked or expired covers its rows; `RowsConsistent` that a row stays behind its
  account's version and a parent is revoked; `FirmHolds` carries the firm version through requests in
  flight. The refinement of the ledger (`LedgerCorrect`) takes one ledger step, or none, per action.
- `PasswordReset_proofs`: a step of recovery keeps the sessions' invariant (`ResetCommit` only lets versions
  grow, `ResetRevoke` is a revocation), so `UncontestedForcesLogin` still holds; superseding and single use
  of links.
- `WebSession_proofs`: first `WebSpec => Spec`, each step of the composition being a step of `AuthSessions`
  or none of its variables', so that every theorem above holds of it. Then `CoalescedRotation`: `CallsHold`
  says that a call in progress for a token outside `unshared` is the one `inFlight` names, so two of them
  cannot be past the API's check at once, and a rotated token is revoked and passes no check again.
  `LogoutSticks`: `SignOutHolds` says that no request that could fill the jar of a signed-out browser is in
  flight.
- `Ranks`: in an order without ties each row has a place, the number of rows not after it, and a page is the
  rows at an interval of places (`PageFull`, `PageWithin`). The lemmas are pigeonhole arguments over
  injections into intervals.
- `Pricing_proofs`: one row per key and the lone delete (`AdminConsistent` says what a delete that has
  counted knows); then the resolutions. `BatchConsistent` is the loop invariant of the reduction: the best
  row so far is replaced by no row visited. With distinct keys that is `findFirst`'s row, which is why
  `OneRowPerKey` is needed. That `findFirst` finds a maximum uses that the naturals are well-founded.
- `Storage_proofs`: `MediaInv` and `RegistrationInv` are inductive. For the objects, `UploadsFresh`: a key
  between its put and its row is in no other hands; `DeletionsSafe`: an object is deleted only once its row
  has gone or is torn. For the sort orders, `OrderHolds`: a pending insert comes after every row and after
  every position a pending reordering gives, which is the pigeonhole principle, since n distinct positions
  reach at least n - 1. For registrations, `RegistrationsHold`: open transactions hold distinct emails and
  taxIds, none of them committed, and a licence is in the hands of one registration.
- `Shop_proofs`, the catalog: `WalkHolds` is what makes paging faithful. The places of the rows a walk has
  seen are all before the page it is at, so none is seen twice; a row that was there throughout and whose
  place has been passed has been seen, so none is missed. When a row joins the result places only move up,
  when one leaves they only move down (`PlaceMoves`), so each guarantee is lost to one kind of change only,
  which is what `grew` and `shrank` excuse. `CountsHold`: the counts and totals read are of the rows as they
  are while nothing has changed since. `TierHolds`: which tiers the viewer held while a listing is answered.
  `ViewsInv`: a view that nothing has disturbed holds the product as it is. The steps of the resolutions
  that the catalog shares keep `PricesInv` because a catalog step is a step of theirs, or none of their
  variables' (`CatalogPrices`).
- `Shop_proofs`, the tab and the forms: `StorefrontInv` says that what is shown was made from the address,
  and from the catalog as it is unless it `changed`; with that the last page in reach has an item
  (`PageInReach`, `PageBefore`) and the slugs the switch uses are those of the page. `PlaceHolds`: the
  address to come back to survives failed attempts and is on sign-in pages only. `ShopInv` puts the parts
  together.
- `BackOffice_proofs`, products and console: `ProductsInv` says of each handler what it found that still
  holds (`JobFits`): that the row exists, and that the body was in order with the row as it was read. An
  inverted range is then a step whose row differs from the one read (`RangeStep`). `ConsoleInv` follows the
  form through its request: `FormFits`, `HeldFits` and `DeskFits` say what a form can hold, `JobOfDesk` that the handler
  in flight is the desk's own with the body the desk sent. So what an accepted save wrote is what the form
  had (`ParsedNotes`, `SentFills`), and where the form sent nothing, what was there.
- `BackOffice_proofs`, variants: `NoTwins` is the two unique columns, `Remembers` what a refused write
  carries into the look-up after it, `CertsAnswered` that one delete of two is told it did it.
- `BackOffice_proofs`, taxonomy: a step moves at most one category, never under itself and only under one
  that exists (`StepMoves`). So a cycle that a step makes goes through the category moved. If the new parent
  were not below it, a set of categories closed under parents would hold the parent and not the category,
  and what the cycle has in that set would have been a cycle before the step. Texts and brands: each locale
  of a list of texts keeps the last one given (`LastPosition`), and the unique indexes refuse the rest.
- `BackOffice_proofs`, the desk: `TabInv` says that a tab shows lists that were so when rendered; a notice
  of a refused role needs another sign-in since.
- `BackOffice_proofs`, the seed: `IdsHold` and `KeysHold` are the indexes; every step puts one row in the
  place of the row with its id, or adds one (`Put`). `HeldHolds`: the ids a run holds are of rows that keep
  the name they were asked for, unless staff renamed them, and each thing others refer to has one.
  `RowsHold`: while staff renamed nothing, each row that is not somebody else's is what one statement seeds,
  of the parent that statement names; a statement that collides would then collide with the row it found, so
  it cannot (`NoCollision`), or with a row that took its value; and the rows of a table that are the script's
  own map one to one to statements (`NoRowAdded`). `DoneHolds`: what
  the run has executed is still there, which no later statement writes over (`ExecutesApart`).

Only model-checked: `NavigationReleased`, which is liveness under fairness and out of the prover's reach.
The violated claims are shown by TLC's counterexamples.

## 5. Not modelled, and the plan

PROJECT.json "components" has every part with what is left out of it. Not modelled: the mailer (a sent
mail is a step of its caller), configuration, start-up and health checks, request validation (DTOs are
taken to be valid; what a valid DTO may leave out is modelled), URLs and headers, presentation and
wording, shared types. They keep no state a property could relate. Of the catalog's
filters brand, origin and gender are left out: they are copies of `category`. `createCategoryAction` and
`createBrandAction` are called by no page.

Four hazards have no property, each because the code goes wrong there by itself and every property that
holds has to except it; PROJECT.json says so at each. `deleteEntry` counts retail rows of any minimum quantity,
so that a variant may be left without a price for a single piece. An update that sends its own sku and
another's barcode is answered `SKU_TAKEN`. The deletions of a price and of a certification and the licence
link drop a 403 that should be visible. A refresh begun before a logout and answered after it brings the
session back.

Met while modelling, and not contradicted by any line of the repository: the list of business accounts
has no pager, so a pending one may be out of reach behind 20 newer ones (`HiddenOnlyBehindNewer` says when);
a retired product cannot be put back on sale from the console; a create whose answer was lost is answered
`SLUG_TAKEN` when sent again; of two overlapping deletes of one certification the second is answered 500;
`updateApproval` answers `PRICE_TIER_NOT_FOUND`, while the console's map of errors knows `TIER_NOT_FOUND`.

Plan: an abstract catalog, whose listing is one step over one state of the shelf, that `PublicCatalog`
implements wherever nothing changed during the request.
