----------------------------- MODULE Storefront -----------------------------
(***************************************************************************)
(* One tab of the shop of apps/web: the catalog page with its filters, its *)
(* pager and the switch of locale, and the page of a product.  The address *)
(* is all the state a page is made from; the switch also has the slugs     *)
(* that an effect of the product page leaves in a context, a moment after  *)
(* the page is shown.  Staff edit the catalog meanwhile, and decide what   *)
(* this viewer may see of it.  A page of the catalog is as many products   *)
(* as the API counts and returns, and leads to some of those on offer;     *)
(* which they are is PublicCatalog's.                                      *)
(***************************************************************************)
EXTENDS Integers

CONSTANTS Goods,        \* products (bound)
          Slugs,        \* their slugs (bound)
          Filters,      \* combinations of filters in an address (bound)
          Searches,     \* those of them with a search term
          NoFilter,
          MaxHits,      \* products a query can have (bound)
          RowsPerPage,  \* PAGE_SIZE
          Missing

ASSUME StorefrontAssumption ==
  /\ Searches \subseteq Filters \ {NoFilter} /\ NoFilter \in Filters
  /\ RowsPerPage \in Nat \ {0} /\ MaxHits \in Nat
  /\ Missing \notin Goods \cup Slugs \cup [{"vi", "en"} -> Slugs]

VARIABLES
  slugs,     \* the slug of each product in each locale
  offered,   \* the products that are active and in a scope of the viewer's
  hits,      \* how many products the API finds for a filter in a locale
  address,   \* what the tab is at
  shown,     \* what it shows
  context,   \* the slugs published for the switch, Missing if none
  settled,   \* the effect of the page shown has run
  changed    \* the catalog, or what the viewer may see of it, is not that
             \* which the page was made from

storefront == <<slugs, offered, hits, address, shown, context, settled, changed>>

ShopLocales == {"vi", "en"}

-----------------------------------------------------------------------------
(* Pages                                                                   *)

CatalogAddress(l, f, page) ==
  [at |-> "catalog", locale |-> l, filter |-> f, page |-> page, slug |-> Missing]
ProductAddress(l, s) ==
  [at |-> "product", locale |-> l, filter |-> NoFilter, page |-> 1, slug |-> s]

Listing(total, items, cards) ==
  [at |-> "catalog", total |-> total, items |-> items, cards |-> cards,
   product |-> Missing, slugs |-> Missing]
Bare(at) == [Listing(0, 0, {}) EXCEPT !.at = at]

\* CatalogPage: the rows of the page that exist.
ItemsOf(total, page) ==
  LET left == total - (page - 1) * RowsPerPage IN
  IF left < 0 THEN 0 ELSE IF left > RowsPerPage THEN RowsPerPage ELSE left

\* The cards of a page with products: their slugs in its locale.
Cards(l, items) == IF items = 0 THEN {} ELSE {slugs[p][l] : p \in offered}

\* findBySlug: a slug resolves in its own locale, and to a product on offer to
\* the viewer, or not at all.
Resolved(l, s) == {p \in offered : slugs[p][l] = s}

\* CatalogPage with an answer.
Found(total, to) ==
  LET items == ItemsOf(total, to.page) IN Listing(total, items, Cards(to.locale, items))

Page(to) ==
  IF to.at = "catalog" THEN Found(hits[to.filter][to.locale], to)
  ELSE IF Resolved(to.locale, to.slug) = {} THEN Bare("notFound")
  ELSE LET p == CHOOSE p \in Resolved(to.locale, to.slug) : TRUE IN
       [Bare("product") EXCEPT !.product = p, !.slugs = slugs[p]]

Visit(to) ==
  /\ address' = to
  /\ shown' = Page(to)
  /\ settled' = FALSE /\ changed' = FALSE
  /\ UNCHANGED <<slugs, offered, hits, context>>

\* The API does not answer: the page of the catalog says so and links to it,
\* that of a product is left to the error boundary.  A visit that fails is the
\* visit and then this.
ReloadFails ==
  /\ shown' = Bare("failed")
  /\ settled' = FALSE /\ changed' = FALSE
  /\ UNCHANGED <<slugs, offered, hits, address, context>>

TotalPages(total) ==
  IF total = 0 THEN 1 ELSE (total + RowsPerPage - 1) \div RowsPerPage

-----------------------------------------------------------------------------
(* Links and forms                                                         *)

\* Mutant of Filtered: the page number is kept.
FilteredKeepsPage(f) == CatalogAddress(address.locale, f, address.page)

\* CatalogFilters: every change of a filter goes to the first page.
Filtered(f) == CatalogAddress(address.locale, f, 1)

SetFilter(f) ==
  /\ shown.at = "catalog"
  /\ Visit(Filtered(f))

\* Mutant of TurnPage: the next page is offered on the last one.
TurnPageAlways(step) ==
  /\ shown.at = "catalog"
  /\ step = 1 \/ address.page > 1
  /\ Visit(CatalogAddress(address.locale, address.filter, address.page + step))

\* The pager, as it was drawn.
TurnPage(step) ==
  /\ shown.at = "catalog"
  /\ IF step = 1 THEN address.page < TotalPages(shown.total) ELSE address.page > 1
  /\ Visit(CatalogAddress(address.locale, address.filter, address.page + step))

\* A card leads to a product by the slug it had when the page was made.
OpenCard(s) ==
  /\ s \in shown.cards
  /\ Visit(ProductAddress(address.locale, s))

\* The link of the header, of a product page and of a page that failed.
ToCatalog == Visit(CatalogAddress(address.locale, NoFilter, 1))

Reload == Visit(address)

\* LocaleSwitcher: the slug in the context, or else the same path and query.
SwitchTarget(l) ==
  IF context # Missing THEN ProductAddress(l, context[l])
  ELSE [address EXCEPT !.locale = l]

SwitchLocale(l) == Visit(SwitchTarget(l))

\* Mutant of PublishSlugs: nothing is cleared when a product page goes.
PublishSlugsOnly ==
  /\ ~settled
  /\ context' = IF shown.at = "product" THEN shown.slugs ELSE context
  /\ settled' = TRUE
  /\ UNCHANGED <<slugs, offered, hits, address, shown, changed>>

\* SyncProductLocaleSlugs: the effect publishes the slugs the page was made
\* with, which no other page has, and so clears those of a page that has gone.
PublishSlugs ==
  /\ ~settled
  /\ context' = shown.slugs
  /\ settled' = TRUE
  /\ UNCHANGED <<slugs, offered, hits, address, shown, changed>>

-----------------------------------------------------------------------------
(* Staff                                                                   *)

Rename(p, l, s) ==
  /\ \A o \in Goods : slugs[o][l] # s
  /\ slugs' = [slugs EXCEPT ![p][l] = s]
  /\ changed' = TRUE
  /\ UNCHANGED <<offered, hits, address, shown, context, settled>>

\* A product is retired or its scope changed, or put back; or the viewer signs
\* in or out, or an approval is decided, and sees other scopes.
OfferOther(ps) ==
  /\ offered' = ps
  /\ changed' = TRUE
  /\ UNCHANGED <<slugs, hits, address, shown, context, settled>>

\* Only a search, which reads the names of one locale, tells locales apart.
SetHits(f, ls, n) ==
  /\ ls = ShopLocales \/ f \in Searches
  /\ hits' = [hits EXCEPT ![f] = [l \in ShopLocales |-> IF l \in ls THEN n ELSE @[l]]]
  /\ changed' = TRUE
  /\ UNCHANGED <<slugs, offered, address, shown, context, settled>>

-----------------------------------------------------------------------------

StorefrontInit ==
  /\ slugs \in [Goods -> [ShopLocales -> Slugs]]
  /\ \A p, o \in Goods : \A l \in ShopLocales : p # o => slugs[p][l] # slugs[o][l]
  /\ offered \in SUBSET Goods
  /\ hits = [f \in Filters |-> [l \in ShopLocales |-> 0]]
  /\ address = CatalogAddress("vi", NoFilter, 1)
  /\ shown = Listing(0, 0, {})
  /\ context = Missing
  /\ settled = TRUE
  /\ changed = FALSE

StorefrontNext ==
  \/ \E f \in Filters : SetFilter(f)
  \/ \E step \in {-1, 1} : TurnPage(step)
  \/ \E s \in Slugs : OpenCard(s)
  \/ ToCatalog \/ Reload \/ ReloadFails \/ PublishSlugs
  \/ \E l \in ShopLocales : SwitchLocale(l)
  \/ \E p \in Goods, l \in ShopLocales, s \in Slugs : Rename(p, l, s)
  \/ \E ps \in SUBSET Goods : OfferOther(ps)
  \/ \E f \in Filters, ls \in SUBSET ShopLocales, n \in 0 .. MaxHits : SetHits(f, ls, n)

StorefrontSpec == StorefrontInit /\ [][StorefrontNext]_storefront

-----------------------------------------------------------------------------

\* Every variable of this module has its type; the tab is never at a page of
\* the catalog that no query can have.
StorefrontTypeOK ==
  /\ address.page \in 1 .. TotalPages(MaxHits)
  /\ shown.items \in 0 .. RowsPerPage /\ shown.total \in 0 .. MaxHits
  /\ shown.product \in Goods \cup {Missing} /\ shown.cards \subseteq Slugs
  /\ offered \subseteq Goods
  /\ context \in [ShopLocales -> Slugs] \cup {Missing}

\* CatalogFilters resets the page because "a filtered result set on a stale
\* page number would silently render an empty/wrong page".  Following links,
\* an empty page of a query with results is met only when the catalog, or what
\* the viewer may see of it, changed after the link was drawn, when a page that
\* failed or was empty is loaded again, or when a search is carried to the other
\* locale, whose names it matches instead while the switch keeps the page.
EmptyPageExplained ==
  [][shown'.at = "catalog" /\ shown'.items = 0 /\ shown'.total > 0
       => \/ changed
          \/ shown.at = "failed" \/ (shown.at = "catalog" /\ shown.items = 0)
          \/ address.locale # address'.locale /\ address'.filter \in Searches]_storefront

\* Once the effect of a page has run the switch of locale stays where it is: on
\* the same query, or on the same product if it kept the slugs it had when its
\* page was made.  If that product has meanwhile been retired, or moved out of
\* what the viewer may see, the switch says that it is not found; no slug, and
\* none of a product left behind, ever leads to another product.
SwitchKeepsPlace ==
  [][address'.locale # address.locale /\ settled
     => /\ shown.at = "catalog"
           => shown'.at = "catalog" /\ address'.filter = address.filter
        /\ shown.at = "product" /\ slugs[shown.product] = shown.slugs
           => IF shown.product \in offered
                THEN shown'.at = "product" /\ shown'.product = shown.product
                ELSE shown'.at = "notFound"]_storefront

=============================================================================
