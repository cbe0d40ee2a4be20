---------------------------- MODULE Shop_proofs ----------------------------
(***************************************************************************)
(* The shop's side: Storefront for any products, slugs, filters and        *)
(* lengths of pages, PublicCatalog for any products, queries, tiers and    *)
(* staff, CatalogViews for any variants, stock and pictures, AccountForms  *)
(* for any emails and passwords, and Shop, which puts them side by side.   *)
(***************************************************************************)
EXTENDS Shop, Pricing_proofs

-----------------------------------------------------------------------------
(* Storefront                                                              *)

HitCounts == [Filters -> [ShopLocales -> 0 .. MaxHits]]

Addresses == [at : {"catalog", "product"}, locale : ShopLocales, filter : Filters,
              page : 1 .. TotalPages(MaxHits), slug : Slugs \cup {Missing}]

\* A query with more results has no fewer pages, and at least one.
LEMMA PagesGrow ==
  ASSUME NEW total \in 0 .. MaxHits
  PROVE  TotalPages(total) \in Nat \ {0} /\ TotalPages(total) <= TotalPages(MaxHits)
<1> DEFINE R == RowsPerPage
           Div(t) == (t + R - 1) \div R
<1>1. R \in Nat \ {0} /\ MaxHits \in Nat
  BY StorefrontAssumption
<1>2. \A t \in Nat \ {0} : Div(t) \in Nat \ {0}
  BY <1>1
<1>3. total # 0 => Div(total) <= Div(MaxHits)
  BY <1>1
<1>4. \A t \in Nat : TotalPages(t) = IF t = 0 THEN 1 ELSE Div(t)
  BY DEF TotalPages
<1> HIDE DEF Div
<1> QED
  BY <1>1, <1>2, <1>3, <1>4

\* A page after the first that has a product is not past the last.
LEMMA PageInReach ==
  ASSUME NEW total \in Nat, NEW page \in Nat \ {0}, page < TotalPages(total)
  PROVE  ItemsOf(total, page + 1) > 0
<1> DEFINE R == RowsPerPage
           d == (total + R - 1) \div R
<1>1. R \in Nat \ {0}
  BY StorefrontAssumption
<1>2. total # 0 /\ page < d
  BY DEF TotalPages
<1>3. d \in Int /\ d * R <= total + R - 1
  BY <1>1
<1> HIDE DEF d
<1>4. (page + 1) * R <= d * R
  BY <1>1, <1>2, <1>3
<1>5. page * R <= total - 1
  BY <1>1, <1>3, <1>4
<1> QED
  BY <1>1, <1>5 DEF ItemsOf

\* If a page has a product, so has the one before it.
LEMMA PageBefore ==
  ASSUME NEW total \in Nat, NEW page \in Nat \ {0}, page > 1, ItemsOf(total, page) > 0
  PROVE  ItemsOf(total, page - 1) > 0
<1> DEFINE R == RowsPerPage
<1>1. R \in Nat \ {0}
  BY StorefrontAssumption
<1>2. total - (page - 1) * R > 0
  BY <1>1 DEF ItemsOf
<1>3. (page - 1 - 1) * R = (page - 1) * R - R
  BY <1>1
<1> QED
  BY <1>1, <1>2, <1>3 DEF ItemsOf

\* The first page of a query with results has one.
LEMMA FirstPage ==
  ASSUME NEW total \in Nat, total > 0
  PROVE  ItemsOf(total, 1) > 0
BY StorefrontAssumption DEF ItemsOf

\* What the state of a tab always satisfies: its address is one of the shop, and
\* what it shows was made from it, out of a catalog that has changed since if
\* "changed" says so.
ShownHolds ==
  /\ shown.at \in {"catalog", "product", "notFound", "failed"}
  /\ shown.total \in 0 .. MaxHits /\ shown.items \in 0 .. RowsPerPage
  /\ shown.cards \subseteq Slugs
  /\ shown.at = "catalog" =>
       /\ address.at = "catalog"
       /\ shown.items = ItemsOf(shown.total, address.page)
       /\ ~changed => shown.total = hits[address.filter][address.locale]
  /\ shown.at \in {"product", "notFound"} => address.at = "product"
  /\ IF shown.at = "product"
     THEN shown.product \in Goods /\ shown.slugs \in [ShopLocales -> Slugs]
     ELSE shown.product = Missing /\ shown.slugs = Missing

CatalogHolds ==
  /\ slugs \in [Goods -> [ShopLocales -> Slugs]]
  /\ \A p, o \in Goods : \A l \in ShopLocales : p # o => slugs[p][l] # slugs[o][l]
  /\ offered \subseteq Goods
  /\ hits \in HitCounts
  /\ \A f \in Filters \ Searches : hits[f]["vi"] = hits[f]["en"]

StorefrontInv ==
  /\ CatalogHolds
  /\ address \in Addresses
  /\ address.at = "product" => address.filter = NoFilter
  /\ ShownHolds
  /\ context \in [ShopLocales -> Slugs] \cup {Missing}
  /\ settled => context = shown.slugs

\* The fields of a page without a list.
LEMMA BareIs ==
  ASSUME NEW at
  PROVE  Bare(at) = [at |-> at, total |-> 0, items |-> 0, cards |-> {},
                     product |-> Missing, slugs |-> Missing]
BY DEF Bare, Listing

\* A page of the catalog.
LEMMA CatalogPageIs ==
  ASSUME NEW to, to.at = "catalog"
  PROVE  Page(to) = [at |-> "catalog", total |-> hits[to.filter][to.locale],
                     items |-> ItemsOf(hits[to.filter][to.locale], to.page),
                     cards |-> Cards(to.locale, ItemsOf(hits[to.filter][to.locale], to.page)),
                     product |-> Missing, slugs |-> Missing]
BY DEF Page, Found, Listing

\* The page of a product, or of none.
LEMMA ProductPageIs ==
  ASSUME NEW to, to.at # "catalog"
  PROVE  \/ Resolved(to.locale, to.slug) = {} /\ Page(to) = Bare("notFound")
         \/ \E p \in Resolved(to.locale, to.slug) :
              Page(to) = [at |-> "product", total |-> 0, items |-> 0, cards |-> {},
                          product |-> p, slugs |-> slugs[p]]
<1>1. CASE Resolved(to.locale, to.slug) = {}
  BY <1>1 DEF Page
<1>2. CASE Resolved(to.locale, to.slug) # {}
  <2> DEFINE p == CHOOSE p \in Resolved(to.locale, to.slug) : TRUE
  <2>1. p \in Resolved(to.locale, to.slug)
    BY <1>2
  <2>2. Page(to) = [Bare("product") EXCEPT !.product = p, !.slugs = slugs[p]]
    BY <1>2 DEF Page
  <2> HIDE DEF p
  <2>3. Page(to) = [at |-> "product", total |-> 0, items |-> 0, cards |-> {},
                    product |-> p, slugs |-> slugs[p]]
    BY <2>2, BareIs
  <2> QED
    BY <2>1, <2>3
<1> QED
  BY <1>1, <1>2

\* How many products a page has.
LEMMA ItemsType ==
  ASSUME NEW total \in Nat, NEW page \in Nat \ {0}
  PROVE  ItemsOf(total, page) \in 0 .. RowsPerPage
BY StorefrontAssumption DEF ItemsOf

\* What the cards lead to.
LEMMA CardsAreSlugs ==
  ASSUME CatalogHolds, NEW l \in ShopLocales, NEW items
  PROVE  Cards(l, items) \subseteq Slugs
<1>1. \A p \in offered : slugs[p][l] \in Slugs
  BY DEF CatalogHolds
<1> QED
  BY <1>1 DEF Cards

\* Going to an address of the shop keeps the invariant.
LEMMA VisitKeeps ==
  ASSUME StorefrontInv, NEW to \in Addresses, to.at = "product" => to.filter = NoFilter,
         Visit(to)
  PROVE  StorefrontInv'
<1>1. /\ address' = to /\ shown' = Page(to) /\ settled' = FALSE /\ changed' = FALSE
      /\ slugs' = slugs /\ offered' = offered /\ hits' = hits /\ context' = context
  BY DEF Visit
<1>2. CatalogHolds'
  BY <1>1 DEF StorefrontInv, CatalogHolds
<1>3. ShownHolds'
  <2>1. to.filter \in Filters /\ to.locale \in ShopLocales /\ to.page \in Nat \ {0}
    BY PagesGrow, StorefrontAssumption DEF Addresses
  <2>2. CASE to.at = "catalog"
    <3> DEFINE n == hits[to.filter][to.locale]
    <3>1. n \in 0 .. MaxHits
      BY <2>1 DEF StorefrontInv, CatalogHolds, HitCounts
    <3>2. shown' = [at |-> "catalog", total |-> n, items |-> ItemsOf(n, to.page),
                    cards |-> Cards(to.locale, ItemsOf(n, to.page)),
                    product |-> Missing, slugs |-> Missing]
      BY <1>1, <2>2, CatalogPageIs
    <3>6. \A items : Cards(to.locale, items) \subseteq Slugs
      BY <2>1, CardsAreSlugs DEF StorefrontInv
    <3>3. ItemsOf(n, to.page) \in 0 .. RowsPerPage
      BY <2>1, <3>1, ItemsType
    <3>4. n = hits'[address'.filter][address'.locale]
      BY <1>1
    <3>5. shown'.items = ItemsOf(shown'.total, address'.page)
      BY <1>1, <3>2
    <3> HIDE DEF n
    <3> QED
      BY <1>1, <2>2, <3>1, <3>2, <3>3, <3>4, <3>5, <3>6 DEF ShownHolds
  <2>3. CASE to.at = "product" /\ shown' = Bare("notFound")
    <3>1. shown' = [at |-> "notFound", total |-> 0, items |-> 0, cards |-> {},
                    product |-> Missing, slugs |-> Missing]
      BY <2>3, BareIs
    <3> QED
      BY <1>1, <2>3, <3>1, StorefrontAssumption DEF ShownHolds
  <2>4. ASSUME to.at = "product", NEW p \in Resolved(to.locale, to.slug),
               shown' = [at |-> "product", total |-> 0, items |-> 0, cards |-> {},
                         product |-> p, slugs |-> slugs[p]]
        PROVE  ShownHolds'
    <3>1. p \in Goods /\ slugs[p] \in [ShopLocales -> Slugs]
      BY DEF Resolved, StorefrontInv, CatalogHolds
    <3> QED
      BY <1>1, <2>4, <3>1, StorefrontAssumption DEF ShownHolds
  <2>5. to.at \in {"catalog", "product"}
    BY DEF Addresses
  <2> QED
    BY <1>1, <2>2, <2>3, <2>4, <2>5, ProductPageIs
<1> QED
  BY <1>1, <1>2, <1>3 DEF StorefrontInv

\* The addresses the links of a page and the switch lead to.
LEMMA CatalogAddressOK ==
  ASSUME NEW l \in ShopLocales, NEW f \in Filters, NEW n \in 1 .. TotalPages(MaxHits)
  PROVE  CatalogAddress(l, f, n) \in Addresses /\ CatalogAddress(l, f, n).at = "catalog"
BY DEF CatalogAddress, Addresses

\* The address of a product's page.
LEMMA ProductAddressOK ==
  ASSUME NEW l \in ShopLocales, NEW s \in Slugs
  PROVE  /\ ProductAddress(l, s) \in Addresses
         /\ ProductAddress(l, s).at = "product" /\ ProductAddress(l, s).filter = NoFilter
<1>1. 1 \in 1 .. TotalPages(MaxHits)
  BY PagesGrow, StorefrontAssumption
<1> QED
  BY <1>1, StorefrontAssumption DEF ProductAddress, Addresses

\* The same address in another language.
LEMMA AddressInLocale ==
  ASSUME StorefrontInv, NEW l \in ShopLocales
  PROVE  /\ [address EXCEPT !.locale = l] \in Addresses
         /\ [address EXCEPT !.locale = l].at = address.at
         /\ [address EXCEPT !.locale = l].locale = l
         /\ [address EXCEPT !.locale = l].filter = address.filter
         /\ [address EXCEPT !.locale = l].page = address.page
BY DEF StorefrontInv, Addresses

\* Where the switch leads.
LEMMA SwitchTargetOK ==
  ASSUME StorefrontInv, NEW l \in ShopLocales
  PROVE  /\ SwitchTarget(l) \in Addresses
         /\ SwitchTarget(l).at = "product" => SwitchTarget(l).filter = NoFilter
<1>1. CASE context # Missing
  <2>1. context[l] \in Slugs
    BY <1>1 DEF StorefrontInv
  <2> QED
    BY <1>1, <2>1, ProductAddressOK DEF SwitchTarget
<1>2. CASE context = Missing
  BY <1>2, AddressInLocale DEF SwitchTarget, StorefrontInv
<1> QED
  BY <1>1, <1>2

\* Where the pager leads.
LEMMA TurnPageOK ==
  ASSUME StorefrontInv, NEW step \in {-1, 1}, TurnPage(step)
  PROVE  /\ address.page + step \in 1 .. TotalPages(MaxHits)
         /\ address.locale \in ShopLocales /\ address.filter \in Filters
<1>1. /\ address.page \in 1 .. TotalPages(MaxHits)
      /\ address.locale \in ShopLocales /\ address.filter \in Filters
  BY DEF StorefrontInv, Addresses
<1>2. TotalPages(MaxHits) \in Nat /\ TotalPages(shown.total) \in Nat
      /\ TotalPages(shown.total) <= TotalPages(MaxHits)
  BY PagesGrow, StorefrontAssumption DEF StorefrontInv, ShownHolds
<1>3. IF step = 1 THEN address.page < TotalPages(shown.total) ELSE address.page > 1
  BY DEF TurnPage
<1> QED
  BY <1>1, <1>2, <1>3

\* Every step keeps the invariant.
LEMMA StorefrontStep ==
  ASSUME StorefrontInv, [StorefrontNext]_storefront
  PROVE  StorefrontInv'
<1>1. /\ address.locale \in ShopLocales /\ address.filter \in Filters
      /\ 1 \in 1 .. TotalPages(MaxHits) /\ NoFilter \in Filters
  BY PagesGrow, StorefrontAssumption DEF StorefrontInv, Addresses
<1>2. ASSUME NEW f \in Filters, SetFilter(f)
      PROVE  StorefrontInv'
  BY <1>1, <1>2, CatalogAddressOK, VisitKeeps DEF SetFilter, Filtered
<1>3. ASSUME NEW step \in {-1, 1}, TurnPage(step)
      PROVE  StorefrontInv'
  <2>1. Visit(CatalogAddress(address.locale, address.filter, address.page + step))
    BY <1>3 DEF TurnPage
  <2> QED
    BY <1>3, <2>1, TurnPageOK, CatalogAddressOK, VisitKeeps
<1>4. ASSUME NEW s \in Slugs, OpenCard(s)
      PROVE  StorefrontInv'
  BY <1>1, <1>4, ProductAddressOK, VisitKeeps DEF OpenCard
<1>5. CASE ToCatalog
  BY <1>1, <1>5, CatalogAddressOK, VisitKeeps DEF ToCatalog
<1>6. CASE Reload
  BY <1>6, VisitKeeps DEF Reload, StorefrontInv
<1>7. ASSUME NEW l \in ShopLocales, SwitchLocale(l)
      PROVE  StorefrontInv'
  BY <1>7, SwitchTargetOK, VisitKeeps DEF SwitchLocale
<1>8. CASE ReloadFails
  <2>1. shown' = [at |-> "failed", total |-> 0, items |-> 0, cards |-> {},
                  product |-> Missing, slugs |-> Missing]
    BY <1>8, BareIs DEF ReloadFails
  <2>2. ShownHolds'
    BY <2>1, StorefrontAssumption DEF ShownHolds
  <2> QED
    BY <1>8, <2>2 DEF ReloadFails, StorefrontInv, CatalogHolds
<1>9. CASE PublishSlugs
  <2>1. shown.slugs \in [ShopLocales -> Slugs] \cup {Missing}
    BY DEF StorefrontInv, ShownHolds
  <2> QED
    BY <1>9, <2>1 DEF PublishSlugs, StorefrontInv, CatalogHolds, ShownHolds
<1>10. ASSUME NEW p \in Goods, NEW l \in ShopLocales, NEW t \in Slugs, Rename(p, l, t)
       PROVE  StorefrontInv'
  <2>1. CatalogHolds'
    BY <1>10 DEF Rename, StorefrontInv, CatalogHolds
  <2>2. ShownHolds'
    BY <1>10 DEF Rename, StorefrontInv, ShownHolds
  <2> QED
    BY <1>10, <2>1, <2>2 DEF Rename, StorefrontInv
<1>11. ASSUME NEW f \in Filters, NEW ls \in SUBSET ShopLocales, NEW n \in 0 .. MaxHits,
              SetHits(f, ls, n)
       PROVE  StorefrontInv'
  <2> DEFINE row == [l \in ShopLocales |-> IF l \in ls THEN n ELSE hits[f][l]]
  <2>1. /\ row \in [ShopLocales -> 0 .. MaxHits]
        /\ f \notin Searches => row["vi"] = row["en"]
        /\ hits' = [hits EXCEPT ![f] = row]
    BY <1>11 DEF SetHits, StorefrontInv, CatalogHolds, HitCounts, ShopLocales
  <2> HIDE DEF row
  <2>2. CatalogHolds'
    BY <1>11, <2>1 DEF SetHits, StorefrontInv, CatalogHolds, HitCounts
  <2>3. ShownHolds'
    BY <1>11 DEF SetHits, StorefrontInv, ShownHolds
  <2> QED
    BY <1>11, <2>2, <2>3 DEF SetHits, StorefrontInv
<1>12. ASSUME NEW ps \in SUBSET Goods, OfferOther(ps)
       PROVE  StorefrontInv'
  BY <1>12 DEF OfferOther, StorefrontInv, CatalogHolds, ShownHolds
<1>13. CASE UNCHANGED storefront
  BY <1>13 DEF storefront, StorefrontInv, CatalogHolds, ShownHolds
<1> QED
  BY <1>2, <1>3, <1>4, <1>5, <1>6, <1>7, <1>8, <1>9, <1>10, <1>11, <1>12, <1>13 DEF StorefrontNext

\* A tab begins on the first page of an empty shop.
LEMMA StorefrontInitial == StorefrontInit => StorefrontInv
<1> SUFFICES ASSUME StorefrontInit
             PROVE  StorefrontInv
  OBVIOUS
<1>1. CatalogHolds
  BY StorefrontAssumption DEF StorefrontInit, CatalogHolds, HitCounts, ShopLocales
<1>2. address \in Addresses /\ address.at = "catalog"
  <2>1. 1 \in 1 .. TotalPages(MaxHits)
    BY PagesGrow, StorefrontAssumption
  <2> QED
    BY <2>1, StorefrontAssumption, CatalogAddressOK DEF StorefrontInit, ShopLocales
<1>3. ShownHolds
  BY <1>2, StorefrontAssumption
     DEF StorefrontInit, ShownHolds, Listing, ItemsOf, ShopLocales, CatalogAddress
<1> QED
  BY <1>1, <1>2, <1>3 DEF StorefrontInit, StorefrontInv, Listing

\* So it always holds.
LEMMA StorefrontInvCorrect == StorefrontSpec => []StorefrontInv
BY StorefrontInitial, StorefrontStep, PTL DEF StorefrontSpec

\* Types, and no page that no query has.
THEOREM StorefrontTypeCorrect == StorefrontSpec => []StorefrontTypeOK
<1>1. StorefrontInv => StorefrontTypeOK
  BY DEF StorefrontInv, CatalogHolds, ShownHolds, Addresses, StorefrontTypeOK
<1> QED
  BY <1>1, StorefrontInvCorrect, PTL

-----------------------------------------------------------------------------

\* Of a page that is loaded again from an unchanged catalog as much is shown.
LEMMA SameListing ==
  ASSUME StorefrontInv, NEW to \in Addresses, Visit(to), to.filter = address.filter,
         to.page = address.page, hits[to.filter][to.locale] = hits[address.filter][address.locale],
         to.at = "catalog", shown.at = "catalog", ~changed
  PROVE  shown'.items = shown.items
<1>1. shown'.items = ItemsOf(hits[to.filter][to.locale], to.page)
  BY CatalogPageIs DEF Visit
<1> QED
  BY <1>1 DEF StorefrontInv, ShownHolds

\* The three ways to a page of the catalog that could be empty.
LEMMA FirstPageHasItems ==
  ASSUME StorefrontInv, NEW f \in Filters, Visit(CatalogAddress(address.locale, f, 1)),
         shown'.total > 0
  PROVE  shown'.items > 0
<1> DEFINE to == CatalogAddress(address.locale, f, 1)
           n == hits[f][address.locale]
<1>1. to.at = "catalog" /\ to.filter = f /\ to.locale = address.locale /\ to.page = 1
  BY DEF CatalogAddress
<1>2. n \in Nat
  BY StorefrontAssumption DEF StorefrontInv, CatalogHolds, HitCounts, Addresses
<1>3. shown' = Page(to)
  BY DEF Visit
<1> HIDE DEF to
<1>4. shown'.total = n /\ shown'.items = ItemsOf(n, 1)
  BY <1>1, <1>3, CatalogPageIs
<1> HIDE DEF n
<1> QED
  BY <1>2, <1>4, FirstPage

\* A page that was turned to lists something, if the list is the same.
LEMMA TurnedPageHasItems ==
  ASSUME StorefrontInv, NEW step \in {-1, 1}, TurnPage(step), ~changed, shown.items # 0
  PROVE  shown'.items > 0
<1> DEFINE to == CatalogAddress(address.locale, address.filter, address.page + step)
           n == hits[address.filter][address.locale]
<1>1. /\ to.at = "catalog" /\ to.filter = address.filter /\ to.locale = address.locale
      /\ to.page = address.page + step
  BY DEF CatalogAddress
<1>2. shown' = Page(to)
  BY DEF TurnPage, Visit
<1> HIDE DEF to
<1>3. shown'.items = ItemsOf(n, address.page + step)
  BY <1>1, <1>2, CatalogPageIs
<1>4. shown.at = "catalog" /\ n = shown.total /\ n \in Nat
  BY StorefrontAssumption DEF TurnPage, StorefrontInv, ShownHolds
<1>5. address.page \in Nat \ {0}
  BY PagesGrow, StorefrontAssumption DEF StorefrontInv, Addresses
<1>6. ItemsOf(n, address.page) > 0
  <2>1. shown.items = ItemsOf(n, address.page) /\ shown.items \in 0 .. RowsPerPage
    BY <1>4 DEF StorefrontInv, ShownHolds
  <2> QED
    BY <2>1, StorefrontAssumption
<1> HIDE DEF n
<1>7. CASE step = 1
  <2>1. address.page < TotalPages(n)
    BY <1>4, <1>7 DEF TurnPage
  <2> QED
    BY <1>3, <1>4, <1>5, <1>7, <2>1, PageInReach
<1>8. CASE step = -1
  <2>1. address.page > 1 /\ address.page + step = address.page - 1
    BY <1>5, <1>8 DEF TurnPage
  <2> QED
    BY <1>3, <1>4, <1>5, <1>6, <2>1, PageBefore
<1> QED
  BY <1>7, <1>8

\* A page of a product, or of none, lists nothing.
LEMMA ProductListsNothing ==
  ASSUME NEW to, to.at # "catalog", Visit(to)
  PROVE  shown'.at # "catalog"
BY ProductPageIs, BareIs DEF Visit

EmptyPageStep ==
  shown'.at = "catalog" /\ shown'.items = 0 /\ shown'.total > 0
    => \/ changed
       \/ shown.at = "failed" \/ (shown.at = "catalog" /\ shown.items = 0)
       \/ address.locale # address'.locale /\ address'.filter \in Searches

\* Every step has one of the excuses for an empty page, or shows none.
LEMMA EmptyPageByStep ==
  ASSUME StorefrontInv, StorefrontNext
  PROVE  EmptyPageStep
<1> SUFFICES ASSUME shown'.at = "catalog", shown'.items = 0, shown'.total > 0, ~changed,
                    shown.at # "failed", shown.at = "catalog" => shown.items # 0,
                    address'.filter \in Searches => address.locale = address'.locale
             PROVE  FALSE
  BY DEF EmptyPageStep
<1>1. /\ address.locale \in ShopLocales /\ address.filter \in Filters
      /\ NoFilter \in Filters /\ address \in Addresses
  BY StorefrontAssumption DEF StorefrontInv, Addresses
<1>2. ASSUME NEW f \in Filters, SetFilter(f)
      PROVE  FALSE
  BY <1>2, FirstPageHasItems DEF SetFilter, Filtered
<1>3. ASSUME NEW step \in {-1, 1}, TurnPage(step)
      PROVE  FALSE
  <2>1. shown.items # 0
    BY <1>3 DEF TurnPage
  <2> QED
    BY <1>3, <2>1, TurnedPageHasItems
<1>4. ASSUME NEW s \in Slugs, OpenCard(s)
      PROVE  FALSE
  <2>1. ProductAddress(address.locale, s).at # "catalog"
    BY DEF ProductAddress
  <2> QED
    BY <1>4, <2>1, ProductListsNothing DEF OpenCard
<1>5. CASE ToCatalog
  BY <1>1, <1>5, FirstPageHasItems DEF ToCatalog
<1>6. ASSUME NEW to \in Addresses, Visit(to), to.at = address.at, to.filter = address.filter,
             to.page = address.page,
             hits[to.filter][to.locale] = hits[address.filter][address.locale]
      PROVE  FALSE
  <2>1. to.at = "catalog"
    BY <1>6, ProductListsNothing
  <2>2. shown.at = "catalog"
    BY <1>6, <2>1 DEF StorefrontInv, ShownHolds
  <2>3. shown'.items = shown.items
    BY <1>6, <2>1, <2>2, SameListing
  <2> QED
    BY <2>2, <2>3
<1>7. CASE Reload
  BY <1>1, <1>6, <1>7 DEF Reload
<1>8. ASSUME NEW l \in ShopLocales, SwitchLocale(l)
      PROVE  FALSE
  <2>1. CASE context # Missing
    <3>1. SwitchTarget(l).at # "catalog"
      BY <2>1 DEF SwitchTarget, ProductAddress
    <3> QED
      BY <1>8, <3>1, ProductListsNothing DEF SwitchLocale
  <2>2. CASE context = Missing
    <3> DEFINE to == [address EXCEPT !.locale = l]
    <3>1. /\ Visit(to) /\ to \in Addresses /\ to.at = address.at /\ to.locale = l
          /\ to.filter = address.filter /\ to.page = address.page
      BY <1>8, <2>2, AddressInLocale DEF SwitchLocale, SwitchTarget
    <3> HIDE DEF to
    <3>2. hits[to.filter][to.locale] = hits[address.filter][address.locale]
      <4>1. CASE address.locale = l
        BY <3>1, <4>1
      <4>2. CASE address.locale # l
        <5>1. address.filter \notin Searches
          BY <3>1, <4>2 DEF Visit
        <5>2. hits[address.filter]["vi"] = hits[address.filter]["en"]
          BY <1>1, <5>1 DEF StorefrontInv, CatalogHolds
        <5> QED
          BY <1>1, <3>1, <5>2 DEF ShopLocales
      <4> QED
        BY <4>1, <4>2
    <3> QED
      BY <1>6, <3>1, <3>2
  <2> QED
    BY <2>1, <2>2
<1>9. CASE ReloadFails
  BY <1>9, BareIs DEF ReloadFails
<1>10. ASSUME shown' = shown
       PROVE  FALSE
  BY <1>10
<1> QED
  BY <1>2, <1>3, <1>4, <1>5, <1>7, <1>8, <1>9, <1>10
     DEF StorefrontNext, PublishSlugs, Rename, OfferOther, SetHits

\* With any number of products and any length of a page, no link of the shop
\* leads past the last page, but for the excuses stated.
THEOREM EmptyPageCorrect == StorefrontSpec => EmptyPageExplained
<1>1. StorefrontInv /\ [StorefrontNext]_storefront => [EmptyPageStep]_storefront
  BY EmptyPageByStep
<1>2. StorefrontSpec => [][EmptyPageStep]_storefront
  BY <1>1, StorefrontInvCorrect, PTL DEF StorefrontSpec
<1> QED
  BY <1>2 DEF EmptyPageExplained, EmptyPageStep

-----------------------------------------------------------------------------

SwitchStep ==
  address'.locale # address.locale /\ settled
  => /\ shown.at = "catalog"
        => shown'.at = "catalog" /\ address'.filter = address.filter
     /\ shown.at = "product" /\ slugs[shown.product] = shown.slugs
        => IF shown.product \in offered
             THEN shown'.at = "product" /\ shown'.product = shown.product
             ELSE shown'.at = "notFound"

\* Only the switch changes the locale.
LEMMA OnlySwitch ==
  ASSUME StorefrontNext, address'.locale # address.locale
  PROVE  \E l \in ShopLocales : SwitchLocale(l)
<1>1. \A f, n : CatalogAddress(address.locale, f, n).locale = address.locale
  BY DEF CatalogAddress
<1>2. \A s : ProductAddress(address.locale, s).locale = address.locale
  BY DEF ProductAddress
<1>3. ASSUME NEW f \in Filters, SetFilter(f)
      PROVE  FALSE
  BY <1>1, <1>3 DEF SetFilter, Filtered, Visit
<1>4. ASSUME NEW step \in {-1, 1}, TurnPage(step)
      PROVE  FALSE
  BY <1>1, <1>4 DEF TurnPage, Visit
<1>5. ASSUME NEW s \in Slugs, OpenCard(s)
      PROVE  FALSE
  BY <1>2, <1>5 DEF OpenCard, Visit
<1>6. ToCatalog \/ Reload => FALSE
  BY <1>1 DEF ToCatalog, Reload, Visit
<1> QED
  BY <1>3, <1>4, <1>5, <1>6
     DEF StorefrontNext, ReloadFails, PublishSlugs, Rename, OfferOther, SetHits

\* So a change of language stays in its place.
LEMMA SwitchByStep ==
  ASSUME StorefrontInv, StorefrontNext
  PROVE  SwitchStep
<1> SUFFICES ASSUME address'.locale # address.locale, settled
             PROVE  /\ shown.at = "catalog"
                       => shown'.at = "catalog" /\ address'.filter = address.filter
                    /\ shown.at = "product" /\ slugs[shown.product] = shown.slugs
                       => IF shown.product \in offered
                            THEN shown'.at = "product" /\ shown'.product = shown.product
                            ELSE shown'.at = "notFound"
  BY DEF SwitchStep
<1>1. PICK l \in ShopLocales : SwitchLocale(l)
  BY OnlySwitch
<1>2. context = shown.slugs
  BY DEF StorefrontInv
<1>3. ASSUME shown.at = "catalog"
      PROVE  shown'.at = "catalog" /\ address'.filter = address.filter
  <2> DEFINE to == [address EXCEPT !.locale = l]
  <2>1. context = Missing /\ address.at = "catalog"
    BY <1>2, <1>3 DEF StorefrontInv, ShownHolds
  <2>2. Visit(to) /\ to.at = "catalog" /\ to.filter = address.filter
    BY <1>1, <2>1, AddressInLocale DEF SwitchLocale, SwitchTarget
  <2> HIDE DEF to
  <2> QED
    BY <2>2, CatalogPageIs DEF Visit
<1>4. ASSUME shown.at = "product", slugs[shown.product] = shown.slugs
      PROVE  IF shown.product \in offered
               THEN shown'.at = "product" /\ shown'.product = shown.product
               ELSE shown'.at = "notFound"
  <2> DEFINE s == context[l]
  <2>1. shown.product \in Goods /\ shown.slugs \in [ShopLocales -> Slugs]
    BY <1>4 DEF StorefrontInv, ShownHolds
  <2>2. context # Missing /\ slugs[shown.product][l] = s
    BY <1>2, <1>4, <2>1, StorefrontAssumption DEF ShopLocales
  <2>3. Visit(ProductAddress(l, s))
    BY <1>1, <2>2 DEF SwitchLocale, SwitchTarget
  <2>4. \A p \in Resolved(l, s) : p = shown.product /\ p \in offered
    BY <2>1, <2>2 DEF Resolved, StorefrontInv, CatalogHolds
  <2>5. shown.product \in offered => shown.product \in Resolved(l, s)
    BY <2>2 DEF Resolved
  <2> HIDE DEF s
  <2> DEFINE to == ProductAddress(l, s)
  <2>6. to.at = "product" /\ to.locale = l /\ to.slug = s
    BY DEF ProductAddress
  <2>7. shown' = Page(to)
    BY <2>3 DEF Visit
  <2> HIDE DEF to
  <2>8. CASE Resolved(l, s) = {}
    <3>1. shown' = Bare("notFound")
      BY <2>6, <2>7, <2>8, ProductPageIs
    <3> QED
      BY <2>5, <2>8, <3>1, BareIs
  <2>9. CASE Resolved(l, s) # {}
    <3>1. PICK p \in Resolved(l, s) :
            shown' = [at |-> "product", total |-> 0, items |-> 0, cards |-> {},
                      product |-> p, slugs |-> slugs[p]]
      BY <2>6, <2>7, <2>9, ProductPageIs
    <3> QED
      BY <2>4, <3>1
  <2> QED
    BY <2>8, <2>9
<1> QED
  BY <1>3, <1>4

\* The switch of locale stays on the query, or on the product while it is on
\* offer to the viewer, and says so when it is not.
THEOREM SwitchCorrect == StorefrontSpec => SwitchKeepsPlace
<1>1. StorefrontInv /\ [StorefrontNext]_storefront => [SwitchStep]_storefront
  BY SwitchByStep
<1>2. StorefrontSpec => [][SwitchStep]_storefront
  BY <1>1, StorefrontInvCorrect, PTL DEF StorefrontSpec
<1> QED
  BY <1>2 DEF SwitchKeepsPlace, SwitchStep

-----------------------------------------------------------------------------
(* PublicCatalog                                                           *)

\* The fields of a request and of a walk.
Fields == {"pc", "query", "page", "tier", "held", "ids", "cut", "total", "paid", "quiet"}

WalkFields == {"query", "next", "seen", "twice", "short", "grew", "shrank", "always"}

\* A request in flight has held the tier of the moment, and the tier of its
\* scopes; they are one if nothing has changed since.
TierHolds ==
  /\ DOMAIN visit = Fields
  /\ visit.pc # "rest" =>
       /\ visit.paid = None
       /\ {Tier, visit.tier} \subseteq visit.held
       /\ visit.tier # Tier => visit.quiet = FALSE
  /\ OneTierUnlessApprovalChanged

\* Before and after a request.
LEMMA NoVisitHolds ==
  ASSUME visit' = NoVisit
  PROVE  TierHolds'
<1>1. DOMAIN NoVisit = Fields /\ NoVisit.pc = "rest" /\ NoVisit.paid = None
  BY DEF NoVisit, Fields
<1> QED
  BY <1>1 DEF TierHolds, OneTierUnlessApprovalChanged

\* A request arrives.
LEMMA ArrivedIs ==
  ASSUME NEW at
  PROVE  /\ DOMAIN Arrived(at) = Fields /\ Arrived(at).pc = at /\ Arrived(at).paid = None
         /\ Arrived(at).held = {Tier} /\ Arrived(at).tier = Tier /\ Arrived(at).ids = {}
BY DEF Arrived, NoVisit, Fields

\* A request that arrives has seen the tier of the moment only.
LEMMA ArrivedHolds ==
  ASSUME DOMAIN visit' = Fields, visit'.paid = None, visit'.held = {Tier}, visit'.tier = Tier,
         Tier' = Tier
  PROVE  TierHolds'
BY DEF TierHolds, OneTierUnlessApprovalChanged

\* A request goes on.
LEMMA GoesOn ==
  ASSUME TierHolds, visit.pc # "rest", DOMAIN visit' = Fields, visit'.paid = None,
         visit'.held = visit.held, visit'.tier \in {visit.tier, Tier},
         visit'.quiet = visit.quiet, Tier' = Tier
  PROVE  TierHolds'
BY DEF TierHolds, OneTierUnlessApprovalChanged

\* It is answered.
LEMMA Answered ==
  ASSUME TierHolds, visit.pc # "rest", DOMAIN visit' = Fields, visit'.pc = "rest",
         visit'.paid = Tier, visit'.held = visit.held, visit'.tier = visit.tier,
         visit'.quiet = visit.quiet
  PROVE  TierHolds'
BY DEF TierHolds, OneTierUnlessApprovalChanged

\* Something changes under it.
LEMMA ChangedKeeps ==
  ASSUME TierHolds, Changed
  PROVE  TierHolds'
<1>1. CASE visit.pc = "rest"
  BY <1>1, NoVisitHolds DEF Changed, AtRest
<1>2. CASE visit.pc # "rest"
  <2>1. visit' = [visit EXCEPT !.held = @ \cup {Tier'}, !.quiet = FALSE]
    BY <1>2 DEF Changed, AtRest
  <2>2. /\ DOMAIN visit' = Fields /\ visit'.pc = visit.pc /\ visit'.paid = visit.paid
        /\ visit'.held = visit.held \cup {Tier'} /\ visit'.tier = visit.tier
        /\ visit'.quiet = FALSE
    BY <2>1 DEF TierHolds, Fields
  <2> QED
    BY <1>2, <2>2 DEF TierHolds, OneTierUnlessApprovalChanged
<1> QED
  BY <1>1, <1>2

\* Every step of a request keeps what it holds.
LEMMA RequestKeeps ==
  ASSUME TierHolds, CatalogStep
  PROVE  TierHolds'
<1>1. Tier' = Tier
  BY DEF CatalogStep, BrowseScopes, BrowseSearch, BrowseNames, BrowseCount, BrowseRows,
         BrowsePrices, ShowPage, DetailSlug, DetailRow, DetailScopes, DetailPrices,
         FacetScopes, FacetGroups, FacetAges, elsewhere, resolution, Tier, ResolveTier
<1>2. DOMAIN visit = Fields /\ (visit.pc # "rest" => visit.paid = None)
  BY DEF TierHolds
<1>3. ASSUME NEW query \in Queries, BrowseScopes(query)
      PROVE  TierHolds'
  <2>1. visit' = [Arrived("scopes") EXCEPT !.query = query, !.page = walk'.next]
    BY <1>3 DEF BrowseScopes
  <2>2. /\ DOMAIN visit' = Fields /\ visit'.paid = None
        /\ visit'.held = {Tier} /\ visit'.tier = Tier
    BY <2>1, ArrivedIs DEF Fields
  <2> QED
    BY <1>1, <2>2, ArrivedHolds
<1>4. CASE BrowseSearch
  BY <1>1, <1>2, <1>4, GoesOn DEF BrowseSearch, Fields
<1>5. CASE BrowseNames
  BY <1>1, <1>2, <1>5, GoesOn DEF BrowseNames, Fields
<1>6. CASE BrowseCount
  BY <1>1, <1>2, <1>6, GoesOn DEF BrowseCount, Fields
<1>7. CASE BrowseRows
  BY <1>1, <1>2, <1>7, GoesOn DEF BrowseRows, Fields
<1>8. CASE BrowsePrices
  BY <1>1, <1>2, <1>8, Answered DEF BrowsePrices, ShowPage, Fields
<1>9. ASSUME NEW p \in Shelf, DetailSlug(p)
      PROVE  TierHolds'
  <2>1. CASE visit' = NoVisit
    BY <2>1, NoVisitHolds
  <2>2. CASE visit' = [Arrived("slug") EXCEPT !.ids = {p}]
    <3>1. /\ DOMAIN visit' = Fields /\ visit'.paid = None
          /\ visit'.held = {Tier} /\ visit'.tier = Tier
      BY <2>2, ArrivedIs DEF Fields
    <3> QED
      BY <1>1, <3>1, ArrivedHolds
  <2> QED
    BY <1>9, <2>1, <2>2 DEF DetailSlug
<1>10. CASE DetailRow
  <2>1. visit.pc = "slug"
    BY <1>10 DEF DetailRow
  <2>2. CASE visit' = NoVisit
    BY <2>2, NoVisitHolds
  <2>3. ASSUME NEW scope,
               visit' = [visit EXCEPT !.pc = "row", !.ids = {}, !.cut = {scope}]
        PROVE  TierHolds'
    <3>1. /\ DOMAIN visit' = Fields /\ visit'.paid = None /\ visit'.held = visit.held
          /\ visit'.tier = visit.tier /\ visit'.quiet = visit.quiet
      BY <1>2, <2>1, <2>3 DEF Fields
    <3> QED
      BY <1>1, <2>1, <3>1, GoesOn
  <2> QED
    BY <1>10, <2>2, <2>3 DEF DetailRow
<1>11. CASE DetailScopes
  <2>1. visit.pc = "row"
    BY <1>11 DEF DetailScopes
  <2>2. CASE visit' = NoVisit
    BY <2>2, NoVisitHolds
  <2>3. CASE visit' = [visit EXCEPT !.pc = "allowed", !.tier = Tier]
    <3>1. /\ DOMAIN visit' = Fields /\ visit'.paid = None /\ visit'.held = visit.held
          /\ visit'.tier = Tier /\ visit'.quiet = visit.quiet
      BY <1>2, <2>1, <2>3 DEF Fields
    <3> QED
      BY <1>1, <2>1, <3>1, GoesOn
  <2> QED
    BY <1>11, <2>2, <2>3 DEF DetailScopes
<1>12. CASE DetailPrices
  BY <1>1, <1>2, <1>12, Answered DEF DetailPrices, Fields
<1>13. CASE FacetScopes
  BY <1>1, <1>13, ArrivedIs, ArrivedHolds DEF FacetScopes
<1>14. CASE FacetGroups
  BY <1>1, <1>2, <1>14, GoesOn DEF FacetGroups, Fields
<1>15. CASE FacetAges
  BY <1>15, NoVisitHolds DEF FacetAges
<1> QED
  BY <1>3, <1>4, <1>5, <1>6, <1>7, <1>8, <1>9, <1>10, <1>11, <1>12, <1>13, <1>14, <1>15
     DEF CatalogStep

\* Every step does.
LEMMA HeldTiersStep ==
  ASSUME TierHolds, [CatalogNext]_<<priceList, resolution, publicCatalog>>
  PROVE  TierHolds'
<1>1. UNCHANGED <<dealerTier, publicCatalog>> => TierHolds'
  BY DEF publicCatalog, TierHolds, OneTierUnlessApprovalChanged, Tier, ResolveTier
<1>2. ASSUME NEW s \in Staff, NEW t \in Tiers, CreateTier(s, t),
             UNCHANGED <<resolution, publicCatalog>>
      PROVE  TierHolds'
  BY <1>1, <1>2 DEF resolution
<1>3. IssueAccessToken /\ UNCHANGED publicCatalog => TierHolds'
  BY <1>1 DEF IssueAccessToken
<1>4. ASSUME NEW p \in Shelf, NEW row \in ShelfRows, EditShelf(p, row)
      PROVE  TierHolds'
  BY <1>4, ChangedKeeps DEF EditShelf
<1>5. ASSUME NEW t \in TierOrNone, ApproveViewer(t)
      PROVE  TierHolds'
  BY <1>5, ChangedKeeps DEF ApproveViewer
<1>6. UNCHANGED <<priceList, resolution, publicCatalog>> => TierHolds'
  BY <1>1 DEF resolution
<1> QED
  BY <1>2, <1>3, <1>4, <1>5, <1>6, RequestKeeps DEF CatalogNext

\* For any catalog and whatever staff do, the tier of a page's scopes and that of
\* its prices are one, unless an approval changed while it was answered.
THEOREM OneTierCorrect == CatalogSpec => []OneTierUnlessApprovalChanged
<1>1. CatalogInit => TierHolds
  <2>1. DOMAIN NoVisit = Fields /\ NoVisit.pc = "rest" /\ NoVisit.paid = None
    BY DEF NoVisit, Fields
  <2> QED
    BY <2>1 DEF CatalogInit, TierHolds, OneTierUnlessApprovalChanged
<1>2. TierHolds => OneTierUnlessApprovalChanged
  BY DEF TierHolds
<1> QED
  BY <1>1, <1>2, HeldTiersStep, PTL DEF CatalogSpec

-----------------------------------------------------------------------------
(* The account forms                                                       *)

\* The target of a sign-in page is the page that sent the visitor there, and
\* no other page has one.
PlaceHolds ==
  /\ place.next = sentFrom
  /\ sentFrom # Nobody => place.page = "login" /\ sentFrom.page \in MemberPages
                          /\ sentFrom.locale \in Tongues

\* An address that was typed, or that a sign-in leads to.
LEMMA LandingHolds ==
  ASSUME NEW locale \in Tongues, NEW page \in OpenPages \cup MemberPages, NEW who,
         place' = Landing(locale, page, Nobody, who)
  PROVE  /\ place'.next # Nobody => place'.page = "login" /\ place'.next.page \in MemberPages
                                    /\ place'.next.locale \in Tongues
         /\ place'.locale \in Tongues
         /\ place'.page \in OpenPages \cup MemberPages \cup {"notFound"}
<1>1. CASE page \in MemberPages /\ who = Nobody
  <2>1. place' = Address(locale, "login", Target(locale, page))
    BY <1>1 DEF Landing
  <2>2. /\ place'.next = Target(locale, page) /\ place'.locale = locale
        /\ place'.page = "login"
    BY <2>1 DEF Address
  <2>3. Target(locale, page).page = page /\ Target(locale, page).locale = locale
    BY DEF Target
  <2> QED
    BY <1>1, <2>2, <2>3 DEF OpenPages
<1>2. CASE ~(page \in MemberPages /\ who = Nobody)
  <2>1. place' = Address(locale, "notFound", Nobody) \/ place' = Address(locale, page, Nobody)
    BY <1>2 DEF Landing
  <2>2. place'.next = Nobody /\ place'.locale = locale /\ place'.page \in {page, "notFound"}
    BY <2>1 DEF Address
  <2> QED
    BY <2>2
<1> QED
  BY <1>1, <1>2

\* What holds of every state: types, the place, and what a form says.
FormsInv ==
  /\ FormsTypeOK
  /\ {session, mailed} \subseteq Mailboxes \cup {Nobody}
  /\ PlaceHolds
  /\ AnswersTrue

\* A form without an answer.
LEMMA SaidNothingTrue ==
  ASSUME SaidNothing
  PROVE  AnswersTrue' /\ answer'.says = "" /\ answer'.form = "none"
<1>1. answer' = [form |-> "none", says |-> ""]
  BY DEF SaidNothing
<1> QED
  BY <1>1 DEF AnswersTrue

\* Accounts are made and their passwords changed, never deleted.
LoginsGrow ==
  /\ logins' \in [Mailboxes -> Passwords \cup {Nobody}]
  /\ \A e \in Mailboxes : logins[e] # Nobody => logins'[e] # Nobody

\* Logins that are not touched lose none.
LEMMA SameLogins == FormsInv /\ UNCHANGED logins => LoginsGrow
BY DEF FormsInv, FormsTypeOK, LoginsGrow

\* A password is set.
LEMMA SetPassword ==
  ASSUME FormsInv, NEW e \in Mailboxes, NEW p \in Passwords,
         logins' = [logins EXCEPT ![e] = p]
  PROVE  LoginsGrow /\ logins'[e] # Nobody
BY FormsAssumption DEF FormsInv, FormsTypeOK, LoginsGrow

\* A form answered in place, with a message that is so.
LEMMA InPlaceKeeps ==
  ASSUME FormsInv, AnswersTrue', UNCHANGED <<session, place, sentFrom>>, LoginsGrow,
         answer'.says # "ok" \/ answer'.form \notin {"login", "register"},
         \/ mailed' \in {mailed, Nobody}
         \/ mailed' \in Mailboxes /\ logins'[mailed'] # Nobody
  PROVE  FormsInv'
<1>1. PlaceHolds'
  BY DEF FormsInv, PlaceHolds
<1>2. {session', mailed'} \subseteq Mailboxes \cup {Nobody}
  BY DEF FormsInv
<1>3. \A who \in {session', mailed'} \ {Nobody} : logins'[who] # Nobody
  BY <1>2 DEF FormsInv, FormsTypeOK, LoginsGrow
<1> QED
  BY <1>1, <1>2, <1>3 DEF FormsInv, FormsTypeOK, LoginsGrow

\* A form that was refused, or failed before the API did anything.
LEMMA RefusedKeeps ==
  ASSUME FormsInv, NEW form, NEW message, InPlace(form, message, FALSE), message # "ok",
         UNCHANGED <<logins, mailed>>
  PROVE  FormsInv'
<1>1. answer' = [form |-> form, says |-> message] /\ done' = FALSE
  BY DEF InPlace, Says
<1>2. AnswersTrue' /\ answer'.says # "ok"
  BY <1>1 DEF AnswersTrue
<1>3. UNCHANGED <<session, place, sentFrom>> /\ LoginsGrow
  BY SameLogins DEF InPlace
<1> QED
  BY <1>2, <1>3, InPlaceKeeps

\* A form the API did what it asked, whose answer may be lost.
LEMMA DoneKeeps ==
  ASSUME FormsInv, NEW form, NEW message \in {"ok", "error"}, InPlace(form, message, TRUE),
         message = "ok" => form \notin {"login", "register"},
         LoginsGrow, mailed' \in {mailed, Nobody}
  PROVE  FormsInv'
<1>1. answer' = [form |-> form, says |-> message] /\ done' = TRUE
  BY DEF InPlace, Says
<1>2. AnswersTrue' /\ answer'.form = form /\ answer'.says = message
  BY <1>1 DEF AnswersTrue
<1>3. UNCHANGED <<session, place, sentFrom>>
  BY DEF InPlace
<1>4. answer'.says # "ok" \/ answer'.form \notin {"login", "register"}
  BY <1>2
<1> QED
  BY <1>2, <1>3, <1>4, InPlaceKeeps

\* A form that signs in.
LEMMA SignedInKeeps ==
  ASSUME FormsInv, NEW form, NEW email \in Mailboxes, NEW locale \in Tongues,
         NEW page \in OpenPages \cup MemberPages, NEW target,
         target.locale = locale, target.page = page, SignedIn(form, email, target),
         LoginsGrow, logins'[email] # Nobody, UNCHANGED mailed
  PROVE  FormsInv'
<1>1. AnswersTrue' /\ answer'.form = form /\ answer'.says = "ok"
  <2>1. answer' = [form |-> form, says |-> "ok"] /\ done' = TRUE
    BY DEF SignedIn, Says
  <2> QED
    BY <2>1 DEF AnswersTrue
<1>2. session' = email /\ sentFrom' = place'.next
  BY DEF SignedIn
<1>3. PICK who \in SeenAs(email) : place' = Landing(locale, page, Nobody, who)
  BY DEF SignedIn
<1>4. /\ PlaceHolds' /\ place'.locale \in Tongues
      /\ place'.page \in OpenPages \cup MemberPages \cup {"notFound"}
  BY <1>2, <1>3, LandingHolds DEF PlaceHolds
<1>5. \A w \in {session', mailed'} \ {Nobody} : logins'[w] # Nobody
  BY <1>2 DEF FormsInv, FormsTypeOK, LoginsGrow
<1>6. {session', mailed'} \subseteq Mailboxes \cup {Nobody} /\ session' # Nobody
  BY <1>2, FormsAssumption DEF FormsInv
<1> QED
  BY <1>1, <1>4, <1>5, <1>6 DEF FormsInv, FormsTypeOK, LoginsGrow

\* A step without a form.
LEMMA MoveKeeps ==
  ASSUME FormsInv, SaidNothing, UNCHANGED logins, session' \in {session, Nobody},
         mailed' \in {mailed, Nobody}, PlaceHolds', place'.locale \in Tongues,
         place'.page \in OpenPages \cup MemberPages \cup {"notFound"}
  PROVE  FormsInv'
<1>1. AnswersTrue' /\ answer'.says = ""
  BY SaidNothingTrue
<1> QED
  BY <1>1 DEF FormsInv, FormsTypeOK

\* The language switch keeps the page, or sends to sign in and back to it.
LEMMA OtherLocaleKeeps ==
  ASSUME FormsInv, OtherLocale
  PROVE  FormsInv'
<1> DEFINE l == IF place.locale = "vi" THEN "en" ELSE "vi"
<1>1. PICK who \in SeenAs(session) : place' = Landing(l, place.page, place.next, who)
  BY DEF OtherLocale
<1>2. l \in Tongues /\ place.page \in OpenPages \cup MemberPages \cup {"notFound"}
  BY DEF FormsInv, FormsTypeOK, Tongues
<1>3. CASE place.page \in MemberPages /\ who = Nobody
  <2>1. place' = Address(l, "login", Target(l, place.page))
    BY <1>1, <1>3 DEF Landing
  <2>2. /\ place'.next = Target(l, place.page) /\ place'.locale = l /\ place'.page = "login"
    BY <2>1 DEF Address
  <2>3. Target(l, place.page).page = place.page /\ Target(l, place.page).locale = l
    BY DEF Target
  <2>4. sentFrom' = place'.next
    BY <1>3, <2>2 DEF OtherLocale, MemberPages
  <2>5. PlaceHolds'
    BY <1>2, <1>3, <2>2, <2>3, <2>4 DEF PlaceHolds
  <2> QED
    BY <1>2, <2>2, <2>5, MoveKeeps DEF OtherLocale, OpenPages
<1>4. CASE ~(place.page \in MemberPages /\ who = Nobody)
  <2>1. \/ place' = Address(l, place.page, place.next)
        \/ place.page = "admin" /\ place' = Address(l, "notFound", Nobody)
    BY <1>1, <1>4 DEF Landing
  <2>2. /\ place'.locale = l
        /\ \/ place'.page = place.page /\ place'.next = place.next
           \/ place.page = "admin" /\ place'.page = "notFound" /\ place'.next = Nobody
    BY <2>1 DEF Address
  <2>3. sentFrom' = sentFrom
    BY <2>2 DEF OtherLocale
  <2>4. PlaceHolds'
    BY <2>2, <2>3 DEF PlaceHolds, FormsInv
  <2> QED
    BY <1>2, <2>2, <2>4, MoveKeeps DEF OtherLocale
<1> QED
  BY <1>3, <1>4

\* A sign-in leads back to the page that sent the visitor, or to the account.
LEMMA LoginTarget ==
  ASSUME FormsInv
  PROVE  LET valid == ResolveRedirectTarget(place.next, place.locale)
             to == ResolveRedirectTarget(valid, place.locale)
         IN /\ to.locale \in Tongues /\ to.page \in OpenPages \cup MemberPages
            /\ sentFrom # Nobody =>
                 to = IF place.locale = sentFrom.locale THEN sentFrom
                      ELSE Target(place.locale, "account")
<1> DEFINE valid == ResolveRedirectTarget(place.next, place.locale)
           account == Target(place.locale, "account")
<1>1. account.locale = place.locale /\ account.page = "account"
  BY DEF Target
<1>2. ResolveRedirectTarget(account, place.locale) = account
  BY <1>1 DEF ResolveRedirectTarget
<1>3. CASE valid = account
  <2>1. sentFrom # Nobody /\ place.locale = sentFrom.locale => valid = sentFrom
    BY DEF ResolveRedirectTarget, FormsInv, PlaceHolds
  <2> QED
    BY <1>1, <1>2, <1>3, <2>1 DEF FormsInv, FormsTypeOK, MemberPages
<1>4. CASE valid # account
  <2>1. valid = sentFrom /\ sentFrom # Nobody /\ sentFrom.locale = place.locale
    BY <1>4 DEF ResolveRedirectTarget, FormsInv, PlaceHolds
  <2>2. ResolveRedirectTarget(valid, place.locale) = sentFrom
    BY <2>1 DEF ResolveRedirectTarget
  <2> QED
    BY <2>1, <2>2 DEF FormsInv, PlaceHolds
<1> QED
  BY <1>3, <1>4

\* Every step keeps the invariant.
LEMMA FormsStep ==
  ASSUME FormsInv, [FormsNext]_formVars
  PROVE  FormsInv'
<1>1. ASSUME NEW page \in OpenPages \cup MemberPages, GoTo(page)
      PROVE  FormsInv'
  <2>1. PICK who \in SeenAs(session) : place' = Landing(place.locale, page, Nobody, who)
    BY <1>1 DEF GoTo
  <2>2. place.locale \in Tongues
    BY DEF FormsInv, FormsTypeOK
  <2>3. /\ place'.next # Nobody => place'.page = "login" /\ place'.next.page \in MemberPages
                                   /\ place'.next.locale \in Tongues
        /\ place'.locale \in Tongues
        /\ place'.page \in OpenPages \cup MemberPages \cup {"notFound"}
    BY <2>1, <2>2, LandingHolds
  <2>4. PlaceHolds'
    BY <1>1, <2>3 DEF GoTo, PlaceHolds
  <2> QED
    BY <1>1, <2>3, <2>4, MoveKeeps DEF GoTo
<1>2. CASE OtherLocale
  BY <1>2, OtherLocaleKeeps
<1>3. CASE SessionEnds
  <2>1. PlaceHolds'
    BY <1>3 DEF SessionEnds, FormsInv, PlaceHolds
  <2> QED
    BY <1>3, <2>1, MoveKeeps DEF SessionEnds, FormsInv, FormsTypeOK
<1>4. CASE Logout
  <2>1. place'.next = Nobody /\ place'.page = "home" /\ place'.locale = place.locale
    BY <1>4 DEF Logout, Address
  <2>2. PlaceHolds'
    BY <1>4, <2>1 DEF Logout, PlaceHolds
  <2> QED
    BY <1>4, <2>1, <2>2, MoveKeeps DEF Logout, FormsInv, FormsTypeOK, OpenPages
<1>5. CASE LinkExpires
  <2>1. PlaceHolds'
    BY <1>5 DEF LinkExpires, FormsInv, PlaceHolds
  <2> QED
    BY <1>5, <2>1, MoveKeeps DEF LinkExpires, FormsInv, FormsTypeOK
<1>6. ASSUME NEW e \in Mailboxes, NEW p \in Passwords, Login(e, p)
      PROVE  FormsInv'
  <2> DEFINE to == ResolveRedirectTarget(ResolveRedirectTarget(place.next, place.locale),
                                         place.locale)
  <2>1. LoginsGrow /\ UNCHANGED mailed
    BY <1>6, SameLogins DEF Login
  <2>2. CASE logins[e] = p /\ SignedIn("login", e, to)
    <3>1. to.locale \in Tongues /\ to.page \in OpenPages \cup MemberPages
      BY LoginTarget
    <3>2. logins'[e] # Nobody
      BY <1>6, <2>2, FormsAssumption DEF Login
    <3> QED
      BY <2>1, <2>2, <3>1, <3>2, SignedInKeeps
  <2>3. ASSUME NEW message \in {"invalidCredentials", "error"}, InPlace("login", message, FALSE)
        PROVE  FormsInv'
    BY <1>6, <2>3, RefusedKeeps DEF Login
  <2> QED
    BY <1>6, <2>2, <2>3 DEF Login
<1>7. ASSUME NEW e \in Mailboxes, NEW p \in Passwords, SubmitCustomer(e, p)
      PROVE  FormsInv'
  <2> DEFINE home == Target(place.locale, "account")
  <2>1. UNCHANGED mailed
    BY <1>7 DEF SubmitCustomer
  <2>2. CASE logins' = [logins EXCEPT ![e] = p] /\ SignedIn("register", e, home)
    <3>1. home.locale = place.locale /\ home.page = "account"
      BY DEF Target
    <3>2. place.locale \in Tongues /\ "account" \in OpenPages \cup MemberPages
      BY DEF FormsInv, FormsTypeOK, MemberPages
    <3>3. LoginsGrow /\ logins'[e] # Nobody
      BY <2>2, SetPassword
    <3> QED
      BY <2>1, <2>2, <3>1, <3>2, <3>3, SignedInKeeps
  <2>3. CASE logins' = [logins EXCEPT ![e] = p] /\ InPlace("register", "error", TRUE)
    <3>1. LoginsGrow
      BY <2>3, SetPassword
    <3> QED
      BY <2>1, <2>3, <3>1, DoneKeeps
  <2>4. ASSUME UNCHANGED logins, NEW message \in {"emailTaken", "invalidInput", "error"},
               InPlace("register", message, FALSE)
        PROVE  FormsInv'
    BY <2>1, <2>4, RefusedKeeps
  <2> QED
    BY <1>7, <2>2, <2>3, <2>4 DEF SubmitCustomer
<1>8. ASSUME NEW e \in Mailboxes, NEW p \in Passwords, SubmitBusiness(e, p)
      PROVE  FormsInv'
  <2>1. UNCHANGED mailed
    BY <1>8 DEF SubmitBusiness
  <2>2. ASSUME logins' = [logins EXCEPT ![e] = p], NEW message \in {"ok", "error"},
               InPlace("business", message, TRUE)
        PROVE  FormsInv'
    <3>1. LoginsGrow
      BY <2>2, SetPassword
    <3> QED
      BY <2>1, <2>2, <3>1, DoneKeeps
  <2>3. ASSUME UNCHANGED logins,
               NEW message \in {"emailTaken", "taxIdTaken", "invalidInput", "error"},
               InPlace("business", message, FALSE)
        PROVE  FormsInv'
    BY <2>1, <2>3, RefusedKeeps
  <2> QED
    BY <1>8, <2>2, <2>3 DEF SubmitBusiness
<1>9. ASSUME NEW e \in Mailboxes, ForgotPassword(e)
      PROVE  FormsInv'
  <2>1. LoginsGrow
    BY <1>9, SameLogins DEF ForgotPassword
  <2>2. \/ mailed' = mailed
        \/ mailed' = e /\ logins'[e] # Nobody
    <3>1. /\ UNCHANGED logins
          /\ mailed' = mailed \/ mailed' = IF logins[e] = Nobody THEN mailed ELSE e
      BY <1>9 DEF ForgotPassword
    <3> QED
      BY <3>1
  <2>3. answer'.form = "forgot" /\ UNCHANGED <<session, place, sentFrom>>
    BY <1>9 DEF ForgotPassword, InPlace, Says
  <2>4. AnswersTrue'
    BY <2>3 DEF AnswersTrue
  <2> QED
    BY <2>1, <2>2, <2>3, <2>4, InPlaceKeeps
<1>10. ASSUME NEW p \in Passwords, NEW confirm \in Passwords, ResetPassword(p, confirm)
       PROVE  FormsInv'
  <2>1. ASSUME mailed # Nobody, logins' = [logins EXCEPT ![mailed] = p], mailed' = Nobody,
               NEW outcome \in {"done", "lost"}, InPlace("reset", ResetSays(outcome), TRUE)
        PROVE  FormsInv'
    <3>1. LoginsGrow
      BY <2>1, SetPassword DEF FormsInv
    <3>2. ResetSays(outcome) \in {"ok", "error"}
      BY DEF ResetSays
    <3> QED
      BY <2>1, <3>1, <3>2, DoneKeeps
  <2>2. ASSUME UNCHANGED <<logins, mailed>>,
               NEW message \in {"passwordMismatch", "resetTokenInvalid", "error"},
               InPlace("reset", message, FALSE)
        PROVE  FormsInv'
    BY <2>2, RefusedKeeps
  <2>3. \A outcome \in {"lost", "refused"} : ResetSays(outcome) \in {"resetTokenInvalid", "error"}
    BY DEF ResetSays
  <2> QED
    BY <1>10, <2>1, <2>2, <2>3 DEF ResetPassword
<1>11. CASE UNCHANGED formVars
  BY <1>11 DEF formVars, FormsInv, FormsTypeOK, PlaceHolds, AnswersTrue
<1> QED
  BY <1>1, <1>2, <1>3, <1>4, <1>5, <1>6, <1>7, <1>8, <1>9, <1>10, <1>11 DEF FormsNext

\* The forms begin on the home page of the default language.
LEMMA FormsInitial == FormsInit => FormsInv
<1> SUFFICES ASSUME FormsInit
             PROVE  FormsInv
  OBVIOUS
<1>1. place.locale = "vi" /\ place.page = "home" /\ place.next = Nobody
  BY DEF FormsInit, Address
<1>2. answer.says = ""
  BY DEF FormsInit
<1> QED
  BY <1>1, <1>2 DEF FormsInit, FormsInv, FormsTypeOK, PlaceHolds, AnswersTrue, Tongues, OpenPages

\* So it always holds.
LEMMA FormsInvCorrect == FormsSpec => []FormsInv
BY FormsInitial, FormsStep, PTL DEF FormsSpec

\* Types; only accounts have sessions and links; and a sign-in that said ok
\* left a session.
THEOREM FormsTypeCorrect == FormsSpec => []FormsTypeOK
<1>1. FormsInv => FormsTypeOK
  BY DEF FormsInv
<1> QED
  BY <1>1, FormsInvCorrect, PTL

\* Only a sign-in answers as one that succeeded.
LEMMA OnlyLogin ==
  ASSUME FormsNext, answer'.form = "login"
  PROVE  \E e \in Mailboxes, p \in Passwords : Login(e, p)
<1>1. ~SaidNothing
  BY SaidNothingTrue
<1>2. \A form, message, did :
         InPlace(form, message, did) \/ Says(form, message, did) => form = "login"
  BY DEF InPlace, Says
<1>3. \A form, e, target : SignedIn(form, e, target) => form = "login"
  BY DEF SignedIn, Says
<1>4. \A page : ~GoTo(page)
  BY <1>1 DEF GoTo
<1>5. ~OtherLocale /\ ~SessionEnds /\ ~Logout /\ ~LinkExpires
  BY <1>1 DEF OtherLocale, SessionEnds, Logout, LinkExpires
<1>6. \A e, p : ~SubmitCustomer(e, p) /\ ~SubmitBusiness(e, p)
  BY <1>2, <1>3 DEF SubmitCustomer, SubmitBusiness
<1>7. \A e : ~ForgotPassword(e)
  BY <1>2 DEF ForgotPassword
<1>8. \A p, confirm : ~ResetPassword(p, confirm)
  BY <1>2 DEF ResetPassword
<1> QED
  BY <1>4, <1>5, <1>6, <1>7, <1>8 DEF FormsNext

\* A sign-in that succeeded leads to where the page that asked for it was.
ReturnStep ==
  answer'.form = "login" /\ answer'.says = "ok" /\ sentFrom # Nobody
    => LET to == IF place.locale = sentFrom.locale THEN sentFrom
                 ELSE Target(place.locale, "account")
       IN \E who \in SeenAs(session') :
            place' = Landing(to.locale, to.page, Nobody, who)

\* Every step of a sign-in does so.
LEMMA ReturnByStep ==
  ASSUME FormsInv, FormsNext
  PROVE  ReturnStep
<1> SUFFICES ASSUME answer'.form = "login", answer'.says = "ok", sentFrom # Nobody
             PROVE  ReturnStep
  BY DEF ReturnStep
<1> DEFINE to == ResolveRedirectTarget(ResolveRedirectTarget(place.next, place.locale),
                                       place.locale)
<1>1. PICK e \in Mailboxes, p \in Passwords : Login(e, p)
  BY OnlyLogin
<1>2. \A message : InPlace("login", message, FALSE) => message = "ok"
  BY DEF InPlace, Says
<1>3. SignedIn("login", e, to)
  BY <1>1, <1>2 DEF Login
<1>4. \E who \in SeenAs(session') : place' = Landing(to.locale, to.page, Nobody, who)
  BY <1>3 DEF SignedIn
<1>5. to = IF place.locale = sentFrom.locale THEN sentFrom ELSE Target(place.locale, "account")
  BY LoginTarget
<1> HIDE DEF to
<1> QED
  BY <1>4, <1>5 DEF ReturnStep

\* What a form says is so, and a sign-in leads back to the page that asked for
\* it: loginAction and the actions of the other account forms.
THEOREM FormsCorrect == FormsSpec => FormsTrue
<1>1. FormsInv => AnswersTrue
  BY DEF FormsInv
<1>2. FormsInv /\ [FormsNext]_formVars => [ReturnStep]_formVars
  BY ReturnByStep
<1>3. FormsSpec => []AnswersTrue /\ [][ReturnStep]_formVars
  BY <1>1, <1>2, FormsInvCorrect, PTL DEF FormsSpec
<1>4. [][ReturnStep]_formVars => LoginReturns
  BY DEF ReturnStep, LoginReturns
<1> QED
  BY <1>3, <1>4, PTL DEF FormsTrue

-----------------------------------------------------------------------------
(* Turning the pages of the catalog                                        *)

\* The order of a query's pages.
Key(query) == [p \in Shelf |-> IF query.byName THEN shelf[p].name ELSE -p]

\* How far the walk is: the rows on the pages before page n, and what is on it.
Before(n) == (n - 1) * PageSize

OnPage(query, n) == AtPlaces(Visible(query), Key(query), Slice(n))

\* The place of a product among what the walk sees.
WalkedTo(p) == Place(Visible(walk.query), Key(walk.query), p)

Browsing == visit.pc \in {"scopes", "search", "names", "count", "rows"}

\* A page asked for is the next of the walk, as long as there is one, and the
\* ids read for it are those of the catalog as it is.
VisitFollowsWalk ==
  Browsing =>
    /\ visit.query = walk.query /\ visit.page = walk.next /\ visit.tier = Tier
    /\ visit.pc \in {"search", "names", "count"} => visit.ids = Searched(walk.query)
    /\ visit.pc = "names" => walk.query.byName
    /\ visit.pc \in {"names", "count"} /\ walk.query.byName /\ Untied =>
         visit.cut = OnPage(walk.query, walk.next)

\* What was seen and is still there is on the pages turned, and so is nothing
\* of the page about to be shown.
NoRepetition ==
  /\ ~walk.twice
  /\ \A p \in walk.seen \cap Visible(walk.query) : WalkedTo(p) <= Before(walk.next)
  /\ visit.pc = "rows" =>
       /\ walk.seen \cap visit.ids = {}
       /\ \A p \in visit.ids \cap Visible(walk.query) : WalkedTo(p) <= Before(walk.next + 1)

\* What was there all along and is on the pages turned has been seen.
NoGap ==
  /\ walk.short => walk.always \subseteq walk.seen
  /\ \A p \in walk.always : WalkedTo(p) <= Before(walk.next) => p \in walk.seen
  /\ visit.pc = "rows" =>
       /\ \A p \in walk.always :
            WalkedTo(p) <= Before(walk.next + 1) => p \in walk.seen \cup visit.ids
       /\ Cardinality(visit.ids) < PageSize => walk.always \subseteq walk.seen \cup visit.ids

WalkIs ==
  /\ DOMAIN walk = WalkFields
  /\ walk.query \in Queries /\ walk.next \in Nat \ {0}
  /\ walk.grew \in BOOLEAN /\ walk.shrank \in BOOLEAN
  /\ walk.seen \subseteq Shelf /\ walk.always \subseteq Visible(walk.query)
  /\ VisitFollowsWalk
  /\ Untied /\ ~walk.grew => NoRepetition
  /\ Untied /\ ~walk.shrank => NoGap

ShelfHolds ==
  /\ shelf \in [Shelf -> ShelfRows \cup {None}]
  /\ visit.ids \subseteq Shelf

WalkHolds == walk # None => WalkIs

\* What a query sees is some of the shelf.
LEMMA VisibleIs ==
  ASSUME NEW query
  PROVE  /\ Visible(query) \subseteq Shelf /\ IsFiniteSet(Visible(query))
         /\ \A p \in Visible(query) : shelf[p] # None
<1>1. Visible(query) \in SUBSET Shelf
  BY DEF Visible, Where
<1>2. IsFiniteSet(Visible(query))
  BY <1>1, ShelfAssumption, FS_Subset
<1> QED
  BY <1>1, <1>2 DEF Visible, Where

\* A query's order is total, if nothing ties.
LEMMA VisibleKeyed ==
  ASSUME ShelfHolds, NEW query \in Queries,
         query.byName => \A p, o \in Shelf :
            p # o /\ shelf[p] # None /\ shelf[o] # None => shelf[p].name # shelf[o].name
  PROVE  Keyed(Visible(query), Key(query))
<1>1. ASSUME NEW p \in Visible(query)
      PROVE  p \in Nat /\ p \in Shelf /\ shelf[p] # None /\ shelf[p].name \in Nat
  <2>1. p \in Shelf /\ shelf[p] # None
    BY VisibleIs
  <2>2. shelf[p] \in ShelfRows
    BY <2>1 DEF ShelfHolds
  <2> QED
    BY <2>1, <2>2, ShelfAssumption
<1>2. \A p \in Visible(query) : Key(query)[p] = IF query.byName THEN shelf[p].name ELSE -p
  BY <1>1 DEF Key
<1>3. query.byName \in BOOLEAN
  BY ShelfAssumption
<1>4. \A p \in Visible(query) : Key(query)[p] \in Int
  BY <1>1, <1>2, <1>3
<1>5. ASSUME NEW p \in Visible(query), NEW o \in Visible(query), Key(query)[p] = Key(query)[o]
      PROVE  p = o
  <2>1. CASE query.byName
    BY <1>1, <1>2, <1>5, <2>1
  <2>2. CASE ~query.byName
    BY <1>1, <1>2, <1>5, <2>2
  <2> QED
    BY <2>1, <2>2
<1> QED
  BY <1>4, <1>5, VisibleIs DEF Keyed

\* The walk's order is total.
LEMMA WalkKeyed ==
  ASSUME ShelfHolds, walk.query \in Queries, Untied
  PROVE  Keyed(Visible(walk.query), Key(walk.query))
BY VisibleKeyed DEF Untied

\* Where page n begins and ends.
LEMMA SliceIs ==
  ASSUME NEW n \in Nat \ {0}
  PROVE  /\ Before(n) \in Nat /\ PageSize \in Nat \ {0}
         /\ Before(n + 1) = Before(n) + PageSize
         /\ Slice(n) = Before(n) + 1 .. Before(n) + PageSize
<1>1. PageSize \in Nat \ {0}
  BY ShelfAssumption
<1>2. (n - 1) * PageSize \in Nat
  BY <1>1
<1>3. (n + 1 - 1) * PageSize = (n - 1) * PageSize + PageSize
  BY <1>1
<1>4. n * PageSize = (n - 1) * PageSize + PageSize
  BY <1>1
<1> QED
  BY <1>1, <1>2, <1>3, <1>4 DEF Before, Slice

\* The newest page of what a query sees.
LEMMA NewestIs ==
  ASSUME NEW query, ~query.byName, NEW n
  PROVE  NewestPage(Visible(query), n) = OnPage(query, n)
<1> DEFINE V == Visible(query)
<1>1. V \subseteq Shelf /\ Shelf \subseteq Nat
  BY VisibleIs, ShelfAssumption
<1> HIDE DEF V
<1>2. \A p \in V : Key(query)[p] = -p
  BY <1>1 DEF Key
<1>3. ASSUME NEW p \in V
      PROVE  Cardinality({o \in V : o >= p}) = Place(V, Key(query), p)
  <2>1. {o \in V : o >= p} = {o \in V : Key(query)[o] <= Key(query)[p]}
    <3>1. \A o \in V : o >= p <=> Key(query)[o] <= Key(query)[p]
      BY <1>1, <1>2
    <3> QED
      BY <3>1
  <2> QED
    BY <2>1 DEF Place
<1>4. NewestPage(V, n) = AtPlaces(V, Key(query), Slice(n))
  BY <1>3 DEF NewestPage, AtPlaces
<1> QED
  BY <1>4 DEF V, OnPage

\* The ids a sort by name reads, if no two names are the same.
LEMMA NamedIs ==
  ASSUME ShelfHolds, NEW query \in Queries, query.byName,
         Keyed(Visible(query), Key(query)), NEW o \in NameOrders(Visible(query)), NEW n
  PROVE  {o[i] : i \in Slice(n) \cap DOMAIN o} = OnPage(query, n)
<1> DEFINE V == Visible(query)
<1>1. o \in [1 .. Cardinality(V) -> V]
  BY DEF NameOrders
<1>2. \A i, j \in DOMAIN o : i < j => o[i] # o[j] /\ shelf[o[i]].name <= shelf[o[j]].name
  BY DEF NameOrders
<1>3. V \subseteq Shelf /\ \A p \in V : Key(query)[p] = shelf[p].name
  <2>1. V \subseteq Shelf
    BY VisibleIs
  <2> QED
    BY <2>1 DEF Key
<1>4. Keyed(V, Key(query))
  OBVIOUS
<1> HIDE DEF V
<1>5. ASSUME NEW i \in DOMAIN o, NEW j \in DOMAIN o, i < j
      PROVE  Key(query)[o[i]] < Key(query)[o[j]]
  <2>1. o[i] \in V /\ o[j] \in V /\ o[i] # o[j]
    BY <1>1, <1>2, <1>5
  <2>2. Key(query)[o[i]] <= Key(query)[o[j]] /\ Key(query)[o[i]] # Key(query)[o[j]]
    BY <1>2, <1>3, <1>4, <1>5, <2>1 DEF Keyed
  <2>3. Key(query)[o[i]] \in Int /\ Key(query)[o[j]] \in Int
    BY <1>4, <2>1 DEF Keyed
  <2> QED
    BY <2>2, <2>3
<1>6. {o[i] : i \in Slice(n) \cap DOMAIN o} = AtPlaces(V, Key(query), Slice(n))
  BY <1>1, <1>4, <1>5, OrderedPlaces
<1> QED
  BY <1>6 DEF OnPage, V

\* The page about to be shown is the next page of what the walk sees, as it
\* shows: nothing seen before, and if it is not full, everything left.
LEMMA PageRead ==
  ASSUME ShelfHolds, WalkIs, Untied, NEW ids, ids = OnPage(walk.query, walk.next)
  PROVE  /\ ~walk.grew =>
              /\ walk.seen \cap ids = {}
              /\ \A p \in ids : WalkedTo(p) <= Before(walk.next + 1)
         /\ ~walk.shrank =>
              /\ \A p \in walk.always :
                   WalkedTo(p) <= Before(walk.next + 1) => p \in walk.seen \cup ids
              /\ Cardinality(ids) < PageSize => walk.always \subseteq walk.seen \cup ids
<1> DEFINE V == Visible(walk.query)
           n == walk.next
           B == Before(n)
<1>1. Keyed(V, Key(walk.query)) /\ walk.always \subseteq V
  BY WalkKeyed DEF WalkIs
<1>2. /\ B \in Nat /\ PageSize \in Nat \ {0} /\ Before(n + 1) = B + PageSize
      /\ Slice(n) = B + 1 .. B + PageSize
  BY SliceIs DEF WalkIs
<1>3. \A p : p \in ids <=> p \in V /\ WalkedTo(p) \in B + 1 .. B + PageSize
  BY <1>2 DEF OnPage, AtPlaces, WalkedTo
<1>4. Cardinality(V) \in Nat /\ \A p \in V : WalkedTo(p) \in 1 .. Cardinality(V)
  BY <1>1, PlaceIs DEF WalkedTo
<1>5. ids = AtPlaces(V, Key(walk.query), B + 1 .. B + PageSize)
  BY <1>2 DEF OnPage
<1>6. ~walk.grew => \A p \in walk.seen \cap V : WalkedTo(p) <= B
  BY DEF WalkIs, NoRepetition
<1>7. ~walk.shrank => \A p \in walk.always : WalkedTo(p) <= B => p \in walk.seen
  BY DEF WalkIs, NoGap
<1>8. ASSUME NEW p \in V, WalkedTo(p) \notin 1 .. B + PageSize
      PROVE  Cardinality(ids) = PageSize
  BY <1>1, <1>2, <1>5, <1>8, PageFull DEF WalkedTo
<1> HIDE DEF V, B, n
<1>9. ASSUME ~walk.grew
      PROVE  /\ walk.seen \cap ids = {}
             /\ \A p \in ids : WalkedTo(p) <= B + PageSize
  BY <1>2, <1>3, <1>4, <1>6, <1>9
<1>10. ASSUME ~walk.shrank
       PROVE  /\ \A p \in walk.always : WalkedTo(p) <= B + PageSize => p \in walk.seen \cup ids
              /\ Cardinality(ids) < PageSize => walk.always \subseteq walk.seen \cup ids
  <2>1. ASSUME NEW p \in walk.always, WalkedTo(p) <= B + PageSize
        PROVE  p \in walk.seen \cup ids
    BY <1>1, <1>2, <1>3, <1>4, <1>7, <1>10, <2>1
  <2>2. ASSUME Cardinality(ids) < PageSize, NEW p \in walk.always
        PROVE  p \in walk.seen \cup ids
    <3>1. WalkedTo(p) \in 1 .. B + PageSize
      BY <1>1, <1>2, <1>8, <2>2
    <3> QED
      BY <1>2, <2>1, <3>1
  <2> QED
    BY <2>1, <2>2
<1> QED
  BY <1>2, <1>9, <1>10 DEF B, n

\* Fewer members, smaller places; more members, greater places.
LEMMA PlaceMoves ==
  ASSUME NEW S, NEW T, NEW key, S \subseteq T, IsFiniteSet(T), NEW p
  PROVE  /\ Place(S, key, p) \in Nat /\ Place(T, key, p) \in Nat
         /\ Place(S, key, p) <= Place(T, key, p)
<1> DEFINE BelowS == {o \in S : key[o] <= key[p]}
           BelowT == {o \in T : key[o] <= key[p]}
<1>1. BelowT \in SUBSET T /\ BelowS \in SUBSET BelowT
  OBVIOUS
<1>2. IsFiniteSet(BelowT)
  BY <1>1, FS_Subset
<1>3. IsFiniteSet(BelowS) /\ Cardinality(BelowS) <= Cardinality(BelowT)
  BY <1>1, <1>2, FS_Subset
<1>4. Cardinality(BelowS) \in Nat /\ Cardinality(BelowT) \in Nat
  BY <1>2, <1>3, FS_CardinalityType
<1> QED
  BY <1>3, <1>4 DEF Place

\* What the walk sees stays while the shelf and the tier do.
LEMMA SameView ==
  ASSUME UNCHANGED <<walk, shelf>>, Tier' = Tier
  PROVE  /\ Visible(walk.query)' = Visible(walk.query)
         /\ Searched(walk.query)' = Searched(walk.query)
         /\ OnPage(walk.query, walk.next)' = OnPage(walk.query, walk.next)
         /\ Untied' <=> Untied
         /\ \A p : WalkedTo(p)' = WalkedTo(p)
<1>1. \A filter : (Where(Tier, filter))' = Where(Tier, filter)
  BY DEF Where
<1>2. Searched(walk.query)' = Searched(walk.query)
  BY DEF Searched
<1>3. Visible(walk.query)' = Visible(walk.query)
  BY <1>2 DEF Visible, Where
<1>4. Key(walk.query)' = Key(walk.query)
  BY DEF Key
<1>5. OnPage(walk.query, walk.next)' = OnPage(walk.query, walk.next)
  BY <1>3, <1>4 DEF OnPage, AtPlaces, Place, Slice
<1>6. \A p : WalkedTo(p)' = WalkedTo(p)
  BY <1>3, <1>4 DEF WalkedTo, Place
<1>7. Untied' <=> Untied
  BY DEF Untied
<1> QED
  BY <1>2, <1>3, <1>5, <1>6, <1>7

\* A request that shows no page yet leaves the walk as it is.
LEMMA WalkWaits ==
  ASSUME WalkIs, UNCHANGED <<walk, shelf>>, Tier' = Tier, VisitFollowsWalk',
         visit'.pc # "rows"
  PROVE  WalkIs'
<1>1. /\ Visible(walk.query)' = Visible(walk.query) /\ (Untied' <=> Untied)
      /\ \A p : WalkedTo(p)' = WalkedTo(p)
  BY SameView
<1>2. Untied /\ ~walk.grew => NoRepetition'
  BY <1>1 DEF WalkIs, NoRepetition, Before
<1>3. Untied /\ ~walk.shrank => NoGap'
  BY <1>1 DEF WalkIs, NoGap, Before
<1>4. /\ DOMAIN walk' = WalkFields /\ walk'.query \in Queries /\ walk'.next \in Nat \ {0}
      /\ walk'.grew \in BOOLEAN /\ walk'.shrank \in BOOLEAN
      /\ walk'.seen \subseteq Shelf /\ walk'.always \subseteq Visible(walk.query)'
  BY <1>1 DEF WalkIs
<1> QED
  BY <1>1, <1>2, <1>3, <1>4 DEF WalkIs

\* Requests that turn no page.
LEMMA OtherRequests ==
  ASSUME WalkHolds, UNCHANGED <<walk, shelf>>, Tier' = Tier,
         visit'.pc \notin {"scopes", "search", "names", "count", "rows"}
  PROVE  WalkHolds'
<1>1. VisitFollowsWalk'
  BY DEF VisitFollowsWalk, Browsing
<1> QED
  BY <1>1, WalkWaits DEF WalkHolds

\* A query's walk begins.
LEMMA NewWalkIs ==
  ASSUME NEW query
  PROVE  LET w == NewWalk(query) IN
           /\ DOMAIN w = WalkFields /\ w.query = query /\ w.next = 1 /\ w.seen = {}
           /\ w.twice = FALSE /\ w.short = FALSE /\ w.grew = FALSE /\ w.shrank = FALSE
           /\ w.always = Visible(query)
BY DEF NewWalk, WalkFields

\* A page is asked for: the first of a walk that begins, or its next.
LEMMA ScopesKeep ==
  ASSUME ShelfHolds, ShelfHolds', WalkHolds, NEW query \in Queries, BrowseScopes(query),
         Tier' = Tier
  PROVE  WalkHolds'
<1>1. shelf' = shelf /\ visit' = [Arrived("scopes") EXCEPT !.query = query, !.page = walk'.next]
  BY DEF BrowseScopes
<1>2. /\ visit'.pc = "scopes" /\ visit'.query = query /\ visit'.page = walk'.next
      /\ visit'.tier = Tier
  BY <1>1, ArrivedIs DEF Fields
<1>3. CASE walk # None /\ query = walk.query /\ ~walk.short /\ UNCHANGED walk
  <2>1. VisitFollowsWalk'
    BY <1>2, <1>3 DEF VisitFollowsWalk
  <2> QED
    BY <1>1, <1>2, <1>3, <2>1, WalkWaits DEF WalkHolds
<1>4. CASE walk' = NewWalk(query)
  <2>1. /\ DOMAIN walk' = WalkFields /\ walk'.query = query /\ walk'.next = 1
        /\ walk'.seen = {} /\ walk'.twice = FALSE /\ walk'.short = FALSE
        /\ walk'.grew = FALSE /\ walk'.shrank = FALSE /\ walk'.always = Visible(query)
    BY <1>4, NewWalkIs
  <2>3. VisitFollowsWalk'
    BY <1>2, <2>1 DEF VisitFollowsWalk
  <2>4. NoRepetition'
    BY <1>2, <2>1 DEF NoRepetition
  <2>5. Visible(walk.query)' = Visible(query)
    BY <1>1, <2>1 DEF Visible, Where, Searched
  <2>6. ASSUME Untied'
        PROVE  NoGap'
    <3>1. Before(walk.next)' = 0
      BY <2>1, ShelfAssumption DEF Before
    <3>2. Keyed(Visible(query), Key(query))
      BY <1>1, <2>1, <2>6, VisibleKeyed DEF Untied
    <3>3. \A p \in Visible(query) : Place(Visible(query), Key(query), p) \in Nat \ {0}
      BY <3>2, PlaceIs
    <3>4. Key(walk.query)' = Key(query)
      BY <1>1, <2>1 DEF Key
    <3>5. \A p \in Visible(query) : WalkedTo(p)' \in Nat \ {0}
      BY <2>5, <3>3, <3>4 DEF WalkedTo, Place
    <3> QED
      BY <1>2, <2>1, <3>1, <3>5 DEF NoGap
  <2>7. /\ walk'.query \in Queries /\ walk'.next \in Nat \ {0}
        /\ walk'.grew \in BOOLEAN /\ walk'.shrank \in BOOLEAN
        /\ walk'.seen \subseteq Shelf /\ walk'.always \subseteq Visible(walk.query)'
    <3>1. walk'.query \in Queries
      BY <2>1
    <3>2. walk'.next \in Nat \ {0}
      BY <2>1
    <3>3. walk'.grew \in BOOLEAN /\ walk'.shrank \in BOOLEAN
      BY <2>1, Zenon
    <3>4. walk'.seen \subseteq Shelf
      BY <2>1
    <3>5. walk'.always \subseteq Visible(walk.query)'
      BY <2>1, <2>5
    <3> QED
      BY <3>1, <3>2, <3>3, <3>4, <3>5
  <2>8. WalkIs'
    <3>1. Untied' /\ ~walk'.grew => NoRepetition'
      BY <2>4
    <3>2. Untied' /\ ~walk'.shrank => NoGap'
      BY <2>6
    <3>3. DOMAIN walk' = WalkFields
      BY <2>1
    <3> QED
      BY <2>3, <2>7, <3>1, <3>2, <3>3 DEF WalkIs
  <2> QED
    BY <2>8 DEF WalkHolds
<1> QED
  BY <1>3, <1>4 DEF BrowseScopes

\* The ids of a search, or of everything.
LEMMA SearchKeeps ==
  ASSUME TierHolds, WalkHolds, BrowseSearch, Tier' = Tier
  PROVE  WalkHolds'
<1>1. UNCHANGED <<walk, shelf>> /\ visit.pc = "scopes"
  BY DEF BrowseSearch
<1>2. /\ visit'.pc = "search" /\ visit'.ids = Searched(visit.query)
      /\ visit'.query = visit.query /\ visit'.page = visit.page /\ visit'.tier = visit.tier
  BY DEF BrowseSearch, TierHolds, Fields
<1>3. ASSUME WalkIs
      PROVE  VisitFollowsWalk'
  BY <1>1, <1>2, <1>3, SameView DEF WalkIs, VisitFollowsWalk, Browsing
<1> QED
  BY <1>1, <1>2, <1>3, WalkWaits DEF WalkHolds

\* The products a request finds are those its walk sees.
LEMMA HitsAreVisible ==
  ASSUME WalkIs, visit.pc \in {"search", "names", "count"}
  PROVE  Hits = Visible(walk.query)
BY DEF Hits, Visible, WalkIs, VisitFollowsWalk, Browsing

\* The page of a sort by name.
LEMMA NamesKeep ==
  ASSUME ShelfHolds, TierHolds, WalkHolds, BrowseNames, Tier' = Tier
  PROVE  WalkHolds'
<1>1. UNCHANGED <<walk, shelf>> /\ visit.pc = "search" /\ visit.query.byName
  BY DEF BrowseNames
<1>2. PICK o \in NameOrders(Hits) :
        visit' = [visit EXCEPT !.pc = "names",
                               !.cut = {o[i] : i \in Slice(visit.page) \cap DOMAIN o}]
  BY DEF BrowseNames
<1>3. /\ visit'.pc = "names" /\ visit'.ids = visit.ids
      /\ visit'.cut = {o[i] : i \in Slice(visit.page) \cap DOMAIN o}
      /\ visit'.query = visit.query /\ visit'.page = visit.page /\ visit'.tier = visit.tier
  BY <1>2 DEF TierHolds, Fields
<1>4. ASSUME WalkIs
      PROVE  VisitFollowsWalk'
  <2>1. /\ visit.query = walk.query /\ visit.page = walk.next /\ visit.tier = Tier
        /\ visit.ids = Searched(walk.query) /\ walk.query \in Queries
    BY <1>1, <1>4 DEF WalkIs, VisitFollowsWalk, Browsing
  <2>2. ASSUME Untied
        PROVE  visit'.cut = OnPage(walk.query, walk.next)
    <3>1. Keyed(Visible(walk.query), Key(walk.query))
      BY <2>1, <2>2, WalkKeyed
    <3>2. o \in NameOrders(Visible(walk.query))
      BY <1>1, <1>2, <1>4, HitsAreVisible
    <3> QED
      BY <1>1, <1>3, <2>1, <3>1, <3>2, NamedIs
  <2> QED
    BY <1>1, <1>3, <2>1, <2>2, SameView DEF VisitFollowsWalk
<1> QED
  BY <1>1, <1>3, <1>4, WalkWaits DEF WalkHolds

\* The total.
LEMMA CountKeeps ==
  ASSUME TierHolds, WalkHolds, BrowseCount, Tier' = Tier
  PROVE  WalkHolds'
<1>1. /\ UNCHANGED <<walk, shelf>>
      /\ visit.pc = "names" \/ (visit.pc = "search" /\ ~visit.query.byName)
  BY DEF BrowseCount
<1>2. /\ visit'.pc = "count" /\ visit'.ids = visit.ids /\ visit'.cut = visit.cut
      /\ visit'.query = visit.query /\ visit'.page = visit.page /\ visit'.tier = visit.tier
  BY DEF BrowseCount, TierHolds, Fields
<1>3. ASSUME WalkIs
      PROVE  VisitFollowsWalk'
  BY <1>1, <1>2, <1>3, SameView DEF WalkIs, VisitFollowsWalk, Browsing
<1> QED
  BY <1>1, <1>2, <1>3, WalkWaits DEF WalkHolds

\* The rows.
LEMMA RowsKeep ==
  ASSUME ShelfHolds, TierHolds, WalkHolds, BrowseRows, Tier' = Tier
  PROVE  WalkHolds'
<1>1. UNCHANGED <<walk, shelf>> /\ visit.pc = "count"
  BY DEF BrowseRows
<1>2. /\ visit'.pc = "rows"
      /\ visit'.query = visit.query /\ visit'.page = visit.page /\ visit'.tier = visit.tier
      /\ visit'.ids = IF visit.query.byName
                      THEN Where(visit.tier, visit.query.filter) \cap visit.cut
                      ELSE NewestPage(Hits, visit.page)
  BY DEF BrowseRows, TierHolds, Fields
<1>3. ASSUME WalkIs
      PROVE  WalkIs'
  <2>1. /\ visit.query = walk.query /\ visit.page = walk.next /\ visit.tier = Tier
        /\ walk.query \in Queries /\ walk.query.byName \in BOOLEAN
        /\ Untied /\ walk.query.byName => visit.cut = OnPage(walk.query, walk.next)
    BY <1>1, <1>3, ShelfAssumption DEF WalkIs, VisitFollowsWalk, Browsing
  <2>2. ASSUME Untied
        PROVE  visit'.ids = OnPage(walk.query, walk.next)
    <3>1. CASE walk.query.byName
      <4>1. OnPage(walk.query, walk.next) \subseteq Where(Tier, walk.query.filter)
        BY DEF OnPage, AtPlaces, Visible
      <4> QED
        BY <1>2, <2>1, <2>2, <3>1, <4>1
    <3>2. CASE ~walk.query.byName
      <4>1. Hits = Visible(walk.query)
        BY <1>1, <1>3, HitsAreVisible
      <4> QED
        BY <1>2, <2>1, <3>2, <4>1, NewestIs
    <3> QED
      BY <2>1, <3>1, <3>2
  <2>3. /\ Visible(walk.query)' = Visible(walk.query) /\ (Untied' <=> Untied)
        /\ \A p : WalkedTo(p)' = WalkedTo(p)
    BY <1>1, SameView
  <2>4. VisitFollowsWalk'
    BY <1>1, <1>2, <2>1 DEF VisitFollowsWalk
  <2> DEFINE ids == OnPage(walk.query, walk.next)
  <2>5. ASSUME Untied
        PROVE  /\ ~walk.grew =>
                    /\ walk.seen \cap ids = {}
                    /\ \A p \in ids : WalkedTo(p) <= Before(walk.next + 1)
               /\ ~walk.shrank =>
                    /\ \A p \in walk.always :
                         WalkedTo(p) <= Before(walk.next + 1) => p \in walk.seen \cup ids
                    /\ Cardinality(ids) < PageSize => walk.always \subseteq walk.seen \cup ids
    BY <1>3, <2>5, PageRead
  <2> HIDE DEF ids
  <2>6. ASSUME Untied, ~walk.grew
        PROVE  NoRepetition'
    <3>1. /\ ~walk.twice
          /\ \A p \in walk.seen \cap Visible(walk.query) : WalkedTo(p) <= Before(walk.next)
      BY <1>3, <2>6 DEF WalkIs, NoRepetition
    <3>2. visit'.ids = ids
      BY <2>2, <2>6 DEF ids
    <3> QED
      BY <1>1, <2>3, <2>5, <2>6, <3>1, <3>2 DEF NoRepetition, Before
  <2>7. ASSUME Untied, ~walk.shrank
        PROVE  NoGap'
    <3>1. /\ walk.short => walk.always \subseteq walk.seen
          /\ \A p \in walk.always : WalkedTo(p) <= Before(walk.next) => p \in walk.seen
      BY <1>3, <2>7 DEF WalkIs, NoGap
    <3>2. visit'.ids = ids
      BY <2>2, <2>7 DEF ids
    <3> QED
      BY <1>1, <2>3, <2>5, <2>7, <3>1, <3>2 DEF NoGap, Before
  <2>8. /\ DOMAIN walk' = WalkFields /\ walk'.query \in Queries /\ walk'.next \in Nat \ {0}
        /\ walk'.grew \in BOOLEAN /\ walk'.shrank \in BOOLEAN
        /\ walk'.seen \subseteq Shelf /\ walk'.always \subseteq Visible(walk.query)'
    BY <1>1, <1>3, <2>3 DEF WalkIs
  <2>9. /\ Untied' /\ ~walk'.grew => NoRepetition'
        /\ Untied' /\ ~walk'.shrank => NoGap'
    BY <1>1, <2>3, <2>6, <2>7
  <2> QED
    BY <2>4, <2>8, <2>9 DEF WalkIs
<1> QED
  BY <1>1, <1>3 DEF WalkHolds

\* What the walk sees stays while its query does, beside the shelf and the tier.
LEMMA SameQuery ==
  ASSUME walk'.query = walk.query, shelf' = shelf, Tier' = Tier
  PROVE  /\ Visible(walk.query)' = Visible(walk.query) /\ (Untied' <=> Untied)
         /\ \A p : WalkedTo(p)' = WalkedTo(p)
<1>1. Searched(walk.query)' = Searched(walk.query)
  BY DEF Searched
<1>2. Visible(walk.query)' = Visible(walk.query)
  BY <1>1 DEF Visible, Where
<1>3. Key(walk.query)' = Key(walk.query)
  BY DEF Key
<1>4. \A p : WalkedTo(p)' = WalkedTo(p)
  BY <1>2, <1>3 DEF WalkedTo, Place
<1>5. Untied' <=> Untied
  BY DEF Untied
<1> QED
  BY <1>2, <1>4, <1>5

\* The page is shown and the walk goes on to the next.
LEMMA ShowKeeps ==
  ASSUME ShelfHolds, TierHolds, WalkHolds, BrowsePrices, Tier' = Tier
  PROVE  WalkHolds'
<1>1. /\ shelf' = shelf /\ visit.pc = "rows"
      /\ visit' = [visit EXCEPT !.pc = "rest", !.page = 0, !.ids = {}, !.paid = Tier]
      /\ walk' = IF walk = None THEN None
                 ELSE [walk EXCEPT !.next = @ + 1, !.seen = @ \cup visit.ids,
                                   !.twice = @ \/ walk.seen \cap visit.ids # {},
                                   !.short = Cardinality(visit.ids) < PageSize]
  BY DEF BrowsePrices, ShowPage
<1>2. visit'.pc = "rest"
  BY <1>1 DEF TierHolds, Fields
<1>3. ASSUME walk # None
      PROVE  WalkIs'
  <2> USE <1>3
  <2>1. WalkIs
    BY DEF WalkHolds
  <2>2. /\ DOMAIN walk' = WalkFields /\ walk'.query = walk.query /\ walk'.next = walk.next + 1
        /\ walk'.seen = walk.seen \cup visit.ids /\ walk'.always = walk.always
        /\ walk'.grew = walk.grew /\ walk'.shrank = walk.shrank
    BY <1>1, <2>1 DEF WalkIs, WalkFields
  <2>3. /\ ~walk.twice /\ walk.seen \cap visit.ids = {} => ~walk'.twice
        /\ walk'.short => Cardinality(visit.ids) < PageSize
    BY <1>1, <2>1 DEF WalkIs, WalkFields
  <2>4. /\ Visible(walk.query)' = Visible(walk.query) /\ (Untied' <=> Untied)
        /\ \A p : WalkedTo(p)' = WalkedTo(p)
    BY <1>1, <2>2, SameQuery
  <2>5. walk.next \in Nat \ {0} /\ Before(walk.next)' = Before(walk.next + 1)
        /\ Before(walk.next) \in Nat /\ PageSize \in Nat
        /\ Before(walk.next + 1) = Before(walk.next) + PageSize
    BY <2>1, <2>2, SliceIs DEF WalkIs, Before
  <2>6. VisitFollowsWalk'
    BY <1>2 DEF VisitFollowsWalk, Browsing
  <2>7. \A p : p \in Visible(walk.query) => WalkedTo(p) \in Nat
    <3>1. \A p : WalkedTo(p) \in Nat
      BY VisibleIs, FS_Subset, FS_CardinalityType DEF WalkedTo, Place
    <3> QED
      BY <3>1
  <2>8. ASSUME Untied, ~walk.grew
        PROVE  NoRepetition'
    <3>1. NoRepetition
      BY <2>1, <2>8 DEF WalkIs
    <3>2. ASSUME NEW p \in walk'.seen \cap Visible(walk.query)'
          PROVE  WalkedTo(p)' <= Before(walk.next)'
      <4>1. p \in Visible(walk.query) /\ WalkedTo(p) \in Nat
        BY <2>4, <2>7, <3>2
      <4>2. WalkedTo(p) <= Before(walk.next + 1)
        BY <1>1, <2>2, <2>5, <3>1, <3>2, <4>1 DEF NoRepetition
      <4> QED
        BY <2>4, <2>5, <4>2
    <3> QED
      BY <1>1, <1>2, <2>3, <3>1, <3>2 DEF NoRepetition
  <2>9. ASSUME Untied, ~walk.shrank
        PROVE  NoGap'
    <3>1. NoGap
      BY <2>1, <2>9 DEF WalkIs
    <3> QED
      BY <1>1, <1>2, <2>2, <2>3, <2>4, <2>5, <3>1 DEF NoGap
  <2>10. /\ walk'.query \in Queries /\ walk'.next \in Nat \ {0}
         /\ walk'.grew \in BOOLEAN /\ walk'.shrank \in BOOLEAN
         /\ walk'.seen \subseteq Shelf /\ walk'.always \subseteq Visible(walk.query)'
    BY <2>1, <2>2, <2>4 DEF WalkIs, ShelfHolds
  <2>11. /\ Untied' /\ ~walk'.grew => NoRepetition'
         /\ Untied' /\ ~walk'.shrank => NoGap'
    BY <2>2, <2>4, <2>8, <2>9
  <2> QED
    BY <2>2, <2>6, <2>10, <2>11 DEF WalkIs
<1> QED
  BY <1>1, <1>3 DEF WalkHolds

\* The request in flight after a change of the shelf.
LEMMA ChangedVisit ==
  ASSUME TierHolds, Changed
  PROVE  /\ DOMAIN visit' = Fields /\ visit'.pc = visit.pc /\ visit'.ids \subseteq visit.ids
         /\ visit.pc = "rest" => visit' = NoVisit
         /\ visit.pc # "rest" =>
              /\ visit'.ids = visit.ids /\ visit'.cut = visit.cut
              /\ visit'.query = visit.query /\ visit'.page = visit.page
              /\ visit'.tier = visit.tier /\ visit'.quiet = FALSE
              /\ visit'.total = visit.total
<1>1. CASE visit.pc = "rest"
  <2>1. visit' = NoVisit
    BY <1>1 DEF Changed, AtRest
  <2>2. DOMAIN NoVisit = Fields /\ NoVisit.pc = "rest" /\ NoVisit.ids = {}
    BY DEF NoVisit, Fields
  <2> QED
    BY <1>1, <2>1, <2>2
<1>2. CASE visit.pc # "rest"
  <2>1. visit' = [visit EXCEPT !.held = @ \cup {Tier'}, !.quiet = FALSE]
    BY <1>2 DEF Changed, AtRest
  <2> QED
    BY <1>2, <2>1 DEF TierHolds, Fields
<1> QED
  BY <1>1, <1>2

\* The walk beside an edit, while it has not been given up.
LEMMA BesideIs ==
  ASSUME WalkIs, NEW now, NEW next, WalkBeside(now, next) # None
  PROVE  LET w == WalkBeside(now, next) IN
           /\ DOMAIN w = WalkFields /\ w.query = walk.query /\ w.next = walk.next
           /\ w.seen = walk.seen /\ w.always = walk.always \cap next
           /\ w.grew \in BOOLEAN /\ w.shrank \in BOOLEAN
           /\ ~w.grew => ~walk.grew /\ next \subseteq now
           /\ ~w.shrank => ~walk.shrank /\ now \subseteq next
           /\ ~walk.twice => ~w.twice
           /\ w.short => walk.short
<1> DEFINE grew == walk.grew \/ ~(next \subseteq now)
           shrank == walk.shrank \/ ~(now \subseteq next)
           w == [walk EXCEPT !.grew = grew, !.shrank = shrank, !.always = @ \cap next]
<1>1. WalkBeside(now, next) = w
  BY DEF WalkBeside
<1>2. grew \in BOOLEAN /\ shrank \in BOOLEAN
  OBVIOUS
<1>3. ~grew => ~walk.grew /\ next \subseteq now
  OBVIOUS
<1>4. ~shrank => ~walk.shrank /\ now \subseteq next
  OBVIOUS
<1> HIDE DEF grew, shrank
<1>5. /\ DOMAIN w = WalkFields /\ w.query = walk.query /\ w.next = walk.next
      /\ w.seen = walk.seen /\ w.always = walk.always \cap next
      /\ w.grew = grew /\ w.shrank = shrank /\ w.twice = walk.twice /\ w.short = walk.short
  BY DEF WalkIs, WalkFields
<1> HIDE DEF w
<1> QED
  BY <1>1, <1>2, <1>3, <1>4, <1>5

\* An edit of the shelf: a walk in the order of creation sees every product
\* it still sees no later if it gained none, and no earlier if it lost none.
LEMMA EditKeepsWalk ==
  ASSUME TierHolds, WalkHolds, NEW p \in Shelf, NEW row \in ShelfRows, EditShelf(p, row),
         Tier' = Tier
  PROVE  WalkHolds'
<1>1. SUFFICES ASSUME walk' # None
               PROVE  WalkIs'
  BY DEF WalkHolds
<1>2. walk # None /\ ~walk.query.byName /\ ~walk.query.search /\ WalkIs
  BY <1>1 DEF EditShelf, WalkHolds
<1>3. PICK q \in {walk.query} : walk' = WalkBeside(Visible(q), Visible(q)')
  BY <1>1, <1>2 DEF EditShelf
<1> DEFINE V == Visible(q)
           W == Visible(q)'
           key == [o \in Shelf |-> -o]
<1>4. q = walk.query /\ q \in Queries /\ ~q.byName /\ ~q.search
  BY <1>2 DEF WalkIs
<1>5. /\ DOMAIN walk' = WalkFields /\ walk'.query = q /\ walk'.next = walk.next
      /\ walk'.seen = walk.seen /\ walk'.always = walk.always \cap W
      /\ walk'.grew \in BOOLEAN /\ walk'.shrank \in BOOLEAN
      /\ ~walk'.grew => ~walk.grew /\ W \subseteq V
      /\ ~walk'.shrank => ~walk.shrank /\ V \subseteq W
      /\ ~walk.twice => ~walk'.twice
      /\ walk'.short => walk.short
  BY <1>1, <1>2, <1>3, <1>4, BesideIs
<1>6. /\ Visible(walk.query) = V /\ Visible(walk.query)' = W
      /\ Key(walk.query) = key /\ Key(walk.query)' = key
  <2>1. Visible(walk.query)' = W
    BY <1>5 DEF Visible, Where, Searched
  <2>2. Key(walk.query) = key /\ Key(walk.query)' = key
    BY <1>4, <1>5 DEF Key
  <2> QED
    BY <1>4, <2>1, <2>2
<1>7. IsFiniteSet(V) /\ IsFiniteSet(W) /\ V \subseteq Shelf /\ W \subseteq Shelf
  <2>1. V \in SUBSET Shelf /\ W \in SUBSET Shelf
    BY DEF Visible, Where
  <2> QED
    BY <2>1, ShelfAssumption, FS_Subset
<1> HIDE DEF V, W, key
<1>8. /\ \A o : WalkedTo(o) = Place(V, key, o)
      /\ \A o : WalkedTo(o)' = Place(W, key, o)
  BY <1>6 DEF WalkedTo, Place
<1>9. Untied
  BY <1>2 DEF Untied
<1>10. /\ DOMAIN visit' = Fields /\ visit'.pc = visit.pc /\ visit'.ids \subseteq visit.ids
       /\ visit.pc = "rest" => visit' = NoVisit
       /\ visit.pc # "rest" =>
            /\ visit'.ids = visit.ids /\ visit'.cut = visit.cut
            /\ visit'.query = visit.query /\ visit'.page = visit.page
            /\ visit'.tier = visit.tier
  BY ChangedVisit DEF EditShelf
<1>11. VisitFollowsWalk'
  <2>1. VisitFollowsWalk
    BY <1>2 DEF WalkIs
  <2>2. Searched(walk.query) = Shelf /\ Searched(walk.query)' = Shelf
    BY <1>4, <1>5 DEF Searched
  <2> QED
    BY <1>4, <1>5, <1>10, <2>1, <2>2 DEF VisitFollowsWalk, Browsing
<1>12. walk'.query \in Queries /\ walk'.next \in Nat \ {0}
       /\ walk'.seen \subseteq Shelf /\ walk'.always \subseteq Visible(walk.query)'
  BY <1>2, <1>4, <1>5, <1>6 DEF WalkIs
<1>13. /\ Before(walk.next) \in Int /\ Before(walk.next)' = Before(walk.next)
       /\ Before(walk.next + 1) \in Int /\ Before(walk.next + 1)' = Before(walk.next + 1)
  <2>1. walk.next \in Nat \ {0}
    BY <1>2 DEF WalkIs
  <2>2. Before(walk.next) \in Int /\ Before(walk.next + 1) \in Int
    BY <2>1, SliceIs
  <2> QED
    BY <1>5, <2>2 DEF Before
<1>14. ASSUME ~walk'.grew
       PROVE  NoRepetition'
  <2>1. NoRepetition /\ W \subseteq V
    BY <1>2, <1>5, <1>9, <1>14 DEF WalkIs
  <2>2. \A o : /\ Place(W, key, o) \in Nat /\ Place(V, key, o) \in Nat
               /\ Place(W, key, o) <= Place(V, key, o)
    BY <1>7, <2>1, PlaceMoves
  <2>3. /\ Before(walk.next) \in Int /\ Before(walk.next)' = Before(walk.next)
        /\ Before(walk.next + 1) \in Int /\ Before(walk.next + 1)' = Before(walk.next + 1)
    BY <1>13
  <2>4. ASSUME NEW o \in walk'.seen \cap W
        PROVE  Place(W, key, o) <= Before(walk.next)
    <3>1. Place(V, key, o) <= Before(walk.next)
      BY <1>5, <1>6, <1>8, <2>1, <2>4 DEF NoRepetition
    <3> QED
      BY <2>2, <2>3, <3>1
  <2>5. ASSUME visit'.pc = "rows"
        PROVE  /\ walk'.seen \cap visit'.ids = {}
               /\ \A o \in visit'.ids \cap W : Place(W, key, o) <= Before(walk.next + 1)
    <3>1. visit.pc = "rows" /\ visit'.ids = visit.ids
      BY <1>10, <2>5
    <3>2. ASSUME NEW o \in visit'.ids \cap W
          PROVE  Place(W, key, o) <= Before(walk.next + 1)
      <4>1. Place(V, key, o) <= Before(walk.next + 1)
        BY <1>6, <1>8, <2>1, <3>1, <3>2 DEF NoRepetition
      <4> QED
        BY <2>2, <2>3, <4>1
    <3> QED
      BY <1>5, <2>1, <3>1, <3>2 DEF NoRepetition
  <2>6. ~walk'.twice
    BY <1>5, <2>1 DEF NoRepetition
  <2> QED
    BY <1>5, <1>6, <1>8, <2>3, <2>4, <2>5, <2>6 DEF NoRepetition
<1>15. ASSUME ~walk'.shrank
       PROVE  NoGap'
  <2>1. NoGap /\ V \subseteq W
    BY <1>2, <1>5, <1>9, <1>15 DEF WalkIs
  <2>2. \A o : /\ Place(W, key, o) \in Nat /\ Place(V, key, o) \in Nat
               /\ Place(V, key, o) <= Place(W, key, o)
    BY <1>7, <2>1, PlaceMoves
  <2>3. /\ Before(walk.next) \in Int /\ Before(walk.next)' = Before(walk.next)
        /\ Before(walk.next + 1) \in Int /\ Before(walk.next + 1)' = Before(walk.next + 1)
    BY <1>13
  <2>4. ASSUME NEW o \in walk'.always, Place(W, key, o) <= Before(walk.next)
        PROVE  o \in walk'.seen
    <3>1. Place(V, key, o) <= Before(walk.next)
      BY <2>2, <2>3, <2>4
    <3> QED
      BY <1>5, <1>8, <2>1, <3>1 DEF NoGap
  <2>5. ASSUME visit'.pc = "rows"
        PROVE  /\ \A o \in walk'.always : Place(W, key, o) <= Before(walk.next + 1) =>
                                            o \in walk'.seen \cup visit'.ids
               /\ Cardinality(visit'.ids) < PageSize =>
                    walk'.always \subseteq walk'.seen \cup visit'.ids
    <3>1. visit.pc = "rows" /\ visit'.ids = visit.ids
      BY <1>10, <2>5
    <3>2. ASSUME NEW o \in walk'.always, Place(W, key, o) <= Before(walk.next + 1)
          PROVE  o \in walk'.seen \cup visit'.ids
      <4>1. Place(V, key, o) <= Before(walk.next + 1)
        BY <2>2, <2>3, <3>2
      <4> QED
        BY <1>5, <1>8, <2>1, <3>1, <4>1 DEF NoGap
    <3> QED
      BY <1>5, <2>1, <3>1, <3>2 DEF NoGap
  <2>6. walk'.short => walk'.always \subseteq walk'.seen
    BY <1>5, <2>1 DEF NoGap
  <2> QED
    BY <1>5, <1>6, <1>8, <2>3, <2>4, <2>5, <2>6 DEF NoGap
<1> QED
  BY <1>5, <1>11, <1>14, <1>15, <1>12 DEF WalkIs

-----------------------------------------------------------------------------
(* Facet counts and totals                                                 *)

\* Counts that are shown, and the total of the last page, are those of the
\* catalog as it is, and of the viewer's tier as it is, unless something has
\* changed since.
CountsHold ==
  /\ visit.quiet \in BOOLEAN
  /\ (IF visit.pc = "ages" THEN visit.quiet # FALSE ELSE counts # None) =>
       \A f \in DOMAIN counts : counts[f] = Cardinality(Where(Tier, f))
  /\ visit.quiet = FALSE /\ visit.pc # "ages" => counts = None
  /\ visit.pc \in {"search", "names"} /\ visit.quiet # FALSE =>
       visit.ids = Searched(visit.query)
  /\ visit.total # None /\ visit.quiet # FALSE =>
       visit.total = Cardinality(Where(Tier, visit.query.filter) \cap Searched(visit.query))

\* A request neither reads the tier of the account anew nor writes.
LEMMA RequestReads ==
  ASSUME CatalogStep
  PROVE  Tier' = Tier /\ UNCHANGED <<shelf, elsewhere>>
<1>1. UNCHANGED <<shelf, elsewhere>>
  BY DEF CatalogStep, BrowseScopes, BrowseSearch, BrowseNames, BrowseCount, BrowseRows,
         BrowsePrices, ShowPage, DetailSlug, DetailRow, DetailScopes, DetailPrices,
         FacetScopes, FacetGroups, FacetAges
<1> QED
  BY <1>1 DEF elsewhere, resolution, Tier, ResolveTier

\* What a query finds stays while the shelf and the tier do.
LEMMA SameRows ==
  ASSUME shelf' = shelf, Tier' = Tier
  PROVE  /\ \A f : Where(Tier, f)' = Where(Tier, f)
         /\ \A query : Searched(query)' = Searched(query)
BY DEF Where, Searched

\* A request arrives, or ends without a page.
LEMMA CountsArrive ==
  ASSUME CountsHold, UNCHANGED <<shelf, counts>>, Tier' = Tier, visit.pc # "ages",
         visit'.pc \notin {"ages", "search", "names"}, visit'.total = None, visit'.quiet = TRUE
  PROVE  CountsHold'
<1>1. \A f : Where(Tier, f)' = Where(Tier, f)
  BY SameRows
<1>2. visit'.quiet \in BOOLEAN /\ visit'.quiet # FALSE
  OBVIOUS
<1>3. counts' # None => \A f \in DOMAIN counts' : counts'[f] = Cardinality(Where(Tier, f))
  BY DEF CountsHold
<1>4. counts' # None => \A f \in DOMAIN counts' : counts'[f] = Cardinality(Where(Tier, f)')
  BY <1>1, <1>3
<1> QED
  BY <1>2, <1>4 DEF CountsHold

\* It goes on.
LEMMA CountsWait ==
  ASSUME CountsHold, UNCHANGED <<shelf, counts>>, Tier' = Tier, visit.pc # "ages",
         visit'.pc # "ages", visit'.query = visit.query, visit'.quiet = visit.quiet,
         visit'.total = visit.total,
         visit'.pc \in {"search", "names"} /\ visit.quiet # FALSE =>
            visit'.ids = Searched(visit.query)
  PROVE  CountsHold'
<1>1. /\ \A f : Where(Tier, f)' = Where(Tier, f)
      /\ \A query : Searched(query)' = Searched(query)
  BY SameRows
<1>2. Searched(visit.query)' = Searched(visit.query)
      /\ Where(Tier, visit.query.filter)' = Where(Tier, visit.query.filter)
  BY DEF Searched, Where
<1> QED
  BY <1>1, <1>2 DEF CountsHold

\* Something changes.
LEMMA CountsChange ==
  ASSUME CountsHold, TierHolds, Changed
  PROVE  CountsHold'
<1>1. counts' = IF visit.pc = "ages" THEN counts ELSE None
  BY DEF Changed
<1>2. CASE visit.pc = "rest"
  <2>1. visit' = NoVisit
    BY <1>2, ChangedVisit
  <2>2. visit'.pc = "rest" /\ visit'.total = None /\ visit'.quiet = TRUE
    BY <2>1 DEF NoVisit
  <2>3. counts' = None
    BY <1>1, <1>2
  <2> QED
    BY <2>2, <2>3 DEF CountsHold
<1>3. CASE visit.pc # "rest"
  <2>1. visit'.pc = visit.pc /\ visit'.quiet = FALSE
    BY <1>3, ChangedVisit
  <2> QED
    BY <1>1, <2>1 DEF CountsHold
<1> QED
  BY <1>2, <1>3

\* The total of a page.
LEMMA CountsTotal ==
  ASSUME CountsHold, TierHolds, BrowseCount, Tier' = Tier
  PROVE  CountsHold'
<1>1. UNCHANGED <<shelf, counts>> /\ visit.pc \in {"search", "names"}
  BY DEF BrowseCount
<1>2. /\ visit'.pc = "count" /\ visit'.query = visit.query /\ visit'.quiet = visit.quiet
      /\ visit'.total = Cardinality(Hits)
  BY DEF BrowseCount, TierHolds, Fields
<1>3. visit.quiet # FALSE => Hits = Where(Tier, visit.query.filter) \cap Searched(visit.query)
  BY <1>1 DEF CountsHold, TierHolds, Hits
<1>4. /\ \A f : Where(Tier, f)' = Where(Tier, f)
      /\ \A query : Searched(query)' = Searched(query)
  BY <1>1, SameRows
<1>5. Searched(visit.query)' = Searched(visit.query)
      /\ Where(Tier, visit.query.filter)' = Where(Tier, visit.query.filter)
  BY <1>1, <1>2 DEF Searched, Where
<1> QED
  BY <1>1, <1>2, <1>3, <1>4, <1>5 DEF CountsHold

\* The facets: the groups, then the ages.
LEMMA CountsGroups ==
  ASSUME CountsHold, TierHolds, FacetGroups, Tier' = Tier
  PROVE  CountsHold'
<1> DEFINE categories == {shelf[p].category : p \in Where(visit.tier, <<>>)}
<1>1. /\ shelf' = shelf /\ visit.pc = "facets"
      /\ counts' = [f \in {[category |-> c] : c \in categories} |->
                       Cardinality(Where(visit.tier, f))]
  BY DEF FacetGroups
<1>2. /\ visit'.pc = "ages" /\ visit'.query = visit.query /\ visit'.quiet = visit.quiet
      /\ visit'.total = visit.total
  BY DEF FacetGroups, TierHolds, Fields
<1>3. /\ \A f : Where(Tier, f)' = Where(Tier, f)
      /\ \A query : Searched(query)' = Searched(query)
  BY <1>1, SameRows
<1>4. Searched(visit.query)' = Searched(visit.query)
      /\ Where(Tier, visit.query.filter)' = Where(Tier, visit.query.filter)
  BY <1>1, <1>2 DEF Searched, Where
<1> HIDE DEF categories
<1>5. visit.quiet # FALSE =>
        \A f \in DOMAIN counts' : counts'[f] = Cardinality(Where(Tier, f))
  BY <1>1 DEF TierHolds
<1>6. visit.quiet # FALSE =>
        \A f \in DOMAIN counts' : counts'[f] = Cardinality(Where(Tier, f)')
  BY <1>3, <1>5
<1> QED
  BY <1>2, <1>4, <1>6 DEF CountsHold

\* The ages, which end the answer.
LEMMA CountsAges ==
  ASSUME CountsHold, TierHolds, FacetAges, Tier' = Tier
  PROVE  CountsHold'
<1> DEFINE ages == {[bucket |-> b] : b \in Buckets}
<1>1. /\ shelf' = shelf /\ visit.pc = "ages" /\ visit' = NoVisit
      /\ counts' = IF ~visit.quiet THEN None
                   ELSE [f \in ages \cup DOMAIN counts |->
                           IF f \in ages THEN BucketCount(visit.tier, f.bucket)
                           ELSE counts[f]]
  BY DEF FacetAges
<1>2. visit'.pc = "rest" /\ visit'.total = None /\ visit'.quiet = TRUE
  BY <1>1 DEF NoVisit
<1>3. \A f : Where(Tier, f)' = Where(Tier, f)
  BY <1>1, SameRows
<1>4. visit.quiet \in BOOLEAN
  BY DEF CountsHold
<1>5. \A f \in ages : BucketCount(visit.tier, f.bucket) = Cardinality(Where(visit.tier, f))
  BY DEF BucketCount
<1> HIDE DEF ages
<1>6. ASSUME counts' # None
      PROVE  \A f \in DOMAIN counts' : counts'[f] = Cardinality(Where(Tier, f))
  <2>1. visit.quiet # FALSE
    BY <1>1, <1>4, <1>6
  <2>2. visit.tier = Tier
    BY <1>1, <2>1 DEF TierHolds
  <2>3. counts' = [f \in ages \cup DOMAIN counts |->
                     IF f \in ages THEN BucketCount(visit.tier, f.bucket) ELSE counts[f]]
    BY <1>1, <1>4, <2>1, Zenon
  <2>4. \A f \in DOMAIN counts : counts[f] = Cardinality(Where(Tier, f))
    BY <1>1, <2>1 DEF CountsHold
  <2> QED
    BY <1>5, <2>2, <2>3, <2>4
<1>7. counts' # None => \A f \in DOMAIN counts' : counts'[f] = Cardinality(Where(Tier, f)')
  BY <1>3, <1>6
<1> QED
  BY <1>2, <1>7 DEF CountsHold

-----------------------------------------------------------------------------
(* The catalog                                                             *)

\* What always holds of the catalog and of the viewer's requests.
CatalogInv == ShelfHolds /\ TierHolds /\ WalkHolds /\ CountsHold

\* A request keeps to the shelf.
LEMMA RequestKeepsShelf ==
  ASSUME ShelfHolds, TierHolds, CatalogStep
  PROVE  ShelfHolds'
<1>1. shelf' = shelf
  BY RequestReads
<1> SUFFICES visit'.ids \subseteq Shelf
  BY <1>1 DEF ShelfHolds
<1>2. visit.ids \subseteq Shelf /\ DOMAIN visit = Fields
  BY DEF ShelfHolds, TierHolds
<1>3. NoVisit.ids = {} /\ \A at : DOMAIN Arrived(at) = Fields /\ Arrived(at).ids = {}
  BY ArrivedIs DEF NoVisit
<1>4. \A tier, filter : Where(tier, filter) \subseteq Shelf
  BY DEF Where
<1>5. ASSUME NEW query \in Queries, BrowseScopes(query)
      PROVE  visit'.ids = {}
  <2>1. visit' = [Arrived("scopes") EXCEPT !.query = query, !.page = walk'.next]
    BY <1>5 DEF BrowseScopes
  <2> QED
    BY <1>3, <2>1 DEF Fields
<1>6. BrowseSearch => visit'.ids \subseteq Shelf
  BY <1>2 DEF BrowseSearch, Searched, Fields
<1>7. BrowseNames => visit'.ids = visit.ids
  BY <1>2 DEF BrowseNames, Fields
<1>8. BrowseCount => visit'.ids = visit.ids
  BY <1>2 DEF BrowseCount, Fields
<1>9. BrowseRows => visit'.ids \subseteq Shelf
  BY <1>2, <1>4 DEF BrowseRows, NewestPage, Hits, Fields
<1>10. BrowsePrices => visit'.ids = {}
  BY <1>2 DEF BrowsePrices, ShowPage, Fields
<1>11. ASSUME NEW p \in Shelf, DetailSlug(p)
       PROVE  visit'.ids \subseteq Shelf
  <2>1. \/ visit' = NoVisit
        \/ visit' = [Arrived("slug") EXCEPT !.ids = {p}]
    BY <1>11 DEF DetailSlug
  <2> QED
    BY <1>3, <2>1 DEF Fields
<1>12. DetailRow => visit'.ids = {}
  <2>1. ASSUME DetailRow
        PROVE  visit'.ids = {}
    <3>1. \/ visit' = NoVisit
          \/ \E scope : visit' = [visit EXCEPT !.pc = "row", !.ids = {}, !.cut = {scope}]
      BY <2>1 DEF DetailRow
    <3> QED
      BY <1>2, <1>3, <3>1 DEF Fields
  <2> QED
    BY <2>1
<1>13. DetailScopes => visit'.ids = {} \/ visit'.ids = visit.ids
  BY <1>2, <1>3 DEF DetailScopes, Fields
<1>14. DetailPrices => visit'.ids = visit.ids
  BY <1>2 DEF DetailPrices, Fields
<1>15. FacetScopes => visit'.ids = {}
  BY <1>3 DEF FacetScopes
<1>16. FacetGroups => visit'.ids = visit.ids
  BY <1>2 DEF FacetGroups, Fields
<1>17. FacetAges => visit'.ids = {}
  BY <1>3 DEF FacetAges
<1> QED
  BY <1>2, <1>5, <1>6, <1>7, <1>8, <1>9, <1>10, <1>11, <1>12, <1>13, <1>14, <1>15, <1>16, <1>17
     DEF CatalogStep

\* The fields of a request that reads a product or counts facets, or ends.
LEMMA OtherRequestIs ==
  ASSUME TierHolds
  PROVE  /\ NoVisit.pc = "rest" /\ NoVisit.total = None /\ NoVisit.quiet = TRUE
         /\ \A at : Arrived(at).total = None /\ Arrived(at).quiet = TRUE
         /\ \A p \in Shelf : DetailSlug(p) =>
              visit'.pc \in {"rest", "slug"} /\ visit'.total = None /\ visit'.quiet = TRUE
         /\ DetailRow \/ DetailScopes =>
              \/ visit'.pc = "rest" /\ visit'.total = None /\ visit'.quiet = TRUE
              \/ /\ visit'.pc \in {"row", "allowed"} /\ visit'.query = visit.query
                 /\ visit'.quiet = visit.quiet /\ visit'.total = visit.total
<1>1. NoVisit.pc = "rest" /\ NoVisit.total = None /\ NoVisit.quiet = TRUE
  BY DEF NoVisit
<1>2. \A at : Arrived(at).total = None /\ Arrived(at).quiet = TRUE
  BY DEF Arrived, NoVisit
<1>3. ASSUME NEW p \in Shelf, DetailSlug(p)
      PROVE  visit'.pc \in {"rest", "slug"} /\ visit'.total = None /\ visit'.quiet = TRUE
  <2>1. \/ visit' = NoVisit
        \/ visit' = [Arrived("slug") EXCEPT !.ids = {p}]
    BY <1>3 DEF DetailSlug
  <2> QED
    BY <1>1, <1>2, <2>1, ArrivedIs DEF Fields
<1>4. ASSUME DetailRow \/ DetailScopes
      PROVE  \/ visit' = NoVisit
             \/ /\ visit'.pc \in {"row", "allowed"} /\ visit'.query = visit.query
                /\ visit'.quiet = visit.quiet /\ visit'.total = visit.total
  <2>1. \/ visit' = NoVisit
        \/ \E scope : visit' = [visit EXCEPT !.pc = "row", !.ids = {}, !.cut = {scope}]
        \/ visit' = [visit EXCEPT !.pc = "allowed", !.tier = Tier]
    BY <1>4 DEF DetailRow, DetailScopes
  <2> QED
    BY <2>1 DEF TierHolds, Fields
<1> QED
  BY <1>1, <1>2, <1>3, <1>4

\* What the prices of the viewer rest on, in every part.
PricesInv == PriceListTypeOK /\ PriceListInv /\ ResolutionTypeOK /\ ResolutionInv

\* Every step of a resolution or of staff keeps that.
LEMMA PricesStep ==
  ASSUME PricesInv, [ResolutionNext]_pricing
  PROVE  PricesInv'
BY PriceListKept, ResolutionTypeStep, TierStep, SingleStepsStep, BatchStep
   DEF PricesInv, ResolutionInv

\* To the prices, a step of the catalog is one of theirs.
LEMMA CatalogPrices ==
  ASSUME [CatalogNext]_<<priceList, resolution, publicCatalog>>
  PROVE  [ResolutionNext]_pricing
<1>1. CatalogStep => UNCHANGED pricing
  BY RequestReads DEF elsewhere, pricing
<1>2. ASSUME NEW p \in Shelf, NEW row \in ShelfRows, EditShelf(p, row)
      PROVE  UNCHANGED pricing
  BY <1>2 DEF EditShelf, elsewhere, pricing
<1>3. ASSUME NEW t \in TierOrNone, ApproveViewer(t)
      PROVE  ResolutionNext
  BY <1>3 DEF ApproveViewer, ResolutionNext
<1>4. ASSUME NEW s \in Staff, NEW t \in Tiers, CreateTier(s, t), UNCHANGED resolution
      PROVE  ResolutionNext
  BY <1>4 DEF ResolutionNext, EditPrices, PriceListNext, AdminStep
<1>5. IssueAccessToken => ResolutionNext
  BY DEF ResolutionNext
<1>6. UNCHANGED <<priceList, resolution, publicCatalog>> => UNCHANGED pricing
  BY DEF pricing
<1> QED
  BY <1>1, <1>2, <1>3, <1>4, <1>5, <1>6 DEF CatalogNext

\* The tier of a viewer is one there may be.
LEMMA TierIsTier ==
  ASSUME ResolutionTypeOK
  PROVE  Tier \in Tiers
BY DefaultTierAssumption DEF ResolutionTypeOK, TierOrNone, Tier, ResolveTier

\* Every request keeps what its walk knows.
LEMMA RequestKeepsWalk ==
  ASSUME CatalogInv, CatalogStep
  PROVE  WalkHolds'
<1>1. Tier' = Tier /\ shelf' = shelf
  BY RequestReads
<1>2. ShelfHolds /\ TierHolds /\ WalkHolds /\ ShelfHolds'
  BY RequestKeepsShelf DEF CatalogInv
<1>3. ASSUME NEW query \in Queries, BrowseScopes(query)
      PROVE  WalkHolds'
  BY <1>1, <1>2, <1>3, ScopesKeep
<1>4. BrowseSearch => WalkHolds'
  BY <1>1, <1>2, SearchKeeps
<1>5. BrowseNames => WalkHolds'
  BY <1>1, <1>2, NamesKeep
<1>6. BrowseCount => WalkHolds'
  BY <1>1, <1>2, CountKeeps
<1>7. BrowseRows => WalkHolds'
  BY <1>1, <1>2, RowsKeep
<1>8. BrowsePrices => WalkHolds'
  BY <1>1, <1>2, ShowKeeps
<1>9. ASSUME UNCHANGED walk, visit'.pc \in {"rest", "slug", "row", "allowed", "facets", "ages"}
      PROVE  WalkHolds'
  BY <1>1, <1>2, <1>9, OtherRequests
<1>10. ASSUME NEW p \in Shelf, DetailSlug(p)
       PROVE  WalkHolds'
  <2>1. visit'.pc \in {"rest", "slug"}
    BY <1>2, <1>10, OtherRequestIs
  <2> QED
    BY <1>9, <1>10, <2>1 DEF DetailSlug
<1>11. ASSUME DetailRow \/ DetailScopes
       PROVE  WalkHolds'
  <2>1. visit'.pc \in {"rest", "row", "allowed"}
    BY <1>2, <1>11, OtherRequestIs
  <2> QED
    BY <1>9, <1>11, <2>1 DEF DetailRow, DetailScopes
<1>12. ASSUME DetailPrices
       PROVE  WalkHolds'
  <2>1. visit'.pc = "rest"
    BY <1>2, <1>12 DEF DetailPrices, TierHolds, Fields
  <2> QED
    BY <1>9, <1>12, <2>1 DEF DetailPrices
<1>13. ASSUME FacetScopes
       PROVE  WalkHolds'
  <2>1. visit'.pc = "facets"
    BY <1>13, ArrivedIs DEF FacetScopes
  <2> QED
    BY <1>9, <1>13, <2>1 DEF FacetScopes
<1>14. ASSUME FacetGroups
       PROVE  WalkHolds'
  <2>1. visit'.pc = "ages"
    BY <1>2, <1>14 DEF FacetGroups, TierHolds, Fields
  <2> QED
    BY <1>9, <1>14, <2>1 DEF FacetGroups
<1>15. ASSUME FacetAges
       PROVE  WalkHolds'
  <2>1. visit'.pc = "rest"
    BY <1>2, <1>15, OtherRequestIs DEF FacetAges
  <2> QED
    BY <1>9, <1>15, <2>1 DEF FacetAges
<1> QED
  BY <1>3, <1>4, <1>5, <1>6, <1>7, <1>8, <1>10, <1>11, <1>12, <1>13, <1>14, <1>15
     DEF CatalogStep

\* ... and what is known of counts and totals.
LEMMA RequestKeepsCounts ==
  ASSUME CatalogInv, CatalogStep
  PROVE  CountsHold'
<1>1. Tier' = Tier /\ shelf' = shelf
  BY RequestReads
<1>2. TierHolds /\ CountsHold /\ DOMAIN visit = Fields
  BY DEF CatalogInv, TierHolds
<1>3. ASSUME NEW query \in Queries, BrowseScopes(query)
      PROVE  CountsHold'
  <2>1. /\ visit.pc = "rest" /\ counts' = counts
        /\ visit' = [Arrived("scopes") EXCEPT !.query = query, !.page = walk'.next]
    BY <1>3 DEF BrowseScopes, AtRest
  <2>2. visit'.pc = "scopes" /\ visit'.total = None /\ visit'.quiet = TRUE
    BY <1>2, <2>1, ArrivedIs, OtherRequestIs DEF Fields
  <2> QED
    BY <1>1, <1>2, <2>1, <2>2, CountsArrive
<1>4. ASSUME BrowseSearch
      PROVE  CountsHold'
  <2>1. /\ visit.pc = "scopes" /\ counts' = counts
        /\ visit'.pc = "search" /\ visit'.query = visit.query /\ visit'.quiet = visit.quiet
        /\ visit'.total = visit.total /\ visit'.ids = Searched(visit.query)
    BY <1>2, <1>4 DEF BrowseSearch, Fields
  <2> QED
    BY <1>1, <1>2, <2>1, CountsWait
<1>5. ASSUME BrowseNames
      PROVE  CountsHold'
  <2>1. /\ visit.pc = "search" /\ counts' = counts
        /\ visit'.pc = "names" /\ visit'.query = visit.query /\ visit'.quiet = visit.quiet
        /\ visit'.total = visit.total /\ visit'.ids = visit.ids
    BY <1>2, <1>5 DEF BrowseNames, Fields
  <2>2. visit.quiet # FALSE => visit'.ids = Searched(visit.query)
    BY <1>2, <2>1 DEF CountsHold
  <2> QED
    BY <1>1, <1>2, <2>1, <2>2, CountsWait
<1>6. BrowseCount => CountsHold'
  BY <1>1, <1>2, CountsTotal
<1>7. ASSUME BrowseRows
      PROVE  CountsHold'
  <2>1. /\ visit.pc = "count" /\ counts' = counts
        /\ visit'.pc = "rows" /\ visit'.query = visit.query /\ visit'.quiet = visit.quiet
        /\ visit'.total = visit.total
    BY <1>2, <1>7 DEF BrowseRows, Fields
  <2> QED
    BY <1>1, <1>2, <2>1, CountsWait
<1>8. ASSUME BrowsePrices
      PROVE  CountsHold'
  <2>1. /\ visit.pc = "rows" /\ counts' = counts
        /\ visit'.pc = "rest" /\ visit'.query = visit.query /\ visit'.quiet = visit.quiet
        /\ visit'.total = visit.total
    BY <1>2, <1>8 DEF BrowsePrices, ShowPage, Fields
  <2> QED
    BY <1>1, <1>2, <2>1, CountsWait
<1>9. ASSUME NEW p \in Shelf, DetailSlug(p)
      PROVE  CountsHold'
  <2>1. visit.pc = "rest" /\ counts' = counts
    BY <1>9 DEF DetailSlug, AtRest
  <2>2. visit'.pc \in {"rest", "slug"} /\ visit'.total = None /\ visit'.quiet = TRUE
    BY <1>2, <1>9, OtherRequestIs
  <2> QED
    BY <1>1, <1>2, <2>1, <2>2, CountsArrive
<1>10. ASSUME DetailRow \/ DetailScopes
       PROVE  CountsHold'
  <2>1. visit.pc \in {"slug", "row"} /\ counts' = counts
    BY <1>10 DEF DetailRow, DetailScopes
  <2>2. \/ visit'.pc = "rest" /\ visit'.total = None /\ visit'.quiet = TRUE
        \/ /\ visit'.pc \in {"row", "allowed"} /\ visit'.query = visit.query
           /\ visit'.quiet = visit.quiet /\ visit'.total = visit.total
    BY <1>2, <1>10, OtherRequestIs
  <2>3. CASE visit'.pc = "rest" /\ visit'.total = None /\ visit'.quiet = TRUE
    BY <1>1, <1>2, <2>1, <2>3, CountsArrive
  <2>4. CASE /\ visit'.pc \in {"row", "allowed"} /\ visit'.query = visit.query
             /\ visit'.quiet = visit.quiet /\ visit'.total = visit.total
    BY <1>1, <1>2, <2>1, <2>4, CountsWait
  <2> QED
    BY <2>2, <2>3, <2>4
<1>11. ASSUME DetailPrices
       PROVE  CountsHold'
  <2>1. /\ visit.pc = "allowed" /\ counts' = counts
        /\ visit'.pc = "rest" /\ visit'.query = visit.query /\ visit'.quiet = visit.quiet
        /\ visit'.total = visit.total
    BY <1>2, <1>11 DEF DetailPrices, Fields
  <2> QED
    BY <1>1, <1>2, <2>1, CountsWait
<1>12. ASSUME FacetScopes
       PROVE  CountsHold'
  <2>1. visit'.pc = "facets" /\ visit'.total = None /\ visit'.quiet = TRUE /\ counts' = None
    BY <1>2, <1>12, ArrivedIs, OtherRequestIs DEF FacetScopes
  <2> QED
    BY <2>1 DEF CountsHold
<1>13. FacetGroups => CountsHold'
  BY <1>1, <1>2, CountsGroups
<1>14. FacetAges => CountsHold'
  BY <1>1, <1>2, CountsAges
<1> QED
  BY <1>3, <1>4, <1>5, <1>6, <1>7, <1>8, <1>9, <1>10, <1>11, <1>12, <1>13, <1>14
     DEF CatalogStep

\* The tiers a request has seen are tiers.
HeldHolds == visit.held \subseteq Tiers

\* Every step of the catalog keeps that.
LEMMA HeldKeeps ==
  ASSUME ResolutionTypeOK, ResolutionTypeOK', TierHolds, HeldHolds,
         [CatalogNext]_<<priceList, resolution, publicCatalog>>
  PROVE  HeldHolds'
<1>1. Tier \in Tiers
  BY TierIsTier
<1>2. Tier' \in Tiers
  <2>1. ResolveTier(TRUE)' = IF dealerTier' # None THEN dealerTier' ELSE DefaultTier
    BY DEF ResolveTier
  <2> QED
    BY <2>1, DefaultTierAssumption DEF ResolutionTypeOK, TierOrNone, Tier
<1>3. NoVisit.held = {} /\ \A at : DOMAIN Arrived(at) = Fields /\ Arrived(at).held = {Tier}
  BY ArrivedIs DEF NoVisit
<1>4. DOMAIN visit = Fields
  BY DEF TierHolds
<1>5. visit'.held \in {{}, {Tier}, visit.held, visit.held \cup {Tier'}} => HeldHolds'
  BY <1>1, <1>2 DEF HeldHolds
<1>6. ASSUME NEW query \in Queries, BrowseScopes(query)
      PROVE  HeldHolds'
  <2>1. visit' = [Arrived("scopes") EXCEPT !.query = query, !.page = walk'.next]
    BY <1>6 DEF BrowseScopes
  <2> QED
    BY <1>3, <1>5, <2>1 DEF Fields
<1>7. BrowseSearch \/ BrowseNames \/ BrowseCount => visit'.held = visit.held
  BY <1>4 DEF BrowseSearch, BrowseNames, BrowseCount, Fields
<1>8. BrowseRows \/ BrowsePrices => visit'.held = visit.held
  BY <1>4 DEF BrowseRows, BrowsePrices, ShowPage, Fields
<1>9. ASSUME NEW p \in Shelf, DetailSlug(p)
      PROVE  HeldHolds'
  <2>1. \/ visit' = NoVisit
        \/ visit' = [Arrived("slug") EXCEPT !.ids = {p}]
    BY <1>9 DEF DetailSlug
  <2> QED
    BY <1>3, <1>5, <2>1 DEF Fields
<1>10. ASSUME DetailRow \/ DetailScopes
       PROVE  HeldHolds'
  <2>1. \/ visit' = NoVisit
        \/ \E scope : visit' = [visit EXCEPT !.pc = "row", !.ids = {}, !.cut = {scope}]
        \/ visit' = [visit EXCEPT !.pc = "allowed", !.tier = Tier]
    BY <1>10 DEF DetailRow, DetailScopes
  <2> QED
    BY <1>3, <1>4, <1>5, <2>1 DEF Fields
<1>11. DetailPrices => visit'.held = visit.held
  BY <1>4 DEF DetailPrices, Fields
<1>12. FacetScopes => HeldHolds'
  BY <1>3, <1>5 DEF FacetScopes
<1>13. FacetGroups => visit'.held = visit.held
  BY <1>4 DEF FacetGroups, Fields
<1>14. FacetAges => HeldHolds'
  BY <1>3, <1>5 DEF FacetAges
<1>15. CatalogStep => HeldHolds'
  BY <1>5, <1>6, <1>7, <1>8, <1>9, <1>10, <1>11, <1>12, <1>13, <1>14 DEF CatalogStep
<1>16. ASSUME Changed
       PROVE  HeldHolds'
  <2>1. \/ visit' = NoVisit
        \/ visit' = [visit EXCEPT !.held = @ \cup {Tier'}, !.quiet = FALSE]
    BY <1>16 DEF Changed
  <2> QED
    BY <1>3, <1>4, <1>5, <2>1 DEF Fields
<1>17. UNCHANGED publicCatalog => HeldHolds'
  BY DEF publicCatalog, HeldHolds
<1> QED
  BY <1>15, <1>16, <1>17 DEF CatalogNext, EditShelf, ApproveViewer

\* A change keeps to the shelf.
LEMMA ChangeKeepsShelf ==
  ASSUME ShelfHolds, TierHolds, Changed, shelf' \in [Shelf -> ShelfRows \cup {None}]
  PROVE  ShelfHolds'
BY ChangedVisit DEF ShelfHolds

\* What a walk knows stays while nothing is done.
LEMMA StandsKeep ==
  ASSUME WalkHolds, UNCHANGED <<shelf, visit, walk>>, Tier' = Tier
  PROVE  WalkHolds'
<1> SUFFICES ASSUME walk # None
             PROVE  WalkIs'
  BY DEF WalkHolds
<1>1. /\ Visible(walk.query)' = Visible(walk.query)
      /\ OnPage(walk.query, walk.next)' = OnPage(walk.query, walk.next)
      /\ Searched(walk.query)' = Searched(walk.query)
      /\ Untied' <=> Untied
      /\ \A p : WalkedTo(p)' = WalkedTo(p)
  BY SameView
<1>2. WalkIs
  BY DEF WalkHolds
<1>3. VisitFollowsWalk'
  BY <1>1, <1>2 DEF WalkIs, VisitFollowsWalk, Browsing
<1>4. Untied' /\ ~walk'.grew => NoRepetition'
  BY <1>1, <1>2 DEF WalkIs, NoRepetition, Before
<1>5. Untied' /\ ~walk'.shrank => NoGap'
  BY <1>1, <1>2 DEF WalkIs, NoGap, Before
<1>6. walk'.always \subseteq Visible(walk.query)'
  BY <1>1, <1>2 DEF WalkIs
<1> QED
  BY <1>2, <1>3, <1>4, <1>5, <1>6 DEF WalkIs

\* Every step keeps what holds of the catalog.
LEMMA CatalogInvStep ==
  ASSUME CatalogInv, [CatalogNext]_<<priceList, resolution, publicCatalog>>
  PROVE  CatalogInv'
<1>1. ShelfHolds /\ TierHolds /\ WalkHolds /\ CountsHold
  BY DEF CatalogInv
<1>2. TierHolds'
  BY <1>1, HeldTiersStep
<1>3. CatalogStep => ShelfHolds' /\ WalkHolds' /\ CountsHold'
  BY <1>1, RequestKeepsShelf, RequestKeepsWalk, RequestKeepsCounts
<1>4. ASSUME NEW p \in Shelf, NEW row \in ShelfRows, EditShelf(p, row)
      PROVE  ShelfHolds' /\ WalkHolds' /\ CountsHold'
  <2>1. Changed /\ shelf' = [shelf EXCEPT ![p] = row] /\ UNCHANGED elsewhere
    BY <1>4 DEF EditShelf
  <2>2. Tier' = Tier
    BY <2>1 DEF elsewhere, resolution, Tier, ResolveTier
  <2>3. shelf' \in [Shelf -> ShelfRows \cup {None}]
    BY <1>1, <2>1 DEF ShelfHolds
  <2>4. ShelfHolds'
    BY <1>1, <2>1, <2>3, ChangeKeepsShelf
  <2>5. WalkHolds'
    BY <1>1, <1>4, <2>2, EditKeepsWalk
  <2>6. CountsHold'
    BY <1>1, <2>1, CountsChange
  <2> QED
    BY <2>4, <2>5, <2>6
<1>5. ASSUME NEW t \in TierOrNone, ApproveViewer(t)
      PROVE  ShelfHolds' /\ WalkHolds' /\ CountsHold'
  <2>1. Changed /\ shelf' = shelf /\ walk' = None
    BY <1>5 DEF ApproveViewer
  <2>2. ShelfHolds'
    BY <1>1, <2>1, ChangeKeepsShelf DEF ShelfHolds
  <2>3. CountsHold'
    BY <1>1, <2>1, CountsChange
  <2> QED
    BY <2>1, <2>2, <2>3 DEF WalkHolds
<1>6. ASSUME UNCHANGED <<dealerTier, publicCatalog>>
      PROVE  ShelfHolds' /\ WalkHolds' /\ CountsHold'
  <2>1. UNCHANGED <<shelf, visit, walk, counts>> /\ Tier' = Tier
    BY <1>6 DEF publicCatalog, Tier, ResolveTier
  <2>2. ShelfHolds'
    BY <1>1, <2>1 DEF ShelfHolds
  <2>3. WalkHolds'
    BY <1>1, <2>1, StandsKeep
  <2>4. CountsHold'
    <3>1. /\ \A f : Where(Tier, f)' = Where(Tier, f)
          /\ \A query : Searched(query)' = Searched(query)
      BY <2>1, SameRows
    <3>2. Searched(visit.query)' = Searched(visit.query)
          /\ Where(Tier, visit.query.filter)' = Where(Tier, visit.query.filter)
      BY <2>1 DEF Searched, Where
    <3> QED
      BY <1>1, <2>1, <3>1, <3>2 DEF CountsHold
  <2> QED
    BY <2>2, <2>3, <2>4
<1>7. ASSUME NEW s \in Staff, NEW t \in Tiers, CreateTier(s, t),
             UNCHANGED <<resolution, publicCatalog>>
      PROVE  ShelfHolds' /\ WalkHolds' /\ CountsHold'
  BY <1>6, <1>7 DEF resolution
<1>8. IssueAccessToken /\ UNCHANGED publicCatalog => ShelfHolds' /\ WalkHolds' /\ CountsHold'
  BY <1>6 DEF IssueAccessToken
<1>9. UNCHANGED <<priceList, resolution, publicCatalog>>
        => ShelfHolds' /\ WalkHolds' /\ CountsHold'
  BY <1>6 DEF resolution
<1> QED
  BY <1>2, <1>3, <1>4, <1>5, <1>7, <1>8, <1>9 DEF CatalogNext, CatalogInv

\* A catalog before its first product, with no request.
CatalogAtRest ==
  shelf = [p \in Shelf |-> None] /\ visit = NoVisit /\ walk = None /\ counts = None

\* What holds of the catalog holds of one at rest.
LEMMA RestHolds ==
  ASSUME CatalogAtRest
  PROVE  CatalogInv /\ HeldHolds
<1>1. /\ DOMAIN visit = Fields /\ visit.pc = "rest" /\ visit.paid = None
      /\ visit.ids = {} /\ visit.held = {} /\ visit.total = None /\ visit.quiet = TRUE
  BY DEF CatalogAtRest, NoVisit, Fields
<1> QED
  BY <1>1 DEF CatalogAtRest, CatalogInv, HeldHolds, ShelfHolds, WalkHolds, CountsHold,
              TierHolds, OneTierUnlessApprovalChanged

\* What the runs check of the catalog follows.
LEMMA WalkIsFaithful ==
  ASSUME CatalogInv
  PROVE  WalkFaithful
<1>1. ASSUME walk # None
      PROVE  WalkIs
  BY <1>1 DEF CatalogInv, WalkHolds
<1>2. RepeatsOnlyIfGrew
  BY <1>1 DEF RepeatsOnlyIfGrew, WalkIs, NoRepetition
<1>3. MissesOnlyIfShrank
  BY <1>1 DEF MissesOnlyIfShrank, WalkIs, NoGap
<1> QED
  BY <1>2, <1>3 DEF WalkFaithful

\* Of a total and a count of the same filter, both are of the rows as they are.
LEMMA FacetsAgree ==
  ASSUME CatalogInv
  PROVE  FacetsAgreeWithBrowse
<1> SUFFICES ASSUME counts # None, visit.pc = "rest", visit.total # None,
                    ~visit.query.search, visit.query.filter \in DOMAIN counts
             PROVE  visit.total = counts[visit.query.filter]
  BY DEF FacetsAgreeWithBrowse
<1>1. visit.quiet \in BOOLEAN /\ visit.quiet # FALSE
  BY DEF CatalogInv, CountsHold
<1>2. visit.total = Cardinality(Where(Tier, visit.query.filter) \cap Searched(visit.query))
  BY <1>1 DEF CatalogInv, CountsHold
<1>3. Where(Tier, visit.query.filter) \cap Searched(visit.query)
        = Where(Tier, visit.query.filter)
  BY DEF Searched, Where
<1>4. counts[visit.query.filter] = Cardinality(Where(Tier, visit.query.filter))
  BY DEF CatalogInv, CountsHold
<1> QED
  BY <1>2, <1>3, <1>4

\* Types are what the parts of the invariant say.
LEMMA CatalogTypes ==
  ASSUME CatalogInv, HeldHolds
  PROVE  CatalogTypeOK
<1>1. walk # None => walk.seen \subseteq Shelf /\ walk.always \subseteq Shelf
  BY VisibleIs DEF CatalogInv, WalkHolds, WalkIs
<1> QED
  BY <1>1 DEF CatalogTypeOK, CatalogInv, ShelfHolds, HeldHolds

\* For any catalog, any queries and pages of any size, and whatever staff do
\* between the pages: turning them shows no product twice unless the query gained
\* one, and misses none that was visible all along unless it lost one.
THEOREM WalkFaithfulCorrect == CatalogSpec => []WalkFaithful
<1>1. CatalogInit => CatalogInv
  BY RestHolds DEF CatalogInit, CatalogAtRest
<1> QED
  BY <1>1, CatalogInvStep, WalkIsFaithful, PTL DEF CatalogSpec

-----------------------------------------------------------------------------
(* The two views of a product                                              *)

\* A view that is being made, or is shown, holds the product as it is, unless
\* something has changed since.
ViewHolds(v) ==
  /\ (v.quiet /\ v.pc = "rows") \/ v.pc = "shown" => v.variants = onSale /\ v.image \in Leading
  /\ v.pc = "shown" => v.first = FirstSku(onSale) /\ v.status = BestStatus(onSale)

ViewStates ==
  [pc : {"none", "rows", "shown"}, variants : SUBSET Lines,
   image : Images \cup {Nothing}, first : Lines \cup {Nothing},
   status : {"OUT_OF_STOCK", "LOW_STOCK", "IN_STOCK", Nothing}, quiet : BOOLEAN]

ViewsInv == ViewsTypeOK /\ \A w \in {"card", "detail"} : ViewHolds(view[w])

\* The first sku is one of them.
LEMMA FirstSkuIs ==
  ASSUME NEW vs \in SUBSET Lines
  PROVE  FirstSku(vs) \in Lines \cup {Nothing}
<1>1. CASE vs = {}
  BY <1>1 DEF FirstSku
<1>2. CASE vs # {}
  <2>1. IsFiniteSet(vs) /\ vs \subseteq Int
    BY LinesAssumption, FS_Subset
  <2>2. \E v \in vs : \A w \in vs : v <= w
    BY <1>2, <2>1, IntHasLeast
  <2> QED
    BY <1>2, <2>2 DEF FirstSku
<1> QED
  BY <1>1, <1>2

\* The picture that may come first is one, or none.
LEMMA LeadingIs == Leading \subseteq Images \cup {Nothing}
BY DEF Leading

\* No view at all has the type of one.
LEMMA NoViewIs == NoView \in ViewStates /\ NoView.pc = "none" /\ NoView.quiet = TRUE
BY DEF NoView, ViewStates

\* Something changes under the views.
LEMMA DisturbedKeeps ==
  ASSUME ViewsInv, Disturbed
  PROVE  /\ view' \in [{"card", "detail"} -> ViewStates]
         /\ \A w \in {"card", "detail"} : ViewHolds(view[w])'
<1>1. view \in [{"card", "detail"} -> ViewStates]
  BY DEF ViewsInv, ViewsTypeOK, ViewStates
<1>2. view' = [w \in {"card", "detail"} |->
                 IF view[w].pc = "rows" THEN [view[w] EXCEPT !.quiet = FALSE] ELSE NoView]
  BY <1>1 DEF Disturbed
<1>3. ASSUME NEW w \in {"card", "detail"}
      PROVE  /\ view'[w] \in ViewStates /\ view'[w].pc # "shown"
             /\ ~(view'[w].quiet /\ view'[w].pc = "rows")
  <2>1. CASE view[w].pc = "rows"
    <3>1. view'[w] = [view[w] EXCEPT !.quiet = FALSE] /\ view[w] \in ViewStates
      BY <1>1, <1>2, <2>1
    <3>2. view'[w] \in ViewStates /\ view'[w].pc = "rows" /\ view'[w].quiet = FALSE
      BY <2>1, <3>1 DEF ViewStates
    <3> QED
      BY <3>2
  <2>2. CASE view[w].pc # "rows"
    BY <1>2, <2>2, NoViewIs
  <2> QED
    BY <2>1, <2>2
<1>4. view' \in [{"card", "detail"} -> ViewStates]
  BY <1>2, <1>3
<1>5. \A w \in {"card", "detail"} : ViewHolds(view[w])'
  BY <1>3 DEF ViewHolds
<1> QED
  BY <1>4, <1>5

\* One view changes.
LEMMA OneViewKeeps ==
  ASSUME ViewsInv, UNCHANGED <<stock, onSale, imageOrder>>, NEW w \in {"card", "detail"}, NEW v,
         v \in ViewStates, ViewHolds(v), view' = [view EXCEPT ![w] = v]
  PROVE  ViewsInv'
<1>1. view \in [{"card", "detail"} -> ViewStates]
  BY DEF ViewsInv, ViewsTypeOK, ViewStates
<1>2. view' \in [{"card", "detail"} -> ViewStates]
  BY <1>1
<1>3. ViewsTypeOK'
  BY <1>2 DEF ViewsInv, ViewsTypeOK, ViewStates
<1>4. \A u \in {"card", "detail"} : ViewHolds(view'[u])
  BY <1>1 DEF ViewsInv
<1>5. Leading' = Leading /\ BestStatus(onSale)' = BestStatus(onSale) /\ onSale' = onSale
  BY DEF Leading, BestStatus, Status
<1>6. \A u \in {"card", "detail"} : ViewHolds(view[u])'
  BY <1>4, <1>5 DEF ViewHolds
<1> QED
  BY <1>3, <1>6 DEF ViewsInv

\* A view reads its rows.
LEMMA ReadKeeps ==
  ASSUME ViewsInv, NEW w \in {"card", "detail"}, ReadRows(w)
  PROVE  ViewsInv'
<1>1. PICK image \in Leading :
        view' = [view EXCEPT ![w] = [NoView EXCEPT !.pc = "rows", !.image = image,
                                                   !.variants = onSale]]
  BY DEF ReadRows
<1> DEFINE v == [NoView EXCEPT !.pc = "rows", !.image = image, !.variants = onSale]
<1>2. onSale \in SUBSET Lines /\ image \in Images \cup {Nothing}
  BY LeadingIs DEF ViewsInv, ViewsTypeOK
<1>3. v \in ViewStates /\ v.pc = "rows" /\ v.variants = onSale /\ v.image = image
  BY <1>2 DEF NoView, ViewStates
<1>4. ViewHolds(v)
  BY <1>3 DEF ViewHolds
<1>5. view' = [view EXCEPT ![w] = v] /\ UNCHANGED <<stock, onSale, imageOrder>>
  BY <1>1 DEF ReadRows
<1> HIDE DEF v
<1> QED
  BY <1>3, <1>4, <1>5, OneViewKeeps

\* It is shown, unless something changed since.
LEMMA ShownKeeps ==
  ASSUME ViewsInv, NEW w \in {"card", "detail"}, view[w].pc = "rows",
         Shown(w, FirstSku(view[w].variants), BestStatus(view[w].variants)),
         UNCHANGED <<stock, onSale, imageOrder>>
  PROVE  ViewsInv'
<1> DEFINE first == FirstSku(view[w].variants)
           status == BestStatus(view[w].variants)
           v == [view[w] EXCEPT !.pc = "shown", !.first = first, !.status = status]
<1>1. view \in [{"card", "detail"} -> ViewStates] /\ ViewHolds(view[w])
  BY DEF ViewsInv, ViewsTypeOK, ViewStates
<1>2. view[w] \in ViewStates /\ view[w].variants \in SUBSET Lines /\ view[w].quiet \in BOOLEAN
  BY <1>1 DEF ViewStates
<1>3. first \in Lines \cup {Nothing}
  BY <1>2, FirstSkuIs
<1>4. status \in {"OUT_OF_STOCK", "LOW_STOCK", "IN_STOCK", Nothing}
  BY DEF BestStatus
<1>5. CASE view[w].quiet = FALSE
  <2>1. view' = [view EXCEPT ![w] = NoView]
    BY <1>1, <1>5 DEF Shown
  <2>2. ViewHolds(NoView)
    BY NoViewIs DEF ViewHolds
  <2> QED
    BY <2>1, <2>2, NoViewIs, OneViewKeeps
<1>6. CASE view[w].quiet = TRUE
  <2>1. view' = [view EXCEPT ![w] = v]
    BY <1>1, <1>6 DEF Shown
  <2>2. view[w].variants = onSale /\ view[w].image \in Leading
    BY <1>1, <1>6 DEF ViewHolds
  <2> HIDE DEF first, status
  <2>3. v \in ViewStates
    BY <1>2, <1>3, <1>4 DEF ViewStates
  <2>4. /\ v.pc = "shown" /\ v.first = first /\ v.status = status
        /\ v.variants = view[w].variants /\ v.image = view[w].image
    BY <1>2 DEF ViewStates
  <2>5. first = FirstSku(onSale) /\ status = BestStatus(onSale)
    BY <2>2 DEF first, status
  <2>6. ViewHolds(v)
    BY <2>2, <2>4, <2>5 DEF ViewHolds
  <2> HIDE DEF v
  <2> QED
    BY <2>1, <2>3, <2>6, OneViewKeeps
<1> QED
  BY <1>2, <1>5, <1>6

\* Every step keeps the views.
LEMMA ViewsStep ==
  ASSUME ViewsInv, [ViewsNext]_catalogViews
  PROVE  ViewsInv'
<1>1. ASSUME NEW w \in {"card", "detail"}, ReadRows(w)
      PROVE  ViewsInv'
  BY <1>1, ReadKeeps
<1>2. ShowCard \/ ShowDetail => ViewsInv'
  BY ShownKeeps DEF ShowCard, ShowDetail
<1>3. ASSUME Disturbed, stock' \in [Lines -> StockRows \cup {Nothing}], onSale' \subseteq Lines,
             imageOrder' \in [Images -> SortOrders \cup {Nothing}]
      PROVE  ViewsInv'
  <2>1. /\ view' \in [{"card", "detail"} -> ViewStates]
        /\ \A w \in {"card", "detail"} : ViewHolds(view[w])'
    BY <1>3, DisturbedKeeps
  <2> QED
    BY <1>3, <2>1 DEF ViewsInv, ViewsTypeOK, ViewStates
<1>4. /\ stock \in [Lines -> StockRows \cup {Nothing}] /\ onSale \subseteq Lines
      /\ imageOrder \in [Images -> SortOrders \cup {Nothing}]
  BY DEF ViewsInv, ViewsTypeOK
<1>5. ASSUME NEW v \in Lines, NEW row \in StockRows, SetStock(v, row)
      PROVE  ViewsInv'
  BY <1>3, <1>4, <1>5 DEF SetStock
<1>6. ASSUME NEW vs \in SUBSET Lines, SetOnSale(vs)
      PROVE  ViewsInv'
  BY <1>3, <1>4, <1>6 DEF SetOnSale
<1>7. ASSUME NEW i \in Images, NEW order \in SortOrders \cup {Nothing}, SetPicture(i, order)
      PROVE  ViewsInv'
  BY <1>3, <1>4, <1>7 DEF SetPicture
<1>8. ASSUME UNCHANGED catalogViews
      PROVE  ViewsInv'
  <2>1. UNCHANGED <<stock, onSale, imageOrder, view>>
    BY <1>8 DEF catalogViews
  <2> QED
    BY <2>1 DEF ViewsInv, ViewsTypeOK, ViewHolds, Leading, BestStatus, Status
<1> QED
  BY <1>1, <1>2, <1>5, <1>6, <1>7, <1>8 DEF ViewsNext

\* No view was made at first.
LEMMA ViewsInitial == ViewsInit => ViewsInv
<1> SUFFICES ASSUME ViewsInit
             PROVE  ViewsInv
  OBVIOUS
<1>1. \A w \in {"card", "detail"} : view[w] = NoView
  BY DEF ViewsInit
<1>2. view \in [{"card", "detail"} -> ViewStates]
  BY <1>1, NoViewIs DEF ViewsInit
<1>3. \A w \in {"card", "detail"} : ViewHolds(view[w])
  BY <1>1, NoViewIs DEF ViewHolds
<1> QED
  BY <1>2, <1>3 DEF ViewsInit, ViewsInv, ViewsTypeOK, ViewStates

\* Two views of the same rows agree.
LEMMA ViewsAgree ==
  ASSUME ViewsInv
  PROVE  ListAndDetailAgree
<1> SUFFICES ASSUME view["card"].pc = "shown", view["detail"].pc = "shown"
             PROVE  /\ view["card"].first = view["detail"].first
                    /\ view["card"].status = view["detail"].status
                    /\ (\A i, j \in Images : i # j /\ imageOrder[i] # Nothing
                                             => imageOrder[i] # imageOrder[j])
                         => view["card"].image = view["detail"].image
  BY DEF ListAndDetailAgree
<1>1. ViewHolds(view["card"]) /\ ViewHolds(view["detail"])
  BY DEF ViewsInv
<1>2. view["card"].image \in Leading /\ view["detail"].image \in Leading
  BY <1>1 DEF ViewHolds
<1>3. ASSUME \A i, j \in Images : i # j /\ imageOrder[i] # Nothing
                                  => imageOrder[i] # imageOrder[j],
             NEW a \in Leading, NEW b \in Leading
      PROVE  a = b
  <2> DEFINE there == {i \in Images : imageOrder[i] # Nothing}
  <2>1. CASE there = {}
    BY <2>1 DEF Leading
  <2>2. CASE there # {}
    <3>1. /\ a \in there /\ b \in there /\ imageOrder[a] <= imageOrder[b]
          /\ imageOrder[b] <= imageOrder[a]
      BY <2>2 DEF Leading
    <3>2. imageOrder[a] \in Int /\ imageOrder[b] \in Int
      BY <3>1, LinesAssumption DEF ViewsInv, ViewsTypeOK
    <3>3. imageOrder[a] = imageOrder[b]
      BY <3>1, <3>2
    <3> QED
      BY <1>3, <3>1, <3>3
  <2> QED
    BY <2>1, <2>2
<1>4. /\ view["card"].first = view["detail"].first
      /\ view["card"].status = view["detail"].status
  BY <1>1 DEF ViewHolds
<1> QED
  BY <1>2, <1>3, <1>4

-----------------------------------------------------------------------------
(* The shop's side                                                         *)

\* What always holds of the shop's side: of the part that runs and, as it began,
\* of the others.
ShopInv ==
  /\ PricesInv
  /\ CatalogInv /\ HeldHolds
  /\ part # "catalog" => CatalogAtRest
  /\ ViewsInv
  /\ StorefrontInv
  /\ FormsInv

\* Every part begins with what holds of it.
LEMMA ShopInitial == ShopInit => ShopInv
<1> SUFFICES ASSUME ShopInit
             PROVE  ShopInv
  OBVIOUS
<1>1. CatalogInit /\ ViewsInit /\ StorefrontInit /\ FormsInit
  BY DEF ShopInit
<1>2. CatalogAtRest /\ ResolutionInit
  BY <1>1 DEF CatalogInit, CatalogAtRest
<1> QED
  BY <1>1, <1>2, RestHolds, ResolutionInitOK, ViewsInitial, StorefrontInitial, FormsInitial
     DEF ShopInv, PricesInv

\* What a part that does not run holds.
LEMMA PricesStand == PricesInv /\ UNCHANGED elsewhere => PricesInv'
BY PricesStep DEF elsewhere, pricing

\* A catalog at rest stays so.
LEMMA CatalogStands == CatalogAtRest /\ UNCHANGED publicCatalog => CatalogAtRest'
BY DEF CatalogAtRest, publicCatalog, NoVisit

\* Views that are not touched ...
LEMMA ViewsStand == ViewsInv /\ UNCHANGED catalogViews => ViewsInv'
BY ViewsStep

\* ... a tab ...
LEMMA StorefrontStands == StorefrontInv /\ UNCHANGED storefront => StorefrontInv'
BY StorefrontStep

\* ... and forms keep what holds of them.
LEMMA FormsStand == FormsInv /\ UNCHANGED formVars => FormsInv'
BY FormsStep

\* Everything of the catalog stands as it began, or stands while the viewer's
\* tier does.
LEMMA RestKeeps ==
  ASSUME CatalogAtRest'
  PROVE  CatalogInv' /\ HeldHolds'
<1>1. /\ DOMAIN visit' = Fields /\ visit'.pc = "rest" /\ visit'.paid = None
      /\ visit'.ids = {} /\ visit'.held = {} /\ visit'.total = None /\ visit'.quiet = TRUE
  BY DEF CatalogAtRest, NoVisit, Fields
<1> QED
  BY <1>1 DEF CatalogAtRest, CatalogInv, HeldHolds, ShelfHolds, WalkHolds, CountsHold,
              TierHolds, OneTierUnlessApprovalChanged

\* Every step keeps the invariant.
LEMMA ShopStep ==
  ASSUME ShopInv, [ShopNext]_shopVars
  PROVE  ShopInv'
<1>1. /\ PricesInv /\ CatalogInv /\ HeldHolds /\ ViewsInv /\ StorefrontInv /\ FormsInv
      /\ part # "catalog" => CatalogAtRest
  BY DEF ShopInv
<1>2. part' = part
  BY DEF ShopNext, shopVars
<1>3. CASE part = "prices" /\ ResolutionNext
           /\ UNCHANGED <<publicCatalog, catalogViews, storefront, formVars>>
  <2>1. PricesInv'
    BY <1>1, <1>3, PricesStep
  <2>2. CatalogAtRest'
    BY <1>1, <1>3, CatalogStands
  <2> QED
    BY <1>1, <1>3, <2>1, <2>2, RestKeeps, ViewsStand, StorefrontStands, FormsStand DEF ShopInv
<1>4. CASE part = "catalog" /\ CatalogNext /\ UNCHANGED <<catalogViews, storefront, formVars>>
  <2>1. PricesInv'
    BY <1>1, <1>4, CatalogPrices, PricesStep
  <2>2. CatalogInv'
    BY <1>1, <1>4, CatalogInvStep
  <2>3. HeldHolds'
    BY <1>1, <1>4, <2>1, HeldKeeps DEF PricesInv, CatalogInv
  <2> QED
    BY <1>1, <1>2, <1>4, <2>1, <2>2, <2>3, ViewsStand, StorefrontStands, FormsStand DEF ShopInv
<1>5. ASSUME part # "catalog", UNCHANGED <<elsewhere, publicCatalog>>
      PROVE  PricesInv' /\ CatalogAtRest' /\ CatalogInv' /\ HeldHolds'
  BY <1>1, <1>5, PricesStand, CatalogStands, RestKeeps
<1>6. CASE part = "views" /\ ViewsNext
           /\ UNCHANGED <<elsewhere, publicCatalog, storefront, formVars>>
  BY <1>1, <1>5, <1>6, ViewsStep, StorefrontStands, FormsStand DEF ShopInv
<1>7. CASE part = "tab" /\ StorefrontNext
           /\ UNCHANGED <<elsewhere, publicCatalog, catalogViews, formVars>>
  BY <1>1, <1>5, <1>7, StorefrontStep, ViewsStand, FormsStand DEF ShopInv
<1>8. CASE part = "forms" /\ FormsNext
           /\ UNCHANGED <<elsewhere, publicCatalog, catalogViews, storefront>>
  BY <1>1, <1>5, <1>8, FormsStep, ViewsStand, StorefrontStands DEF ShopInv
<1>9. CASE UNCHANGED shopVars
  <2>1. UNCHANGED <<part, priceList, resolution, publicCatalog, catalogViews, storefront,
                    formVars>>
    BY <1>9 DEF shopVars
  <2>2. PricesInv'
    BY <1>1, <2>1, PricesStand DEF elsewhere
  <2>3. CatalogInv'
    BY <1>1, <2>1, CatalogInvStep
  <2>4. HeldHolds' /\ (part' # "catalog" => CatalogAtRest')
    BY <1>1, <2>1, CatalogStands DEF HeldHolds, publicCatalog
  <2> QED
    BY <1>1, <2>1, <2>2, <2>3, <2>4, ViewsStand, StorefrontStands, FormsStand DEF ShopInv
<1> QED
  BY <1>3, <1>4, <1>6, <1>7, <1>8, <1>9 DEF ShopNext

\* So it holds of the whole side, whichever part runs.
LEMMA ShopInvCorrect == ShopSpec => []ShopInv
BY ShopInitial, ShopStep, PTL DEF ShopSpec

\* Every variable of the shop's side keeps its type, in every part.
THEOREM ShopTypesCorrect == ShopSpec => []ShopTypesOK
<1>1. StorefrontInv => StorefrontTypeOK
  BY DEF StorefrontInv, CatalogHolds, ShownHolds, Addresses, StorefrontTypeOK
<1>2. ShopInv => ShopTypesOK
  BY <1>1, CatalogTypes DEF ShopInv, ShopTypesOK, PricesInv, ViewsInv, FormsInv
<1> QED
  BY <1>2, ShopInvCorrect, PTL

\* For any catalog: the count of a facet is the total of the query it leads to,
\* and a card leads with the variant, stock status and picture of its page, while
\* nothing changes.
THEOREM PagesAgreeCorrect == ShopSpec => []PagesAgree
<1>1. ShopInv => PagesAgree
  BY FacetsAgree, ViewsAgree DEF ShopInv, PagesAgree
<1> QED
  BY <1>1, ShopInvCorrect, PTL

=============================================================================
