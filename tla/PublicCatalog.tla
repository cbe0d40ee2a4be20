--------------------------- MODULE PublicCatalog ---------------------------
(***************************************************************************)
(* PublicCatalogService: a viewer turns the pages of a query, reads facet  *)
(* counts and opens products while staff edit the catalog and approvals    *)
(* change.  Each query is a snapshot of its own, and a request reads the   *)
(* viewer's tier twice, once for the scopes it may see and once for the    *)
(* prices.  The viewer has the business account of PriceResolution; an     *)
(* anonymous one is an account that is never approved.  Brand, origin and  *)
(* gender filter as category does and are left out; so are pictures and    *)
(* their URLs.  A name is a number, by its place in the alphabet.          *)
(***************************************************************************)
EXTENDS PriceResolution

CONSTANTS Shelf,        \* product ids, in the order of creation (bound)
          ShelfRows,    \* rows staff may write (bound)
          Matching,     \* names the search term is found in
          Queries,      \* what a viewer asks for (bound)
          PageSize      \* rows of a page (bound)

ASSUME ShelfAssumption ==
  /\ Shelf \subseteq Nat /\ IsFiniteSet(Shelf) /\ PageSize \in Nat \ {0}
  /\ None \notin ShelfRows /\ \A row \in ShelfRows : row.name \in Nat
  /\ \A query \in Queries : query.search \in BOOLEAN /\ query.byName \in BOOLEAN

VARIABLES
  shelf,     \* products: None before its creation, then a row
  visit,     \* the request in flight, then its answer until the next
  walk,      \* what the viewer saw turning the pages of one query
  counts     \* facet counts shown, None once something has changed since

publicCatalog == <<shelf, visit, walk, counts>>
elsewhere == <<priceList, resolution>>

-----------------------------------------------------------------------------
(* Queries                                                                 *)

Buckets == {<<0, 2>>, <<3, 5>>, <<6, 8>>, <<9, 12>>, <<13, 18>>}

\* allowedScopesFor
ScopesFor(t) ==
  {"BOTH", IF t = DefaultTier THEN "RETAIL_ONLY" ELSE "WHOLESALE_ONLY"}

\* A filter names a category, or an age bucket that the range of the product
\* has to meet, or neither.
Passes(row, filter) ==
  /\ "category" \in DOMAIN filter => row.category = filter.category
  /\ "bucket" \in DOMAIN filter => /\ row.min <= filter.bucket[2]
                                   /\ row.max >= filter.bucket[1]

\* buildWhere, without the ids of a search.
Where(tier, filter) ==
  {p \in Shelf : /\ shelf[p] # None /\ shelf[p].active
                 /\ shelf[p].scope \in ScopesFor(tier)
                 /\ Passes(shelf[p], filter)}

\* matchingProductIdsForSearch, of any product; without a search, all.
Searched(query) ==
  IF query.search THEN {p \in Shelf : shelf[p] # None /\ shelf[p].name \in Matching}
  ELSE Shelf

\* Mutant of Slice: pages are counted from zero.
SliceFromZero(page) == page * PageSize + 1 .. (page + 1) * PageSize

Slice(page) == (page - 1) * PageSize + 1 .. page * PageSize

\* Newest first, the id breaking ties: a total order.
NewestPage(ids, page) ==
  {p \in ids : Cardinality({o \in ids : o >= p}) \in Slice(page)}

\* An order by name; nothing breaks the ties.
NameOrders(ids) ==
  {o \in [1 .. Cardinality(ids) -> ids] :
     \A i, j \in DOMAIN o : i < j => /\ o[i] # o[j]
                                     /\ shelf[o[i]].name <= shelf[o[j]].name}

Tier == ResolveTier(TRUE)

\* The request in flight or, at rest, its answer.  "held" are the tiers the
\* viewer had since it arrived, "quiet" tells that nothing has changed since.
NoVisit == [pc |-> "rest", query |-> None, page |-> 0, tier |-> None, held |-> {},
            ids |-> {}, cut |-> {}, total |-> None, paid |-> None, quiet |-> TRUE]

AtRest == visit.pc = "rest"

Arrived(at) == [NoVisit EXCEPT !.pc = at, !.tier = Tier, !.held = {Tier}]

-----------------------------------------------------------------------------
(* browse                                                                  *)

Visible(query) == Where(Tier, query.filter) \cap Searched(query)

\* A walk through the pages of a query begins: "always" are the products
\* visible to it ever since, "grew" and "shrank" tell whether it has gained or
\* lost one, "short" that its last page was not full.
NewWalk(query) ==
  [query |-> query, next |-> 1, seen |-> {}, twice |-> FALSE, short |-> FALSE,
   grew |-> FALSE, shrank |-> FALSE, always |-> Visible(query)]

\* A request for the first page of a query or for the next page of the walk.
BrowseScopes(query) ==
  /\ AtRest
  /\ \/ walk' = NewWalk(query)
     \/ walk # None /\ query = walk.query /\ ~walk.short /\ UNCHANGED walk
  /\ visit' = [Arrived("scopes") EXCEPT !.query = query, !.page = walk'.next]
  /\ UNCHANGED <<shelf, counts, elsewhere>>

BrowseSearch ==
  /\ visit.pc = "scopes"
  /\ visit' = [visit EXCEPT !.pc = "search", !.ids = Searched(visit.query)]
  /\ UNCHANGED <<shelf, walk, counts, elsewhere>>

\* The products of the query as it stands, on whatever page.
Hits == Where(visit.tier, visit.query.filter) \cap visit.ids

\* A sort by name reads every id in order and cuts the page out.
BrowseNames ==
  /\ visit.pc = "search" /\ visit.query.byName
  /\ \E o \in NameOrders(Hits) :
        visit' = [visit EXCEPT !.pc = "names",
                               !.cut = {o[i] : i \in Slice(visit.page) \cap DOMAIN o}]
  /\ UNCHANGED <<shelf, walk, counts, elsewhere>>

\* The total, in a snapshot of its own, before that of the rows.
BrowseCount ==
  /\ visit.pc = "names" \/ (visit.pc = "search" /\ ~visit.query.byName)
  /\ visit' = [visit EXCEPT !.pc = "count", !.total = Cardinality(Hits)]
  /\ UNCHANGED <<shelf, walk, counts, elsewhere>>

\* The rows: those of the ids cut out, whose filter replaces that of the
\* search, or the page of the newest.
BrowseRows ==
  /\ visit.pc = "count"
  /\ visit' = [visit EXCEPT
                 !.pc = "rows", !.cut = {},
                 !.ids = IF visit.query.byName
                         THEN Where(visit.tier, visit.query.filter) \cap visit.cut
                         ELSE NewestPage(Hits, visit.page)]
  /\ UNCHANGED <<shelf, walk, counts, elsewhere>>

\* The page is answered, with prices resolved for the tier "paid".
ShowPage(paid) ==
  /\ visit.pc = "rows"
  /\ visit' = [visit EXCEPT !.pc = "rest", !.page = 0, !.ids = {}, !.paid = paid]
  /\ walk' = IF walk = None THEN None
             ELSE [walk EXCEPT !.next = @ + 1, !.seen = @ \cup visit.ids,
                               !.twice = @ \/ walk.seen \cap visit.ids # {},
                               !.short = Cardinality(visit.ids) < PageSize]
  /\ UNCHANGED <<shelf, counts, elsewhere>>

\* Mutant of BrowsePrices: the tier of the access token is priced.
BrowsePricesOfToken == ShowPage(IF jwtTier = None THEN DefaultTier ELSE jwtTier)

\* resolveUnitPrices resolves the tier a second time.
BrowsePrices == ShowPage(Tier)

-----------------------------------------------------------------------------
(* findBySlug: the slug, the row, the scopes, then the prices              *)

DetailSlug(p) ==
  /\ AtRest
  /\ visit' = IF shelf[p] = None THEN NoVisit     \* PRODUCT_NOT_FOUND
              ELSE [Arrived("slug") EXCEPT !.ids = {p}]
  /\ UNCHANGED <<shelf, walk, counts, elsewhere>>

DetailRow ==
  /\ visit.pc = "slug"
  /\ \E p \in visit.ids :
        visit' = IF ~shelf[p].active THEN NoVisit
                 ELSE [visit EXCEPT !.pc = "row", !.ids = {}, !.cut = {shelf[p].scope}]
  /\ UNCHANGED <<shelf, walk, counts, elsewhere>>

DetailScopes ==
  /\ visit.pc = "row"
  /\ visit' = IF visit.cut \cap ScopesFor(Tier) = {} THEN NoVisit
              ELSE [visit EXCEPT !.pc = "allowed", !.tier = Tier]
  /\ UNCHANGED <<shelf, walk, counts, elsewhere>>

DetailPrices ==
  /\ visit.pc = "allowed"
  /\ visit' = [visit EXCEPT !.pc = "rest", !.paid = Tier]
  /\ UNCHANGED <<shelf, walk, counts, elsewhere>>

-----------------------------------------------------------------------------
(* facets: the scopes, then counts by category and by age bucket, each of  *)
(* them a query of its own                                                 *)

\* Mutant of BucketCount: a bucket counts the ranges that begin in it.
BucketCountStarts(tier, b) ==
  Cardinality({p \in Where(tier, <<>>) : shelf[p].min \in b[1] .. b[2]})

BucketCount(tier, b) == Cardinality(Where(tier, [bucket |-> b]))

FacetScopes ==
  /\ AtRest
  /\ counts' = None
  /\ visit' = Arrived("facets")
  /\ UNCHANGED <<shelf, walk, elsewhere>>

FacetGroups ==
  LET categories == {shelf[p].category : p \in Where(visit.tier, <<>>)} IN
  /\ visit.pc = "facets"
  /\ counts' = [f \in {[category |-> c] : c \in categories} |->
                   Cardinality(Where(visit.tier, f))]
  /\ visit' = [visit EXCEPT !.pc = "ages"]
  /\ UNCHANGED <<shelf, walk, elsewhere>>

\* What is shown is kept only if nothing has changed while it was counted.
FacetAges ==
  LET ages == {[bucket |-> b] : b \in Buckets} IN
  /\ visit.pc = "ages"
  /\ counts' = IF ~visit.quiet THEN None
               ELSE [f \in ages \cup DOMAIN counts |->
                       IF f \in ages THEN BucketCount(visit.tier, f.bucket)
                       ELSE counts[f]]
  /\ visit' = NoVisit
  /\ UNCHANGED <<shelf, walk, elsewhere>>

-----------------------------------------------------------------------------
(* What changes under a viewer                                             *)

\* The request in flight and the counts after a change.
Changed ==
  /\ visit' = IF AtRest THEN NoVisit
              ELSE [visit EXCEPT !.held = @ \cup {Tier'}, !.quiet = FALSE]
  /\ counts' = IF visit.pc = "ages" THEN counts ELSE None

\* The walk after a change of what it can see from "now" to "next"; it is
\* given up, as it is when nothing is claimed of it, once both have happened.
WalkBeside(now, next) ==
  LET grew == walk.grew \/ ~(next \subseteq now)
      shrank == walk.shrank \/ ~(now \subseteq next)
  IN IF grew /\ shrank THEN None
     ELSE [walk EXCEPT !.grew = grew, !.shrank = shrank, !.always = @ \cap next]

\* A create or an update of ProductsService commits.
EditShelf(p, row) ==
  /\ shelf[p] # None \/ \A o \in Shelf : shelf[o] # None <=> o < p
  /\ shelf[p] # row
  /\ shelf' = [shelf EXCEPT ![p] = row]
  /\ UNCHANGED elsewhere
  /\ Changed
  /\ IF walk = None \/ walk.query.byName \/ walk.query.search THEN walk' = None
     ELSE \E q \in {walk.query} : walk' = WalkBeside(Visible(q), Visible(q)')

\* The approval of the viewer's account changes.
ApproveViewer(t) ==
  UpdateApproval(t) /\ UNCHANGED shelf /\ Changed /\ walk' = None

-----------------------------------------------------------------------------

CatalogInit ==
  /\ ResolutionInit
  /\ shelf = [p \in Shelf |-> None]
  /\ visit = NoVisit
  /\ walk = None
  /\ counts = None

CatalogStep ==
  \/ \E query \in Queries : BrowseScopes(query)
  \/ BrowseSearch \/ BrowseNames \/ BrowseCount \/ BrowseRows \/ BrowsePrices
  \/ \E p \in Shelf : DetailSlug(p)
  \/ DetailRow \/ DetailScopes \/ DetailPrices
  \/ FacetScopes \/ FacetGroups \/ FacetAges

CatalogNext ==
  \/ CatalogStep
  \/ \E p \in Shelf, row \in ShelfRows : EditShelf(p, row)
  \/ \E t \in TierOrNone : ApproveViewer(t)
  \/ \E s \in Staff, t \in Tiers : CreateTier(s, t) /\ UNCHANGED <<resolution, publicCatalog>>
  \/ IssueAccessToken /\ UNCHANGED publicCatalog

CatalogSpec == CatalogInit /\ [][CatalogNext]_<<priceList, resolution, publicCatalog>>

-----------------------------------------------------------------------------

\* Every variable of this module has its type.
CatalogTypeOK ==
  /\ shelf \in [Shelf -> ShelfRows \cup {None}]
  /\ visit.ids \subseteq Shelf
  /\ visit.held \subseteq Tiers
  /\ walk # None => walk.seen \subseteq Shelf /\ walk.always \subseteq Shelf

\* The scopes of a page or of a product and its prices come from tiers the
\* viewer held while it was answered, and from one tier unless the approval
\* changed meanwhile, whatever its access token says.
OneTierUnlessApprovalChanged ==
  visit.paid # None =>
    /\ {visit.tier, visit.paid} \subseteq visit.held
    /\ visit.tier # visit.paid => visit.quiet = FALSE

\* The order of the walk has no ties.
Untied ==
  walk.query.byName => \A p, o \in Shelf :
     p # o /\ shelf[p] # None /\ shelf[o] # None => shelf[p].name # shelf[o].name

\* Turning the pages of the newest products shows one twice only if the query
\* gained a product meanwhile ...
RepeatsOnlyIfGrew == walk # None /\ ~walk.grew /\ Untied => ~walk.twice

\* ... and once a page is not full, every product that was visible all along
\* has been shown, unless the query lost one meanwhile.  Of a search, whose ids
\* are stale when the rows are read, and of a sort by name, in which nothing
\* breaks a tie between equal names, this is so only while nothing changes.
MissesOnlyIfShrank ==
  walk # None /\ ~walk.shrank /\ walk.short /\ Untied => walk.always \subseteq walk.seen

\* What turning the pages shows: no repetition, no gap.
WalkFaithful == RepeatsOnlyIfGrew /\ MissesOnlyIfShrank

\* The controller has it that the counts "always agree with what clicking that
\* facet ... will return for the same viewer": so they do while nothing
\* changes, when no other filter is set.
FacetsAgreeWithBrowse ==
  /\ counts # None /\ visit.pc = "rest" /\ visit.total # None
  /\ ~visit.query.search /\ visit.query.filter \in DOMAIN counts
  => visit.total = counts[visit.query.filter]

=============================================================================
