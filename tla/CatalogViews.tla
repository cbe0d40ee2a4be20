---------------------------- MODULE CatalogViews ----------------------------
(***************************************************************************)
(* How one product is shown, as a card of a page and on a page of its own: *)
(* public-catalog.mapper with the stock of VariantStockService.  A view    *)
(* reads the product with its active variants and pictures, then the stock *)
(* of those variants; staff change all of them meanwhile.  The price shown *)
(* is that of the first variant, as are certifications and packaging.      *)
(***************************************************************************)
EXTENDS Integers, FiniteSets

CONSTANTS Lines,         \* the variants of the product, by sku in order
          StockRows,    \* quantities with thresholds to reorder at (bound)
          Images,       \* media ids (bound)
          SortOrders,   \* of pictures (bound)
          Nothing

ASSUME LinesAssumption ==
  /\ Lines \subseteq Int /\ IsFiniteSet(Lines) /\ SortOrders \subseteq Int
  /\ StockRows \subseteq [onHand : Nat, threshold : Nat]

VARIABLES
  stock,      \* the stock row of each variant, or Nothing
  onSale,     \* the active variants
  imageOrder, \* the sort order of each picture, Nothing if it is not there
  view        \* the card and the detail being made, or as last shown

catalogViews == <<stock, onSale, imageOrder, view>>

-----------------------------------------------------------------------------
(* Stock                                                                   *)

\* deriveStockStatus
DeriveStatus(row) ==
  IF row.onHand <= 0 THEN "OUT_OF_STOCK"
  ELSE IF row.threshold > 0 /\ row.onHand <= row.threshold THEN "LOW_STOCK"
  ELSE "IN_STOCK"

\* getAvailabilityMany: a variant without a row is out of stock.
Status(v) ==
  IF stock[v] = Nothing THEN "OUT_OF_STOCK" ELSE DeriveStatus(stock[v])

\* bestStockStatus
BestStatus(vs) ==
  IF \E v \in vs : Status(v) = "IN_STOCK" THEN "IN_STOCK"
  ELSE IF \E v \in vs : Status(v) = "LOW_STOCK" THEN "LOW_STOCK"
  ELSE "OUT_OF_STOCK"

-----------------------------------------------------------------------------
(* The two views                                                           *)

NoView == [pc |-> "none", variants |-> {}, image |-> Nothing,
           first |-> Nothing, status |-> Nothing, quiet |-> TRUE]

FirstSku(vs) ==
  IF vs = {} THEN Nothing ELSE CHOOSE v \in vs : \A w \in vs : v <= w

\* The pictures that may come first by sort order; ties come in any order.
Leading ==
  LET there == {i \in Images : imageOrder[i] # Nothing} IN
  IF there = {} THEN {Nothing}
  ELSE {i \in there : \A j \in there : imageOrder[i] <= imageOrder[j]}

ReadRows(which) ==
  /\ \E image \in Leading :
        view' = [view EXCEPT ![which] = [NoView EXCEPT !.pc = "rows", !.image = image,
                                                       !.variants = onSale]]
  /\ UNCHANGED <<stock, onSale, imageOrder>>

\* What is shown; it is not remembered if something changed while it was made.
Shown(which, first, status) ==
  view' = [view EXCEPT ![which] =
             IF ~@.quiet THEN NoView
             ELSE [@ EXCEPT !.pc = "shown", !.first = first, !.status = status]]

\* toCatalogListItem
ShowCard ==
  /\ view["card"].pc = "rows"
  /\ Shown("card", FirstSku(view["card"].variants), BestStatus(view["card"].variants))
  /\ UNCHANGED <<stock, onSale, imageOrder>>

\* toCatalogProductDetail
ShowDetail ==
  /\ view["detail"].pc = "rows"
  /\ Shown("detail", FirstSku(view["detail"].variants), BestStatus(view["detail"].variants))
  /\ UNCHANGED <<stock, onSale, imageOrder>>

-----------------------------------------------------------------------------
(* What staff change                                                       *)

Disturbed ==
  view' = [w \in DOMAIN view |-> IF view[w].pc = "rows" THEN [view[w] EXCEPT !.quiet = FALSE]
                                 ELSE NoView]

\* setStock of a variant, which is never deleted: one upsert.
SetStock(v, row) ==
  stock' = [stock EXCEPT ![v] = row] /\ Disturbed /\ UNCHANGED <<onSale, imageOrder>>

\* createVariant and updateVariant, as far as a view can tell.
SetOnSale(vs) ==
  onSale' = vs /\ Disturbed /\ UNCHANGED <<stock, imageOrder>>

\* An upload, a removal or a reordering of MediaService.
SetPicture(i, order) ==
  imageOrder' = [imageOrder EXCEPT ![i] = order] /\ Disturbed /\ UNCHANGED <<stock, onSale>>

-----------------------------------------------------------------------------

ViewsInit ==
  /\ stock = [v \in Lines |-> Nothing]
  /\ onSale = {}
  /\ imageOrder = [i \in Images |-> Nothing]
  /\ view = [w \in {"card", "detail"} |-> NoView]

ViewsNext ==
  \/ \E w \in {"card", "detail"} : ReadRows(w)
  \/ ShowCard \/ ShowDetail
  \/ \E v \in Lines, row \in StockRows : SetStock(v, row)
  \/ \E vs \in SUBSET Lines : SetOnSale(vs)
  \/ \E i \in Images, order \in SortOrders \cup {Nothing} : SetPicture(i, order)

ViewsSpec == ViewsInit /\ [][ViewsNext]_catalogViews

-----------------------------------------------------------------------------

\* Every variable of this module has its type.
ViewsTypeOK ==
  /\ stock \in [Lines -> StockRows \cup {Nothing}]
  /\ onSale \subseteq Lines
  /\ imageOrder \in [Images -> SortOrders \cup {Nothing}]
  /\ view \in [{"card", "detail"} ->
       [pc : {"none", "rows", "shown"}, variants : SUBSET Lines,
        image : Images \cup {Nothing}, first : Lines \cup {Nothing},
        status : {"OUT_OF_STOCK", "LOW_STOCK", "IN_STOCK", Nothing}, quiet : BOOLEAN]]

\* A card and the page it leads to lead with the same variant, so with its
\* price, and the same stock status and, if sort orders are distinct, picture,
\* unless something changed since the first of them was begun.
ListAndDetailAgree ==
  LET card == view["card"] detail == view["detail"] IN
  /\ card.pc = "shown" /\ detail.pc = "shown"
  => /\ card.first = detail.first /\ card.status = detail.status
     /\ (\A i, j \in Images : i # j /\ imageOrder[i] # Nothing => imageOrder[i] # imageOrder[j])
          => card.image = detail.image

=============================================================================
