------------------------------ MODULE MCShop -------------------------------
(*****************************************************************************)
(* The shop's side on small sets of rows, queries and pages.                 *)
(*****************************************************************************)
EXTENDS Shop, TLC

\* Each product has another slug in each locale, and other products have it in
\* the other one.
SomeSlugs == CHOOSE s \in [Goods -> [ShopLocales -> Slugs]] :
               \A p \in Goods : /\ s[p]["vi"] # s[p]["en"]
                                /\ \A o \in Goods \ {p} : s[p]["vi"] = s[o]["en"]

\* What is on offer and which passwords there are at first matters to one part
\* each.
MCShopInit ==
  /\ ShopInit
  /\ slugs = SomeSlugs
  /\ part # "tab" => offered = Goods
  /\ part # "forms" => \A e \in StaffMailboxes : logins[e] = "p1"

\* Staff change the slugs of one locale, and while a price is resolved not all of
\* them are at work on the list (bounds).
MCShopNext ==
  /\ ShopNext
  /\ \A p \in Goods : slugs'[p]["en"] = slugs[p]["en"]
  /\ (\E r \in Readers : reader'[r].pc # "idle") => \E s \in Staff : admin'[s] = IdleAdmin

MCShopSpec == MCShopInit /\ [][MCShopNext]_shopVars

-----------------------------------------------------------------------------

ShelfRow(scope, active, category, name, min, max) ==
  [scope |-> scope, active |-> active, category |-> category,
   name |-> name, min |-> min, max |-> max]

\* A toy of everybody, one of dealers that meets more age buckets, and one
\* that is retired; two have one name.
MCShelfRows == {ShelfRow("BOTH", TRUE, "c1", 1, 0, 3),
                ShelfRow("WHOLESALE_ONLY", TRUE, "c2", 2, 3, 18),
                ShelfRow("BOTH", FALSE, "c1", 2, 0, 3)}

Query(filter, search, byName) ==
  [filter |-> filter, search |-> search, byName |-> byName]

MCQueries == {Query(<<>>, FALSE, FALSE), Query([category |-> "c1"], FALSE, FALSE),
              Query([bucket |-> <<3, 5>>], FALSE, TRUE), Query(<<>>, TRUE, FALSE)}

\* Nothing left, some below a threshold, and some without one, which is zero.
MCStockRows == {[onHand |-> 0, threshold |-> 2], [onHand |-> 1, threshold |-> 2],
                [onHand |-> 1, threshold |-> 0]}

MCSymmetry == Permutations(Staff)

=============================================================================
