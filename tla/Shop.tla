------------------------------- MODULE Shop --------------------------------
(*****************************************************************************)
(* The shop's side: price resolution beside staff, the catalog queries over  *)
(* it, the two views of a product, a tab of the shop, and the account forms. *)
(* The first two share the tiers and the viewer's account, the others        *)
(* nothing, and so a behaviour is of one part, which "part" names; what      *)
(* belongs to the rest stays as it began.                                    *)
(*****************************************************************************)
EXTENDS PublicCatalog, CatalogViews, Storefront, AccountForms

VARIABLE part

shopVars == <<part, priceList, resolution, publicCatalog, catalogViews, storefront,
              formVars>>

ShopInit ==
  /\ part \in {"prices", "catalog", "views", "tab", "forms"}
  /\ CatalogInit /\ ViewsInit /\ StorefrontInit /\ FormsInit

ShopNext ==
  /\ UNCHANGED part
  /\ \/ /\ part = "prices" /\ ResolutionNext
        /\ UNCHANGED <<publicCatalog, catalogViews, storefront, formVars>>
     \/ /\ part = "catalog" /\ CatalogNext
        /\ UNCHANGED <<catalogViews, storefront, formVars>>
     \/ /\ part = "views" /\ ViewsNext
        /\ UNCHANGED <<elsewhere, publicCatalog, storefront, formVars>>
     \/ /\ part = "tab" /\ StorefrontNext
        /\ UNCHANGED <<elsewhere, publicCatalog, catalogViews, formVars>>
     \/ /\ part = "forms" /\ FormsNext
        /\ UNCHANGED <<elsewhere, publicCatalog, catalogViews, storefront>>

ShopSpec == ShopInit /\ [][ShopNext]_shopVars

-----------------------------------------------------------------------------

\* Every module's variables have their types.
ShopTypesOK ==
  /\ PriceListTypeOK /\ ResolutionTypeOK /\ CatalogTypeOK
  /\ ViewsTypeOK /\ StorefrontTypeOK /\ FormsTypeOK

\* Two pages of the shop agree while nothing changes: a facet's count with the
\* query it leads to, a card with the page it leads to.
PagesAgree == FacetsAgreeWithBrowse /\ ListAndDetailAgree

=============================================================================
