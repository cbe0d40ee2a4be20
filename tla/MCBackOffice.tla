--------------------------- MODULE MCBackOffice ----------------------------
(*****************************************************************************)
(* The staff's side on small sets of ids, bodies and forms.                  *)
(*****************************************************************************)
EXTENDS BackOffice, TLC

Vi(t) == [locale |-> "vi", text |-> t]
En(t) == [locale |-> "en", text |-> t]

\* Bodies of POST: a good one, one that takes another's slug or not, and one
\* that gives a locale twice.
MCNewForms ==
  {[patch |-> [category |-> "c1", min |-> 0, max |-> 1, brand |-> "b1"],
    texts |-> <<Vi("t1"), En("t1")>>, descriptions |-> [vi |-> "d1"]],
   [patch |-> [category |-> "c1", min |-> 1, max |-> 1],
    texts |-> <<En("t2"), Vi("t2")>>, descriptions |-> <<>>],
   [patch |-> [category |-> "c1", min |-> 1, max |-> 1],
    texts |-> <<Vi("t1"), Vi("t2")>>, descriptions |-> <<>>]}

\* Bodies of PATCH: one age or the other, texts, a column and a description
\* cleared, a product put back on sale, and relations that do not exist.
MCEditForms ==
  {[patch |-> [min |-> 1], texts |-> <<>>, descriptions |-> <<>>],
   [patch |-> [max |-> 0], texts |-> <<Vi("t2")>>, descriptions |-> [vi |-> None]],
   [patch |-> [min |-> 0, brand |-> None], texts |-> <<Vi("t1"), Vi("t2")>>,
    descriptions |-> <<>>],
   [patch |-> [max |-> 1, active |-> TRUE], texts |-> <<En("t2")>>,
    descriptions |-> <<>>],
   [patch |-> [brand |-> "b9"], texts |-> <<>>, descriptions |-> <<>>],
   [patch |-> [category |-> "c9"], texts |-> <<>>, descriptions |-> <<>>]}

\* What a user fills in of a form: enough for a new product, an age above
\* another with the brand and a description cleared, and an age below another
\* with a locale cleared.
MCChanges ==
  {[row |-> [category |-> "c1", max |-> 1, brand |-> "b1"],
    text |-> [vi |-> "t1", en |-> "t1"], description |-> [vi |-> "d1"]],
   [row |-> [min |-> 1, brand |-> None], text |-> <<>>, description |-> [vi |-> None]],
   [row |-> [max |-> 0], text |-> [en |-> None], description |-> <<>>]}

MCNewVariants ==
  {[sku |-> "A", barcode |-> "1", inner |-> 1, master |-> 2],
   [sku |-> "B", master |-> 2], [sku |-> "B", inner |-> 2, master |-> 1],
   [sku |-> "B", inner |-> 1, master |-> None]}

MCVariantPatches ==
  {[sku |-> "A", barcode |-> "1"], [sku |-> "B", barcode |-> "1"],
   [inner |-> 2, barcode |-> "1"], [master |-> 1], [inner |-> None, barcode |-> None]}

MCPeriods == {<<0, 1>>, <<1, 1>>}

MCNewCategories ==
  {[patch |-> p, texts |-> <<Vi(t), En(t)>>] :
     t \in {"t1", "t2", "t3"},
     p \in {<<>>} \cup [{"parent"} -> CategoryIds \cup {Unknown}]}
  \cup {[patch |-> <<>>, texts |-> <<Vi("t1")>>]}

MCCategoryPatches ==
  {[patch |-> p, texts |-> <<>>] :
     p \in [{"parent"} -> CategoryIds \cup {None, Unknown}]}
  \cup {[patch |-> <<>>, texts |-> <<Vi("t2")>>]}

MCSymmetry == Permutations(Requests) \cup Permutations(Variants)

=============================================================================
