------------------------------ MODULE Taxonomy ------------------------------
(***************************************************************************)
(* TaxonomyService: categories, each with a parent and a text per locale,  *)
(* and brands.  Rows are never deleted, so what a handler finds before its *)
(* transaction is still there in it, and a handler is one step.  The only  *)
(* guard of the category tree refuses a category that is its own parent.   *)
(* Sort order and active flag are copied and left out.                     *)
(***************************************************************************)
EXTENDS Rows

CONSTANTS CategoryIds, BrandIds,      \* ids the database may give (bound)
          BrandNames, CategoryWords,
          NewCategories, CategoryPatches    \* bodies of POST and PATCH (bound)

ASSUME NoneAssumption ==
  /\ None \notin CategoryIds \cup CategoryWords
  /\ None \notin [parent : CategoryIds \cup {None}]

ASSUME BodyAssumption ==
  \A body \in NewCategories \cup CategoryPatches :
     /\ DOMAIN body.patch \subseteq {"parent"}
     /\ body.texts \in Seq([locale : Locales, text : CategoryWords])

VARIABLES
  parents,         \* the row of each category: None, or its parent
  categoryTexts,   \* its text in each locale
  brands,          \* the name of each brand, None before it is created
  taxonomyReply    \* what the last request was answered

taxonomyVars == <<parents, categoryTexts, brands, taxonomyReply>>

Root == [parent |-> None]

-----------------------------------------------------------------------------
(* createCategory and updateCategory                                       *)

ParentRefused(patch) ==
  /\ "parent" \in DOMAIN patch /\ patch.parent # None
  /\ patch.parent \notin CategoryIds \/ parents[patch.parent] = None

NewCategoryRefused(c, body) ==
  IF ~BothLocales(body.texts) THEN "BOTH_LOCALES_REQUIRED"
  ELSE IF ParentRefused(body.patch) THEN "PARENT_NOT_FOUND"
  ELSE IF SlugTaken(categoryTexts, c, body.texts) THEN "SLUG_TAKEN"
  ELSE "ok"

\* Mutant of CategoryRefused: a category may be its own parent.
CategoryRefusedNoSelf(c, body) ==
  IF parents[c] = None THEN "CATEGORY_NOT_FOUND"
  ELSE IF ParentRefused(body.patch) THEN "PARENT_NOT_FOUND"
  ELSE IF SlugTaken(categoryTexts, c, body.texts) THEN "SLUG_TAKEN"
  ELSE "ok"

CategoryRefused(c, body) ==
  IF parents[c] = None THEN "CATEGORY_NOT_FOUND"
  ELSE IF "parent" \in DOMAIN body.patch /\ body.patch.parent = c
    THEN "CATEGORY_CANNOT_PARENT_ITSELF"
  ELSE IF ParentRefused(body.patch) THEN "PARENT_NOT_FOUND"
  ELSE IF SlugTaken(categoryTexts, c, body.texts) THEN "SLUG_TAKEN"
  ELSE "ok"

\* The row and its texts, in one transaction; a refusal changes nothing.
WriteCategory(c, row, body, code) ==
  /\ taxonomyReply' = code
  /\ \/ /\ code = "ok"
        /\ parents' = [parents EXCEPT ![c] = Patched(row, body.patch)]
        /\ categoryTexts' = [categoryTexts EXCEPT ![c] = Translated(@, body.texts)]
     \/ code # "ok" /\ UNCHANGED <<parents, categoryTexts>>
  /\ UNCHANGED brands

CreateCategory(c, body) ==
  /\ parents[c] = None
  /\ WriteCategory(c, Root, body, NewCategoryRefused(c, body))

UpdateCategory(c, body) ==
  WriteCategory(c, parents[c], body, CategoryRefused(c, body))

-----------------------------------------------------------------------------
(* createBrand and updateBrand                                             *)

NameTaken(b, name) == \E o \in BrandIds \ {b} : brands[o] = name

WriteBrand(b, name) ==
  /\ \/ /\ NameTaken(b, name)
        /\ taxonomyReply' = "BRAND_NAME_TAKEN"
        /\ UNCHANGED brands
     \/ /\ ~NameTaken(b, name)
        /\ taxonomyReply' = "ok"
        /\ brands' = [brands EXCEPT ![b] = name]
  /\ UNCHANGED <<parents, categoryTexts>>

CreateBrand(b, name) == brands[b] = None /\ WriteBrand(b, name)

UpdateBrand(b, name) ==
  \/ brands[b] # None /\ WriteBrand(b, name)
  \/ /\ brands[b] = None
     /\ taxonomyReply' = "BRAND_NOT_FOUND"
     /\ UNCHANGED <<parents, categoryTexts, brands>>

-----------------------------------------------------------------------------

TaxonomyInit ==
  /\ parents = [c \in CategoryIds |-> None]
  /\ categoryTexts = [c \in CategoryIds |-> [l \in Locales |-> None]]
  /\ brands = [b \in BrandIds |-> None]
  /\ taxonomyReply = None

TaxonomyNext ==
  \/ \E c \in CategoryIds :
        \/ \E body \in NewCategories : CreateCategory(c, body)
        \/ \E body \in CategoryPatches : UpdateCategory(c, body)
  \/ \E b \in BrandIds, name \in BrandNames : CreateBrand(b, name) \/ UpdateBrand(b, name)

TaxonomySpec == TaxonomyInit /\ [][TaxonomyNext]_taxonomyVars

-----------------------------------------------------------------------------

\* Rows keep their types: a parent exists, a category has a text in both
\* locales, as toCategoryDto, which throws otherwise, relies on, and neither a
\* slug of a locale nor a brand's name is held twice.
TaxonomyTypeOK ==
  /\ parents \in [CategoryIds -> {None} \cup [parent : CategoryIds \cup {None}]]
  /\ \A c \in CategoryIds :
        /\ parents[c] # None /\ parents[c].parent # None
             => parents[parents[c].parent] # None
        /\ categoryTexts[c]
             \in [Locales -> IF parents[c] = None THEN {None} ELSE CategoryWords]
  /\ \A c, o \in CategoryIds : \A l \in Locales :
        c # o /\ categoryTexts[c][l] # None
          => categoryTexts[c][l] # categoryTexts[o][l]
  /\ brands \in [BrandIds -> BrandNames \cup {None}]

\* No two brands have one name, whichever creations and renamings meet.
BrandNamesUnique ==
  \A b, o \in BrandIds : b # o /\ brands[b] # None => brands[b] # brands[o]

\* A set of categories each of which has its parent in the set holds a cycle.
Cyclic(table) ==
  \E S \in SUBSET CategoryIds \ {{}} :
     \A c \in S : table[c] # None /\ table[c].parent \in S

\* d is c or lies below it: every set that is closed under parents and has d
\* has c.
Below(table, d, c) ==
  \A S \in SUBSET CategoryIds :
     /\ d \in S
     /\ \A x \in S : table[x] # None /\ table[x].parent # None
                       => table[x].parent \in S
     => c \in S

\* The category tree gets a cycle in one way only, by an update that moves a
\* category under one that lies properly below it, which nothing refuses: no
\* creation, no move elsewhere and no category named as its own parent.
CycleOnlyUnderDescendant ==
  [][~Cyclic(parents) /\ Cyclic(parents')
       => \E c \in CategoryIds :
             /\ parents[c] # None /\ parents'[c] # parents[c]
             /\ parents'[c].parent # c
             /\ Below(parents, parents'[c].parent, c)]_taxonomyVars

=============================================================================
