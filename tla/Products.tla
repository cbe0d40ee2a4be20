------------------------------ MODULE Products ------------------------------
(***************************************************************************)
(* The products of ProductsService: staff create, update, retire and list  *)
(* them, several requests at a time.  update() is split where it leaves    *)
(* the row it checked: the check and the write are two statements.         *)
(* Products, categories and brands are never deleted, so a row once found  *)
(* is still there later and the reads that only ask whether one exists     *)
(* are part of the step that acts on them.  Gender, origin and channel     *)
(* scope are copied as the category is and left out; a text is a name with *)
(* its slug, and the description beside it may be left out of a body.      *)
(***************************************************************************)
EXTENDS Rows

CONSTANTS Products,        \* ids the database may give (bound), by number
          Categories, Brands,
          Ages, Texts, Descriptions,
          Found,           \* the texts whose name contains the search term
          NewForms, EditForms,   \* bodies of POST and PATCH (bound)
          PageSizes, Pages       \* queries of the list (bound)

ASSUME ProductsAssumption ==
  /\ Products \subseteq Nat /\ IsFiniteSet(Products) /\ Found \subseteq Texts
  /\ Ages \cup PageSizes \cup Pages \subseteq Nat /\ 0 \notin PageSizes \cup Pages

VARIABLES
  products,      \* the row of each product, None before it is created
  texts,         \* its translation in each locale
  descriptions,  \* the description of each translation, None for null
  productJobs    \* the handler in each slot

productVars == <<products, texts, descriptions, productJobs>>

-----------------------------------------------------------------------------

ProductRow == [category : Categories, brand : Brands \cup {None},
               min : Ages, max : Ages, active : BOOLEAN]

Blank == [category |-> Unknown, brand |-> None, min |-> 0, max |-> 0,
          active |-> TRUE]

ASSUME NoProductAssumption == None \notin ProductRow \cup Texts \cup Descriptions

\* A body as UpsertProductDto and UpdateProductDto let it pass, but for a null
\* the database refuses: columns of a row and texts, and of a creation the
\* columns it must have.  Its descriptions are those its texts carry, by locale;
\* a locale whose texts leave it out, or send undefined, has none.
IsBody(dto) ==
  /\ DOMAIN dto.patch \subseteq DOMAIN Blank
  /\ \A c \in DOMAIN dto.patch : /\ c \in {"min", "max"} => dto.patch[c] \in Ages
                                 /\ c = "active" => dto.patch[c] \in BOOLEAN
  /\ dto.texts \in Seq([locale : Locales, text : Texts])
  /\ DOMAIN dto.descriptions \subseteq {dto.texts[i].locale : i \in DOMAIN dto.texts}
  /\ \A l \in DOMAIN dto.descriptions :
        dto.descriptions[l] \in Descriptions \cup {None}

IsNewBody(dto) == IsBody(dto) /\ {"category", "min", "max"} \subseteq DOMAIN dto.patch

ASSUME ProductBodyAssumption ==
  (\A dto \in NewForms : IsNewBody(dto)) /\ (\A dto \in EditForms : IsBody(dto))

ProductIdle == [pc |-> "idle"]
ProductAnswer(code) == [pc |-> "done", code |-> code]
FreeProductJob(q) == productJobs[q].pc \in {"idle", "done", "counted"}

SetProductJob(q, job) == productJobs' = [productJobs EXCEPT ![q] = job]

\* A request that only answers.
ProductRefusal(q, code) ==
  SetProductJob(q, ProductAnswer(code)) /\ UNCHANGED <<products, texts, descriptions>>

\* The reads that precede the transaction of create and of update.
RelationRefused(patch) ==
  IF "category" \in DOMAIN patch /\ patch.category \notin Categories
    THEN "CATEGORY_NOT_FOUND"
  ELSE IF "brand" \in DOMAIN patch /\ patch.brand \notin Brands \cup {None}
    THEN "BRAND_NOT_FOUND"
  ELSE "ok"

-----------------------------------------------------------------------------
(* create                                                                  *)

Insert(q, p, dto) ==
  /\ products[p] = None
  /\ products' = [products EXCEPT ![p] = Patched(Blank, dto.patch)]
  /\ texts' = [texts EXCEPT ![p] = Translated(@, dto.texts)]
  /\ descriptions' = [descriptions EXCEPT ![p] = Patched(@, dto.descriptions)]
  /\ SetProductJob(q, ProductAnswer("ok"))

\* Mutant of NewRefused: the locales are not asserted.
NewRefusedAnyLocales(p, dto) ==
  IF dto.patch.min > dto.patch.max THEN "AGE_RANGE_INVALID"
  ELSE IF RelationRefused(dto.patch) # "ok" THEN RelationRefused(dto.patch)
  ELSE IF SlugTaken(texts, p, dto.texts) THEN "SLUG_TAKEN"
  ELSE "ok"

NewRefused(p, dto) ==
  IF ~BothLocales(dto.texts) THEN "BOTH_LOCALES_REQUIRED"
  ELSE IF dto.patch.min > dto.patch.max THEN "AGE_RANGE_INVALID"
  ELSE IF RelationRefused(dto.patch) # "ok" THEN RelationRefused(dto.patch)
  ELSE IF SlugTaken(texts, p, dto.texts) THEN "SLUG_TAKEN"
  ELSE "ok"

CreateProduct(q, p, dto) ==
  /\ FreeProductJob(q)
  /\ \/ NewRefused(p, dto) = "ok" /\ Insert(q, p, dto)
     \/ NewRefused(p, dto) # "ok" /\ ProductRefusal(q, NewRefused(p, dto))

-----------------------------------------------------------------------------
(* update                                                                  *)

\* Mutant of EditRefused: only a body with both ages is checked.
EditRefusedBothGiven(p, dto) ==
  IF /\ {"min", "max"} \subseteq DOMAIN dto.patch
     /\ dto.patch.min > dto.patch.max
  THEN "AGE_RANGE_INVALID" ELSE RelationRefused(dto.patch)

\* The age range is checked on the row as read, with the body over it.
EditRefused(p, dto) ==
  LET row == Patched(products[p], dto.patch) IN
  IF row.min > row.max THEN "AGE_RANGE_INVALID" ELSE RelationRefused(dto.patch)

UpdateRead(q, p, dto) ==
  /\ FreeProductJob(q)
  /\ \/ products[p] = None /\ ProductRefusal(q, "PRODUCT_NOT_FOUND")
     \/ /\ products[p] # None
        /\ EditRefused(p, dto) # "ok"
        /\ ProductRefusal(q, EditRefused(p, dto))
     \/ /\ products[p] # None
        /\ EditRefused(p, dto) = "ok"
        /\ SetProductJob(q, [pc |-> "checked", id |-> p, dto |-> dto,
                             seen |-> products[p]])
        /\ UNCHANGED <<products, texts, descriptions>>

\* Mutant of UpdateCommit: the row as read is written back whole.
UpdateCommitSeen(q) ==
  LET job == productJobs[q] IN
  /\ job.pc = "checked"
  /\ ~SlugTaken(texts, job.id, job.dto.texts)
  /\ products' = [products EXCEPT ![job.id] = Patched(job.seen, job.dto.patch)]
  /\ texts' = [texts EXCEPT ![job.id] = Translated(@, job.dto.texts)]
  /\ descriptions' = [descriptions EXCEPT ![job.id] = Patched(@, job.dto.descriptions)]
  /\ SetProductJob(q, ProductAnswer("ok"))

\* One transaction: the columns the body names, then its texts, of which an
\* undefined description is left as it is stored.
UpdateCommit(q) ==
  LET job == productJobs[q] IN
  /\ job.pc = "checked"
  /\ \/ SlugTaken(texts, job.id, job.dto.texts) /\ ProductRefusal(q, "SLUG_TAKEN")
     \/ /\ ~SlugTaken(texts, job.id, job.dto.texts)
        /\ products' = [products EXCEPT ![job.id] = Patched(@, job.dto.patch)]
        /\ texts' = [texts EXCEPT ![job.id] = Translated(@, job.dto.texts)]
        /\ descriptions' =
             [descriptions EXCEPT ![job.id] = Patched(@, job.dto.descriptions)]
        /\ SetProductJob(q, ProductAnswer("ok"))

-----------------------------------------------------------------------------
(* softDelete                                                              *)

SoftDelete(q, p) ==
  /\ FreeProductJob(q)
  /\ \/ products[p] = None /\ ProductRefusal(q, "PRODUCT_NOT_FOUND")
     \/ /\ products[p] # None
        /\ products' = [products EXCEPT ![p].active = FALSE]
        /\ SetProductJob(q, ProductAnswer("ok"))
        /\ UNCHANGED <<texts, descriptions>>

-----------------------------------------------------------------------------
(* list: the rows of a page, retired ones too, then the number of all, in  *)
(* one transaction of two snapshots.                                       *)

Listed(searching) ==
  {p \in Products : /\ products[p] # None
                    /\ searching => \E l \in Locales : texts[p][l] \in Found}

\* The page of a set of ids in descending order.
PageOf(ids, page, size) ==
  {p \in ids : Cardinality({o \in ids : o >= p})
                 \in (page - 1) * size + 1 .. page * size}

ListRows(q, page, size, searching) ==
  /\ FreeProductJob(q)
  /\ SetProductJob(q, [pc |-> "listed", page |-> page, size |-> size,
                       searching |-> searching,
                       items |-> PageOf(Listed(searching), page, size)])
  /\ UNCHANGED <<products, texts, descriptions>>

ListCount(q) ==
  LET job == productJobs[q] IN
  /\ job.pc = "listed"
  /\ SetProductJob(q, [pc |-> "counted", page |-> job.page, size |-> job.size,
                       searching |-> job.searching, items |-> job.items,
                       total |-> Cardinality(Listed(job.searching))])
  /\ UNCHANGED <<products, texts, descriptions>>

-----------------------------------------------------------------------------

ProductsInit ==
  /\ products = [p \in Products |-> None]
  /\ texts = [p \in Products |-> [l \in Locales |-> None]]
  /\ descriptions = [p \in Products |-> [l \in Locales |-> None]]
  /\ productJobs = [q \in Requests |-> ProductIdle]

ProductsNext ==
  \E q \in Requests :
     \/ \E p \in Products :
           \/ \E dto \in NewForms : CreateProduct(q, p, dto)
           \/ \E dto \in EditForms : UpdateRead(q, p, dto)
           \/ SoftDelete(q, p)
     \/ UpdateCommit(q)
     \/ \E page \in Pages, size \in PageSizes, searching \in BOOLEAN :
           ListRows(q, page, size, searching)
     \/ ListCount(q)

ProductsSpec == ProductsInit /\ [][ProductsNext]_productVars

-----------------------------------------------------------------------------

\* Rows, texts and handlers keep their types, and a product has a text in
\* both locales from the moment it exists, as toAdminProductDto, which throws
\* otherwise and takes a whole list with it, relies on.
ProductsTypeOK ==
  /\ products \in [Products -> ProductRow \cup {None}]
  /\ \A p \in Products :
        /\ texts[p] \in [Locales -> IF products[p] = None THEN {None} ELSE Texts]
        /\ descriptions[p] \in [Locales -> Descriptions \cup {None}]
        /\ products[p] = None => \A l \in Locales : descriptions[p][l] = None
  /\ \A q \in Requests :
        /\ productJobs[q].pc \in {"idle", "done", "checked", "listed", "counted"}
        /\ productJobs[q].pc = "checked" => products[productJobs[q].id] # None

\* The slugs of a locale are unique, whichever requests overlap.
SlugsUnique ==
  \A p, o \in Products : \A l \in Locales :
     p # o /\ texts[p][l] # None => texts[p][l] # texts[o][l]

Ordered(row) == row # None => row.min <= row.max

\* An age range is inverted only by an update that was checked on ages which
\* another update has changed since: whoever edits a product alone is safe.
RangeBreaksOnlyStale ==
  [][\A p \in Products :
        Ordered(products[p]) /\ ~Ordered(products'[p])
          => \E q \in Requests :
                /\ productJobs[q].pc = "checked" /\ productJobs[q].id = p
                /\ productJobs'[q] = ProductAnswer("ok")
                /\ \/ productJobs[q].seen.min # products[p].min
                   \/ productJobs[q].seen.max # products[p].max]_productVars

\* No update is lost to another that read the row before it: a column changes
\* only at the hand of a request that names it.
NoLostUpdate ==
  [][\A p \in Products : \A c \in DOMAIN Blank :
        products[p] # None /\ products'[p][c] # products[p][c]
          => \/ c = "active" /\ ~products'[p].active
             \/ \E q \in Requests :
                   /\ productJobs[q].pc = "checked" /\ productJobs[q].id = p
                   /\ productJobs'[q] = ProductAnswer("ok")
                   /\ c \in DOMAIN productJobs[q].dto.patch]_productVars

\* The total of a list that is not filtered, though counted after its page was
\* read, covers the page and those before it: the pager never ends too early.
ListTotalCovers ==
  \A q \in Requests :
     LET job == productJobs[q] IN
     job.pc = "counted" /\ ~job.searching /\ job.items # {}
       => (job.page - 1) * job.size + Cardinality(job.items) <= job.total

=============================================================================
