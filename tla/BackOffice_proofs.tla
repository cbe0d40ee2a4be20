-------------------------- MODULE BackOffice_proofs --------------------------
(*****************************************************************************)
(* The staff's side for any number of products, variants, categories, forms  *)
(* and requests in flight: each part's inductive invariant and what its      *)
(* steps may do, then the parts together.                                    *)
(*****************************************************************************)
EXTENDS BackOffice, Ranks, SequenceTheorems

-----------------------------------------------------------------------------
(* Texts in two locales                                                    *)

Entries(words) == [locale : Locales, text : words]

\* In each locale the text is one of the list, or the old one if the list has none.
LEMMA TranslatedText ==
  ASSUME NEW words, NEW list \in Seq(Entries(words)), NEW old, NEW l \in Locales
  PROVE  IF \E i \in DOMAIN list : list[i].locale = l
         THEN \E i \in DOMAIN list : /\ list[i].locale = l /\ list[i].text \in words
                                     /\ Translated(old, list)[l] = list[i].text
         ELSE Translated(old, list)[l] = old[l]
<1> DEFINE of == {i \in DOMAIN list : list[i].locale = l}
<1>1. Translated(old, list)[l] =
        IF of = {} THEN old[l]
        ELSE list[CHOOSE i \in of : \A j \in of : j <= i].text
  BY DEF Translated
<1>2. CASE of = {}
  BY <1>1, <1>2
<1>3. CASE of # {}
  <2>1. DOMAIN list = 1 .. Len(list) /\ Len(list) \in Nat
    OBVIOUS
  <2>2. \E i \in of : \A j \in of : j <= i
    BY <1>3, <2>1, LastPosition
  <2>3. PICK i \in of : Translated(old, list)[l] = list[i].text
    BY <1>1, <1>3, <2>2
  <2>4. list[i] \in Entries(words)
    BY <2>1
  <2> QED
    BY <2>3, <2>4 DEF Entries
<1> QED
  BY <1>2, <1>3

\* The texts of a table of rows: what exists has a text in both locales, and
\* no slug of a locale is held twice.
TextsOf(ids, words, rows_, table) ==
  /\ table \in [ids -> [Locales -> words \cup {None}]]
  /\ \A c \in ids : \A l \in Locales :
        IF rows_[c] = None THEN table[c][l] = None ELSE table[c][l] \in words
  /\ \A c, o \in ids : \A l \in Locales :
        c # o /\ table[c][l] # None => table[c][l] # table[o][l]

\* Writing the texts of a body that is not refused keeps that.
LEMMA WriteKeepsTexts ==
  ASSUME NEW ids, NEW words, None \notin words, NEW old, NEW table, NEW new, NEW written,
         TextsOf(ids, words, old, table),
         NEW c \in ids, NEW list \in Seq(Entries(words)), ~SlugTaken(table, c, list),
         old[c] # None \/ BothLocales(list),
         new[c] # None, \A o \in ids \ {c} : new[o] = old[o],
         written = [table EXCEPT ![c] = Translated(table[c], list)]
  PROVE  TextsOf(ids, words, new, written)
<1> DEFINE text == Translated(table[c], list)
<1>1. ASSUME NEW l \in Locales
      PROVE  text[l] \in words /\ \A o \in ids \ {c} : text[l] # table[o][l]
  <2>1. CASE \E i \in DOMAIN list : list[i].locale = l
    <3>1. PICK i \in DOMAIN list :
             list[i].locale = l /\ list[i].text \in words /\ text[l] = list[i].text
      BY <2>1, TranslatedText
    <3>2. \A o \in ids \ {c} : table[o][l] # list[i].text
      BY <3>1 DEF SlugTaken, TextsOf
    <3> QED
      BY <3>1, <3>2
  <2>2. CASE ~\E i \in DOMAIN list : list[i].locale = l
    <3>1. text[l] = table[c][l]
      BY <2>2, TranslatedText
    <3>2. old[c] # None
      <4>1. SUFFICES ASSUME BothLocales(list)
                     PROVE  FALSE
        OBVIOUS
      <4>2. DOMAIN list = 1 .. 2
        BY <4>1 DEF BothLocales
      <4>3. PICK i \in 1 .. 2 : list[i].locale = l
        BY <4>1 DEF BothLocales
      <4> QED
        BY <2>2, <4>2, <4>3
    <3>3. table[c][l] \in words /\ table[c][l] # None
      BY <3>2 DEF TextsOf
    <3> QED
      BY <3>1, <3>3 DEF TextsOf
  <2> QED
    BY <2>1, <2>2
<1>2. text \in [Locales -> words]
  <2>1. text = [l \in Locales |-> text[l]]
    BY DEF Translated
  <2> HIDE DEF text
  <2> QED
    BY <1>1, <2>1
<1> HIDE DEF text
<1>3. /\ written[c] = text
      /\ \A o \in ids \ {c} : written[o] = table[o]
      /\ written \in [ids -> [Locales -> words \cup {None}]]
  BY <1>2 DEF TextsOf, text
<1>4. \A o \in ids : \A l \in Locales :
        IF new[o] = None THEN written[o][l] = None ELSE written[o][l] \in words
  BY <1>1, <1>3 DEF TextsOf
<1>5. \A d, o \in ids : \A l \in Locales :
        d # o /\ written[d][l] # None => written[d][l] # written[o][l]
  <2> SUFFICES ASSUME NEW d \in ids, NEW o \in ids, NEW l \in Locales,
                      d # o, written[d][l] # None
               PROVE  written[d][l] # written[o][l]
    OBVIOUS
  <2>1. CASE d # c /\ o # c
    BY <1>3, <2>1 DEF TextsOf
  <2>2. CASE d = c \/ o = c
    BY <1>1, <1>3, <2>2
  <2> QED
    BY <2>1, <2>2
<1> QED
  BY <1>3, <1>4, <1>5 DEF TextsOf

-----------------------------------------------------------------------------
(* Products                                                                *)

Columns == {"category", "brand", "min", "max", "active"}

\* A body over a row, column by column.
LEMMA PatchedProduct ==
  ASSUME NEW row, NEW patch, DOMAIN row = Columns
  PROVE  /\ DOMAIN Patched(row, patch) = Columns
         /\ Patched(row, patch) = [c \in Columns |-> Patched(row, patch)[c]]
         /\ \A c \in Columns :
              Patched(row, patch)[c] = IF c \in DOMAIN patch THEN patch[c] ELSE row[c]
         /\ Patched(row, patch).min = IF "min" \in DOMAIN patch THEN patch.min ELSE row.min
         /\ Patched(row, patch).max = IF "max" \in DOMAIN patch THEN patch.max ELSE row.max
         /\ Patched(row, patch).brand =
              IF "brand" \in DOMAIN patch THEN patch.brand ELSE row.brand
BY DEF Patched, Columns

\* A row of the table has every column of the schema, and Blank is such a row.
LEMMA ProductColumns ==
  /\ \A row \in ProductRow : /\ DOMAIN row = Columns
                             /\ row.min \in Ages /\ row.max \in Ages
                             /\ row.active \in BOOLEAN
  /\ DOMAIN Blank = Columns /\ Blank.active = TRUE
BY DEF ProductRow, Blank, Columns

\* What is written over a row of the table is one.
LEMMA WrittenProduct ==
  ASSUME NEW row, DOMAIN row = Columns, NEW dto, IsBody(dto), RelationRefused(dto.patch) = "ok",
         row \in ProductRow \/ (row = Blank /\ IsNewBody(dto))
  PROVE  Patched(row, dto.patch) \in ProductRow
<1> DEFINE new == Patched(row, dto.patch)
           patch == dto.patch
<1>1. /\ \A c \in Columns : new[c] = IF c \in DOMAIN patch THEN patch[c] ELSE row[c]
      /\ new = [c \in Columns |-> new[c]]
  BY PatchedProduct
<1>2. new.category \in Categories
  <2>1. CASE "category" \in DOMAIN patch
    BY <1>1, <2>1 DEF RelationRefused, Columns
  <2>2. CASE "category" \notin DOMAIN patch
    BY <1>1, <2>2 DEF IsNewBody, ProductRow, Columns
  <2> QED
    BY <2>1, <2>2
<1>3. new.brand \in Brands \cup {None}
  <2>1. CASE "brand" \in DOMAIN patch
    BY <1>1, <2>1 DEF RelationRefused, Columns
  <2>2. CASE "brand" \notin DOMAIN patch
    BY <1>1, <2>2 DEF ProductRow, Blank, Columns
  <2> QED
    BY <2>1, <2>2
<1>4. new.min \in Ages /\ new.max \in Ages
  BY <1>1 DEF IsBody, IsNewBody, ProductRow, Columns
<1>5. new.active \in BOOLEAN
  <2>1. row.active \in BOOLEAN
    BY ProductColumns
  <2>2. new.active = IF "active" \in DOMAIN patch THEN patch["active"] ELSE row.active
    BY <1>1 DEF Columns
  <2>3. "active" \in DOMAIN patch => patch["active"] \in BOOLEAN
    BY DEF IsBody, IsNewBody
  <2> QED
    BY <2>1, <2>2, <2>3
<1> HIDE DEF new
<1>6. new = [category |-> new.category, brand |-> new.brand, min |-> new.min, max |-> new.max,
             active |-> new.active]
  BY <1>1 DEF Columns
<1>7. \A c \in Categories, b \in Brands \cup {None}, m, n \in Ages, a \in BOOLEAN :
        [category |-> c, brand |-> b, min |-> m, max |-> n, active |-> a] \in ProductRow
  BY DEF ProductRow
<1>8. [category |-> new.category, brand |-> new.brand, min |-> new.min, max |-> new.max,
       active |-> new.active] \in ProductRow
  BY <1>2, <1>3, <1>4, <1>5, <1>7
<1> QED
  BY <1>6, <1>8 DEF new

Existing(table) == {p \in Products : table[p] # None}

\* The last item of a page and those before it are as many as this.
Reached(j) == (j.page - 1) * j.size + Cardinality(j.items)

\* What a handler in flight has found holds still.
JobFits(j, table) ==
  /\ j.pc \in {"idle", "done", "checked", "listed", "counted"}
  /\ j.pc = "checked" =>
       /\ j.id \in Products /\ table[j.id] # None
       /\ IsBody(j.dto) /\ RelationRefused(j.dto.patch) = "ok"
       /\ j.seen \in ProductRow
       /\ Patched(j.seen, j.dto.patch).min <= Patched(j.seen, j.dto.patch).max
  /\ j.pc \in {"listed", "counted"} /\ ~j.searching /\ j.items # {} =>
       /\ Reached(j) \in Int
       /\ j.pc = "listed" => Reached(j) <= Cardinality(Existing(table))
       /\ j.pc = "counted" => Reached(j) <= j.total

\* The descriptions beside the texts: none before the product exists.
Described(table, rows_) ==
  /\ table \in [Products -> [Locales -> Descriptions \cup {None}]]
  /\ \A p \in Products : rows_[p] = None => \A l \in Locales : table[p][l] = None

\* Those a body may carry.
IsNotes(notes) == \A l \in DOMAIN notes : notes[l] \in Descriptions \cup {None}

ProductsInv ==
  /\ products \in [Products -> ProductRow \cup {None}]
  /\ TextsOf(Products, Texts, products, texts)
  /\ Described(descriptions, products)
  /\ DOMAIN productJobs = Requests
  /\ \A q \in Requests : JobFits(productJobs[q], products)

\* A handler stays right as long as rows are only added and changed.
LEMMA JobStaysFit ==
  ASSUME NEW j, NEW old, NEW new, JobFits(j, old),
         \A p \in Products : old[p] # None => new[p] # None
  PROVE  JobFits(j, new)
<1>1. \A table : IsFiniteSet(Existing(table)) /\ Cardinality(Existing(table)) \in Int
  <2>1. \A table : Existing(table) \in SUBSET Products
    BY DEF Existing
  <2> QED
    BY <2>1, FS_Subset, FS_CardinalityType, ProductsAssumption
<1>2. Cardinality(Existing(old)) <= Cardinality(Existing(new))
  <2>2. Existing(old) \in SUBSET Existing(new)
    BY DEF Existing
  <2> QED
    BY <1>1, <2>2, FS_Subset
<1> QED
  BY <1>1, <1>2 DEF JobFits

\* One request's job changes and no row leaves the table: the other jobs still fit it.
LEMMA JobsStayFit ==
  ASSUME ProductsInv, NEW q \in Requests, NEW j, SetProductJob(q, j), JobFits(j, products'),
         \A p \in Products : products[p] # None => products'[p] # None
  PROVE  DOMAIN productJobs' = Requests /\ \A r \in Requests : JobFits(productJobs[r], products)'
<1>1. \A r \in Requests : productJobs'[r] = IF r = q THEN j ELSE productJobs[r]
  BY DEF ProductsInv, SetProductJob
<1>2. \A r \in Requests : JobFits(productJobs[r], products')
  BY JobStaysFit DEF ProductsInv
<1> QED
  BY <1>1, <1>2 DEF ProductsInv, SetProductJob

\* A job that only carries its answer fits every table.
LEMMA AnswerFits == ASSUME NEW code, NEW table PROVE JobFits(ProductAnswer(code), table)
BY DEF JobFits, ProductAnswer

\* A request refused before it reaches the service leaves the table alone.
LEMMA RefusalKeeps ==
  ASSUME ProductsInv, NEW q \in Requests, NEW code, ProductRefusal(q, code)
  PROVE  ProductsInv'
<1>1. UNCHANGED <<products, texts, descriptions>> /\ SetProductJob(q, ProductAnswer(code))
  BY DEF ProductRefusal
<1>2. DOMAIN productJobs' = Requests /\ \A r \in Requests : JobFits(productJobs[r], products)'
  BY <1>1, JobsStayFit, AnswerFits
<1> QED
  BY <1>1, <1>2 DEF ProductsInv

\* Writing a row and its texts, new or over the old.
LEMMA WriteKeepsProducts ==
  ASSUME ProductsInv, NEW q \in Requests, NEW p \in Products, NEW row \in ProductRow,
         NEW list \in Seq(Entries(Texts)), ~SlugTaken(texts, p, list),
         products[p] # None \/ BothLocales(list),
         products' = [products EXCEPT ![p] = row],
         texts' = [texts EXCEPT ![p] = Translated(texts[p], list)],
         NEW notes, IsNotes(notes),
         descriptions' = [descriptions EXCEPT ![p] = Patched(descriptions[p], notes)],
         NEW code, SetProductJob(q, ProductAnswer(code))
  PROVE  ProductsInv'
<1>1. products'[p] # None /\ \A o \in Products \ {p} : products'[o] = products[o]
  BY NoProductAssumption DEF ProductsInv
<1>2. TextsOf(Products, Texts, products, texts)'
  BY <1>1, WriteKeepsTexts, NoProductAssumption DEF ProductsInv
<1>3. DOMAIN productJobs' = Requests /\ \A r \in Requests : JobFits(productJobs[r], products)'
  BY <1>1, JobsStayFit, AnswerFits
<1>4. Described(descriptions, products)'
  <2>1. /\ descriptions \in [Products -> [Locales -> Descriptions \cup {None}]]
        /\ \A o \in Products : products[o] = None => \A l \in Locales : descriptions[o][l] = None
    BY DEF ProductsInv, Described
  <2>2. Patched(descriptions[p], notes) \in [Locales -> Descriptions \cup {None}]
    BY <2>1 DEF Patched, IsNotes
  <2> QED
    BY <1>1, <2>1, <2>2 DEF Described
<1> QED
  BY <1>2, <1>3, <1>4 DEF ProductsInv

\* create writes a row the schema and its checks accept, or answers an error.
LEMMA CreateKeeps ==
  ASSUME ProductsInv, NEW q \in Requests, NEW p \in Products, NEW dto, IsNewBody(dto),
         CreateProduct(q, p, dto)
  PROVE  ProductsInv'
<1>1. CASE NewRefused(p, dto) = "ok" /\ Insert(q, p, dto)
  <2>1. /\ BothLocales(dto.texts) /\ ~SlugTaken(texts, p, dto.texts)
        /\ RelationRefused(dto.patch) = "ok"
    BY <1>1 DEF NewRefused
  <2>2. Patched(Blank, dto.patch) \in ProductRow
    BY <2>1, WrittenProduct, ProductColumns DEF IsNewBody
  <2>3. dto.texts \in Seq(Entries(Texts)) /\ IsNotes(dto.descriptions)
    BY DEF IsNewBody, IsBody, Entries, IsNotes
  <2> QED
    BY <1>1, <2>1, <2>2, <2>3, WriteKeepsProducts DEF Insert
<1>2. CASE ProductRefusal(q, NewRefused(p, dto))
  BY <1>2, RefusalKeeps
<1> QED
  BY <1>1, <1>2 DEF CreateProduct

\* The first half of update reads the row, checks the body and the relations and decides.
LEMMA UpdateReadKeeps ==
  ASSUME ProductsInv, NEW q \in Requests, NEW p \in Products, NEW dto, IsBody(dto),
         UpdateRead(q, p, dto)
  PROVE  ProductsInv'
<1>1. CASE \E code : ProductRefusal(q, code)
  BY <1>1, RefusalKeeps
<1>2. CASE /\ products[p] # None /\ EditRefused(p, dto) = "ok"
           /\ SetProductJob(q, [pc |-> "checked", id |-> p, dto |-> dto, seen |-> products[p]])
           /\ UNCHANGED <<products, texts, descriptions>>
  <2> DEFINE j == [pc |-> "checked", id |-> p, dto |-> dto, seen |-> products[p]]
             row == Patched(products[p], dto.patch)
  <2>1. products[p] \in ProductRow
    BY <1>2 DEF ProductsInv
  <2>2. ~(row.min > row.max) /\ RelationRefused(dto.patch) = "ok"
    BY <1>2 DEF EditRefused
  <2>3. row \in ProductRow
    BY <2>1, <2>2, WrittenProduct, ProductColumns
  <2>4. row.min \in Nat /\ row.max \in Nat
    BY <2>3, ProductColumns, ProductsAssumption
  <2>5. JobFits(j, products)
    BY <1>2, <2>1, <2>2, <2>4 DEF JobFits
  <2> HIDE DEF j
  <2>6. SetProductJob(q, j) /\ UNCHANGED <<products, texts, descriptions>>
    BY <1>2 DEF j
  <2>7. DOMAIN productJobs' = Requests /\ \A r \in Requests : JobFits(productJobs[r], products)'
    BY <2>5, <2>6, JobsStayFit
  <2> QED
    BY <2>6, <2>7 DEF ProductsInv
<1> QED
  BY <1>1, <1>2 DEF UpdateRead

\* The second half writes what the first half decided over the row as it is by now.
LEMMA UpdateCommitKeeps ==
  ASSUME ProductsInv, NEW q \in Requests, UpdateCommit(q)
  PROVE  ProductsInv'
<1> DEFINE job == productJobs[q]
<1>1. /\ job.id \in Products /\ products[job.id] # None
      /\ IsBody(job.dto) /\ RelationRefused(job.dto.patch) = "ok"
  BY DEF UpdateCommit, ProductsInv, JobFits
<1>2. CASE ProductRefusal(q, "SLUG_TAKEN")
  BY <1>2, RefusalKeeps
<1>3. CASE /\ ~SlugTaken(texts, job.id, job.dto.texts)
           /\ products' = [products EXCEPT ![job.id] = Patched(products[job.id], job.dto.patch)]
           /\ texts' = [texts EXCEPT ![job.id] = Translated(texts[job.id], job.dto.texts)]
           /\ descriptions' =
                [descriptions EXCEPT ![job.id] =
                   Patched(descriptions[job.id], job.dto.descriptions)]
           /\ SetProductJob(q, ProductAnswer("ok"))
  <2>1. products[job.id] \in ProductRow
    BY <1>1 DEF ProductsInv
  <2>2. Patched(products[job.id], job.dto.patch) \in ProductRow
    BY <1>1, <2>1, WrittenProduct, ProductColumns
  <2>3. job.dto.texts \in Seq(Entries(Texts)) /\ IsNotes(job.dto.descriptions)
    BY <1>1 DEF IsBody, Entries, IsNotes
  <2> HIDE DEF job
  <2> QED
    BY <1>1, <1>3, <2>2, <2>3, WriteKeepsProducts
<1> QED
  BY <1>2, <1>3 DEF UpdateCommit

\* The delete of a product leaves the row and clears its active flag.
LEMMA SoftDeleteKeeps ==
  ASSUME ProductsInv, NEW q \in Requests, NEW p \in Products, SoftDelete(q, p)
  PROVE  ProductsInv'
<1>1. CASE ProductRefusal(q, "PRODUCT_NOT_FOUND")
  BY <1>1, RefusalKeeps
<1>2. CASE /\ products[p] # None /\ products' = [products EXCEPT ![p].active = FALSE]
           /\ SetProductJob(q, ProductAnswer("ok")) /\ UNCHANGED <<texts, descriptions>>
  <2>1. products[p] \in ProductRow /\ [products[p] EXCEPT !.active = FALSE] \in ProductRow
    BY <1>2 DEF ProductsInv, ProductRow
  <2>2. products' \in [Products -> ProductRow \cup {None}] /\ products'[p] # None
        /\ \A o \in Products \ {p} : products'[o] = products[o]
    BY <1>2, <2>1, NoProductAssumption DEF ProductsInv
  <2>3. TextsOf(Products, Texts, products, texts)'
    BY <1>2, <2>2 DEF TextsOf, ProductsInv
  <2>4. DOMAIN productJobs' = Requests /\ \A r \in Requests : JobFits(productJobs[r], products)'
    BY <1>2, <2>2, JobsStayFit, AnswerFits
  <2>5. Described(descriptions, products)'
    BY <1>2, <2>2 DEF Described, ProductsInv
  <2> QED
    BY <2>2, <2>3, <2>4, <2>5 DEF ProductsInv
<1> QED
  BY <1>1, <1>2 DEF SoftDelete

\* A page of the products that exist ends before their number.
LEMMA PageOfExisting ==
  ASSUME NEW S, S \subseteq Products, NEW page \in Nat \ {0}, NEW size \in Nat,
         PageOf(S, page, size) # {}
  PROVE  /\ (page - 1) * size + Cardinality(PageOf(S, page, size)) \in Int
         /\ (page - 1) * size + Cardinality(PageOf(S, page, size)) <= Cardinality(S)
<1> DEFINE key == [p \in Products |-> -p]
           n == (page - 1) * size
<1>0. /\ IsFiniteSet(S)
      /\ \A p \in S : p \in Nat /\ key[p] = -p
  BY FS_Subset, ProductsAssumption
<1> HIDE DEF key
<1>1. Keyed(S, key)
  <2>1. \A p, o \in S : key[p] = key[o] => p = o
    BY <1>0
  <2> QED
    BY <1>0, <2>1 DEF Keyed
<1>2. \A p \in S : {o \in S : o >= p} = {o \in S : key[o] <= key[p]}
  BY <1>0
<1>3. n \in Nat /\ page * size = n + size
  OBVIOUS
<1>4. PageOf(S, page, size) = AtPlaces(S, key, n + 1 .. n + size)
  <2>1. (page - 1) * size + 1 .. page * size = n + 1 .. n + size
    BY <1>3
  <2>2. \A p \in S : Cardinality({o \in S : o >= p}) = Place(S, key, p)
    BY <1>2 DEF Place
  <2> HIDE DEF n
  <2> QED
    BY <2>1, <2>2 DEF PageOf, AtPlaces
<1>5. Cardinality(PageOf(S, page, size)) \in Nat
  <2>1. PageOf(S, page, size) \subseteq S /\ IsFiniteSet(S)
    BY <1>1 DEF PageOf, Keyed
  <2> QED
    BY <2>1, FS_Subset, FS_CardinalityType
<1> HIDE DEF n
<1>6. n + Cardinality(PageOf(S, page, size)) <= Cardinality(S)
  BY <1>1, <1>3, <1>4, PageWithin
<1> QED
  BY <1>3, <1>5, <1>6 DEF n

\* findMany reads a page of the rows that match.
LEMMA ListRowsKeeps ==
  ASSUME ProductsInv, NEW q \in Requests, NEW page \in Pages, NEW size \in PageSizes,
         NEW searching \in BOOLEAN, ListRows(q, page, size, searching)
  PROVE  ProductsInv'
<1> DEFINE items == PageOf(Listed(searching), page, size)
           j == [pc |-> "listed", page |-> page, size |-> size, searching |-> searching,
                 items |-> items]
<1>1. SetProductJob(q, j) /\ UNCHANGED <<products, texts, descriptions>>
  BY DEF ListRows
<1>2. ~searching => Listed(searching) = Existing(products)
  BY DEF Listed, Existing
<1>3. page \in Nat \ {0} /\ size \in Nat
  BY ProductsAssumption
<1>4. JobFits(j, products)
  <2> SUFFICES ASSUME ~searching, items # {}
               PROVE  /\ (page - 1) * size + Cardinality(items) \in Int
                      /\ (page - 1) * size + Cardinality(items) <= Cardinality(Existing(products))
    BY DEF JobFits, Reached
  <2>1. items = PageOf(Existing(products), page, size)
    BY <1>2
  <2>2. Existing(products) \subseteq Products
    BY DEF Existing
  <2> QED
    BY <1>3, <2>1, <2>2, PageOfExisting
<1> HIDE DEF j
<1>5. DOMAIN productJobs' = Requests /\ \A r \in Requests : JobFits(productJobs[r], products)'
  BY <1>1, <1>4, JobsStayFit
<1> QED
  BY <1>1, <1>5 DEF ProductsInv

\* count reads after the rows: the two may see different tables.
LEMMA ListCountKeeps ==
  ASSUME ProductsInv, NEW q \in Requests, ListCount(q)
  PROVE  ProductsInv'
<1> DEFINE job == productJobs[q]
           j == [pc |-> "counted", page |-> job.page, size |-> job.size,
                 searching |-> job.searching, items |-> job.items,
                 total |-> Cardinality(Listed(job.searching))]
<1>1. /\ SetProductJob(q, j) /\ job.pc = "listed"
      /\ products' = products /\ texts' = texts /\ descriptions' = descriptions
  BY Zenon DEF ListCount
<1>2. JobFits(job, products)
  BY DEF ProductsInv
<1>3. Listed(FALSE) = Existing(products)
  BY DEF Listed, Existing
<1>4. JobFits(j, products)
  <2> SUFFICES ASSUME ~job.searching, job.items # {}
               PROVE  /\ Reached(job) \in Int
                      /\ Reached(job) <= Cardinality(Listed(job.searching))
    BY DEF JobFits, Reached
  <2>1. Listed(job.searching) = Existing(products)
    BY <1>3 DEF Listed
  <2> QED
    BY <1>1, <1>2, <2>1 DEF JobFits
<1> HIDE DEF j
<1>5. DOMAIN productJobs' = Requests /\ \A r \in Requests : JobFits(productJobs[r], products)'
  BY <1>1, <1>4, JobsStayFit
<1> QED
  BY <1>1, <1>5 DEF ProductsInv

\* Every step of the products keeps the invariant.
LEMMA ProductsStep ==
  ASSUME ProductsInv, [ProductsNext]_productVars
  PROVE  ProductsInv'
<1>1. CASE UNCHANGED productVars
  BY <1>1 DEF productVars, ProductsInv
<1>2. ASSUME NEW q \in Requests, NEW p \in Products, NEW dto \in NewForms,
             CreateProduct(q, p, dto)
      PROVE  ProductsInv'
  BY <1>2, CreateKeeps, ProductBodyAssumption
<1>3. ASSUME NEW q \in Requests, NEW p \in Products, NEW dto \in EditForms,
             UpdateRead(q, p, dto)
      PROVE  ProductsInv'
  BY <1>3, UpdateReadKeeps, ProductBodyAssumption
<1> QED
  BY <1>1, <1>2, <1>3, UpdateCommitKeeps, SoftDeleteKeeps, ListRowsKeeps, ListCountKeeps
  DEF ProductsNext

\* The empty table with no request.
LEMMA ProductsInitial == ProductsInit => ProductsInv
<1> SUFFICES ASSUME ProductsInit
             PROVE  ProductsInv
  OBVIOUS
<1>1. \A q \in Requests : JobFits(productJobs[q], products)
  BY DEF ProductsInit, JobFits, ProductIdle
<1>2. TextsOf(Products, Texts, products, texts)
  BY DEF ProductsInit, TextsOf
<1>3. Described(descriptions, products)
  BY DEF ProductsInit, Described
<1> QED
  BY <1>1, <1>2, <1>3 DEF ProductsInit, ProductsInv

\* What the invariant says.
LEMMA ProductsInvGives == ProductsInv => ProductsTypeOK /\ SlugsUnique /\ ListTotalCovers
<1> SUFFICES ASSUME ProductsInv
             PROVE  ProductsTypeOK /\ SlugsUnique /\ ListTotalCovers
  OBVIOUS
<1>1. \A p \in Products :
        texts[p] \in [Locales -> IF products[p] = None THEN {None} ELSE Texts]
  BY DEF ProductsInv, TextsOf
<1>2. ProductsTypeOK
  BY <1>1 DEF ProductsInv, Described, ProductsTypeOK, JobFits
<1>3. SlugsUnique
  BY DEF ProductsInv, SlugsUnique, TextsOf
<1>4. ListTotalCovers
  <2>1. \A q \in Requests : JobFits(productJobs[q], products)
    BY DEF ProductsInv
  <2> QED
    BY <2>1 DEF ListTotalCovers, JobFits, Reached
<1> QED
  BY <1>2, <1>3, <1>4

\* What a step may do to age ranges and to columns.
RangeStep ==
  \A p \in Products :
     Ordered(products[p]) /\ ~Ordered(products'[p])
       => \E q \in Requests :
             /\ productJobs[q].pc = "checked" /\ productJobs[q].id = p
             /\ productJobs'[q] = ProductAnswer("ok")
             /\ \/ productJobs[q].seen.min # products[p].min
                \/ productJobs[q].seen.max # products[p].max

ColumnStep ==
  \A p \in Products : \A c \in DOMAIN Blank :
     products[p] # None /\ products'[p][c] # products[p][c]
       => \/ c = "active" /\ ~products'[p].active
          \/ \E q \in Requests :
                /\ productJobs[q].pc = "checked" /\ productJobs[q].id = p
                /\ productJobs'[q] = ProductAnswer("ok")
                /\ c \in DOMAIN productJobs[q].dto.patch

\* A step that leaves the table alone breaks no age range and writes no column.
LEMMA UntouchedProducts ==
  ASSUME UNCHANGED products
  PROVE  RangeStep /\ ColumnStep
BY DEF RangeStep, ColumnStep

\* A created row keeps its age range and belongs to no earlier row.
LEMMA CreateExplained ==
  ASSUME ProductsInv, NEW q \in Requests, NEW p \in Products, NEW dto, IsNewBody(dto),
         CreateProduct(q, p, dto)
  PROVE  RangeStep /\ ColumnStep
<1>1. CASE NewRefused(p, dto) = "ok" /\ Insert(q, p, dto)
  <2>1. /\ products[p] = None
        /\ products' = [products EXCEPT ![p] = Patched(Blank, dto.patch)]
    BY <1>1 DEF Insert
  <2>2. ~(dto.patch.min > dto.patch.max) /\ dto.patch.min \in Nat /\ dto.patch.max \in Nat
    <3>1. ~(dto.patch.min > dto.patch.max)
      BY <1>1 DEF NewRefused
    <3>2. dto.patch["min"] \in Ages /\ dto.patch["max"] \in Ages
      BY DEF IsNewBody, IsBody
    <3> QED
      BY <3>1, <3>2, ProductsAssumption
  <2>3. /\ Patched(Blank, dto.patch).min = dto.patch.min
        /\ Patched(Blank, dto.patch).max = dto.patch.max
    BY PatchedProduct, ProductColumns DEF IsNewBody
  <2>4. /\ products'[p] = Patched(Blank, dto.patch)
        /\ \A o \in Products \ {p} : products'[o] = products[o]
    BY <2>1 DEF ProductsInv
  <2>5. Ordered(products'[p])
    BY <2>2, <2>3, <2>4 DEF Ordered
  <2>6. RangeStep
    BY <2>4, <2>5 DEF RangeStep
  <2>7. ColumnStep
    BY <2>1, <2>4 DEF ColumnStep
  <2> QED
    BY <2>6, <2>7
<1>2. CASE ProductRefusal(q, NewRefused(p, dto))
  BY <1>2, UntouchedProducts DEF ProductRefusal
<1> QED
  BY <1>1, <1>2 DEF CreateProduct

\* A commit inverts a range only over ages it was not checked on, and writes
\* only the columns its body names.
LEMMA CommitExplained ==
  ASSUME ProductsInv, NEW q \in Requests, UpdateCommit(q)
  PROVE  RangeStep /\ ColumnStep
<1> DEFINE job == productJobs[q]
           p == job.id
           patch == job.dto.patch
<1>1. /\ job.pc = "checked" /\ p \in Products /\ products[p] # None
      /\ job.seen \in ProductRow
      /\ Patched(job.seen, patch).min <= Patched(job.seen, patch).max
  BY DEF UpdateCommit, ProductsInv, JobFits
<1>2. CASE ProductRefusal(q, "SLUG_TAKEN")
  BY <1>2, UntouchedProducts DEF ProductRefusal
<1>3. CASE /\ products' = [products EXCEPT ![p] = Patched(products[p], patch)]
           /\ SetProductJob(q, ProductAnswer("ok"))
  <2>1. /\ products'[p] = Patched(products[p], patch)
        /\ \A o \in Products \ {p} : products'[o] = products[o]
    BY <1>1, <1>3 DEF ProductsInv
  <2>2. productJobs'[q] = ProductAnswer("ok")
    BY <1>3 DEF SetProductJob, ProductsInv
  <2>3. DOMAIN products[p] = Columns /\ DOMAIN job.seen = Columns
    BY <1>1, ProductColumns DEF ProductsInv
  <2>4. job.seen.min = products[p].min /\ job.seen.max = products[p].max
          => Ordered(products'[p])
    BY <1>1, <2>1, <2>3, PatchedProduct DEF Ordered
  <2>5. RangeStep
    BY <1>1, <2>1, <2>2, <2>4 DEF RangeStep
  <2>6. \A c \in Columns : products'[p][c] # products[p][c] => c \in DOMAIN patch
    BY <2>1, <2>3, PatchedProduct
  <2>7. ColumnStep
    BY <1>1, <2>1, <2>2, <2>6, ProductColumns DEF ColumnStep
  <2> QED
    BY <2>5, <2>7
<1> QED
  BY <1>2, <1>3 DEF UpdateCommit

\* The delete changes the active column and no other.
LEMMA SoftDeleteExplained ==
  ASSUME ProductsInv, NEW q \in Requests, NEW p \in Products, SoftDelete(q, p)
  PROVE  RangeStep /\ ColumnStep
<1>1. CASE ProductRefusal(q, "PRODUCT_NOT_FOUND")
  BY <1>1, UntouchedProducts DEF ProductRefusal
<1>2. CASE products[p] # None /\ products' = [products EXCEPT ![p].active = FALSE]
  <2>1. products[p] \in ProductRow
    BY <1>2 DEF ProductsInv
  <2>2. /\ products'[p] = [products[p] EXCEPT !.active = FALSE]
        /\ \A o \in Products \ {p} : products'[o] = products[o]
    BY <1>2 DEF ProductsInv
  <2>3. DOMAIN products[p] = Columns
    BY <2>1, ProductColumns
  <2>4. /\ \A c \in Columns \ {"active"} : products'[p][c] = products[p][c]
        /\ ~products'[p].active
    BY <2>2, <2>3 DEF Columns
  <2>5. products'[p].min = products[p].min /\ products'[p].max = products[p].max
    BY <2>4 DEF Columns
  <2>6. RangeStep
    BY <1>2, <2>2, <2>5 DEF RangeStep, Ordered
  <2>7. ColumnStep
    BY <2>2, <2>4, ProductColumns DEF ColumnStep
  <2> QED
    BY <2>6, <2>7
<1> QED
  BY <1>1, <1>2 DEF SoftDelete

\* What any step of the products may do to the age range and to a column.
LEMMA ProductsExplained ==
  ASSUME ProductsInv, [ProductsNext]_productVars
  PROVE  RangeStep /\ ColumnStep
<1>1. CASE UNCHANGED productVars
  BY <1>1, UntouchedProducts DEF productVars
<1>2. ASSUME NEW q \in Requests, NEW p \in Products, NEW dto \in NewForms,
             CreateProduct(q, p, dto)
      PROVE  RangeStep /\ ColumnStep
  BY <1>2, CreateExplained, ProductBodyAssumption
<1>3. ASSUME NEW q \in Requests,
             \/ \E p \in Products, dto \in EditForms : UpdateRead(q, p, dto)
             \/ \E page \in Pages, size \in PageSizes, searching \in BOOLEAN :
                   ListRows(q, page, size, searching)
             \/ ListCount(q)
      PROVE  RangeStep /\ ColumnStep
  <2>1. UNCHANGED products
    BY <1>3 DEF UpdateRead, ListRows, ListCount, ProductRefusal
  <2> QED
    BY <2>1, UntouchedProducts
<1> QED
  BY <1>1, <1>2, <1>3, CommitExplained, SoftDeleteExplained DEF ProductsNext

\* The invariant of the products.
THEOREM ProductsInvCorrect == ProductsSpec => []ProductsInv
BY ProductsInitial, ProductsStep, PTL DEF ProductsSpec

\* While several requests overlap: an age range breaks only where its check was
\* stale, no update is lost to another, and a list's total covers its page.
THEOREM ProductsCorrect ==
  ProductsSpec => [](ProductsTypeOK /\ SlugsUnique /\ ListTotalCovers)
                    /\ RangeBreaksOnlyStale /\ NoLostUpdate
<1>1. ProductsInv /\ [ProductsNext]_productVars
        => [RangeStep]_productVars /\ [ColumnStep]_productVars
  BY ProductsExplained
<1>2. ProductsSpec => [][RangeStep]_productVars /\ [][ColumnStep]_productVars
  BY <1>1, ProductsInvCorrect, PTL DEF ProductsSpec
<1>3. ProductsSpec => RangeBreaksOnlyStale /\ NoLostUpdate
  BY <1>2 DEF RangeBreaksOnlyStale, NoLostUpdate, RangeStep, ColumnStep
<1> QED
  BY <1>3, ProductsInvCorrect, ProductsInvGives, PTL

-----------------------------------------------------------------------------
(* Console                                                                 *)

\* The texts of a form, and what they make of those stored.
LEMMA BuiltTexts ==
  ASSUME NEW text \in [Locales -> Texts \cup {None}], NEW old
  PROVE  /\ BuildTranslations(text) \in Seq(Entries(Texts))
         /\ \A l \in Locales : Translated(old, BuildTranslations(text))[l]
                                 = IF text[l] = None THEN old[l] ELSE text[l]
         /\ {BuildTranslations(text)[i].locale : i \in DOMAIN BuildTranslations(text)}
              = {l \in Locales : text[l] # None}
<1> DEFINE B == BuildTranslations(text)
           V == [locale |-> "vi", text |-> text["vi"]]
           N == [locale |-> "en", text |-> text["en"]]
<1>1. /\ "vi" \in Locales /\ "en" \in Locales /\ "vi" # "en"
      /\ \A l \in Locales : l = "vi" \/ l = "en"
  BY DEF Locales
<1>2. /\ V.locale = "vi" /\ V.text = text["vi"] /\ N.locale = "en" /\ N.text = text["en"]
      /\ text["vi"] # None => V \in Entries(Texts)
      /\ text["en"] # None => N \in Entries(Texts)
  BY <1>1 DEF Entries
<1>3. B = (IF text["vi"] = None THEN <<>> ELSE <<V>>) \o (IF text["en"] = None THEN <<>> ELSE <<N>>)
  BY DEF BuildTranslations, Filling
<1> HIDE DEF B, V, N
<1>4. /\ B \in Seq(Entries(Texts))
      /\ \A i \in DOMAIN B : B[i].text = text[B[i].locale]
      /\ (\E i \in DOMAIN B : B[i].locale = "vi") <=> text["vi"] # None
      /\ (\E i \in DOMAIN B : B[i].locale = "en") <=> text["en"] # None
  <2>1. CASE text["vi"] = None /\ text["en"] = None
    <3>1. B = <<>>
      BY <1>3, <2>1
    <3> QED
      BY <2>1, <3>1
  <2>2. CASE text["vi"] # None /\ text["en"] = None
    <3>1. B = <<V>>
      BY <1>3, <2>2
    <3> QED
      BY <1>1, <1>2, <2>2, <3>1
  <2>3. CASE text["vi"] = None /\ text["en"] # None
    <3>1. B = <<N>>
      BY <1>3, <2>3
    <3> QED
      BY <1>1, <1>2, <2>3, <3>1
  <2>4. CASE text["vi"] # None /\ text["en"] # None
    <3>1. B = <<V>> \o <<N>>
      BY <1>3, <2>4
    <3>2. <<V>> \in Seq(Entries(Texts)) /\ <<N>> \in Seq(Entries(Texts))
      BY <1>2, <2>4
    <3>3. /\ B \in Seq(Entries(Texts)) /\ DOMAIN B = 1 .. 2
          /\ B[1] = V /\ B[2] = N
      BY <3>1, <3>2
    <3> QED
      BY <1>1, <1>2, <2>4, <3>3
  <2> QED
    BY <2>1, <2>2, <2>3, <2>4
<1>5. {B[i].locale : i \in DOMAIN B} = {l \in Locales : text[l] # None}
  <2>1. \A i \in DOMAIN B : B[i].locale \in Locales
    <3>1. \A i \in DOMAIN B : B[i] \in Entries(Texts)
      BY <1>4
    <3> QED
      BY <3>1 DEF Entries
  <2>2. \A l \in Locales : (\E i \in DOMAIN B : B[i].locale = l) <=> text[l] # None
    BY <1>1, <1>4
  <2> QED
    BY <2>1, <2>2
<1>6. ASSUME NEW l \in Locales
      PROVE  Translated(old, B)[l] = IF text[l] = None THEN old[l] ELSE text[l]
  <2>1. (\E i \in DOMAIN B : B[i].locale = l) <=> text[l] # None
    BY <1>1, <1>4
  <2>2. CASE text[l] # None
    <3>1. PICK i \in DOMAIN B : B[i].locale = l /\ Translated(old, B)[l] = B[i].text
      BY <1>4, <2>1, <2>2, TranslatedText
    <3> QED
      BY <1>4, <2>2, <3>1
  <2>3. CASE text[l] = None
    BY <1>4, <2>1, <2>3, TranslatedText
  <2> QED
    BY <2>2, <2>3
<1> QED
  BY <1>4, <1>5, <1>6 DEF B

FormFits(f) ==
  /\ DOMAIN f = {"row", "text", "description"}
  /\ DOMAIN f.row = Columns
  /\ f.row.category \in Categories \cup {Unknown} /\ f.row.brand \in Brands \cup {None}
  /\ f.row.min \in Ages /\ f.row.max \in Ages
  /\ f.text \in [Locales -> Texts \cup {None}]
  /\ f.description \in [Locales -> Descriptions \cup {None}]

\* The form of a product that does not exist yet shows nothing of a row.
LEMMA NewFormFits == FormFits(NewForm)
BY ChangeAssumption DEF FormFits, NewForm, Blank, Columns

\* A form filled in is one still.
LEMMA FilledFits ==
  ASSUME NEW f, FormFits(f), NEW change \in Changes
  PROVE  FormFits(Filled(f, change))
<1> DEFINE row == Patched(f.row, change.row)
           text == Patched(f.text, change.text)
           description == Patched(f.description, change.description)
<1>1. /\ DOMAIN row = Columns
      /\ \A c \in Columns : row[c] = IF c \in DOMAIN change.row THEN change.row[c] ELSE f.row[c]
  BY PatchedProduct DEF FormFits
<1>2. /\ "category" \in DOMAIN change.row => change.row["category"] \in Categories
      /\ "brand" \in DOMAIN change.row => change.row["brand"] \in Brands \cup {None}
      /\ "min" \in DOMAIN change.row => change.row["min"] \in Ages
      /\ "max" \in DOMAIN change.row => change.row["max"] \in Ages
  BY ChangeAssumption
<1>3. /\ row.category \in Categories \cup {Unknown} /\ row.brand \in Brands \cup {None}
      /\ row.min \in Ages /\ row.max \in Ages
  BY <1>1, <1>2 DEF FormFits, Columns
<1>4. /\ text \in [Locales -> Texts \cup {None}]
      /\ description \in [Locales -> Descriptions \cup {None}]
  BY ChangeAssumption DEF FormFits, Patched
<1>5. Filled(f, change) = [row |-> row, text |-> text, description |-> description]
  BY DEF Filled
<1> HIDE DEF row, text, description
<1> QED
  BY <1>1, <1>3, <1>4, <1>5 DEF FormFits

\* What the form sends is a body, with its ages.
LEMMA ParsedBody ==
  ASSUME NEW f, FormFits(f), f.row.category # Unknown
  PROVE  /\ IsNewBody(ParseProductFields(f))
         /\ RelationRefused(ParseProductFields(f).patch) = "ok"
         /\ DOMAIN ParseProductFields(f).patch
              = {"category", "min", "max"} \cup (IF f.row.brand = None THEN {} ELSE {"brand"})
         /\ \A c \in DOMAIN ParseProductFields(f).patch :
              ParseProductFields(f).patch[c] = f.row[c]
         /\ ParseProductFields(f).texts = BuildTranslations(f.text)
<1> DEFINE patch == ParseProductFields(f).patch
           notes == ParseProductFields(f).descriptions
<1>1. /\ DOMAIN patch = {"category", "min", "max"}
                          \cup (IF f.row.brand = None THEN {} ELSE {"brand"})
      /\ \A c \in DOMAIN patch : patch[c] = f.row[c]
      /\ ParseProductFields(f).texts = BuildTranslations(f.text)
      /\ notes = [l \in DescriptionsSent(f) |-> f.description[l]]
  BY DEF ParseProductFields
<1>2. /\ ParseProductFields(f).texts \in Seq([locale : Locales, text : Texts])
      /\ DescriptionsSent(f) \subseteq
           {ParseProductFields(f).texts[i].locale : i \in DOMAIN ParseProductFields(f).texts}
  <2>1. f.text \in [Locales -> Texts \cup {None}]
    BY DEF FormFits
  <2>2. /\ BuildTranslations(f.text) \in Seq([locale : Locales, text : Texts])
        /\ {BuildTranslations(f.text)[i].locale : i \in DOMAIN BuildTranslations(f.text)}
             = {l \in Locales : f.text[l] # None}
    BY <2>1, BuiltTexts DEF Entries
  <2>3. DescriptionsSent(f) \subseteq {l \in Locales : f.text[l] # None}
    BY DEF DescriptionsSent
  <2> QED
    BY <1>1, <2>2, <2>3
<1> HIDE DEF patch, notes
<1>3. /\ DOMAIN patch \subseteq DOMAIN Blank
      /\ {"category", "min", "max"} \subseteq DOMAIN patch
      /\ patch["min"] \in Ages /\ patch["max"] \in Ages /\ "active" \notin DOMAIN patch
  BY <1>1, ProductColumns DEF FormFits, Columns
<1>4. RelationRefused(patch) = "ok"
  BY <1>1 DEF RelationRefused, FormFits
<1>5. /\ DOMAIN notes = DescriptionsSent(f)
      /\ \A l \in DOMAIN notes : notes[l] \in Descriptions \cup {None}
  BY <1>1 DEF FormFits, DescriptionsSent
<1>6. IsNewBody(ParseProductFields(f))
  BY <1>2, <1>3, <1>5 DEF IsNewBody, IsBody, patch, notes
<1> QED
  BY <1>1, <1>4, <1>6 DEF patch, notes

\* The descriptions it sends.
LEMMA ParsedNotes ==
  ASSUME NEW f
  PROVE  ParseProductFields(f).descriptions = [l \in DescriptionsSent(f) |-> f.description[l]]
BY DEF ParseProductFields

ConsolePages == {"home", "products", "new", "product", "accounts", "login", "notFound"}
Notices == {"", "errForbidden", "errUnknown", "errSlugTaken", "errAgeRange", "errBothLocales"}
Codes == {"ok", "PRODUCT_NOT_FOUND", "SLUG_TAKEN", "AGE_RANGE_INVALID", "BOTH_LOCALES_REQUIRED"}

\* What a refusal the console meets becomes.
LEMMA ConsoleNotice ==
  /\ DOMAIN PageRoles \cup {"login", "notFound"} = ConsolePages
  /\ \A code \in Codes \cup {"FORBIDDEN", "UNAUTHORIZED", "lost"} :
       MapError(code, "errUnknown") \in Notices
<1>1. DOMAIN PageRoles \cup {"login", "notFound"} = ConsolePages
  BY DEF PageRoles, ConsolePages
<1>2. /\ "SLUG_TAKEN" \in DOMAIN ErrorKeys /\ ErrorKeys["SLUG_TAKEN"] = "errSlugTaken"
      /\ "AGE_RANGE_INVALID" \in DOMAIN ErrorKeys
      /\ ErrorKeys["AGE_RANGE_INVALID"] = "errAgeRange"
      /\ "BOTH_LOCALES_REQUIRED" \in DOMAIN ErrorKeys
      /\ ErrorKeys["BOTH_LOCALES_REQUIRED"] = "errBothLocales"
      /\ "ok" \notin DOMAIN ErrorKeys /\ "PRODUCT_NOT_FOUND" \notin DOMAIN ErrorKeys
      /\ "UNAUTHORIZED" \notin DOMAIN ErrorKeys
  BY DEF ErrorKeys
<1> QED
  BY <1>1, <1>2 DEF MapError, Notices, Codes

DeskFields == {"page", "id", "form", "sent", "notice"}

\* What a desk shows is there.
DeskFits(d, table) ==
  /\ DOMAIN d = DeskFields
  /\ d.page \in ConsolePages /\ d.notice \in Notices
  /\ FormFits(d.form)
  /\ d.page = "product" =>
       d.id \in Products /\ table[d.id] # None /\ d.form.row \in ProductRow

\* A desk whose form goes on with other texts fits still.
LEMMA HeldFits ==
  ASSUME NEW d, NEW table, DeskFits(d, table), NEW e, DOMAIN e = DeskFields,
         e.page = d.page, e.notice \in Notices, e.page = "product" => e.id = d.id,
         NEW text \in [Locales -> Texts \cup {None}], e.form = [d.form EXCEPT !.text = text]
  PROVE  DeskFits(e, table)
<1>1. /\ DOMAIN d.form = {"row", "text", "description"} /\ FormFits(d.form)
      /\ d.page \in ConsolePages
      /\ d.page = "product" =>
           d.id \in Products /\ table[d.id] # None /\ d.form.row \in ProductRow
  BY DEF DeskFits, FormFits
<1>2. /\ DOMAIN e.form = {"row", "text", "description"} /\ e.form.text = text
      /\ e.form.row = d.form.row /\ e.form.description = d.form.description
  BY <1>1
<1>3. FormFits(e.form)
  BY <1>1, <1>2 DEF FormFits
<1> QED
  BY <1>1, <1>2, <1>3 DEF DeskFits

\* The update a desk waits for is the one it sent, and its ages are in order.
JobOfDesk(j, d, table) ==
  /\ j.pc \in {"idle", "done", "checked"}
  /\ j.pc = "done" =>
       /\ j.code \in Codes
       /\ j.code = "ok" => d.id \in Products /\ table[d.id] # None
  /\ j.pc = "checked" =>
       /\ d.page = "product" /\ j.id = d.id
       /\ FormFits(d.sent) /\ d.sent.row.category # Unknown
       /\ j.dto = ParseProductFields(d.sent)
       /\ d.sent.row.min <= d.sent.row.max

ConsoleInv ==
  /\ ProductsInv
  /\ DOMAIN desks = Requests
  /\ \A q \in Requests :
       DeskFits(desks[q], products) /\ JobOfDesk(productJobs[q], desks[q], products)
  /\ ConsoleKeepsRange

\* A step changes one desk and its handler.
LEMMA DesksStayFit ==
  ASSUME ConsoleInv, NEW q \in Requests, NEW d, NEW j,
         DOMAIN desks' = Requests,
         \A r \in Requests : desks'[r] = IF r = q THEN d ELSE desks[r],
         \A r \in Requests : productJobs'[r] = IF r = q THEN j ELSE productJobs[r],
         \A p \in Products : products[p] # None => products'[p] # None,
         DeskFits(d, products'), JobOfDesk(j, d, products')
  PROVE  /\ DOMAIN desks' = Requests
         /\ \A r \in Requests : /\ DeskFits(desks[r], products)'
                                /\ JobOfDesk(productJobs[r], desks[r], products)'
<1>1. ASSUME NEW r \in Requests, r # q
      PROVE  DeskFits(desks[r], products') /\ JobOfDesk(productJobs[r], desks[r], products')
  <2>1. DeskFits(desks[r], products) /\ JobOfDesk(productJobs[r], desks[r], products)
    BY DEF ConsoleInv
  <2>2. DeskFits(desks[r], products')
    BY <2>1 DEF DeskFits
  <2>3. JobOfDesk(productJobs[r], desks[r], products')
    BY <2>1 DEF JobOfDesk
  <2> QED
    BY <2>2, <2>3
<1> QED
  BY <1>1

\* A page as it is rendered fits.
LEMMA RenderedFits ==
  ASSUME NEW page \in {"home", "new", "product"}, NEW id, NEW form, FormFits(form),
         page = "product" => /\ id \in Products
                             /\ products[id] # None => form.row \in ProductRow
  PROVE  DeskFits(Desk(page, id, form), products)
<1> DEFINE what == IF RequireStaff(page) = "product" /\ products[id] = None
                    THEN "notFound" ELSE RequireStaff(page)
<1>1. RequireStaff(page) \in {"login", "notFound", page}
  BY DEF RequireStaff
<1>2. /\ Desk(page, id, form).page = what
      /\ Desk(page, id, form).id = IF what = "product" THEN id ELSE 0
      /\ Desk(page, id, form).form = IF what \in {"new", "product"} THEN form ELSE NewForm
      /\ Desk(page, id, form).notice = ""
      /\ DOMAIN Desk(page, id, form) = DeskFields
  BY DEF Desk, DeskFields
<1>3. /\ what \in {"login", "notFound", page}
      /\ what = "product" => page = "product" /\ products[id] # None
  BY <1>1
<1> HIDE DEF what
<1> QED
  BY <1>2, <1>3, NewFormFits DEF DeskFits, ConsolePages, Notices

\* The form of a product that exists.
LEMMA FormOfFits ==
  ASSUME ProductsInv, NEW p \in Products, products[p] # None
  PROVE  FormFits(FormOf(p)) /\ FormOf(p).row \in ProductRow
<1>1. products[p] \in ProductRow
  BY DEF ProductsInv
<1>2. /\ texts[p] \in [Locales -> Texts \cup {None}]
      /\ descriptions[p] \in [Locales -> Descriptions \cup {None}]
  BY DEF ProductsInv, TextsOf, Described
<1>3. DOMAIN products[p] = Columns
  BY <1>1, ProductColumns
<1> QED
  BY <1>1, <1>2, <1>3 DEF FormFits, FormOf, ProductRow

\* Desk does not look at the form of what does not exist.
LEMMA DeskOfNone ==
  ASSUME NEW p, products[p] = None, NEW form
  PROVE  Desk("product", p, form) = Desk("product", p, NewForm)
<1>1. RequireStaff("product") \in {"login", "notFound", "product"}
  BY DEF RequireStaff
<1> QED
  BY <1>1 DEF Desk

\* A form filled from a product shows that product's row.
LEMMA ProductDeskFits ==
  ASSUME ProductsInv, NEW p \in Products
  PROVE  DeskFits(Desk("product", p, FormOf(p)), products)
<1>1. CASE products[p] # None
  BY <1>1, FormOfFits, RenderedFits
<1>2. CASE products[p] = None
  <2>1. DeskFits(Desk("product", p, NewForm), products)
    BY <1>2, NewFormFits, RenderedFits
  <2> QED
    BY <1>2, <2>1, DeskOfNone
<1> QED
  BY <1>1, <1>2

\* A step that leaves the products and their handlers alone.
LEMMA DeskOnlyStep ==
  ASSUME ConsoleInv, NEW q \in Requests, NEW d,
         UNCHANGED <<products, texts, descriptions, productJobs>>,
         desks' = [desks EXCEPT ![q] = d], DeskFits(d, products),
         JobOfDesk(productJobs[q], d, products)
  PROVE  ConsoleInv'
<1>1. /\ DOMAIN desks' = Requests
      /\ \A r \in Requests : desks'[r] = IF r = q THEN d ELSE desks[r]
      /\ \A r \in Requests : productJobs'[r] = IF r = q THEN productJobs[q] ELSE productJobs[r]
  BY DEF ConsoleInv
<1>2. ProductsInv'
  BY DEF ConsoleInv, ProductsInv
<1>3. ConsoleKeepsRange'
  BY DEF ConsoleInv, ConsoleKeepsRange
<1>4. /\ DOMAIN desks' = Requests
      /\ \A r \in Requests : /\ DeskFits(desks[r], products)'
                             /\ JobOfDesk(productJobs[r], desks[r], products)'
  BY <1>1, DesksStayFit
<1> QED
  BY <1>2, <1>3, <1>4 DEF ConsoleInv

\* A form with no request in flight is no claim on the products.
LEMMA IdleOfDesk ==
  ASSUME NEW j, j = ProductIdle, NEW d, NEW table
  PROVE  JobOfDesk(j, d, table)
BY DEF JobOfDesk, ProductIdle

\* Opening a form, a new one or one of a stored product.
LEMMA OpenKeeps ==
  ASSUME ConsoleInv, NEW q \in Requests,
         OpenNew(q) \/ \E p \in NewIds : OpenProduct(q, p)
  PROVE  ConsoleInv'
<1> USE DEF Elsewhere
<1>1. CASE OpenNew(q)
  <2>1. DeskFits(Desk("new", 0, NewForm), products)
    BY NewFormFits, RenderedFits
  <2> QED
    BY <1>1, <2>1, DeskOnlyStep, IdleOfDesk DEF OpenNew
<1>2. ASSUME NEW p \in NewIds, OpenProduct(q, p)
      PROVE  ConsoleInv'
  <2>1. DeskFits(Desk("product", p, FormOf(p)), products)
    BY ProductDeskFits, ChangeAssumption DEF ConsoleInv
  <2> QED
    BY <1>2, <2>1, DeskOnlyStep, IdleOfDesk DEF OpenProduct
<1> QED
  BY <1>1, <1>2

\* A guard refuses the form's request.
LEMMA RefuseKeeps ==
  ASSUME ConsoleInv, NEW q \in Requests, productJobs[q] = ProductIdle,
         NEW form, FormFits(form),
         NEW code \in {"FORBIDDEN", "UNAUTHORIZED"}, Refuse(q, form, code)
  PROVE  ConsoleInv'
<1> DEFINE d == [desks[q] EXCEPT !.notice = MapError(code, "errUnknown"),
                                 !.form.text = form.text]
<1>1. DeskFits(desks[q], products)
  BY DEF ConsoleInv
<1>2. /\ DOMAIN d = DeskFields /\ d.notice = MapError(code, "errUnknown")
      /\ d.page = desks[q].page /\ d.id = desks[q].id
      /\ d.form = [desks[q].form EXCEPT !.text = form.text]
  BY <1>1 DEF DeskFits, DeskFields
<1>3. /\ desks' = [desks EXCEPT ![q] = d]
      /\ UNCHANGED <<products, texts, descriptions, productJobs>>
  BY DEF Refuse, Elsewhere
<1> HIDE DEF d
<1>4. DeskFits(d, products)
  BY <1>1, <1>2, ConsoleNotice, HeldFits DEF FormFits
<1> QED
  BY <1>3, <1>4, DeskOnlyStep, IdleOfDesk

\* Ranges stay in order but for a commit.
LEMMA RangeKept ==
  ASSUME ConsoleKeepsRange, RangeStep,
         \A q \in Requests : productJobs[q].pc = "checked" => productJobs'[q] # ProductAnswer("ok")
  PROVE  ConsoleKeepsRange'
BY DEF ConsoleKeepsRange, RangeStep

\* Whatever create answers is one of the codes the form has a text for.
LEMMA CreateAnswers ==
  ASSUME NEW p, NEW dto, RelationRefused(dto.patch) = "ok"
  PROVE  NewRefused(p, dto) \in Codes
BY DEF NewRefused, Codes

\* The form of a new product is sent: the product is created or refused.
LEMMA SubmitNewKeeps ==
  ASSUME ConsoleInv, NEW q \in Requests, NEW p \in NewIds, NEW change \in Changes,
         SubmitNew(q, p, change)
  PROVE  ConsoleInv' /\ RangeStep /\ ColumnStep
<1> DEFINE form == Filled(desks[q].form, change)
           dto == ParseProductFields(form)
           d == [desks[q] EXCEPT !.sent = form, !.form.text = form.text, !.id = p]
<1>1. /\ desks[q].page = "new" /\ productJobs[q] = ProductIdle
      /\ form.row.category # Unknown
  BY DEF SubmitNew, Submit
<1>2. /\ DeskFits(desks[q], products) /\ ProductsInv /\ ConsoleKeepsRange
      /\ FormFits(desks[q].form) /\ p \in Products
  BY <1>1, ChangeAssumption DEF ConsoleInv, DeskFits
<1>3. FormFits(form)
  BY <1>2, FilledFits
<1> HIDE DEF form
<1>4. IsNewBody(dto) /\ RelationRefused(dto.patch) = "ok"
  BY <1>1, <1>3, ParsedBody
<1> HIDE DEF dto
<1>5. CASE Gate(ProductRoles) # "ok" /\ Refuse(q, form, Gate(ProductRoles))
  <2>1. Gate(ProductRoles) \in {"FORBIDDEN", "UNAUTHORIZED"}
    BY <1>5 DEF Gate
  <2>2. UNCHANGED products
    BY <1>5 DEF Refuse, Elsewhere
  <2> QED
    BY <1>1, <1>3, <1>5, <2>1, <2>2, RefuseKeeps, UntouchedProducts
<1>6. CASE CreateProduct(q, p, dto) /\ desks' = [desks EXCEPT ![q] = d]
  <2>1. ProductsInv' /\ RangeStep /\ ColumnStep
    BY <1>2, <1>4, <1>6, CreateKeeps, CreateExplained
  <2>2. PICK code \in Codes : /\ SetProductJob(q, ProductAnswer(code))
                              /\ code = "ok" =>
                                    products' = [products EXCEPT ![p] = Patched(Blank, dto.patch)]
                              /\ code # "ok" => UNCHANGED products
    <3>1. "ok" \in Codes
      BY DEF Codes
    <3>2. CASE NewRefused(p, dto) = "ok" /\ Insert(q, p, dto)
      BY <3>1, <3>2 DEF Insert
    <3>3. CASE NewRefused(p, dto) # "ok" /\ ProductRefusal(q, NewRefused(p, dto))
      BY <1>4, <3>3, CreateAnswers DEF ProductRefusal
    <3> QED
      BY <1>6, <3>2, <3>3 DEF CreateProduct
  <2>3. /\ \A r \in Requests :
           productJobs'[r] = IF r = q THEN ProductAnswer(code) ELSE productJobs[r]
        /\ DOMAIN desks' = Requests
        /\ \A r \in Requests : desks'[r] = IF r = q THEN d ELSE desks[r]
    BY <1>6, <2>2 DEF SetProductJob, ConsoleInv, ProductsInv
  <2>4. /\ DOMAIN d = DeskFields /\ d.page = "new" /\ d.notice = desks[q].notice /\ d.id = p
        /\ d.form = [desks[q].form EXCEPT !.text = form.text]
    BY <1>1, <1>2 DEF DeskFits, DeskFields
  <2> HIDE DEF d
  <2>5. DeskFits(d, products')
    <3>1. DeskFits(desks[q], products')
      BY <1>1, <1>2 DEF DeskFits
    <3>2. /\ d.page = desks[q].page /\ d.page # "product" /\ d.notice \in Notices
          /\ form.text \in [Locales -> Texts \cup {None}]
      BY <1>1, <1>2, <1>3, <2>4 DEF DeskFits, FormFits
    <3> QED
      BY <2>4, <3>1, <3>2, HeldFits
  <2>6. code = "ok" => products'[p] # None
    <3>1. SUFFICES ASSUME code = "ok"
                   PROVE  products'[p] # None
      OBVIOUS
    <3>2. /\ products' = [products EXCEPT ![p] = Patched(Blank, dto.patch)]
          /\ Patched(Blank, dto.patch) \in ProductRow
      BY <1>4, <2>2, <3>1, WrittenProduct, ProductColumns DEF IsNewBody
    <3> QED
      BY <1>2, <3>2, NoProductAssumption DEF ProductsInv
  <2>7. JobOfDesk(ProductAnswer(code), d, products')
    BY <1>2, <2>2, <2>4, <2>6 DEF JobOfDesk, ProductAnswer
  <2>8. \A o \in Products : products[o] # None => products'[o] # None
    <3>1. \A o \in Products \ {p} : products'[o] = products[o]
      BY <1>2, <2>2 DEF ProductsInv
    <3> QED
      BY <2>2, <2>6, <3>1
  <2>9. /\ DOMAIN desks' = Requests
        /\ \A r \in Requests : /\ DeskFits(desks[r], products)'
                               /\ JobOfDesk(productJobs[r], desks[r], products)'
    BY <2>3, <2>5, <2>7, <2>8, DesksStayFit
  <2>10. ConsoleKeepsRange'
    <3>1. \A r \in Requests : productJobs[r].pc = "checked" => productJobs'[r] # ProductAnswer("ok")
      BY <1>1, <2>3 DEF ProductIdle, ProductAnswer
    <3> QED
      BY <1>2, <2>1, <3>1, RangeKept
  <2> QED
    BY <2>1, <2>9, <2>10 DEF ConsoleInv
<1> QED
  BY <1>5, <1>6 DEF SubmitNew, form, dto

\* The form of a stored product is sent: update reads the row.
LEMMA SaveKeeps ==
  ASSUME ConsoleInv, NEW q \in Requests, NEW change \in Changes, Save(q, change)
  PROVE  ConsoleInv' /\ RangeStep /\ ColumnStep
<1> DEFINE form == Filled(desks[q].form, change)
           dto == ParseProductFields(form)
           p == desks[q].id
           d == [desks[q] EXCEPT !.sent = form, !.form.text = form.text]
<1>1. /\ desks[q].page = "product" /\ productJobs[q] = ProductIdle
      /\ form.row.category # Unknown
  BY DEF Save, Submit
<1>2. /\ DeskFits(desks[q], products) /\ ProductsInv /\ ConsoleKeepsRange
      /\ FormFits(desks[q].form) /\ p \in Products /\ products[p] # None
  BY <1>1 DEF ConsoleInv, DeskFits
<1>3. FormFits(form)
  BY <1>2, FilledFits
<1>4. form.row.min \in Nat /\ form.row.max \in Nat
  BY <1>3, ProductsAssumption DEF FormFits
<1> HIDE DEF form
<1>5. /\ IsNewBody(dto) /\ IsBody(dto) /\ RelationRefused(dto.patch) = "ok"
      /\ dto.patch["min"] = form.row.min /\ dto.patch["max"] = form.row.max
      /\ "min" \in DOMAIN dto.patch /\ "max" \in DOMAIN dto.patch
  BY <1>1, <1>3, ParsedBody DEF IsNewBody
<1> HIDE DEF dto
<1>6. CASE Gate(ProductRoles) # "ok" /\ Refuse(q, form, Gate(ProductRoles))
  <2>1. Gate(ProductRoles) \in {"FORBIDDEN", "UNAUTHORIZED"}
    BY <1>6 DEF Gate
  <2>2. UNCHANGED products
    BY <1>6 DEF Refuse, Elsewhere
  <2> QED
    BY <1>1, <1>3, <1>6, <2>1, <2>2, RefuseKeeps, UntouchedProducts
<1>7. CASE UpdateRead(q, p, dto) /\ desks' = [desks EXCEPT ![q] = d]
  <2>1. UNCHANGED <<products, texts>>
    BY <1>7 DEF UpdateRead, ProductRefusal
  <2>2. ProductsInv' /\ RangeStep /\ ColumnStep
    BY <1>2, <1>5, <1>7, <2>1, UpdateReadKeeps, UntouchedProducts
  <2>3. DOMAIN products[p] = Columns
    BY <1>2, ProductColumns DEF ProductsInv
  <2>4. PICK j : /\ SetProductJob(q, j)
                 /\ \/ j = ProductAnswer("AGE_RANGE_INVALID")
                    \/ /\ j = [pc |-> "checked", id |-> p, dto |-> dto, seen |-> products[p]]
                       /\ form.row.min <= form.row.max
    <3>1. EditRefused(p, dto) = IF form.row.min > form.row.max THEN "AGE_RANGE_INVALID" ELSE "ok"
      BY <1>5, <2>3, PatchedProduct DEF EditRefused
    <3>2. CASE EditRefused(p, dto) # "ok" /\ ProductRefusal(q, EditRefused(p, dto))
      BY <3>1, <3>2 DEF ProductRefusal
    <3>3. CASE /\ EditRefused(p, dto) = "ok"
               /\ SetProductJob(q, [pc |-> "checked", id |-> p, dto |-> dto,
                                    seen |-> products[p]])
      BY <1>4, <3>1, <3>3
    <3> QED
      BY <1>2, <1>7, <3>2, <3>3 DEF UpdateRead
  <2>5. /\ \A r \in Requests : productJobs'[r] = IF r = q THEN j ELSE productJobs[r]
        /\ DOMAIN desks' = Requests
        /\ \A r \in Requests : desks'[r] = IF r = q THEN d ELSE desks[r]
    BY <1>7, <2>4 DEF SetProductJob, ConsoleInv, ProductsInv
  <2>6. /\ DOMAIN d = DeskFields /\ d.page = "product"
        /\ d.form = [desks[q].form EXCEPT !.text = form.text]
        /\ d.notice = desks[q].notice /\ d.id = p /\ d.sent = form
    BY <1>1, <1>2 DEF DeskFits, DeskFields
  <2> HIDE DEF d
  <2>7. DeskFits(d, products')
    <3>1. DeskFits(desks[q], products')
      BY <1>2, <2>1
    <3>2. /\ d.page = desks[q].page /\ d.notice \in Notices
          /\ form.text \in [Locales -> Texts \cup {None}]
      BY <1>1, <1>2, <1>3, <2>6 DEF DeskFits, FormFits
    <3> QED
      BY <2>6, <3>1, <3>2, HeldFits
  <2>8. JobOfDesk(j, d, products')
    <3>1. CASE j = ProductAnswer("AGE_RANGE_INVALID")
      BY <3>1 DEF JobOfDesk, ProductAnswer, Codes
    <3>2. CASE /\ j = [pc |-> "checked", id |-> p, dto |-> dto, seen |-> products[p]]
               /\ form.row.min <= form.row.max
      <4>1. j.pc = "checked" /\ j.id = p /\ j.dto = dto
        BY <3>2
      <4> QED
        BY <1>1, <1>3, <2>6, <3>2, <4>1 DEF JobOfDesk, dto
    <3> QED
      BY <2>4, <3>1, <3>2
  <2>9. /\ DOMAIN desks' = Requests
        /\ \A r \in Requests : /\ DeskFits(desks[r], products)'
                               /\ JobOfDesk(productJobs[r], desks[r], products)'
    BY <2>1, <2>5, <2>7, <2>8, DesksStayFit
  <2>10. ConsoleKeepsRange'
    BY <1>2, <2>1 DEF ConsoleKeepsRange
  <2> QED
    BY <2>2, <2>9, <2>10 DEF ConsoleInv
<1> QED
  BY <1>6, <1>7 DEF Save, form, dto

\* update of the form's product writes the row.
LEMMA CommitKeeps ==
  ASSUME ConsoleInv, NEW q \in Requests, Commit(q)
  PROVE  ConsoleInv' /\ RangeStep /\ ColumnStep
<1> DEFINE job == productJobs[q]
           p == job.id
           d == desks[q]
<1>1. UpdateCommit(q) /\ UNCHANGED desks /\ ProductsInv /\ ConsoleKeepsRange
  BY DEF Commit, ConsoleInv
<1>2. ProductsInv' /\ RangeStep /\ ColumnStep
  BY <1>1, UpdateCommitKeeps, CommitExplained
<1>3. job.pc = "checked"
  BY <1>1 DEF UpdateCommit
<1>4. /\ DeskFits(d, products) /\ JobOfDesk(job, d, products)
      /\ p \in Products /\ products[p] # None /\ p = d.id
      /\ FormFits(d.sent) /\ d.sent.row.category # Unknown
      /\ job.dto = ParseProductFields(d.sent)
      /\ d.sent.row.min <= d.sent.row.max
  BY <1>3 DEF ConsoleInv, JobOfDesk, ProductsInv, JobFits
<1>5. PICK code \in {"ok", "SLUG_TAKEN"} :
        /\ SetProductJob(q, ProductAnswer(code))
        /\ code = "ok" => products' = [products EXCEPT ![p] = Patched(products[p], job.dto.patch)]
        /\ code # "ok" => UNCHANGED products
  BY <1>1 DEF UpdateCommit, ProductRefusal
<1>6. /\ \A r \in Requests : productJobs'[r] = IF r = q THEN ProductAnswer(code) ELSE productJobs[r]
      /\ DOMAIN desks' = Requests
      /\ \A r \in Requests : desks'[r] = IF r = q THEN d ELSE desks[r]
  BY <1>1, <1>5 DEF SetProductJob, ConsoleInv, ProductsInv
<1>7. code = "ok" => /\ products'[p].min = d.sent.row.min /\ products'[p].max = d.sent.row.max
                     /\ products'[p] # None
  <2>1. SUFFICES ASSUME code = "ok"
                 PROVE  /\ products'[p].min = d.sent.row.min /\ products'[p].max = d.sent.row.max
                        /\ products'[p] # None
    OBVIOUS
  <2>2. DOMAIN products[p] = Columns /\ products[p] \in ProductRow
    BY <1>1, <1>4, ProductColumns DEF ProductsInv
  <2>3. IsBody(job.dto) /\ RelationRefused(job.dto.patch) = "ok"
    BY <1>4, ParsedBody DEF IsNewBody
  <2>4. Patched(products[p], job.dto.patch) \in ProductRow
    BY <2>2, <2>3, WrittenProduct
  <2>5. products'[p] = Patched(products[p], job.dto.patch)
    BY <1>1, <1>4, <1>5, <2>1 DEF ProductsInv
  <2>6. /\ "min" \in DOMAIN job.dto.patch /\ "max" \in DOMAIN job.dto.patch
        /\ job.dto.patch["min"] = d.sent.row["min"] /\ job.dto.patch["max"] = d.sent.row["max"]
    BY <1>4, ParsedBody
  <2> QED
    BY <2>2, <2>4, <2>5, <2>6, PatchedProduct, NoProductAssumption
<1>8. \A o \in Products \ {p} : products'[o] = products[o]
  BY <1>1, <1>5 DEF ProductsInv
<1>9. \A o \in Products : products[o] # None => products'[o] # None
  BY <1>5, <1>7, <1>8
<1>10. DeskFits(d, products')
  BY <1>4, <1>9 DEF DeskFits
<1>11. JobOfDesk(ProductAnswer(code), d, products')
  BY <1>4, <1>5, <1>7 DEF JobOfDesk, ProductAnswer, Codes
<1>12. /\ DOMAIN desks' = Requests
       /\ \A r \in Requests : /\ DeskFits(desks[r], products)'
                              /\ JobOfDesk(productJobs[r], desks[r], products)'
  BY <1>6, <1>9, <1>10, <1>11, DesksStayFit
<1>13. ConsoleKeepsRange'
  BY <1>1, <1>4, <1>5, <1>7, <1>8 DEF ConsoleKeepsRange, Ordered
<1> QED
  BY <1>2, <1>12, <1>13 DEF ConsoleInv

\* The form's product is deleted.
LEMMA DeactivateKeeps ==
  ASSUME ConsoleInv, NEW q \in Requests, Deactivate(q)
  PROVE  ConsoleInv' /\ RangeStep /\ ColumnStep
<1> DEFINE d == desks[q]
           p == d.id
<1>1. /\ SoftDelete(q, p) /\ UNCHANGED desks /\ ProductsInv /\ ConsoleKeepsRange
      /\ d.page = "product" /\ productJobs[q] = ProductIdle
  BY DEF Deactivate, ConsoleInv
<1>2. DeskFits(d, products) /\ p \in Products /\ products[p] # None
  BY <1>1 DEF ConsoleInv, DeskFits
<1>3. ProductsInv' /\ RangeStep /\ ColumnStep
  BY <1>1, <1>2, SoftDeleteKeeps, SoftDeleteExplained
<1>4. SetProductJob(q, ProductAnswer("ok")) /\ products' = [products EXCEPT ![p].active = FALSE]
  BY <1>1, <1>2 DEF SoftDelete
<1>5. /\ \A r \in Requests : productJobs'[r] = IF r = q THEN ProductAnswer("ok") ELSE productJobs[r]
      /\ DOMAIN desks' = Requests
      /\ \A r \in Requests : desks'[r] = IF r = q THEN d ELSE desks[r]
  BY <1>1, <1>4 DEF SetProductJob, ConsoleInv, ProductsInv
<1>6. \A o \in Products : products[o] # None => products'[o] # None
  <2>1. [products[p] EXCEPT !.active = FALSE] \in ProductRow
    BY <1>1, <1>2 DEF ProductsInv, ProductRow
  <2> QED
    BY <1>1, <1>2, <1>4, <2>1, NoProductAssumption DEF ProductsInv
<1>7. DeskFits(d, products')
  BY <1>2, <1>6 DEF DeskFits
<1>8. JobOfDesk(ProductAnswer("ok"), d, products')
  BY <1>2, <1>6 DEF JobOfDesk, ProductAnswer, Codes
<1>9. /\ DOMAIN desks' = Requests
      /\ \A r \in Requests : /\ DeskFits(desks[r], products)'
                             /\ JobOfDesk(productJobs[r], desks[r], products)'
  BY <1>5, <1>6, <1>7, <1>8, DesksStayFit
<1>10. ConsoleKeepsRange'
  <2>1. \A r \in Requests : productJobs[r].pc = "checked" => productJobs'[r] # ProductAnswer("ok")
    BY <1>1, <1>5 DEF ProductIdle, ProductAnswer
  <2> QED
    BY <1>1, <1>3, <2>1, RangeKept
<1> QED
  BY <1>3, <1>9, <1>10 DEF ConsoleInv

\* The form hears the answer, or the answer is lost on the way.
LEMMA AnswerKeeps ==
  ASSUME ConsoleInv, NEW q \in Requests, Answer(q) \/ AnswerLost(q)
  PROVE  ConsoleInv' /\ RangeStep /\ ColumnStep
<1> DEFINE job == productJobs[q]
           old == desks[q]
<1>1. /\ SetProductJob(q, ProductIdle) /\ UNCHANGED <<products, texts, descriptions>>
      /\ job.pc = "done" /\ ProductsInv /\ ConsoleKeepsRange
      /\ DeskFits(old, products) /\ JobOfDesk(job, old, products)
  BY DEF Answer, AnswerLost, ConsoleInv
<1>2. RangeStep /\ ColumnStep
  BY <1>1, UntouchedProducts
<1>3. ProductsInv'
  <2>1. JobFits(ProductIdle, products')
    BY DEF JobFits, ProductIdle
  <2>2. DOMAIN productJobs' = Requests /\ \A r \in Requests : JobFits(productJobs[r], products)'
    BY <1>1, <2>1, JobsStayFit
  <2> QED
    BY <1>1, <2>2 DEF ProductsInv
<1>4. PICK d : DeskFits(d, products) /\ desks' = [desks EXCEPT ![q] = d]
  <2>1. /\ DOMAIN old = DeskFields /\ old.notice \in Notices
        /\ DOMAIN old.form = {"row", "text", "description"}
        /\ old.form.text \in [Locales -> Texts \cup {None}]
    BY <1>1 DEF DeskFits, FormFits
  <2>2. CASE Answer(q) /\ job.code = "ok"
    <3> DEFINE fresh == Desk("product", old.id, FormOf(old.id))
               kept == [fresh EXCEPT !.form.text = old.form.text,
                                     !.notice = IF old.sent = NewForm THEN old.notice ELSE ""]
    <3>1. desks' = [desks EXCEPT ![q] = Rerendered(old)]
      BY <2>2 DEF Answer, ConsoleInv
    <3>2. old.id \in Products
      BY <1>1, <2>2 DEF JobOfDesk
    <3>3. DeskFits(fresh, products)
      BY <1>1, <3>2, ProductDeskFits
    <3>4. Rerendered(old) = IF old.page = "product" /\ fresh.page = "product" THEN kept ELSE fresh
      BY DEF Rerendered
    <3> HIDE DEF fresh
    <3>5. /\ DOMAIN kept = DeskFields /\ kept.page = fresh.page /\ kept.id = fresh.id
          /\ kept.form = [fresh.form EXCEPT !.text = old.form.text]
          /\ kept.notice \in Notices
      BY <2>1, <3>3 DEF DeskFits, DeskFields, Notices
    <3> HIDE DEF kept
    <3>6. DeskFits(kept, products)
      BY <2>1, <3>3, <3>5, HeldFits
    <3> QED
      BY <3>1, <3>3, <3>4, <3>6
  <2>3. ASSUME NEW code \in Codes \cup {"lost"}, desks' = [desks EXCEPT ![q] = Noticed(old, code)]
        PROVE  \E d : DeskFits(d, products) /\ desks' = [desks EXCEPT ![q] = d]
    <3> DEFINE d == Noticed(old, code)
    <3>1. /\ DOMAIN d = DeskFields /\ d.page = old.page /\ d.id = old.id /\ d.form = old.form
          /\ d.notice \in {old.notice, MapError(code, "errUnknown")}
      BY <2>1 DEF Noticed, DeskFields
    <3> HIDE DEF d
    <3>2. d.notice \in Notices
      BY <2>1, <3>1, ConsoleNotice
    <3>3. DeskFits(d, products)
      BY <1>1, <3>1, <3>2 DEF DeskFits
    <3> QED
      BY <2>3, <3>3 DEF d
  <2>4. CASE Answer(q) /\ job.code # "ok"
    <3>1. job.code \in Codes /\ desks' = [desks EXCEPT ![q] = Noticed(old, job.code)]
      BY <1>1, <2>4 DEF Answer, JobOfDesk, ConsoleInv
    <3> QED
      BY <2>3, <3>1
  <2>5. CASE AnswerLost(q)
    <3>1. desks' = [desks EXCEPT ![q] = Noticed(old, "lost")]
      BY <2>5 DEF AnswerLost, ConsoleInv
    <3> QED
      BY <2>3, <3>1
  <2> QED
    BY <2>2, <2>4, <2>5
<1>5. /\ \A r \in Requests : productJobs'[r] = IF r = q THEN ProductIdle ELSE productJobs[r]
      /\ DOMAIN desks' = Requests
      /\ \A r \in Requests : desks'[r] = IF r = q THEN d ELSE desks[r]
  BY <1>1, <1>4 DEF SetProductJob, ConsoleInv, ProductsInv
<1>6. /\ DOMAIN desks' = Requests
      /\ \A r \in Requests : /\ DeskFits(desks[r], products)'
                             /\ JobOfDesk(productJobs[r], desks[r], products)'
  <2>1. JobOfDesk(ProductIdle, d, products')
    BY IdleOfDesk
  <2> QED
    BY <1>1, <1>4, <1>5, <2>1, DesksStayFit
<1>7. ConsoleKeepsRange'
  BY <1>1 DEF ConsoleKeepsRange
<1> QED
  BY <1>2, <1>3, <1>6, <1>7 DEF ConsoleInv

\* Who signs in changes no row and no desk.
LEMMA SignInKeeps ==
  ASSUME ConsoleInv, UNCHANGED <<desks, products, texts, descriptions, productJobs>>
  PROVE  ConsoleInv' /\ RangeStep /\ ColumnStep
<1>1. ProductsInv'
  BY DEF ConsoleInv, ProductsInv
<1>2. RangeStep /\ ColumnStep
  BY UntouchedProducts
<1> QED
  BY <1>1, <1>2 DEF ConsoleInv, ConsoleKeepsRange

\* Every step of the console keeps the invariant, and does to ranges and
\* columns what a step of the products may.
LEMMA ConsoleStep ==
  ASSUME ConsoleInv, [ConsoleNext]_consoleVars
  PROVE  ConsoleInv' /\ RangeStep /\ ColumnStep
<1>1. CASE UNCHANGED consoleVars
  BY <1>1, SignInKeeps DEF consoleVars
<1>2. ASSUME NEW q \in Requests, OpenNew(q) \/ \E p \in NewIds : OpenProduct(q, p)
      PROVE  ConsoleInv' /\ RangeStep /\ ColumnStep
  <2>1. UNCHANGED products
    BY <1>2 DEF OpenNew, OpenProduct, Elsewhere
  <2> QED
    BY <1>2, <2>1, OpenKeeps, UntouchedProducts
<1>3. ASSUME NEW role, ConsoleSignIn(role)
      PROVE  ConsoleInv' /\ RangeStep /\ ColumnStep
  BY <1>3, SignInKeeps DEF ConsoleSignIn
<1> QED
  BY <1>1, <1>2, <1>3, SubmitNewKeeps, SaveKeeps, CommitKeeps, DeactivateKeeps, AnswerKeeps
  DEF ConsoleNext

\* Closed forms over the products' first state.
LEMMA ConsoleInitial == ConsoleInit => ConsoleInv
<1> SUFFICES ASSUME ConsoleInit
             PROVE  ConsoleInv
  OBVIOUS
<1>1. ProductsInv /\ ConsoleKeepsRange
  BY ProductsInitial DEF ConsoleInit, ProductsInit, ConsoleKeepsRange, Ordered
<1>2. DeskFits(Desk("home", 0, NewForm), products)
  BY NewFormFits, RenderedFits
<1>3. \A q \in Requests : JobOfDesk(productJobs[q], desks[q], products)
  BY IdleOfDesk DEF ConsoleInit, ProductsInit
<1> QED
  BY <1>1, <1>2, <1>3 DEF ConsoleInit, ConsoleInv

\* A desk's page, notice and texts.
LEMMA ConsoleInvGives == ConsoleInv => ConsoleTypeOK
<1> SUFFICES ASSUME ConsoleInv, NEW q \in Requests
             PROVE  /\ desks[q].page \in DOMAIN PageRoles \cup {"login", "notFound"}
                    /\ desks[q].notice \in Notices
                    /\ desks[q].page = "product" => desks[q].form.row \in ProductRow
                    /\ FormFits(desks[q].form)
  BY DEF ConsoleTypeOK, FormFits, Notices
<1> QED
  BY ConsoleNotice DEF ConsoleInv, DeskFits

-----------------------------------------------------------------------------

\* What an accepted save has stored.
Stored(q) ==
  \A p \in {desks'[q].id}, sent \in {desks'[q].sent} :
     /\ \A c \in {"category", "brand", "min", "max"} :
           products'[p][c] =
             IF c = "brand" /\ sent.row[c] = None /\ products[p] # None
               THEN products[p][c] ELSE sent.row[c]
     /\ \A l \in Locales :
           /\ texts'[p][l] = IF sent.text[l] = None THEN texts[p][l] ELSE sent.text[l]
           /\ descriptions'[p][l] =
                IF None \in {sent.text[l], sent.description[l]}
                  THEN descriptions[p][l] ELSE sent.description[l]

AcceptedStep ==
  \A q \in Requests :
     /\ productJobs'[q] = ProductAnswer("ok")
     /\ \/ productJobs[q].pc = "checked" /\ desks[q].page = "product"
        \/ productJobs[q].pc = "idle" /\ desks[q].page = "new"
     => Stored(q)

\* A form written over a row: what it leaves out is a brand not chosen.
LEMMA FormWritten ==
  ASSUME NEW sent, FormFits(sent), sent.row.category # Unknown, NEW p \in Products,
         NEW old, DOMAIN old = Columns, old.brand = None \/ products[p] # None,
         products[p] = None \/ old = products[p],
         ProductsInv, NEW row, NEW text, NEW notes,
         row = products'[p], text = texts'[p], notes = descriptions'[p],
         row = Patched(old, ParseProductFields(sent).patch),
         text = Translated(texts[p], ParseProductFields(sent).texts),
         notes = Patched(descriptions[p], ParseProductFields(sent).descriptions)
  PROVE  /\ \A c \in {"category", "brand", "min", "max"} :
              row[c] = IF c = "brand" /\ sent.row[c] = None /\ products[p] # None
                         THEN products[p][c] ELSE sent.row[c]
         /\ \A l \in Locales :
              /\ text[l] = IF sent.text[l] = None THEN texts[p][l] ELSE sent.text[l]
              /\ notes[l] = IF None \in {sent.text[l], sent.description[l]}
                              THEN descriptions[p][l] ELSE sent.description[l]
<1> DEFINE patch == ParseProductFields(sent).patch
<1>1. /\ DOMAIN patch = {"category", "min", "max"}
                          \cup (IF sent.row.brand = None THEN {} ELSE {"brand"})
      /\ \A c \in DOMAIN patch : patch[c] = sent.row[c]
  BY ParsedBody
<1>2. text = Translated(texts[p], BuildTranslations(sent.text))
  BY ParsedBody
<1> HIDE DEF patch
<1>3. \A c \in Columns : row[c] = IF c \in DOMAIN patch THEN patch[c] ELSE old[c]
  BY PatchedProduct DEF patch
<1>4. \A c \in {"category", "min", "max"} : row[c] = sent.row[c]
  BY <1>1, <1>3 DEF Columns
<1>5. row["brand"] = IF sent.row["brand"] = None /\ products[p] # None
                       THEN products[p]["brand"] ELSE sent.row["brand"]
  <2>1. row["brand"] = IF sent.row["brand"] = None THEN old["brand"] ELSE sent.row["brand"]
    BY <1>1, <1>3 DEF Columns
  <2> QED
    BY <2>1
<1>6. \A l \in Locales :
        text[l] = IF sent.text[l] = None THEN texts[p][l] ELSE sent.text[l]
  BY <1>2, BuiltTexts DEF FormFits
<1>7. \A l \in Locales :
        notes[l] = IF None \in {sent.text[l], sent.description[l]}
                     THEN descriptions[p][l] ELSE sent.description[l]
  <2>1. notes = Patched(descriptions[p], [l \in DescriptionsSent(sent) |-> sent.description[l]])
    BY ParsedNotes
  <2>2. DOMAIN descriptions[p] = Locales
    BY DEF ProductsInv, Described
  <2>3. \A l \in Locales : l \in DescriptionsSent(sent)
                              <=> sent.text[l] # None /\ sent.description[l] # None
    BY DEF DescriptionsSent
  <2> QED
    BY <2>1, <2>2, <2>3 DEF Patched
<1> QED
  BY <1>4, <1>5, <1>6, <1>7

\* A create that answers ok has stored what the form sent.
LEMMA SubmitNewStored ==
  ASSUME ConsoleInv, NEW q \in Requests, NEW p \in NewIds, NEW change \in Changes,
         SubmitNew(q, p, change), productJobs'[q] = ProductAnswer("ok")
  PROVE  Stored(q)
<1> DEFINE form == Filled(desks[q].form, change)
           dto == ParseProductFields(form)
<1>1. /\ desks[q].page = "new" /\ productJobs[q] = ProductIdle
      /\ form.row.category # Unknown
  BY DEF SubmitNew, Submit
<1>2. /\ ProductsInv /\ FormFits(desks[q].form) /\ p \in Products
      /\ DOMAIN desks[q] = DeskFields
  BY <1>1, ChangeAssumption DEF ConsoleInv, DeskFits
<1>3. FormFits(form)
  BY <1>2, FilledFits
<1> HIDE DEF form
<1>4. /\ CreateProduct(q, p, dto)
      /\ desks' = [desks EXCEPT ![q].sent = form, ![q].form.text = form.text, ![q].id = p]
  <2>1. ~Refuse(q, form, Gate(ProductRoles))
    BY <1>1 DEF Refuse, Elsewhere, ProductIdle, ProductAnswer
  <2> QED
    BY <2>1 DEF SubmitNew, form
<1>5. desks'[q].sent = form /\ desks'[q].id = p
  BY <1>2, <1>4 DEF ConsoleInv, DeskFields
<1>6. Insert(q, p, dto)
  <2>1. SUFFICES ASSUME NewRefused(p, dto) # "ok", ProductRefusal(q, NewRefused(p, dto))
                 PROVE  FALSE
    BY <1>4 DEF CreateProduct
  <2> QED
    BY <1>2, <2>1 DEF ProductRefusal, SetProductJob, ProductAnswer, ProductsInv
<1>7. /\ products[p] = None /\ products'[p] = Patched(Blank, dto.patch)
      /\ texts'[p] = Translated(texts[p], dto.texts)
      /\ descriptions'[p] = Patched(descriptions[p], dto.descriptions)
  BY <1>2, <1>6 DEF Insert, ProductsInv, TextsOf, Described
<1>8. DOMAIN Blank = Columns /\ Blank.brand = None
  BY ProductColumns DEF Blank
<1> QED
  BY <1>1, <1>2, <1>3, <1>5, <1>7, <1>8, FormWritten DEF Stored

\* An update that answers ok has stored what the form sent.
LEMMA CommitStored ==
  ASSUME ConsoleInv, NEW q \in Requests, Commit(q), productJobs'[q] = ProductAnswer("ok")
  PROVE  Stored(q)
<1> DEFINE job == productJobs[q]
           p == job.id
           sent == desks[q].sent
<1>1. UpdateCommit(q) /\ UNCHANGED desks /\ ProductsInv /\ job.pc = "checked"
  BY DEF Commit, ConsoleInv, UpdateCommit
<1>2. /\ p \in Products /\ products[p] # None /\ p = desks[q].id
      /\ FormFits(sent) /\ sent.row.category # Unknown /\ job.dto = ParseProductFields(sent)
  BY <1>1 DEF ConsoleInv, JobOfDesk, ProductsInv, JobFits
<1>3. ~ProductRefusal(q, "SLUG_TAKEN")
  BY <1>1 DEF ProductRefusal, SetProductJob, ProductAnswer, ProductsInv
<1>4. /\ products' = [products EXCEPT ![p] = Patched(products[p], job.dto.patch)]
      /\ texts' = [texts EXCEPT ![p] = Translated(texts[p], job.dto.texts)]
      /\ descriptions' =
           [descriptions EXCEPT ![p] = Patched(descriptions[p], job.dto.descriptions)]
  BY <1>1, <1>3 DEF UpdateCommit
<1>5. /\ products'[p] = Patched(products[p], job.dto.patch)
      /\ texts'[p] = Translated(texts[p], job.dto.texts)
      /\ descriptions'[p] = Patched(descriptions[p], job.dto.descriptions)
  BY <1>1, <1>2, <1>4 DEF ProductsInv, TextsOf, Described
<1>6. DOMAIN products[p] = Columns
  BY <1>1, <1>2, ProductColumns DEF ProductsInv
<1>7. desks'[q].id = p /\ desks'[q].sent = sent
  BY <1>1, <1>2
<1> QED
  BY <1>1, <1>2, <1>5, <1>6, <1>7, FormWritten DEF Stored

\* No step of the console makes a job answer ok without the fields being stored.
LEMMA ConsoleStores ==
  ASSUME ConsoleInv, [ConsoleNext]_consoleVars
  PROVE  AcceptedStep
<1> SUFFICES ASSUME NEW q \in Requests, productJobs'[q] = ProductAnswer("ok"),
                    \/ productJobs[q].pc = "checked" /\ desks[q].page = "product"
                    \/ productJobs[q].pc = "idle" /\ desks[q].page = "new"
             PROVE  Stored(q)
  BY DEF AcceptedStep
<1>1. productJobs[q].pc # "done" /\ DOMAIN productJobs = Requests
  BY DEF ConsoleInv, ProductsInv
<1>2. /\ productJobs'[q] # productJobs[q] /\ productJobs'[q].pc = "done"
      /\ productJobs'[q] # ProductIdle
  BY <1>1 DEF ProductAnswer, ProductIdle
<1>3. ~UNCHANGED productJobs
  BY <1>2
<1>4. ASSUME NEW r \in Requests, r # q, NEW j, SetProductJob(r, j)
      PROVE  FALSE
  BY <1>1, <1>2, <1>4 DEF SetProductJob
<1>5. ~UNCHANGED consoleVars /\ (\A role : ~ConsoleSignIn(role))
  BY <1>3 DEF consoleVars, ConsoleSignIn
<1>6. PICK r \in Requests :
         \/ \E p \in NewIds : OpenProduct(r, p)
         \/ OpenNew(r)
         \/ \E change \in Changes : Save(r, change) \/ \E p \in NewIds : SubmitNew(r, p, change)
         \/ Commit(r) \/ Deactivate(r) \/ Answer(r) \/ AnswerLost(r)
  BY <1>5 DEF ConsoleNext
<1>7. CASE OpenNew(r) \/ \E p \in NewIds : OpenProduct(r, p)
  BY <1>3, <1>7 DEF OpenNew, OpenProduct, Elsewhere
<1>8. CASE Answer(r) \/ AnswerLost(r)
  BY <1>1, <1>2, <1>8 DEF Answer, AnswerLost, SetProductJob
<1>9. CASE Deactivate(r)
  <2>1. \E j : SetProductJob(r, j)
    BY <1>9 DEF Deactivate, SoftDelete, ProductRefusal
  <2> QED
    BY <1>4, <1>9, <2>1 DEF Deactivate, ProductIdle
<1>10. CASE Commit(r)
  <2>1. \E j : SetProductJob(r, j)
    BY <1>10 DEF Commit, UpdateCommit, ProductRefusal
  <2> QED
    BY <1>4, <1>10, <2>1, CommitStored
<1>11. ASSUME NEW p \in NewIds, NEW change \in Changes, SubmitNew(r, p, change)
       PROVE  Stored(q)
  <2>1. UNCHANGED productJobs \/ \E j : SetProductJob(r, j)
    BY <1>11 DEF SubmitNew, Refuse, Elsewhere, CreateProduct, Insert, ProductRefusal
  <2> QED
    BY <1>3, <1>4, <1>11, <2>1, SubmitNewStored
<1>12. ASSUME NEW change \in Changes, Save(r, change)
       PROVE  FALSE
  <2>1. PICK dto : UpdateRead(r, desks[r].id, dto)
    BY <1>3, <1>12 DEF Save, Refuse, Elsewhere
  <2>2. \E j : SetProductJob(r, j) /\ j # ProductAnswer("ok")
    BY <2>1 DEF UpdateRead, ProductRefusal, ProductAnswer
  <2> QED
    BY <1>1, <1>4, <2>2 DEF SetProductJob
<1> QED
  BY <1>6, <1>7, <1>8, <1>9, <1>10, <1>11, <1>12

\* Through the console no age range is ever inverted, though its updates check
\* a stale row, and what it is told was accepted is stored as it was sent, but
\* for a brand, a description or a locale's name and slug sent blank.
THEOREM ConsoleCorrect ==
  ConsoleSpec => [](ConsoleTypeOK /\ ConsoleKeepsRange /\ SlugsUnique) /\ AcceptedIsStored
<1>1. ConsoleInv /\ [ConsoleNext]_consoleVars => ConsoleInv' /\ [AcceptedStep]_consoleVars
  BY ConsoleStep, ConsoleStores
<1>2. ConsoleInv => ConsoleTypeOK /\ ConsoleKeepsRange /\ SlugsUnique
  BY ConsoleInvGives, ProductsInvGives DEF ConsoleInv
<1>3. ConsoleSpec => [][AcceptedStep]_consoleVars
  BY <1>1, ConsoleInitial, PTL DEF ConsoleSpec
<1>4. ConsoleSpec => AcceptedIsStored
  BY <1>3 DEF AcceptedIsStored, AcceptedStep, Stored
<1> QED
  BY <1>1, <1>2, <1>4, ConsoleInitial, PTL DEF ConsoleSpec

-----------------------------------------------------------------------------
(* Variants                                                                *)

VariantColumns == {"sku", "barcode", "inner", "master"}
UniqueColumns == {"sku", "barcode"}

\* Another variant holds this value of a unique column.
HeldByOther(table, v, c, x) ==
  \E o \in Variants \ {v} : table[o] # None /\ table[o][c] = x

NoTwins(table) ==
  \A v, o \in Variants : \A c \in UniqueColumns :
     v # o /\ table[v] # None /\ table[o] # None /\ table[v][c] # None
       => table[v][c] # table[o][c]

\* What a refused write remembers: the columns that collided are those of its
\* body that another variant holds.
Remembers(j, table) ==
  /\ j.by # {} /\ j.by \subseteq UniqueColumns
  /\ \A c \in j.by : c \in DOMAIN j.patch
  /\ \A c \in UniqueColumns \cap DOMAIN j.patch :
        c \in j.by <=> j.patch[c] # None /\ HeldByOther(table, j.id, c, j.patch[c])
  /\ ~j.resent /\ table[j.id] # None /\ "sku" \in DOMAIN j.patch
        => table[j.id].sku # j.patch.sku
  /\ j.pc = "sku_free" /\ "sku" \in DOMAIN j.patch =>
        \A v \in Variants : table[v] # None => table[v].sku # j.patch.sku

VariantJobFits(j, table) ==
  /\ j.pc \in {"idle", "done", "checked", "collided", "sku_free", "named", "found"}
  /\ j.pc = "checked" =>
       /\ j.id \in Variants /\ table[j.id] # None /\ j.seen \in VariantRow
       /\ IsVariantBody(j.patch) /\ CartonOK(Counted(j.seen, j.patch))
  /\ j.pc \in {"collided", "sku_free"} =>
       /\ "raced" \in DOMAIN j /\ "pc" \in DOMAIN j
       /\ ~j.raced => Remembers(j, table)
  /\ j.pc = "named" /\ ~j.raced /\ ~j.resent =>
       \/ j.code = "SKU_TAKEN" /\ "sku" \in j.by
       \/ j.code = "BARCODE_TAKEN" /\ "barcode" \in j.by
  /\ j.pc = "found" => j.id \in Certs

\* An answer that names a certification has deleted it, alone.
CertsAnswered(jobs, table) ==
  /\ \A q \in Requests : jobs[q].pc = "done" /\ jobs[q].code \in Certs
                           => table[jobs[q].code] = "deleted"
  /\ \A q, r \in Requests :
        /\ q # r /\ jobs[q].pc = "done" /\ jobs[r].pc = "done"
        /\ jobs[q].code \in Certs
        => jobs[q].code # jobs[r].code

VariantsInv ==
  /\ variants \in [Variants -> VariantRow \cup {None}]
  /\ certs \in [Certs -> {None, "live", "deleted"}]
  /\ NoTwins(variants)
  /\ DOMAIN variantJobs = Requests
  /\ \A q \in Requests : VariantJobFits(variantJobs[q], variants)
  /\ CertsAnswered(variantJobs, certs)

\* What a step may do to carton units.
CartonStep ==
  \A v \in Variants :
     /\ variants[v] # None => CartonOK(variants[v])
     /\ variants'[v] # None /\ ~CartonOK(variants'[v])
     => \E q \in Requests :
           /\ variantJobs[q].pc = "checked" /\ variantJobs[q].id = v
           /\ \/ variantJobs[q].seen.inner # variants[v].inner
              \/ variantJobs[q].seen.master # variants[v].master

\* A step that leaves the variants alone breaks no carton multiple.
LEMMA UntouchedVariants == ASSUME UNCHANGED variants PROVE CartonStep
BY DEF CartonStep

\* A body over a row, column by column.
LEMMA PatchedVariant ==
  ASSUME NEW row, NEW patch, DOMAIN row = VariantColumns
  PROVE  /\ DOMAIN Patched(row, patch) = VariantColumns
         /\ Patched(row, patch) = [c \in VariantColumns |-> Patched(row, patch)[c]]
         /\ \A c \in VariantColumns :
              Patched(row, patch)[c] = IF c \in DOMAIN patch THEN patch[c] ELSE row[c]
BY DEF Patched, VariantColumns

\* The columns of a variant.
LEMMA VariantRows ==
  /\ \A row \in VariantRow : /\ DOMAIN row = VariantColumns
                             /\ row.sku \in Skus /\ row.barcode \in Barcodes \cup {None}
                             /\ row.inner \in Units \cup {None}
                             /\ row.master \in Units \cup {None}
  /\ DOMAIN BlankVariant = VariantColumns
BY DEF VariantRow, BlankVariant, VariantColumns

\* What is written over a row of the table, or over nothing with a sku, is one.
LEMMA WrittenVariant ==
  ASSUME NEW row, NEW patch, IsVariantBody(patch),
         row \in VariantRow \/ (row = BlankVariant /\ "sku" \in DOMAIN patch)
  PROVE  Patched(row, patch) \in VariantRow
<1> DEFINE new == Patched(row, patch)
<1>1. DOMAIN row = VariantColumns
  BY VariantRows
<1>2. /\ \A c \in VariantColumns : new[c] = IF c \in DOMAIN patch THEN patch[c] ELSE row[c]
      /\ new = [c \in VariantColumns |-> new[c]]
  BY <1>1, PatchedVariant
<1>3. /\ "sku" \notin DOMAIN patch => row.sku \in Skus
      /\ row.barcode \in Barcodes \cup {None}
      /\ row.inner \in Units \cup {None} /\ row.master \in Units \cup {None}
  BY VariantRows DEF BlankVariant
<1> HIDE DEF new
<1>4. /\ new.sku \in Skus /\ new.barcode \in Barcodes \cup {None}
      /\ new.inner \in Units \cup {None} /\ new.master \in Units \cup {None}
  BY <1>2, <1>3 DEF IsVariantBody, VariantColumns
<1>5. new = [sku |-> new.sku, barcode |-> new.barcode, inner |-> new.inner,
             master |-> new.master]
  BY <1>2 DEF VariantColumns
<1> QED
  BY <1>4, <1>5 DEF VariantRow, new

\* A handler stays right while the table only grows or changes, if it does not
\* remember a refusal or the table is as it was.
LEMMA VariantJobStays ==
  ASSUME NEW j, NEW old, NEW new, VariantJobFits(j, old),
         \A v \in Variants : old[v] # None => new[v] # None,
         new = old \/ j.pc \notin {"collided", "sku_free"}
  PROVE  VariantJobFits(j, new)
BY DEF VariantJobFits

\* A step that changes only its handler, which does not end in a delete.
LEMMA OnlyJob ==
  ASSUME VariantsInv, NEW q \in Requests, NEW j, SetVariantJob(q, j),
         UNCHANGED <<variants, certs>>, VariantJobFits(j, variants),
         j.pc = "done" => j.code \notin Certs
  PROVE  VariantsInv' /\ CartonStep
<1>1. /\ DOMAIN variantJobs' = Requests
      /\ \A r \in Requests : variantJobs'[r] = IF r = q THEN j ELSE variantJobs[r]
  BY DEF VariantsInv, SetVariantJob
<1>2. \A r \in Requests : VariantJobFits(variantJobs[r], variants)'
  BY <1>1 DEF VariantsInv
<1>3. CertsAnswered(variantJobs, certs)'
  BY <1>1 DEF VariantsInv, CertsAnswered
<1>4. CartonStep
  BY UntouchedVariants
<1> QED
  BY <1>1, <1>2, <1>3, <1>4 DEF VariantsInv

\* An answer of the variants' service that changes no row.
LEMMA VariantAnswers ==
  ASSUME VariantsInv, NEW q \in Requests,
         NEW code \in {"CARTON_MULTIPLE_INVALID", "PRODUCT_NOT_FOUND", "VARIANT_NOT_FOUND",
                       "CERT_VALIDITY_INVALID", "CERTIFICATION_NOT_FOUND",
                       "INTERNAL_SERVER_ERROR"},
         VariantAnswer(q, code)
  PROVE  VariantsInv' /\ CartonStep
<1> DEFINE j == [pc |-> "done", code |-> code]
<1>1. SetVariantJob(q, j) /\ UNCHANGED <<variants, certs>>
  BY DEF VariantAnswer
<1>2. VariantJobFits(j, variants) /\ (j.pc = "done" => j.code \notin Certs)
  BY NoVariantAssumption DEF VariantJobFits
<1> HIDE DEF j
<1> QED
  BY <1>1, <1>2, OnlyJob

\* Columns that collide are columns of the body that another variant holds.
LEMMA CollidingIsHeld ==
  ASSUME VariantsInv, NEW v \in Variants, NEW old, NEW patch,
         DOMAIN old = VariantColumns, variants[v] = None \/ old = variants[v],
         variants[v] = None => old.barcode = None /\ "sku" \in DOMAIN patch,
         NEW c \in UniqueColumns
  PROVE  c \in Colliding(v, Patched(old, patch))
           <=> /\ c \in DOMAIN patch /\ patch[c] # None
               /\ HeldByOther(variants, v, c, patch[c])
<1> DEFINE row == Patched(old, patch)
<1>1. row[c] = IF c \in DOMAIN patch THEN patch[c] ELSE old[c]
  BY PatchedVariant DEF VariantColumns, UniqueColumns
<1>2. c \in Colliding(v, row) <=> row[c] # None /\ HeldByOther(variants, v, c, row[c])
  BY DEF Colliding, HeldByOther, UniqueColumns
<1> SUFFICES c \in Colliding(v, row) <=> /\ c \in DOMAIN patch /\ patch[c] # None
                                         /\ HeldByOther(variants, v, c, patch[c])
  OBVIOUS
<1> HIDE DEF row
<1>3. CASE c \in DOMAIN patch
  BY <1>1, <1>2, <1>3
<1>4. CASE c \notin DOMAIN patch
  <2>1. row[c] = old[c]
    BY <1>1, <1>4
  <2>2. CASE variants[v] = None
    BY <1>2, <1>4, <2>1, <2>2 DEF UniqueColumns
  <2>3. CASE variants[v] # None
    BY <1>2, <1>4, <2>1, <2>3 DEF VariantsInv, NoTwins, HeldByOther
  <2> QED
    BY <2>2, <2>3
<1> QED
  BY <1>3, <1>4

\* A write, or its refusal by a unique index.
LEMMA WriteKeepsVariants ==
  ASSUME VariantsInv, NEW q \in Requests, NEW v \in Variants, NEW patch,
         IsVariantBody(patch), NEW old,
         \/ variants[v] = None /\ old = BlankVariant /\ "sku" \in DOMAIN patch
         \/ variants[v] # None /\ old = variants[v],
         WriteVariant(q, v, Patched(old, patch), patch)
  PROVE  VariantsInv'
<1> DEFINE row == Patched(old, patch)
<1>1. DOMAIN old = VariantColumns /\ row \in VariantRow
      /\ (variants[v] = None => old.barcode = None /\ "sku" \in DOMAIN patch)
  BY WrittenVariant, VariantRows DEF VariantsInv, BlankVariant
<1>2. \A c \in UniqueColumns :
        c \in Colliding(v, row)
           <=> /\ c \in DOMAIN patch /\ patch[c] # None
               /\ HeldByOther(variants, v, c, patch[c])
  BY <1>1, CollidingIsHeld
<1>3. "sku" \in DOMAIN patch => row["sku"] = patch["sku"]
  BY <1>1, PatchedVariant DEF VariantColumns
<1> HIDE DEF row
<1>4. CASE /\ Colliding(v, row) = {}
           /\ variants' = [variants EXCEPT ![v] = row]
           /\ variantJobs' =
                [r \in Requests |->
                   IF r = q THEN [pc |-> "done", code |-> "ok"]
                   ELSE IF variantJobs[r].pc \in {"collided", "sku_free"}
                        THEN [variantJobs[r] EXCEPT !.raced = TRUE]
                        ELSE variantJobs[r]]
           /\ UNCHANGED certs
  <2>1. /\ variants' \in [Variants -> VariantRow \cup {None}]
        /\ variants'[v] = row /\ row # None
        /\ \A o \in Variants \ {v} : variants'[o] = variants[o]
    BY <1>1, <1>4, NoVariantAssumption DEF VariantsInv
  <2>2. NoTwins(variants')
    <3> SUFFICES ASSUME NEW o \in Variants, NEW w \in Variants, NEW c \in UniqueColumns,
                        o # w, variants'[o] # None, variants'[w] # None,
                        variants'[o][c] # None
                 PROVE  variants'[o][c] # variants'[w][c]
      BY DEF NoTwins
    <3>1. \A u \in Variants \ {v} : row[c] # None /\ variants[u] # None => variants[u][c] # row[c]
      BY <1>4 DEF Colliding, UniqueColumns
    <3> QED
      BY <2>1, <3>1 DEF VariantsInv, NoTwins
  <2>3. ASSUME NEW r \in Requests
        PROVE  VariantJobFits(variantJobs'[r], variants')
    <3>1. CASE r = q
      <4>1. variantJobs'[r] = [pc |-> "done", code |-> "ok"]
        BY <1>4, <3>1
      <4> QED
        BY <4>1 DEF VariantJobFits
    <3>2. CASE r # q /\ variantJobs[r].pc \in {"collided", "sku_free"}
      <4>1. /\ variantJobs'[r] = [variantJobs[r] EXCEPT !.raced = TRUE]
            /\ "raced" \in DOMAIN variantJobs[r] /\ "pc" \in DOMAIN variantJobs[r]
        BY <1>4, <3>2 DEF VariantsInv, VariantJobFits
      <4>2. /\ variantJobs'[r].pc = variantJobs[r].pc
            /\ DOMAIN variantJobs'[r] = DOMAIN variantJobs[r]
            /\ variantJobs'[r].raced
        BY <4>1
      <4> QED
        BY <3>2, <4>1, <4>2 DEF VariantJobFits
    <3>3. CASE r # q /\ variantJobs[r].pc \notin {"collided", "sku_free"}
      <4>1. variantJobs'[r] = variantJobs[r]
        BY <1>4, <3>3
      <4>2. VariantJobFits(variantJobs[r], variants)
        BY DEF VariantsInv
      <4>3. \A o \in Variants : variants[o] # None => variants'[o] # None
        BY <2>1
      <4> QED
        BY <3>3, <4>1, <4>2, <4>3, VariantJobStays
    <3> QED
      BY <3>1, <3>2, <3>3
  <2>4. CertsAnswered(variantJobs', certs')
    <3>1. \A r \in Requests :
             variantJobs'[r].pc = "done" /\ r # q => variantJobs'[r] = variantJobs[r]
      <4> SUFFICES ASSUME NEW r \in Requests, variantJobs'[r].pc = "done", r # q,
                          variantJobs[r].pc \in {"collided", "sku_free"}
                   PROVE  FALSE
        BY <1>4
      <4>1. /\ variantJobs'[r] = [variantJobs[r] EXCEPT !.raced = TRUE]
            /\ "raced" \in DOMAIN variantJobs[r] /\ "pc" \in DOMAIN variantJobs[r]
        BY <1>4 DEF VariantsInv, VariantJobFits
      <4>2. variantJobs'[r].pc = variantJobs[r].pc
        BY <4>1
      <4> QED
        BY <4>2
    <3>2. variantJobs'[q].code = "ok"
      BY <1>4
    <3>3. "ok" \notin Certs
      BY NoVariantAssumption
    <3> QED
      BY <1>4, <3>1, <3>2, <3>3 DEF VariantsInv, CertsAnswered
  <2>5. DOMAIN variantJobs' = Requests
    BY <1>4
  <2> QED
    BY <1>4, <2>1, <2>2, <2>3, <2>4, <2>5 DEF VariantsInv
<1>5. CASE /\ Colliding(v, row) # {}
           /\ SetVariantJob(q, [pc |-> "collided", id |-> v, patch |-> patch,
                                by |-> Colliding(v, row), raced |-> FALSE,
                                resent |-> /\ variants[v] # None /\ "sku" \in DOMAIN patch
                                           /\ variants[v].sku = row.sku])
           /\ UNCHANGED <<variants, certs>>
  <2> DEFINE j == [pc |-> "collided", id |-> v, patch |-> patch,
                   by |-> Colliding(v, row), raced |-> FALSE,
                   resent |-> /\ variants[v] # None /\ "sku" \in DOMAIN patch
                              /\ variants[v].sku = row.sku]
  <2>1. /\ j.pc = "collided" /\ j.id = v /\ j.patch = patch /\ j.by = Colliding(v, row)
        /\ "raced" \in DOMAIN j /\ "pc" \in DOMAIN j
    OBVIOUS
  <2>2. j.resent = (variants[v] # None /\ "sku" \in DOMAIN patch /\ variants[v].sku = row.sku)
    OBVIOUS
  <2>3. SetVariantJob(q, j)
    BY <1>5
  <2> HIDE DEF j
  <2>4. Colliding(v, row) \subseteq UniqueColumns
    BY DEF Colliding, UniqueColumns
  <2>5. Remembers(j, variants)
    BY <1>2, <1>3, <1>5, <2>1, <2>2, <2>4 DEF Remembers
  <2>6. VariantJobFits(j, variants)
    BY <2>1, <2>5 DEF VariantJobFits
  <2> QED
    BY <1>5, <2>1, <2>3, <2>6, OnlyJob
<1> QED
  BY <1>4, <1>5 DEF WriteVariant, row

\* What a write does to the variants.
LEMMA WriteWrites ==
  ASSUME NEW q \in Requests, NEW v \in Variants, NEW row, NEW patch,
         WriteVariant(q, v, row, patch)
  PROVE  variants' = [variants EXCEPT ![v] = row] \/ UNCHANGED variants
BY DEF WriteVariant

\* A body whose check passes fills a carton.
LEMMA SentFills ==
  ASSUME NEW body, IsVariantBody(body), SentOK(body)
  PROVE  CartonOK(Patched(BlankVariant, body))
<1>1. /\ DOMAIN BlankVariant = VariantColumns
      /\ BlankVariant.inner = None /\ BlankVariant.master = None
  BY DEF BlankVariant, VariantColumns
<1>2. \A c \in {"inner", "master"} :
        Patched(BlankVariant, body)[c] = IF c \in DOMAIN body THEN body[c] ELSE None
  BY <1>1 DEF Patched, VariantColumns
<1> QED
  BY <1>2 DEF SentOK, CartonOK

\* The insert of a variant, with its unique columns and its carton check.
LEMMA CreateVariantKeeps ==
  ASSUME VariantsInv, NEW q \in Requests, NEW v \in Variants, NEW body \in NewVariants,
         CreateVariant(q, v, body)
  PROVE  VariantsInv' /\ CartonStep
<1> DEFINE row == Patched(BlankVariant, body)
<1>1. CASE VariantAnswer(q, "CARTON_MULTIPLE_INVALID")
  BY <1>1, VariantAnswers
<1>2. CASE SentOK(body) /\ WriteVariant(q, v, row, body)
  <2>1. /\ variants[v] = None /\ IsVariantBody(body) /\ "sku" \in DOMAIN body
        /\ CartonOK(row)
    BY <1>2, VariantBodyAssumption, SentFills DEF CreateVariant
  <2>2. VariantsInv'
    BY <1>2, <2>1, WriteKeepsVariants
  <2> HIDE DEF row
  <2>3. variants' = [variants EXCEPT ![v] = row] \/ UNCHANGED variants
    BY <1>2, WriteWrites
  <2>4. CartonStep
    BY <2>1, <2>3 DEF CartonStep, VariantsInv
  <2> QED
    BY <2>2, <2>4
<1> QED
  BY <1>1, <1>2 DEF CreateVariant

\* updateVariant reads the variant and checks the multiple it will have.
LEMMA UpdateVariantReadKeeps ==
  ASSUME VariantsInv, NEW q \in Requests, NEW v \in Variants, NEW patch \in VariantPatches,
         UpdateVariantRead(q, v, patch)
  PROVE  VariantsInv' /\ CartonStep
<1>1. CASE VariantAnswer(q, "CARTON_MULTIPLE_INVALID") \/ VariantAnswer(q, "VARIANT_NOT_FOUND")
  BY <1>1, VariantAnswers
<1>2. CASE /\ variants[v] # None /\ CartonOK(Counted(variants[v], patch))
           /\ SetVariantJob(q, [pc |-> "checked", id |-> v, patch |-> patch,
                                seen |-> variants[v]])
           /\ UNCHANGED <<variants, certs>>
  <2> DEFINE j == [pc |-> "checked", id |-> v, patch |-> patch, seen |-> variants[v]]
  <2>1. variants[v] \in VariantRow /\ IsVariantBody(patch)
    BY <1>2, VariantBodyAssumption DEF VariantsInv
  <2>2. VariantJobFits(j, variants) /\ j.pc # "done"
    BY <1>2, <2>1 DEF VariantJobFits
  <2> HIDE DEF j
  <2>3. SetVariantJob(q, j)
    BY <1>2 DEF j
  <2> QED
    BY <1>2, <2>2, <2>3, OnlyJob
<1> QED
  BY <1>1, <1>2 DEF UpdateVariantRead

\* The units checked are those written, where the row read is the row.
LEMMA CountedIsWritten ==
  ASSUME NEW row \in VariantRow, NEW seen \in VariantRow, NEW patch,
         seen.inner = row.inner, seen.master = row.master,
         CartonOK(Counted(seen, patch))
  PROVE  CartonOK(Patched(row, patch))
<1> DEFINE given == [c \in {d \in DOMAIN patch : patch[d] # None} |-> patch[c]]
<1>1. DOMAIN seen = VariantColumns /\ DOMAIN row = VariantColumns
  BY VariantRows
<1>2. \A c \in VariantColumns :
        /\ Patched(row, patch)[c] = IF c \in DOMAIN patch THEN patch[c] ELSE row[c]
        /\ Patched(seen, given)[c] = IF c \in DOMAIN given THEN given[c] ELSE seen[c]
  BY <1>1, PatchedVariant
<1>3. \A c \in VariantColumns :
        Patched(seen, given)[c] =
          IF c \in DOMAIN patch /\ patch[c] # None THEN patch[c] ELSE seen[c]
  BY <1>2
<1>4. Counted(seen, patch) = Patched(seen, given)
  BY DEF Counted
<1> HIDE DEF given
<1>5. \A c \in {"inner", "master"} :
        Patched(row, patch)[c] # None => Patched(row, patch)[c] = Counted(seen, patch)[c]
  BY <1>2, <1>3, <1>4 DEF VariantColumns
<1> QED
  BY <1>5 DEF CartonOK

\* updateVariant writes the patch over the variant as it is by now.
LEMMA UpdateVariantWriteKeeps ==
  ASSUME VariantsInv, NEW q \in Requests, UpdateVariantWrite(q)
  PROVE  VariantsInv' /\ CartonStep
<1> DEFINE job == variantJobs[q]
           v == job.id
           row == Patched(variants[v], job.patch)
<1>1. /\ job.pc = "checked" /\ v \in Variants /\ variants[v] # None
      /\ IsVariantBody(job.patch) /\ job.seen \in VariantRow
      /\ CartonOK(Counted(job.seen, job.patch)) /\ variants[v] \in VariantRow
  BY DEF UpdateVariantWrite, VariantsInv, VariantJobFits
<1>2. WriteVariant(q, v, row, job.patch)
  BY DEF UpdateVariantWrite
<1>3. VariantsInv'
  BY <1>1, <1>2, WriteKeepsVariants
<1>4. CartonStep
  <2>1. variants' = [variants EXCEPT ![v] = row] \/ UNCHANGED variants
    BY <1>1, <1>2, WriteWrites
  <2>2. /\ job.seen.inner = variants[v].inner /\ job.seen.master = variants[v].master
        => CartonOK(row)
    BY <1>1, CountedIsWritten
  <2> HIDE DEF row
  <2> QED
    BY <1>1, <2>1, <2>2 DEF CartonStep, VariantsInv
<1> QED
  BY <1>3, <1>4

\* The error handler names a unique column: the one that collided, unless a race hid it.
LEMMA NameKeeps ==
  ASSUME VariantsInv, NEW q \in Requests, NEW code, NameCollision(q, code),
         ~variantJobs[q].raced /\ ~variantJobs[q].resent =>
            \/ code = "SKU_TAKEN" /\ "sku" \in variantJobs[q].by
            \/ code = "BARCODE_TAKEN" /\ "barcode" \in variantJobs[q].by
  PROVE  VariantsInv' /\ CartonStep
<1> DEFINE j == [pc |-> "named", code |-> code, by |-> variantJobs[q].by,
                 raced |-> variantJobs[q].raced, resent |-> variantJobs[q].resent]
<1>1. /\ j.pc = "named" /\ j.code = code /\ j.by = variantJobs[q].by
      /\ j.raced = variantJobs[q].raced /\ j.resent = variantJobs[q].resent
      /\ SetVariantJob(q, j) /\ UNCHANGED <<variants, certs>>
  BY DEF NameCollision
<1> HIDE DEF j
<1>2. VariantJobFits(j, variants)
  BY <1>1 DEF VariantJobFits
<1> QED
  BY <1>1, <1>2, OnlyJob

\* The reads that name the column that collided.
LEMMA LookUpSkuKeeps ==
  ASSUME VariantsInv, NEW q \in Requests, LookUpSku(q)
  PROVE  VariantsInv' /\ CartonStep
<1> DEFINE job == variantJobs[q]
           taken == "sku" \in DOMAIN job.patch /\ Holds("sku", job.patch.sku)
<1>1. /\ job.pc = "collided" /\ VariantJobFits(job, variants)
  BY DEF LookUpSku, VariantsInv
<1>2. CASE taken /\ NameCollision(q, "SKU_TAKEN")
  <2>1. ~job.raced /\ ~job.resent => "sku" \in job.by
    <3> SUFFICES ASSUME ~job.raced, ~job.resent
                 PROVE  "sku" \in job.by
      OBVIOUS
    <3>1. Remembers(job, variants)
      BY <1>1 DEF VariantJobFits
    <3>2. PICK v \in Variants : variants[v] # None /\ variants[v]["sku"] = job.patch["sku"]
      BY <1>2 DEF Holds
    <3>3. v # job.id
      BY <1>2, <3>1, <3>2 DEF Remembers
    <3>4. job.patch["sku"] # None
      BY <3>2, NoVariantAssumption, VariantRows DEF VariantsInv
    <3>5. HeldByOther(variants, job.id, "sku", job.patch["sku"])
      BY <3>2, <3>3 DEF HeldByOther
    <3> QED
      BY <1>2, <3>1, <3>4, <3>5 DEF Remembers, UniqueColumns
  <2> QED
    BY <1>2, <2>1, NameKeeps
<1>3. CASE /\ ~taken /\ SetVariantJob(q, [job EXCEPT !.pc = "sku_free"])
           /\ UNCHANGED <<variants, certs>>
  <2> DEFINE j == [job EXCEPT !.pc = "sku_free"]
  <2>1. "raced" \in DOMAIN job /\ "pc" \in DOMAIN job
    BY <1>1 DEF VariantJobFits
  <2>2. /\ j.pc = "sku_free" /\ DOMAIN j = DOMAIN job /\ j.raced = job.raced
        /\ j.by = job.by /\ j.patch = job.patch /\ j.id = job.id
    BY <2>1
  <2>3. j.resent = job.resent
    BY <2>1
  <2> HIDE DEF j
  <2>4. ~job.raced => Remembers(job, variants)
    BY <1>1 DEF VariantJobFits
  <2>5. ~job.raced => Remembers(j, variants)
    <3>1. "sku" \in DOMAIN j.patch =>
            \A v \in Variants : variants[v] # None => variants[v].sku # j.patch.sku
      BY <1>3, <2>2 DEF Holds
    <3> QED
      BY <2>2, <2>3, <2>4, <3>1 DEF Remembers
  <2>6. VariantJobFits(j, variants)
    BY <2>1, <2>2, <2>5 DEF VariantJobFits
  <2>7. SetVariantJob(q, j)
    BY <1>3 DEF j
  <2> QED
    BY <1>3, <2>2, <2>6, <2>7, OnlyJob
<1> QED
  BY <1>2, <1>3 DEF LookUpSku

\* The error handler's own read of the barcode, after the insert failed.
LEMMA LookUpBarcodeKeeps ==
  ASSUME VariantsInv, NEW q \in Requests, LookUpBarcode(q)
  PROVE  VariantsInv' /\ CartonStep
<1> DEFINE job == variantJobs[q]
           taken == /\ "barcode" \in DOMAIN job.patch /\ job.patch.barcode # None
                    /\ Holds("barcode", job.patch.barcode)
<1>1. /\ job.pc = "sku_free" /\ VariantJobFits(job, variants)
      /\ NameCollision(q, IF taken THEN "BARCODE_TAKEN" ELSE "SKU_OR_BARCODE_TAKEN")
  BY DEF LookUpBarcode, VariantsInv
<1>2. ~job.raced => taken /\ "barcode" \in job.by
  <2> SUFFICES ASSUME ~job.raced
               PROVE  taken /\ "barcode" \in job.by
    OBVIOUS
  <2>1. Remembers(job, variants)
    BY <1>1 DEF VariantJobFits
  <2>2. "sku" \notin job.by
    <3> SUFFICES ASSUME "sku" \in job.by
                 PROVE  FALSE
      OBVIOUS
    <3>1. /\ "sku" \in DOMAIN job.patch
          /\ HeldByOther(variants, job.id, "sku", job.patch["sku"])
      BY <2>1 DEF Remembers, UniqueColumns
    <3> QED
      BY <1>1, <2>1, <3>1 DEF Remembers, HeldByOther
  <2>3. "barcode" \in job.by
    BY <2>1, <2>2 DEF Remembers, UniqueColumns
  <2>4. /\ "barcode" \in DOMAIN job.patch /\ job.patch["barcode"] # None
        /\ HeldByOther(variants, job.id, "barcode", job.patch["barcode"])
    BY <2>1, <2>3 DEF Remembers, UniqueColumns
  <2> QED
    BY <2>3, <2>4 DEF HeldByOther, Holds
<1> HIDE DEF taken
<1> QED
  BY <1>1, <1>2, NameKeeps

\* A certification changes state in one direction, and one job learns of it.
LEMMA CertsKeep ==
  ASSUME VariantsInv, NEW q \in Requests, NEW c \in Certs, NEW state \in {"live", "deleted"},
         certs' = [certs EXCEPT ![c] = state], certs[c] # "deleted", UNCHANGED variants,
         NEW code, SetVariantJob(q, [pc |-> "done", code |-> code]),
         code \in Certs => code = c /\ state = "deleted"
  PROVE  VariantsInv' /\ CartonStep
<1> DEFINE j == [pc |-> "done", code |-> code]
<1>1. /\ DOMAIN variantJobs' = Requests
      /\ \A r \in Requests : variantJobs'[r] = IF r = q THEN j ELSE variantJobs[r]
  BY DEF VariantsInv, SetVariantJob
<1>2. j.pc = "done" /\ j.code = code /\ VariantJobFits(j, variants)
  BY DEF VariantJobFits
<1> HIDE DEF j
<1>3. \A r \in Requests : VariantJobFits(variantJobs[r], variants)'
  BY <1>1, <1>2 DEF VariantsInv
<1>4. /\ certs' \in [Certs -> {None, "live", "deleted"}] /\ certs'[c] = state
      /\ \A o \in Certs \ {c} : certs'[o] = certs[o]
  BY DEF VariantsInv
<1>5. CertsAnswered(variantJobs, certs)'
  BY <1>1, <1>2, <1>4 DEF VariantsInv, CertsAnswered
<1>6. CartonStep
  BY UntouchedVariants
<1> QED
  BY <1>1, <1>3, <1>4, <1>5, <1>6 DEF VariantsInv

\* A certification is filed for a variant.
LEMMA CreateCertKeeps ==
  ASSUME VariantsInv, NEW q \in Requests, NEW c \in Certs, NEW v, NEW period,
         CreateCert(q, c, v, period)
  PROVE  VariantsInv' /\ CartonStep
<1>1. CASE VariantAnswer(q, "VARIANT_NOT_FOUND") \/ VariantAnswer(q, "CERT_VALIDITY_INVALID")
  BY <1>1, VariantAnswers
<1>2. CASE /\ certs[c] = None /\ certs' = [certs EXCEPT ![c] = "live"]
           /\ SetVariantJob(q, [pc |-> "done", code |-> "ok"]) /\ UNCHANGED variants
  BY <1>2, CertsKeep, NoVariantAssumption
<1> QED
  BY <1>1, <1>2 DEF CreateCert

\* The two halves of the delete of a certification.
LEMMA DeleteCertKeeps ==
  ASSUME VariantsInv, NEW q \in Requests,
         DeleteCert(q) \/ \E c \in Certs : DeleteCertFind(q, c)
  PROVE  VariantsInv' /\ CartonStep
<1>1. CASE VariantAnswer(q, "INTERNAL_SERVER_ERROR") \/ VariantAnswer(q, "CERTIFICATION_NOT_FOUND")
  BY <1>1, VariantAnswers
<1>2. ASSUME NEW c \in Certs, SetVariantJob(q, [pc |-> "found", id |-> c]),
             UNCHANGED <<variants, certs>>
      PROVE  VariantsInv' /\ CartonStep
  <2> DEFINE j == [pc |-> "found", id |-> c]
  <2>1. VariantJobFits(j, variants) /\ j.pc # "done" /\ SetVariantJob(q, j)
    BY <1>2 DEF VariantJobFits
  <2> HIDE DEF j
  <2> QED
    BY <1>2, <2>1, OnlyJob
<1>3. CASE /\ variantJobs[q].pc = "found" /\ certs[variantJobs[q].id] = "live"
           /\ certs' = [certs EXCEPT ![variantJobs[q].id] = "deleted"]
           /\ SetVariantJob(q, [pc |-> "done", code |-> variantJobs[q].id])
           /\ UNCHANGED variants
  <2>1. variantJobs[q].id \in Certs
    BY <1>3 DEF VariantsInv, VariantJobFits
  <2> QED
    BY <1>3, <2>1, CertsKeep
<1> QED
  BY <1>1, <1>2, <1>3 DEF DeleteCert, DeleteCertFind

\* Every step of the variants keeps the invariant.
LEMMA VariantsStep ==
  ASSUME VariantsInv, [VariantsNext]_variantVars
  PROVE  VariantsInv' /\ CartonStep
<1>1. CASE UNCHANGED variantVars
  BY <1>1, UntouchedVariants DEF variantVars, VariantsInv
<1>2. ASSUME NEW q \in Requests, VariantProductMissing(q)
      PROVE  VariantsInv' /\ CartonStep
  BY <1>2, VariantAnswers DEF VariantProductMissing
<1> QED
  BY <1>1, <1>2, CreateVariantKeeps, UpdateVariantReadKeeps, UpdateVariantWriteKeeps,
     LookUpSkuKeeps, LookUpBarcodeKeeps, CreateCertKeeps, DeleteCertKeeps
  DEF VariantsNext

\* No variant, no certification and no request.
LEMMA VariantsInitial == VariantsInit => VariantsInv
<1> SUFFICES ASSUME VariantsInit
             PROVE  VariantsInv
  OBVIOUS
<1>1. \A q \in Requests : VariantJobFits(variantJobs[q], variants)
  BY DEF VariantsInit, VariantJobFits, VariantIdle
<1>2. CertsAnswered(variantJobs, certs)
  BY DEF VariantsInit, CertsAnswered, VariantIdle
<1> QED
  BY <1>1, <1>2 DEF VariantsInit, VariantsInv, NoTwins

\* What the invariant says.
LEMMA VariantsInvGives == VariantsInv => VariantsTypeOK /\ RefusalNamesColumn /\ CertDeletedOnce
<1>1. VariantsInv => VariantsTypeOK
  BY DEF VariantsInv, VariantsTypeOK, NoTwins, Colliding, UniqueColumns
<1>2. VariantsInv => RefusalNamesColumn
  BY DEF VariantsInv, RefusalNamesColumn, VariantJobFits
<1>3. VariantsInv => CertDeletedOnce
  BY DEF VariantsInv, CertDeletedOnce, CertsAnswered
<1> QED
  BY <1>1, <1>2, <1>3

\* A refused sku or barcode did collide, one of two deletes did it, and carton
\* units go wrong only where the row they were checked on had changed.
THEOREM VariantsCorrect ==
  VariantsSpec => [](VariantsTypeOK /\ RefusalNamesColumn /\ CertDeletedOnce)
                    /\ CartonBreaksOnlyStale
<1>1. VariantsInv /\ [VariantsNext]_variantVars => VariantsInv' /\ [CartonStep]_variantVars
  BY VariantsStep
<1>2. VariantsSpec => [][CartonStep]_variantVars
  BY <1>1, VariantsInitial, PTL DEF VariantsSpec
<1>3. VariantsSpec => CartonBreaksOnlyStale
  BY <1>2 DEF CartonBreaksOnlyStale, CartonStep
<1> QED
  BY <1>1, <1>3, VariantsInitial, VariantsInvGives, PTL DEF VariantsSpec

-----------------------------------------------------------------------------
(* Taxonomy                                                                *)

\* A row of a category.
CategoryRow == [parent : CategoryIds \cup {None}]

\* A body written over a row changes its parent or nothing.
LEMMA PatchedRow ==
  ASSUME NEW row \in CategoryRow, NEW patch, DOMAIN patch \subseteq {"parent"}
  PROVE  /\ Patched(row, patch).parent = IF "parent" \in DOMAIN patch THEN patch.parent
                                         ELSE row.parent
         /\ "parent" \in DOMAIN patch /\ patch.parent \in CategoryIds \cup {None}
              => Patched(row, patch) \in CategoryRow
         /\ "parent" \notin DOMAIN patch => Patched(row, patch) = row
<1>1. DOMAIN row = {"parent"} /\ row = [c \in {"parent"} |-> row[c]]
  BY DEF CategoryRow
<1>2. Patched(row, patch) = [c \in {"parent"} |-> IF c \in DOMAIN patch THEN patch[c] ELSE row[c]]
  BY <1>1 DEF Patched
<1>3. Patched(row, patch).parent = IF "parent" \in DOMAIN patch THEN patch.parent
                                         ELSE row.parent
  BY <1>2
<1>4. "parent" \in DOMAIN patch /\ patch.parent \in CategoryIds \cup {None}
        => Patched(row, patch) \in CategoryRow
  BY <1>2 DEF CategoryRow
<1>5. "parent" \notin DOMAIN patch => Patched(row, patch) = row
  BY <1>1, <1>2
<1> QED
  BY <1>3, <1>4, <1>5

-----------------------------------------------------------------------------
(* The category tree                                                       *)

\* Rows keep their types and a parent exists.
ParentsHold ==
  /\ parents \in [CategoryIds -> {None} \cup CategoryRow]
  /\ \A c \in CategoryIds :
        parents[c] # None /\ parents[c].parent # None => parents[parents[c].parent] # None

\* A step moves at most one category, and never under itself or under one that
\* does not exist.
Moved(c, row) ==
  /\ parents' = [parents EXCEPT ![c] = row]
  /\ row.parent # None => row.parent # c /\ parents[row.parent] # None

\* What a write that is not refused does to the tree.
LEMMA WriteMoves ==
  ASSUME ParentsHold, NEW c \in CategoryIds, NEW row \in CategoryRow,
         NEW body \in NewCategories \cup CategoryPatches,
         WriteCategory(c, row, body, "ok"), ~ParentRefused(body.patch),
         "parent" \in DOMAIN body.patch => body.patch.parent # c,
         "parent" \notin DOMAIN body.patch => row = Root \/ row = parents[c]
  PROVE  UNCHANGED parents \/ \E new \in CategoryRow : Moved(c, new)
<1>1. DOMAIN body.patch \subseteq {"parent"}
  BY BodyAssumption
<1>2. parents' = [parents EXCEPT ![c] = Patched(row, body.patch)]
  BY DEF WriteCategory
<1>3. CASE "parent" \in DOMAIN body.patch
  <2>1. /\ body.patch.parent \in CategoryIds \cup {None}
        /\ body.patch.parent # None => parents[body.patch.parent] # None
    BY <1>3 DEF ParentRefused
  <2>2. /\ Patched(row, body.patch) \in CategoryRow
        /\ Patched(row, body.patch).parent = body.patch.parent
    BY <1>1, <1>3, <2>1, PatchedRow DEF CategoryRow
  <2>3. Moved(c, Patched(row, body.patch))
    BY <1>2, <1>3, <2>1, <2>2 DEF Moved
  <2> QED
    BY <2>2, <2>3
<1>4. CASE "parent" \notin DOMAIN body.patch
  <2>1. Patched(row, body.patch) = row
    BY <1>1, <1>4, PatchedRow
  <2>2. CASE row = Root
    BY <1>2, <2>1, <2>2 DEF Moved, Root, CategoryRow
  <2>3. CASE row = parents[c]
    BY <1>2, <2>1, <2>3 DEF ParentsHold
  <2> QED
    BY <1>4, <2>2, <2>3
<1> QED
  BY <1>3, <1>4

\* Every step moves one category or none.
LEMMA StepMoves ==
  ASSUME ParentsHold, [TaxonomyNext]_taxonomyVars
  PROVE  UNCHANGED parents \/ \E c \in CategoryIds, new \in CategoryRow : Moved(c, new)
<1>1. ASSUME NEW c \in CategoryIds, NEW body \in NewCategories, CreateCategory(c, body),
             ~UNCHANGED parents
      PROVE  \E new \in CategoryRow : Moved(c, new)
  <2>1. /\ NewCategoryRefused(c, body) = "ok"
        /\ WriteCategory(c, Root, body, "ok")
    BY <1>1 DEF CreateCategory, WriteCategory
  <2>2. ~ParentRefused(body.patch)
    BY <2>1 DEF NewCategoryRefused
  <2>3. "parent" \in DOMAIN body.patch => body.patch.parent # c
    BY <1>1, <2>2, NoneAssumption DEF ParentRefused, CreateCategory
  <2>4. Root \in CategoryRow
    BY DEF Root, CategoryRow
  <2> QED
    BY <1>1, <2>1, <2>2, <2>3, <2>4, WriteMoves
<1>2. ASSUME NEW c \in CategoryIds, NEW body \in CategoryPatches, UpdateCategory(c, body),
             ~UNCHANGED parents
      PROVE  \E new \in CategoryRow : Moved(c, new)
  <2>1. /\ CategoryRefused(c, body) = "ok"
        /\ WriteCategory(c, parents[c], body, "ok")
    BY <1>2 DEF UpdateCategory, WriteCategory
  <2>2. /\ ~ParentRefused(body.patch)
        /\ "parent" \in DOMAIN body.patch => body.patch.parent # c
        /\ parents[c] # None
    BY <2>1 DEF CategoryRefused
  <2>3. parents[c] \in CategoryRow
    BY <2>2 DEF ParentsHold
  <2> QED
    BY <1>2, <2>1, <2>2, <2>3, WriteMoves
<1>3. ASSUME NEW b \in BrandIds, NEW name, CreateBrand(b, name) \/ UpdateBrand(b, name)
      PROVE  UNCHANGED parents
  BY <1>3 DEF CreateBrand, UpdateBrand, WriteBrand
<1>4. CASE UNCHANGED taxonomyVars
  BY <1>4 DEF taxonomyVars
<1> QED
  BY <1>1, <1>2, <1>3, <1>4 DEF TaxonomyNext

\* A move keeps the types of the rows and their parents.
LEMMA MoveKeepsParents ==
  ASSUME ParentsHold, NEW c \in CategoryIds, NEW new \in CategoryRow, Moved(c, new)
  PROVE  ParentsHold'
<1>1. None \notin CategoryRow
  BY NoneAssumption DEF CategoryRow
<1>2. new.parent \in CategoryIds \cup {None}
  BY DEF CategoryRow
<1>3. \A d \in CategoryIds : parents[d] # None => parents[d].parent \in CategoryIds \cup {None}
  BY DEF ParentsHold, CategoryRow
<1> QED
  BY <1>1, <1>2, <1>3 DEF ParentsHold, Moved

\* A move that makes a cycle is a move under a category below the one moved.
LEMMA MoveCycles ==
  ASSUME ParentsHold, NEW c \in CategoryIds, NEW new \in CategoryRow, Moved(c, new),
         ~Cyclic(parents), Cyclic(parents)'
  PROVE  /\ parents[c] # None /\ parents'[c] # parents[c]
         /\ parents'[c].parent # c
         /\ Below(parents, parents'[c].parent, c)
<1>1. PICK S \in SUBSET CategoryIds \ {{}} :
        \A x \in S : parents'[x] # None /\ parents'[x].parent \in S
  BY DEF Cyclic
<1>2. /\ parents'[c] = new
      /\ \A x \in CategoryIds \ {c} : parents'[x] = parents[x]
  BY DEF ParentsHold, Moved
<1>3. c \in S /\ new.parent \in S
  BY <1>1, <1>2 DEF Cyclic
<1>4. new.parent # None /\ new.parent # c
  BY <1>3, NoneAssumption DEF Moved
<1>5. ASSUME parents[c] = None
      PROVE  FALSE
  <2>1. ASSUME NEW x \in S \ {c}
        PROVE  parents[x] # None /\ parents[x].parent \in S \ {c}
    <3>1. parents[x] # None /\ parents[x].parent \in S /\ parents[x].parent # None
      BY <1>1, <1>2, NoneAssumption
    <3>2. parents[parents[x].parent] # None
      BY <3>1 DEF ParentsHold
    <3> QED
      BY <1>5, <3>1, <3>2
  <2> QED
    BY <1>3, <1>4, <2>1 DEF Cyclic
<1>6. parents'[c] # parents[c]
  <2>1. parents'[c] = parents[c] => parents' = parents
    BY <1>2 DEF ParentsHold, Moved
  <2> QED
    BY <2>1
<1>7. ASSUME NEW T \in SUBSET CategoryIds, new.parent \in T, c \notin T,
             \A x \in T : parents[x] # None /\ parents[x].parent # None
                            => parents[x].parent \in T
      PROVE  FALSE
  <2>1. ASSUME NEW x \in S \cap T
        PROVE  parents[x] # None /\ parents[x].parent \in S \cap T
    BY <1>1, <1>2, <1>7, NoneAssumption
  <2> QED
    BY <1>3, <1>7, <2>1 DEF Cyclic
<1> QED
  BY <1>2, <1>4, <1>5, <1>6, <1>7 DEF Below

\* What a step may do to the tree.
CycleStep ==
  ~Cyclic(parents) /\ Cyclic(parents')
    => \E c \in CategoryIds :
          /\ parents[c] # None /\ parents'[c] # parents[c]
          /\ parents'[c].parent # c
          /\ Below(parents, parents'[c].parent, c)

\* A step closes a cycle of parents only by moving a category below a descendant.
LEMMA CycleExplained ==
  ASSUME ParentsHold, [TaxonomyNext]_taxonomyVars
  PROVE  CycleStep
<1> SUFFICES ASSUME ~Cyclic(parents), Cyclic(parents')
             PROVE  CycleStep
  BY DEF CycleStep
<1>1. UNCHANGED parents => FALSE
  OBVIOUS
<1>2. PICK c \in CategoryIds, new \in CategoryRow : Moved(c, new)
  BY <1>1, StepMoves
<1>3. Cyclic(parents)'
  BY DEF Cyclic
<1> QED
  BY <1>2, <1>3, MoveCycles DEF CycleStep

-----------------------------------------------------------------------------
(* The texts of categories and the names of brands                         *)

\* What is written is a row.
LEMMA WrittenRow ==
  ASSUME NEW row \in CategoryRow, NEW body \in NewCategories \cup CategoryPatches,
         ~ParentRefused(body.patch)
  PROVE  Patched(row, body.patch) \in CategoryRow
<1>1. DOMAIN body.patch \subseteq {"parent"}
  BY BodyAssumption
<1>2. "parent" \in DOMAIN body.patch => body.patch.parent \in CategoryIds \cup {None}
  BY DEF ParentRefused
<1> QED
  BY <1>1, <1>2, PatchedRow

\* A category has a text in both locales, and no slug of a locale is held twice.
TextsHold == TextsOf(CategoryIds, CategoryWords, parents, categoryTexts)

\* A write that is not refused keeps that.
LEMMA CategoryKeepsTexts ==
  ASSUME ParentsHold, TextsHold, NEW c \in CategoryIds, NEW row \in CategoryRow,
         NEW body \in NewCategories \cup CategoryPatches,
         WriteCategory(c, row, body, "ok"), ~ParentRefused(body.patch),
         ~SlugTaken(categoryTexts, c, body.texts),
         parents[c] = None => BothLocales(body.texts)
  PROVE  TextsHold'
<1>1. body.texts \in Seq(Entries(CategoryWords))
  BY BodyAssumption DEF Entries
<1>2. /\ parents'[c] # None
      /\ \A o \in CategoryIds \ {c} : parents'[o] = parents[o]
  <2>1. parents' = [parents EXCEPT ![c] = Patched(row, body.patch)]
    BY DEF WriteCategory
  <2>2. Patched(row, body.patch) # None
    BY WrittenRow, NoneAssumption DEF CategoryRow
  <2> QED
    BY <2>1, <2>2 DEF ParentsHold
<1>3. categoryTexts' = [categoryTexts EXCEPT ![c] = Translated(categoryTexts[c], body.texts)]
  BY DEF WriteCategory
<1> QED
  BY <1>1, <1>2, <1>3, WriteKeepsTexts, NoneAssumption DEF TextsHold

\* Every step keeps the texts.
LEMMA TextsStep ==
  ASSUME ParentsHold, TextsHold, [TaxonomyNext]_taxonomyVars
  PROVE  TextsHold'
<1>1. UNCHANGED <<parents, categoryTexts>> => TextsHold'
  BY DEF TextsHold, TextsOf
<1>2. ASSUME NEW c \in CategoryIds, NEW body \in NewCategories, CreateCategory(c, body)
      PROVE  TextsHold'
  <2>1. CASE NewCategoryRefused(c, body) = "ok"
    <3>1. /\ WriteCategory(c, Root, body, "ok") /\ ~ParentRefused(body.patch)
          /\ BothLocales(body.texts) /\ ~SlugTaken(categoryTexts, c, body.texts)
      BY <1>2, <2>1 DEF CreateCategory, NewCategoryRefused
    <3>2. Root \in CategoryRow
      BY DEF Root, CategoryRow
    <3> QED
      BY <3>1, <3>2, CategoryKeepsTexts
  <2>2. CASE NewCategoryRefused(c, body) # "ok"
    BY <1>1, <1>2, <2>2 DEF CreateCategory, WriteCategory
  <2> QED
    BY <2>1, <2>2
<1>3. ASSUME NEW c \in CategoryIds, NEW body \in CategoryPatches, UpdateCategory(c, body)
      PROVE  TextsHold'
  <2>1. CASE CategoryRefused(c, body) = "ok"
    <3>1. /\ WriteCategory(c, parents[c], body, "ok") /\ ~ParentRefused(body.patch)
          /\ parents[c] # None /\ ~SlugTaken(categoryTexts, c, body.texts)
      BY <1>3, <2>1 DEF UpdateCategory, CategoryRefused
    <3>2. parents[c] \in CategoryRow
      BY <3>1 DEF ParentsHold
    <3> QED
      BY <3>1, <3>2, CategoryKeepsTexts
  <2>2. CASE CategoryRefused(c, body) # "ok"
    BY <1>1, <1>3, <2>2 DEF UpdateCategory, WriteCategory
  <2> QED
    BY <2>1, <2>2
<1>4. ASSUME NEW b \in BrandIds, NEW name, CreateBrand(b, name) \/ UpdateBrand(b, name)
      PROVE  TextsHold'
  BY <1>1, <1>4 DEF CreateBrand, UpdateBrand, WriteBrand
<1>5. CASE UNCHANGED taxonomyVars
  BY <1>1, <1>5 DEF taxonomyVars
<1> QED
  BY <1>2, <1>3, <1>4, <1>5 DEF TaxonomyNext

\* Brands keep their types and distinct names.
BrandsHold == brands \in [BrandIds -> BrandNames \cup {None}] /\ BrandNamesUnique

\* Every insert and rename of a brand goes through the unique index.
LEMMA BrandsStep ==
  ASSUME BrandsHold, [TaxonomyNext]_taxonomyVars
  PROVE  BrandsHold'
<1>1. UNCHANGED brands => BrandsHold'
  BY DEF BrandsHold, BrandNamesUnique
<1>2. ASSUME NEW c \in CategoryIds, NEW body, CreateCategory(c, body) \/ UpdateCategory(c, body)
      PROVE  BrandsHold'
  BY <1>1, <1>2 DEF CreateCategory, UpdateCategory, WriteCategory
<1>3. ASSUME NEW b \in BrandIds, NEW name \in BrandNames, WriteBrand(b, name)
      PROVE  BrandsHold'
  BY <1>3 DEF BrandsHold, BrandNamesUnique, WriteBrand, NameTaken
<1>4. ASSUME NEW b \in BrandIds, NEW name \in BrandNames,
             CreateBrand(b, name) \/ UpdateBrand(b, name)
      PROVE  BrandsHold'
  BY <1>1, <1>3, <1>4 DEF CreateBrand, UpdateBrand
<1>5. CASE UNCHANGED taxonomyVars
  BY <1>1, <1>5 DEF taxonomyVars
<1> QED
  BY <1>2, <1>4, <1>5 DEF TaxonomyNext

\* The types and the unique indexes together are inductive.
TaxonomyInv == ParentsHold /\ TextsHold /\ BrandsHold

\* The empty tree and no brand.
LEMMA TaxonomyInitial == TaxonomyInit => TaxonomyInv
BY DEF TaxonomyInit, TaxonomyInv, ParentsHold, TextsHold, TextsOf, BrandsHold, BrandNamesUnique

\* Every step of the taxonomy keeps them, and makes a cycle in one way only.
LEMMA TaxonomyStep ==
  ASSUME TaxonomyInv, [TaxonomyNext]_taxonomyVars
  PROVE  TaxonomyInv' /\ CycleStep
<1>1. ParentsHold'
  <2>1. ParentsHold /\ UNCHANGED parents => ParentsHold'
    BY DEF ParentsHold
  <2> QED
    BY <2>1, StepMoves, MoveKeepsParents DEF TaxonomyInv
<1>2. CycleStep
  BY CycleExplained DEF TaxonomyInv
<1> QED
  BY <1>1, <1>2, TextsStep, BrandsStep DEF TaxonomyInv

\* The parts of the invariant hold of every reachable state.
LEMMA TaxonomyInvCorrect == TaxonomySpec => []TaxonomyInv
<1>1. TaxonomyInv /\ [TaxonomyNext]_taxonomyVars => TaxonomyInv'
  BY TaxonomyStep
<1> QED
  BY <1>1, TaxonomyInitial, PTL DEF TaxonomySpec

\* What the invariant says.
LEMMA TaxonomyInvGives == TaxonomyInv => TaxonomyTypeOK /\ BrandNamesUnique
<1>1. ASSUME TaxonomyInv
      PROVE  TaxonomyTypeOK
  <2>1. ASSUME NEW c \in CategoryIds
        PROVE  categoryTexts[c] \in [Locales -> IF parents[c] = None THEN {None} ELSE CategoryWords]
    BY <1>1 DEF TaxonomyInv, TextsHold, TextsOf
  <2>2. parents \in [CategoryIds -> {None} \cup [parent : CategoryIds \cup {None}]]
    BY <1>1 DEF TaxonomyInv, ParentsHold, CategoryRow
  <2> QED
    BY <1>1, <2>1, <2>2
    DEF TaxonomyInv, ParentsHold, TextsHold, TextsOf, BrandsHold, TaxonomyTypeOK
<1>2. TaxonomyInv => BrandNamesUnique
  BY DEF TaxonomyInv, BrandsHold
<1> QED
  BY <1>1, <1>2

\* For any requests, a parent exists, a category has both texts, slugs and the
\* names of brands are unique, and only a move under a descendant makes a cycle.
THEOREM TaxonomyCorrect ==
  TaxonomySpec => [](TaxonomyTypeOK /\ BrandNamesUnique) /\ CycleOnlyUnderDescendant
<1>1. TaxonomyInv /\ [TaxonomyNext]_taxonomyVars => [CycleStep]_taxonomyVars
  BY TaxonomyStep
<1>2. TaxonomySpec => [][CycleStep]_taxonomyVars
  BY <1>1, TaxonomyInvCorrect, PTL DEF TaxonomySpec
<1>3. TaxonomySpec => CycleOnlyUnderDescendant
  BY <1>2 DEF CycleOnlyUnderDescendant, CycleStep
<1> QED
  BY <1>3, TaxonomyInvCorrect, TaxonomyInvGives, PTL

-----------------------------------------------------------------------------
(* AdminDesk                                                               *)

\* A sequence without one of its places.
LEMMA RemovedAt ==
  ASSUME NEW P, NEW s \in Seq(P), NEW i \in 1 .. Len(s)
  PROVE  /\ Seqs!RemoveAt(s, i) \in Seq(P)
         /\ Len(Seqs!RemoveAt(s, i)) = Len(s) - 1
         /\ \A j \in 1 .. Len(s) - 1 : Seqs!RemoveAt(s, i)[j] = IF j < i THEN s[j] ELSE s[j + 1]
<1> DEFINE a == SubSeq(s, 1, i - 1)
           b == SubSeq(s, i + 1, Len(s))
<1>0. Len(s) \in Nat
  OBVIOUS
<1>1. a \in Seq(P) /\ Len(a) = i - 1 /\ \A j \in 1 .. i - 1 : a[j] = s[j]
  BY <1>0
<1>2. b \in Seq(P) /\ Len(b) = Len(s) - i /\ \A j \in 1 .. Len(s) - i : b[j] = s[j + i]
  BY <1>0
<1>3. Seqs!RemoveAt(s, i) = a \o b
  BY DEF Seqs!RemoveAt
<1> HIDE DEF a, b
<1>4. /\ a \o b \in Seq(P) /\ Len(a \o b) = Len(a) + Len(b)
      /\ \A j \in 1 .. Len(a) + Len(b) :
           (a \o b)[j] = IF j <= Len(a) THEN a[j] ELSE b[j - Len(a)]
  BY <1>1, <1>2, ConcatProperties
<1>5. ASSUME NEW j \in 1 .. Len(s) - 1
      PROVE  (a \o b)[j] = IF j < i THEN s[j] ELSE s[j + 1]
  <2>1. CASE j < i
    BY <1>0, <1>1, <1>2, <1>4, <2>1
  <2>2. CASE ~(j < i)
    <3>1. (a \o b)[j] = b[j - (i - 1)] /\ j - (i - 1) \in 1 .. Len(s) - i
      BY <1>0, <1>1, <1>2, <1>4, <2>2
    <3>2. b[j - (i - 1)] = s[j - (i - 1) + i]
      BY <1>2, <3>1
    <3>3. j - (i - 1) + i = j + 1
      BY <1>0
    <3> QED
      BY <2>2, <3>1, <3>2, <3>3
  <2> QED
    BY <2>1, <2>2
<1> QED
  BY <1>0, <1>1, <1>2, <1>3, <1>4, <1>5

\* What is done to an order of pictures holds none twice.
LEMMA SwapKeeps ==
  ASSUME NEW P, NEW s \in Seq(P), Seqs!IsInjective(s), NEW i \in 1 .. Len(s) - 1
  PROVE  Swapped(s, i) \in Seq(P) /\ Seqs!IsInjective(Swapped(s, i))
BY DEF Swapped, Seqs!IsInjective

\* A picture not in the gallery is added at its end, once.
LEMMA AppendKeeps ==
  ASSUME NEW P, NEW s \in Seq(P), Seqs!IsInjective(s), NEW m \in P, m \notin Seqs!ToSet(s)
  PROVE  Append(s, m) \in Seq(P) /\ Seqs!IsInjective(Append(s, m))
BY DEF Seqs!IsInjective, Seqs!ToSet

\* A gallery of distinct pictures without one of them is a gallery of distinct pictures.
LEMMA RemoveKeeps ==
  ASSUME NEW P, NEW s \in Seq(P), Seqs!IsInjective(s), NEW i \in DOMAIN s
  PROVE  Seqs!RemoveAt(s, i) \in Seq(P) /\ Seqs!IsInjective(Seqs!RemoveAt(s, i))
<1> DEFINE t == Seqs!RemoveAt(s, i)
<1>1. i \in 1 .. Len(s) /\ Len(s) \in Nat /\ DOMAIN s = 1 .. Len(s)
  OBVIOUS
<1>2. /\ t \in Seq(P) /\ Len(t) = Len(s) - 1
      /\ \A j \in 1 .. Len(s) - 1 : t[j] = IF j < i THEN s[j] ELSE s[j + 1]
  BY <1>1, RemovedAt
<1> HIDE DEF t
<1>3. DOMAIN t = 1 .. Len(s) - 1
  BY <1>1, <1>2, ConcatProperties
<1>4. ASSUME NEW j \in DOMAIN t, NEW k \in DOMAIN t, t[j] = t[k]
      PROVE  j = k
  BY <1>1, <1>2, <1>3, <1>4 DEF Seqs!IsInjective
<1> QED
  BY <1>2, <1>4 DEF Seqs!IsInjective, t

\* The list a tab shows, places counted from the newest.
LEMMA ListIsPage ==
  ASSUME NEW status, NEW all
  PROVE  LET having == {a \in Applicants : all[a] = status}
             key == [a \in Applicants |-> -a] IN
         /\ Keyed(having, key)
         /\ AccountList(status, all) = AtPlaces(having, key, 1 .. ListSize)
         /\ \A a, b \in having : key[a] < key[b] <=> b < a
<1> DEFINE having == {a \in Applicants : all[a] = status}
           key == [a \in Applicants |-> -a]
<1>1. /\ IsFiniteSet(having) /\ ListSize \in Nat
      /\ \A a \in having : a \in Nat /\ key[a] = -a
  <2>1. having \in SUBSET Applicants
    OBVIOUS
  <2> QED
    BY <2>1, FS_Subset, DeskAssumption
<1>2. AccountList(status, all) = {a \in having : Cardinality({b \in having : b > a}) < ListSize}
  BY DEF AccountList
<1> HIDE DEF key, having
<1>3. Keyed(having, key)
  <2>1. \A a, b \in having : key[a] = key[b] => a = b
    BY <1>1
  <2> QED
    BY <1>1, <2>1 DEF Keyed
<1>4. ASSUME NEW a \in having
      PROVE  Cardinality({b \in having : b > a}) < ListSize
                 <=> Place(having, key, a) \in 1 .. ListSize
  <2> DEFINE above == {b \in having : b > a}
  <2>1. above \in SUBSET having /\ a \notin above
    BY <1>1
  <2>2. IsFiniteSet(above) /\ Cardinality(above) \in Nat
    BY <1>1, <2>1, FS_Subset, FS_CardinalityType
  <2>3. {o \in having : key[o] <= key[a]} = above \cup {a}
    BY <1>1
  <2> HIDE DEF above
  <2>4. Place(having, key, a) = Cardinality(above) + 1
    BY <2>1, <2>2, <2>3, FS_AddElement DEF Place
  <2> QED
    BY <1>1, <2>2, <2>4 DEF above
<1>5. AccountList(status, all) = AtPlaces(having, key, 1 .. ListSize)
  BY <1>2, <1>4 DEF AtPlaces
<1>6. \A a, b \in having : key[a] < key[b] <=> b < a
  BY <1>1
<1> QED
  BY <1>3, <1>5, <1>6 DEF having, key

\* What a list leaves out stands behind a full page of newer ones.
LEMMA HiddenBehind ==
  ASSUME NEW status, NEW all, NEW a \in Applicants, all[a] = status,
         a \notin AccountList(status, all)
  PROVE  Cardinality({b \in AccountList(status, all) : b > a}) = ListSize
<1> DEFINE having == {o \in Applicants : all[o] = status}
           key == [o \in Applicants |-> -o]
           list == AccountList(status, all)
<1>1. /\ Keyed(having, key) /\ list = AtPlaces(having, key, 1 .. ListSize)
      /\ \A o, b \in having : key[o] < key[b] <=> b < o
  BY ListIsPage
<1>2. a \in having /\ ListSize \in Nat
  BY DeskAssumption
<1> HIDE DEF having, key, list
<1>3. Place(having, key, a) \notin 1 .. 0 + ListSize
  BY <1>1, <1>2 DEF AtPlaces, list
<1>4. Cardinality(AtPlaces(having, key, 0 + 1 .. 0 + ListSize)) = ListSize
  BY <1>1, <1>2, <1>3, PageFull
<1>5. Cardinality(list) = ListSize
  BY <1>1, <1>2, <1>4
<1>6. ASSUME NEW b \in list
      PROVE  b > a
  <2>1. b \in having /\ Place(having, key, b) \in 1 .. ListSize
    BY <1>1 DEF AtPlaces
  <2>2. Place(having, key, a) \in Nat \ {0} /\ Place(having, key, b) \in Nat
    BY <1>1, <1>2, <2>1, PlaceIs
  <2>3. Place(having, key, a) > ListSize
    BY <1>2, <1>3, <2>2
  <2>4. ~(key[a] < key[b]) /\ a # b
    BY <1>1, <1>2, <2>1, <2>2, <2>3, PlaceIs
  <2>5. a \in Nat /\ b \in Nat
    BY <2>1, DeskAssumption DEF having
  <2> QED
    BY <1>1, <1>2, <2>1, <2>4, <2>5
<1>7. {b \in list : b > a} = list
  BY <1>6
<1> QED
  BY <1>5, <1>7 DEF list

-----------------------------------------------------------------------------

Pictured(order) == order \in Seq(Pictures) /\ Seqs!IsInjective(order)

DeskNotices == {"", "errUnknown", "errForbidden", "errMediaTypeMismatch"}
                 \cup {ErrorKeys[c] : c \in DOMAIN ErrorKeys}

\* What a tab shows is what its visitor may see, as it was when rendered.
TabFits(t) ==
  /\ t.page \in ConsolePages
  /\ t.page = "accounts" => t.as \in AccountRoles /\ t.list = AccountList(t.status, t.applied)
  /\ t.page = "product" => /\ t.as \in {"SUPER_ADMIN", "CONTENT"}
                           /\ t.priceForbidden <=> t.as \notin PriceRoles
                           /\ Pictured(t.pictures)

TabInv ==
  /\ visitor \in Roles
  /\ applications \in [Applicants -> Statuses \cup {"none"}]
  /\ Pictured(gallery)
  /\ TabFits(tab)
  /\ last.notice \in DeskNotices
  /\ ForbiddenOnlyAfterRoleChange

\* What a step may do to decisions and pictures.
TabStep ==
  /\ \A a \in Applicants :
        /\ last'.op = "decide"
        /\ applications[a] # "PENDING" /\ applications'[a] # applications[a]
        => tab.applied[a] = "PENDING"
  /\ last'.op = "move" => Seqs!ToSet(gallery') = Seqs!ToSet(gallery)

\* A page as it is rendered.
LEMMA RenderedTab ==
  ASSUME NEW page \in {"home", "products", "product", "accounts"}, NEW status, NEW all,
         NEW pictures, Pictured(pictures)
  PROVE  TabFits(Rendered(page, status, all, pictures))
<1> DEFINE t == Rendered(page, status, all, pictures)
           shown == RequireStaff(page)
<1>1. /\ shown \in {"login", "notFound", page}
      /\ shown = "accounts" => visitor \in AccountRoles
      /\ shown = "product" => visitor \in {"SUPER_ADMIN", "CONTENT"}
  BY DEF RequireStaff, PageRoles, AccountRoles
<1>2. /\ t.page = shown
      /\ shown = "accounts" => /\ t.as = visitor /\ t.status = status /\ t.applied = all
                               /\ t.list = AccountList(status, all)
  BY DEF Rendered
<1>3. shown = "product" => t.as = visitor /\ t.pictures = pictures
  BY DEF Rendered
<1>4. shown = "product" => (t.priceForbidden <=> visitor \notin PriceRoles)
  BY DEF Rendered
<1> HIDE DEF t, shown
<1>5. t.page \in ConsolePages
  BY <1>1, <1>2 DEF ConsolePages
<1>6. t.page = "accounts" => t.as \in AccountRoles /\ t.list = AccountList(t.status, t.applied)
  BY <1>1, <1>2
<1>7. t.page = "product" => /\ t.as \in {"SUPER_ADMIN", "CONTENT"}
                            /\ Pictured(t.pictures)
  BY <1>1, <1>2, <1>3
<1>8. t.page = "product" => (t.priceForbidden <=> t.as \notin PriceRoles)
  BY <1>2, <1>3, <1>4
<1> QED
  BY <1>5, <1>6, <1>7, <1>8 DEF TabFits, t

\* Every notice is one the page can show.
LEMMA NoticeIs == ASSUME NEW op, NEW code PROVE Notice(op, code) \in DeskNotices
BY DEF Notice, MapError, DeskNotices

\* A refusal is no 403 to a form that was offered to who is signed in still.
LEMMA RefusedKeeps ==
  ASSUME TabInv, NEW op, NEW code, Refused(op, code),
         code = "FORBIDDEN" => op = "stock" \/ tab.as # visitor
  PROVE  TabInv' /\ TabStep
<1>1. /\ last'.op = op /\ last'.code = code /\ last'.notice = Notice(op, code)
      /\ UNCHANGED <<visitor, tab, applications, gallery>>
  BY DEF Refused, Answered
<1>2. TabInv'
  BY <1>1, NoticeIs DEF TabInv, ForbiddenOnlyAfterRoleChange
<1>3. TabStep
  BY <1>1 DEF TabStep
<1> QED
  BY <1>2, <1>3

\* The gate lets in who the page was rendered for, if the page is for them.
LEMMA GateOfTab ==
  ASSUME NEW roles, Gate(roles) = "FORBIDDEN", tab.as \in roles
  PROVE  tab.as # visitor
BY DEF Gate

\* A success, its page rendered anew or its answer lost.
LEMMA DoneKeeps ==
  ASSUME TabInv, NEW op, Done(op), tab.page \in {"accounts", "product"},
         applications' \in [Applicants -> Statuses \cup {"none"}], Pictured(gallery')
  PROVE  TabInv' /\ last'.op = op
<1>1. /\ UNCHANGED visitor /\ last'.op = op /\ last'.code \in {"ok", "lost"}
      /\ last'.notice \in DeskNotices
  BY NoticeIs DEF Done, Answered
<1>2. TabFits(tab')
  <2>1. CASE UNCHANGED tab
    BY <2>1 DEF TabInv
  <2>2. CASE tab' = Rendered(tab.page, tab.status, applications', gallery')
    BY <2>2, RenderedTab
  <2> QED
    BY <2>1, <2>2 DEF Done
<1>3. ForbiddenOnlyAfterRoleChange'
  BY <1>1 DEF ForbiddenOnlyAfterRoleChange
<1> QED
  BY <1>1, <1>2, <1>3 DEF TabInv

\* The tab approves or refuses an applicant.
LEMMA DecideKeeps ==
  ASSUME TabInv, NEW a \in Applicants, NEW status \in Statuses \ {"PENDING"}, Decide(a, status)
  PROVE  TabInv' /\ TabStep
<1>1. /\ tab.page = "accounts" /\ a \in tab.list /\ tab.status = "PENDING"
      /\ tab.as \in AccountRoles /\ tab.list = AccountList(tab.status, tab.applied)
  BY DEF Decide, Offered, TabInv, TabFits
<1>2. ASSUME NEW code \in {Gate(AccountRoles), "lost"}, Refused("decide", code)
      PROVE  TabInv' /\ TabStep
  BY <1>1, <1>2, GateOfTab, RefusedKeeps
<1>3. ASSUME NEW code \in DecideCodes(status), Refused("decide", code)
      PROVE  TabInv' /\ TabStep
  <2>1. code # "FORBIDDEN"
    BY DEF DecideCodes
  <2> QED
    BY <1>3, <2>1, RefusedKeeps
<1>4. CASE /\ applications' = [applications EXCEPT ![a] = status]
           /\ UNCHANGED gallery /\ Done("decide")
  <2>1. applications' \in [Applicants -> Statuses \cup {"none"}] /\ Pictured(gallery')
    BY <1>4 DEF TabInv
  <2>2. TabInv' /\ last'.op = "decide"
    BY <1>1, <1>4, <2>1, DoneKeeps
  <2>3. tab.applied[a] = "PENDING"
    BY <1>1 DEF AccountList
  <2>4. \A b \in Applicants : applications'[b] # applications[b] => b = a
    BY <1>4 DEF TabInv
  <2> QED
    BY <2>2, <2>3, <2>4 DEF TabStep
<1> QED
  BY <1>2, <1>3, <1>4 DEF Decide

\* The tab fetches the licence of an applicant.
LEMMA ViewLicenceKeeps ==
  ASSUME TabInv, NEW a, ViewLicence(a)
  PROVE  TabInv' /\ TabStep
<1>1. tab.as \in AccountRoles
  BY DEF ViewLicence, TabInv, TabFits
<1>2. ASSUME NEW code \in {Gate(AccountRoles), "lost"}, Refused("licence", code)
      PROVE  TabInv' /\ TabStep
  BY <1>1, <1>2, GateOfTab, RefusedKeeps
<1>3. CASE Answered("licence", "ok") /\ UNCHANGED <<visitor, tab, applications, gallery>>
  <2>1. last'.op = "licence" /\ last'.code = "ok" /\ last'.notice = Notice("licence", "ok")
    BY <1>3 DEF Answered
  <2> QED
    BY <1>3, <2>1, NoticeIs DEF TabInv, TabStep, ForbiddenOnlyAfterRoleChange
<1> QED
  BY <1>2, <1>3 DEF ViewLicence

\* On the product page, what its first section submits.
LEMMA OfProductPage ==
  ASSUME TabInv, tab.page = "product"
  PROVE  /\ tab.as \in MediaRoles /\ tab.as \in ProductRoles
         /\ ~tab.priceForbidden => tab.as \in PriceRoles
         /\ Pictured(tab.pictures)
BY DEF TabInv, TabFits, MediaRoles, ProductRoles

\* A picture moves one place up.
LEMMA MoveKeeps ==
  ASSUME TabInv, NEW i \in Nat \ {0}, Move(i)
  PROVE  TabInv' /\ TabStep
<1> DEFINE order == Swapped(tab.pictures, i)
<1>1. /\ tab.page = "product" /\ i \in 1 .. Len(tab.pictures) - 1
      /\ tab.as \in MediaRoles /\ Pictured(tab.pictures)
  BY OfProductPage DEF Move
<1>2. Pictured(order)
  BY <1>1, SwapKeeps DEF Pictured
<1> HIDE DEF order
<1>3. ASSUME NEW code \in {MoveRefused(order), "lost"}, Refused("move", code)
      PROVE  TabInv' /\ TabStep
  <2>1. code = "FORBIDDEN" => tab.as # visitor
    BY <1>1, GateOfTab DEF MoveRefused
  <2> QED
    BY <1>3, <2>1, RefusedKeeps
<1>4. CASE MoveRefused(order) = "ok" /\ gallery' = order /\ UNCHANGED applications /\ Done("move")
  <2>1. TabInv' /\ last'.op = "move"
    BY <1>1, <1>2, <1>4, DoneKeeps DEF TabInv
  <2>2. Seqs!ToSet(gallery') = Seqs!ToSet(gallery)
    BY <1>4 DEF MoveRefused, Gate
  <2> QED
    BY <2>1, <2>2 DEF TabStep
<1> QED
  BY <1>3, <1>4 DEF Move, order

\* A picture is removed or uploaded.
LEMMA PictureKeeps ==
  ASSUME TabInv, NEW m \in Pictures, RemovePicture(m) \/ UploadPicture(m)
  PROVE  TabInv' /\ TabStep
<1>1. tab.page = "product" /\ tab.as \in MediaRoles
  BY OfProductPage DEF RemovePicture, UploadPicture
<1>2. ASSUME NEW op, NEW code \in {Gate(MediaRoles), RemoveRefused(m), "lost", "FILE_REFUSED"},
             Refused(op, code)
      PROVE  TabInv' /\ TabStep
  <2>1. code = "FORBIDDEN" => tab.as # visitor
    BY <1>1, GateOfTab DEF RemoveRefused
  <2> QED
    BY <1>2, <2>1, RefusedKeeps
<1>3. CASE Removed(m) /\ UNCHANGED applications /\ Done("remove")
  <2>1. Pictured(gallery')
    BY <1>3, RemoveKeeps DEF Removed, TabInv, Pictured
  <2>2. TabInv' /\ last'.op = "remove"
    BY <1>1, <1>3, <2>1, DoneKeeps DEF TabInv
  <2> QED
    BY <2>2 DEF TabStep
<1>4. CASE /\ m \notin Seqs!ToSet(gallery) /\ gallery' = Append(gallery, m)
           /\ UNCHANGED applications /\ Done("upload")
  <2>1. Pictured(gallery')
    BY <1>4, AppendKeeps DEF TabInv, Pictured
  <2>2. TabInv' /\ last'.op = "upload"
    BY <1>1, <1>4, <2>1, DoneKeeps DEF TabInv
  <2> QED
    BY <2>2 DEF TabStep
<1> QED
  BY <1>2, <1>3, <1>4 DEF RemovePicture, UploadPicture

\* The other forms, of which the stock form alone may be refused to who it was
\* shown to.
LEMMA SendFormKeeps ==
  ASSUME TabInv, NEW op, NEW roles, NEW codes, SendForm(op, roles, codes),
         "FORBIDDEN" \notin codes, op \notin {"decide", "move"},
         \/ op = "stock"
         \/ roles = ProductRoles
         \/ roles = PriceRoles /\ op \in {"price", "dropPrice"}
  PROVE  TabInv' /\ TabStep
<1>1. /\ tab.page = "product"
      /\ op = "stock" \/ tab.as \in roles
  BY OfProductPage DEF SendForm, Section
<1>2. ASSUME NEW code \in {Gate(roles), "lost"}, Refused(op, code)
      PROVE  TabInv' /\ TabStep
  BY <1>1, <1>2, GateOfTab, RefusedKeeps
<1>3. ASSUME NEW code \in codes, Refused(op, code)
      PROVE  TabInv' /\ TabStep
  BY <1>3, RefusedKeeps
<1>4. CASE UNCHANGED <<applications, gallery>> /\ Done(op)
  <2>1. TabInv' /\ last'.op = op
    BY <1>1, <1>4, DoneKeeps DEF TabInv
  <2> QED
    BY <2>1 DEF TabStep
<1> QED
  BY <1>2, <1>3, <1>4 DEF SendForm

\* The forms that only hear whether they were accepted.
LEMMA FormsKeep ==
  ASSUME TabInv,
         SaveVariant \/ SaveCert \/ DropCert \/ SavePrice \/ DropPrice \/ SaveStock
  PROVE  TabInv' /\ TabStep
<1>1. /\ "FORBIDDEN" \notin VariantCodes /\ "FORBIDDEN" \notin CertCodes
      /\ "FORBIDDEN" \notin DropCertCodes /\ "FORBIDDEN" \notin PriceCodes
      /\ "FORBIDDEN" \notin DropPriceCodes /\ "FORBIDDEN" \notin StockCodes
  BY DEF VariantCodes, CertCodes, DropCertCodes, PriceCodes, DropPriceCodes, StockCodes
<1>2. CASE SaveVariant
  BY <1>1, <1>2, SendFormKeeps DEF SaveVariant
<1>3. CASE SaveCert
  BY <1>1, <1>3, SendFormKeeps DEF SaveCert
<1>4. CASE DropCert
  BY <1>1, <1>4, SendFormKeeps DEF DropCert
<1>5. CASE SavePrice
  BY <1>1, <1>5, SendFormKeeps DEF SavePrice
<1>6. CASE DropPrice
  BY <1>1, <1>6, SendFormKeeps DEF DropPrice
<1>7. CASE SaveStock
  BY <1>1, <1>7, SendFormKeeps DEF SaveStock
<1> QED
  BY <1>2, <1>3, <1>4, <1>5, <1>6, <1>7

\* What happens beyond the tab, or renders another page, answers nothing.
LEMMA QuietKeeps ==
  ASSUME TabInv, last' = Quiet, visitor' \in Roles,
         applications' \in [Applicants -> Statuses \cup {"none"}],
         Pictured(gallery'), TabFits(tab')
  PROVE  TabInv' /\ TabStep
<1>1. last'.op = "none" /\ last'.code = "ok" /\ last'.notice = ""
  BY DEF Quiet
<1> QED
  BY <1>1 DEF TabInv, TabStep, ForbiddenOnlyAfterRoleChange, DeskNotices

\* What happens without this tab: a sign-in, an application, a colleague's work.
LEMMA BeyondKeeps ==
  ASSUME TabInv,
         \/ \E role \in Roles : SignIn(role)
         \/ \E a \in Applicants : Apply(a)
         \/ \E a \in Applicants, status \in Statuses \ {"PENDING"} : ColleagueDecides(a, status)
         \/ ColleagueEdits
  PROVE  TabInv' /\ TabStep
<1>1. ASSUME NEW role \in Roles, SignIn(role)
      PROVE  TabInv' /\ TabStep
  BY <1>1, QuietKeeps DEF SignIn, TabInv
<1>2. ASSUME NEW a \in Applicants, NEW status \in Statuses,
             applications' = [applications EXCEPT ![a] = status], last' = Quiet,
             UNCHANGED <<visitor, tab, gallery>>
      PROVE  TabInv' /\ TabStep
  <2>1. applications' \in [Applicants -> Statuses \cup {"none"}]
    BY <1>2 DEF TabInv
  <2> QED
    BY <1>2, <2>1, QuietKeeps DEF TabInv
<1>3. ASSUME NEW a \in Applicants, Apply(a)
      PROVE  TabInv' /\ TabStep
  BY <1>2, <1>3 DEF Apply, Statuses
<1>4. ASSUME NEW a \in Applicants, NEW status \in Statuses, ColleagueDecides(a, status)
      PROVE  TabInv' /\ TabStep
  BY <1>2, <1>4 DEF ColleagueDecides
<1>5. CASE ColleagueEdits
  <2>1. Pictured(gallery')
    <3>1. gallery \in Seq(Pictures) /\ Seqs!IsInjective(gallery)
      BY DEF TabInv, Pictured
    <3>2. ASSUME NEW i \in 1 .. Len(gallery) - 1, gallery' = Swapped(gallery, i)
          PROVE  Pictured(gallery')
      BY <3>1, <3>2, SwapKeeps DEF Pictured
    <3>3. ASSUME NEW m, Removed(m)
          PROVE  Pictured(gallery')
      BY <3>1, <3>3, RemoveKeeps DEF Removed, Pictured
    <3>4. ASSUME NEW m \in Pictures \ Seqs!ToSet(gallery), gallery' = Append(gallery, m)
          PROVE  Pictured(gallery')
      BY <3>1, <3>4, AppendKeeps DEF Pictured
    <3> QED
      BY <1>5, <3>2, <3>3, <3>4 DEF ColleagueEdits
  <2> QED
    BY <1>5, <2>1, QuietKeeps DEF ColleagueEdits, TabInv
<1> QED
  BY <1>1, <1>3, <1>4, <1>5

\* A page is opened: the tab shows what the rows are now.
LEMMA OpenTabKeeps ==
  ASSUME TabInv, NEW page \in {"home", "products", "product", "accounts"}, NEW status,
         Open(page, status)
  PROVE  TabInv' /\ TabStep
<1>1. TabFits(tab')
  BY RenderedTab DEF Open, TabInv
<1> QED
  BY <1>1, QuietKeeps DEF Open, TabInv

\* Every step of the tab keeps the invariant.
LEMMA TabKeeps ==
  ASSUME TabInv, [DeskNext]_deskVars
  PROVE  TabInv' /\ [TabStep]_deskVars
<1>1. CASE UNCHANGED deskVars
  BY <1>1 DEF deskVars, TabInv, ForbiddenOnlyAfterRoleChange
<1>2. CASE DeskNext
  <2>1. ASSUME NEW i \in 1 .. Cardinality(Pictures), Move(i)
        PROVE  TabInv' /\ TabStep
    <3>1. i \in Nat \ {0}
      BY <2>1, OfProductPage DEF Move, Pictured
    <3> QED
      BY <2>1, <3>1, MoveKeeps
  <2>2. ASSUME NEW a \in Applicants,
               ViewLicence(a) \/ \E status \in Statuses \ {"PENDING"} : Decide(a, status)
        PROVE  TabInv' /\ TabStep
    BY <2>2, ViewLicenceKeeps, DecideKeeps
  <2> QED
    BY <1>2, <2>1, <2>2, OpenTabKeeps, PictureKeeps, FormsKeep, BeyondKeeps DEF DeskNext
<1> QED
  BY <1>1, <1>2

\* The tab shows nothing yet.
LEMMA TabInitial == DeskInit => TabInv
<1> SUFFICES ASSUME DeskInit
             PROVE  TabInv
  OBVIOUS
<1>1. Pictured(gallery)
  BY DEF DeskInit, Pictured, Seqs!IsInjective
<1>2. TabFits(tab)
  BY <1>1, RenderedTab DEF DeskInit
<1>3. last.notice = "" /\ last.code = "ok"
  BY DEF DeskInit, Quiet
<1>4. visitor \in Roles /\ applications \in [Applicants -> Statuses \cup {"none"}]
  BY DEF DeskInit, Roles
<1> QED
  BY <1>1, <1>2, <1>3, <1>4 DEF TabInv, ForbiddenOnlyAfterRoleChange, DeskNotices

\* What the invariant says.
LEMMA TabInvGives ==
  TabInv => DeskTypeOK /\ ForbiddenOnlyAfterRoleChange /\ HiddenOnlyBehindNewer
<1> SUFFICES ASSUME TabInv
             PROVE  DeskTypeOK /\ ForbiddenOnlyAfterRoleChange /\ HiddenOnlyBehindNewer
  OBVIOUS
<1>1. DeskTypeOK
  BY ConsoleNotice DEF TabInv, TabFits, DeskTypeOK, Pictured, DeskNotices
<1>2. HiddenOnlyBehindNewer
  BY HiddenBehind DEF TabInv, TabFits, HiddenOnlyBehindNewer
<1> QED
  BY <1>1, <1>2 DEF TabInv

\* The steps explain what they do to decisions and to pictures.
LEMMA TabStepExplains == [][TabStep]_deskVars => OverturnedOnlyByStaleTab /\ MoveKeepsPictures
<1>1. [TabStep]_deskVars
        => /\ [\A a \in Applicants :
                  /\ last'.op = "decide"
                  /\ applications[a] # "PENDING" /\ applications'[a] # applications[a]
                  => tab.applied[a] = "PENDING"]_deskVars
           /\ [last'.op = "move" => Seqs!ToSet(gallery') = Seqs!ToSet(gallery)]_deskVars
  BY DEF TabStep
<1> QED
  BY <1>1, PTL DEF OverturnedOnlyByStaleTab, MoveKeepsPictures

\* A stale tab is refused a form it was offered only where another role signed
\* in since, overturns only what was decided since, hides only what stands
\* behind a full page, and never loses a picture by a move.
THEOREM DeskCorrect == DeskSpec => []DeskTypeOK /\ DeskExplained
<1>1. TabInv /\ [DeskNext]_deskVars => TabInv' /\ [TabStep]_deskVars
  BY TabKeeps
<1>2. DeskSpec => []TabInv /\ [][TabStep]_deskVars
  BY <1>1, TabInitial, PTL DEF DeskSpec
<1> QED
  BY <1>2, TabStepExplains, TabInvGives, PTL DEF DeskExplained

-----------------------------------------------------------------------------
(* Seed                                                                    *)

\* A section follows what has been listed.
LEMMA Joined ==
  ASSUME NEW S, NEW a \in Seq(S), NEW b \in Seq(S)
  PROVE  /\ a \o b \in Seq(S) /\ Len(a \o b) = Len(a) + Len(b)
         /\ \A i \in 1 .. Len(a) : (a \o b)[i] = a[i]
         /\ \A i \in Len(a) + 1 .. Len(a) + Len(b) : (a \o b)[i] = b[i - Len(a)]
<1>1. /\ a \o b \in Seq(S) /\ Len(a \o b) = Len(a) + Len(b)
      /\ \A i \in 1 .. Len(a) + Len(b) :
           (a \o b)[i] = IF i <= Len(a) THEN a[i] ELSE b[i - Len(a)]
  BY ConcatProperties
<1>2. Len(a) \in Nat /\ Len(b) \in Nat
  BY LenProperties
<1> QED
  BY <1>1, <1>2

\* A function on the first positions is a list.
LEMMA ListIs ==
  ASSUME NEW S, NEW n \in Nat, NEW f \in [1 .. n -> S]
  PROVE  f \in Seq(S) /\ Len(f) = n
OBVIOUS

\* The sections of the script, one after the other.
LEMMA Sections ==
  /\ Len(Script) = 23 /\ DOMAIN Script = 1 .. 23
  /\ \A i \in 1 .. 3 : Script[i] = TierSeeds[i]
  /\ \A i \in 4 .. 5 : Script[i] = StaffSeeds[i - 3]
  /\ \A i \in 6 .. 7 : Script[i] = CustomerSeeds[i - 5]
  /\ \A i \in 8 .. 11 : Script[i] = DealerSeeds[i - 7]
  /\ Script[12] = BrandSeeds[1]
  /\ \A i \in 13 .. 14 : Script[i] = CategorySeeds[i - 12]
  /\ \A i \in 15 .. 16 : Script[i] = ProductSeeds[i - 14]
  /\ \A i \in 17 .. 23 : Script[i] = VariantSeeds[i - 16]
<1> DEFINE S == {TierSeeds[i] : i \in 1 .. 3} \cup {StaffSeeds[i] : i \in 1 .. 2}
                  \cup {CustomerSeeds[i] : i \in 1 .. 2} \cup {DealerSeeds[i] : i \in 1 .. 4}
                  \cup {BrandSeeds[1]} \cup {CategorySeeds[i] : i \in 1 .. 2}
                  \cup {ProductSeeds[i] : i \in 1 .. 2} \cup {VariantSeeds[i] : i \in 1 .. 7}
<1>1. TierSeeds \in Seq(S) /\ Len(TierSeeds) = 3
  <2>1. \A i \in 1 .. 3 : TierSeeds[i] \in S
    OBVIOUS
  <2> HIDE DEF S
  <2> QED
    BY <2>1 DEF TierSeeds
<1>2. StaffSeeds \in Seq(S) /\ Len(StaffSeeds) = 2
  <2>1. \A i \in 1 .. 2 : StaffSeeds[i] \in S
    OBVIOUS
  <2> HIDE DEF S
  <2> QED
    BY <2>1 DEF StaffSeeds
<1>3. CustomerSeeds \in Seq(S) /\ Len(CustomerSeeds) = 2
  <2>1. \A i \in 1 .. 2 : CustomerSeeds[i] \in S
    OBVIOUS
  <2> HIDE DEF S
  <2> QED
    BY <2>1 DEF CustomerSeeds
<1>4. DealerSeeds \in Seq(S) /\ Len(DealerSeeds) = 4
  <2>1. \A i \in 1 .. 4 : DealerSeeds[i] \in S
    OBVIOUS
  <2> HIDE DEF S
  <2> QED
    BY <2>1 DEF DealerSeeds
<1>5. BrandSeeds \in Seq(S) /\ Len(BrandSeeds) = 1
  <2>1. BrandSeeds[1] \in S
    OBVIOUS
  <2> HIDE DEF S
  <2> QED
    BY <2>1 DEF BrandSeeds
<1>6. CategorySeeds \in Seq(S) /\ Len(CategorySeeds) = 2
  <2>1. \A i \in 1 .. 2 : CategorySeeds[i] \in S
    OBVIOUS
  <2> HIDE DEF S
  <2> QED
    BY <2>1 DEF CategorySeeds
<1>7. ProductSeeds \in Seq(S) /\ Len(ProductSeeds) = 2
  <2>1. \A i \in 1 .. 2 : ProductSeeds[i] \in S
    OBVIOUS
  <2> HIDE DEF S
  <2> QED
    BY <2>1 DEF ProductSeeds
<1>8. VariantSeeds \in Seq(S) /\ Len(VariantSeeds) = 7
  <2>1. \A i \in 1 .. 7 : VariantSeeds[i] \in S
    OBVIOUS
  <2> HIDE DEF S
  <2>2. DOMAIN VariantSeeds = 1 .. 7 /\ VariantSeeds = [i \in 1 .. 7 |-> VariantSeeds[i]]
    BY DEF VariantSeeds
  <2> HIDE DEF VariantSeeds
  <2>3. VariantSeeds \in [1 .. 7 -> S]
    BY <2>1, <2>2
  <2> QED
    BY <2>3, ListIs
<1> HIDE DEF S
<1> DEFINE a == TierSeeds \o StaffSeeds
           b == a \o CustomerSeeds
           c == b \o DealerSeeds
           d == c \o BrandSeeds
           e == d \o CategorySeeds
           f == e \o ProductSeeds
           g == f \o VariantSeeds
<1>11. /\ a \in Seq(S) /\ Len(a) = 5 /\ \A i \in 1 .. 3 : a[i] = TierSeeds[i]
       /\ \A i \in 4 .. 5 : a[i] = StaffSeeds[i - 3]
  <2>1. /\ a \in Seq(S) /\ Len(a) = Len(TierSeeds) + Len(StaffSeeds)
        /\ \A i \in 1 .. Len(TierSeeds) : a[i] = TierSeeds[i]
        /\ \A i \in Len(TierSeeds) + 1 .. Len(TierSeeds) + Len(StaffSeeds) :
             a[i] = StaffSeeds[i - Len(TierSeeds)]
    BY <1>1, <1>2, Joined, Zenon
  <2> HIDE DEF a
  <2> QED
    BY <1>1, <1>2, <2>1
<1> HIDE DEF a
<1>12. /\ b \in Seq(S) /\ Len(b) = 7 /\ \A i \in 1 .. 5 : b[i] = a[i]
       /\ \A i \in 6 .. 7 : b[i] = CustomerSeeds[i - 5]
  <2>1. /\ b \in Seq(S) /\ Len(b) = Len(a) + Len(CustomerSeeds)
        /\ \A i \in 1 .. Len(a) : b[i] = a[i]
        /\ \A i \in Len(a) + 1 .. Len(a) + Len(CustomerSeeds) : b[i] = CustomerSeeds[i - Len(a)]
    BY <1>11, <1>3, Joined, Zenon
  <2> HIDE DEF b
  <2> QED
    BY <1>11, <1>3, <2>1
<1> HIDE DEF b
<1>13. /\ c \in Seq(S) /\ Len(c) = 11 /\ \A i \in 1 .. 7 : c[i] = b[i]
       /\ \A i \in 8 .. 11 : c[i] = DealerSeeds[i - 7]
  <2>1. /\ c \in Seq(S) /\ Len(c) = Len(b) + Len(DealerSeeds)
        /\ \A i \in 1 .. Len(b) : c[i] = b[i]
        /\ \A i \in Len(b) + 1 .. Len(b) + Len(DealerSeeds) : c[i] = DealerSeeds[i - Len(b)]
    BY <1>12, <1>4, Joined, Zenon
  <2> HIDE DEF c
  <2> QED
    BY <1>12, <1>4, <2>1
<1> HIDE DEF c
<1>14. d \in Seq(S) /\ Len(d) = 12 /\ (\A i \in 1 .. 11 : d[i] = c[i]) /\ d[12] = BrandSeeds[1]
  <2>1. /\ d \in Seq(S) /\ Len(d) = Len(c) + Len(BrandSeeds)
        /\ \A i \in 1 .. Len(c) : d[i] = c[i]
        /\ \A i \in Len(c) + 1 .. Len(c) + Len(BrandSeeds) : d[i] = BrandSeeds[i - Len(c)]
    BY <1>13, <1>5, Joined, Zenon
  <2> HIDE DEF d
  <2> QED
    BY <1>13, <1>5, <2>1
<1> HIDE DEF d
<1>15. /\ e \in Seq(S) /\ Len(e) = 14 /\ \A i \in 1 .. 12 : e[i] = d[i]
       /\ \A i \in 13 .. 14 : e[i] = CategorySeeds[i - 12]
  <2>1. /\ e \in Seq(S) /\ Len(e) = Len(d) + Len(CategorySeeds)
        /\ \A i \in 1 .. Len(d) : e[i] = d[i]
        /\ \A i \in Len(d) + 1 .. Len(d) + Len(CategorySeeds) : e[i] = CategorySeeds[i - Len(d)]
    BY <1>14, <1>6, Joined, Zenon
  <2> HIDE DEF e
  <2> QED
    BY <1>14, <1>6, <2>1
<1> HIDE DEF e
<1>16. /\ f \in Seq(S) /\ Len(f) = 16 /\ \A i \in 1 .. 14 : f[i] = e[i]
       /\ \A i \in 15 .. 16 : f[i] = ProductSeeds[i - 14]
  <2>1. /\ f \in Seq(S) /\ Len(f) = Len(e) + Len(ProductSeeds)
        /\ \A i \in 1 .. Len(e) : f[i] = e[i]
        /\ \A i \in Len(e) + 1 .. Len(e) + Len(ProductSeeds) : f[i] = ProductSeeds[i - Len(e)]
    BY <1>15, <1>7, Joined, Zenon
  <2> HIDE DEF f
  <2> QED
    BY <1>15, <1>7, <2>1
<1> HIDE DEF f
<1>17. /\ g \in Seq(S) /\ Len(g) = 23 /\ \A i \in 1 .. 16 : g[i] = f[i]
       /\ \A i \in 17 .. 23 : g[i] = VariantSeeds[i - 16]
  <2>1. /\ g \in Seq(S) /\ Len(g) = Len(f) + Len(VariantSeeds)
        /\ \A i \in 1 .. Len(f) : g[i] = f[i]
        /\ \A i \in Len(f) + 1 .. Len(f) + Len(VariantSeeds) : g[i] = VariantSeeds[i - Len(f)]
    BY <1>16, <1>8, Joined, Zenon
  <2> HIDE DEF g
  <2> QED
    BY <1>16, <1>8, <2>1
<1>18. Script = g
  BY DEF Script, g, f, e, d, c, b, a
<1> HIDE DEF g
<1>19. DOMAIN Script = 1 .. 23
  BY <1>17, <1>18
<1>20. /\ \A i \in 1 .. 16 : Script[i] = f[i]
       /\ \A i \in 17 .. 23 : Script[i] = VariantSeeds[i - 16]
  BY <1>17, <1>18
<1>21. /\ \A i \in 1 .. 14 : Script[i] = e[i]
       /\ \A i \in 15 .. 16 : Script[i] = ProductSeeds[i - 14]
  <2>1. ASSUME NEW i \in 1 .. 14
        PROVE  Script[i] = e[i]
    BY <1>16, <1>20, i \in 1 .. 16
  <2>2. ASSUME NEW i \in 15 .. 16
        PROVE  Script[i] = ProductSeeds[i - 14]
    BY <1>16, <1>20, i \in 1 .. 16
  <2> QED
    BY <2>1, <2>2
<1>22. /\ \A i \in 1 .. 12 : Script[i] = d[i]
       /\ \A i \in 13 .. 14 : Script[i] = CategorySeeds[i - 12]
  BY <1>15, <1>21
<1>23. (\A i \in 1 .. 11 : Script[i] = c[i]) /\ Script[12] = BrandSeeds[1]
  BY <1>14, <1>22
<1>24. /\ \A i \in 1 .. 7 : Script[i] = b[i]
       /\ \A i \in 8 .. 11 : Script[i] = DealerSeeds[i - 7]
  BY <1>13, <1>23
<1>25. /\ \A i \in 1 .. 5 : Script[i] = a[i]
       /\ \A i \in 6 .. 7 : Script[i] = CustomerSeeds[i - 5]
  BY <1>12, <1>24
<1>26. /\ \A i \in 1 .. 3 : Script[i] = TierSeeds[i]
       /\ \A i \in 4 .. 5 : Script[i] = StaffSeeds[i - 3]
  BY <1>11, <1>25
<1>27. Len(Script) = 23
  BY <1>17, <1>18
<1> QED
  BY <1>19, <1>20, <1>21, <1>22, <1>23, <1>24, <1>25, <1>26, <1>27

\* The statements, one by one: what each upserts, whose row it is, and the other
\* unique column.
Upserts(i, table, key, parent, alt) ==
  /\ Script[i].table = table /\ Script[i].key = key /\ Script[i].parent = parent
  /\ Script[i].alt = alt

\* The statements, one after the other.
LEMMA Statements ==
  /\ Upserts(1, "tier", "RETAIL", Null, Null)
  /\ Upserts(2, "tier", "DEALER_A", Null, Null)
  /\ Upserts(3, "tier", "DEALER_B", Null, Null)
  /\ Upserts(4, "account", "admin", Null, Null)
  /\ Upserts(5, "profile", "admin", Null, Null)
  /\ Upserts(6, "account", "customer", Null, Null)
  /\ Upserts(7, "profile", "customer", Null, Null)
  /\ Upserts(8, "account", "dealer", Null, Null)
  /\ Upserts(9, "business", "dealer", Null, "tax1")
  /\ Upserts(10, "account", "pending", Null, Null)
  /\ Upserts(11, "business", "pending", Null, "tax2")
  /\ Upserts(12, "brand", "LEGO", Null, Null)
  /\ Upserts(13, "category", "cat", Null, Null)
  /\ Upserts(14, "text", "vi", Of("category", "cat"), "cat-slug")
  /\ Upserts(15, "product", "product", Of("brand", "LEGO"), Null)
  /\ Upserts(16, "text", "vi", Of("product", "product"), "slug")
  /\ Upserts(17, "variant", "sku", Of("product", "product"), "barcode")
  /\ Upserts(18, "cert", "cert-sku", Of("variant", "sku"), Null)
  /\ Upserts(19, "price", "RETAIL", Of("variant", "sku"), Null)
  /\ Upserts(20, "price", "DEALER_A", Of("variant", "sku"), Null)
  /\ Upserts(21, "price", "DEALER_A_12", Of("variant", "sku"), Null)
  /\ Upserts(22, "price", "DEALER_B", Of("variant", "sku"), Null)
  /\ Upserts(23, "stock", "stock", Of("variant", "sku"), Null)
<1> USE DEF Upserts, Plain, Upsert, Priced
<1>1. /\ Upserts(1, "tier", "RETAIL", Null, Null)
      /\ Upserts(2, "tier", "DEALER_A", Null, Null)
      /\ Upserts(3, "tier", "DEALER_B", Null, Null)
  BY Sections DEF TierSeeds
<1>2. /\ Upserts(4, "account", "admin", Null, Null)
      /\ Upserts(5, "profile", "admin", Null, Null)
  BY Sections DEF StaffSeeds
<1>3. /\ Upserts(6, "account", "customer", Null, Null)
      /\ Upserts(7, "profile", "customer", Null, Null)
  BY Sections DEF CustomerSeeds
<1>4. /\ Upserts(8, "account", "dealer", Null, Null)
      /\ Upserts(9, "business", "dealer", Null, "tax1")
      /\ Upserts(10, "account", "pending", Null, Null)
      /\ Upserts(11, "business", "pending", Null, "tax2")
  BY Sections DEF DealerSeeds
<1>5. Upserts(12, "brand", "LEGO", Null, Null)
  BY Sections DEF BrandSeeds
<1>6. /\ Upserts(13, "category", "cat", Null, Null)
      /\ Upserts(14, "text", "vi", Of("category", "cat"), "cat-slug")
  BY Sections DEF CategorySeeds
<1>7. /\ Upserts(15, "product", "product", Of("brand", "LEGO"), Null)
      /\ Upserts(16, "text", "vi", Of("product", "product"), "slug")
  BY Sections DEF ProductSeeds
<1>8. \A i \in 17 .. 23 : Script[i] = VariantSeeds[i - 16]
  BY Sections
<1>9. Upserts(17, "variant", "sku", Of("product", "product"), "barcode")
  <2>1. Script[17] = VariantSeeds[1]
    BY <1>8
  <2> QED
    BY <2>1 DEF VariantSeeds
<1>10. Upserts(18, "cert", "cert-sku", Of("variant", "sku"), Null)
  <2>1. Script[18] = VariantSeeds[2]
    BY <1>8
  <2> QED
    BY <2>1 DEF VariantSeeds
<1>11. Upserts(19, "price", "RETAIL", Of("variant", "sku"), Null)
  <2>1. Script[19] = VariantSeeds[3]
    BY <1>8
  <2> QED
    BY <2>1 DEF VariantSeeds
<1>12. Upserts(20, "price", "DEALER_A", Of("variant", "sku"), Null)
  <2>1. Script[20] = VariantSeeds[4]
    BY <1>8
  <2> QED
    BY <2>1 DEF VariantSeeds
<1>13. Upserts(21, "price", "DEALER_A_12", Of("variant", "sku"), Null)
  <2>1. Script[21] = VariantSeeds[5]
    BY <1>8
  <2> QED
    BY <2>1 DEF VariantSeeds
<1>14. Upserts(22, "price", "DEALER_B", Of("variant", "sku"), Null)
  <2>1. Script[22] = VariantSeeds[6]
    BY <1>8
  <2> QED
    BY <2>1 DEF VariantSeeds
<1>15. Upserts(23, "stock", "stock", Of("variant", "sku"), Null)
  <2>1. Script[23] = VariantSeeds[7]
    BY <1>8
  <2> QED
    BY <2>1 DEF VariantSeeds
<1> QED
  BY <1>1, <1>2, <1>3, <1>4, <1>5, <1>6, <1>7, <1>9, <1>10, <1>11, <1>12, <1>13, <1>14, <1>15

\* The row a statement upserts, by its table and key.
Ref(j) == Of(Script[j].table, Script[j].key)

\* Which statements upsert into a table.
LEMMA ByTable ==
  ASSUME NEW j \in 1 .. 23
  PROVE  /\ Script[j].table = "tier" => j \in 1 .. 3
         /\ Script[j].table = "account" => j \in {4, 6, 8, 10}
         /\ Script[j].table = "profile" => j \in {5, 7}
         /\ Script[j].table = "business" => j \in {9, 11}
         /\ Script[j].table = "brand" => j = 12
         /\ Script[j].table = "category" => j = 13
         /\ Script[j].table = "text" => j \in {14, 16}
         /\ Script[j].table = "product" => j = 15
         /\ Script[j].table = "variant" => j = 17
         /\ Script[j].table = "cert" => j = 18
         /\ Script[j].table = "price" => j \in 19 .. 22
         /\ Script[j].table = "stock" => j = 23
BY Statements DEF Upserts

\* The tables there are.
LEMMA TablesAre ==
  Tables = {"tier", "account", "profile", "business", "brand", "category", "text",
            "product", "variant", "cert", "price", "stock"}
<1>1. \A j \in 1 .. 23 :
        Script[j].table \in {"tier", "account", "profile", "business", "brand", "category",
                             "text", "product", "variant", "cert", "price", "stock"}
  BY Statements DEF Upserts
<1>2. /\ Script[1].table = "tier" /\ Script[4].table = "account" /\ Script[5].table = "profile"
      /\ Script[9].table = "business" /\ Script[12].table = "brand"
      /\ Script[13].table = "category" /\ Script[14].table = "text"
      /\ Script[15].table = "product" /\ Script[17].table = "variant"
      /\ Script[18].table = "cert" /\ Script[19].table = "price" /\ Script[23].table = "stock"
  BY Statements DEF Upserts
<1>3. DOMAIN Script = 1 .. 23
  BY Sections
<1> QED
  BY <1>1, <1>2, <1>3 DEF Tables

\* A reference is by table and key.
LEMMA RefEqual ==
  ASSUME NEW t, NEW k, NEW u, NEW l, Of(t, k) = Of(u, l)
  PROVE  t = u /\ k = l
<1>1. Of(t, k).table = t /\ Of(t, k).key = k /\ Of(u, l).table = u /\ Of(u, l).key = l
  BY DEF Of
<1> QED
  BY <1>1

\* A statement refers to a row that an earlier one upserts.
LEMMA ParentsFirst ==
  ASSUME NEW j \in 1 .. 23, Script[j].parent # Null
  PROVE  /\ Script[j].parent \in Referred
         /\ \E k \in 1 .. 23 : k < j /\ Ref(k) = Script[j].parent
<1>1. /\ Ref(12) = Of("brand", "LEGO") /\ Ref(13) = Of("category", "cat")
      /\ Ref(15) = Of("product", "product") /\ Ref(17) = Of("variant", "sku")
  BY Statements DEF Upserts, Ref
<1>2. \/ j = 14 /\ Script[j].parent = Of("category", "cat")
      \/ j = 15 /\ Script[j].parent = Of("brand", "LEGO")
      \/ j \in {16, 17} /\ Script[j].parent = Of("product", "product")
      \/ j \in 18 .. 23 /\ Script[j].parent = Of("variant", "sku")
  BY Statements DEF Upserts
<1> QED
  BY <1>1, <1>2 DEF Referred

\* Compound keys have a parent.
LEMMA CompoundParent ==
  ASSUME NEW j \in 1 .. 23, Script[j].table \in Compound
  PROVE  /\ Script[j].parent # Null
         /\ Script[j].table = "price" => Script[j].parent = Of("variant", "sku")
         /\ Script[j].table = "text" => Script[j].parent.table \in {"category", "product"}
         /\ Script[j].parent.table \in {"category", "product", "variant"}
<1>1. /\ Of("category", "cat").table = "category" /\ Of("product", "product").table = "product"
      /\ Of("variant", "sku").table = "variant"
  BY DEF Of
<1>2. \/ j = 14 /\ Script[j].parent = Of("category", "cat")
      \/ j = 16 /\ Script[j].parent = Of("product", "product")
      \/ j \in 19 .. 23 /\ Script[j].parent = Of("variant", "sku")
  BY ByTable, Statements DEF Upserts, Compound
<1>3. Script[j].table = "price" => j \in 19 .. 22
  BY ByTable
<1>4. Script[j].table = "text" => j \in {14, 16}
  BY ByTable
<1> QED
  BY <1>1, <1>2, <1>3, <1>4, NullIsNoRow DEF Referred

\* No two statements upsert one row; texts of a locale are of two parents.
LEMMA RefsDiffer ==
  ASSUME NEW i \in 1 .. 23, NEW j \in 1 .. 23, i # j,
         Script[i].table = Script[j].table, Script[i].key = Script[j].key
  PROVE  Script[i].table = "text" /\ Script[i].parent.table # Script[j].parent.table
<1>1. Script[i].table \in Tables
  BY Sections DEF Tables
<1>2. CASE Script[i].table = "tier"
  <2>1. i \in 1 .. 3 /\ j \in 1 .. 3
    BY <1>2, ByTable
  <2>2. Script[1].key = "RETAIL" /\ Script[2].key = "DEALER_A" /\ Script[3].key = "DEALER_B"
    BY Statements DEF Upserts
  <2> QED
    BY <2>1, <2>2
<1>3. CASE Script[i].table = "account"
  <2>1. i \in {4, 6, 8, 10} /\ j \in {4, 6, 8, 10}
    BY <1>3, ByTable
  <2>2. /\ Script[4].key = "admin" /\ Script[6].key = "customer"
        /\ Script[8].key = "dealer" /\ Script[10].key = "pending"
    BY Statements DEF Upserts
  <2> QED
    BY <2>1, <2>2
<1>4. CASE Script[i].table = "profile"
  <2>1. i \in {5, 7} /\ j \in {5, 7}
    BY <1>4, ByTable
  <2>2. Script[5].key = "admin" /\ Script[7].key = "customer"
    BY Statements DEF Upserts
  <2> QED
    BY <2>1, <2>2
<1>5. CASE Script[i].table = "business"
  <2>1. i \in {9, 11} /\ j \in {9, 11}
    BY <1>5, ByTable
  <2>2. Script[9].key = "dealer" /\ Script[11].key = "pending"
    BY Statements DEF Upserts
  <2> QED
    BY <2>1, <2>2
<1>6. CASE Script[i].table \in {"brand", "category", "product", "variant", "cert", "stock"}
  BY <1>6, ByTable
<1>7. CASE Script[i].table = "price"
  <2>1. i \in 19 .. 22 /\ j \in 19 .. 22
    BY <1>7, ByTable
  <2>2. /\ Script[19].key = "RETAIL" /\ Script[20].key = "DEALER_A"
        /\ Script[21].key = "DEALER_A_12" /\ Script[22].key = "DEALER_B"
    BY Statements DEF Upserts
  <2> QED
    BY <2>1, <2>2
<1>8. CASE Script[i].table = "text"
  <2>1. i \in {14, 16} /\ j \in {14, 16}
    BY <1>8, ByTable
  <2>2. /\ Script[14].parent = Of("category", "cat")
        /\ Script[16].parent = Of("product", "product")
    BY Statements DEF Upserts
  <2> QED
    BY <2>1, <2>2, <1>8 DEF Of
<1> QED
  BY <1>1, <1>2, <1>3, <1>4, <1>5, <1>6, <1>7, <1>8, TablesAre

\* No two statements set a second unique column to one value.
LEMMA AltsDiffer ==
  ASSUME NEW i \in 1 .. 23, NEW j \in 1 .. 23, Script[i].alt # Null,
         Script[i].table = Script[j].table, Script[i].alt = Script[j].alt
  PROVE  i = j /\ Script[i].table # "brand" /\ Script[i].alt # "changed"
<1>1. /\ i \in {9, 11, 14, 16, 17}
      /\ j \in {9, 11, 14, 16, 17}
  BY Statements DEF Upserts
<1> QED
  BY <1>1, Statements DEF Upserts

\* No seeded row bears the name or the code that staff give one.
LEMMA RealKeys ==
  ASSUME NEW j \in 1 .. 23
  PROVE  /\ Script[j].key # "renamed" /\ Script[j].key # "other"
         /\ Script[j].alt # Null => Script[j].alt # "changed"
         /\ Script[j].table \in {"brand", "product", "price"} => Script[j].alt = Null
BY Statements, ByTable DEF Upserts

\* Staff have given another row a unique value of the script.
Taken(t) ==
  \/ t = "text" /\ "slugTaken" \in edited
  \/ t = "variant" /\ "barcodeTaken" \in edited
  \/ t = "business" /\ "taxIdTaken" \in edited

\* Every id was given out by its table, but for that of such a row; it names one row.
IdFits(t, r) ==
  \/ r.id[1] = t /\ r.id[2] \in Nat /\ r.id[2] < Cardinality(base[t])
  \/ r.id = Other /\ Taken(t)

IdsHold ==
  /\ DOMAIN base = Tables
  /\ base = [t \in Tables |-> base[t]]
  /\ \A t \in Tables :
       /\ IsFiniteSet(base[t])
       /\ \A r \in base[t] : IdFits(t, r)
       /\ \A r, o \in base[t] : r.id = o.id => r = o

\* A row by its key, and parent where the key is compound, is one.
KeysHold ==
  \A t \in Tables : \A r, o \in base[t] :
     r.key = o.key /\ (t \in Compound => r.parent = o.parent) => r = o

\* A row is put in the place of one with its id, if there is one, or added.
Put(t, F, n) ==
  /\ base' = [base EXCEPT ![t] = (@ \ F) \cup {n}]
  /\ F \subseteq base[t]
  /\ \A x \in F : x.id = n.id
  /\ F = {} => \/ n.id = <<t, Cardinality(base[t])>>
               \/ n.id = Other /\ ~Taken(t) /\ Taken(t)'

\* The other tables stay.
LEMMA PutTables ==
  ASSUME IdsHold, NEW t \in Tables, NEW F, NEW n, Put(t, F, n)
  PROVE  /\ DOMAIN base' = Tables /\ base' = [u \in Tables |-> base'[u]]
         /\ base'[t] = (base[t] \ F) \cup {n}
         /\ \A u \in Tables : u # t => base'[u] = base[u]
BY DEF Put, IdsHold

\* Its id is no other row's.
LEMMA PutFresh ==
  ASSUME IdsHold, NEW t \in Tables, NEW F, NEW n, Put(t, F, n)
  PROVE  /\ \A o \in base[t] \ F : o.id # n.id
         /\ F = {} \/ \E x \in base[t] : F = {x} /\ x.id = n.id
<1>1. CASE F = {}
  <2>1. CASE n.id = <<t, Cardinality(base[t])>>
    <3>1. n.id[1] = t /\ n.id[2] = Cardinality(base[t]) /\ Cardinality(base[t]) \in Nat
      BY <2>1, FS_CardinalityType DEF IdsHold
    <3>2. t # "other"
      BY TablesAre
    <3>3. Other[1] = "other"
      BY DEF Other
    <3>4. ASSUME NEW o \in base[t], o.id = n.id
          PROVE  FALSE
      <4>1. IdFits(t, o)
        BY DEF IdsHold
      <4> QED
        BY <4>1, <3>1, <3>2, <3>3, <3>4 DEF IdFits
    <3> QED
      BY <1>1, <3>4
  <2>2. CASE n.id = Other /\ ~Taken(t)
    <3>0. t # "other" /\ Other[1] = "other"
      BY TablesAre DEF Other
    <3>1. ASSUME NEW o \in base[t], o.id = n.id
          PROVE  FALSE
      <4>1. IdFits(t, o)
        BY DEF IdsHold
      <4> QED
        BY <4>1, <3>0, <3>1, <2>2 DEF IdFits
    <3> QED
      BY <1>1, <3>1
  <2> QED
    BY <1>1, <2>1, <2>2 DEF Put
<1>2. CASE F # {}
  <2>1. PICK x \in F : TRUE
    BY <1>2
  <2>2. x \in base[t] /\ x.id = n.id
    BY <2>1 DEF Put
  <2>3. \A y \in F : y = x
    BY <2>2 DEF Put, IdsHold
  <2>4. F = {x}
    BY <2>1, <2>3
  <2>5. \A o \in base[t] \ F : o.id # n.id
    BY <2>2, <2>4 DEF IdsHold
  <2> QED
    BY <2>2, <2>4, <2>5
<1> QED
  BY <1>1, <1>2

\* A table grows by the rows added.
LEMMA PutCounts ==
  ASSUME IdsHold, NEW t \in Tables, NEW F, NEW n, Put(t, F, n)
  PROVE  /\ IsFiniteSet(base'[t])
         /\ Cardinality(base[t]) \in Nat
         /\ F = {} => Cardinality(base'[t]) = Cardinality(base[t]) + 1
         /\ F # {} => Cardinality(base'[t]) = Cardinality(base[t])
<1>1. IsFiniteSet(base[t]) /\ Cardinality(base[t]) \in Nat
  BY FS_CardinalityType DEF IdsHold
<1>2. base'[t] = (base[t] \ F) \cup {n}
  BY PutTables
<1>3. n \notin base[t] \ F
  BY PutFresh
<1>4. CASE F = {}
  <2>1. base[t] \ F = base[t]
    BY <1>4
  <2>2. /\ IsFiniteSet(base[t] \cup {n})
        /\ Cardinality(base[t] \cup {n}) = Cardinality(base[t]) + 1
    BY <1>1, <1>3, <2>1, FS_AddElement
  <2> QED
    BY <1>1, <1>2, <1>4, <2>1, <2>2
<1>5. CASE F # {}
  <2>1. PICK x \in base[t] : F = {x}
    BY <1>5, PutFresh
  <2>2. IsFiniteSet(base[t] \ {x}) /\ Cardinality(base[t] \ {x}) = Cardinality(base[t]) - 1
    BY <1>1, FS_RemoveElement
  <2>3. /\ IsFiniteSet((base[t] \ {x}) \cup {n})
        /\ Cardinality((base[t] \ {x}) \cup {n}) = Cardinality(base[t] \ {x}) + 1
    BY <2>1, <2>2, <1>3, FS_AddElement
  <2> QED
    BY <1>1, <1>2, <1>5, <2>1, <2>2, <2>3
<1> QED
  BY <1>1, <1>4, <1>5

\* Ids stay unique.
LEMMA PutIds ==
  ASSUME IdsHold, NEW t \in Tables, NEW F, NEW n, Put(t, F, n), edited \subseteq edited'
  PROVE  IdsHold'
<1>1. /\ DOMAIN base' = Tables /\ base' = [u \in Tables |-> base'[u]]
      /\ base'[t] = (base[t] \ F) \cup {n}
      /\ \A u \in Tables : u # t => base'[u] = base[u]
  BY PutTables
<1>2. ASSUME NEW u \in Tables, u # t
      PROVE  /\ IsFiniteSet(base'[u])
             /\ \A r \in base'[u] : IdFits(u, r)'
             /\ \A r, o \in base'[u] : r.id = o.id => r = o
  BY <1>1, <1>2 DEF IdsHold, IdFits, Taken
<1>3. IsFiniteSet(base'[t])
  BY PutCounts
<1>4. \A r, o \in base'[t] : r.id = o.id => r = o
  BY <1>1, PutFresh DEF IdsHold
<1>5. Cardinality(base[t]) \in Nat /\ Cardinality(base'[t]) >= Cardinality(base[t])
      /\ Cardinality(base'[t]) \in Nat
      /\ (F = {} => Cardinality(base'[t]) > Cardinality(base[t]))
  BY PutCounts
<1>6. ASSUME NEW r \in base[t]
      PROVE  IdFits(t, r)'
  <2>1. IdFits(t, r)
    BY DEF IdsHold
  <2> QED
    BY <1>5, <2>1 DEF IdFits, Taken
<1>7. IdFits(t, n)'
  <2>1. CASE F = {} /\ n.id = <<t, Cardinality(base[t])>>
    BY <2>1, <1>5 DEF IdFits
  <2>2. CASE n.id = Other /\ Taken(t)'
    BY <2>2 DEF IdFits
  <2>3. CASE F # {}
    <3>1. PICK x \in base[t] : x.id = n.id
      BY <2>3, PutFresh
    <3>2. IdFits(t, x)'
      BY <1>6
    <3> QED
      BY <3>1, <3>2 DEF IdFits
  <2> QED
    BY <2>1, <2>2, <2>3 DEF Put
<1>8. \A r \in base'[t] : IdFits(t, r)'
  BY <1>1, <1>6, <1>7
<1> HIDE DEF IdFits
<1>9. \A u \in Tables : /\ IsFiniteSet(base'[u])
                        /\ \A r \in base'[u] : IdFits(u, r)'
                        /\ \A r, o \in base'[u] : r.id = o.id => r = o
  BY <1>2, <1>3, <1>4, <1>8
<1> QED
  BY <1>1, <1>9 DEF IdsHold

\* Keys stay unique if no row left has the new one's.
LEMMA PutKeys ==
  ASSUME IdsHold, KeysHold, NEW t \in Tables, NEW F, NEW n, Put(t, F, n),
         \A o \in base[t] \ F :
            ~(o.key = n.key /\ (t \in Compound => o.parent = n.parent))
  PROVE  KeysHold'
<1>1. /\ base'[t] = (base[t] \ F) \cup {n}
      /\ \A u \in Tables : u # t => base'[u] = base[u]
  BY PutTables
<1> QED
  BY <1>1 DEF KeysHold

\* Every row is still there, or another in its place.
LEMMA PutKeepsRows ==
  ASSUME IdsHold, NEW t \in Tables, NEW F, NEW n, Put(t, F, n), NEW u \in Tables, NEW r \in base[u]
  PROVE  r \in base'[u] \/ (u = t /\ r \in F /\ n \in base'[u] /\ n.id = r.id)
BY PutTables DEF Put

\* Names of rows that staff can change.
Renamed(t) ==
  \/ t = "brand" /\ "brandName" \in edited
  \/ t = "variant" /\ "sku" \in edited

\* A row has a new name only where staff gave one, and a name or, as a text, a
\* parent out of the script only where another row has taken a value of it.
NamesHold ==
  \A t \in Tables : \A r \in base[t] :
     /\ r.key = "renamed" => Renamed(t)
     /\ r.key = "other" \/ (t = "text" /\ r.parent = Other) => Taken(t)

\* A statement has been executed by the run that is on, or by one that completed.
Executed(j) == line > j \/ outcome = "complete"

\* What the run holds are ids of rows, with the names they were asked for unless
\* staff renamed them, each of a statement executed; of what others refer to, one id.
HeldHolds ==
  /\ \A h \in held :
       /\ h.of.table \in Tables
       /\ \E r \in base[h.of.table] :
             r.id = h.id /\ (Renamed(h.of.table) \/ r.key = h.of.key)
  /\ \A g, h \in held : g.of = h.of /\ g.of \in Referred => g.id = h.id
  /\ line > 0 => \A h \in held : \E j \in 1 .. 23 : j < line /\ h.of = Ref(j)
  /\ \A j \in 1 .. 23 : Executed(j) => \E h \in held : h.of = Ref(j)

\* A run that is on is at a statement.
LinesHold ==
  /\ line \in 0 .. 23
  /\ outcome \in {"none", "running", "complete", "failed", "crashed"}
  /\ line > 0 => outcome = "running"

\* Prices are of a variant that has its retail price.
PricesHold ==
  \A r \in base["price"] :
     /\ \E v \in base["variant"] : v.id = r.parent
     /\ \E o \in base["price"] : o.key = "RETAIL" /\ o.parent = r.parent
     /\ "price" \notin edited
          => \E j \in 19 .. 22 : r.key = Script[j].key /\ r.data.amount = Script[j].set.amount

\* A product says whether it is sold.
ProductsHold == \A r \in base["product"] : "active" \in DOMAIN r.data

\* A row is what a statement seeds: by its key, and that of its parent where the
\* key is compound.
SeededBy(t, r, j) ==
  /\ Script[j].table = t /\ r.key = Script[j].key
  /\ t \in Compound => \E p \in base[Script[j].parent.table] :
                          p.id = r.parent /\ p.key = Script[j].parent.key
  /\ r.alt = Script[j].alt \/ r.alt = "changed"

RowsHold ==
  "sku" \notin edited
    => \A t \in Tables : \A r \in base[t] :
          \/ r.id = Other \/ (t = "brand" /\ "brandName" \in edited)
          \/ \E j \in 1 .. 23 : SeededBy(t, r, j)

\* What a statement executed has written is still there, with its columns while
\* nobody has edited anything since.
Left(j, r) ==
  /\ r \in Matches(Script[j])
  /\ ~touched => /\ r.alt = Script[j].alt
                 /\ \A c \in DOMAIN Script[j].set : r.data[c] = Script[j].set[c]

DoneHolds ==
  \A j \in 1 .. 23 :
     Executed(j) /\ (~touched \/ Script[j].table = "price")
       => \E r \in base[Script[j].table] : Left(j, r)

\* The inductive invariant.
SeedInv ==
  /\ IdsHold /\ KeysHold /\ NamesHold /\ HeldHolds /\ LinesHold /\ PricesHold
  /\ ProductsHold /\ RowsHold /\ DoneHolds

-----------------------------------------------------------------------------

\* The row a statement refers to is the one an earlier statement upserted.
LEMMA ParentIs ==
  ASSUME SeedInv, NEW j \in 1 .. 23, Script[j].parent # Null, line = j \/ Executed(j)
  PROVE  /\ \E h \in held : h.of = Script[j].parent
         /\ \A h \in held : h.of = Script[j].parent => ParentId(Script[j]) = h.id
<1>1. PICK k \in 1 .. 23 : k < j /\ Ref(k) = Script[j].parent
  BY ParentsFirst
<1>2. Script[j].parent \in Referred
  BY ParentsFirst
<1>3. Executed(k)
  BY <1>1 DEF Executed, SeedInv, LinesHold
<1>4. PICK h \in held : h.of = Script[j].parent
  BY <1>1, <1>3 DEF SeedInv, HeldHolds
<1>5. \A g \in held : g.of = Script[j].parent => g.id = h.id
  BY <1>2, <1>4 DEF SeedInv, HeldHolds
<1>6. ParentId(Script[j]) = (CHOOSE g \in held : g.of = Script[j].parent).id
  BY DEF ParentId
<1>7. (CHOOSE g \in held : g.of = Script[j].parent) \in held
      /\ (CHOOSE g \in held : g.of = Script[j].parent).of = Script[j].parent
  BY <1>4
<1>8. ParentId(Script[j]) = h.id
  BY <1>5, <1>6, <1>7
<1> QED
  BY <1>4, <1>5, <1>8

\* It has the name it was asked for, unless staff renamed it.
LEMMA ParentRow ==
  ASSUME SeedInv, NEW j \in 1 .. 23, Script[j].parent # Null, line = j \/ Executed(j)
  PROVE  /\ Script[j].parent.table \in Tables
         /\ \E p \in base[Script[j].parent.table] :
              /\ p.id = ParentId(Script[j])
              /\ Renamed(Script[j].parent.table) \/ p.key = Script[j].parent.key
<1>1. PICK h \in held : h.of = Script[j].parent
  BY ParentIs
<1>2. ParentId(Script[j]) = h.id
  BY <1>1, ParentIs
<1> QED
  BY <1>1, <1>2 DEF SeedInv, HeldHolds

\* The row a statement writes: in the place of the one found, or new.
LEMMA SeededRow ==
  ASSUME SeedInv, NEW j \in 1 .. 23, NEW n, n = Written(Script[j], Matches(Script[j]))
  PROVE  /\ n.key = Script[j].key /\ n.parent = ParentId(Script[j]) /\ n.alt = Script[j].alt
         /\ Matches(Script[j]) \subseteq base[Script[j].table]
         /\ \A x \in Matches(Script[j]) : n.id = x.id /\ n.data = Merge(x.data, Script[j].set)
         /\ Matches(Script[j]) = {}
              => /\ n.id = <<Script[j].table, Cardinality(base[Script[j].table])>>
                 /\ n.data = Merge(Script[j].add, Script[j].set)
<1> DEFINE F == Matches(Script[j])
<1>1. F \subseteq base[Script[j].table]
  BY DEF Matches
<1>2. \A x, y \in F : x = y
  <2>1. Script[j].table \in Tables
    BY Sections DEF Tables
  <2> QED
    BY <2>1 DEF Matches, SeedInv, KeysHold
<1> HIDE DEF F
<1>3. CASE F = {}
  BY <1>1, <1>3 DEF Written, NewId, F
<1>4. CASE F # {}
  <2>1. PICK x \in F : TRUE
    BY <1>4
  <2>2. (CHOOSE y \in F : TRUE) = x
    BY <2>1, <1>2
  <2>3. n = [id |-> x.id, key |-> Script[j].key, parent |-> ParentId(Script[j]),
             alt |-> Script[j].alt, data |-> Merge(x.data, Script[j].set)]
    BY <1>4, <2>2 DEF Written, F
  <2>4. \A y \in F : y = x
    BY <2>1, <1>2
  <2>5. n.key = Script[j].key /\ n.parent = ParentId(Script[j]) /\ n.alt = Script[j].alt
        /\ n.id = x.id /\ n.data = Merge(x.data, Script[j].set)
    BY <2>3
  <2> QED
    BY <1>1, <1>4, <2>4, <2>5 DEF F
<1> QED
  BY <1>3, <1>4

\* The columns a statement sets.
LEMMA Merged ==
  ASSUME NEW data, NEW cols
  PROVE  /\ DOMAIN Merge(data, cols) = DOMAIN data \cup DOMAIN cols
         /\ \A c \in DOMAIN cols : Merge(data, cols)[c] = cols[c]
         /\ \A c \in DOMAIN data \ DOMAIN cols : Merge(data, cols)[c] = data[c]
BY DEF Merge

\* A statement that is executed puts its row into its table.
Executes(n) ==
  /\ line \in 1 .. 23
  /\ n = Written(Script[line], Matches(Script[line]))
  /\ ~Collides(Script[line].table, n)
  /\ base' = [base EXCEPT ![Script[line].table] = (@ \ Matches(Script[line])) \cup {n}]
  /\ held' = held \cup {[of |-> Ref(line), id |-> n.id]}
  /\ line' = IF line = 23 THEN 0 ELSE line + 1
  /\ outcome' = IF line = 23 THEN "complete" ELSE "running"
  /\ UNCHANGED <<edited, touched>>

\* Every statement upserts into a table.
LEMMA InScript == \A j \in 1 .. 23 : Script[j].table \in Tables
BY Sections DEF Tables

\* A statement executed replaces the row it found, or adds one.
LEMMA ExecutesPut ==
  ASSUME SeedInv, NEW n, Executes(n)
  PROVE  Put(Script[line].table, Matches(Script[line]), n)
<1>1. line \in 1 .. 23
  BY DEF Executes
<1> DEFINE t == Script[line].table
           F == Matches(Script[line])
<1>2. F \subseteq base[t] /\ (\A x \in F : n.id = x.id)
      /\ (F = {} => n.id = <<t, Cardinality(base[t])>>)
  BY <1>1, SeededRow DEF Executes
<1>3. base' = [base EXCEPT ![t] = (@ \ F) \cup {n}]
  BY DEF Executes
<1> HIDE DEF t, F
<1>4. Put(t, F, n)
  BY <1>2, <1>3 DEF Put
<1> QED
  BY <1>4 DEF t, F

\* The unique indexes keep ids and keys unique.
LEMMA ExecutesKeys ==
  ASSUME SeedInv, NEW n, Executes(n)
  PROVE  IdsHold' /\ KeysHold'
<1>1. line \in 1 .. 23
  BY DEF Executes
<1> DEFINE t == Script[line].table
           F == Matches(Script[line])
<1>2. Put(t, F, n) /\ t \in Tables
  BY <1>1, ExecutesPut, InScript
<1>3. \A o \in base[t] : o.id # n.id => ~(o.key = n.key /\ (t \in Compound => o.parent = n.parent))
  BY DEF Executes, Collides
<1> HIDE DEF t, F
<1>4. IdsHold /\ KeysHold
  BY DEF SeedInv
<1>5. \A o \in base[t] \ F : o.id # n.id
  BY <1>2, <1>4, PutFresh
<1>6. \A o \in base[t] \ F : ~(o.key = n.key /\ (t \in Compound => o.parent = n.parent))
  BY <1>3, <1>5
<1>7. edited \subseteq edited'
  BY DEF Executes
<1>8. IdsHold'
  BY <1>2, <1>4, <1>7, PutIds
<1>9. KeysHold'
  BY <1>2, <1>4, <1>6, PutKeys
<1> QED
  BY <1>8, <1>9

\* The tables after a statement.
LEMMA ExecutesTables ==
  ASSUME SeedInv, NEW n, Executes(n)
  PROVE  /\ base'[Script[line].table] = (base[Script[line].table] \ Matches(Script[line])) \cup {n}
         /\ \A u \in Tables : u # Script[line].table => base'[u] = base[u]
         /\ n.key = Script[line].key /\ n.parent = ParentId(Script[line])
         /\ n.alt = Script[line].alt
         /\ \A x \in Matches(Script[line]) :
              x \in base[Script[line].table] /\ x.id = n.id /\ x.key = n.key
              /\ n.data = Merge(x.data, Script[line].set)
              /\ (Script[line].table \in Compound => x.parent = n.parent)
         /\ Matches(Script[line]) = {} => n.data = Merge(Script[line].add, Script[line].set)
<1>1. line \in 1 .. 23 /\ n = Written(Script[line], Matches(Script[line]))
  BY DEF Executes
<1>2. Put(Script[line].table, Matches(Script[line]), n) /\ Script[line].table \in Tables
  BY <1>1, ExecutesPut, InScript
<1>3. /\ base'[Script[line].table] = (base[Script[line].table] \ Matches(Script[line])) \cup {n}
      /\ \A u \in Tables : u # Script[line].table => base'[u] = base[u]
  BY <1>2, PutTables DEF SeedInv
<1>4. /\ n.key = Script[line].key /\ n.parent = ParentId(Script[line])
      /\ n.alt = Script[line].alt
      /\ \A x \in Matches(Script[line]) : n.id = x.id /\ n.data = Merge(x.data, Script[line].set)
      /\ Matches(Script[line]) = {} => n.data = Merge(Script[line].add, Script[line].set)
  BY <1>1, SeededRow
<1>5. \A x \in Matches(Script[line]) :
        x \in base[Script[line].table] /\ x.key = n.key
        /\ (Script[line].table \in Compound => x.parent = n.parent)
  BY <1>4 DEF Matches
<1> QED
  BY <1>3, <1>4, <1>5

\* No statement takes a row away, its name or, of a compound key, its parent.
LEMMA ExecutesKeeps ==
  ASSUME SeedInv, NEW n, Executes(n), NEW u \in Tables, NEW r \in base[u]
  PROVE  \E m \in base'[u] :
           /\ m.id = r.id /\ m.key = r.key /\ (u \in Compound => m.parent = r.parent)
           /\ m = r \/ (u = Script[line].table /\ r \in Matches(Script[line]) /\ m = n)
<1>1. CASE u = Script[line].table /\ r \in Matches(Script[line])
  BY <1>1, ExecutesTables
<1>2. CASE u = Script[line].table /\ r \notin Matches(Script[line])
  BY <1>2, ExecutesTables
<1>3. CASE u # Script[line].table
  BY <1>3, ExecutesTables
<1> QED
  BY <1>1, <1>2, <1>3

\* A statement renames no row, and its texts are of rows of the script.
LEMMA ExecutesNames ==
  ASSUME SeedInv, NEW n, Executes(n)
  PROVE  NamesHold'
<1> DEFINE t == Script[line].table
<1>1. line \in 1 .. 23 /\ edited' = edited /\ n.key # "renamed" /\ n.key # "other"
      /\ t \in Tables
  BY ExecutesTables, RealKeys, InScript DEF Executes
<1>2. t = "text" => n.parent # Other
  <2>1. SUFFICES ASSUME t = "text"
                 PROVE  n.parent # Other
    OBVIOUS
  <2>2. Script[line].parent # Null /\ Script[line].parent.table \in {"category", "product"}
    BY <1>1, <2>1, CompoundParent DEF Compound
  <2>3. PICK p \in base[Script[line].parent.table] : p.id = ParentId(Script[line])
    BY <1>1, <2>2, ParentRow
  <2>4. IdFits(Script[line].parent.table, p)
    BY <2>2, TablesAre DEF SeedInv, IdsHold
  <2>5. p.id[1] \in {"category", "product"}
    BY <2>2, <2>4 DEF IdFits, Taken
  <2>6. Other[1] = "other"
    BY DEF Other
  <2> QED
    BY <2>3, <2>5, <2>6, ExecutesTables
<1>3. ASSUME NEW u \in Tables, NEW r \in base'[u]
      PROVE  /\ r.key = "renamed" => Renamed(u)
             /\ r.key = "other" \/ (u = "text" /\ r.parent = Other) => Taken(u)
  <2>1. r \in base[u] \/ (u = t /\ r = n)
    BY <1>1, <1>3, ExecutesTables
  <2> QED
    BY <1>1, <1>2, <2>1 DEF SeedInv, NamesHold
<1> QED
  BY <1>1, <1>3 DEF NamesHold, Renamed, Taken

\* One more statement has been reached.
LEMMA ExecutesLines ==
  ASSUME NEW n, Executes(n)
  PROVE  LinesHold' /\ \A j \in 1 .. 23 : Executed(j)' <=> j <= line
BY DEF Executes, LinesHold, Executed

\* The run holds one id more, and what it held is still there.
LEMMA ExecutesHeld ==
  ASSUME SeedInv, NEW n, Executes(n)
  PROVE  HeldHolds'
<1> DEFINE t == Script[line].table
           g == [of |-> Ref(line), id |-> n.id]
<1>1. line \in 1 .. 23 /\ edited' = edited /\ held' = held \cup {g} /\ t \in Tables
  BY InScript DEF Executes
<1>2. g.of = Ref(line) /\ g.id = n.id /\ Ref(line).table = t /\ Ref(line).key = Script[line].key
  BY DEF Ref, Of
<1>3. ASSUME NEW h \in held
      PROVE  /\ h.of.table \in Tables
             /\ \E r \in base'[h.of.table] :
                   r.id = h.id /\ (Renamed(h.of.table) \/ r.key = h.of.key)
  <2>1. PICK r \in base[h.of.table] : r.id = h.id /\ (Renamed(h.of.table) \/ r.key = h.of.key)
    BY DEF SeedInv, HeldHolds
  <2>2. h.of.table \in Tables
    BY DEF SeedInv, HeldHolds
  <2>3. PICK m \in base'[h.of.table] : m.id = r.id /\ m.key = r.key
    BY <2>1, <2>2, ExecutesKeeps
  <2> QED
    BY <2>1, <2>2, <2>3
<1>4. n \in base'[t] /\ n.key = Script[line].key
  BY ExecutesTables
<1>5. \A h \in held' :
        /\ h.of.table \in Tables
        /\ \E r \in base'[h.of.table] :
              r.id = h.id /\ (Renamed(h.of.table)' \/ r.key = h.of.key)
  BY <1>1, <1>2, <1>3, <1>4 DEF Renamed
<1>6. \A h \in held : \E j \in 1 .. 23 : j < line /\ h.of = Ref(j)
  BY <1>1 DEF SeedInv, HeldHolds
<1>7. ASSUME NEW h \in held, h.of = g.of, g.of \in Referred
      PROVE  FALSE
  <2>1. PICK j \in 1 .. 23 : j < line /\ h.of = Ref(j)
    BY <1>6
  <2>2. Ref(j) = Ref(line)
    BY <2>1, <1>7, <1>2
  <2>3. Script[j].table = Script[line].table /\ Script[j].key = Script[line].key
    BY <2>2, RefEqual DEF Ref
  <2>4. Script[j].table = "text"
    <3>1. j \in 1 .. 23 /\ line \in 1 .. 23 /\ j # line
      BY <2>1, <1>1
    <3> QED
      BY <3>1, <2>3, RefsDiffer
  <2>5. Ref(line).table = "text"
    BY <2>3, <2>4, <1>2
  <2> QED
    BY <2>5, <1>2, <1>7 DEF Referred, Of
<1>8. \A f, h \in held' : f.of = h.of /\ f.of \in Referred => f.id = h.id
  <2>1. \A f, h \in held : f.of = h.of /\ f.of \in Referred => f.id = h.id
    BY DEF SeedInv, HeldHolds
  <2>2. \A h \in held : h.of = g.of => g.of \notin Referred
    BY <1>7
  <2>3. held' = held \cup {g}
    BY <1>1
  <2> HIDE DEF g
  <2>4. ASSUME NEW f \in held', NEW h \in held', f.of = h.of, f.of \in Referred
        PROVE  f.id = h.id
    BY <2>1, <2>2, <2>3, <2>4
  <2> QED
    BY <2>4
<1>9. line' > 0 => \A h \in held' : \E j \in 1 .. 23 : j < line' /\ h.of = Ref(j)
  <2>1. SUFFICES ASSUME line' > 0
                 PROVE  \A h \in held' : \E j \in 1 .. 23 : j < line' /\ h.of = Ref(j)
    OBVIOUS
  <2>2. line' = line + 1
    BY <2>1 DEF Executes
  <2> HIDE DEF g
  <2> QED
    BY <1>1, <1>2, <1>6, <2>2
<1>10. ASSUME NEW j \in 1 .. 23, j <= line
       PROVE  \E h \in held' : h.of = Ref(j)
  <2>1. CASE j = line
    BY <2>1, <1>1, <1>2
  <2>2. CASE j < line
    <3>1. Executed(j)
      BY <2>2, <1>1 DEF Executed
    <3> QED
      BY <3>1, <1>1 DEF SeedInv, HeldHolds
  <2> QED
    BY <2>1, <2>2, <1>1, <1>10
<1>11. \A j \in 1 .. 23 : Executed(j)' => \E h \in held' : h.of = Ref(j)
  BY <1>10, ExecutesLines
<1> HIDE DEF g, t
<1> QED
  BY <1>5, <1>8, <1>9, <1>11 DEF HeldHolds, Ref

\* What an update sets and a creation adds.
LEMMA UpsertFields ==
  ASSUME NEW table, NEW key, NEW parent, NEW alt, NEW set, NEW add
  PROVE  /\ Upsert(table, key, parent, alt, set, add).set = set
         /\ Upsert(table, key, parent, alt, set, add).add = add
BY DEF Upsert

\* The columns that prices and products are given.
LEMMA SeedColumns ==
  /\ Script[15].set = [scope |-> "BOTH"] /\ Script[15].add = [active |-> TRUE]
  /\ Script[19].set = [amount |-> TierPrices.retail]
  /\ Script[20].set = [amount |-> TierPrices.a1]
  /\ Script[21].set = [amount |-> TierPrices.a12]
  /\ Script[22].set = [amount |-> TierPrices.b1]
<1>1. \A i \in 17 .. 23 : Script[i] = VariantSeeds[i - 16]
  BY Sections
<1>2. Script[15] = ProductSeeds[1]
  BY Sections
<1>3. Script[15].set = [scope |-> "BOTH"] /\ Script[15].add = [active |-> TRUE]
  <2>1. ProductSeeds[1] = Upsert("product", "product", Of("brand", "LEGO"), Null,
                                 [scope |-> "BOTH"], [active |-> TRUE])
    BY DEF ProductSeeds
  <2> QED
    BY <1>2, <2>1, UpsertFields
<1>4. Script[19] = VariantSeeds[3] /\ Script[20] = VariantSeeds[4]
      /\ Script[21] = VariantSeeds[5] /\ Script[22] = VariantSeeds[6]
  BY <1>1
<1>5. VariantSeeds[3] = Priced("RETAIL", TierPrices.retail)
      /\ VariantSeeds[4] = Priced("DEALER_A", TierPrices.a1)
      /\ VariantSeeds[5] = Priced("DEALER_A_12", TierPrices.a12)
      /\ VariantSeeds[6] = Priced("DEALER_B", TierPrices.b1)
  BY DEF VariantSeeds
<1>6. Script[19].set = [amount |-> TierPrices.retail]
  BY <1>4, <1>5 DEF Priced, Upsert
<1>7. Script[20].set = [amount |-> TierPrices.a1]
  BY <1>4, <1>5 DEF Priced, Upsert
<1>8. Script[21].set = [amount |-> TierPrices.a12]
  BY <1>4, <1>5 DEF Priced, Upsert
<1>9. Script[22].set = [amount |-> TierPrices.b1]
  BY <1>4, <1>5 DEF Priced, Upsert
<1> QED
  BY <1>3, <1>6, <1>7, <1>8, <1>9

\* A row written has the columns its statement sets.
LEMMA ExecutesColumns ==
  ASSUME SeedInv, NEW n, Executes(n)
  PROVE  \A c \in DOMAIN Script[line].set : n.data[c] = Script[line].set[c]
<1>1. \/ \E x \in Matches(Script[line]) : n.data = Merge(x.data, Script[line].set)
      \/ n.data = Merge(Script[line].add, Script[line].set)
  BY ExecutesTables
<1> QED
  BY <1>1 DEF Merge

\* Every product has the column that says whether it is sold.
LEMMA ExecutesProducts ==
  ASSUME SeedInv, NEW n, Executes(n)
  PROVE  ProductsHold'
<1>1. line \in 1 .. 23 /\ "product" \in Tables
  BY TablesAre DEF Executes
<1>2. ASSUME Script[line].table = "product"
      PROVE  "active" \in DOMAIN n.data
  <2>1. line = 15
    BY <1>1, <1>2, ByTable
  <2>2. CASE Matches(Script[line]) = {}
    <3>1. n.data = Merge(Script[15].add, Script[15].set)
      BY <2>1, <2>2, ExecutesTables
    <3>2. "active" \in DOMAIN Script[15].add
      BY SeedColumns
    <3> QED
      BY <3>1, <3>2 DEF Merge
  <2>3. ASSUME NEW x \in Matches(Script[line])
        PROVE  "active" \in DOMAIN n.data
    <3>1. n.data = Merge(x.data, Script[line].set) /\ x \in base["product"]
      BY <1>2, <2>3, ExecutesTables
    <3>2. "active" \in DOMAIN x.data
      BY <3>1 DEF SeedInv, ProductsHold
    <3> QED
      BY <3>1, <3>2 DEF Merge
  <2> QED
    BY <2>2, <2>3
<1>3. ASSUME NEW r \in base'["product"]
      PROVE  r \in base["product"] \/ (Script[line].table = "product" /\ r = n)
  BY <1>1, ExecutesTables
<1> QED
  BY <1>2, <1>3 DEF SeedInv, ProductsHold

\* A product that is not sold is not put on sale.
LEMMA ExecutesRetired ==
  ASSUME SeedInv, NEW n, Executes(n), NEW r \in base["product"], ~r.data.active
  PROVE  \E m \in base'["product"] : m.id = r.id /\ ~m.data.active
<1>1. line \in 1 .. 23 /\ "product" \in Tables
  BY TablesAre DEF Executes
<1>2. PICK m \in base'["product"] :
        /\ m.id = r.id
        /\ m = r \/ ("product" = Script[line].table /\ r \in Matches(Script[line]) /\ m = n)
  BY <1>1, ExecutesKeeps
<1>3. CASE m = r
  BY <1>2, <1>3
<1>4. CASE "product" = Script[line].table /\ r \in Matches(Script[line]) /\ m = n
  <2>1. line = 15
    BY <1>1, <1>4, ByTable
  <2>2. m.data = Merge(r.data, Script[15].set)
    BY <1>4, <2>1, ExecutesTables
  <2>3. DOMAIN Script[15].set = {"scope"}
    BY SeedColumns
  <2>4. "active" \in DOMAIN r.data \ DOMAIN Script[15].set
    BY <2>3 DEF SeedInv, ProductsHold
  <2>5. m.data["active"] = r.data["active"]
    BY <2>2, <2>4 DEF Merge
  <2> QED
    BY <1>2, <2>5
<1> QED
  BY <1>2, <1>3, <1>4

\* The retail price of a variant is written first.
LEMMA RetailFirst ==
  ASSUME SeedInv, NEW n, Executes(n), Script[line].table = "price"
  PROVE  /\ \E v \in base'["variant"] : v.id = n.parent
         /\ \E o \in base'["price"] : o.key = "RETAIL" /\ o.parent = n.parent
<1>1. line \in 19 .. 22 /\ {"price", "variant"} \subseteq Tables
  BY ByTable, TablesAre DEF Executes
<1>2. Script[line].parent # Null /\ Script[line].parent.table = "variant"
      /\ Script[line].parent = Of("variant", "sku")
  BY <1>1, CompoundParent DEF Compound, Of
<1>3. PICK p \in base["variant"] : p.id = ParentId(Script[line])
  BY <1>1, <1>2, ParentRow
<1>4. \E v \in base'["variant"] : v.id = n.parent
  BY <1>1, <1>3, ExecutesKeeps, ExecutesTables
<1>5. CASE line = 19
  <2>1. n.key = "RETAIL"
    BY <1>5, ExecutesTables, Statements DEF Upserts
  <2> QED
    BY <1>4, <2>1, ExecutesTables
<1>6. CASE line > 19
  <2>1. Executed(19) /\ Script[19].table = "price" /\ Script[19].key = "RETAIL"
        /\ Script[19].parent = Of("variant", "sku")
    BY <1>6, Statements DEF Upserts, Executed
  <2>2. PICK o \in base["price"] : Left(19, o)
    BY <2>1 DEF SeedInv, DoneHolds
  <2>3. o.key = "RETAIL" /\ o.parent = ParentId(Script[19])
    BY <2>1, <2>2 DEF Left, Matches, Compound
  <2>4. ParentId(Script[19]) = ParentId(Script[line])
    BY <2>1, <1>2 DEF ParentId
  <2>5. "price" \in Compound
    BY DEF Compound
  <2>6. PICK m \in base'["price"] : m.key = o.key /\ m.parent = o.parent
    BY <1>1, <2>5, ExecutesKeeps
  <2> QED
    BY <1>4, <2>3, <2>4, <2>6, ExecutesTables
<1> QED
  BY <1>1, <1>5, <1>6

\* Prices stay with their variant and its retail price.
LEMMA ExecutesPrices ==
  ASSUME SeedInv, NEW n, Executes(n)
  PROVE  PricesHold'
<1>1. line \in 1 .. 23 /\ {"price", "variant"} \subseteq Tables /\ edited' = edited
  BY TablesAre DEF Executes
<1>2. ASSUME NEW r \in base["price"]
      PROVE  /\ \E v \in base'["variant"] : v.id = r.parent
             /\ \E o \in base'["price"] : o.key = "RETAIL" /\ o.parent = r.parent
             /\ "price" \notin edited
                  => \E j \in 19 .. 22 :
                        r.key = Script[j].key /\ r.data.amount = Script[j].set.amount
  <2>1. PICK v \in base["variant"] : v.id = r.parent
    BY DEF SeedInv, PricesHold
  <2>2. PICK o \in base["price"] : o.key = "RETAIL" /\ o.parent = r.parent
    BY DEF SeedInv, PricesHold
  <2>3. \E m \in base'["variant"] : m.id = v.id
    BY <1>1, ExecutesKeeps
  <2>4. "price" \in Compound
    BY DEF Compound
  <2>5. \E m \in base'["price"] : m.key = o.key /\ m.parent = o.parent
    BY <1>1, <2>4, ExecutesKeeps
  <2> QED
    BY <2>1, <2>2, <2>3, <2>5 DEF SeedInv, PricesHold
<1>3. ASSUME Script[line].table = "price"
      PROVE  \E j \in 19 .. 22 : n.key = Script[j].key /\ n.data.amount = Script[j].set.amount
  <2>1. line \in 19 .. 22
    BY <1>1, <1>3, ByTable
  <2>2. "amount" \in DOMAIN Script[line].set
    BY <2>1, SeedColumns
  <2>3. n.data.amount = Script[line].set.amount /\ n.key = Script[line].key
    BY <2>2, ExecutesColumns, ExecutesTables
  <2> QED
    BY <2>1, <2>3
<1>4. ASSUME NEW r \in base'["price"]
      PROVE  r \in base["price"] \/ (Script[line].table = "price" /\ r = n)
  BY <1>1, ExecutesTables
<1>5. ASSUME NEW r \in base'["price"]
      PROVE  /\ \E v \in base'["variant"] : v.id = r.parent
             /\ \E o \in base'["price"] : o.key = "RETAIL" /\ o.parent = r.parent
             /\ "price" \notin edited'
                  => \E j \in 19 .. 22 :
                        r.key = Script[j].key /\ r.data.amount = Script[j].set.amount
  <2>1. CASE r \in base["price"]
    BY <2>1, <1>1, <1>2
  <2>2. CASE Script[line].table = "price" /\ r = n
    BY <2>2, <1>3, RetailFirst
  <2> QED
    BY <1>4, <1>5, <2>1, <2>2
<1> QED
  BY <1>5 DEF PricesHold

\* Each row is still what a statement seeds.
LEMMA ExecutesRows ==
  ASSUME SeedInv, NEW n, Executes(n)
  PROVE  RowsHold'
<1>1. line \in 1 .. 23 /\ edited' = edited /\ Script[line].table \in Tables
  BY InScript DEF Executes
<1>2. SUFFICES ASSUME "sku" \notin edited,
                      NEW u \in Tables, NEW r \in base'[u], r.id # Other,
                      ~(u = "brand" /\ "brandName" \in edited)
               PROVE  \E j \in 1 .. 23 : SeededBy(u, r, j)'
  BY <1>1 DEF RowsHold
<1>3. CASE r \in base[u]
  <2>1. PICK j \in 1 .. 23 : SeededBy(u, r, j)
    BY <1>2, <1>3 DEF SeedInv, RowsHold
  <2>2. ASSUME u \in Compound
        PROVE  \E p \in base'[Script[j].parent.table] :
                  p.id = r.parent /\ p.key = Script[j].parent.key
    <3>1. PICK p \in base[Script[j].parent.table] : p.id = r.parent /\ p.key = Script[j].parent.key
      BY <2>1, <2>2 DEF SeededBy
    <3>2. Script[j].parent.table \in Tables
      BY <2>1, <2>2, CompoundParent, TablesAre DEF SeededBy
    <3> QED
      BY <3>1, <3>2, ExecutesKeeps
  <2> QED
    BY <2>1, <2>2 DEF SeededBy
<1>4. CASE u = Script[line].table /\ r = n
  <2> PICK k \in 1 .. 23 : k = line
    BY <1>1
  <2>1. n.key = Script[k].key /\ n.parent = ParentId(Script[k]) /\ n.alt = Script[k].alt
    BY ExecutesTables
  <2>2. ASSUME u \in Compound
        PROVE  \E p \in base'[Script[k].parent.table] :
                  p.id = n.parent /\ p.key = Script[k].parent.key
    <3>1. /\ Script[k].parent # Null
          /\ Script[k].parent.table \in {"category", "product", "variant"}
      BY <1>1, <1>4, <2>2, CompoundParent
    <3>2. PICK p \in base[Script[k].parent.table] :
            /\ p.id = ParentId(Script[k])
            /\ Renamed(Script[k].parent.table) \/ p.key = Script[k].parent.key
      BY <1>1, <3>1, ParentRow
    <3>3. ~Renamed(Script[k].parent.table)
      BY <3>1, <1>2 DEF Renamed
    <3>4. Script[k].parent.table \in Tables
      BY <3>1, TablesAre
    <3> QED
      BY <2>1, <3>2, <3>3, <3>4, ExecutesKeeps
  <2>3. SeededBy(u, r, k)'
    BY <1>4, <2>1, <2>2 DEF SeededBy
  <2> QED
    BY <1>1, <2>3 DEF SeededBy
<1> QED
  BY <1>2, <1>3, <1>4, ExecutesTables

\* What was executed before has not been written over.
LEMMA ExecutesApart ==
  ASSUME SeedInv, NEW n, Executes(n), NEW j \in 1 .. 23, j < line,
         Script[j].table = Script[line].table,
         NEW r \in Matches(Script[j])
  PROVE  r \notin Matches(Script[line])
<1>1. line \in 1 .. 23
  BY DEF Executes
<1>2. SUFFICES ASSUME r \in Matches(Script[line])
               PROVE  FALSE
  OBVIOUS
<1>3. Script[j].key = Script[line].key
  BY <1>2 DEF Matches
<1>4. Script[j].table = "text" /\ Script[j].parent.table # Script[line].parent.table
  <2>1. j # line
    BY <1>1
  <2> QED
    BY <1>1, <1>3, <2>1, RefsDiffer
<1>5. /\ Script[j].parent # Null /\ Script[line].parent # Null
      /\ Script[j].parent.table \in {"category", "product"}
      /\ Script[line].parent.table \in {"category", "product"}
  BY <1>1, <1>4, CompoundParent DEF Compound
<1>6. ParentId(Script[j]) = ParentId(Script[line])
  BY <1>2, <1>4 DEF Matches, Compound
<1>7. Executed(j)
  BY <1>1 DEF Executed
<1>8. PICK p \in base[Script[j].parent.table] : p.id = ParentId(Script[j])
  BY <1>5, <1>7, ParentRow
<1>9. PICK q \in base[Script[line].parent.table] : q.id = ParentId(Script[line])
  BY <1>1, <1>5, ParentRow
<1>10. IdFits(Script[j].parent.table, p) /\ IdFits(Script[line].parent.table, q)
  BY <1>5, TablesAre DEF SeedInv, IdsHold
<1>11. p.id[1] = Script[j].parent.table /\ q.id[1] = Script[line].parent.table
  BY <1>5, <1>10 DEF IdFits, Taken
<1> QED
  BY <1>4, <1>6, <1>8, <1>9, <1>11

\* The parents of what has been executed stay the rows they were.
LEMMA ExecutesParents ==
  ASSUME SeedInv, NEW n, Executes(n), NEW j \in 1 .. 23, j <= line, Script[j].parent # Null
  PROVE  ParentId(Script[j])' = ParentId(Script[j])
<1>1. line \in 1 .. 23 /\ held \subseteq held'
  BY DEF Executes
<1>2. line = j \/ Executed(j)
  BY <1>1 DEF Executed
<1>3. PICK h \in held : h.of = Script[j].parent
  BY <1>2, ParentIs
<1>4. ParentId(Script[j]) = h.id
  BY <1>2, <1>3, ParentIs
<1>5. Script[j].parent \in Referred
  BY ParentsFirst
<1>6. \A g \in held' : g.of = Script[j].parent => g.id = h.id
  BY <1>1, <1>3, <1>5, ExecutesHeld DEF HeldHolds
<1>7. ParentId(Script[j])' = (CHOOSE g \in held' : g.of = Script[j].parent).id
  BY DEF ParentId
<1>8. /\ (CHOOSE g \in held' : g.of = Script[j].parent) \in held'
      /\ (CHOOSE g \in held' : g.of = Script[j].parent).of = Script[j].parent
  BY <1>1, <1>3
<1> QED
  BY <1>4, <1>6, <1>7, <1>8

\* What was executed is there, the statement of this step included.
LEMMA ExecutesDone ==
  ASSUME SeedInv, NEW n, Executes(n)
  PROVE  DoneHolds'
<1>1. line \in 1 .. 23 /\ touched' = touched
  BY DEF Executes
<1>2. SUFFICES ASSUME NEW j \in 1 .. 23, j <= line, ~touched \/ Script[j].table = "price"
               PROVE  \E r \in base'[Script[j].table] : Left(j, r)'
  BY <1>1, ExecutesLines DEF DoneHolds
<1>3. Script[j].table \in Tables /\ Script[line].table \in Tables
  BY <1>1, InScript
<1>4. Script[j].table \in Compound => ParentId(Script[j])' = ParentId(Script[j])
  BY <1>2, CompoundParent, ExecutesParents
<1>5. CASE j = line
  <2>1. n \in base'[Script[j].table] /\ n.key = Script[j].key
        /\ n.parent = ParentId(Script[j]) /\ n.alt = Script[j].alt
    BY <1>5, ExecutesTables
  <2>2. \A c \in DOMAIN Script[j].set : n.data[c] = Script[j].set[c]
    BY <1>5, ExecutesColumns
  <2>3. n \in Matches(Script[j])'
    BY <2>1, <1>4 DEF Matches
  <2>4. Left(j, n)'
    BY <2>1, <2>2, <2>3 DEF Left
  <2> QED
    BY <2>1, <2>4
<1>6. CASE j < line
  <2>1. Executed(j)
    BY <1>1, <1>6 DEF Executed
  <2>2. PICK r \in base[Script[j].table] : Left(j, r)
    BY <1>2, <2>1 DEF SeedInv, DoneHolds
  <2>3. r \in Matches(Script[j])
    BY <2>2 DEF Left
  <2>4. r \in base'[Script[j].table]
    <3>1. CASE Script[j].table = Script[line].table
      BY <3>1, <1>6, <2>3, ExecutesApart, ExecutesTables
    <3>2. CASE Script[j].table # Script[line].table
      BY <3>2, <1>3, ExecutesTables
    <3> QED
      BY <3>1, <3>2
  <2>5. r \in Matches(Script[j])'
    BY <1>4, <2>3, <2>4 DEF Matches
  <2>6. Left(j, r)'
    BY <1>1, <2>2, <2>5 DEF Left
  <2> QED
    BY <2>4, <2>6
<1> QED
  BY <1>1, <1>2, <1>5, <1>6

\* A statement executed keeps the invariant.
LEMMA ExecutesInv ==
  ASSUME SeedInv, NEW n, Executes(n)
  PROVE  SeedInv'
BY ExecutesKeys, ExecutesNames, ExecutesHeld, ExecutesLines, ExecutesPrices, ExecutesProducts,
   ExecutesRows, ExecutesDone DEF SeedInv

\* A statement collides with another row only if staff have given a sku another name
\* or a slug, a barcode or a taxId another owner.
LEMMA NoCollision ==
  ASSUME SeedInv, line \in 1 .. 23, "sku" \notin edited, \A u \in Tables : ~Taken(u),
         NEW n, n = Written(Script[line], Matches(Script[line]))
  PROVE  ~Collides(Script[line].table, n)
<1> PICK k \in 1 .. 23 : k = line
  OBVIOUS
<1> DEFINE t == Script[k].table
<1>1. t \in Tables
  BY InScript
<1>2. /\ n.key = Script[k].key /\ n.parent = ParentId(Script[k]) /\ n.alt = Script[k].alt
      /\ \A x \in Matches(Script[k]) : n.id = x.id
  BY SeededRow
<1>3. ASSUME NEW r \in base[t], r.id # n.id, r.key = n.key, t \in Compound => r.parent = n.parent
      PROVE  FALSE
  BY <1>2, <1>3 DEF Matches
<1>4. ASSUME NEW r \in base[t], r.id # n.id, r.alt # Null, r.alt = n.alt
      PROVE  FALSE
  <2>1. t # "brand"
    BY <1>2, <1>4, AltsDiffer
  <2>9. r.id # Other
    <3>1. IdFits(t, r) /\ ~Taken(t) /\ t # "other" /\ Other[1] = "other"
      BY <1>1, <1>4, TablesAre DEF SeedInv, IdsHold, Other
    <3> QED
      BY <3>1 DEF IdFits
  <2>2. PICK j \in 1 .. 23 : SeededBy(t, r, j)
    BY <1>1, <1>4, <2>1, <2>9 DEF SeedInv, RowsHold
  <2>3. r.alt = Script[k].alt /\ r.alt # "changed"
    BY <1>2, <1>4, RealKeys
  <2>4. Script[j].table = t /\ Script[j].alt = Script[k].alt
    BY <2>2, <2>3 DEF SeededBy
  <2>5. j = k
    BY <1>4, <2>3, <2>4, AltsDiffer
  <2>6. r.key = n.key
    BY <1>2, <2>2, <2>5 DEF SeededBy
  <2>7. ASSUME t \in Compound
        PROVE  r.parent = n.parent
    <3>1. /\ Script[k].parent # Null
          /\ Script[k].parent.table \in {"category", "product", "variant"}
      BY <2>7, CompoundParent
    <3>2. PICK p \in base[Script[k].parent.table] : p.id = r.parent /\ p.key = Script[k].parent.key
      BY <2>2, <2>5, <2>7 DEF SeededBy
    <3>3. PICK q \in base[Script[k].parent.table] :
            /\ q.id = ParentId(Script[k])
            /\ Renamed(Script[k].parent.table) \/ q.key = Script[k].parent.key
      BY <3>1, ParentRow
    <3>4. q.key = Script[k].parent.key
      BY <3>1, <3>3 DEF Renamed
    <3>5. Script[k].parent.table \in Tables /\ Script[k].parent.table \notin Compound
      BY <3>1, TablesAre DEF Compound
    <3>6. p = q
      BY <3>2, <3>4, <3>5 DEF SeedInv, KeysHold
    <3> QED
      BY <1>2, <3>2, <3>3, <3>6
  <2> QED
    BY <1>3, <1>4, <2>6, <2>7
<1> QED
  BY <1>3, <1>4 DEF Collides

\* A run that ends, or begins, leaves the rows.
LEMMA RowsStay ==
  ASSUME SeedInv, UNCHANGED <<base, edited>>
  PROVE  IdsHold' /\ KeysHold' /\ NamesHold' /\ PricesHold' /\ ProductsHold' /\ RowsHold'
<1> USE DEF SeedInv
<1>1. IdsHold'
  <2>1. \A t, r : IdFits(t, r)' <=> IdFits(t, r)
    BY DEF IdFits, Taken
  <2> QED
    BY <2>1 DEF IdsHold
<1>2. KeysHold' /\ PricesHold' /\ ProductsHold'
  BY DEF KeysHold, PricesHold, ProductsHold
<1>3. NamesHold'
  BY DEF NamesHold, Renamed, Taken
<1>4. RowsHold'
  BY DEF RowsHold, SeededBy
<1> QED
  BY <1>1, <1>2, <1>3, <1>4

\* A run that fails or crashes keeps it.
LEMMA EndKeeps ==
  ASSUME SeedInv, line' = 0, outcome' \in {"failed", "crashed"},
         UNCHANGED <<base, held, edited, touched>>
  PROVE  SeedInv'
<1>1. LinesHold' /\ \A j \in 1 .. 23 : ~Executed(j)'
  BY DEF LinesHold, Executed
<1>2. HeldHolds'
  BY <1>1 DEF SeedInv, HeldHolds, Renamed
<1>3. DoneHolds'
  BY <1>1 DEF DoneHolds
<1> QED
  BY <1>1, <1>2, <1>3, RowsStay DEF SeedInv

\* A run that begins holds nothing yet.
LEMMA StartKeeps ==
  ASSUME SeedInv, Start
  PROVE  SeedInv'
<1>1. LinesHold' /\ \A j \in 1 .. 23 : ~Executed(j)'
  BY DEF LinesHold, Executed, Start
<1>2. HeldHolds'
  BY <1>1 DEF Start, HeldHolds
<1>3. DoneHolds'
  BY <1>1 DEF DoneHolds
<1>4. UNCHANGED <<base, edited>>
  BY DEF Start
<1> QED
  BY <1>1, <1>2, <1>3, <1>4, RowsStay DEF SeedInv

\* A statement collides and ends the run, or is executed.
LEMMA StatementIs ==
  ASSUME SeedInv, Statement
  PROVE  \E n : \/ /\ n = Written(Script[line], Matches(Script[line]))
                   /\ line \in 1 .. 23 /\ Collides(Script[line].table, n)
                   /\ line' = 0 /\ outcome' = "failed" /\ UNCHANGED <<base, held, edited, touched>>
                \/ Executes(n)
BY Sections DEF Statement, Executes, Ref, SeedInv, LinesHold

-----------------------------------------------------------------------------

\* An edit by staff of a row that is there.
Rewrites(kind, t, r, n) ==
  /\ r \in base[t] /\ t \in Tables
  /\ n.id = r.id /\ n.parent = r.parent
  /\ \/ n.key = r.key
     \/ /\ n.key = "renamed"
        /\ (t = "brand" /\ kind = "brandName") \/ (t = "variant" /\ kind = "sku")
  /\ n.alt = r.alt \/ n.alt = "changed" \/ (n.alt = Null /\ t \in {"brand", "product", "price"})
  /\ t = "product" => /\ "active" \in DOMAIN n.data
                      /\ n.data.active = r.data.active \/ ~n.data.active
  /\ t = "price" => kind = "price"
  /\ kind \notin edited /\ edited' = edited \cup {kind} /\ touched' = TRUE
  /\ base' = [base EXCEPT ![t] = (@ \ {r}) \cup {n}]
  /\ UNCHANGED <<line, held, outcome>>

\* No edit gives a row the key of another.
LEMMA RewritesKeys ==
  ASSUME SeedInv, NEW kind, NEW t, NEW r, NEW n, Rewrites(kind, t, r, n)
  PROVE  /\ IdsHold' /\ KeysHold' /\ t \in Tables
         /\ base'[t] = (base[t] \ {r}) \cup {n}
         /\ \A u \in Tables : u # t => base'[u] = base[u]
<1>1. /\ t \in Tables /\ r \in base[t] /\ n.id = r.id
      /\ edited \subseteq edited' /\ n.parent = r.parent
  BY DEF Rewrites
<1>2. Put(t, {r}, n)
  BY <1>1 DEF Put, Rewrites
<1>3. IdsHold /\ KeysHold /\ NamesHold
  BY DEF SeedInv
<1>4. ASSUME NEW o \in base[t] \ {r}, o.key = n.key, t \in Compound => o.parent = n.parent
      PROVE  FALSE
  <2>1. CASE n.key = r.key
    BY <1>1, <1>3, <1>4, <2>1 DEF KeysHold
  <2>2. CASE n.key # r.key
    <3>1. o.key = "renamed" /\ kind \notin edited
          /\ ((t = "brand" /\ kind = "brandName") \/ (t = "variant" /\ kind = "sku"))
      BY <1>4, <2>2 DEF Rewrites
    <3>2. Renamed(t)
      BY <1>1, <1>3, <1>4, <3>1 DEF NamesHold
    <3> QED
      BY <3>1, <3>2 DEF Renamed
  <2> QED
    BY <2>1, <2>2
<1>5. IdsHold'
  BY <1>1, <1>2, <1>3, PutIds
<1>6. KeysHold'
  BY <1>1, <1>2, <1>3, <1>4, PutKeys
<1>7. /\ base'[t] = (base[t] \ {r}) \cup {n}
      /\ \A u \in Tables : u # t => base'[u] = base[u]
  BY <1>1, <1>2, <1>3, PutTables
<1> QED
  BY <1>1, <1>5, <1>6, <1>7

\* Every row stays, and but for brands and skus its name.
LEMMA RewritesKeeps ==
  ASSUME SeedInv, NEW kind, NEW t, NEW r, NEW n, Rewrites(kind, t, r, n),
         NEW u \in Tables, NEW o \in base[u]
  PROVE  \E m \in base'[u] :
           m.id = o.id /\ m.parent = o.parent /\ (m.key = o.key \/ Renamed(u)')
<1>1. CASE u = t /\ o = r
  <2>0. base'[t] = (base[t] \ {r}) \cup {n}
    BY RewritesKeys
  <2>1. n \in base'[t] /\ n.id = r.id /\ n.parent = r.parent
    BY <2>0 DEF Rewrites
  <2>2. n.key = r.key \/ Renamed(t)'
    BY DEF Rewrites, Renamed
  <2> QED
    BY <1>1, <2>1, <2>2
<1>2. CASE u = t /\ o # r
  BY <1>2, RewritesKeys
<1>3. CASE u # t
  BY <1>3, RewritesKeys
<1> QED
  BY <1>1, <1>2, <1>3

\* What an edit of any kind leaves of a run, if every row stays.
EditLeaves ==
  /\ edited \subseteq edited' /\ touched' = TRUE /\ UNCHANGED <<line, held, outcome>>
  /\ \A u \in Tables : \A o \in base[u] : \E m \in base'[u] :
        m.id = o.id /\ m.parent = o.parent /\ (m.key = o.key \/ Renamed(u)')

\* The ids that a run in progress holds stay good.
LEMMA EditHeld ==
  ASSUME SeedInv, EditLeaves
  PROVE  HeldHolds' /\ LinesHold'
<1>1. LinesHold' /\ \A j \in 1 .. 23 : Executed(j)' <=> Executed(j)
  BY DEF EditLeaves, SeedInv, LinesHold, Executed
<1>2. ASSUME NEW h \in held
      PROVE  /\ h.of.table \in Tables
             /\ \E m \in base'[h.of.table] :
                   m.id = h.id /\ (Renamed(h.of.table)' \/ m.key = h.of.key)
  <2>1. h.of.table \in Tables
    BY DEF SeedInv, HeldHolds
  <2>2. PICK o \in base[h.of.table] : o.id = h.id /\ (Renamed(h.of.table) \/ o.key = h.of.key)
    BY DEF SeedInv, HeldHolds
  <2>3. PICK m \in base'[h.of.table] : m.id = o.id /\ (m.key = o.key \/ Renamed(h.of.table)')
    BY <2>1, <2>2 DEF EditLeaves
  <2>4. Renamed(h.of.table) => Renamed(h.of.table)'
    BY DEF EditLeaves, Renamed
  <2> QED
    BY <2>1, <2>2, <2>3, <2>4
<1>3. held' = held /\ line' = line
  BY DEF EditLeaves
<1>4. /\ \A g, h \in held : g.of = h.of /\ g.of \in Referred => g.id = h.id
      /\ line > 0 => \A h \in held : \E j \in 1 .. 23 : j < line /\ h.of = Ref(j)
      /\ \A j \in 1 .. 23 : Executed(j) => \E h \in held : h.of = Ref(j)
  BY DEF SeedInv, HeldHolds
<1>5. HeldHolds'
  BY <1>1, <1>2, <1>3, <1>4 DEF HeldHolds, Ref
<1> QED
  BY <1>1, <1>5

\* Prices written stay, whatever staff set them to.
LEMMA EditDone ==
  ASSUME SeedInv, EditLeaves
  PROVE  DoneHolds'
<1>1. /\ \A j \in 1 .. 23 : Executed(j)' <=> Executed(j)
      /\ touched' = TRUE
  BY DEF EditLeaves, Executed
<1>2. SUFFICES ASSUME NEW j \in 1 .. 23, Executed(j), Script[j].table = "price"
               PROVE  \E m \in base'[Script[j].table] : Left(j, m)'
  BY <1>1 DEF DoneHolds
<1>3. PICK o \in base[Script[j].table] : Left(j, o)
  BY <1>2 DEF SeedInv, DoneHolds
<1>4. o.key = Script[j].key /\ o.parent = ParentId(Script[j])
  BY <1>2, <1>3 DEF Left, Matches, Compound
<1>5. PICK m \in base'[Script[j].table] :
        m.id = o.id /\ m.parent = o.parent /\ (m.key = o.key \/ Renamed(Script[j].table)')
  BY InScript DEF EditLeaves
<1>6. ~Renamed(Script[j].table)'
  BY <1>2 DEF Renamed
<1>7. ParentId(Script[j])' = ParentId(Script[j])
  BY DEF EditLeaves, ParentId
<1>8. m \in Matches(Script[j])'
  BY <1>4, <1>5, <1>6, <1>7 DEF Matches
<1> QED
  BY <1>1, <1>5, <1>8 DEF Left

\* Where rows of an edit come from.
LEMMA RewritesRows ==
  ASSUME SeedInv, NEW kind, NEW t, NEW r, NEW n, Rewrites(kind, t, r, n),
         NEW u \in Tables, NEW o \in base'[u]
  PROVE  o \in base[u] \/ (u = t /\ o = n)
BY RewritesKeys

\* A row bears a new name after the edit that gives it.
LEMMA RewritesNames ==
  ASSUME SeedInv, NEW kind, NEW t, NEW r, NEW n, Rewrites(kind, t, r, n)
  PROVE  NamesHold'
<1>1. ASSUME NEW u \in Tables, NEW o \in base'[u]
      PROVE  /\ o.key = "renamed" => Renamed(u)'
             /\ o.key = "other" \/ (u = "text" /\ o.parent = Other) => Taken(u)'
  <2>1. CASE o \in base[u]
    <3>1. /\ o.key = "renamed" => Renamed(u)
          /\ o.key = "other" \/ (u = "text" /\ o.parent = Other) => Taken(u)
      BY <2>1 DEF SeedInv, NamesHold
    <3> QED
      BY <3>1 DEF Rewrites, Renamed, Taken
  <2>2. CASE u = t /\ o = n
    <3>1. t \in Tables /\ r \in base[t]
      BY DEF Rewrites
    <3>2. /\ r.key = "renamed" => Renamed(t)
          /\ r.key = "other" \/ (t = "text" /\ r.parent = Other) => Taken(t)
      BY <3>1 DEF SeedInv, NamesHold
    <3> QED
      BY <2>2, <3>1, <3>2 DEF Rewrites, Renamed, Taken
  <2> QED
    BY <1>1, <2>1, <2>2, RewritesRows
<1> QED
  BY <1>1 DEF NamesHold

\* Prices stay with their variant, whatever staff set them to.
LEMMA RewritesPrices ==
  ASSUME SeedInv, NEW kind, NEW t, NEW r, NEW n, Rewrites(kind, t, r, n)
  PROVE  PricesHold'
<1>1. {"price", "variant"} \subseteq Tables
  BY TablesAre
<1>2. ~Renamed("price")'
  BY DEF Renamed
<1>3. ASSUME NEW o \in base["price"]
      PROVE  /\ \E v \in base'["variant"] : v.id = o.parent
             /\ \E m \in base'["price"] : m.key = "RETAIL" /\ m.parent = o.parent
  <2>1. PICK v \in base["variant"] : v.id = o.parent
    BY DEF SeedInv, PricesHold
  <2>2. PICK m \in base["price"] : m.key = "RETAIL" /\ m.parent = o.parent
    BY DEF SeedInv, PricesHold
  <2>3. \E w \in base'["variant"] : w.id = v.id
    BY <1>1, RewritesKeeps
  <2>4. \E w \in base'["price"] : w.key = m.key /\ w.parent = m.parent
    BY <1>1, <1>2, RewritesKeeps
  <2> QED
    BY <2>1, <2>2, <2>3, <2>4
<1>4. CASE t = "price"
  <2>1. r \in base["price"] /\ n.parent = r.parent /\ "price" \in edited'
    BY <1>4 DEF Rewrites
  <2>2. ASSUME NEW o \in base'["price"]
        PROVE  /\ \E v \in base'["variant"] : v.id = o.parent
               /\ \E m \in base'["price"] : m.key = "RETAIL" /\ m.parent = o.parent
    <3>1. o \in base["price"] \/ o = n
      BY <1>1, RewritesRows
    <3> QED
      BY <1>3, <2>1, <3>1
  <2> QED
    BY <2>1, <2>2 DEF PricesHold
<1>5. CASE t # "price"
  <2>1. base'["price"] = base["price"] /\ edited \subseteq edited'
    BY <1>1, <1>5, RewritesKeys DEF Rewrites
  <2>2. ASSUME NEW o \in base["price"], "price" \notin edited
        PROVE  \E j \in 19 .. 22 : o.key = Script[j].key /\ o.data.amount = Script[j].set.amount
    BY <2>2 DEF SeedInv, PricesHold
  <2>3. ASSUME NEW o \in base'["price"]
        PROVE  /\ \E v \in base'["variant"] : v.id = o.parent
               /\ \E m \in base'["price"] : m.key = "RETAIL" /\ m.parent = o.parent
               /\ "price" \notin edited'
                    => \E j \in 19 .. 22 :
                          o.key = Script[j].key /\ o.data.amount = Script[j].set.amount
    BY <1>3, <2>1, <2>2
  <2> QED
    BY <2>3 DEF PricesHold
<1> QED
  BY <1>4, <1>5

\* No edit puts a product on sale again.
LEMMA RewritesProducts ==
  ASSUME SeedInv, NEW kind, NEW t, NEW r, NEW n, Rewrites(kind, t, r, n)
  PROVE  /\ ProductsHold'
         /\ \A o \in base["product"] :
              ~o.data.active => \E m \in base'["product"] : m.id = o.id /\ ~m.data.active
<1>1. "product" \in Tables
  BY TablesAre
<1>2. CASE t = "product"
  <2>1. base'["product"] = (base["product"] \ {r}) \cup {n}
    BY <1>2, RewritesKeys
  <2>4. n.id = r.id /\ "active" \in DOMAIN n.data
    BY <1>2 DEF Rewrites
  <2>5. n.data.active = r.data.active \/ ~n.data.active
    BY <1>2, Zenon DEF Rewrites
  <2>2. ProductsHold'
    BY <2>1, <2>4 DEF SeedInv, ProductsHold
  <2>3. ASSUME NEW o \in base["product"], ~o.data.active
        PROVE  \E m \in base'["product"] : m.id = o.id /\ ~m.data.active
    <3>1. CASE o = r
      <4>1. ~n.data.active
        BY <2>3, <2>5, <3>1, Zenon
      <4> QED
        BY <2>1, <2>4, <3>1, <4>1
    <3>2. CASE o # r
      BY <2>1, <2>3, <3>2
    <3> QED
      BY <3>1, <3>2
  <2> QED
    BY <2>2, <2>3
<1>3. CASE t # "product"
  BY <1>1, <1>3, RewritesKeys DEF SeedInv, ProductsHold
<1> QED
  BY <1>2, <1>3

\* But for brands and skus, rows stay what a statement seeds.
LEMMA RewritesSeeded ==
  ASSUME SeedInv, NEW kind, NEW t, NEW r, NEW n, Rewrites(kind, t, r, n)
  PROVE  RowsHold'
<1>1. edited' = edited \cup {kind} /\ t \in Tables /\ r \in base[t]
  BY DEF Rewrites
<1>2. SUFFICES ASSUME "sku" \notin edited',
                      NEW u \in Tables, NEW o \in base'[u], o.id # Other,
                      ~(u = "brand" /\ "brandName" \in edited')
               PROVE  \E j \in 1 .. 23 : SeededBy(u, o, j)'
  BY DEF RowsHold
<1>3. PICK x \in base[u] : /\ o.id = x.id /\ o.key = x.key /\ o.parent = x.parent
                           /\ \/ o.alt = x.alt \/ o.alt = "changed"
                              \/ o.alt = Null /\ u \in {"brand", "product", "price"}
  <2>1. CASE o \in base[u]
    BY <2>1
  <2>2. CASE u = t /\ o = n
    <3>1. n.id = r.id /\ n.key = r.key /\ n.parent = r.parent
      BY <1>1, <1>2, <2>2 DEF Rewrites
    <3>2. \/ n.alt = r.alt \/ n.alt = "changed"
          \/ n.alt = Null /\ t \in {"brand", "product", "price"}
      BY DEF Rewrites
    <3> QED
      BY <1>1, <2>2, <3>1, <3>2
  <2> QED
    BY <1>2, <2>1, <2>2, RewritesRows
<1>4. PICK j \in 1 .. 23 : SeededBy(u, x, j)
  BY <1>1, <1>2, <1>3 DEF SeedInv, RowsHold
<1>5. o.alt = Script[j].alt \/ o.alt = "changed"
  BY <1>3, <1>4, RealKeys DEF SeededBy
<1>6. ASSUME u \in Compound
      PROVE  \E p \in base'[Script[j].parent.table] :
                p.id = o.parent /\ p.key = Script[j].parent.key
  <2>1. Script[j].parent.table \in {"category", "product", "variant"}
    BY <1>4, <1>6, CompoundParent DEF SeededBy
  <2>2. PICK p \in base[Script[j].parent.table] : p.id = x.parent /\ p.key = Script[j].parent.key
    BY <1>4, <1>6 DEF SeededBy
  <2>3. ~Renamed(Script[j].parent.table)' /\ Script[j].parent.table \in Tables
    BY <1>2, <2>1, TablesAre DEF Renamed
  <2> QED
    BY <1>3, <2>2, <2>3, RewritesKeeps
<1>7. SeededBy(u, o, j)'
  BY <1>3, <1>4, <1>5, <1>6 DEF SeededBy
<1> QED
  BY <1>7

\* An edit of a row keeps the invariant.
LEMMA RewritesInv ==
  ASSUME SeedInv, NEW kind, NEW t, NEW r, NEW n, Rewrites(kind, t, r, n)
  PROVE  SeedInv'
<1>1. EditLeaves
  <2>1. edited \subseteq edited' /\ touched' = TRUE /\ UNCHANGED <<line, held, outcome>>
    BY DEF Rewrites
  <2> QED
    BY <2>1, RewritesKeeps DEF EditLeaves
<1> QED
  BY <1>1, RewritesKeys, RewritesNames, RewritesPrices, RewritesProducts, RewritesSeeded,
     EditHeld, EditDone DEF SeedInv

-----------------------------------------------------------------------------

\* The edits by name.
LEMMA EditRewrites ==
  ASSUME SeedInv, NEW kind, NEW t, NEW r, NEW key, NEW alt, NEW data,
         r \in base[t], t \in Tables,
         key = r.key \/ (key = "renamed" /\ ((t = "brand" /\ kind = "brandName")
                                               \/ (t = "variant" /\ kind = "sku"))),
         alt = r.alt \/ alt = "changed" \/ (alt = Null /\ t \in {"brand", "product", "price"}),
         t = "product" => data = [active |-> FALSE], t = "price" => kind = "price",
         Edit(kind, t, (base[t] \ {r}) \cup {With(r, key, alt, data)})
  PROVE  Rewrites(kind, t, r, With(r, key, alt, data))
<1> DEFINE n == With(r, key, alt, data)
<1>1. n.id = r.id /\ n.key = key /\ n.parent = r.parent /\ n.alt = alt
      /\ n.data = Merge(r.data, data)
  BY DEF With
<1>2. ASSUME t = "product"
      PROVE  "active" \in DOMAIN n.data /\ ~n.data.active
  <2>1. data = [active |-> FALSE]
    BY <1>2
  <2>2. "active" \in DOMAIN data /\ data["active"] = FALSE
    BY <2>1
  <2>3. "active" \in DOMAIN Merge(r.data, data) /\ Merge(r.data, data)["active"] = data["active"]
    BY <2>2 DEF Merge
  <2> QED
    BY <1>1, <2>2, <2>3
<1>3. /\ kind \notin edited /\ edited' = edited \cup {kind} /\ touched' = TRUE
      /\ base' = [base EXCEPT ![t] = (base[t] \ {r}) \cup {n}]
      /\ UNCHANGED <<line, held, outcome>>
  BY DEF Edit
<1>4. base' = [base EXCEPT ![t] = (@ \ {r}) \cup {n}]
  BY <1>3
<1> HIDE DEF n
<1>5. Rewrites(kind, t, r, n)
  BY <1>1, <1>2, <1>3, <1>4 DEF Rewrites
<1> QED
  BY <1>5 DEF n

\* The edits by which a value is taken, by table.
LEMMA TakenBy ==
  ASSUME NEW i \in 1 .. 23, Script[i].alt # Null
  PROVE  /\ Script[i].table \in {"text", "variant", "business"}
         /\ Taken(Script[i].table) <=> Takings[Script[i].table] \in edited
<1>1. Script[i].table \in {"text", "variant", "business"}
  BY Statements DEF Upserts
<1>2. /\ Takings["text"] = "slugTaken" /\ Takings["variant"] = "barcodeTaken"
      /\ Takings["business"] = "taxIdTaken"
  BY DEF Takings
<1> QED
  BY <1>1, <1>2 DEF Taken

\* The row that takes a value is of no row of the script.
LEMMA TakeKeeps ==
  ASSUME SeedInv, NEW i \in 1 .. 23, Take(Script[i])
  PROVE  SeedInv' /\ base'["product"] = base["product"]
<1> DEFINE t == Script[i].table
           o == Taker(Script[i])
<1>1. /\ Script[i].alt # Null
      /\ Takings[t] \notin edited /\ edited' = edited \cup {Takings[t]} /\ touched' = TRUE
      /\ UNCHANGED <<line, held, outcome>>
      /\ base' = [base EXCEPT ![t] = base[t] \cup {o}]
  BY DEF Take, Edit
<1>2. /\ {"text", "product", "price", "variant", "business"} \subseteq Tables
      /\ t \in {"text", "variant", "business"}
  BY <1>1, TablesAre, TakenBy
<1>3. IdsHold /\ KeysHold /\ NamesHold
  BY DEF SeedInv
<1>4. /\ o.id = Other /\ o.parent = Other /\ o.key # "renamed"
      /\ t # "text" => o.key = "other"
  BY <1>2, RealKeys DEF Taker, Compound
<1> HIDE DEF o
<1>5. ~Taken(t) /\ Taken(t)'
  <2>1. Takings[t] \in edited'
    BY <1>1
  <2>2. Taken(t)'
    <3>1. /\ Takings["text"] = "slugTaken" /\ Takings["variant"] = "barcodeTaken"
          /\ Takings["business"] = "taxIdTaken"
      BY DEF Takings
    <3> QED
      BY <1>2, <2>1, <3>1 DEF Taken
  <2> QED
    BY <1>1, <2>2, TakenBy
<1>6. Put(t, {}, o)
  <2>1. (base[t] \ {}) \cup {o} = base[t] \cup {o}
    OBVIOUS
  <2> HIDE DEF t
  <2> QED
    BY <1>1, <1>4, <1>5, <2>1 DEF Put
<1>7. /\ base'[t] = base[t] \cup {o}
      /\ \A u \in Tables : u # t => base'[u] = base[u]
  BY <1>2, <1>3, <1>6, PutTables
<1>8. \A r \in base[t] : r.key # "other" /\ (t = "text" => r.parent # Other)
  BY <1>2, <1>3, <1>5 DEF NamesHold
<1>9. IdsHold'
  BY <1>1, <1>2, <1>3, <1>6, PutIds
<1>10. KeysHold'
  <2>1. "text" \in Compound
    BY DEF Compound
  <2> HIDE DEF t
  <2> QED
    BY <1>2, <1>3, <1>4, <1>6, <1>8, <2>1, PutKeys
<1>11. NamesHold'
  <2>1. ASSUME NEW u \in Tables, NEW r \in base'[u]
        PROVE  /\ r.key = "renamed" => Renamed(u)'
               /\ r.key = "other" \/ (u = "text" /\ r.parent = Other) => Taken(u)'
    <3>1. CASE r \in base[u]
      BY <1>1, <1>3, <3>1 DEF NamesHold, Renamed, Taken
    <3>2. CASE u = t /\ r = o
      BY <1>4, <1>5, <3>2
    <3> HIDE DEF t
    <3> QED
      BY <1>7, <2>1, <3>1, <3>2
  <2> QED
    BY <2>1 DEF NamesHold
<1>12. \A u \in Tables : \A r \in base[u] : r \in base'[u]
  <2> HIDE DEF t
  <2> QED
    BY <1>7
<1>13. base'["price"] = base["price"] /\ base'["product"] = base["product"]
  <2> HIDE DEF t
  <2> QED
    BY <1>2, <1>7
<1>14. ProductsHold' /\ PricesHold'
  <2>1. "price" \in edited' => "price" \in edited \/ Takings[t] = "price"
    BY <1>1
  <2>2. Takings[t] # "price"
    BY <1>2 DEF Takings
  <2>3. \A v \in base["variant"] : v \in base'["variant"]
    BY <1>2, <1>12
  <2> HIDE DEF t
  <2>4. "price" \notin edited' => "price" \notin edited
    BY <1>1
  <2> QED
    BY <1>13, <2>3, <2>4 DEF SeedInv, ProductsHold, PricesHold
<1>15. RowsHold'
  <2>1. SUFFICES ASSUME "sku" \notin edited', NEW u \in Tables, NEW r \in base'[u],
                        r.id # Other, ~(u = "brand" /\ "brandName" \in edited')
                 PROVE  \E j \in 1 .. 23 : SeededBy(u, r, j)'
    BY DEF RowsHold
  <2>2. r \in base[u] /\ edited \subseteq edited'
    BY <1>1, <1>4, <1>7, <2>1
  <2>3. PICK j \in 1 .. 23 : SeededBy(u, r, j)
    BY <2>1, <2>2 DEF SeedInv, RowsHold
  <2>4. u \in Compound => Script[j].parent.table \in Tables
    BY <2>3, CompoundParent, TablesAre DEF SeededBy
  <2>5. SeededBy(u, r, j)'
    BY <1>12, <2>3, <2>4 DEF SeededBy
  <2> QED
    BY <2>5
<1>16. EditLeaves
  <2> HIDE DEF t
  <2> QED
    BY <1>1, <1>12 DEF EditLeaves
<1> QED
  BY <1>9, <1>10, <1>11, <1>13, <1>14, <1>15, <1>16, EditHeld, EditDone DEF SeedInv

\* What is off sale stays so.
RetiredStep ==
  \A r \in base["product"] :
     ~r.data.active => \E n \in base'["product"] : n.id = r.id /\ ~n.data.active

\* So does each edit by staff.
LEMMA EditsKeep ==
  ASSUME SeedInv, StaffEdit
  PROVE  SeedInv' /\ RetiredStep /\ UNCHANGED outcome /\ edited \subseteq edited'
<1>1. UNCHANGED outcome /\ edited \subseteq edited'
  <2>1. ASSUME NEW kind, NEW t, NEW new, Edit(kind, t, new)
        PROVE  UNCHANGED outcome /\ edited \subseteq edited'
    BY <2>1 DEF Edit
  <2>2. ASSUME NEW i \in DOMAIN Script, Take(Script[i])
        PROVE  UNCHANGED outcome /\ edited \subseteq edited'
    BY <2>1, <2>2 DEF Take
  <2> QED
    BY <2>1, <2>2, Zenon DEF StaffEdit
<1>2. ASSUME NEW kind, NEW t, NEW r, NEW n, Rewrites(kind, t, r, n)
      PROVE  SeedInv' /\ RetiredStep
  BY <1>2, RewritesInv, RewritesProducts DEF RetiredStep
<1>3. {"brand", "variant", "product", "business", "price", "text"} \subseteq Tables
  BY TablesAre
<1>4. ASSUME NEW r \in base["brand"],
             Edit("brandName", "brand",
                  (base["brand"] \ {r}) \cup {With(r, "renamed", Null, <<>>)})
      PROVE  SeedInv' /\ RetiredStep
  <2>1. Rewrites("brandName", "brand", r, With(r, "renamed", Null, <<>>))
    BY <1>3, <1>4, EditRewrites
  <2> QED
    BY <1>2, <2>1
<1>5. ASSUME NEW r \in base["variant"],
             Edit("sku", "variant",
                  (base["variant"] \ {r}) \cup {With(r, "renamed", r.alt, <<>>)})
      PROVE  SeedInv' /\ RetiredStep
  <2>1. Rewrites("sku", "variant", r, With(r, "renamed", r.alt, <<>>))
    BY <1>3, <1>5, EditRewrites
  <2> QED
    BY <1>2, <2>1
<1>6. ASSUME NEW r \in base["variant"],
             Edit("barcode", "variant",
                  (base["variant"] \ {r}) \cup {With(r, r.key, "changed", <<>>)})
      PROVE  SeedInv' /\ RetiredStep
  <2>1. Rewrites("barcode", "variant", r, With(r, r.key, "changed", <<>>))
    BY <1>3, <1>6, EditRewrites
  <2> QED
    BY <1>2, <2>1
<1>7. ASSUME NEW r \in base["product"],
             Edit("retired", "product",
                  (base["product"] \ {r}) \cup {With(r, r.key, Null, [active |-> FALSE])})
      PROVE  SeedInv' /\ RetiredStep
  <2>1. Rewrites("retired", "product", r, With(r, r.key, Null, [active |-> FALSE]))
    BY <1>3, <1>7, EditRewrites
  <2> QED
    BY <1>2, <2>1
<1>8. ASSUME NEW r \in base["business"],
             Edit("approval", "business",
                  (base["business"] \ {r}) \cup {With(r, r.key, r.alt, [status |-> "APPROVED"])})
      PROVE  SeedInv' /\ RetiredStep
  <2>1. Rewrites("approval", "business", r, With(r, r.key, r.alt, [status |-> "APPROVED"]))
    BY <1>3, <1>8, EditRewrites
  <2> QED
    BY <1>2, <2>1
<1>9. ASSUME NEW r \in base["price"],
             Edit("price", "price",
                  (base["price"] \ {r}) \cup {With(r, r.key, Null, [amount |-> 0])})
      PROVE  SeedInv' /\ RetiredStep
  <2>1. Rewrites("price", "price", r, With(r, r.key, Null, [amount |-> 0]))
    BY <1>3, <1>9, EditRewrites
  <2> QED
    BY <1>2, <2>1
<1>10. ASSUME NEW r \in base["text"],
              Edit("slugChanged", "text",
                   (base["text"] \ {r}) \cup {With(r, r.key, "changed", <<>>)})
       PROVE  SeedInv' /\ RetiredStep
  <2>1. Rewrites("slugChanged", "text", r, With(r, r.key, "changed", <<>>))
    BY <1>3, <1>10, EditRewrites
  <2> QED
    BY <1>2, <2>1
<1>11. ASSUME NEW i \in DOMAIN Script, Take(Script[i])
       PROVE  SeedInv' /\ RetiredStep
  <2>1. i \in 1 .. 23
    BY Sections
  <2>2. SeedInv' /\ base'["product"] = base["product"]
    BY <1>11, <2>1, TakeKeeps
  <2> QED
    BY <2>2 DEF RetiredStep
<1> QED
  BY <1>1, <1>4, <1>5, <1>6, <1>7, <1>8, <1>9, <1>10, <1>11 DEF StaffEdit

\* A run fails only after an edit that makes it.
LEMMA SeedStep ==
  ASSUME SeedInv, SeedFailsOnlyAfterEdit, [SeedNext]_seedVars
  PROVE  SeedInv' /\ SeedFailsOnlyAfterEdit' /\ RetiredStep
<1>1. CASE Start
  <2>1. base' = base /\ outcome' = "running"
    BY <1>1 DEF Start
  <2> QED
    BY <1>1, <2>1, StartKeeps DEF SeedFailsOnlyAfterEdit, RetiredStep
<1>2. CASE Crash
  <2>1. line' = 0 /\ outcome' = "crashed" /\ UNCHANGED <<base, held, edited, touched>>
    BY <1>2 DEF Crash
  <2> QED
    BY <2>1, EndKeeps DEF SeedFailsOnlyAfterEdit, RetiredStep
<1>3. CASE Statement
  <2>1. PICK n : \/ /\ n = Written(Script[line], Matches(Script[line]))
                    /\ line \in 1 .. 23 /\ Collides(Script[line].table, n)
                    /\ line' = 0 /\ outcome' = "failed" /\ UNCHANGED <<base, held, edited, touched>>
                 \/ Executes(n)
    BY <1>3, StatementIs
  <2>2. CASE Executes(n)
    <3>1. outcome' # "failed"
      BY <2>2 DEF Executes
    <3> QED
      BY <2>2, <3>1, ExecutesInv, ExecutesRetired DEF SeedFailsOnlyAfterEdit, RetiredStep
  <2>3. CASE /\ n = Written(Script[line], Matches(Script[line]))
             /\ line \in 1 .. 23 /\ Collides(Script[line].table, n)
             /\ line' = 0 /\ outcome' = "failed" /\ UNCHANGED <<base, held, edited, touched>>
    <3>1. "sku" \in edited \/ \E u \in Tables : Taken(u)
      BY <2>3, NoCollision
    <3>2. edited \cap {"sku", "slugTaken", "barcodeTaken", "taxIdTaken"} # {}
      BY <3>1 DEF Taken
    <3> QED
      BY <2>3, <3>2, EndKeeps DEF SeedFailsOnlyAfterEdit, RetiredStep
  <2> QED
    BY <2>1, <2>2, <2>3
<1>4. CASE StaffEdit
  BY <1>4, EditsKeep DEF SeedFailsOnlyAfterEdit
<1>5. CASE UNCHANGED seedVars
  <2>1. UNCHANGED <<base, line, held, outcome, edited, touched>>
    BY <1>5 DEF seedVars
  <2>2. LinesHold' /\ \A j \in 1 .. 23 : Executed(j)' <=> Executed(j)
    BY <2>1 DEF SeedInv, LinesHold, Executed
  <2>3. HeldHolds'
    BY <2>1, <2>2 DEF SeedInv, HeldHolds, Renamed
  <2>4. DoneHolds'
    BY <2>1, <2>2 DEF SeedInv, DoneHolds, Left, Matches, ParentId
  <2> QED
    BY <2>1, <2>2, <2>3, <2>4, RowsStay DEF SeedInv, SeedFailsOnlyAfterEdit, RetiredStep
<1> QED
  BY <1>1, <1>2, <1>3, <1>4, <1>5 DEF SeedNext

\* No table has a row, and nothing has run.
LEMMA SeedInitial == SeedInit => SeedInv /\ SeedFailsOnlyAfterEdit
<1> SUFFICES ASSUME SeedInit
             PROVE  SeedInv /\ SeedFailsOnlyAfterEdit
  OBVIOUS
<1>1. /\ base = [t \in Tables |-> {}] /\ line = 0 /\ held = {} /\ outcome = "none"
      /\ edited = {} /\ touched = FALSE
  BY DEF SeedInit
<1>2. \A t \in Tables : base[t] = {}
  BY <1>1
<1>3. \A j \in 1 .. 23 : ~Executed(j)
  BY <1>1 DEF Executed
<1>4. IdsHold
  BY <1>1, <1>2, FS_EmptySet DEF IdsHold
<1>5. KeysHold /\ NamesHold /\ RowsHold
  BY <1>2 DEF KeysHold, NamesHold, RowsHold
<1>6. PricesHold /\ ProductsHold
  BY <1>2, TablesAre DEF PricesHold, ProductsHold
<1>7. HeldHolds /\ LinesHold /\ DoneHolds
  BY <1>1, <1>3 DEF HeldHolds, LinesHold, DoneHolds
<1>8. SeedFailsOnlyAfterEdit
  BY <1>1 DEF SeedFailsOnlyAfterEdit
<1> QED
  BY <1>4, <1>5, <1>6, <1>7, <1>8 DEF SeedInv

\* Each row of the script, in a table without renamed rows, is another statement's.
LEMMA NoRowAdded ==
  ASSUME SeedInv, "sku" \notin edited, "brandName" \notin edited, NEW t \in Tables
  PROVE  ~(Cardinality({r \in base[t] : r.id # Other})
             > Cardinality({i \in DOMAIN Script : Script[i].table = t}))
<1> DEFINE J == {i \in 1 .. 23 : Script[i].table = t}
           B == {r \in base[t] : r.id # Other}
           f == [r \in B |-> CHOOSE j \in 1 .. 23 : SeededBy(t, r, j)]
<1>1. ASSUME NEW r \in B
      PROVE  f[r] \in 1 .. 23 /\ SeededBy(t, r, f[r])
  <2>1. \E j \in 1 .. 23 : SeededBy(t, r, j)
    BY DEF SeedInv, RowsHold
  <2> QED
    BY <2>1
<1>2. f \in [B -> J]
  BY <1>1 DEF SeededBy
<1>3. ASSUME NEW r \in B, NEW o \in B, f[r] = f[o]
      PROVE  r = o
  <2> HIDE DEF f
  <2> PICK j \in 1 .. 23 : j = f[r]
    BY <1>1
  <2>1. SeededBy(t, r, j) /\ SeededBy(t, o, j)
    BY <1>1, <1>3
  <2>2. r.key = o.key /\ Script[j].table = t
    BY <2>1 DEF SeededBy
  <2>3. ASSUME t \in Compound
        PROVE  r.parent = o.parent
    <3>1. Script[j].parent.table \in {"category", "product", "variant"}
      BY <2>2, <2>3, CompoundParent
    <3>2. PICK p \in base[Script[j].parent.table] : p.id = r.parent /\ p.key = Script[j].parent.key
      BY <2>1, <2>3 DEF SeededBy
    <3>3. PICK q \in base[Script[j].parent.table] : q.id = o.parent /\ q.key = Script[j].parent.key
      BY <2>1, <2>3 DEF SeededBy
    <3>4. Script[j].parent.table \in Tables /\ Script[j].parent.table \notin Compound
      BY <3>1, TablesAre DEF Compound
    <3>5. p = q
      BY <3>2, <3>3, <3>4 DEF SeedInv, KeysHold
    <3> QED
      BY <3>2, <3>3, <3>5
  <2> QED
    BY <2>2, <2>3 DEF SeedInv, KeysHold
<1>4. IsFiniteSet(J)
  <2>1. IsFiniteSet(1 .. 23)
    <3>1. 1 \in Int /\ 23 \in Int
      OBVIOUS
    <3> QED
      BY <3>1, FS_Interval, Zenon
  <2>2. J \in SUBSET (1 .. 23)
    OBVIOUS
  <2> HIDE DEF J
  <2> QED
    BY <2>1, <2>2, FS_Subset
<1>5. f \in Injection(B, J)
  BY <1>2, <1>3, Zenon DEF Injection, IsInjective
<1>6. /\ Cardinality(B) <= Cardinality(J)
      /\ Cardinality(B) \in Nat /\ Cardinality(J) \in Nat
  <2>1. IsFiniteSet(base[t]) /\ B \in SUBSET base[t]
    BY DEF SeedInv, IdsHold
  <2> HIDE DEF B, J, f
  <2>2. IsFiniteSet(B)
    BY <2>1, FS_Subset
  <2> QED
    BY <1>4, <1>5, <2>2, FS_Injection, FS_CardinalityType
<1>7. J = {i \in DOMAIN Script : Script[i].table = t}
  BY Sections
<1> HIDE DEF J
<1> QED
  BY <1>6, <1>7

\* Dealers pay less than the retail price, rounded as it is.
LEMMA DealersPayLess ==
  /\ TierPrices.a1 < TierPrices.retail
  /\ TierPrices.a12 < TierPrices.retail
  /\ TierPrices.b1 < TierPrices.retail
<1>1. ASSUME NEW share \in {65, 70, 75}
      PROVE  RoundVnd(share) < RoundVnd(100)
  <2> DEFINE x == (RetailPrice * share + 25000) \div 50000
             y == (RetailPrice * 100 + 25000) \div 50000
  <2>1. RetailPrice * share + 25000 \in Int /\ RetailPrice * 100 + 25000 \in Int
        /\ RetailPrice * share + 25000 + 50000 <= RetailPrice * 100 + 25000
    BY SeedAssumption
  <2>2. x \in Int /\ y \in Int /\ x < y
    BY <2>1
  <2> HIDE DEF x, y
  <2>3. x * 500 < y * 500
    BY <2>2
  <2> QED
    BY <2>3 DEF RoundVnd, x, y
<1>2. /\ TierPrices.retail = RoundVnd(100) /\ TierPrices.a1 = RoundVnd(75)
      /\ TierPrices.a12 = RoundVnd(65) /\ TierPrices.b1 = RoundVnd(70)
  BY DEF TierPrices
<1> QED
  BY <1>1, <1>2

\* No dealer's price is without the retail price above it.
LEMMA RetailAbove ==
  ASSUME SeedInv
  PROVE  RetailPriceFirst
<1>1. SUFFICES ASSUME NEW r \in base["price"], r.key # "RETAIL"
               PROVE  \E o \in base["price"] :
                        /\ o.key = "RETAIL" /\ o.parent = r.parent
                        /\ r.data.amount < o.data.amount \/ "price" \in edited
  BY DEF RetailPriceFirst
<1>2. PICK o \in base["price"] : o.key = "RETAIL" /\ o.parent = r.parent
  BY DEF SeedInv, PricesHold
<1>3. ASSUME "price" \notin edited
      PROVE  r.data.amount < o.data.amount
  <2>1. PICK i \in 19 .. 22 : r.key = Script[i].key /\ r.data.amount = Script[i].set.amount
    BY <1>3 DEF SeedInv, PricesHold
  <2>2. PICK j \in 19 .. 22 : o.key = Script[j].key /\ o.data.amount = Script[j].set.amount
    BY <1>3 DEF SeedInv, PricesHold
  <2>3. /\ Script[19].key = "RETAIL" /\ Script[20].key = "DEALER_A"
        /\ Script[21].key = "DEALER_A_12" /\ Script[22].key = "DEALER_B"
    BY Statements DEF Upserts
  <2>4. i \in 20 .. 22 /\ j = 19
    BY <1>1, <1>2, <2>1, <2>2, <2>3
  <2>5. /\ Script[19].set.amount = TierPrices.retail /\ Script[20].set.amount = TierPrices.a1
        /\ Script[21].set.amount = TierPrices.a12 /\ Script[22].set.amount = TierPrices.b1
    BY SeedColumns
  <2> QED
    BY <2>1, <2>2, <2>4, <2>5, DealersPayLess
<1> QED
  BY <1>2, <1>3

\* What the invariant says.
LEMMA SeedInvGives ==
  ASSUME SeedInv
  PROVE  SeedTypeOK /\ SeedAddsNoRows /\ RetailPriceFirst /\ CompleteRunRestores
<1>1. SeedTypeOK
  BY Sections DEF SeedTypeOK, SeedInv, LinesHold, IdsHold, PricesHold
<1>2. SeedAddsNoRows
  BY NoRowAdded DEF SeedAddsNoRows
<1>3. CompleteRunRestores
  <2>1. ASSUME outcome = "complete", ~touched, NEW i \in 1 .. 23
        PROVE  \E r \in Matches(Script[i]) :
                  /\ r.alt = Script[i].alt
                  /\ \A c \in DOMAIN Script[i].set : r.data[c] = Script[i].set[c]
    <3>1. PICK r \in base[Script[i].table] : Left(i, r)
      BY <2>1 DEF SeedInv, DoneHolds, Executed
    <3> QED
      BY <2>1, <3>1 DEF Left
  <2> QED
    BY <2>1, Sections DEF CompleteRunRestores
<1> QED
  BY <1>1, <1>2, <1>3, RetailAbove

\* The script may be run again, after a crash or on a shop in use: what a run
\* leaves, and where it may fail.
THEOREM SeedCorrect == SeedSpec => SeedRerunnable /\ []SeedTypeOK
<1>1. SeedInv /\ SeedFailsOnlyAfterEdit /\ [SeedNext]_seedVars
        => SeedInv' /\ SeedFailsOnlyAfterEdit' /\ [RetiredStep]_seedVars
  BY SeedStep
<1>2. SeedSpec => [](SeedInv /\ SeedFailsOnlyAfterEdit) /\ [][RetiredStep]_seedVars
  BY <1>1, SeedInitial, PTL DEF SeedSpec
<1>3. SeedSpec => RetiredProductStaysRetired
  BY <1>2 DEF RetiredProductStaysRetired, RetiredStep
<1> QED
  BY <1>2, <1>3, SeedInvGives, PTL DEF SeedRerunnable

-----------------------------------------------------------------------------
(* The staff's side together                                               *)

\* Each part's invariant; the desks of the console stay signed out while
\* another part moves, and no form of the tab is answered.
OfficeInv ==
  /\ ProductsInv /\ VariantsInv /\ TaxonomyInv /\ TabInv
  /\ part = "console" => ConsoleInv
  /\ part # "console" => \A q \in Requests : /\ desks[q].page = "login" /\ desks[q].notice = ""
                                             /\ desks[q].form = NewForm
  /\ part # "desk" => last.code # "FORBIDDEN"
  /\ SeedInv /\ SeedFailsOnlyAfterEdit

\* What a step of the office may do.
OfficeStep ==
  /\ RangeStep /\ ColumnStep /\ AcceptedStep /\ CartonStep /\ CycleStep
  /\ [TabStep]_deskVars /\ [RetiredStep]_seedVars

\* What leaves a part alone keeps its invariant and does what its steps may.
LEMMA ProductsAlone ==
  ASSUME ProductsInv, UNCHANGED productVars
  PROVE  ProductsInv' /\ RangeStep /\ ColumnStep
BY UntouchedProducts DEF ProductsInv, productVars

\* A step of another part of the office keeps the variants' invariant.
LEMMA VariantsAlone ==
  ASSUME VariantsInv, UNCHANGED variantVars
  PROVE  VariantsInv' /\ CartonStep
BY VariantsStep

\* A step of another part of the office keeps the tree's invariant.
LEMMA TaxonomyAlone ==
  ASSUME TaxonomyInv, UNCHANGED taxonomyVars
  PROVE  TaxonomyInv' /\ CycleStep
BY TaxonomyStep

\* Who signs in through the console is another's concern while no form of the
\* tab is answered.
LEMMA TabAlone ==
  ASSUME TabInv, UNCHANGED deskOnly, visitor' \in Roles,
         UNCHANGED visitor \/ last.code # "FORBIDDEN"
  PROVE  TabInv' /\ [TabStep]_deskVars
<1>1. UNCHANGED <<tab, last, applications, gallery>>
  BY DEF deskOnly
<1>2. TabInv'
  BY <1>1 DEF TabInv, ForbiddenOnlyAfterRoleChange
<1>3. TabStep
  BY <1>1 DEF TabStep
<1> QED
  BY <1>2, <1>3

\* Desks that are signed out wait for nothing.
LEMMA SignedOut ==
  ASSUME \A q \in Requests : desks[q].page = "login"
  PROVE  AcceptedStep
BY DEF AcceptedStep

\* The parts' first states are the office's.
LEMMA OfficeInitial == OfficeInit => OfficeInv
<1> SUFFICES ASSUME OfficeInit
             PROVE  OfficeInv
  OBVIOUS
<1>1. /\ ProductsInv /\ VariantsInv /\ TaxonomyInv /\ TabInv /\ ConsoleInv
  BY ProductsInitial, ConsoleInitial, VariantsInitial, TaxonomyInitial, TabInitial
  DEF OfficeInit, ConsoleInit
<1>5. SeedInv /\ SeedFailsOnlyAfterEdit
  BY SeedInitial DEF OfficeInit
<1>2. /\ Desk("home", 0, NewForm).page = "login" /\ Desk("home", 0, NewForm).notice = ""
      /\ Desk("home", 0, NewForm).form = NewForm
  BY DEF OfficeInit, ConsoleInit, Desk, RequireStaff
<1>3. \A q \in Requests : /\ desks[q].page = "login" /\ desks[q].notice = ""
                          /\ desks[q].form = NewForm
  BY <1>2 DEF OfficeInit, ConsoleInit
<1>4. last.code # "FORBIDDEN"
  BY DEF OfficeInit, DeskInit, Quiet
<1> QED
  BY <1>1, <1>3, <1>4, <1>5 DEF OfficeInv

\* Each step of the office is a step of one part; the others keep their invariant.
LEMMA OfficeKeeps ==
  ASSUME OfficeInv, [OfficeNext]_officeVars
  PROVE  OfficeInv' /\ OfficeStep
<1> USE DEF OfficeInv
<1>8. SeedInv' /\ SeedFailsOnlyAfterEdit' /\ [RetiredStep]_seedVars
  <2>1. [SeedNext]_seedVars
    BY DEF OfficeNext, officeVars
  <2> QED
    BY <2>1, SeedStep
<1>1. CASE UNCHANGED officeVars
  <2>1. /\ UNCHANGED productVars /\ UNCHANGED variantVars /\ UNCHANGED taxonomyVars
        /\ UNCHANGED deskOnly /\ UNCHANGED <<part, visitor, desks>>
    BY <1>1 DEF officeVars
  <2>2. /\ ProductsInv' /\ RangeStep /\ ColumnStep /\ VariantsInv' /\ CartonStep
        /\ TaxonomyInv' /\ CycleStep
    BY <2>1, ProductsAlone, VariantsAlone, TaxonomyAlone
  <2>3. TabInv' /\ [TabStep]_deskVars
    BY <2>1, TabAlone DEF TabInv
  <2>4. CASE part = "console"
    <3>1. UNCHANGED consoleVars
      BY <2>1 DEF consoleVars, productVars
    <3> QED
      BY <2>1, <2>2, <2>3, <2>4, <3>1, ConsoleStep, ConsoleStores, <1>8 DEF OfficeStep, deskOnly
  <2>5. CASE part # "console"
    BY <2>1, <2>2, <2>3, <2>5, SignedOut, <1>8 DEF OfficeStep, deskOnly
  <2> QED
    BY <2>4, <2>5
<1>2. CASE /\ part = "products" /\ ProductsNext /\ UNCHANGED part
           /\ UNCHANGED <<visitor, desks, variantVars, taxonomyVars, deskOnly, seedVars>>
  <2>1. ProductsInv' /\ RangeStep /\ ColumnStep
    BY <1>2, ProductsStep, ProductsExplained
  <2>2. VariantsInv' /\ CartonStep /\ TaxonomyInv' /\ CycleStep
    BY <1>2, VariantsAlone, TaxonomyAlone
  <2>3. TabInv' /\ [TabStep]_deskVars
    BY <1>2, TabAlone DEF TabInv
  <2> QED
    BY <1>2, <2>1, <2>2, <2>3, SignedOut, <1>8 DEF OfficeStep, deskOnly
<1>3. CASE /\ part = "console" /\ ConsoleNext /\ UNCHANGED part
           /\ UNCHANGED <<variantVars, taxonomyVars, deskOnly, seedVars>>
  <2>1. ConsoleInv' /\ RangeStep /\ ColumnStep /\ AcceptedStep
    BY <1>3, ConsoleStep, ConsoleStores
  <2>2. VariantsInv' /\ CartonStep /\ TaxonomyInv' /\ CycleStep
    BY <1>3, VariantsAlone, TaxonomyAlone
  <2>3. visitor' \in Roles
    <3>1. UNCHANGED visitor \/ \E role \in {"CONTENT", "SALES"} : ConsoleSignIn(role)
      BY <1>3 DEF ConsoleNext, OpenProduct, OpenNew, Save, SubmitNew, Refuse, Elsewhere,
                  Commit, Deactivate, Answer, AnswerLost
    <3> QED
      BY <3>1 DEF ConsoleSignIn, TabInv, Roles, Staff
  <2>4. TabInv' /\ [TabStep]_deskVars
    BY <1>3, <2>3, TabAlone
  <2>5. ProductsInv'
    BY <2>1 DEF ConsoleInv
  <2> QED
    BY <1>3, <2>1, <2>2, <2>4, <2>5, <1>8 DEF OfficeStep, deskOnly
<1>4. CASE /\ part = "variants" /\ VariantsNext /\ UNCHANGED part
           /\ UNCHANGED <<productVars, visitor, desks, taxonomyVars, deskOnly, seedVars>>
  <2>1. VariantsInv' /\ CartonStep
    BY <1>4, VariantsStep
  <2>2. ProductsInv' /\ RangeStep /\ ColumnStep /\ TaxonomyInv' /\ CycleStep
    BY <1>4, ProductsAlone, TaxonomyAlone
  <2>3. TabInv' /\ [TabStep]_deskVars
    BY <1>4, TabAlone DEF TabInv
  <2> QED
    BY <1>4, <2>1, <2>2, <2>3, SignedOut, <1>8 DEF OfficeStep, deskOnly
<1>5. CASE /\ part = "taxonomy" /\ TaxonomyNext /\ UNCHANGED part
           /\ UNCHANGED <<productVars, visitor, desks, variantVars, deskOnly, seedVars>>
  <2>1. TaxonomyInv' /\ CycleStep
    BY <1>5, TaxonomyStep
  <2>2. ProductsInv' /\ RangeStep /\ ColumnStep /\ VariantsInv' /\ CartonStep
    BY <1>5, ProductsAlone, VariantsAlone
  <2>3. TabInv' /\ [TabStep]_deskVars
    BY <1>5, TabAlone DEF TabInv
  <2> QED
    BY <1>5, <2>1, <2>2, <2>3, SignedOut, <1>8 DEF OfficeStep, deskOnly
<1>6. CASE /\ part = "desk" /\ DeskNext /\ UNCHANGED part
           /\ UNCHANGED <<productVars, desks, variantVars, taxonomyVars, seedVars>>
  <2>1. TabInv' /\ [TabStep]_deskVars
    BY <1>6, TabKeeps
  <2>2. /\ ProductsInv' /\ RangeStep /\ ColumnStep /\ VariantsInv' /\ CartonStep
        /\ TaxonomyInv' /\ CycleStep
    BY <1>6, ProductsAlone, VariantsAlone, TaxonomyAlone
  <2> QED
    BY <1>6, <2>1, <2>2, SignedOut, <1>8 DEF OfficeStep
<1>7. CASE /\ part = "seed" /\ UNCHANGED part
           /\ UNCHANGED <<productVars, visitor, desks, variantVars, taxonomyVars, deskOnly>>
  <2>1. /\ ProductsInv' /\ RangeStep /\ ColumnStep /\ VariantsInv' /\ CartonStep
        /\ TaxonomyInv' /\ CycleStep
    BY <1>7, ProductsAlone, VariantsAlone, TaxonomyAlone
  <2>2. TabInv' /\ [TabStep]_deskVars
    BY <1>7, TabAlone DEF TabInv
  <2> QED
    BY <1>7, <2>1, <2>2, SignedOut, <1>8 DEF OfficeStep, deskOnly
<1> QED
  BY <1>1, <1>2, <1>3, <1>4, <1>5, <1>6, <1>7 DEF OfficeNext

\* The invariant of the staff's side, and what its steps do.
LEMMA OfficeCorrect == OfficeSpec => []OfficeInv /\ [][OfficeStep]_officeVars
<1>1. OfficeInv /\ [OfficeNext]_officeVars => OfficeInv' /\ [OfficeStep]_officeVars
  BY OfficeKeeps
<1> QED
  BY <1>1, OfficeInitial, PTL DEF OfficeSpec

\* Whatever requests overlap, the column a refusal names did collide, one
\* delete of two did it, and a total covers the page it comes with.
THEOREM AnswersCorrect == OfficeSpec => []AdminAnswersTrue
<1>1. OfficeInv => AdminAnswersTrue
  BY ProductsInvGives, VariantsInvGives DEF OfficeInv, AdminAnswersTrue
<1> QED
  BY <1>1, OfficeCorrect, PTL

\* Every part's variables have their types, and no unique column holds a value twice.
THEOREM OfficeTypesCorrect == OfficeSpec => []OfficeTypesOK
<1>1. OfficeInv => OfficeTypesOK
  <2> SUFFICES ASSUME OfficeInv
               PROVE  OfficeTypesOK
    OBVIOUS
  <2>1. /\ ProductsTypeOK /\ SlugsUnique /\ VariantsTypeOK /\ TaxonomyTypeOK
        /\ BrandNamesUnique /\ DeskTypeOK /\ SeedTypeOK
    BY ProductsInvGives, VariantsInvGives, TaxonomyInvGives, TabInvGives, SeedInvGives
    DEF OfficeInv
  <2>2. ConsoleTypeOK
    <3>1. CASE part = "console"
      BY <3>1, ConsoleInvGives DEF OfficeInv
    <3>2. CASE part # "console"
      <4>1. \A q \in Requests : /\ desks[q].page = "login" /\ desks[q].notice = ""
                                /\ desks[q].form = NewForm
        BY <3>2 DEF OfficeInv
      <4>2. \A l \in Locales : NewForm.text[l] = None /\ NewForm.description[l] = None
        BY DEF NewForm
      <4> HIDE DEF NewForm
      <4> QED
        BY <4>1, <4>2 DEF ConsoleTypeOK
    <3> QED
      BY <3>1, <3>2
  <2> QED
    BY <2>1, <2>2 DEF OfficeTypesOK
<1> QED
  BY <1>1, OfficeCorrect, PTL

\* The script may be run again, after a crash or on a shop that staff work in: it
\* fails only where they renamed a sku or another row has a slug, a barcode or a
\* taxId that it writes, adds a row only where they renamed a brand or a sku, never
\* leaves a dealer's price without a higher retail price, restores what it sets if
\* it completes undisturbed, and puts nothing retired on sale.
THEOREM SeedRerunnableCorrect == OfficeSpec => SeedRerunnable
<1>1. OfficeInv => SeedFailsOnlyAfterEdit /\ SeedAddsNoRows
                     /\ RetailPriceFirst /\ CompleteRunRestores
  BY SeedInvGives DEF OfficeInv
<1>2. [OfficeStep]_officeVars => [RetiredStep]_seedVars
  BY DEF OfficeStep, officeVars
<1>3. OfficeSpec => [][RetiredStep]_seedVars
  BY <1>2, OfficeCorrect, PTL
<1>4. OfficeSpec => RetiredProductStaysRetired
  BY <1>3 DEF RetiredProductStaysRetired, RetiredStep
<1> QED
  BY <1>1, <1>4, OfficeCorrect, PTL DEF SeedRerunnable

\* A check on a row read before the write fails to hold only where it was stale.
THEOREM StaleChecksCorrect == OfficeSpec => StaleChecksOnly
<1>1. [OfficeStep]_officeVars => [RangeStep]_productVars /\ [CartonStep]_variantVars
  BY DEF OfficeStep, officeVars
<1>2. OfficeSpec => [][RangeStep]_productVars /\ [][CartonStep]_variantVars
  BY <1>1, OfficeCorrect, PTL
<1> QED
  BY <1>2 DEF StaleChecksOnly, RangeBreaksOnlyStale, RangeStep, CartonBreaksOnlyStale, CartonStep

\* No update is lost to another, what the console is told was accepted is stored
\* but for a brand, a description or a locale sent blank, and no age range is
\* inverted through it.
THEOREM EditsStoredCorrect == OfficeSpec => EditsStored
<1>1. [OfficeStep]_officeVars => [ColumnStep]_productVars /\ [AcceptedStep]_consoleVars
  BY DEF OfficeStep, officeVars, consoleVars, productVars
<1>2. OfficeSpec => [][ColumnStep]_productVars /\ [][AcceptedStep]_consoleVars
  BY <1>1, OfficeCorrect, PTL
<1>3. OfficeSpec => NoLostUpdate /\ AcceptedIsStored
  BY <1>2 DEF NoLostUpdate, ColumnStep, AcceptedIsStored, AcceptedStep, Stored
<1>4. OfficeInv => (part = "console" => ConsoleKeepsRange)
  BY DEF OfficeInv, ConsoleInv
<1>5. OfficeSpec => [](part = "console" => ConsoleKeepsRange)
  BY <1>4, OfficeCorrect, PTL
<1> QED
  BY <1>3, <1>5 DEF EditsStored

\* The category tree gets a cycle only by a move under a descendant.
THEOREM CycleCorrect == OfficeSpec => CycleOnlyUnderDescendant
<1>1. [OfficeStep]_officeVars => [CycleStep]_taxonomyVars
  BY DEF OfficeStep, officeVars
<1>2. OfficeSpec => [][CycleStep]_taxonomyVars
  BY <1>1, OfficeCorrect, PTL
<1> QED
  BY <1>2 DEF CycleOnlyUnderDescendant, CycleStep

\* What a tab that shows the past may and may not do, whoever works elsewhere.
THEOREM DeskExplainedCorrect == OfficeSpec => DeskExplained
<1>1. [OfficeStep]_officeVars => [TabStep]_deskVars
  BY DEF OfficeStep, officeVars, deskVars, deskOnly
<1>2. OfficeSpec => [][TabStep]_deskVars
  BY <1>1, OfficeCorrect, PTL
<1>3. OfficeInv => ForbiddenOnlyAfterRoleChange /\ HiddenOnlyBehindNewer
  BY TabInvGives DEF OfficeInv
<1>4. OfficeSpec => [](ForbiddenOnlyAfterRoleChange /\ HiddenOnlyBehindNewer)
  BY <1>3, OfficeCorrect, PTL
<1> QED
  BY <1>2, <1>4, TabStepExplains DEF DeskExplained

==============================================================================
