------------------------------ MODULE Variants ------------------------------
(***************************************************************************)
(* The variants and safety certifications of ProductsService.  A variant   *)
(* has two unique columns, sku and barcode; when a write collides, the     *)
(* service reads them one after the other to name the column.  The carton  *)
(* units are checked on a row read before the write.  Label, sizes, weight *)
(* and the active flag are copied as the units are and left out.           *)
(***************************************************************************)
EXTENDS Rows

CONSTANTS Variants, Certs,   \* ids the database may give (bound)
          Skus, Barcodes,
          NewVariants, VariantPatches,   \* bodies of POST and PATCH (bound)
          Periods            \* <<validFrom, validTo>> of a certification

VARIABLES
  variants,      \* the row of each variant, None before it is created
  certs,         \* each certification: None, then live, then "deleted"
  variantJobs    \* the handler in each slot

variantVars == <<variants, certs, variantJobs>>

-----------------------------------------------------------------------------

Units == {1, 2}

VariantRow == [sku : Skus, barcode : Barcodes \cup {None},
               inner : Units \cup {None}, master : Units \cup {None}]

BlankVariant == [sku |-> Unknown, barcode |-> None,
                 inner |-> None, master |-> None]

\* A body as UpsertVariantDto and UpdateVariantDto let it pass, but for a null
\* the database refuses: columns of a row, and of a creation the sku.
IsVariantBody(body) ==
  /\ DOMAIN body \subseteq DOMAIN BlankVariant
  /\ "sku" \in DOMAIN body => body.sku \in Skus
  /\ "barcode" \in DOMAIN body => body.barcode \in Barcodes \cup {None}
  /\ \A c \in DOMAIN body \cap {"inner", "master"} : body[c] \in Units \cup {None}

ASSUME VariantBodyAssumption ==
  /\ \A body \in NewVariants \cup VariantPatches : IsVariantBody(body)
  /\ \A body \in NewVariants : "sku" \in DOMAIN body

\* Null is no value, and no id of a certification is the code of an answer.
ASSUME NoVariantAssumption ==
  /\ None \notin Skus /\ None \notin Units /\ None \notin VariantRow
  /\ None \notin {"live", "deleted"}
  /\ \A c \in Certs : c \notin {"ok", "CARTON_MULTIPLE_INVALID", "PRODUCT_NOT_FOUND",
                               "VARIANT_NOT_FOUND", "CERT_VALIDITY_INVALID",
                               "CERTIFICATION_NOT_FOUND", "INTERNAL_SERVER_ERROR"}

VariantIdle == [pc |-> "idle"]
FreeVariantJob(q) == variantJobs[q].pc \in {"idle", "done", "named"}

SetVariantJob(q, job) == variantJobs' = [variantJobs EXCEPT ![q] = job]

VariantAnswer(q, code) ==
  /\ SetVariantJob(q, [pc |-> "done", code |-> code])
  /\ UNCHANGED <<variants, certs>>

\* The unique columns of a row that another variant holds.
Colliding(v, row) ==
  {c \in {"sku", "barcode"} :
     row[c] # None /\ \E o \in Variants \ {v} :
        variants[o] # None /\ variants[o][c] = row[c]}

\* Writing a row, or being refused by a unique index.  The job then remembers
\* what collided; "raced" tells whether another write has committed since.
WriteVariant(q, v, row, patch) ==
  \/ /\ Colliding(v, row) = {}
     /\ variants' = [variants EXCEPT ![v] = row]
     /\ variantJobs' =
          [r \in Requests |->
             IF r = q THEN [pc |-> "done", code |-> "ok"]
             ELSE IF variantJobs[r].pc \in {"collided", "sku_free"}
                  THEN [variantJobs[r] EXCEPT !.raced = TRUE]
                  ELSE variantJobs[r]]
     /\ UNCHANGED certs
  \/ /\ Colliding(v, row) # {}
     /\ SetVariantJob(q, [pc |-> "collided", id |-> v, patch |-> patch,
                          by |-> Colliding(v, row), raced |-> FALSE,
                          resent |-> /\ variants[v] # None /\ "sku" \in DOMAIN patch
                                     /\ variants[v].sku = row.sku])
     /\ UNCHANGED <<variants, certs>>

\* assertCartonMultiple, of a row.
CartonOK(row) ==
  row.inner # None /\ row.master # None => row.inner <= row.master

-----------------------------------------------------------------------------
(* createVariant; its product, which is never deleted, was found.          *)

\* The check is on the body alone: a null in it is a value, less than any other.
SentOK(body) ==
  {"inner", "master"} \subseteq DOMAIN body /\ body.inner # None
    => body.master # None /\ body.inner <= body.master

CreateVariant(q, v, body) ==
  /\ FreeVariantJob(q)
  /\ variants[v] = None
  /\ \/ ~SentOK(body) /\ VariantAnswer(q, "CARTON_MULTIPLE_INVALID")
     \/ SentOK(body) /\ WriteVariant(q, v, Patched(BlankVariant, body), body)

VariantProductMissing(q) ==
  FreeVariantJob(q) /\ VariantAnswer(q, "PRODUCT_NOT_FOUND")

-----------------------------------------------------------------------------
(* updateVariant                                                           *)

\* A body's null does not count in the check: the row's value does.
Counted(row, patch) ==
  Patched(row, [c \in {d \in DOMAIN patch : patch[d] # None} |-> patch[c]])

UpdateVariantRead(q, v, patch) ==
  /\ FreeVariantJob(q)
  /\ \/ variants[v] = None /\ VariantAnswer(q, "VARIANT_NOT_FOUND")
     \/ /\ variants[v] # None
        /\ ~CartonOK(Counted(variants[v], patch))
        /\ VariantAnswer(q, "CARTON_MULTIPLE_INVALID")
     \/ /\ variants[v] # None
        /\ CartonOK(Counted(variants[v], patch))
        /\ SetVariantJob(q, [pc |-> "checked", id |-> v, patch |-> patch,
                             seen |-> variants[v]])
        /\ UNCHANGED <<variants, certs>>

UpdateVariantWrite(q) ==
  LET job == variantJobs[q] IN
  /\ job.pc = "checked"
  /\ WriteVariant(q, job.id, Patched(variants[job.id], job.patch), job.patch)

-----------------------------------------------------------------------------
(* mapVariantError                                                         *)

Holds(c, x) == \E v \in Variants : variants[v] # None /\ variants[v][c] = x

NameCollision(q, code) ==
  /\ SetVariantJob(q, [pc |-> "named", code |-> code, by |-> variantJobs[q].by,
                       raced |-> variantJobs[q].raced,
                       resent |-> variantJobs[q].resent])
  /\ UNCHANGED <<variants, certs>>

\* The submitted sku, if there is one, is looked up first ...
LookUpSku(q) ==
  LET job == variantJobs[q]
      taken == "sku" \in DOMAIN job.patch /\ Holds("sku", job.patch.sku)
  IN
  /\ job.pc = "collided"
  /\ \/ taken /\ NameCollision(q, "SKU_TAKEN")
     \/ /\ ~taken
        /\ SetVariantJob(q, [job EXCEPT !.pc = "sku_free"])
        /\ UNCHANGED <<variants, certs>>

\* Mutant of LookUpBarcode: the barcode is not looked up.
LookUpNothing(q) ==
  variantJobs[q].pc = "sku_free" /\ NameCollision(q, "SKU_OR_BARCODE_TAKEN")

\* ... then the submitted barcode.
LookUpBarcode(q) ==
  LET patch == variantJobs[q].patch
      taken == /\ "barcode" \in DOMAIN patch
               /\ patch.barcode # None /\ Holds("barcode", patch.barcode)
  IN
  /\ variantJobs[q].pc = "sku_free"
  /\ NameCollision(q, IF taken THEN "BARCODE_TAKEN" ELSE "SKU_OR_BARCODE_TAKEN")

-----------------------------------------------------------------------------
(* createCertification and deleteCertification                             *)

CreateCert(q, c, v, period) ==
  /\ FreeVariantJob(q)
  /\ certs[c] = None
  /\ \/ variants[v] = None /\ VariantAnswer(q, "VARIANT_NOT_FOUND")
     \/ /\ variants[v] # None /\ period[2] <= period[1]
        /\ VariantAnswer(q, "CERT_VALIDITY_INVALID")
     \/ /\ variants[v] # None /\ period[2] > period[1]
        /\ certs' = [certs EXCEPT ![c] = "live"]
        /\ SetVariantJob(q, [pc |-> "done", code |-> "ok"])
        /\ UNCHANGED variants

DeleteCertFind(q, c) ==
  /\ FreeVariantJob(q)
  /\ \/ certs[c] # "live" /\ VariantAnswer(q, "CERTIFICATION_NOT_FOUND")
     \/ /\ certs[c] = "live"
        /\ SetVariantJob(q, [pc |-> "found", id |-> c])
        /\ UNCHANGED <<variants, certs>>

\* The row may be gone by now: the delete then throws what nothing maps, a
\* 500.  An answered delete keeps the id of its row.
DeleteCert(q) ==
  /\ variantJobs[q].pc = "found"
  /\ LET c == variantJobs[q].id IN
     \/ certs[c] # "live" /\ VariantAnswer(q, "INTERNAL_SERVER_ERROR")
     \/ /\ certs[c] = "live"
        /\ certs' = [certs EXCEPT ![c] = "deleted"]
        /\ SetVariantJob(q, [pc |-> "done", code |-> c])
        /\ UNCHANGED variants

-----------------------------------------------------------------------------

VariantsInit ==
  /\ variants = [v \in Variants |-> None]
  /\ certs = [c \in Certs |-> None]
  /\ variantJobs = [q \in Requests |-> VariantIdle]

VariantsNext ==
  \E q \in Requests :
     \/ \E v \in Variants :
           \/ \E body \in NewVariants : CreateVariant(q, v, body)
           \/ \E patch \in VariantPatches : UpdateVariantRead(q, v, patch)
           \/ \E c \in Certs, period \in Periods : CreateCert(q, c, v, period)
     \/ VariantProductMissing(q)
     \/ UpdateVariantWrite(q) \/ LookUpSku(q) \/ LookUpBarcode(q)
     \/ \E c \in Certs : DeleteCertFind(q, c)
     \/ DeleteCert(q)

VariantsSpec == VariantsInit /\ [][VariantsNext]_variantVars

-----------------------------------------------------------------------------

\* Rows and certifications keep their types; no sku or barcode is held twice.
VariantsTypeOK ==
  /\ variants \in [Variants -> VariantRow \cup {None}]
  /\ certs \in [Certs -> {None, "live", "deleted"}]
  /\ \A v \in Variants : variants[v] # None => Colliding(v, variants[v]) = {}

\* A master carton comes to hold fewer units than an inner box only by an
\* update checked on units that another update has changed since.
CartonBreaksOnlyStale ==
  [][\A v \in Variants :
        /\ variants[v] # None => CartonOK(variants[v])
        /\ variants'[v] # None /\ ~CartonOK(variants'[v])
        => \E q \in Requests :
              /\ variantJobs[q].pc = "checked" /\ variantJobs[q].id = v
              /\ \/ variantJobs[q].seen.inner # variants[v].inner
                 \/ variantJobs[q].seen.master # variants[v].master]_variantVars

\* A refusal for a unique column names one that did collide, unless the update
\* sent the sku the variant already has, or another write came between the
\* refusal of the index and the reads that explain it.
RefusalNamesColumn ==
  \A q \in Requests :
     LET job == variantJobs[q] IN
     job.pc = "named" /\ ~job.raced /\ ~job.resent
       => \/ job.code = "SKU_TAKEN" /\ "sku" \in job.by
          \/ job.code = "BARCODE_TAKEN" /\ "barcode" \in job.by

\* Of two deletes of one certification only one is told that it deleted it.
CertDeletedOnce ==
  \A q, r \in Requests :
     /\ q # r /\ variantJobs[q].pc = "done" /\ variantJobs[r].pc = "done"
     /\ variantJobs[q].code \in Certs
     => variantJobs[q].code # variantJobs[r].code

=============================================================================
