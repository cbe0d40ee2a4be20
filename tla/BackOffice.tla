---------------------------- MODULE BackOffice -----------------------------
(*****************************************************************************)
(* The staff's side: products, variants and taxonomy as the API serves       *)
(* several requests, the console over the products, its other pages, and the *)
(* seed script.  But for the products, which the console edits through their *)
(* own handlers, they share no variable, and so a behaviour is of one part,  *)
(* which "part" names; what belongs to the rest stays as it began.           *)
(*****************************************************************************)
EXTENDS Console, Variants, Taxonomy, AdminDesk, Seed

VARIABLE part

deskOnly == <<tab, last, applications, gallery>>
officeVars == <<part, productVars, visitor, desks, variantVars, taxonomyVars,
                deskOnly, seedVars>>

OfficeInit ==
  /\ part \in {"products", "console", "variants", "taxonomy", "desk", "seed"}
  /\ ConsoleInit /\ VariantsInit /\ TaxonomyInit /\ DeskInit /\ SeedInit

OfficeNext ==
  /\ UNCHANGED part
  /\ \/ /\ part = "products" /\ ProductsNext
        /\ UNCHANGED <<visitor, desks, variantVars, taxonomyVars, deskOnly,
                       seedVars>>
     \/ /\ part = "console" /\ ConsoleNext
        /\ UNCHANGED <<variantVars, taxonomyVars, deskOnly, seedVars>>
     \/ /\ part = "variants" /\ VariantsNext
        /\ UNCHANGED <<productVars, visitor, desks, taxonomyVars, deskOnly,
                       seedVars>>
     \/ /\ part = "taxonomy" /\ TaxonomyNext
        /\ UNCHANGED <<productVars, visitor, desks, variantVars, deskOnly,
                       seedVars>>
     \/ /\ part = "desk" /\ DeskNext
        /\ UNCHANGED <<productVars, desks, variantVars, taxonomyVars, seedVars>>
     \/ /\ part = "seed" /\ SeedNext
        /\ UNCHANGED <<productVars, visitor, desks, variantVars, taxonomyVars,
                       deskOnly>>

OfficeSpec == OfficeInit /\ [][OfficeNext]_officeVars

-----------------------------------------------------------------------------

\* Every module's variables have their types, and no unique column of theirs
\* holds a value twice.
OfficeTypesOK ==
  /\ ProductsTypeOK /\ SlugsUnique /\ ConsoleTypeOK /\ VariantsTypeOK
  /\ TaxonomyTypeOK /\ BrandNamesUnique /\ DeskTypeOK /\ SeedTypeOK

\* What the admin services answer is so: the column a refusal names did collide,
\* one delete of two did it, and a total covers the page it comes with.
AdminAnswersTrue == RefusalNamesColumn /\ CertDeletedOnce /\ ListTotalCovers

\* What is checked on a row read before the write, the age range of a product
\* and the carton units of a variant, breaks only where that row was stale.
StaleChecksOnly == RangeBreaksOnlyStale /\ CartonBreaksOnlyStale

\* What staff send is what is stored: no update is lost to another, what the
\* console is told was accepted is there but for the fields it sends as if they
\* were not in the form, and through it no range is inverted.
EditsStored ==
  /\ NoLostUpdate /\ AcceptedIsStored
  /\ [](part = "console" => ConsoleKeepsRange)

=============================================================================
