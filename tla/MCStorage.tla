----------------------------- MODULE MCStorage -----------------------------
(***************************************************************************)
(* Registrations and product media on small sets of model values.          *)
(***************************************************************************)
EXTENDS Storage, TLC

CONSTANT Names \* the random parts of keys

\* buildKey: a prefix and a random name.
MCMediaKeys   == {<<"product-media", n>> : n \in Names}
MCLicenceKeys == {<<"business-licences", n>> : n \in Names}
MCObjectKeys  == MCMediaKeys \cup MCLicenceKeys

MCSymmetry == Permutations(Names) \cup Permutations(Handlers)

=============================================================================
