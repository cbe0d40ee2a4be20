SPECIFICATION StorageSpec
CONSTANTS
  Names = {n1, n2, n3}
  MediaKeys <- MCMediaKeys
  LicenceKeys <- MCLicenceKeys
  ObjectKeys <- MCObjectKeys
  Handlers = {h1, h2, h3}
  Emails = {e1, e2}
  TaxIds = {x1, x2}
  Nil = Nil
SYMMETRY MCSymmetry
INVARIANTS StorageTypesOK RowsHaveObjects OrphansExplained OrderedUnlessContended
INVARIANTS LicencesStored LicencesAccountedFor RegistrationsWhole RefusalsTrue
