SPECIFICATION Spec
CONSTANTS
  Accounts = {a1}
  Tokens = {t1, t2, t3}
  Requests = {r1, r2, r3}
  MaxVersion = 1
  None = None
SYMMETRY MCSymmetry
INVARIANTS
  TypeOK
  SealedHasNoSession
  UncontestedForcesLogin
  RotationClaimsFresh
PROPERTIES
  SequentialSingleUse
  ImplementsLedger
