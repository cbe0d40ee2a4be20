SPECIFICATION RecoverySpec
CONSTANTS
  Accounts = {a1}
  Tokens = {t1}
  Requests = {r1}
  Links = {l1, l2}
  Jobs = {j1, j2}
  MaxVersion = 1
  None = None
SYMMETRY MCSymmetry
INVARIANTS
  RecoveryTypeOK
  NewestLinkSupersedes
  UncontestedForcesLogin
PROPERTIES
  SequentialSingleLink
