SPECIFICATION RecoverySpec
CONSTANTS
  Accounts = {a1}
  Tokens = {t1}
  Requests = {}
  MaxVersion = 2
  None = None
  Links = {l1, l2}
  Jobs = {j1, j2}
SYMMETRY MCSymmetry
PROPERTIES SingleUseLink
