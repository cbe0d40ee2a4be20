SPECIFICATION Spec
CONSTANTS
  Accounts = {a1}
  Tokens = {t1, t2, t3}
  Requests = {r1, r2}
  MaxVersion = 1
  None = None
SYMMETRY MCSymmetry
INVARIANTS TransitionForcesLogin
