SPECIFICATION WebSpec
CONSTANTS
  Accounts = {a1}
  Tokens = {t1, t2, t3}
  Requests = {r1, r2}
  Navs = {n1, n2}
  Kinds = {"page", "login"}
  MaxVersion = 0
  None = None
SYMMETRY MCSymmetry
INVARIANTS NoSpuriousLogout
