SPECIFICATION FairWebSpec
CONSTANTS
  Accounts = {a1}
  Tokens = {t1, t2}
  Requests = {r1}
  Navs = {n1, n2}
  Kinds = {"page", "login", "refresh", "logout"}
  MaxVersion = 0
  None = None
INVARIANTS
  WebTypeOK
  LogoutSticks
PROPERTIES
  NavigationReleased
