SPECIFICATION MCShopSpec
CONSTANTS
  Variants = {v1}
  Tiers = {retail, dealer}
  DefaultTier = retail
  MaxQty = 2
  Ids = {1, 2}
  Staff = {s1, s2}
  Readers = {r1}
  None = None
  Shelf = {1, 2, 3}
  ShelfRows <- MCShelfRows
  Queries <- MCQueries
  Matching = {1}
  PageSize = 1
  Lines = {1, 2}
  StockRows <- MCStockRows
  Images = {1, 2}
  SortOrders = {0, 1}
  Nothing = Nothing
  Goods = {g1, g2}
  Slugs = {"a", "b", "c"}
  Filters = {"none", "search"}
  Searches = {"search"}
  NoFilter = "none"
  MaxHits = 2
  RowsPerPage = 1
  Missing = Missing
  Mailboxes = {"e1", "e2"}
  StaffMailboxes = {"e1"}
  Passwords = {"p1", "p2"}
  Nobody = Nobody
SYMMETRY MCSymmetry
INVARIANTS OneRowPerKey BatchAgreesWithSingle TierIsCurrent
INVARIANTS ShopTypesOK OneTierUnlessApprovalChanged WalkFaithful PagesAgree
PROPERTIES LoneDeleteKeepsRetail EmptyPageExplained SwitchKeepsPlace FormsTrue
