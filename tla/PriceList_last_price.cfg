SPECIFICATION PriceListSpec
CONSTANTS
  Variants = {v1}
  Tiers = {retail, dealer}
  DefaultTier = retail
  MaxQty = 2
  Ids = {1, 2}
  Staff = {s1, s2}
  None = None
SYMMETRY MCSymmetry
PROPERTIES RetailPriceRemains
