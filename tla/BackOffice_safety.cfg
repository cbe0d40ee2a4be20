SPECIFICATION OfficeSpec
CONSTANTS
  Requests = {q1, q2}
  Unknown = Unknown
  None = None
  Products = {1, 2}
  Categories = {"c1"}
  Brands = {"b1"}
  Ages = {0, 1}
  Texts = {"t1", "t2"}
  Descriptions = {"d1"}
  Found = {"t1"}
  NewForms <- MCNewForms
  EditForms <- MCEditForms
  PageSizes = {1}
  Pages = {1, 2}
  NewIds = {1}
  Changes <- MCChanges
  Variants = {v1, v2}
  Certs = {"c1"}
  Skus = {"A", "B"}
  Barcodes = {"1"}
  NewVariants <- MCNewVariants
  VariantPatches <- MCVariantPatches
  Periods <- MCPeriods
  CategoryIds = {c1, c2, c3}
  BrandIds = {"b1", "b2"}
  BrandNames = {"n1", "n2"}
  CategoryWords = {"t1", "t2", "t3"}
  NewCategories <- MCNewCategories
  CategoryPatches <- MCCategoryPatches
  Applicants = {1, 2}
  ListSize = 1
  Pictures = {"m1", "m2"}
  RetailPrice = 450000
  MaxEdits = 2
  Null = Null
SYMMETRY MCSymmetry
INVARIANTS OfficeTypesOK AdminAnswersTrue
PROPERTIES StaleChecksOnly EditsStored CycleOnlyUnderDescendant DeskExplained SeedRerunnable
