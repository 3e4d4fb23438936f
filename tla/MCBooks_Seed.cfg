SPECIFICATION Spec
CONSTANTS
  c1 = c1
  c2 = c2
  None = None
  Token <- MCToken
  Fold <- MCFold
  Space = " "
  CorpMark <- MCCorp
  PgPrefixes <- MCPrefix
  SeedRows <- MCOneRow
  Category <- MCCategory
  Catalogs <- MCCatalogs
  Other = "other"
  Payment = {1, 2}
  Bill <- MCBill
  Lesson <- MCLesson
  Clerk = {c1, c2}
  Seedings = 2
INVARIANT LookupsAreUnique
