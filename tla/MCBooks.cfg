SPECIFICATION FairSpec
CONSTANTS
  c1 = c1
  c2 = c2
  None = None
  Token <- MCToken
  Fold <- MCFold
  Space = " "
  CorpMark <- MCCorp
  PgPrefixes <- MCPrefix
  SeedRows <- MCRows
  Category <- MCCategory
  Catalogs <- MCCatalogs
  Other = "other"
  Payment = {1, 2}
  Bill <- MCBill
  Lesson <- MCLesson
  Clerk = {c1, c2}
  Seedings = 1
INVARIANTS TypeOK CategoryAllowed VerifiedNotInReview ReportsAgree
PROPERTY BooksKeepUp
