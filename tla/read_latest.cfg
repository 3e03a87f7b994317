CONSTANTS
  f1 = f1
  f2 = f2
  f3 = f3
  f4 = f4
  corpA = corpA
  corpB = corpB
  x = x
  y = y
  z = z
  BBB = BBB
  BB = BB
  NULL = NULL
  tA = tA
  tB = tB
  Loader = {l1}
  File = {f1, f2, f3, f4}
  Tenant = {NULL, tA, tB}
  Field <- MCField
  Value <- MCValue
  FileName <- MCFileName
  FileAttrs <- MCFileAttrs
  FileContent <- MCFileContent
  RatingOf <- MCRatingOf
  MaxLoads = 4
CHECK_DEADLOCK FALSE
SPECIFICATION SerialSpec

INVARIANT LatestIsPerCompany
