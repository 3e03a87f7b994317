CONSTANTS
  f1 = f1
  f2 = f2
  f3 = f3
  f4 = f4
  corpA = corpA
  corpB = corpB
  x = x
  y = y
  z = z
  BBB = BBB
  BB = BB
  NULL = NULL
  tA = tA
  tB = tB
  Loader = {l1, l2}
  File = {f1, f2, f3}
  Tenant = {tA}
  Field <- MCField
  Value <- MCValue
  FileName <- MCFileName
  FileAttrs <- MCFileAttrs
  FileContent <- MCFileContent
  RatingOf <- MCRatingOf
  MaxLoads = 3
CHECK_DEADLOCK FALSE
SPECIFICATION OverlapSpec
INVARIANT TransitionsPairUp
INVARIANT ChangeLogExplains
INVARIANT SnapshotKeepsMetadata
INVARIANT ProcessedOnce
PROPERTY LoadsEnd
