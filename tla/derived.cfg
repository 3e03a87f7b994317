CONSTANTS
  NULL = NULL
  Other = Other
  tA = tA
  tB = tB
  brp = brp
  tech = tech
  retail = retail
  Metric = {"interest_cover", "debt"}
  Headline = "interest_cover"
  Required = {"sector"}
  Rating = {brp}
  StaticOnly = {}
  Currency = "currency"
  GE_AVAILABLE = TRUE
  Tenant = tA
  Rule <- Rules
  Now = {2, 3}
  MaxLoads = 3
  Profile <- AllProfiles
  Adjustment <- AllAdjustments
  Value = {NULL, 0, 1, 2, 4}
  MaxValues = 6
CHECK_DEADLOCK FALSE
SPECIFICATION DerivedSpec
INVARIANT SignalsAreFiled
INVARIANT DriftIsReported
INVARIANT MarksAreSound
INVARIANT CliffsFit
INVARIANT RatingsFit
INVARIANT MigrationsAddUp
INVARIANT BenchmarksAgree
