CONSTANTS
  f1 = f1
  f2 = f2
  File = {f1, f2}
  Files <- MCFiles
  Unreadable = {f1}
  Retries = 2
  AckLoss = TRUE
  MaxRuns = 3
  i1 = i1
  Instance = {i1, i2}
  SeedRequest = {seed1}
  Host <- MCHost
  Currencies <- MCCurrencies
  Days = 2
  MaxManual = 1
  MaxFailures = 1
CHECK_DEADLOCK FALSE
SPECIFICATION StartSpec
INVARIANT SeedingIsSound
INVARIANT RunsAreReported
PROPERTY RunsEnd
PROPERTY BadFilesAreAlone
PROPERTY AllServe
