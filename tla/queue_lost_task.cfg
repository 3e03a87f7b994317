CONSTANTS
  t1 = t1
  t2 = t2
  w1 = w1
  w2 = w2
  NoTask = NoTask
  NoWorker = NoWorker
  Task = {t1, t2}
  Worker = {w1, w2}
  Priority <- MCEqualPriority
  MaxAttempts = 2
  MaxCrashes = 1
  AckLoss = FALSE
SPECIFICATION FairSpec
PROPERTY AtLeastOnceDelivery
