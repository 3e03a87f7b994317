CONSTANTS
  r1 = r1
  r2 = r2
  Loader = {l1, l2}
  Relay = {r1, r2}
  BatchSize = 2
  MaxLoads = 3
  MaxCrashes = 1
CHECK_DEADLOCK FALSE
SPECIFICATION OutboxSpec
INVARIANT EveryRowIsCaptured
INVARIANT RelaysAreSafe
PROPERTY EventuallyPublished
