SPECIFICATION MCSpec
CONSTANTS
  r1 = r1
  r2 = r2
  d1 = d1
  d2 = d2
  Runtimes = {r1, r2}
  Definitions = {d1, d2}
  MissedRun = "latest"
  Last = 2
  LeaseTicks = 1
  RetryTicks = 1
  LongWaits = TRUE
  MaxPublications = 3
  MaxFaults = 2
INVARIANTS TypeOK JobIffEnqueued PendingIsCovered
PROPERTIES EnqueuedAsDeclared RestartedPendingSettles
