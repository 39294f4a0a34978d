SPECIFICATION Spec
CONSTANTS
  r1 = r1
  r2 = r2
  d1 = d1
  d2 = d2
  Runtimes = {r1}
  Definitions = {d1}
  MissedRun = "skip"
  Last = 3
  LeaseTicks = 1
  RetryTicks = 1
  LongWaits = TRUE
  MaxPublications = 2
  MaxFaults = 1
SYMMETRY Symmetry
INVARIANTS SkippedNeverRun
