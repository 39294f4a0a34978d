SPECIFICATION Spec
CONSTANTS
  r1 = r1
  r2 = r2
  d1 = d1
  d2 = d2
  Runtimes = {r1}
  Definitions = {d1}
  MissedRun = "latest"
  Last = 3
  LeaseTicks = 1
  RetryTicks = 1
  LongWaits = FALSE
  MaxPublications = 3
  MaxFaults = 2
SYMMETRY Symmetry
INVARIANTS ChosenIsRecorded
