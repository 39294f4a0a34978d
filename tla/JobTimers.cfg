SPECIFICATION MCSpec
CONSTANTS
  j1 = j1
  j2 = j2
  Jobs = {j1, j2}
  Waits = {1, 4}
  MaxAttempts = 2
  RetryDelay = 1
  LeaseTicks = 4
  ScanRetry = 1
  MaxNativeDelay = 3
  MaxFaults = 2
  a1 = a1
  a2 = a2
  a3 = a3
  b1 = b1
  A = A
  B = B
  Calls = {a1, a2, a3, b1}
  Schedules = {A, B}
  ScheduleOf <- Occurrences
  Slots = 2
  FewCalls = {a1, a2, b1}
  NoCall = NoCall
INVARIANTS NothingIsForgotten StoppedArmsNothing FactoriesTakeTurns
PROPERTY EverythingEnds
CHECK_DEADLOCK FALSE
