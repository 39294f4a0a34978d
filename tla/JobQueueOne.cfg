SPECIFICATION Spec
CONSTANTS
  j1 = j1
  j2 = j2
  r1 = r1
  r2 = r2
  Jobs = {j1, j2}
  Legacy = {j1}
  StripeJobs = {j2}
  Runtimes = {r1}
  MaxAttempts <- TwoAttempts
  RetryDelay <- OneTick
  ContentionDelay = 1
  LeaseTicks = 1
  Availabilities = {0, 1}
  MaxTime = 2
  MaxClaims = 3
INVARIANTS TypeOK StartsAreCharged CancelReachesHandler
PROPERTIES TerminalIsFinal
