SPECIFICATION Spec
CONSTANTS
  j1 = j1
  j2 = j2
  r1 = r1
  r2 = r2
  Jobs = {j1}
  Legacy = {}
  StripeJobs = {}
  Runtimes = {r1, r2}
  MaxAttempts <- TwoAttempts
  RetryDelay <- NoDelay
  ContentionDelay = 1
  LeaseTicks = 1
  Availabilities = {0, 1}
  MaxTime = 1
  MaxClaims = 2
SYMMETRY Symmetry
INVARIANTS OwnedUntilExpiry ClaimInvariant
