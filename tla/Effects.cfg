SPECIFICATION MCSpec
CONSTANTS
  r1 = r1
  r2 = r2
  m1 = m1
  m2 = m2
  q1 = q1
  q2 = q2
  Runtimes = {r1, r2}
  Callers = {m1, m2}
  Digest <- DigestOf
  JobDigest = "same"
  Engine = "postgres"
  LeaseTicks = 2
  OuterTicks = 2
  Margin = 1
  MaxClaims = 2
  MaxFaults = 0
  Recipients = {q1, q2}
  Reservation = 2
  RetryBase = 1
  MaxBackoff = 2
  RecoveryScan = 2
  IntentFaults = 2
INVARIANTS EffectsMatchReceipts CommitsAreEntitled IntentsAreSafe
PROPERTY EveryRecipientEnds
