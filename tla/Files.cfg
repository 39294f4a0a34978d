SPECIFICATION MCSpec
CONSTANTS
  r1 = r1
  r2 = r2
  r3 = r3
  s1 = s1
  s2 = s2
  p1 = p1
  p2 = p2
  path1 = path1
  path2 = path2
  Puts = {p1, p2}
  Paths = {path1, path2}
  MaxVersions = 3
  MaxFaults = 2
  m1 = m1
  m2 = m2
  c1 = c1
  c2 = c2
  Nobody = Nobody
  Plain <- PlainIngress
  Retries <- RetriedIngress
  Fair <- FairIngress
  Shared <- SharedOutbox
  Lossy <- LossyOutbox
  Single <- FairOutbox
INVARIANTS UploadsAreSafe StorageIsConsistent OutboxIsSafe
PROPERTIES OvertakenNeverPublish EverythingEnds
CHECK_DEADLOCK FALSE
