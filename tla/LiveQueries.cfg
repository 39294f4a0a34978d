SPECIFICATION MCSpec
CONSTANTS
  s1 = s1
  s2 = s2
  t1 = t1
  t2 = t2
  m1 = m1
  j1 = j1
  r1 = r1
  r2 = r2
  Jobs = {j1}
  Legacy = {}
  StripeJobs = {}
  Runtimes = {r1, r2}
  MaxAttempts <- TwoAttempts
  RetryDelay <- OneTick
  ContentionDelay = 1
  LeaseTicks = 1
  Availabilities = {0, 1}
  MaxTime = 1
  MaxClaims = 2
  Tables2 <- TwoTables
  JobCache <- CacheAndJob
  ActorCache <- CacheAndActors
  Ending <- UserEnds
  FairHub <- FairQueries
  LogTable = LogTable
  NoTable = NoTable
  NoRun = NoRun
  NoResult = NoResult
  NoRows = NoRows
  Unread = Unread
  AllTables = AllTables
  NoWriter = NoWriter
INVARIANTS QuietIsFresh HistoryIsComplete
PROPERTIES NothingOfTheFormerActor EventuallyFresh ImplementsLifecycle
CHECK_DEADLOCK FALSE
