SPECIFICATION MCSpec
CONSTANTS
  r0 = r0
  r1 = r1
  r2 = r2
  j1 = j1
  j2 = j2
  Runtimes = {r0, r1, r2}
  First = r0
  Restarters = {"watch"}
  Jobs = {j1, j2}
  Overruns = TRUE
  Degrades = TRUE
  MaxFaults = 2
  Transactions = {t1, t2, t3}
  Operations = {o1}
  Nobody = Nobody
  FileCount = 3
  FileFaults = 3
  rule1 = rule1
  rule2 = rule2
  addr1 = addr1
  addr2 = addr2
  Rules <- TwoRules
  Keys <- ThreeKeys
  Policies <- ThreePolicies
  MaxBuckets = 2
  IdleMs = 3
  MaxTime = 3
  MaxCounter = 2
  Disabled = Disabled
  NoWindow = NoWindow
INVARIANTS
  NeverStranded RetiredIsQuiet FilesAreRecoverable ExactUnlessEvicted
PROPERTIES ReplacementHandsOver GateIsALock
CHECK_DEADLOCK FALSE
