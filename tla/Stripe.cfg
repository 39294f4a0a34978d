SPECIFICATION MCSpec
CONSTANTS
  MaxMembers = 2
  Minimum = 1
  OpQuantity = 2
  MaxEvents = 4
  EarlyInvoices = TRUE
  p1 = p1
  p2 = p2
  n1 = n1
  n2 = n2
  Seats <- Growing
  Plans <- Requesting
  FairSeats <- GrowingFairly
  Runtimes2 <- TwoRuntimes
  FairRuntime <- OneRuntime
  Pages <- TwoPages
  Replies <- LostReplies
  NoRow = NoRow
  NoDesired = NoDesired
  NoOperation = NoOperation
  Unassigned = Unassigned
  Sentinel = Sentinel
  Bad = Bad
INVARIANTS RowIsNewestAccepted NoTeamIsMisled PayloadsAreKept
PROPERTIES NeverBackwards EverythingConverges
CHECK_DEADLOCK FALSE
