SPECIFICATION FairSpec
CONSTANTS
  n1 = n1
  n2 = n2
  b1 = b1
  lo = lo
  Nic = {n1, n2}
  Group = {b1}
  Lo = lo
  Split = {n2}
  Wide = {n2}
  Steady = {n2}
  Place <- ByName
  MaxChanges = 2
INVARIANTS
  RowsAreTrue
  OverallCoversRows
  TrapsFollowLink
  CrashOnlyForUnlisted
PROPERTIES
  FailureReachesHealth
CHECK_DEADLOCK FALSE
