SPECIFICATION Spec
CONSTANTS
  MaxFeeders = 4
  MaxFaults = 2
  Faults = {"reset", "slow", "lost"}
  ProcChunks = 2
  StartOrder <- ListingOrder
  LogInterval = 1
  FailureSeen = FALSE
INVARIANTS
  RecordsAreDescribed
CHECK_DEADLOCK FALSE
