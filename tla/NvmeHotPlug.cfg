SPECIFICATION FairSpec
CONSTANTS
  Device = {d1, d2, v}
  Virtual = {v}
  MaxQueue = 2
  MaxCallbacks = 5
  MaxFaults = 1
  Faults = {"overrun", "socket", "open", "partition", "other", "virtual"}
INVARIANTS
  RowsFollowDisks
  TableCoversRows
PROPERTIES
  StayingDiskHasRow
  DisklessAgentLives
  FollowsDevices
