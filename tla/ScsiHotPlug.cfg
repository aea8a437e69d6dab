SPECIFICATION Spec
CONSTANTS
  s1 = s1
  a1 = a1
  Device <- DriveAndDisk
  SasDrive <- OneDrive
  AtaDisk <- OneDisk
  HostOf <- Hosts
  TargetOf <- Targets
  MaxQueue = 1
  MaxCallbacks = 6
  MaxCopies = 2
  MaxFaults = 1
INVARIANTS
  BadDriveIsTold
  OverallCoversDrives
  AtaHealthCoversRows
  AtaRowsFollowDisks
PROPERTIES
  SasFollowsDrives
