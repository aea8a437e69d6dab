SPECIFICATION Spec
CONSTANTS
  s1 = s1
  a1 = a1
  Device <- DriveAndDisk
  SasDrive <- OneDrive
  AtaDisk <- OneDisk
  HostOf <- SasFirst
  TargetOf <- Targets
  MaxQueue = 1
  MaxCallbacks = 6
  MaxCopies = 2
  MaxFaults = 0
INVARIANTS
  AtaRowsAreAta
