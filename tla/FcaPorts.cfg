SPECIFICATION FairSpec
CONSTANTS
  Host = {h1, h2}
  Port = {"Online", "Linkdown", "Bypassed", "Error", "Unknown", "unreadable"}
  MaxChanges = 3
INVARIANTS
  TrapsFollowStatus
  PortIsShown
  HealthCoversRows
PROPERTIES
  ErrorIsShown
