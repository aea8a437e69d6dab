SPECIFICATION Spec
CONSTANTS
  RootFn <- MCRootFn
  CardFn <- MCCardFn
  SiblingFn <- MCSiblingFn
  MaxQueue = 2
  MaxCallbacks = 3
  MaxChanges = 5
INVARIANTS
  CardIsShown
  GhostsAreLeftBehind
  CrashNeedsHaste
CHECK_DEADLOCK FALSE
