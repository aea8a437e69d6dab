SPECIFICATION Spec
CONSTANTS
  N = 2
  Tick = 60
  Descriptors = 2
INVARIANTS
  RepliesAreRecent
  ContainersAreReadable
PROPERTIES
  EntriesStay
  ThingIsAnswered
