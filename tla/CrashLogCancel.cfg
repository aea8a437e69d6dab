SPECIFICATION Spec
CONSTANTS
  Crash = {c1, c2}
  MaxBlob = 2
  MaxLen = 2
  Tools = {"all"}
  Gzip = FALSE
  MaxFaults = 2
  Faults = {"program", "script"}
INVARIANTS
  AggregateShowsFailure
