SPECIFICATION FairSpec
CONSTANTS
  Crash = {c1, c2, c3}
  MaxBlob = 2
  MaxLen = 5
  Tools = {"none", "dmesg", "all"}
  Gzip = FALSE
  MaxFaults = 3
  Faults = {"program", "record", "tag", "kill"}
INVARIANTS
  TypeOK
  NeverSentAgain
  TaggedWasProcessed
PROPERTIES
  EventuallyTagged
