SPECIFICATION FairSpec
CONSTANTS
  MaxFeeders = 4
  MaxFaults = 2
  Faults = {"reset", "slow", "lost", "refused", "nochannel", "nomem", "nocpuid"}
  ProcChunks = 2
  StartOrder <- CounterOrder
  LogInterval = 1
  FailureSeen = FALSE
INVARIANTS
  TypeOK
  OneAlarmPerCounter
  MissingIsAskedFor
  LateReplyFindsNoFeeder
  RecordsHaveTheirCode
PROPERTIES
  CountersResume
  ChannelGivenBack
CHECK_DEADLOCK FALSE
