\* The default, records only, one MIB with its test trap, and nothing at all.
\* Two counters stand for three.  An iLO 4 and an older one.
CONSTANTS
  Counter = {"usage", "memory"}
  MibLists = {{"ahs", "mibII", "host", "tables"}, {"ahs"}, {"host"}, {}}
  Device = {"i09", "i81"}
  Revision = {3}
SPECIFICATION FairSpec
\* The agent ends.
CHECK_DEADLOCK FALSE
PROPERTIES
  StopIsLogged
  DueAlarmRuns
