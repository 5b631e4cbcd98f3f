SPECIFICATION FairSpec
CONSTANTS
  MaxAge = 1
  OldestAge = 2
  MaxFailures = 0
  None = None
  WatchdogTimeout = 1
  MaxLate = 1
INVARIANTS MovesAttended EndsStopped
PROPERTIES HostEnds
CHECK_DEADLOCK FALSE
