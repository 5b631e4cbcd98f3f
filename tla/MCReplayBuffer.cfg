SPECIFICATION FairSpec
CONSTANTS
  Capacity = 2
  QueueSize = 1
  BeforeLearning = 1
  MaxTransitions = 4
  Junk = Junk
  Final = Final
  None = None
INVARIANTS TypeOK NeverJunk BatchIsTransition
PROPERTIES RingIsWindow BatchArrives
CHECK_DEADLOCK FALSE
