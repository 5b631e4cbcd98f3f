SPECIFICATION FairSpec
CONSTANTS
  ChunkSize = 4
  Threshold = 3
  MaxDelay = 5
  Multiplier = 2
  Horizon = 8
  None = None
INVARIANTS TypeOK PlanKept
PROPERTIES NeverBackwards CommandsForward ImplementsPlan KeepsMoving
CHECK_DEADLOCK FALSE
