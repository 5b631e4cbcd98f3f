SPECIFICATION FairSpec
CONSTANTS
  OnlineSteps = 3
  BeforeLearning = 1
  WireSize = 1
  MaxTrained = 1
  MaxPushed = 2
INVARIANTS TransitionsInOrder
PROPERTIES WeightsOnlyNewer TransitionsArrive ActorEnds
CHECK_DEADLOCK FALSE
