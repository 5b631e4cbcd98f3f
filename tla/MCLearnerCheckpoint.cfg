SPECIFICATION FairSpec
CONSTANTS
  BeforeLearning = 2
  SaveFreq = 2
  OnlineSteps = 3
  MaxEpisodes = 2
  MaxOptimized = 5
  MaxRuns = 3
  None = None
INVARIANTS TypeOK LastIsWhole SavedCanTrain
PROPERTIES TrainingGoesOn
CHECK_DEADLOCK FALSE
