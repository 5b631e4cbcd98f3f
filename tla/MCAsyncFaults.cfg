SPECIFICATION Spec
CONSTANTS
  w1 = w1
  w2 = w2
  Workers <- TwoWorkers
  Timesteps = {0, 1, 2}
  MaxResets = 2
  Poses = {0}
  Atol = 1
  ActionsPerChunk = 2
  ThresholdPercent = 50
  Horizon = 2
  NoAction = NoAction
  None = None
  MaxFaults = 1
SYMMETRY WorkerSymmetry
INVARIANTS FirstClientNeverSkips
CHECK_DEADLOCK FALSE
