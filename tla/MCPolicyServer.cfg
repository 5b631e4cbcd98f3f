SPECIFICATION ServerSpec
CONSTANTS
  w1 = w1
  w2 = w2
  w3 = w3
  Workers <- MCWorkers
  Timesteps = {0}
  Poses = {0}
  Atol = 0
  ActionsPerChunk = 2
  MaxResets = 1
  None = None
SYMMETRY WorkerSymmetry
INVARIANTS ServerTypeOK PoolNeverExhausted NeverLeftShutDown
