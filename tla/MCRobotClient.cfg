SPECIFICATION ClientSpec
CONSTANTS
  ActionsPerChunk = 3
  ThresholdPercent = 50
  Horizon = 3
  NoAction = NoAction
INVARIANTS ClientTypeOK NoTimestepSkipped OneChunk
CHECK_DEADLOCK FALSE
