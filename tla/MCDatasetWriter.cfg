SPECIFICATION FairSpec
CONSTANTS
  Modes = {"pictures", "streaming"}
  MetaBufferSize = 2
  QueueMax = 1
  MaxFrames = 2
  MaxTakes = 3
  MaxSessions = 3
  MaxFaults = 2
  None = None
  Sentinel = Sentinel
INVARIANTS EpisodesWhole MetadataHasData
PROPERTIES DurableStays SaveReturns
CHECK_DEADLOCK FALSE
