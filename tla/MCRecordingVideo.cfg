SPECIFICATION Spec
CONSTANTS
  NumEpisodes = 2
  EpisodeTicks = 2
  ResetTicks = 1
  MaxPresses = 2
INVARIANTS VideoIsOneAttempt
CHECK_DEADLOCK FALSE
