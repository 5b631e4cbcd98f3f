SPECIFICATION FairSpec
CONSTANTS
  NumEpisodes = 2
  EpisodeTicks = 2
  ResetTicks = 1
  MaxPresses = 2
INVARIANTS EpisodeIsOneAttempt PicturesOfFrames RejectedNeverSaved
PROPERTIES StopEnds SessionEnds
CHECK_DEADLOCK FALSE
