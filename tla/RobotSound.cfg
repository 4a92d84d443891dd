SPECIFICATION FairSpec
CONSTANTS
  MaxTasks = 2
  AskedVolumes = {30}
  Frames = 2
  DecodeSlots = 1
  PlaybackSlots = 1
  UserVolume = 50
  MaxRestarts = 1
INVARIANTS
  TypeOK
  VolumeComesBack
  PlaysAtAskedVolume
  FinishedMeansPlayed
  ClipsStayWhole
  OneFramePerSilence
PROPERTIES
  EveryClipEnds
  PowersDown
CHECK_DEADLOCK FALSE
