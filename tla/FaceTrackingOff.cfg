SPECIFICATION FairSpec
CONSTANTS
  MaxIds = 3
  MaxFaults = 2
  MaxSwitches = 2
  MaxMoves = 0
  MaxPending = 3

CHECK_DEADLOCK FALSE
PROPERTY TrackingEnds
