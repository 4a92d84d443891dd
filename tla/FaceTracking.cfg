SPECIFICATION FairSpec
CONSTANTS
  MaxIds = 3
  MaxFaults = 2
  MaxSwitches = 2
  MaxMoves = 1
  MaxPending = 3
INVARIANTS AnswersItsFrame BacklogBounded YieldsToMoveHead StepsFromTheHead
CHECK_DEADLOCK FALSE
PROPERTIES DetectorComesBack TrackingEndsQuietly
