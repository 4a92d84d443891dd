CONSTANTS
  Files = {"a", "b"}
  CrlfFiles = {"b"}
  MaxOverlaps = 1
  MaxLines = 2
  MaxFaults = 1
SPECIFICATION FairSpec
INVARIANT NothingMissed
PROPERTIES NamedRightly CatchesUp
CHECK_DEADLOCK FALSE
