CONSTANTS
  MaxEntries = 2
  MaxTimeouts = 0
  MaxOutages = 0
  MaxPlaybacks = 0
SPECIFICATION FairSpec
PROPERTY
  MirrorsActivity
CHECK_DEADLOCK FALSE
