CONSTANTS
  HelloMax = 12
  DefaultMax = 2
  MaxTransit = 1
  MaxPending = 2
  MaxChanges = 2
  MaxOutages = 0
  MaxTimeouts = 0
SPECIFICATION FairSpec
PROPERTY StopsWhenIdle
