CONSTANTS
  HelloMax = 12
  DefaultMax = 2
  MaxTransit = 1
  MaxPending = 2
  MaxChanges = 1
  MaxOutages = 1
  MaxTimeouts = 1
SPECIFICATION FairSpec
INVARIANT CreditWithinLimit
PROPERTY FramesFlow
