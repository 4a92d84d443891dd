CONSTANTS
  MaxAnnouncements = 3
  Chunks = 2
  MaxOutages = 1
  MaxTimeouts = 1
SPECIFICATION FairSpec
INVARIANT StillUnlessOverlapped
PROPERTY FreshTransferPlays
CHECK_DEADLOCK FALSE
