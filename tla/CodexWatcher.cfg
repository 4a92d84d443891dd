\* Quick changes against a slow or lost ack, an announcement and one outage.
CONSTANTS
  MaxEntries = 2
  MaxTimeouts = 1
  MaxOutages = 1
  MaxPlaybacks = 1
SPECIFICATION FairSpec
INVARIANTS
  TypeOK
  NoStrandedChange
  QuietRobotShowsLastSent
PROPERTY
  PendingChangeSettles
\* The model stops when the log is quiet and every timer has run.
CHECK_DEADLOCK FALSE
