CONSTANTS
  Devices = {r1, r2}
  MaxSockets = 4
  MaxFaults = 1
SPECIFICATION FairSpec
INVARIANTS TypeOK NoOrphan OnlineWhileHeard
PROPERTIES StaysServed CommandsReachRobots
