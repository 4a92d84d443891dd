\* The robot's outbound queues over two connections.
CONSTANTS
  CriticalMax = 1
  NormalMax = 2
  CameraMax = 1
  MaxMessages = 4
  MaxConnections = 2
SPECIFICATION Spec
INVARIANTS TypeOK NothingStale BoundedQueues
PROPERTIES ImplementsChannels
