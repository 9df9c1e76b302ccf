SPECIFICATION SystemFairSpec
CONSTANTS
  MaxBuffered = 1
  SocketSize = 1
  MaxCommands = 3
  MaxFaults = 1
  Retain = TRUE
  MaxMessages = 2
PROPERTIES
  ImplementsLinks
  OffMeansRest
CHECK_DEADLOCK FALSE
