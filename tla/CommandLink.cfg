SPECIFICATION FairSpec
CONSTANTS
  MaxBuffered = 2
  SocketSize = 1
  MaxCommands = 6
  MaxFaults = 2
INVARIANTS
  TypeOK
  InOrderAtMostOnce
  LateIsBounded
  LossIsBounded
PROPERTIES
  AcceptedWhileDown
  BufferDrains
CHECK_DEADLOCK FALSE
