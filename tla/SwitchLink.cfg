SPECIFICATION FairSpec
CONSTANTS
  Retain = TRUE
  MaxFaults = 3
  MaxMessages = 2
INVARIANT
  TypeOK
PROPERTIES
  UserIsObeyed
  StaysDeaf
CHECK_DEADLOCK FALSE
