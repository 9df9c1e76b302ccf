SPECIFICATION FairSpec
CONSTANTS
  MaxFrame = 5
  ResizeOutcomes <- OnlyRga
  RunOutcomes <- RunSucceeds
  GetMayFail = FALSE
INVARIANTS TypeOK TagsOrdered NoResultBeforeInference
PROPERTIES ImplementsChannel EveryFrameReachesNpu
\* a fault ends the process
CHECK_DEADLOCK FALSE
