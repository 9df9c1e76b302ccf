SPECIFICATION FairSpec
CONSTANTS
  MaxFrame = 3
  ResizeOutcomes <- AnyResize
  RunOutcomes <- RunMayFail
  GetMayFail = TRUE
INVARIANTS OneSlotSuffices FirstHandOffIsClean
PROPERTIES FrameIsReleased
CHECK_DEADLOCK FALSE
