SPECIFICATION Spec
CONSTANTS
  MaxFrame = 3
  ResizeOutcomes <- OnlyRga
  RunOutcomes <- RunSucceeds
  GetMayFail = FALSE
INVARIANT LagsByOneFrame
CHECK_DEADLOCK FALSE
