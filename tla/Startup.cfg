SPECIFICATION FairSpec
CONSTANT OutputCounts <- OutputsAroundThree
INVARIANTS
  TypeOK
  ThreadWaitsForInit
  LeakIsOfOneFailure
  FaultHasACause
PROPERTY
  FirstResult
CHECK_DEADLOCK FALSE
