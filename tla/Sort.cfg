SPECIFICATION FairSpec
CONSTANTS
  MaxCount = 5
  Scores <- FewScores
INVARIANTS
  TypeOK
  RanksScores
PROPERTY
  Terminates
