SPECIFICATION Spec
CONSTANTS
  Cells <- FewCells
  MaxCells = 4
  MaxResults = 3
  Classes <- FewClasses
  ModelSize = 20
  zp <- ZeroPoint
  S = 255
INVARIANTS
  TypeOK
  PrefilterLosesNothing
  SurvivorsDisjoint
  ResultsRanked
  NothingDroppedForNothing
  BoxesInPicture
