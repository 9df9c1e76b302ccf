SPECIFICATION Spec
CONSTANTS
  Boxes <- CornerBoxes
  Second = 10
  Gap = 3
  Word = 42949
INVARIANT ThreeAreasAreSearched
