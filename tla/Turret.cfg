SPECIFICATION Spec
CONSTANTS
  Boxes <- CornerBoxes
  Second = 5
  Gap = 2
  Word = 21474
INVARIANTS
  TypeOK
  CommandInTurretRange
  MappedWithItsOwnCrop
  RateIsLimited
  AtMostOneLateCommand
