SPECIFICATION MCSpec
CONSTANTS
  A = A
  B = B
  C = C
  Rows <- MCRows
  ObjectOf <- MCObjectOf
  InTarget <- MCInTarget
  TargetScope <- MCTargetScope
  Scenarios <- MCScenarios
INVARIANTS
  OnlyRequired
  RelativesRetrieved
  TargetComplete
  CountsRight
