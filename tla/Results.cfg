SPECIFICATION Spec
CONSTANTS
  N = 3
  Contents <- MCContents
CHECK_DEADLOCK FALSE
INVARIANTS
  ResultsAreRight
