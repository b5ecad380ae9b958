SPECIFICATION Spec
CONSTANTS
  Slices <- MCSlices
  Sizes <- MCSizes
  MCLength = 2
INVARIANTS CopyIsExact ComparisonIsOrder
CHECK_DEADLOCK FALSE
