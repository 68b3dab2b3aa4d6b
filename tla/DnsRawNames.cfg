SPECIFICATION Spec
CONSTANTS
  Names <- TwoNames
  Shapes <- Authority
  MaxRecords = 2
  RawTargets = TRUE
CHECK_DEADLOCK FALSE
INVARIANT PointersFollowed
