SPECIFICATION Spec
CONSTANTS
  Names <- TwoNames
  Shapes <- AllTypes
  MaxRecords = 2
  RawTargets = FALSE
CHECK_DEADLOCK FALSE
INVARIANTS
  CacheGetsWhatWasSent
  AllIsRead
