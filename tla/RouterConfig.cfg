SPECIFICATION configSpec
CONSTANTS
  Files <- MCFiles
  LineLength = 13
  PartSize = 4
CHECK_DEADLOCK FALSE
INVARIANTS
  LoadsTheFile
PROPERTY ParseEnds
