SPECIFICATION FairSpec
CONSTANTS
  Thread = {t1, t2}
  Limit = 4
CHECK_DEADLOCK FALSE
INVARIANTS
  OpenIsHeld
  CleanKeepsSocket
PROPERTY ServedAndClosed
