SPECIFICATION Spec
CONSTANTS
  Thread = {t1, t2}
  Limit = 4
CHECK_DEADLOCK FALSE
INVARIANT EveryClientHasThread
