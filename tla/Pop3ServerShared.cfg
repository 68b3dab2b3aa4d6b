SPECIFICATION Spec
CONSTANTS
  Thread = {t1, t2, t3}
  Limit = 6
CHECK_DEADLOCK FALSE
INVARIANT OneThreadPerConnection
