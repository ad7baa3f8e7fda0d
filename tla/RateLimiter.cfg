CONSTANTS
  None = None
  Threads = {t1, t2}
  Ips = {a, b}
  Limit = 2
  Window = 2
  MaxWait = 1
  MaxTime = 5
SPECIFICATION Spec
SYMMETRY Interchangeable
INVARIANTS TypeOK AtMostLimitPerWindow
PROPERTIES RefusedRightly
CHECK_DEADLOCK FALSE
