CONSTANTS
  None = None
  Threads = {t1, t2, t3}
  MaxTokens = 3
  MaxCrashes = 2
  CanGiveUp = TRUE
SPECIFICATION Spec
SYMMETRY Interchangeable
INVARIANTS TypeOK StatusTracksDevice PushDataKept EnrolledCanBeWoken
CHECK_DEADLOCK FALSE
