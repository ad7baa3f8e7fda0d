CONSTANTS
  None = None
  Commands = {1}
  Power = {1}
  Workers = {w1}
  MaxToken = 1
  MaxFaults = 0
  MaxStops = 1
SPECIFICATION Spec
PROPERTIES AckedBeforeGoingDown
CHECK_DEADLOCK FALSE
