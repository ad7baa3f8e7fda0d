CONSTANTS
  None = None
  Commands = {1, 2}
  Power = {2}
  Workers = {w1, w2}
  MaxToken = 2
  MaxFaults = 1
  MaxStops = 1
SPECIFICATION FairSpec
INVARIANTS TypeOK RunsInOrder
PROPERTIES EveryCommandSettles ImplementsExecution DeviceIsSeen
CHECK_DEADLOCK FALSE
