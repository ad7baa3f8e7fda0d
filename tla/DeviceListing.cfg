CONSTANTS
  None = None
  Devices <- MCDevices
  MaxPage = 3
  Sizes <- MCSizes
SPECIFICATION FairSpec
INVARIANTS TypeOK ListedInOrder NothingMissed
PROPERTIES WalkEnds
CHECK_DEADLOCK FALSE
