CONSTANTS
  d1 = d1
  d2 = d2
  c1 = c1
  c2 = c2
  c3 = c3
  None = None
  Devices = {d1, d2}
  Commands = {c1, c2, c3}
  Workers = {w1, w2}
  Target <- TwoDevices
  Outcomes = {"acknowledged", "notnow"}
  Unencodable = {c2}
  Stamps = {1}
  CanGiveUp = FALSE
  MaxCrashes = 1
SPECIFICATION FairSpec
INVARIANTS TypeOK LossesAreAccounted
PROPERTIES ImplementsLifecycle ReportsArrive
