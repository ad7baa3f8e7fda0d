CONSTANTS
  d1 = d1
  d2 = d2
  c1 = c1
  c2 = c2
  c3 = c3
  None = None
  Devices = {d1}
  Commands = {c1}
  Workers = {w1}
  Target <- OneDevice
  Outcomes = {"acknowledged", "notnow"}
  Unencodable = {}
  Stamps = {1}
  CanGiveUp = FALSE
  MaxCrashes = 0
SPECIFICATION Spec
INVARIANTS DocumentedStatuses
