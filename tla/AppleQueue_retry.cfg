CONSTANTS
  d1 = d1
  d2 = d2
  c1 = c1
  c2 = c2
  c3 = c3
  None = None
  Devices = {d1}
  Commands = {c1, c2}
  Workers = {w1, w2, w3}
  Target <- OneDevice
  Outcomes = {"acknowledged", "notnow"}
  Unencodable = {}
  Stamps = {1, 2}
  CanGiveUp = TRUE
  MaxCrashes = 1
SPECIFICATION Spec
SYMMETRY Interchangeable
INVARIANTS RespectsEnqueueOrder RecordedIsReported HandoverInv
PROPERTIES ImplementsRetriedLifecycle
