CONSTANTS
  None = None
  Device = d
  Devices = {d}
  c1 = c1
  c2 = c2
  Commands = {c1, c2}
  Workers = {w1, w2}
  Target <- ToDevice
  Outcomes = {"notnow"}
  Unencodable = {}
  Stamps = {1}
  CanGiveUp = TRUE
  MaxCrashes = 1
  MaxTokens = 2
  MaxMishaps = 1
SPECIFICATION FairDeviceSpec
INVARIANTS DeviceTypeOK HandedOverOnce ResultsAccounted LossesThroughLives
PROPERTIES WokenDeviceDrains
CHECK_DEADLOCK FALSE
