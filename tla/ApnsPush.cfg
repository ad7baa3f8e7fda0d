CONSTANTS
  None = None
  Threads = {t1, t2}
  Ttl = 2
  MaxWait = 1
  MaxTime = 5
  MaxRequests = 4
SPECIFICATION FairSpec
INVARIANTS TypeOK TokenStillValid OneHttpClient ClientPerThread
PROPERTIES RenewalsApart EveryPushEnds
CHECK_DEADLOCK FALSE
