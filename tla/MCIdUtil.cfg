SPECIFICATION IdFairSpec
CONSTANTS
  t1 = t1
  t2 = t2
  IdThreads = {t1, t2}
  HashOf <- MCHashOf
  HostHash <- MCHostHash
  CustomIds <- MCCustomIds
  MaxSequence = 1
  MaxWaitCount = 2
  MaxMillis = 2
  MaxAdjustments = 1
  MaxIds = 4
INVARIANTS
  UniqueIds
PROPERTIES
  CallsReturn
CHECK_DEADLOCK FALSE
