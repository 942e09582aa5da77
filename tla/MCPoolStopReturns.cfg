\* stop() notifies a thread that is about to wait.
CONSTANTS
  s1 = s1
  s2 = s2
  Submitters = {s1}
  NumWorkers = 2
  MaxQueueSize = 0
  MaxSubmits = 0
  MaxStarts = 1
  MaxStops = 1
  MaxExits = 0
  MaxSpurious = 0
  MaxThreads = 2
SPECIFICATION FairSpec
PROPERTIES
  StopReturns
CHECK_DEADLOCK FALSE
