\* One start; workers end on their own and are replaced.
CONSTANTS
  s1 = s1
  s2 = s2
  Submitters = {s1}
  NumWorkers = 2
  MaxQueueSize = 0
  MaxSubmits = 2
  MaxStarts = 1
  MaxStops = 0
  MaxExits = 2
  MaxSpurious = 1
  MaxThreads = 4
SPECIFICATION FairSpec
INVARIANTS
  OneWorkerPerId
PROPERTIES
  TasksTaken
  WorkersReplaced
CHECK_DEADLOCK FALSE
