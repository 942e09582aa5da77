\* Stop and restart; no worker ends on its own.
CONSTANTS
  s1 = s1
  s2 = s2
  Submitters = {s1, s2}
  NumWorkers = 2
  MaxQueueSize = 1
  MaxSubmits = 3
  MaxStarts = 2
  MaxStops = 1
  MaxExits = 0
  MaxSpurious = 0
  MaxThreads = 4
SYMMETRY SubmitterSymmetry
SPECIFICATION Spec
INVARIANTS
  TypeOK
  TasksInOrder
  StopJoinsAll
CHECK_DEADLOCK FALSE
