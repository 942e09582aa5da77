SPECIFICATION Spec
CONSTANTS
  SendLen = 5
  Threshold = 2
  MaxWaits = 3
INVARIANTS
  StepOnlyWhileWaited
  SuccessIsWhole
PROPERTIES
  ResponseEnds
CHECK_DEADLOCK FALSE
