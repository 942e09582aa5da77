CONSTANTS
  caller = caller
  host1 = host1
  host2 = host2
  NoTarget = NoTarget
  Callers = {caller}
  Targets = {host1, host2}
  MaxCalls = 2
  MaxDisconnects = 0
  MaxPolls = 2
SPECIFICATION Spec
INVARIANT OwnAnswer
CHECK_DEADLOCK FALSE
