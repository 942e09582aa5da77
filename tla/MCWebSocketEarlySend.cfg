CONSTANTS
  caller = caller
  url1 = url1
  url2 = url2
  NoTarget = NoTarget
  Callers = {caller}
  Targets = {url1, url2}
  MaxCalls = 2
  MaxDisconnects = 0
  MaxPolls = 2
SPECIFICATION Spec
PROPERTY SendWaitsForOpen
CHECK_DEADLOCK FALSE
