CONSTANTS
  caller = caller
  host1 = host1
  host2 = host2
  NoTarget = NoTarget
  Callers = {caller}
  Targets = {host1, host2}
  MaxCalls = 3
  MaxDisconnects = 1
  MaxPolls = 2
SPECIFICATION FairSpec
INVARIANTS
  TypeOK
  OwnAnswerUnlessGivenUp
PROPERTIES
  SentToOwnHost
  Returns
CHECK_DEADLOCK FALSE
