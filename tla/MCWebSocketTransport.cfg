CONSTANTS
  caller = caller
  url1 = url1
  url2 = url2
  NoTarget = NoTarget
  Callers = {caller}
  Targets = {url1, url2}
  MaxCalls = 3
  MaxDisconnects = 1
  MaxPolls = 2
SPECIFICATION FairSpec
INVARIANTS
  OwnAnswerUnlessGivenUp
PROPERTIES
  SentToOwnUrl
  Returns
CHECK_DEADLOCK FALSE
