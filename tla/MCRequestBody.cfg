SPECIFICATION Spec
CONSTANTS
  Addresses = {a1, a2}
  Requests = {1, 2, 3}
  Middlewares = 2
  MaxPieces = 2
INVARIANTS
  OwnBodyOnly
  ReceiverReleased
CHECK_DEADLOCK FALSE
