SPECIFICATION FlowSpec
CONSTANTS
  Producers = {p1, p2, p3}
  Consumers = {c1, c2}
  Limits = {1, 2}
  Capacities = {3}
  MaxAttempts = 7
INVARIANTS
  BoundedOvershoot
PROPERTIES
  SizeTruthful
CHECK_DEADLOCK FALSE
