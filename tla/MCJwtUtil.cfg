SPECIFICATION JwtSpec
CONSTANTS
  Tokens = {a, b, c}
  Lifetimes = {1, 2}
  EntryLimits = {1, 2}
  MaxTime = 3
  MaxRestarts = 1
SYMMETRY Symmetry
PROPERTIES
  RevokedStaysOut
  OldSessionsExpelled
CHECK_DEADLOCK FALSE
