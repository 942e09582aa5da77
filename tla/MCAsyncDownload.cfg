CONSTANT MaxLen = 3
SPECIFICATION Spec
INVARIANTS
  TypeOK
  AccountedOnce
  SuccessIsWhole
PROPERTIES
  ReturnKeepsHandoff
  Completes
  Released
  IntactFileEnds
CHECK_DEADLOCK FALSE
