CONSTANT MaxLen = 1
SPECIFICATION Spec
PROPERTY HandedOverEnds
CHECK_DEADLOCK FALSE
