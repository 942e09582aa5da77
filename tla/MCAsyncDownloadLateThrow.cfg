CONSTANT MaxLen = 1
SPECIFICATION Spec
PROPERTY NoBodyAfterEnd
CHECK_DEADLOCK FALSE
