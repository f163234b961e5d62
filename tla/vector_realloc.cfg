CONSTANTS
  Arrays <- Short
  init_number = 1
  length = 3
  MaxNumber = 5
  any = any
  nil = nil
SPECIFICATION Spec
PROPERTY BlockKept
CHECK_DEADLOCK FALSE
