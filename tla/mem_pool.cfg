CONSTANTS
  Requests = {2, 12}
  Span = 16
  MaxBlocks = 2
  MaxDrift = 2
  nil = nil
SPECIFICATION Spec
PROPERTY LiveSpacesStay
CHECK_DEADLOCK FALSE
