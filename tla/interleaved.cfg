CONSTANTS
  p1 = p1
  p2 = p2
  c1 = c1
  c2 = c2
  v1 = v1
  e1 = e1
  e2 = e2
  e3 = e3
  Junk = Junk
  NULL = NULL
  Off = Off
SYMMETRY Alike
SPECIFICATION Spec
INVARIANT PopsInOrder
INVARIANT SizesAgree
PROPERTY FailsForAReason
PROPERTY ImplementsFifo
INVARIANT NoneOverdue
PROPERTY FiresInOrder
INVARIANT QueuesMatchFlags
PROPERTY CalledOnce
CHECK_DEADLOCK FALSE
