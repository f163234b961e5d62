CONSTANTS
  p1 = p1
  p2 = p2
  c1 = c1
  c2 = c2
  o1 = o1
  v1 = v1
  v2 = v2
  Junk = Junk
  Producers <- OneProducer
  Consumers <- TwoConsumers
  Observers <- NoThread
  Values <- TwoValues
  unit_num = 4
  type = 2
  Wrap = 16
  MaxPos = 5
SPECIFICATION Spec
INVARIANT PopsInOrder
PROPERTY EmptyOrLapped
PROPERTY ImplementsFifo
CHECK_DEADLOCK FALSE
