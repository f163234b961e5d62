CONSTANTS
  p1 = p1
  p2 = p2
  c1 = c1
  c2 = c2
  Junk = Junk
  Producers <- TwoProducers
  Consumers <- TwoConsumers
  Teams <- ManyPush
  Nodes <- Heap
  UnitNum = 4
  Wrap = 64
  MallocFails = FALSE
  MaxPush = 3
SPECIFICATION Spec
PROPERTY ImplementsFifo
