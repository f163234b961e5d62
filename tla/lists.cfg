CONSTANTS
  p1 = p1
  p2 = p2
  c1 = c1
  c2 = c2
  Junk = Junk
  Producers <- TwoProducers
  Consumers <- TwoConsumers
  Teams <- Races
  Nodes <- LargeHeap
  UnitNum = 4
  Wrap = 64
  MallocFails = FALSE
  MaxPush = 2
SPECIFICATION Behaviour
INVARIANT NodesAreOwned
INVARIANT NumFollows
PROPERTY IsFifo
SYMMETRY Alike
