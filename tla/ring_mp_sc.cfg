CONSTANTS
  p1 = p1
  p2 = p2
  c1 = c1
  c2 = c2
  o1 = o1
  v1 = v1
  v2 = v2
  Junk = Junk
  Producers <- TwoProducers
  Consumers <- OneConsumer
  Observers <- OneObserver
  Values <- OneValue
  unit_num = 4
  type = 4
  Wrap = 16
  MaxPos = 3
SPECIFICATION FairSpec
INVARIANT ClaimsAreExclusive
INVARIANT NeverPopsUnpublished
PROPERTY SizeErrsOneWay
PROPERTY ClaimedPushReturns
CHECK_DEADLOCK FALSE
