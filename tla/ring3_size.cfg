CONSTANTS
  Producers = {p1}
  Consumers = {c1}
  Observers = {}
  Values = {v1}
  Junk = Junk
  unit_num = 2
  type = 1
  Wrap = 16
  MaxPos = 2
SPECIFICATION Ring3Spec
INVARIANT SizeIsElementNumber
CHECK_DEADLOCK FALSE
