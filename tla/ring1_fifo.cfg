CONSTANTS
  Junk = Junk
  Producers = {p1, p2}
  Consumers = {c1}
  Teams = {{p1, p2, c1}}
  unit_num = 4
  Wrap = 8
  Nums = {1}
  MaxElems = 6
SPECIFICATION Spec
INVARIANT FirstComingFirstOutput
CHECK_DEADLOCK FALSE
