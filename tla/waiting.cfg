CONSTANTS
  i1 = i1
  i2 = i2
  o1 = o1
  o2 = o2
  e1 = e1
  e2 = e2
  k1 = k1
  k2 = k2
  k3 = k3
  Junk = Junk
  NULL = NULL
  Off = Off
  Nobody = Nobody
  Inputs <- TwoInputs
  Outputs <- TwoOutputs
  top = 3
  MaxPush = 3
SPECIFICATION Behaviour
INVARIANT Conserved
INVARIANT NoLostWakeup
INVARIANT WaitersCovered
PROPERTY EndsOrSleeps
PROPERTY BoundedIsFifo
PROPERTY EnqueuedIsDequeued
PROPERTY PushEnds
PROPERTY SelectServes
PROPERTY StateAgrees
PROPERTY FollowsTable
PROPERTY RunsDown
CHECK_DEADLOCK FALSE
