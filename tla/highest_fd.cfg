CONSTANTS
  e1 = e1
  e2 = e2
  NULL = NULL
  Events <- Two
  ev_fd <- OwnFd
  Kinds <- EitherIO
  Delays <- OwnDelay
SPECIFICATION Spec
INVARIANT HighestFd
CHECK_DEADLOCK FALSE
