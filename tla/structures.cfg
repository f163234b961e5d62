CONSTANTS
  v1 = v1
  v2 = v2
  v = v
  f1 = f1
  f2 = f2
  NULL = NULL
  Junk = Junk
  nil = nil
  any = any
  header = header
  tail = tail
  Off = Off
SYMMETRY AnyValue
SPECIFICATION Spec
INVARIANT BlocksOwned
PROPERTY ImplementsDeque
PROPERTY ElementsInPlace
INVARIANT SpacesApart
INVARIANT Balanced
INVARIANT IteratesInOrder
INVARIANT TablesDrain
INVARIANT LevelsNest
PROPERTY ImplementDictionary
INVARIANT AssertsHold
PROPERTY StackIntact
CHECK_DEADLOCK FALSE
