\* One binding of each hook, two sources, two callers.
CONSTANTS
  c1 = c1
  c2 = c2
  Own = Own
  Callers <- MCCallers
  Slots = {1, 2}
  Setups <- MCSetups
  MaxCalls = 3
  FeedCap = 2
  Capacity = 2
SPECIFICATION Spec
INVARIANTS
  HeardInOrder
PROPERTIES
  SignalFollows
CHECK_DEADLOCK FALSE
