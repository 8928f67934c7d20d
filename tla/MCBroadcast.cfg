\* Two clients on one channel, one key, two ticks to a millisecond.
CONSTANTS
  c1 = c1
  c2 = c2
  Clients <- MCClients
  Keys = {1}
  Setups <- MCSetups
  MaxOps = 5
  MaxNow = 3
  PerMs = 2
  Capacity = 1
SPECIFICATION Spec
INVARIANTS
  SubscriberReachable
  NewestApplied
PROPERTIES
  AgesKept
  StoppedEnds
CHECK_DEADLOCK FALSE
