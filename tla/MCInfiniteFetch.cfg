\* Two infinite observers of one key.
CONSTANTS
  o1 = o1
  o2 = o2
  Observers <- MCObservers
  Setups <- MCSetups
  LowPage <- MCLowPage
  HighPage = 2
  MaxCalls = 3
SPECIFICATION Spec
INVARIANTS
  PagesContiguous
  InFlightIsOwned
PROPERTIES
  LoopServes
CHECK_DEADLOCK FALSE
