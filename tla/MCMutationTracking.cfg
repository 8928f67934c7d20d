\* Two executions, an event channel of three.
CONSTANTS
  e1 = e1
  e2 = e2
  Nobody = Nobody
  Executions <- MCExecutions
  Setups <- MCSetups
  MaxOps = 2
  Capacity = 3
SPECIFICATION Spec
INVARIANTS
  ShownIsTrue
  StreamComplete
  OptimismPaidBack
PROPERTIES
  LoadingEnds
CHECK_DEADLOCK FALSE
