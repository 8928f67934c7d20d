\* Two tasks and the save loop, keys of which one's hash begins with the other's.
CONSTANTS
  t1 = t1
  t2 = t2
  Tasks <- MCTasks
  Loop = Loop
  Keys = {1, 11}
  Foreign = {20, 30}
  Kin = {20}
  Setups <- MCSetups
  MaxAge = 1
  StaleTime = 1
  Start = 2
  MaxNow = 3
  MaxOps = 3
  MaxRetries = 3
  PerMs = 1
SPECIFICATION Spec
PROPERTIES
  RestoresExactly
  NothingLost
  WorkEnds
CHECK_DEADLOCK FALSE
