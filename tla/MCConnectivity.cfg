\* Everything that waits for connectivity, on one thread and on a pool.
CONSTANTS
  l1 = l1
  w1 = w1
  w2 = w2
  t1 = t1
  t2 = t2
  Loops <- MCLoops
  Watchers <- MCWatchers
  Threads <- MCThreads
  NoWatcher = NoWatcher
  Setups <- MCSetups
  MaxFailures = 3
SPECIFICATION Spec
INVARIANTS
  SleepIsJustified
  WatcherIffMounted
PROPERTIES
  BackOnline
CHECK_DEADLOCK FALSE
