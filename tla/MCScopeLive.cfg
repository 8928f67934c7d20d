\* Worker pool: every mutation settles, whatever waiting futures are dropped.
CONSTANTS
  m1 = m1
  m2 = m2
  m3 = m3
  Mutations <- MCMutations
  Threaded = TRUE
  Retry = 0
  Ops = {"drop_waiting", "resume_paused"}
SPECIFICATION ScopeSpec
PROPERTIES
  EveryMutationSettles
CHECK_DEADLOCK FALSE
