\* Worker pool, remove, clear and resume_paused at any time, waiting futures dropped:
\* releases are never lost.
CONSTANTS
  m1 = m1
  m2 = m2
  m3 = m3
  Mutations <- MCMutations
  Threaded = TRUE
  Retry = 1
  Ops = {"drop_waiting", "resume_paused", "remove", "clear"}
INIT ScopeInit
NEXT ScopeNext
SYMMETRY MutationSymmetry
INVARIANTS
  ReleaseIsOwed
CHECK_DEADLOCK FALSE
