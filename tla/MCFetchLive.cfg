\* Single thread, online: the in-flight registry and its waiters, the gc thread beside them.
CONSTANTS
  k1 = k1
  k2 = k2
  p1 = p1
  p2 = p2
  p3 = p3
  c1 = c1
  NoProc = NoProc
  NoKey = NoKey
  Keys <- OneKey
  Procs <- ThreeProcs
  Callers <- OneCaller
  Threaded = FALSE
  Mode = "Online"
  MaxRetries = 0
  Outcomes = {"ok", "fatal", "panic"}
  Ops = {"spawn", "execute", "ensure", "token", "cancel_query", "remove_queries", "reset_queries", "clear", "gc"}
  MaxCalls = 2
  MaxFlips = 0
  Capacity = 2
SPECIFICATION Spec
ACTION_CONSTRAINT InOrder
INVARIANTS
  InFlightIsLive
PROPERTIES
  DedupWaiterResolves
CHECK_DEADLOCK FALSE
