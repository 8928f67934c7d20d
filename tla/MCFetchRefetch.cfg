\* Single thread, fetches started by refetch: coalescing, invalidation and the count of fetches.
CONSTANTS
  k1 = k1
  k2 = k2
  p1 = p1
  p2 = p2
  p3 = p3
  c1 = c1
  NoProc = NoProc
  NoKey = NoKey
  Keys <- TwoKeys
  Procs <- TwoProcs
  Callers <- OneCaller
  Threaded = FALSE
  Mode = "OfflineFirst"
  MaxRetries = 1
  Outcomes = {"ok", "retryable", "fatal", "panic"}
  Ops = {"refetch", "drop_handle", "set_query_data", "cancel_query", "clear", "gc", "invalidate", "cancel_queries", "reset_queries", "remove_queries", "invalidate_filtered", "refetch_queries", "refetch_queries_keep", "refetch_all_stale", "handle_reconnect"}
  MaxCalls = 4
  MaxFlips = 1
  Capacity = 2
INIT Init
NEXT Next
SYMMETRY KeyProcSymmetry
INVARIANTS
  FetchingCountExact
  OneFetchPerKey
  FreshMeansCurrent
PROPERTIES
  NoStartWhileRestoring
CHECK_DEADLOCK FALSE
