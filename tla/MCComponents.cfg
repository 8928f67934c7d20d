CONSTANTS
  None = None
  NoData = NoData
  Placeholder = Placeholder
  ka = ka
  kb = kb
  t1 = t1
  t2 = t2
  o1 = o1
  o2 = o2
  NoProc = NoProc
  NoKey = NoKey
  Receivers = {o1, o2}
  Senders = {t1, t2}
  Capacity = 2
  MaxSend = 3
  RxClone = FALSE
  Mutations = {m1, m2, m3}
  Threaded = FALSE
  Retry = 0
  Ops = {"drop_waiting", "drop_running", "remove"}
  Callers = {t1, t2}
  Observers = {o1, o2}
  Threads = {t1, t2}
  MaxNest = 3
SPECIFICATION ComponentsSpec
INVARIANTS
  CallbacksRunOnce
  HandlesTellTrue
  TimelineFaithful
  ObserversInStep
  SelectionExact
  ScopeMutex
  StaysSafe
PROPERTIES
  ImplementsLog
  StreamsWhole
  EverythingEnds
CHECK_DEADLOCK FALSE
