\* The bounded broadcast channel with every operation, Receiver::clone included.  That it
\* implements a log is checked without clone, which breaks the count of senders, in
\* MCComponents.
CONSTANTS
  r1 = r1
  r2 = r2
  s1 = s1
  s2 = s2
  Receivers <- MCReceivers
  Senders <- MCSenders
  Capacity = 2
  MaxSend = 4
  RxClone = TRUE
SPECIFICATION Spec
INVARIANTS
  QueueIsNewestSuffix
  NoLostWakeup
PROPERTIES
  SentIsObserved
CHECK_DEADLOCK FALSE
