CONSTANTS
  t1 = t1
  t2 = t2
  Threads <- TwoThreads
  MaxSends = 4
  Transient = TRUE
SPECIFICATION FairSpec
INVARIANTS
  OneWriter
  QueueHasWriter
  StreamInOrder
  LostOnlyWithSession
PROPERTIES
  EverythingIsSent
  FailureEndsSession
CHECK_DEADLOCK FALSE
