CONSTANTS
  t1 = t1
  t2 = t2
  q1 = q1
  q2 = q2
  NoQueue = NoQueue
  Threads <- TwoThreads
  Queues <- TwoQueues
  MaxJobs = 3
SPECIFICATION FairSpec
INVARIANTS
  OneExecutor
  NoStrandedQueue
  ProducerOrder
PROPERTIES
  ImplementsSerialExecutor
  EveryJobRuns
CHECK_DEADLOCK FALSE
