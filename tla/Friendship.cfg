CONSTANTS
  s1 = s1
  s2 = s2
  s3 = s3
  Sessions = {s1, s2, s3}
  PoolSize = 2
  Users = {"ann", "bob"}
  Owner <- Owners
  NoCall = NoCall
  Free = Free
  Tables <- Starts
  Faults = {"execute", "begin", "commit"}
  MaxCalls = 3
SPECIFICATION FairSpec
INVARIANTS
  NoLostWakeup
  ConnectionHasOnePlace
  LocksAreBorrowed
  OnlyRemovesDeadlock
PROPERTIES
  ImplementsFriendBook
  EveryRequestAnswered
CHECK_DEADLOCK FALSE
