CONSTANTS
  s1 = s1
  s2 = s2
  s3 = s3
  ann = ann
  bob = bob
  cat = cat
  Free = Free
  Absent = Absent
  Sessions <- TwoSessions
  Owner <- OneEach2
  UserIds = {1, 2}
  FirstName <- TwoNames
  Nicknames = {ann, bob}
  Amounts = {1}
  Kinds <- AllKinds
  InitialBalance = 1
  MaxRetry = 2
  LockMode = "updlock"
  Faults = {"begin", "execute", "commit"}
SPECIFICATION FairSpec
INVARIANTS
  NoDeadlock
  LockedRowsNeverConflict
PROPERTIES
  ImplementsBank
  EveryRequestAnswered
