CONSTANTS
  s1 = s1
  s2 = s2
  s3 = s3
  ann = ann
  bob = bob
  cat = cat
  Free = Free
  Absent = Absent
  Sessions <- TwoSessions
  Owner <- OneEach2
  UserIds = {1, 2, 3}
  FirstName <- ThreeNames
  Nicknames = {ann, bob, cat}
  Amounts = {1}
  Kinds <- OnlyPay
  InitialBalance = 1
  MaxRetry = 1
  LockMode = "occ"
  Faults = {"commit"}
SPECIFICATION Spec
PROPERTY SuccessMeansPaid
