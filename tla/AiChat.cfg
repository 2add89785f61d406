CONSTANTS
  s1 = s1
  s2 = s2
  Sessions = {s1, s2}
  NoSession = NoSession
  DailyCalls = 1
  HistoryRows = 2
  MaxAttempts = 2
  Faults = {"claude", "select", "begin", "execute", "commit", "throw"}
  MaxAsks = 3
SPECIFICATION FairSpec
INVARIANTS
  OneReplyAtATime
  QuotaHolds
  HistoryIsAccepted
PROPERTY BusyEnds
CHECK_DEADLOCK FALSE
