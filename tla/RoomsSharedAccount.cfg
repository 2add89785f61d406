CONSTANTS
  s1 = s1
  s2 = s2
  p1 = p1
  p2 = p2
  Guest = Guest
  NoSession = NoSession
  NoRoom = NoRoom
  Sessions <- TwoSessions
  Players = {p1, p2}
  LoginAs <- SharedAccount
  MaxRooms = 1
  MaxQueue = 2
SPECIFICATION Spec
INVARIANT DeadRoomIsEmpty
CHECK_DEADLOCK FALSE
