CONSTANTS
  s1 = s1
  s2 = s2
  p1 = p1
  p2 = p2
  Guest = Guest
  NoSession = NoSession
  NoRoom = NoRoom
  Sessions <- TwoSessions
  Players = {p1, p2}
  LoginAs <- OwnAccounts
  MaxRooms = 2
  MaxQueue = 2
SPECIFICATION Spec
INVARIANTS
  CurrentRoomIsReal
  NoGhostMember
  DeadRoomIsEmpty
  UsedRoomIsListed
  SpeakerHears
  NoGhostOnline
CHECK_DEADLOCK FALSE
