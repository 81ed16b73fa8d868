SPECIFICATION FairSpec
CONSTANTS
  c1 = c1
  c2 = c2
  Clients <- MCClients
  PlayerNumber = 2
  Passwords = {1, 2}
  Nobody = Nobody
INVARIANTS TypeOK OwnSlot EndScreen
PROPERTIES OnlyOutExpelled EndReachesGame GoneRoomEmpties
CHECK_DEADLOCK FALSE
