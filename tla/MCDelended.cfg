SPECIFICATION FairSpec
CONSTANTS
  Addr = {a1, a2}
  NULL = NULL
  RoomIds = {r1, r2}
  Commands = {"register", "start"}
  PlayerNumber = 1
  MaxSession = 2
  Garbage = {0}
  LingerEnd = 0
  LingerWait = 1
  LingerIngame = 2
PROPERTIES EndedRoomDeleted
