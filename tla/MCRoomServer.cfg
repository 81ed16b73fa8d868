SPECIFICATION FairSpec
CONSTANTS
  Addr = {a1, a2}
  NULL = NULL
  RoomIds = {r1}
  Commands = {"register", "join", "start", "info", "quit", "map"}
  PlayerNumber = 2
  MaxSession = 2
  Garbage = {0, 1, 2, 99}
  LingerEnd = 0
  LingerWait = 1
  LingerIngame = 2
INVARIANTS TypeOK UniqueIds ListExact SeatOwner LobbyNeverLeftLocked
PROPERTIES NoEarlyDelete AnsweredOrLeftLocked
