SPECIFICATION FairSpec
CONSTANTS
  Addr = {a1}
  NULL = NULL
  RoomIds = {r1}
  Commands = {"register", "start", "info"}
  PlayerNumber = 2
  MaxSession = 2
  Garbage = {0}
  LingerEnd = 0
  LingerWait = 1
  LingerIngame = 2
PROPERTIES EveryRequestAnswered
