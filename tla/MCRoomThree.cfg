SPECIFICATION Spec
CONSTANTS
  PlayerNumber = 3
  SizeX = 1
  SizeY = 3
  CASTLE_DEFAULT = 1
  SpaceRoundNeed = 2
  Orders <- MCAttacks
  MaxRound = 3
  MaxOrders = 1
INVARIANTS NoHomelessArmy OrdersHaveOwner AtMostOneWinner
PROPERTIES OutIsOut MatchSpec RosterSpec
