SPECIFICATION FairSpec
CONSTANTS
  PlayerNumber = 2
  SizeX = 1
  SizeY = 3
  CASTLE_DEFAULT = 1
  SpaceRoundNeed = 2
  Orders <- MCMarches
  MaxRound = 3
  MaxOrders = 1
INVARIANTS TypeOK MapBeforePlay NoNegativeArmy NeutralGround MarchSeen
PROPERTIES EqualLosses LandChangesHands FinalPosition LastOneEnds
