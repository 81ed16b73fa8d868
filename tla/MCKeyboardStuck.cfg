SPECIFICATION FairSpec
CONSTANTS
  SizeX = 2
  SizeY = 3
  Lines <- MCLines
  MaxLines = 1
PROPERTY EveryKeyActedOn
