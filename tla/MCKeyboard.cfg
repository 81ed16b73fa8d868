SPECIFICATION Spec
CONSTANTS
  SizeX = 2
  SizeY = 3
  Lines <- MCLines
  MaxLines = 1
INVARIANT TypeOK
PROPERTIES CursorFollowsArmy ModeIsMarch
