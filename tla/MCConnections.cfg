SPECIFICATION FairSpec
CONSTANTS
  c1 = c1
  c2 = c2
  c3 = c3
  Clients = {c1, c2, c3}
  Askers = {c1, c2}
  NoClient = NoClient
  MAX_PLAYER = 2
  Asked <- MCAsked
  Cells = 3
  Players = 3
  Grain = 3
  CodeBits = 12
  LenBits = 3
INVARIANTS FdsAccounted PassExact InStep
PROPERTIES Served
CHECK_DEADLOCK FALSE
