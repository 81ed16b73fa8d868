SPECIFICATION Spec
CONSTANTS
  c1 = c1
  c2 = c2
  Clients <- MCClients
  PlayerNumber = 2
  Passwords = {1, 2}
  Nobody = Nobody
INVARIANT RightPasswordAdmits
CHECK_DEADLOCK FALSE
