SPECIFICATION AccountsFairSpec
CONSTANTS
  a1 = a1
  a2 = a2
  d1 = d1
  d2 = d2
  x = x
  y = y
  None = None
  Pins = {None, x}
  Accounts = {a1}
  Desks = {d1}
  Subs = {x, y}
  Money <- MCMoney
  Watched = {a1}
  Handles = {1, 2, 3}
  Asks = {"connect", "disconnect", "sync", "bind", "archive", "creds", "ready"}
  MaxAsks = 2
  MaxFaults = 1
INVARIANTS
  ConnectSettles
PROPERTIES
  ConnectingEnds
  ConnectedIsServed
CHECK_DEADLOCK FALSE
