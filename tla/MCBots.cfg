SPECIFICATION FairSpec
CONSTANTS
  s1 = s1
  s2 = s2
  a1 = a1
  d1 = d1
  d2 = d2
  o1 = o1
  o2 = o2
  None = None
  Bots = {s1, s2}
  Accounts = {a1}
  Desks = {d1}
  Slots = {o1, o2}
  Signals = {"SELL", "CLOSE"}
  Asks = {"start", "save", "stop"}
  Modes = {FALSE}
  Casts <- MCCasts
  MaxTurns = 1
  MaxFaults = 1
  MaxAsks = 1
INVARIANTS
  NoBotTakesAnothers
PROPERTIES
  OneTradeUntilClose
  NotFrozen
  StoppedBotsRest
CHECK_DEADLOCK FALSE
