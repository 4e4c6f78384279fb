SPECIFICATION Spec
CONSTANTS
  r1 = r1
  r2 = r2
  c1 = c1
  c2 = c2
  c3 = c3
  Requests = {r1, r2}
  Calls = {c1, c2, c3}
  RequestOf <- ClickCalls
  Bots = {}
  Limits = {r2}
  StrategyOf <- NoStrategies
  BrokerPatience = 4
  MaxCrashes = 1
  MaxLosses = 0
 
PROPERTIES RequestKept
SYMMETRY Symmetry
CHECK_DEADLOCK FALSE
