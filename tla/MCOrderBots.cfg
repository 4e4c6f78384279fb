SPECIFICATION FairSpec
CONSTANTS
  r1 = r1
  r2 = r2
  c1 = c1
  c2 = c2
  c3 = c3
  Requests = {r1, r2}
  Calls = {c1, c2}
  RequestOf <- PairCalls
  Bots = {r1, r2}
  Limits = {}
  StrategyOf <- BotStrategies
  MaxLosses = 1
  BrokerPatience = 3
  MaxCrashes = 1
 
PROPERTIES InFlightEnds
CHECK_DEADLOCK FALSE
