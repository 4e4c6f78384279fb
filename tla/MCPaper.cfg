SPECIFICATION Spec
CONSTANTS
  RequestIds = {r1}
  Bids <- MCBids
  DefaultBid = 12
  Spread = 1
  Slippage = 1
  MinStop = 1
  ContractSize = 1
  Leverage = 2
  CommissionPerLot = 1
  StartingBalance = 20
  MinVolume = 1
  MaxVolume = 2
  Types = {"MARKET", "LIMIT", "STOP", "STOP_LIMIT"}
  Volumes = {2}
  Stops <- MCStops
  Targets <- MCTargets
  Triggers <- MCTriggers
  Trails = {2}
  MaxOrders = 3
  MaxPositions = 2
  MaxRestarts = 1
INVARIANTS OneFillPerRequest BalanceReconciles TradesExplainExposure StopsHonoured
CHECK_DEADLOCK FALSE
