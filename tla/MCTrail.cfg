SPECIFICATION FairSpec
CONSTANTS
  t1 = t1
  t2 = t2
  Procs = {t1, t2}
  Kinds <- MCTimersAndUser
  RowModes = {"SCALPING", "EMA_TICK_SCALP", "OTHER"}
  Marks = {58, 70}
  Entry = 60
  FirstStop = 54
  MinDist = 2
  TrailDist = 3
  HasBe = TRUE
  BeAt = 2
  BeOffset = 1
  Bump = 3
  ChartEdits = TRUE
  MaxMoves = 1
  MaxFaults = 1
INVARIANTS
  BreakEvenOnce
PROPERTIES
  FreshPassTightens
  StopFollows
  NakedAttached
