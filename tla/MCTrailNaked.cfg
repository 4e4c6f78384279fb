SPECIFICATION FairSpec
CONSTANTS
  t1 = t1
  t2 = t2
  Procs = {t1}
  Kinds <- MCOneTimer
  RowModes = {"OTHER"}
  Marks = {58, 60, 70}
  Entry = 60
  FirstStop = 54
  MinDist = 2
  TrailDist = 3
  HasBe = FALSE
  BeAt = 2
  BeOffset = 1
  Bump = 3
  ChartEdits = FALSE
  MaxMoves = 0
  MaxFaults = 0
PROPERTIES
  NakedRecovered
