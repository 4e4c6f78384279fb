SPECIFICATION FairSpec
CONSTANTS
  p1 = p1
  p2 = p2
  t1 = t1
  Procs = {p1, t1}
  Kinds <- MCDeskSync
  Deals = {d1}
  Rows = {r1}
  Nil = Nil
  Full = 2
  EmptyLimit = 2
  ChartEdits = TRUE
  MaxThrows = 0
  MaxFlakes = 1
  MaxCrashes = 1
PROPERTIES  RowsCatchUp
