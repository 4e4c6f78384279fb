SPECIFICATION Spec
CONSTANTS
  p1 = p1
  p2 = p2
  t1 = t1
  Procs = {p1, p2}
  Kinds <- MCTwoDesks
  Deals = {d1}
  Rows = {r1, r2}
  Nil = Nil
  Full = 2
  EmptyLimit = 2
  ChartEdits = FALSE
  MaxThrows = 1
  MaxFlakes = 0
  MaxCrashes = 0
SYMMETRY Symmetry
INVARIANTS EarningsBooked
 
CHECK_DEADLOCK FALSE
