SPECIFICATION CasesSpec
CONSTANTS
  MaxPrice = 14
  MaxDist = 3
  Tolerance = 1
  LeastAtr = 10
  Pip = 10
  Unit = 100
  Forex = FALSE
INVARIANTS
  TrailingTightens
  
  LockSound
  SellMirrorsBuy
  SignalsMirror
  EntryIsNoExit
  
