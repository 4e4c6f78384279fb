SPECIFICATION MCSpec
CONSTANTS
  f1 = f1
  f2 = f2
  Size = 3
  Count = 3
  MaxFaults = 1
  Followers = {f1, f2}
  Locked = {f1}
  Fixed <- MCFixed
  Handlers = {1, 2}
  MaxFailing = 1
INVARIANTS ScalesAsPlanned
PROPERTIES AtMostHalf ScaledOut OthersStillCopied
CHECK_DEADLOCK FALSE
