SPECIFICATION Spec
CONSTANTS
  desk = desk
  sibling = sibling
  a1 = a1
  a2 = a2
  s1 = s1
  s2 = s2
  Procs = {desk, sibling}
  Adapters = {a1, a2}
  AdapterOf <- MCAdapterOf
  SubAccounts = {s1, s2}
  Pin <- MCPin
  Preferred = s2
  MaxExpiries = 1
  Requests = {"r1", "r2"}
  Wants = {TRUE}
  Work <- MCWork
  Truthful = TRUE
  MaxFaults = 1
INVARIANTS LockIsReleased OneDealPerRequest NoDealForgotten
PROPERTIES  ActsOnOwnAccount FilledIsProtected
