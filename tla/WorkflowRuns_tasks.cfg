CONSTANTS
  c = c q = q m = m l = l p = p n = n
  Runs = {q, p, n}
  Deliveries = {d1, d2, d3}
  KindOf <- MCKindOf
  NoVersion = NoVersion
  MaxRetries = 0
  MaxCrashes = 1
  Trouble = {"cancel"}
SPECIFICATION Spec
SYMMETRY Interchangeable
INVARIANT ForegroundEnds
PROPERTY IdleCancelledStays
CHECK_DEADLOCK FALSE
