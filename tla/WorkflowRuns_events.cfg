CONSTANTS
  c = c q = q m = m l = l p = p n = n
  Runs = {c, q}
  Deliveries = {d1, d2}
  KindOf <- MCKindOf
  NoVersion = NoVersion
  MaxRetries = 0
  MaxCrashes = 0
  Trouble = {}
SPECIFICATION Spec
INVARIANT EventsAreNotFacts
CHECK_DEADLOCK FALSE
