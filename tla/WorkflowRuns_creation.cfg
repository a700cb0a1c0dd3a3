CONSTANTS
  c = c q = q m = m l = l p = p n = n
  Runs = {c, q, m}
  Deliveries = {d1, d2}
  KindOf <- MCKindOf
  NoVersion = NoVersion
  MaxRetries = 1
  MaxCrashes = 1
  Trouble = {"db", "replay", "api", "duplicate"}
SPECIFICATION FairSpec
INVARIANTS
  CompletedHasResult
  InterruptedWasAsked
PROPERTY DeliveriesEnd
CHECK_DEADLOCK FALSE
