CONSTANTS
  worker = worker user = user
  run1 = run1 asks = asks run2 = run2 done = done stop = stop
  Publishers = {worker, user}
  Events = {run1, asks, run2, done, stop}
  Script <- MCScript
  StatusOf <- MCStatusOf
  NoEvent = NoEvent
  FreshId = FreshId
  MaxOpens = 2
  Trouble = {"db", "redis", "drop"}
SPECIFICATION Spec
INVARIANTS
  NothingMissed
  ShowsLatest
CHECK_DEADLOCK FALSE
