CONSTANTS
  c = c q = q p = p n = n e = e f = f x = x u = u
  Runs = {c, q, p}
  Attempts = {a1, a2, a3, a4}
  KindOf <- MCKindOf
  NoVersion = NoVersion
  NoAttempt = NoAttempt
SPECIFICATION FairSpec
INVARIANTS
  OneVersionPerRun
  NoLostUpdate
PROPERTY Terminates
CHECK_DEADLOCK FALSE
