CONSTANTS
  c = c q = q p = p n = n e = e f = f x = x u = u
  Runs = {c, e, f, n, x, u}
  Attempts = {a1, a2, a3, a4}
  KindOf <- MCKindOf
  NoVersion = NoVersion
  NoAttempt = NoAttempt
SPECIFICATION Spec
SYMMETRY Interchangeable
INVARIANTS
  LinearHistory
  ReuseHasResult
  
PROPERTY ImplementsChain
CHECK_DEADLOCK FALSE
