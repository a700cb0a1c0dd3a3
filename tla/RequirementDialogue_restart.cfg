CONSTANTS
  a = a b = b
  Items <- MCItems
  Last = 2
  Patches <- MCPatches
  Before <- MCBefore
  Faults = 1
SPECIFICATION FairSpec
PROPERTY AnswersAreKept
CHECK_DEADLOCK FALSE
