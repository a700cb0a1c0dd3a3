CONSTANTS
  a = a b = b
  Items <- MCItems
  Last = 3
  Patches <- MCPatches
  Before <- MCBefore
  Faults = 2
SPECIFICATION FairSpec
INVARIANTS
  SavedIsPlannable
  QuestionIsCurrent
PROPERTIES
  TravellerDecides
  ImplementsRegister
  MessagesAreDealtWith
CHECK_DEADLOCK FALSE
