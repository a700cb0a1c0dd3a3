CONSTANTS
  a = a
  b = b
  c = c
  d = d
  e = e
  n = n
  t = t
  Texts = {t}
  MaxDays = 3
  Intensity = "relaxed"
  KeepsToTown = TRUE
  MaxPlans = 2
  MaxEdits = 2
  Places <- MCPlaces
  Distance <- MCDistance
  Offered <- MCOffered
  Named <- MCNamed
  District <- MCDistrict
  Category <- MCCategory
  Legs <- MCLegs
  Forecasts <- MCForecasts
  Confirmed <- MCConfirmed
  Accepted <- MCAccepted
  Intents <- MCIntents
SPECIFICATION Spec
CONSTRAINT Budget
INVARIANTS
  DraftKeepsMustVisits
  OrderingShortens
  DaysAreConnected
PROPERTIES
  PlansCanBePublished
  AcceptedEditsStayInScope
CHECK_DEADLOCK FALSE
