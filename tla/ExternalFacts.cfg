CONSTANTS
  search = search
  weather = weather
  a = a
  b = b
  c = c
  d = d
  ka = ka
  kb = kb
  kc = kc
  kd = kd
  NoContent = NoContent
  caller1 = caller1
  caller2 = caller2
  Callers = {caller1, caller2}
  FactKeys = {search, weather}
  WeatherKeys = {weather}
  MaxAttempts = 2
  Timeout = 1
  MaxTime = 4
  MaxPlaces = 3
  MaxRequests = 2
  Keys <- MCKeys
  Ttl <- MCTtl
  StaleTtl <- MCStaleTtl
  Contents <- MCContents
  Visited <- MCVisited
  Priority <- MCPriority
  KeyOf <- MCKeyOf
  Work <- MCWork
SPECIFICATION Spec
SYMMETRY MCSymmetry
INVARIANTS
  AnswersAreAsOldAsTheySay
  StaleOnlyInAnOutage
  AdoptedIsUnambiguous
  BudgetIsSpentInOrder
  ResultsGiveGuides
CHECK_DEADLOCK FALSE
