CONSTANTS
  a = a
  b = b
  c = c
  d = d
  f = f
  g = g
  named = named
  theme = theme
  rain = rain
  wish = wish
  t = t
  q = q
  MaxTerms = 3
  MaxVersions = 2
  MaxBatches = 2
  Tasks = {t}
  Requests = {q}
  Weathers = {"none", "indoor"}
  Limits = {3}
  ById <- MCById
  Category <- MCCategory
  District <- MCDistrict
  Attractions <- MCAttractions
  Quality <- MCQuality
  Described <- MCDescribed
  Catalogue <- MCCatalogue
  ThemeTerms <- MCThemeTerms
  ThemeCategories = {"museum"}
  WeatherTerms <- MCWeather
  Wishes <- MCWishes
  Silences <- MCSilences
SPECIFICATION Spec
CONSTRAINT Budget
INVARIANTS
  RefusalsBind
  BatchesFollowTheirVersion
  SelectionIsDiverse
PROPERTIES
  DecisionsAreFinal
CHECK_DEADLOCK FALSE
