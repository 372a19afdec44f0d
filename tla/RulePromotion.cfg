\* Two operators, screening runs in between, processes that crash.
CONSTANTS
  NaN = NaN
  MinAge = 1
  MaxAge = 3
  MinCapital = 1
  MaxCapital = 3
  Templates = {"capital_age_ceiling", "invented"}
  Operators = {o1, o2}
  Ids = {r1, r2}
  AgeLimits = {0, 1}
  CapitalLimits = {2, NaN}
  Seeds <- SeedDossiers
  Corpora <- GeneratedCorpora
  MayCrash = TRUE
SPECIFICATION HistorySpec
INVARIANTS
  RulesInForceAreGated
  IdsAreUnique
  PermanentUnlessOverlapped
PROPERTIES
  GrowsUnlessOverlapped
CHECK_DEADLOCK FALSE
