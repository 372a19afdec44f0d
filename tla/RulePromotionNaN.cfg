\* A parameter that is not a number against the bounds of its template.
CONSTANTS
  NaN = NaN
  MinAge = 1
  MaxAge = 3
  MinCapital = 1
  MaxCapital = 3
  Templates = {"capital_age_ceiling"}
  Operators = {o1}
  Ids = {r1, r2}
  AgeLimits = {1, NaN}
  CapitalLimits = {2, NaN}
  Seeds <- SeedDossiers
  Corpora <- NoYoungCompany
  MayCrash = FALSE
SPECIFICATION HistorySpec
INVARIANT PromotedWithinBounds
CHECK_DEADLOCK FALSE
