\* Two promotions at once against the permanence of a promotion.
CONSTANTS
  NaN = NaN
  MinAge = 1
  MaxAge = 3
  MinCapital = 1
  MaxCapital = 3
  Templates = {"capital_age_ceiling"}
  Operators = {o1, o2}
  Ids = {r1, r2}
  AgeLimits = {1, NaN}
  CapitalLimits = {2, NaN}
  Seeds <- SeedDossiers
  Corpora <- GeneratedCorpora
  MayCrash = FALSE
SPECIFICATION HistorySpec
INVARIANT PromotionIsPermanent
CHECK_DEADLOCK FALSE
