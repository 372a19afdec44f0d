\* Two freezes at a time and three in all, two fixtures, two edits, one report.
SPECIFICATION MCReportSpec
CONSTANTS
    Freezers = {f1, f2}
    NCases = 2
    CaseVersions = {"v1", "v2"}
    RuleVersions = {"r1", "r2"}
    Admissible <- MCAdmissible
    NoFile = NoFile
    MaxRuns = 3
    MaxEdits = 2
    Facts <- MCFacts
    Effect <- MCEffect
    MaxReports = 1
SYMMETRY AnyFreezer
CONSTRAINT ReportBound
INVARIANTS
    MarkerMeansComplete
    ValidatedIsBlind
    ReportDescribesItsPin
    FrozenRulesPublishClean
PROPERTY
    FrozenOnce
CHECK_DEADLOCK FALSE
