\* Two requests at once, against the absence of a record for a run that failed.
CONSTANTS
  Runs = {r1, r2}
SPECIFICATION Spec
INVARIANT FailedRunLeavesNoRecord
CHECK_DEADLOCK FALSE
