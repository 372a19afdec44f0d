\* The replacements a session records against the number its policy allows.
CONSTANTS
  NCases = 1
  OtherIds = {}
  TargetValid = 3
  MaxReplacements = 2
  MaxAttempts = 5
  MaxTries = 1
  Ceiling = 10
  LLMErrorKinds = {"timeout"}
  AdvisedSeverities = {"info"}
  Changeable = {}
SPECIFICATION Spec
INVARIANT ReplacementsWithinPolicy
CHECK_DEADLOCK FALSE
