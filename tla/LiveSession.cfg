\* One frozen case, three valid attempts wanted, one replacement, two tries a
\* call; the ceiling admits a completed session with retries and stops one of
\* more. Rules and case files change on disk at any moment of the session: a
\* listing made after that may be of no case, of another or of both.
CONSTANTS
  NCases = 1
  OtherIds = {2}
  TargetValid = 3
  MaxReplacements = 1
  MaxAttempts = 4
  MaxTries = 2
  Ceiling = 9
  LLMErrorKinds = {"timeout", "schema_invalid"}
  AdvisedSeverities = {"info"}
  Changeable = {"rules", "corpus"}
SPECIFICATION Spec
INVARIANTS
  CallsAreAccountedFor
  RateIsOverCleanCorpus
  WorstRowIsLast
  TerminalStateIsEarned
  CompletedIsPublishable
PROPERTIES
  KeepsBudget
  ForeignFindingEndsSession
  SessionEnds
CHECK_DEADLOCK FALSE
