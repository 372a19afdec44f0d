\* Every set of documents, one promoted rule, two kinds of model failure.
CONSTANTS
  Rules = {r1}
  LLMErrorKinds = {"timeout", "schema_invalid"}
  AdvisedSeverities = {"unexplainable", "info"}
  DossierShapes <- AnyDossier
SPECIFICATION Spec
INVARIANTS
  SystemFailureEscalates
  IncompleteDossierNeverApproved
  TriageOnlyRaises
  NoProposalIsNotAgreement
  AuditTrail
PROPERTIES
  ImplementsPromise
  RunEnds
CHECK_DEADLOCK FALSE
