\* Dossiers of at most three holders, two signatories and two declared owners, and
\* every labelled dossier of the generator, the compound matrix and the seeds.
CONSTANTS
  NaN = NaN
  AlikePersons <- Spellings
  AlikeEntities <- LegalSpellings
  Dossiers <- Cases
  Rounding <- MCRounding
  Rolls <- MCRolls
  Strangers = {"ali", "bo", "can", "eda"}
  Ascii <- MCAscii
  LegalForms <- MCLegalForms
  Sample <- Ends
SPECIFICATION LabelledSpec
INVARIANTS
  OutcomesCovered
  ApprovedIsConsistent
  ConsistentIsApproved
  TransferIsByExitOnly
  OrderIsImmaterial
  LabelsHold
  FailuresAreNotEvidence
  NoFalseApproval
CHECK_DEADLOCK FALSE
