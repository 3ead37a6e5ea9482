SPECIFICATION Spec
CONSTANTS
  NumSections = 2
  Kinds = {"authorization", "other"}
  NumIds = 2
  MaxErrors = 2
  MaxErrorSamples = 2
  MaxKeys = 3
  MaxRecords = 4
INVARIANTS CountsAddUp IngestReconciles RareCauseSurvives
CHECK_DEADLOCK FALSE
