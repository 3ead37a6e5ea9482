SPECIFICATION Spec
CONSTANTS
  StableID = TRUE
  QueueSize = 1
  MaxRetries = 0
  MaxSeq <- ThreeThenOne
  MaxBoots = 2
  MaxLate = 0
INVARIANT KeyNamesOneBatch
CHECK_DEADLOCK FALSE
