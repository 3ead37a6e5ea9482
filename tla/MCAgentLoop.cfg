SPECIFICATION FairSpec
CONSTANTS
  StableID = FALSE
  QueueSize = 1
  MaxRetries = 1
  MaxSeq <- ThreeThenOne
  MaxBoots = 2
  MaxLate = 2
INVARIANTS ShutdownNotShipped CountersAddUp SequenceAdvances
CHECK_DEADLOCK FALSE
PROPERTY ShutdownCompletes
