SPECIFICATION FairSpec
CONSTANTS
  QueueSize = 2
  MaxRetries = 2
  Timeout = 1
  BaseDelay = 1
  MaxBackoff = 1
  DurationBits = 2
  MaxRetryAfter = 2
  RetryBudget = 2
  MaxBatches = 4
INVARIANTS TypeOK EveryBatchAccounted OldestFirst RoomAfterEviction OccupancyBounded CloseBounded NothingStranded JitterDrawable
PROPERTY LedgerSpec
CHECK_DEADLOCK FALSE
