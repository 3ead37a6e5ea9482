SPECIFICATION Spec
CONSTANTS
  MaxBytes = 4
  BackupLimits = {0, 2}
  Sync = TRUE
  Lens = {2, 5}
  Faults = {"open", "write", "close", "remove", "rename", "stat", "fsync"}
  MaxBatches = 5
  MaxFaults = 2
  MaxCrashes = 1
INVARIANTS GenerationsOrdered FilesBounded ShiftNotReplayed DamageBounded
PROPERTY OldestGoesFirst
CHECK_DEADLOCK FALSE
