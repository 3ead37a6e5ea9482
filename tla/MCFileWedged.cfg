SPECIFICATION Spec
CONSTANTS
  MaxBytes = 4
  BackupLimits = {2}
  Sync = TRUE
  Lens = {2, 5}
  Faults = {"write"}
  MaxBatches = 5
  MaxFaults = 1
  MaxCrashes = 0
PROPERTY NextBatchSurfaces
CHECK_DEADLOCK FALSE
