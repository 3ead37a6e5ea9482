SPECIFICATION FairSpec
CONSTANTS
  Calls <- MCCalls
  Saw <- MCSaw
  Bounds <- MCBounds
  TicksPerMs = 2
  MaxCycles = 2
  CycleTicks <- MCCycleTicks
INVARIANTS OwnTrafficCovered WindowsTile
PROPERTIES ImplementsLedger DetachedFrozen SnapshotCompletes
CHECK_DEADLOCK FALSE
