SPECIFICATION Spec
CONSTANTS
  Calls <- MovingCalls
  ListReplies = {"all"}
  WindowEvery = 1
  LogDirsEvery = 1
  ConfigsEvery = 1
  MaxTimestampEvery = 1
INVARIANT OverrunIsReal
CHECK_DEADLOCK FALSE
