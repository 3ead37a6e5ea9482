SPECIFICATION Spec
CONSTANTS
  Calls <- PlainCalls
  ListReplies = {"all", "some", "none"}
  WindowEvery = 1
  LogDirsEvery = 1
  ConfigsEvery = 1
  MaxTimestampEvery = 1
INVARIANT NoSectionFailsWithData
CHECK_DEADLOCK FALSE
