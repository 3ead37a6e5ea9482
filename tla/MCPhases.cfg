SPECIFICATION FairSpec
CONSTANTS
  Calls <- AllCalls
  ListReplies = {"all"}
  WindowEvery = 1
  LogDirsEvery = 2
  ConfigsEvery = 5
  MaxTimestampEvery = 2
INVARIANTS NeverNegative StatusHonest IngestAccepts EverySectionShips
CHECK_DEADLOCK FALSE
PROPERTY Terminates
