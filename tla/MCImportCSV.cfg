SPECIFICATION Spec
CONSTANTS
  MAX_POLL_TIMEOUT = 4
  MAX_BACKOFF_INTERVAL = 2
  HEAD_START = 1
  BackOff = 1
  Multiplier = 4
  Calls = {c1, c2}
  Objects = {o1}
  WINDOW = 2
  MaxTasks = 2
  NoUrl = NoUrl
  Unissued = Unissued
  NoData = NoData
  Other = Other
CHECK_DEADLOCK FALSE
INVARIANTS SuccessIsReal LoadsOwnUpload OneLoadPerCall VerdictIsOwnJobs PollBudget
PROPERTIES Settles KeepsContract
