SPECIFICATION Spec
CONSTANTS
  MAX_POLL_TIMEOUT = 5
  MAX_BACKOFF_INTERVAL = 2
  HEAD_START = 1
  BackOff = 1
  Multiplier = 2
  Calls = {c1}
  Objects = {o1}
  WINDOW = 10
  MaxTasks = 11
  NoUrl = NoUrl
  Unissued = Unissued
  NoData = NoData
  Other = Other
CHECK_DEADLOCK FALSE
PROPERTY SafelyFindsJob
