SPECIFICATION Spec
CONSTANTS
  MAX_POLL_TIMEOUT = 6
  MAX_BACKOFF_INTERVAL = 2
  HEAD_START = 1
  BackOff = 1
  Multiplier = 2
  Calls = {c1, c2}
  MaxExports = 2
CHECK_DEADLOCK FALSE
INVARIANTS SuccessIsExported OneExportPerCall PollBudget
PROPERTY KeepsContract
