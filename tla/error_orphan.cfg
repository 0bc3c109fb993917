CONSTANTS
  ApiConn = {a1}
  CsvConn = {}
  Request = {q1}
  NoConn = NoConn
  SyncConcurrency = 1
  AutoPause = 2
  StuckTimeout = 2
  RetryMinAge = 1
  RetryMaxAge = 3
  MaxCrashes = 0
  Faults = {}
SPECIFICATION Spec
INVARIANT UnpausedErrorIsRetryable
