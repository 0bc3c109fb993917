CONSTANTS
  ApiConn = {a1}
  CsvConn = {}
  Request = {q1}
  NoConn = NoConn
  SyncConcurrency = 1
  AutoPause = 1
  StuckTimeout = 2
  RetryMinAge = 1
  RetryMaxAge = 2
  MaxCrashes = 1
  Faults = {"lock_error", "overrun", "lost_answer", "mark_error", "precheck_error"}
SPECIFICATION FairSpec
PROPERTIES
  SyncingEnds
  TransientErrorIsRetried
