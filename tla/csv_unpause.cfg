CONSTANTS
  ApiConn = {}
  CsvConn = {u1}
  Request = {q1}
  NoConn = NoConn
  SyncConcurrency = 1
  AutoPause = 2
  StuckTimeout = 2
  RetryMinAge = 1
  RetryMaxAge = 3
  MaxCrashes = 0
  Faults = {}
SPECIFICATION Spec
PROPERTY PausedLeftOnlyByResume
