CONSTANTS
  ApiConn = {}
  CsvConn = {u1}
  Request = {q1, q2}
  NoConn = NoConn
  SyncConcurrency = 1
  AutoPause = 2
  StuckTimeout = 1
  RetryMinAge = 0
  RetryMaxAge = 1
  MaxCrashes = 1
  Faults = {"overrun", "lock_error", "precheck_error", "mark_error", "lost_answer", "resume_race", "outage"}
SPECIFICATION FairSpec
INVARIANTS
  OneUploadPerConnection
PROPERTY SyncingEnds
