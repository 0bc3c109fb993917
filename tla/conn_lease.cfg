CONSTANTS
  ApiConn = {a1, a2}
  CsvConn = {}
  Request = {q1}
  NoConn = NoConn
  SyncConcurrency = 1
  AutoPause = 2
  StuckTimeout = 2
  RetryMinAge = 1
  RetryMaxAge = 3
  MaxCrashes = 1
  Faults = {}
SPECIFICATION Spec
INVARIANTS
  OneSyncPerConnection
  OwnedRowStaysLocked
  WatchdogHitsOnlyOrphans
  FailuresCountTheStreak
SYMMETRY Rows
