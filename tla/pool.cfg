CONSTANTS
  Item = {i1, i2}
  Owner = {o1, o2}
  Concurrency = 2
  MaxStarts = 2
  Stop = Stop
  NoItem = NoItem
SPECIFICATION FairSpec
INVARIANTS
  SentinelPerThread
  NothingEarlyIsLost
  ThreadsKeepToTheirQueue
PROPERTIES
  ImplementsExecutor
  ThreadsEnd
  EarlyItemIsHandled
CHECK_DEADLOCK FALSE
