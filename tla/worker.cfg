CONSTANTS
  Windows = 2
  Load = {l1}
  MaxRuns = 2
  MaxDay = 2
  MaxFailures = 1
  AlertWindows = 2
  Cooldown = 1
  Recalc = {c1, c2}
  LastDay = 3
  MaxAlerts = 2
  Job = {j1, j2}
  MaxCopies = 2
  MaxTrouble = 2
  LastProduct = 2
  PageLimits = {1, 2}
  Shelf = {w1, w2}
  PauseAfter = 2
  SilentFor = 1
  LetterPause = 2
  StaleAfter = 2
  Watcher = {"u1", "u2"}
  AskEvery = 1
  AnswerTerm = 2
  Week = 3
  DigestDays = {1}
  LookBack = 2
  MaxLapses = 1
  Stock = {0, 1, 4}
  HistoryDays = 3
  WindowDays = 3
  SpikeFloor = 1
  SpikeFactor = 2
  DeadDays = 1
  Writer = {r1, r2}
  Span <- SpanUsed
  Kept = 1
  FinalDay = 3
  MaxShots = 2
  MaxWrites = 2
  MaxSlips = 1
  Products = 2
  Lags = {7, 8}
  Covers = {3, 6, 8, 11}
  Items = 1
  ReportWindow = {7, 30}
  Month = 30
  Figures <- FiguresUsed
  HomeOf <- HomeUsed
  Offered = {"dead_inventory", "weekly_report"}
  CriticalBelow = 3
  FrozenAbove = 180
  RowLimit = 3
  LastReportDay = 2
  MaxNightRuns = 2
  Item = {w1, w2}
  MonthLen = 2
  LastDayRun = 5
  Happened <- HappenedUsed
  Scale = 2
  FastBelow = 1
  StableTo = 2
  SlowTo = 4
  TopRows = 1
  MoverRows = 1
SPECIFICATION Spec
CHECK_DEADLOCK FALSE
INVARIANTS
  DashboardIsTrue
  ReportedOnce
  SnapshotsAreTrue
  TroubleIsTold
  RadarIsFresh
  HistoryIsTold
  ReportsTellTheMonth
PROPERTIES
  AcknowledgedStaysQuiet
  AlarmsDoNotFlap
