CONSTANTS
  Form = {f1, f2}
  Request = {r1, r2}
  PlanLimit = {0, 1}
  DefaultLimit = 1
  NoForm = NoForm
  MaxMade = 3
  Brand = {b1, b2, b3}
  Visit = {v1, v2}
  BrandLimit = {1}
  NoBrand = NoBrand
  Slot = {s1}
  NoQuery = NoQuery
  Same = Same
  File = {"a.xlsx", "b.pdf"}
  MaxTroubles = 2
  MaxWatches = 3
  MaxAsked = 2
  Page = {p1, p2}
  MaxRows = 2
  MaxSubCalls = 1
  Event = {e1, e2}
  Detail = {d1, d2}
  Gone = Gone
  MaxEventCalls = 1
  Tag = {t1, t2}
  MostTags = 2
  MaxTagSaves = 2
  Text = {blank, x}
  Blank = blank
  Erase = Erase
  MaxNoteCalls = 2
  Article = {a1, a2}
  MostStock = 1
  Submission = {q1, q2}
  WebProcess = {i1}
  Preset = {1, 2}
  Webhook = 2
  WindowLen = 2
  MaxRestarts = 1
  Chat = {h1, h2}
  NoChat = NoChat
  TokenLife = 0
  MaxLoads = 1
  MaxSaves = 1
  MaxBadCalls = 1
  MetricWindow = {30, 90}
  LastMetricDay = 2
  KeptRows = 0
  MaxUpserts = 2
  NoFigures = NoFigures
  MaxClicks = 3
  Word = {k1, k2}
  PriceList <- ListsUsed
  NoList = NoList
  UploadId = {n1, n2}
  MinLines = 3
  MaxVerdicts = 1
  Depot = {"w1", "w2"}
  Code = {"s1", "s2"}
  InDepot <- DepotsUsed
  Cost = {1, 2}
  NoCost = 0
  Sheet <- SheetsUsed
  NoSheet = NoSheet
  Import = {1, 2}
  BatchSize = 1
  CostText = {blank, x, y}
  NoCostText = blank
  Unfit = Unfit
  MaxCostSaves = 2
SPECIFICATION Spec
CHECK_DEADLOCK FALSE
INVARIANTS
  OvershootIsBounded
  WatchedWithinLimit
  LimiterKeepsItsWord
  SellersWordHolds
  ErasureIsComplete
  TimersAreHeld
  EditorsShowTheStored
  ListIsAsAsked
  ImportsAreTrue
