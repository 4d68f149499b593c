SPECIFICATION Spec
CONSTANTS
  r1 = r1
  r2 = r2
  c1 = c1
  c2 = c2
  u1 = u1
  t1 = t1
  t2 = t2
  e1 = e1
  e2 = e2
  None = None
  Nothing = Nothing
  NoConn = NoConn
  NoModel = NoModel
  Requests = {r1, r2}
  TTL = 1
  MaxClock = 2
  Conns = {c1, c2}
  Updates = {u1}
  Kinds = {"full"}
  Forms <- MCForms
  FirstForm <- MCFirstForm
  Normalized <- MCNormalized
  MaxPreviews = 2
  MaxPresses = 2
  Polls = {1, 2}
  MaxVersion = 2
  Ledgers = {0, 1}
  Ranges = {"inception"}
  Decisions = {"none", "ignored"}
  FirstInput <- MCFirstInput
  Loads = {1, 2}
  Kept = 1
  Tabs = {t1, t2}
  Endpoints = {e1, e2}
  NoEndpoint = NoEndpoint
  MaxOpens = 2
  MaxClicks = 3
  Changes = {"denied"}
  MaxChanges = 1
  Starters = {1, 2, 3}
  Known <- MCKnown
  Parts <- PartsThereAre
INVARIANTS
  AnswersAreHonest
  DatabaseIsReadyToTheLast
  StreamIsKeptAlive
  OneOrderPerDialog
  PerformanceIsOfThisPortfolio
  DeviceIsKnown
PROPERTIES
  RecordsMoveForward
  WorkerRecoversOrTells
  HistoryCatchesUp
CHECK_DEADLOCK FALSE
