SPECIFICATION PortfolioSpec
CONSTANTS
  Portfolios = {p1, p2}
  Accounts = {a1, a2}
  Bonds = {b1}
  Threads = {t1, t2}
  MaxRequests = 6
  MaxFaults = 1
  NoRow = NoRow
  Idle = Idle
  None = None
  ISINs = {"a", "b", "c", "d", "e", "g"}
  MaxPositionShare = 40
  TargetPositionShare = 30
  MinPositionShare = 3
  MaxSectorShare = 60
  MaxIssuerShare = 50
  MinPositionAmount = 10
  MinAutoPositions = 2
  MaxAutoPositions = 3
  MinReplacementHorizon = 2
  Today = 0
  ReinvestmentGapDays = 1
  MaxReinvestDepth = 2
  TaxRate = 10
  Inputs <- MCInputs
  Watched = {h1, h2}
  Risks <- MCRisks
  InvestmentGradeMin = 3
  DistressMax <- MCDistress
  MajorDowngradeSteps = 3
  MaxMoves = 3
  MaxEdits = 1
  MaxFetches = 1
  Tokens = {k1, k2}
  Trading = {k1}
  Watcher = w
  TTL = 1
  MaxGet = 1
  MaxTime = 2
  MaxWrites = 2
  Papers = {x, y}
  Unquoted = {y}
  Prices = {7, 16}
  Face = 16
  Funds = 32
  WaveGap = 0
  MaxQty = 2
  MaxOps = 4
  MaxDays = 1
  OfferedBonds <- MCOfferedBonds
  PlannedBonds <- MCPlannedBonds
  Account <- MCAccount
  Quotes <- MCQuotes
  Horizon = 12
  MinBuyCash = 10
  ReinvestWatch = 1
  OfferReminder = 2
  DriftStale = 5
  Budgets = {11}
  Rounds = 60
  MaxDay = 3
  MaxTurns = 3
SYMMETRY Symmetry
INVARIANTS
  ForecastIsOfAccount
  AccountLinkedOnce
  ClosedIsUnlinked
  SpendsWithinCash
  CapsHold
  PositionsEndOnce
  PlanAddsUp
  WorseningIsTold
  StoredOpens
  ServedIsRecent
  ProfitIsEarned
  ItemsAreDistinct
PROPERTIES
  DeletedStaysDeleted
  AdviceIsNeverMuted
CHECK_DEADLOCK FALSE
