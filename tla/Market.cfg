SPECIFICATION MarketSpec
CONSTANTS
  Threads = {t1, t2}
  RamTTL = 1
  DiskTTL = 1
  BrokerTTL = 2
  FlagsTTL = 1
  MaxLoad = 1
  MaxTime = 3
  MaxLoads = 2
  MaxFaults = 1
  MaxRefreshes = 1
  Procs = {api, notifier}
  RateTTL = 2
  MaxRate = 2
  Markets <- MCQuotes
  Holders <- MCHolders
  Keys = {28, 40}
  OwnerTax = 0
  ServiceTax = 13
  Outages <- MCOutages
  Lag = 1
  MaxSectorShare = 60
  MaxDips = 1
  MaxDay = 1
  MaxMoves = 1
  InvestmentGradeMin = 10
  DistressMax = 1
  MajorDowngradeSteps = 3
  MinPeers = 2
  MaxRatingNotches = 1
  MaxDurationDiff = 1
  PolicyRate = 14
  TaxRate = 13
  Lists <- MCLists
  Queries <- MCQueries
  DefaultSize = 3
  MaxSize = 4
  ExportSize = 9
  MaxPage = 3
  Idle = Idle
  None = None
SYMMETRY Symmetry
INVARIANTS
  UniverseAgeBounded
  InvalidationIsSeen
  RateIsRecent
  ChangesAreTold
  ReadingsAgree
  WideningIsReal
  SaferComesFirst
  PagesAreTheList
PROPERTY OffersKept
CHECK_DEADLOCK FALSE
