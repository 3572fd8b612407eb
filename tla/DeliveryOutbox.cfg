SPECIFICATION NotifierSpec
CONSTANTS
  Owners = {owner}
  RateLimit = 1
  Hour = 1
  MaxUpdates = 3
  MaxTurns = 1
  MaxClock = 1
  Idle = Idle
  p1 = p1
  Alerts = {a1, a2}
  Pushable = {a1, a2}
  Portfolios <- MCPortfolios
  PortfolioOf <- MCPortfolioOf
  Cooldown = 2
  BatchSize = 2
  MaxTime = 0
  MaxMessages = 1
  MaxFaults = 1
  MaxApiFaults = 1
  NoTime = NoTime
  NoAlert = NoAlert
SYMMETRY AlertSymmetry
INVARIANTS
  MarkedIsPublished
  LetGoIsDone
