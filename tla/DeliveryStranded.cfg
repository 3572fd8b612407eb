SPECIFICATION Spec
CONSTANTS
  p1 = p1
  Alerts = {a1}
  Pushable = {a1}
  Portfolios <- MCPortfolios
  PortfolioOf <- MCPortfolioOf
  Cooldown = 2
  BatchSize = 2
  MaxTime = 0
  MaxMessages = 2
  MaxFaults = 0
  MaxApiFaults = 1
  NoTime = NoTime
  NoAlert = NoAlert
INVARIANT PublishedIsOnItsWay
