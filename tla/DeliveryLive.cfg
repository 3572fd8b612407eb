SPECIFICATION FairSpec
CONSTANTS
  p1 = p1
  Alerts = {a1}
  Pushable = {a1}
  Portfolios <- MCPortfolios
  PortfolioOf <- MCPortfolioOf
  Cooldown = 2
  BatchSize = 2
  MaxTime = 3
  MaxMessages = 1
  MaxFaults = 1
  MaxApiFaults = 1
  NoTime = NoTime
  NoAlert = NoAlert
INVARIANT RepeatsAreFaults
PROPERTY DetectedReachesInbox
PROPERTY DetectedIsPushed
