SPECIFICATION Spec

CONSTANTS
  PlanVersions <- MCPlanVersions
  PlanPeriod <- MCPlanPeriod
  PlanAmount <- MCPlanAmount
  MonthLength = 2
  YearLength = 3
  GraceDays = 1
  NoTime = NoTime
  NoSub = NoSub
  NoRow = NoRow
  None = None
  Owners = {alice}
  Complimentary = {}
  Threads = {t1}
  Notifier = notifier
  PayIds = {p1, p2, p3}
  Releases = 1
  CurrentPlan <- MCCurrentPlan
  GatewayEnabled <- MCGatewayEnabled
  Recurring = TRUE
  CheckoutAnswers = {"pending"}
  MaxTime = 2
  MaxFaults = 0

INVARIANTS
  OneOpenRenewal
