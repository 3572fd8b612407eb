SPECIFICATION Spec

CONSTANTS
  PlanVersions <- MCPlanVersions
  PlanPeriod <- MCPlanPeriod
  PlanAmount <- MCPlanAmount
  MonthLength = 2
  YearLength = 3
  GraceDays = 1
  NoTime = NoTime
  NoSub = NoSub
  NoRow = NoRow
  None = None
  Owners = {alice}
  Complimentary = {}
  Threads = {t1}
  Notifier = notifier
  PayIds = {p1, p2}
  Releases = 1
  CurrentPlan <- MCCurrentPlan
  GatewayEnabled <- MCGatewayEnabled
  Recurring = FALSE
  CheckoutAnswers = {"pending", "succeeded"}
  MaxTime = 3
  MaxFaults = 0

SYMMETRY PaymentSymmetry

INVARIANTS
  AppliedAtMostOnce
  SucceededIsApplied
