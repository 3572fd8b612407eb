SPECIFICATION Spec

CONSTANTS
  PlanVersions <- MCPlanVersions
  PlanPeriod <- MCPlanPeriod
  PlanAmount <- MCPlanAmount
  MonthLength = 1
  YearLength = 2
  GraceDays = 1
  NoTime = NoTime
  NoSub = NoSub
  NoRow = NoRow
  None = None
  Owners = {alice}
  Complimentary = {}
  Threads = {t1}
  Notifier = notifier
  PayIds = {p1, p2}
  Releases = 3
  CurrentPlan <- MCCurrentPlan
  GatewayEnabled <- MCGatewayEnabled
  Recurring = TRUE
  CheckoutAnswers = {"pending"}
  MaxTime = 2
  MaxFaults = 1

SYMMETRY PaymentSymmetry

INVARIANTS
  DebitOnlyCaptured
  SubscriptionIsBought
  RenewalAtBoughtPrice

PROPERTIES
  ImplementsContract
