----------------------------- MODULE MCBilling -----------------------------
(***************************************************************************)
(* Instances of BillingService for TLC: two price lists for the month, one *)
(* for the year, a month of two days, a year of three and one day of grace.*)
(***************************************************************************)
EXTENDS BillingService, TLC

MCPlanVersions == {"month_v1", "month_v2", "year_v1"}

MCPlanPeriod ==
  [v \in MCPlanVersions |-> IF v = "year_v1" THEN "year" ELSE "month"]

MCPlanAmount ==
  [v \in MCPlanVersions |-> CASE v = "month_v1" -> 2
                              [] v = "month_v2" -> 1
                              [] OTHER -> 3]

\* The releases: the first sells month_v1, the second month_v2, and the third
\* runs without shop credentials.
MCCurrentPlan ==
  [r \in 1 .. Releases |->
     [x \in Periods |-> CASE x = "year" -> "year_v1"
                          [] x = "month" /\ r = 1 -> "month_v1"
                          [] OTHER -> "month_v2"]]

MCGatewayEnabled == [r \in 1 .. Releases |-> r < 3]

PaymentSymmetry == Permutations(PayIds)

ThreadSymmetry == Permutations(Threads)
=============================================================================
