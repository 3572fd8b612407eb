-------------------------- MODULE BillingLifecycle --------------------------
(***************************************************************************)
(* The pure subscription rules of domain/billing: what a verified payment, *)
(* a cancellation, a failed renewal and an expiry do to a subscription,    *)
(* when a renewal is attempted, when a subscription expires, and who has   *)
(* access.  Time is a natural number; the code compares timestamps and     *)
(* adds whole days, so only the order of instants and the three lengths    *)
(* matter here.                                                            *)
(*                                                                         *)
(* A plan version is immutable, so a subscription's copies of its period,  *)
(* price and feature list are functions of the version it adopted: the     *)
(* record keeps the version.  PaymentMethodID is only ever tested against  *)
(* "", so it is a Boolean.  Every plan version sold grants every paid      *)
(* feature (PaidFeaturesV1), so access is not indexed by feature.          *)
(***************************************************************************)
EXTENDS Integers

CONSTANTS
  PlanVersions,   \* ids of the rows of billing_plan_versions
  PlanPeriod,     \* PlanVersions -> Periods
  PlanAmount,     \* PlanVersions -> price in kopecks
  MonthLength,    \* length of a prepaid month
  YearLength,     \* length of a prepaid year
  GraceDays,      \* Policy.PastDueGraceDays
  NoTime,         \* a nil *time.Time
  NoSub           \* the owner has no subscription row

Periods == {"month", "year"}

ASSUME PlanAssumption ==
  /\ PlanPeriod \in [PlanVersions -> Periods]
  /\ PlanAmount \in [PlanVersions -> Nat]

ASSUME LengthAssumption ==
  /\ MonthLength \in Nat \ {0}
  /\ YearLength \in Nat \ {0}
  /\ GraceDays \in Nat \ {0}
  /\ NoTime \notin Nat

Purposes == {"checkout", "change_period", "renew"}

Subscription ==
  [status: {"active", "past_due", "canceled", "expired"},
   plan: PlanVersions,
   end: Nat,                        \* CurrentPeriodEnd
   cancelAtEnd: BOOLEAN,            \* CancelAtPeriodEnd
   method: BOOLEAN,                 \* PaymentMethodID # ""
   pastDueSince: Nat \cup {NoTime}]

ASSUME NoSubAssumption == NoSub \notin Subscription

-----------------------------------------------------------------------------
(* Lengths and deadlines. *)

PeriodDuration(period) == IF period = "year" THEN YearLength ELSE MonthLength

ExtendPeriodEnd(end, at, period) ==
  (IF end > at THEN end ELSE at) + PeriodDuration(period)

\* The last instant of grace: three days after the earlier of the period end
\* and the moment the renewal failed.
GraceDeadline(s) ==
  IF s.pastDueSince # NoTime /\ s.pastDueSince < s.end
    THEN s.pastDueSince + GraceDays
    ELSE s.end + GraceDays

-----------------------------------------------------------------------------
(* Transitions. *)

\* Is a payment method stored afterwards?
KeepsMethod(s, method, recurring) ==
  recurring /\ (method \/ (s # NoSub /\ s.method))

\* recurring: the shop saves cards and renews; otherwise every purchase is a
\* prepaid period that is cancelled from the start.
ApplySuccessfulPayment(s, plan, purpose, at, method, recurring) ==
  LET adopted ==
        [status       |-> "active",
         plan         |-> plan,
         end          |-> at + PeriodDuration(PlanPeriod[plan]),
         cancelAtEnd  |-> ~recurring,
         method       |-> KeepsMethod(s, method, recurring),
         pastDueSince |-> NoTime]
  IN  IF s # NoSub /\ purpose = "renew"
        THEN [adopted EXCEPT !.plan = s.plan,
                             !.end = ExtendPeriodEnd(s.end, at, PlanPeriod[s.plan])]
        ELSE adopted

MarkCancelAtPeriodEnd(s) == [s EXCEPT !.cancelAtEnd = TRUE]

MarkPastDue(s, at) == [s EXCEPT !.status = "past_due", !.pastDueSince = at]

\* mutant: an expired subscription gets a payment's status
MarkFailed(s) == [s EXCEPT !.status = "failed", !.cancelAtEnd = FALSE]

MarkExpired(s) == [s EXCEPT !.status = "expired", !.cancelAtEnd = FALSE]

-----------------------------------------------------------------------------
(* Decisions. *)

ShouldAttemptRenew(s, at) ==
  /\ s.method
  /\ ~s.cancelAtEnd
  /\ \/ s.status = "active" /\ s.end <= at
     \/ s.status = "past_due"

ShouldExpirePastDue(s, at) == s.status = "past_due" /\ at > GraceDeadline(s)

ShouldExpireCanceled(s, at) ==
  /\ s.cancelAtEnd \/ s.status = "canceled"
  /\ s.status # "expired"
  /\ s.end <= at

HasAccess(complimentary, s, at) ==
  \/ complimentary
  \/ /\ s # NoSub
     /\ \/ s.status \in {"active", "canceled"} /\ s.end >= at
        \/ s.status = "past_due" /\ at <= GraceDeadline(s)
=============================================================================
