--------------------------- MODULE BillingService ---------------------------
(***************************************************************************)
(* application/billing.Service over the shared SQL database, the payment   *)
(* provider and its notifications.                                         *)
(*                                                                         *)
(* The API process runs one goroutine per request (Threads); the notifier  *)
(* process runs RenewDue from a ticker (Notifier).  No transaction spans   *)
(* two calls of the Store, and a gateway call sits between them, so every  *)
(* Store or Gateway call is a step of its own.  What a goroutine has read  *)
(* and not yet written lives in its frame, call[t]; what a crash, a closed *)
(* request context or a storage error loses is that frame.                 *)
(*                                                                         *)
(* A payment row has one idempotency key and is sent to the provider at    *)
(* most once, so the provider's payment is indexed by the row's id.        *)
(***************************************************************************)
EXTENDS BillingLifecycle

CONSTANTS
  Owners,           \* Telegram ids of users
  Complimentary,    \* owners with free access (COMPLIMENTARY ids)
  Threads,          \* API goroutines serving billing requests
  Notifier,         \* the notifier process
  PayIds,           \* ids of payment rows: bounds the payments ever created
  Releases,         \* number of deployments, one after the other
  CurrentPlan,      \* per release: the plan version with is_current = 1 of a period
  Recurring,        \* YOOKASSA_RECURRING
  CheckoutAnswers,  \* statuses the provider answers a checkout with
  GatewayEnabled,   \* per release: the shop credentials are configured
  MaxTime,          \* bound on the clock
  MaxFaults,        \* bound on lost frames, lost responses and lost writes
  None, NoRow

ASSUME ServiceAssumption ==
  /\ Complimentary \subseteq Owners
  /\ Notifier \notin Threads
  /\ Recurring \in BOOLEAN
  /\ CheckoutAnswers \subseteq {"pending", "succeeded"}
  /\ MaxTime \in Nat /\ MaxFaults \in Nat
  /\ Releases \in Nat \ {0}
  /\ CurrentPlan \in [1 .. Releases -> [Periods -> PlanVersions]]
  /\ GatewayEnabled \in [1 .. Releases -> BOOLEAN]
  /\ None \notin Owners /\ None \notin PayIds

Procs == Threads \cup {Notifier}

VARIABLES
  now,       \* the wall clock
  release,   \* the deployed release: current price list and configuration
  sub,       \* billing_subscriptions, one row per owner
  pay,       \* billing_payments
  ledger,    \* billing_ledger: debit rows per payment
  prov,      \* the provider's payments
  acked,     \* payments whose notification was answered with 200
  call,      \* the frame of each goroutine
  faults     \* faults so far

vars == <<now, release, sub, pay, ledger, prov, acked, call, faults>>
db   == <<sub, pay, ledger>>
env  == <<now, release, acked, faults>>

PaymentStatus == {"pending", "succeeded", "canceled", "failed"}

\* What UpdatePayment writes: status and yookassa_payment_id (set or not).
Fields == [status: PaymentStatus, yoo: BOOLEAN]

PaymentRow ==
  [owner: Owners, plan: PlanVersions, amount: Nat, purpose: Purposes,
   status: PaymentStatus, yoo: BOOLEAN]

ProviderPayment ==
  [status: {"none", "pending", "succeeded", "canceled"}, amount: Nat]

ASSUME NoRowAssumption == NoRow \notin PaymentRow

Unsent == [status |-> "none", amount |-> 0]

\* Program points: the Store or Gateway call a goroutine makes next.
Points ==
  {"idle", "charge", "update", "apply", "save", "debit", "cancel",
   "fetch", "read", "void", "sync", "list", "renew", "past_due", "fail_row"}

Ops == {"none", "checkout", "cancel", "webhook", "sync", "renew"}

Frame ==
  [op: Ops, pc: Points,
   p: PayIds \cup {None},                \* the payment at hand
   owner: Owners \cup {None},            \* the owner at hand
   row: Fields,                          \* the copy of its row to be written
   method: BOOLEAN,                      \* a payment method came with the result
   snap: Subscription \cup {NoSub},      \* the copy of its subscription
   todo: SUBSET PayIds,                  \* SyncPendingPayments: still to visit
   due: [Owners -> Subscription \cup {NoSub}],  \* RenewDue: the list, still to visit
   at: Nat]                              \* RenewDue: the cycle's now

NewFields == [status |-> "pending", yoo |-> FALSE]

Idle ==
  [op |-> "none", pc |-> "idle", p |-> None, owner |-> None, row |-> NewFields,
   method |-> FALSE, snap |-> NoSub, todo |-> {},
   due |-> [o \in Owners |-> NoSub], at |-> 0]

TypeOK ==
  /\ now \in Nat
  /\ release \in 1 .. Releases
  /\ sub \in [Owners -> Subscription \cup {NoSub}]
  /\ pay \in [PayIds -> PaymentRow \cup {NoRow}]
  /\ ledger \in [PayIds -> Nat]
  /\ prov \in [PayIds -> ProviderPayment]
  /\ acked \in SUBSET PayIds
  /\ call \in [Procs -> Frame]
  /\ faults \in Nat

Init ==
  /\ now = 0
  /\ release = 1
  /\ sub = [o \in Owners |-> NoSub]
  /\ pay = [p \in PayIds |-> NoRow]
  /\ ledger = [p \in PayIds |-> 0]
  /\ prov = [p \in PayIds |-> Unsent]
  /\ acked = {}
  /\ call = [t \in Procs |-> Idle]
  /\ faults = 0

-----------------------------------------------------------------------------
(* Helpers. *)

Become(t, frame) == call' = [call EXCEPT ![t] = frame]

\* The handler returns nil: a webhook answers 200, SyncPendingPayments goes on
\* with the next pending payment, RenewDue with the next subscription.
AfterPayment(t) ==
  LET c == call[t]
  IN  CASE c.op = "sync"  -> [Idle EXCEPT !.op = "sync", !.pc = "sync", !.todo = c.todo]
        [] c.op = "renew" -> [Idle EXCEPT !.op = "renew", !.pc = "renew",
                                          !.due = c.due, !.at = c.at]
        [] OTHER          -> Idle

\* The answer to a webhook may be lost on its way back.
Return(t) ==
  /\ Become(t, AfterPayment(t))
  /\ \/ UNCHANGED acked
     \/ call[t].op = "webhook" /\ acked' = acked \cup {call[t].p}

SaveSubscription(o, s) == sub' = [sub EXCEPT ![o] = s]

CreatePayment(p, row) == pay[p] = NoRow /\ pay' = [pay EXCEPT ![p] = row]

UpdatePayment(p, fields) ==
  pay' = [pay EXCEPT ![p] = [@ EXCEPT !.status = fields.status, !.yoo = fields.yoo]]

\* mutant: no debit row for a change of period
AddLedgerEntryNotOnChange(p) ==
  ledger' = [ledger EXCEPT ![p] = @ + IF pay[p].purpose = "change_period" THEN 0 ELSE 1]

AddLedgerEntry(p) == ledger' = [ledger EXCEPT ![p] = @ + 1]

\* mutant: a payment still open at the provider counts as paid
PaidUnlessCanceled(status) == IF status # "canceled" THEN "succeeded" ELSE "pending"

\* The row's status after Gateway.CreatePayment answered.
PaidIfSucceeded(status) == IF status = "succeeded" THEN "succeeded" ELSE "pending"

-----------------------------------------------------------------------------
(* CreateCheckout and ChangePeriodToYear. *)

\* The reads that validate the request and the insert of the pending row.  The
\* row is private until the provider knows it, so the reads join the insert.
BeginCheckout(t, o, period, purpose, p) ==
  /\ call[t].pc = "idle"
  /\ GatewayEnabled[release]
  /\ purpose = "change_period" =>
       /\ period = "year"
       /\ sub[o] # NoSub
       /\ HasAccess(FALSE, sub[o], now)
       /\ PlanPeriod[sub[o].plan] # "year"
  /\ LET plan == CurrentPlan[release][period]
     IN  CreatePayment(p, [owner |-> o, plan |-> plan, amount |-> PlanAmount[plan],
                           purpose |-> purpose, status |-> "pending", yoo |-> FALSE])
  /\ Become(t, [Idle EXCEPT !.op = "checkout", !.pc = "charge", !.p = p, !.owner = o])
  /\ UNCHANGED <<sub, ledger, prov, env>>

\* Gateway.CreatePayment answers: the provider has recorded the payment.
CheckoutAnswered(t, status) ==
  /\ call[t].op = "checkout" /\ call[t].pc = "charge"
  /\ LET p == call[t].p
     IN  /\ prov' = [prov EXCEPT ![p] = [status |-> status, amount |-> pay[p].amount]]
         /\ \E m \in BOOLEAN :
              Become(t, [call[t] EXCEPT
                !.pc = "update",
                !.row = [status |-> PaidIfSucceeded(status), yoo |-> TRUE],
                !.method = m])
  /\ UNCHANGED <<db, env>>

\* Gateway.CreatePayment returns an error; the request may have reached the
\* provider all the same (a lost response, counted as a fault).
CheckoutGatewayError(t) ==
  /\ call[t].op = "checkout" /\ call[t].pc = "charge"
  /\ Become(t, Idle)
  /\ \/ UNCHANGED <<prov, faults>>
     \/ /\ faults < MaxFaults /\ faults' = faults + 1
        /\ prov' = [prov EXCEPT ![call[t].p] =
                      [status |-> "pending", amount |-> pay[call[t].p].amount]]
  /\ UNCHANGED <<db, now, release, acked>>

-----------------------------------------------------------------------------
(* The end of every successful path: UpdatePayment, then                   *)
(* applyVerifiedPayment (read the subscription, save it, add the debit).   *)

Update(t) ==
  /\ call[t].pc = "update"
  /\ UpdatePayment(call[t].p, call[t].row)
  /\ IF call[t].row.status = "succeeded"
       THEN Become(t, [call[t] EXCEPT !.pc = "apply"]) /\ UNCHANGED acked
       ELSE Return(t)
  /\ UNCHANGED <<sub, ledger, prov, now, release, faults>>

\* ApplySuccessfulPayment is pure, so the frame keeps its result.
ApplyRead(t) ==
  /\ call[t].pc = "apply"
  /\ LET c == call[t]
         r == pay[c.p]
         m == c.method \/ (c.op = "renew" /\ c.snap # NoSub /\ c.snap.method)
     IN  Become(t, [c EXCEPT
           !.pc = "save",
           !.owner = r.owner,
           !.snap = ApplySuccessfulPayment(sub[r.owner], r.plan, r.purpose, now, m, Recurring)])
  /\ UNCHANGED <<db, prov, env>>

ApplySave(t) ==
  /\ call[t].pc = "save"
  /\ SaveSubscription(call[t].owner, call[t].snap)
  /\ Become(t, [call[t] EXCEPT !.pc = "debit"])
  /\ UNCHANGED <<pay, ledger, prov, env>>

ApplyDebit(t) ==
  /\ call[t].pc = "debit"
  /\ AddLedgerEntry(call[t].p)
  /\ Return(t)
  /\ UNCHANGED <<sub, pay, prov, now, release, faults>>

-----------------------------------------------------------------------------
(* Cancel: read the row, write the whole row back. *)

CancelRead(t, o) ==
  /\ call[t].pc = "idle"
  /\ sub[o] # NoSub
  /\ Become(t, [Idle EXCEPT !.op = "cancel", !.pc = "cancel", !.owner = o,
                            !.snap = MarkCancelAtPeriodEnd(sub[o])])
  /\ UNCHANGED <<db, prov, env>>

CancelSave(t) ==
  /\ call[t].pc = "cancel"
  /\ SaveSubscription(call[t].owner, call[t].snap)
  /\ Become(t, Idle)
  /\ UNCHANGED <<pay, ledger, prov, env>>

-----------------------------------------------------------------------------
(* HandleYooKassaWebhook.  The provider notifies of a final status until   *)
(* it is answered with 200, so deliveries repeat and overlap.              *)

WebhookDeliver(t, p) ==
  /\ call[t].pc = "idle"
  /\ GatewayEnabled[release]
  /\ prov[p].status \in {"succeeded", "canceled"}
  /\ p \notin acked
  /\ Become(t, [Idle EXCEPT !.op = "webhook", !.pc = "fetch", !.p = p])
  /\ UNCHANGED <<db, prov, env>>

\* mutant: trust the notification instead of fetching the payment again
NotifiedStatus(p) == "succeeded"

\* mutant: the provider's final statuses are not recognised
UnrecognisedStatus(p) == "pending"

\* Gateway.GetPayment: the status the rest of the handler acts on.
FetchedStatus(p) == prov[p].status

WebhookFetch(t) ==
  /\ call[t].pc = "fetch"
  /\ \E m \in BOOLEAN :
       Become(t, [call[t] EXCEPT
         !.pc = "read",
         !.row.status = FetchedStatus(call[t].p),
         !.method = m])
  /\ UNCHANGED <<db, prov, env>>

\* mutant: no early return on a payment that has succeeded
NeverHandled(row) == FALSE

AlreadyHandled(row) == row.status = "succeeded"

\* The row is found by yookassa_payment_id or by the metadata's payment_id.  An
\* amount or an owner that differs from the row's is an error: the provider
\* reports both as they were sent, so it does not occur.
WebhookRead(t) ==
  /\ call[t].pc = "read"
  /\ LET c == call[t]
         r == pay[c.p]
     IN  \/ /\ AlreadyHandled(r) \/ c.row.status = "pending"
            /\ Return(t)
         \/ /\ ~AlreadyHandled(r) /\ c.row.status = "canceled"
            /\ Become(t, [c EXCEPT !.pc = "void", !.row.yoo = r.yoo])
            /\ UNCHANGED acked
         \/ /\ ~AlreadyHandled(r) /\ c.row.status = "succeeded"
            /\ prov[c.p].amount = r.amount
            /\ Become(t, [c EXCEPT !.pc = "update", !.row.yoo = TRUE])
            /\ UNCHANGED acked
  /\ UNCHANGED <<db, prov, now, release, faults>>

WebhookVoid(t) ==
  /\ call[t].pc = "void"
  /\ UpdatePayment(call[t].p, call[t].row)
  /\ Return(t)
  /\ UNCHANGED <<sub, ledger, prov, now, release, faults>>

-----------------------------------------------------------------------------
(* SyncPendingPayments: the user returns from the payment page. *)

SyncList(t, o) ==
  /\ call[t].pc = "idle"
  /\ GatewayEnabled[release]
  /\ LET pending == {p \in PayIds : /\ pay[p] # NoRow
                                    /\ pay[p].owner = o
                                    /\ pay[p].status = "pending"
                                    /\ pay[p].yoo}
     IN  /\ pending # {}
         /\ Become(t, [Idle EXCEPT !.op = "sync", !.pc = "sync", !.todo = pending])
  /\ UNCHANGED <<db, prov, env>>

\* Re-read one listed payment; hand it to HandleYooKassaWebhook unless it has
\* succeeded meanwhile.
SyncNext(t, p) ==
  /\ call[t].pc = "sync"
  /\ p \in call[t].todo
  /\ Become(t, IF pay[p].status = "succeeded"
                 THEN [call[t] EXCEPT !.todo = @ \ {p}]
                 ELSE [call[t] EXCEPT !.todo = @ \ {p}, !.pc = "fetch", !.p = p])
  /\ UNCHANGED <<db, prov, env>>

SyncEnd(t) ==
  /\ call[t].pc = "sync"
  /\ call[t].todo = {}
  /\ Become(t, Idle)
  /\ UNCHANGED <<db, prov, env>>

-----------------------------------------------------------------------------
(* RenewDue: one cycle of the notifier.  The cycle's time is taken before  *)
(* the portfolio scan that precedes it, the list when RenewDue starts.     *)

RenewBegin ==
  /\ call[Notifier].pc = "idle"
  /\ Become(Notifier, [Idle EXCEPT !.op = "renew", !.pc = "list", !.at = now])
  /\ UNCHANGED <<db, prov, env>>

\* mutant: the list leaves out subscriptions that will not renew
IsDueAndRenews(s, at) ==
  s # NoSub /\ s.status \in {"active", "past_due"} /\ ~s.cancelAtEnd /\ s.end <= at

\* ListSubscriptionsDueForRenew's WHERE clause.
IsDue(s, at) ==
  s # NoSub /\ s.status \in {"active", "past_due", "canceled"} /\ s.end <= at

RenewList ==
  /\ call[Notifier].pc = "list"
  /\ Become(Notifier, [call[Notifier] EXCEPT
       !.pc = "renew",
       !.due = [o \in Owners |-> IF IsDue(sub[o], call[Notifier].at)
                                   THEN sub[o] ELSE NoSub]])
  /\ UNCHANGED <<db, prov, env>>

\* What RenewDue does with a listed subscription, in the order of its tests.
Decision(o, s, at) ==
  CASE o \in Complimentary -> "skip"
    [] o \notin Complimentary
         /\ (ShouldExpireCanceled(s, at) \/ ShouldExpirePastDue(s, at)) -> "expire"
    [] OTHER ->
         IF ~Recurring \/ ~ShouldAttemptRenew(s, at)
           THEN IF s.end <= at /\ (~Recurring \/ s.cancelAtEnd) THEN "expire" ELSE "skip"
           ELSE IF GatewayEnabled[release] THEN "charge" ELSE "past_due"

\* o is the next subscription of the list and the loop decides d.
RenewVisits(o, d) ==
  /\ call[Notifier].pc = "renew"
  /\ call[Notifier].due[o] # NoSub
  /\ Decision(o, call[Notifier].due[o], call[Notifier].at) = d

Visited(o) == [call[Notifier] EXCEPT !.due = [@ EXCEPT ![o] = NoSub]]

RenewSkip(o) ==
  /\ RenewVisits(o, "skip")
  /\ Become(Notifier, Visited(o))
  /\ UNCHANGED <<db, prov, env>>

RenewExpire(o) ==
  /\ RenewVisits(o, "expire")
  /\ SaveSubscription(o, MarkExpired(call[Notifier].due[o]))
  /\ Become(Notifier, Visited(o))
  /\ UNCHANGED <<pay, ledger, prov, env>>

RenewUnpaid(o) ==
  /\ RenewVisits(o, "past_due")
  /\ SaveSubscription(o, MarkPastDue(call[Notifier].due[o], call[Notifier].at))
  /\ Become(Notifier, Visited(o))
  /\ UNCHANGED <<pay, ledger, prov, env>>

\* mutant: a renewal costs what the plan costs today
TodaysAmount(s) == PlanAmount[CurrentPlan[release][PlanPeriod[s.plan]]]

RenewalAmount(s) == PlanAmount[s.plan]

\* The idempotency key ends in the cycle's time, so no earlier row has it.
RenewCharge(o, p) ==
  /\ RenewVisits(o, "charge")
  /\ LET s == call[Notifier].due[o]
     IN  /\ CreatePayment(p, [owner |-> o, plan |-> s.plan, amount |-> RenewalAmount(s),
                              purpose |-> "renew", status |-> "pending", yoo |-> FALSE])
         /\ Become(Notifier, [Visited(o) EXCEPT !.pc = "charge", !.p = p,
                                                !.owner = o, !.snap = s])
  /\ UNCHANGED <<sub, ledger, prov, env>>

\* The insert fails and RenewDue returns its error: here, when the bound on
\* payment rows is reached.
RenewInsertError(o) ==
  /\ RenewVisits(o, "charge")
  /\ \A p \in PayIds : pay[p] # NoRow
  /\ Become(Notifier, Idle)
  /\ UNCHANGED <<db, prov, env>>

\* A stored card is charged at once: the answer may already be final.
RenewAnswered(status) ==
  /\ call[Notifier].pc = "charge"
  /\ LET p == call[Notifier].p
     IN  /\ prov' = [prov EXCEPT ![p] = [status |-> status, amount |-> pay[p].amount]]
         /\ \E m \in BOOLEAN :
              Become(Notifier, [call[Notifier] EXCEPT
                !.pc = "update",
                !.row = [status |-> PaidIfSucceeded(status), yoo |-> TRUE],
                !.method = m])
  /\ UNCHANGED <<db, env>>

RenewGatewayError ==
  /\ call[Notifier].pc = "charge"
  /\ Become(Notifier, [call[Notifier] EXCEPT !.pc = "past_due"])
  /\ \/ UNCHANGED <<prov, faults>>
     \/ /\ faults < MaxFaults /\ faults' = faults + 1
        /\ prov' = [prov EXCEPT ![call[Notifier].p] =
                      [status |-> "pending", amount |-> pay[call[Notifier].p].amount]]
  /\ UNCHANGED <<db, now, release, acked>>

\* The subscription is saved from the listed copy, then the row is failed.
RenewPastDue ==
  /\ call[Notifier].pc = "past_due"
  /\ SaveSubscription(call[Notifier].owner,
                      MarkPastDue(call[Notifier].snap, call[Notifier].at))
  /\ Become(Notifier, [call[Notifier] EXCEPT !.pc = "fail_row"])
  /\ UNCHANGED <<pay, ledger, prov, env>>

RenewFailRow ==
  /\ call[Notifier].pc = "fail_row"
  /\ UpdatePayment(call[Notifier].p, [status |-> "failed", yoo |-> FALSE])
  /\ Return(Notifier)
  /\ UNCHANGED <<sub, ledger, prov, now, release, faults>>

\* RenewDue ignores the errors of these three writes and goes on.
RenewLostWrite ==
  /\ faults < MaxFaults /\ faults' = faults + 1
  /\ LET c == call[Notifier]
     IN  \/ c.pc = "past_due" /\ Become(Notifier, [c EXCEPT !.pc = "fail_row"])
         \/ c.pc = "fail_row" /\ Become(Notifier, AfterPayment(Notifier))
         \/ /\ c.pc = "update" /\ c.row.status = "pending"
            /\ Become(Notifier, AfterPayment(Notifier))
  /\ UNCHANGED <<db, prov, now, release, acked>>

RenewEnd ==
  /\ call[Notifier].pc = "renew"
  /\ \A o \in Owners : call[Notifier].due[o] = NoSub
  /\ Become(Notifier, Idle)
  /\ UNCHANGED <<db, prov, env>>

-----------------------------------------------------------------------------
(* Everything around the service. *)

\* The provider decides a pending payment.  A checkout is paid on the page whose
\* address CreateCheckout returns, so only after its row has been updated; a
\* renewal charges a stored card at any time.
ProviderSettles(p, status) ==
  /\ prov[p].status = "pending"
  /\ status = "succeeded" => pay[p].purpose = "renew" \/ pay[p].yoo
  /\ prov' = [prov EXCEPT ![p] = [@ EXCEPT !.status = status]]
  /\ UNCHANGED <<db, call, env>>

\* A crash, a closed request context or a storage error ends the handler.
Abort(t) ==
  /\ call[t].pc # "idle"
  /\ faults < MaxFaults /\ faults' = faults + 1
  /\ Become(t, Idle)
  /\ UNCHANGED <<db, prov, now, release, acked>>

\* Both processes restart with the next release's migrations and settings.
Redeploy ==
  /\ release < Releases
  /\ release' = release + 1
  /\ call' = [t \in Procs |-> Idle]
  /\ UNCHANGED <<db, prov, now, acked, faults>>

Tick ==
  /\ now < MaxTime
  /\ now' = now + 1
  /\ UNCHANGED <<db, prov, call, release, acked, faults>>

Checkout(t) ==
  \/ \E o \in Owners, period \in Periods, purpose \in {"checkout", "change_period"},
        p \in PayIds : BeginCheckout(t, o, period, purpose, p)
  \/ \E status \in CheckoutAnswers : CheckoutAnswered(t, status)
  \/ CheckoutGatewayError(t)

Apply(t) == Update(t) \/ ApplyRead(t) \/ ApplySave(t) \/ ApplyDebit(t)

Cancel(t) == (\E o \in Owners : CancelRead(t, o)) \/ CancelSave(t)

\* HandleYooKassaWebhook from the re-fetch on, for a webhook or for sync.
HandleYooKassaWebhook(t) == WebhookFetch(t) \/ WebhookRead(t) \/ WebhookVoid(t)

SyncPendingPayments(t) ==
  \/ \E o \in Owners : SyncList(t, o)
  \/ \E p \in PayIds : SyncNext(t, p)
  \/ SyncEnd(t)

RenewDue ==
  \/ RenewBegin \/ RenewList \/ RenewEnd
  \/ \E o \in Owners :
       \/ RenewSkip(o) \/ RenewExpire(o) \/ RenewUnpaid(o) \/ RenewInsertError(o)
       \/ \E p \in PayIds : RenewCharge(o, p)
  \/ \E status \in {"pending", "succeeded", "canceled"} : RenewAnswered(status)
  \/ RenewGatewayError \/ RenewPastDue \/ RenewFailRow \/ RenewLostWrite
  \/ Apply(Notifier)

Serve(t) ==
  \/ Checkout(t) \/ Apply(t) \/ Cancel(t)
  \/ \E p \in PayIds : WebhookDeliver(t, p)
  \/ HandleYooKassaWebhook(t)
  \/ SyncPendingPayments(t)

Environment ==
  \/ \E p \in PayIds, status \in {"succeeded", "canceled"} : ProviderSettles(p, status)
  \/ \E t \in Procs : Abort(t)
  \/ Redeploy
  \/ Tick

Next == (\E t \in Threads : Serve(t)) \/ RenewDue \/ Environment

Spec == Init /\ [][Next]_vars
-----------------------------------------------------------------------------
(* Fairness: the Go scheduler runs every goroutine that is not aborted,    *)
(* the notifier's ticker keeps firing, and the provider repeats an         *)
(* unanswered notification whenever a goroutine is free to take it.        *)

RunsThread(t) ==
  \/ (\E status \in CheckoutAnswers : CheckoutAnswered(t, status))
  \/ CheckoutGatewayError(t)
  \/ Apply(t) \/ CancelSave(t) \/ HandleYooKassaWebhook(t)
  \/ (\E p \in PayIds : SyncNext(t, p)) \/ SyncEnd(t)

Fairness ==
  /\ \A t \in Threads : WF_vars(RunsThread(t))
  /\ WF_vars(RenewDue)
  /\ \A p \in PayIds : SF_vars(\E t \in Threads : WebhookDeliver(t, p))

FairSpec == Spec /\ Fairness

-----------------------------------------------------------------------------
(* What the service guarantees. *)

\* The provider holds the money of payment p, in the amount of its row.
Captured(p) ==
  /\ pay[p] # NoRow
  /\ prov[p] = [status |-> "succeeded", amount |-> pay[p].amount]

\* The row of payment p says succeeded.
Recorded(p) == pay[p] # NoRow /\ pay[p].status = "succeeded"

\* Owner o has bought plan version v: a captured checkout, not a renewal.
Bought(o, v) ==
  \E p \in PayIds : /\ Captured(p)
                    /\ pay[p].owner = o /\ pay[p].plan = v
                    /\ pay[p].purpose # "renew"

\* No payment is recorded as succeeded, and no debit is booked, unless the
\* provider captured exactly the row's amount, however webhooks, syncs,
\* renewals, lost responses and aborted handlers interleave
\* (HandleYooKassaWebhook re-fetches the payment and never trusts the body).
DebitOnlyCaptured ==
  \A p \in PayIds : ledger[p] > 0 \/ Recorded(p) => Captured(p)

\* A subscription's plan version is always one its owner has bought, through
\* every stale whole-row SaveSubscription of Cancel and RenewDue.
SubscriptionIsBought ==
  \A o \in Owners : sub[o] # NoSub => Bought(o, sub[o].plan)

\* Grandfathering: a renewal is charged at the price of a plan version the
\* owner has bought, whatever price list is current at the time (RenewDue
\* passes sub.AmountKopecks, not the catalog's).
RenewalAtBoughtPrice ==
  \A p \in PayIds :
    pay[p] # NoRow /\ pay[p].purpose = "renew" =>
      \E v \in PlanVersions :
        /\ Bought(pay[p].owner, v)
        /\ pay[p].amount = PlanAmount[v]
        /\ prov[p].status # "none" => prov[p].amount = PlanAmount[v]

\* A captured payment is eventually recorded as succeeded: the provider keeps
\* notifying until some handler has returned nil, and none returns nil on a
\* captured payment whose row is not succeeded.
CapturedIsRecorded ==
  \A p \in PayIds :
    prov[p].status = "succeeded" ~> Recorded(p)

\* One-time mode: a prepaid period that is over ends in "expired" or in a new
\* period, even when a stale Cancel writes the old row back in between.
Lapsed(o) == sub[o] # NoSub /\ sub[o].status # "expired" /\ sub[o].end < now

EndedPeriodExpires == \A o \in Owners : Lapsed(o) ~> ~Lapsed(o)

-----------------------------------------------------------------------------
(* The service implements PaymentContract.                                 *)

moneyBar ==
  [p \in PayIds |->
     IF prov[p].status = "none" THEN NoSub
     ELSE [owner |-> pay[p].owner, plan |-> pay[p].plan,
           kind |-> IF pay[p].purpose = "renew" THEN "renewal" ELSE "purchase",
           state |-> prov[p].status]]

planBar == [o \in Owners |-> IF sub[o] = NoSub THEN NoSub ELSE sub[o].plan]

\* NoSub stands for "nothing" in the contract too, so it is no payment of it.
ASSUME NothingAssumption ==
  NoSub \notin [owner: Owners, plan: PlanVersions, kind: {"purchase", "renewal"},
               state: {"pending", "succeeded", "canceled"}]

Contract == INSTANCE PaymentContract
  WITH Nothing <- NoSub, money <- moneyBar, debits <- ledger, plan <- planBar

\* Every step of every handler, fault or redeployment is a step of the payment
\* contract or changes nothing the contract talks about.
ImplementsContract == Contract!Spec

-----------------------------------------------------------------------------
(* The inductive invariant behind the safety properties: what the rows say *)
(* about the provider, and what each frame may still write.                *)

\* The provider knows only payments that have a row, in the row's amount, and a
\* renewal row asks for a version its owner has bought.
RowsInv ==
  \A p \in PayIds :
    /\ prov[p].status # "none" =>
         pay[p] # NoRow /\ prov[p].amount = pay[p].amount
    /\ pay[p] # NoRow =>
         /\ pay[p].amount = PlanAmount[pay[p].plan]
         /\ pay[p].yoo => prov[p].status # "none"
         /\ pay[p].purpose = "renew" => Bought(pay[p].owner, pay[p].plan)

\* The frame will save its copy of a subscription.
CopyIsBought(c) ==
  /\ c.owner \in Owners
  /\ c.snap \in Subscription
  /\ Bought(c.owner, c.snap.plan)

FrameInv(c) ==
  /\ c.pc \in {"charge", "update", "apply", "save", "debit", "fetch", "read",
               "void", "past_due", "fail_row"} => c.p \in PayIds /\ pay[c.p] # NoRow
  /\ c.pc = "charge" => prov[c.p].status = "none"
  /\ c.pc \in {"update", "fetch", "read", "void"} => prov[c.p].status # "none"
  /\ c.pc = "read" /\ c.row.status = "succeeded" => prov[c.p].status = "succeeded"
  /\ c.pc = "void" => c.row.status = "canceled"
  /\ c.pc = "update" /\ c.row.status = "succeeded" => Captured(c.p)
  /\ c.pc \in {"apply", "save", "debit"} => Captured(c.p)
  /\ c.pc \in {"save", "cancel", "past_due"} => CopyIsBought(c)
  /\ c.pc = "charge" /\ c.op = "renew" => CopyIsBought(c)
  /\ \A p \in c.todo : prov[p].status # "none"
  /\ \A o \in Owners : c.due[o] # NoSub => Bought(o, c.due[o].plan)

\* No two goroutines are about to send the same payment to the provider.
ChargeOnce ==
  \A t, u \in Procs :
    call[t].pc = "charge" /\ call[u].pc = "charge" /\ call[t].p = call[u].p => t = u

\* The notifier does nothing but RenewDue.
NotifierRenews == call[Notifier].pc # "idle" => call[Notifier].op = "renew"

Inv ==
  /\ TypeOK
  /\ RowsInv
  /\ DebitOnlyCaptured
  /\ SubscriptionIsBought
  /\ \A t \in Procs : FrameInv(call[t])
  /\ ChargeOnce
  /\ NotifierRenews

-----------------------------------------------------------------------------
(* What holds only while handlers do not overlap, or do not fail.          *)

\* A payment is applied to a subscription, and booked, at most once
\* (HandleYooKassaWebhook returns early on a succeeded row).
AppliedAtMostOnce == \A p \in PayIds : ledger[p] <= 1

InFlight(p) == \E t \in Procs : call[t].pc # "idle" /\ call[t].p = p

\* While no handler has failed and no release was deployed, a payment recorded
\* as succeeded has been applied, once no handler is working on it
\* (UpdatePayment comes before applyVerifiedPayment).
SucceededIsApplied ==
  faults = 0 /\ release = 1 =>
    \A p \in PayIds : Recorded(p) /\ ~InFlight(p) => ledger[p] > 0

\* An owner has at most one renewal open at the provider.
OneOpenRenewal ==
  \A p, q \in PayIds :
    /\ pay[p] # NoRow /\ pay[p].purpose = "renew" /\ prov[p].status = "pending"
    /\ pay[q] # NoRow /\ pay[q].purpose = "renew" /\ prov[q].status = "pending"
    /\ pay[p].owner = pay[q].owner
    => p = q

=============================================================================
