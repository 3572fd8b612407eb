# Formal models of Instrumenta (bond-monitor)

TLA+ modules, TLC configurations and TLAPS proofs of the backend: subscriptions and
payments, the delivery of notifications and the bot, purchase plans and broker
orders, portfolios and their accounts, the planner, the advice, the risk watch, the
market data and the screener. `PROJECT.json` maps every definition to the Go
lines it stands for and lists the runs, the hazards and the theorems.

    tlc -workers 2 -config Portfolio.cfg MCPortfolio.tla
    tlapm AccountsProofs.tla

Contents: 1 the system, 2 the modules, 3 the runs, 4 fairness, 5 the proofs,
6 where the code and its comments disagree, 7 what else the models show of the code,
8 what is abstracted and what is left out, 9 the plan.

## 1. The system

Two Go processes share an SQL database (Postgres, or SQLite): the **API**
(`backend/cmd/api`), one goroutine per HTTP request plus the notification
consumer, and the **notifier** (`backend/cmd/notifier`), whose ticker runs a
cycle (scan the portfolios, deliver alerts, scan the market, renew subscriptions)
next to the Telegram bot's inbox. Redis carries a stream from the notifier to the
API. The payment provider (YooKassa), the broker (T-Invest), the exchange (MOEX), the
central bank and Telegram are remote. Nothing uses a database transaction across two
calls, and only the two RAM caches and the key rate hold a lock.

| component | state it keeps | operations | what is hard | correct when |
|---|---|---|---|---|
| Subscription rules `domain/billing` | none (pure) | apply a payment, cancel, past due, expire, access | boundary instants, grace, one-time mode | an ended period renews or expires, access follows what was paid |
| Billing service `application/billing` | `billing_subscriptions`, `billing_payments`, `billing_ledger` | checkout, change period, cancel, webhook, sync, renewal cycle | gateway call between reads and writes, webhook and sync and renewal race, lost answers, crashes | money is booked only when captured, a paid period is granted once, prices are grandfathered |
| Notifier delivery `application/notifications` | `delivery_ledger` (its own SQLite file) | scan, process alert, retry pending | three stores without a transaction, crash between any two writes | every alert arrives, once per cooldown |
| Bus and consumer | Redis stream and group, `user_notifications` | publish, read, acknowledge, upsert, read, dismiss | redelivery, batch lost at restart | nothing published is lost, nothing dismissed returns |
| Bot inbox | opt-in of the user row; offset and rate buckets in memory | start, stop, blocked, relay, reply | replayed updates, a second writer (settings page) | whoever switched off last gets none, a message to support is relayed or refused aloud (unless that fails) |
| Alert rules, risk watch | risk baselines in the portfolio row | collect alerts, keep and acknowledge baselines | overlapping whole-row saves, failed fetches | a worsening since the accepted state is told |
| Deploy sessions and orders | `deploy_sessions`, broker orders | create, refresh, sync, skip, place, cancel | check-then-act, stale whole-row writes, terminal orders | one active session, an item follows its own order, nothing is offered while its order is open |
| Portfolios, attachment, sandbox | `portfolios`, the broker's accounts | create, edit, delete, attach, detach, open, drop, clear | load, edit, save without a version; links without an index | one portfolio per account, a deleted one stays deleted |
| Planner and simulation `domain/portfolio` | none (pure) | compose, top up, sweep, simulate, reinvest, totals, chart | caps, one purse, event order, dates on the boundary | no more is spent than there is, every position ends once, the plan adds up |
| Advice, performance `domain/trading` | none (pure) over sessions and history | suggest, remind, age a session, profit since attachment | items going stale between answers, an episode found back from history | advice is never muted, profit is what was earned |
| Universe, key rate | RAM, disk and table caches | load, refresh, invalidate, announce | loads in flight, clocks that add up, torn settings | data is as fresh as promised, changes are told |
| Market signals, radar | `spread_snapshots`, `market_radar` | anomalies, widening, dips, heat map | two writers, two readings of one market | the readings agree, a widening is real |
| Screener | none (pure) | score, filter, sort, page | boundaries of penalties, a scale per page | the safer bond comes first, the pages are the list |
| Broker credentials | sealed rows, plaintext caches | put, delete, probe, use | overlapping puts, re-cached tokens | what is stored opens, what is served is recent |
| Broker and provider clients | none | calls | lost answers | modelled from how they are used |
| HTTP layer, configuration, frontend, deployment tool | sessions, files | route, parse, render | wording | section 8 |

The hazards are listed with their lines under `"hazards"` in `PROJECT.json`.

## 2. The modules

    BillingLifecycle <-- BillingService --refines--> PaymentContract
                          ^          ^
              BillingProofs          MCBilling
    NotificationDelivery <-- MCDelivery
             ^  BotInbox
             |     |  (INSTANCE)
           MCNotifier <-- DeliveryProofs
    DeploySessions <-- DeployProofs, MCDeploy
    PortfolioAccounts
             ^
             |   CashDeployment <-- PlanSimulation, Advice
             |   RiskRules <-- RiskMonitor     Credentials   TradingEpisode
             |        |              |              |            |
           MCPortfolio (INSTANCE of PlanSimulation, Advice, RiskMonitor, Credentials, TradingEpisode)
             ^
           AccountsProofs, TradingProofs <-- PortfolioProofs
    BondUniverse <-- UniverseProofs
          ^   KeyRate   RiskRules <-- MarketSignals <-- MarketRadar   Screening
          |      |                                           |             |
        MCMarket (INSTANCE of KeyRate, MarketRadar, Screening) <-- MarketProofs

Three MC modules are suites: they EXTEND one component, INSTANCE others, and a
behaviour follows one of them (`focus`) while the others rest. That is sound where the
components exchange nothing but what each takes from an arbitrary set anyway; the
comment at the head of each suite says why that is so. It keeps one configuration per
area without multiplying the state spaces.

**BillingLifecycle** holds the pure rules of `domain/billing` as operators.
A subscription is a record `[status, plan, end, cancelAtEnd, method,
pastDueSince]`. Its period, price and feature list are copies the code takes from
an immutable plan version, so the record keeps the version instead. Time is a
natural number: the rules compare instants and add one of three lengths.

**BillingService** is `application/billing.Service` over its database. Variables
and what they stand for:

| variable | code |
|---|---|
| `sub`, `pay`, `ledger` | the rows of the three tables (`ledger` counts debit rows per payment) |
| `prov` | the provider's payment for each row: a row is sent at most once, so it is indexed by row |
| `call[t]` | the frame of goroutine `t`: which call it makes next (`pc`) and what it has read and not yet written |
| `acked` | notifications answered with 200, which the provider does not repeat |
| `release` | the deployed version: which plan version is current, and whether shop credentials are set |
| `faults` | how many of the `MaxFaults` faults have been used |

Every call of the `Store` or the `Gateway` that another goroutine can observe is
an action; `Threads` are API goroutines, `Notifier` runs `RenewDue`. The actions
of one handler follow its source from top to bottom:

* `BeginCheckout`, `CheckoutAnswered`/`CheckoutGatewayError`, then `Update`,
  `ApplyRead`, `ApplySave`, `ApplyDebit`: `CreateCheckout` and
  `applyVerifiedPayment`. The validation reads join the insert: the fresh row is
  private until the provider knows it.
* `CancelRead`, `CancelSave`: `Cancel` reads and writes the whole row.
* `WebhookDeliver`, `WebhookFetch`, `WebhookRead`, then `WebhookVoid` or `Update`
  and the application: `HandleYooKassaWebhook`.
* `SyncList`, `SyncNext`, the webhook's actions, `SyncEnd`: `SyncPendingPayments`.
* `RenewBegin`, `RenewList`, per subscription `RenewSkip`/`RenewExpire`/
  `RenewUnpaid`/`RenewCharge`, `RenewAnswered`/`RenewGatewayError`, the same end
  as a checkout or `RenewPastDue`, `RenewFailRow`, `RenewLostWrite`, `RenewEnd`:
  one cycle. `Decision` is the chain of tests in the loop. The cycle's time is
  taken before the portfolio scan (`runCycle`), so it is older than the list.
* `Abort` loses a frame: a crash, a closed `r.Context()`, a storage error.
  `Redeploy` restarts both processes; `ProviderSettles` decides a payment.

**PaymentContract** is the abstract specification: what the provider was asked
for, debits, and the plan each owner is on. `BillingService` implements it under
`moneyBar` and `planBar` (`ImplementsContract`), whatever happens to frames.

**NotificationDelivery** is the notifier's delivery and the API's consumer over
the ledger, the stream and the table. `notifier` is the frame of one cycle (`loop`
says which `for` it is in, `pc` its next call); `api.batch` is what the consumer
was given and has not handled. Errors the code drops (`MarkBusPublished`,
`MarkTelegramSent`, `Get`, `Ack`) are disjuncts that spend a fault and go on. A
payload is full or "restored from the ledger" (`alertFromLedger` drops prices, lots
and attribution). The set of alerts a scan finds changes arbitrarily.

**DeploySessions** is the life of purchase plans of one portfolio. `rows` is the
table `deploy_sessions`, `orders` what the broker knows, `call[t]` the frame of a
request, with the copy of the row it is going to upsert. A row is `[status, items,
created]`, and `items` maps each proposed bond to `[status, order]`: an item's id is
the hash of its session and its bond, so a refreshed session has items with the
ids it had before. The actions of one handler, in the order of its source:

* `CreateRead`, `CreateClose`, `Insert`: `CreateSession`. `Opening` is what it
  does with a session it found: close it first, or go on.
* `RefreshRead`, `Rebuild`, `Save`: `RefreshSession`, which saves twice.
* `CancelRead`, `Save` and `SkipRead`, `Save`: `CancelSession`, `SkipItem`.
* `PlacePost`, `PlaceRead`, `Save`: `PlaceOrder` posts, then looks for the item.
* `AdviseOrders`, `AdviseRead`, `AdviseSave`, `Save`: `GetAdvice` takes the open
  orders, then reads, synchronises and saves the session, then does so again.
* `CancelOrder` and `Execute` are the broker; `Abort` loses a frame.

`disturbed` is a history variable: whether two requests have overlapped, a frame was
lost, a session was refreshed. Several properties are true only without some of
these, and each names exactly the ones it does not survive. So the runs show both
what the code guarantees and where its guarantee ends, without one run per case.

**BotInbox** is the goroutine that polls Telegram. Telegram's queue keeps an update
until a poll asks for a later one, so `GetUpdates` after a `Restart` (offset 0, empty
buckets) hands out again what was handled but not yet confirmed. `Start` is two steps
(the subscription is read, then `MarkBotConnected` writes), `Stop` and a blocked bot one;
`DeleteTelegramBot` is the settings page writing the same row from the API. `wanted` is
what the user asked for last; `crossed`, `failed` and `unsaid` record the three ways out:
settings that cross an update, a write of the switch that fails, and a refusal of a message
to support that is not sent. The errors of the last two are dropped.

**PortfolioAccounts** is the table `portfolios` and the broker's sandbox accounts.
Every request is a `job` with the copy of the row it will save: `BeginEdit`/`SaveEdit`
are ten operations with one shape (`Edited` is what each does to the copy),
`BeginAttach`, `AttachCheck`, `AttachSnapshot`, `AttachSave` follow `AttachAccount`,
`BeginDrop`, `DropFind`, `DropDelete`, `DropClose` follow `DeleteSandboxAccount`,
`BeginClear`, `ClearClose`, `ClearOpen` follow `ClearAccountForAttach`. `Mark` is a
history variable's work: a write makes every job `stale` that had read what it
replaces, `raced` records a save by a stale job and `blind` a failed link query.

**CashDeployment** is `DeployCash`: `Eligible` and `Selected` are the bond filter and
its relaxation steps, the frame walks open, top-up, fill and sweep as the code does,
one allocation a step (`OpenStep`, `TopUpStep`, `FillStep`, `TargetStep`, `SweepStep`).
**PlanSimulation** is `RunSimulation` over it: a queue of events in the order of
`eventHeap.Less`, coupons, redemptions and puts, the deployment after each, slots with
their confirmed replacements, then the totals and the value timeline of
`plan_builder.go`. The algorithms are state machines here, not operators, because each
step must see what the one before has spent.

**Advice** is `Advise` with one session: positions adopted from the broker's holdings,
suggestions for free cash and for redemptions, reminders of put offers, and the items
of the session with what makes them stale. It reuses CashDeployment, as the code does: a
deployment is one recursive function here (`Deployed`), since nothing interrupts it.
**TradingEpisode** keeps the account's history as a sequence of operations and computes
capital and profit back from it (`CashAtStart`, `QtyAtStart`, `LotState`, `CostOf`, `Wave`);
what really was there at the attachment is in history variables the code lacks.

**RiskRules** says what is worse; **RiskMonitor** is the notifier's scan of a portfolio
next to the owner's requests, with the baselines both write as part of the whole row: a scan
that finds no bond returns before it looks at them (`FindNothing`), and one that does goes
on whether its save succeeds or not (`SaveBaselines`).
**Credentials** is the sealed token, its plaintext cache in each process, and the
handlers that put, delete, probe and use it. A token is sealed for the id of its row.

**BondUniverse** is the load through its four caches, one access a step, next to
refreshes and clears; data is the time it was fetched. **KeyRate** is
`KeyRateService` in both processes over two rows of settings. **MarketSignals** holds
the statistics, **MarketRadar** the two scanners that write the same rows of past
spreads, and what the API serves. Yields are gross in the universe and counted net by the
`rates` of whoever looks (key rate and tax: the owner's for the scan, the service's for the
radar and when the owner's cannot be read). A row notes the yield and the rates it was taken
from, for the properties only. Every statement whose error the code drops (the save of the
baselines, `Upsert` of a row, either list of rows, the radar's run) may fail. **Screening**
is the scorer, with the code's constants in scaled integers, and the pages of the list.

**MCBilling**, **MCDelivery**, **MCDeploy**, **MCNotifier**, **MCPortfolio** and
**MCMarket** give the constants their values.

## 3. The runs

| run | bounds | question |
|---|---|---|
| BillingMoney | 1 owner, 1 goroutine + notifier, 2 payments, 3 releases, clock 0..2, month 1, 1 fault | is anything booked, or any plan adopted, without captured money, are renewals grandfathered, is the contract implemented? |
| BillingSerial | 1 goroutine, 2 payments, clock 0..3, no fault | without overlap, is a payment applied exactly once? |
| BillingLive | 2 goroutines + notifier, 1 payment, clock 0..2, 1 fault, fair | does captured money get recorded, does an ended period expire? |
| BillingOverlap, BillingDoubleCharge | as small as the case allows | section 6 |
| DeliveryOutbox | delivery: 2 alerts, 1 stream entry before Redis refuses, 1 fault in each process; inbox: 1 user, 3 updates, 1 turn of the settings or the subscription, 1 fault | does the mark overtake the write? have the updates Telegram let go of had their effect? |
| DeliveryLive | 1 alert, clock 0..3 with a cooldown of 2, 1 fault in each process, fair | does every alert arrive, how often is it pushed? |
| DeliveryStranded | 1 alert, 1 fault of the API | section 6 |
| DeployRaces | 2 goroutines, 2 sessions, 2 bonds, 1 order, 4 changing requests | what survives any interleaving of requests, what only serial ones? |
| DeployCancelled | 1 goroutine, 1 session, 2 bonds, 1 order, 2 changing requests | section 6 |
| Portfolio | six focuses, below | rows and accounts, plans, risk, tokens, profit, advice |
| Market | four focuses, below | caches, key rate, the two readings of the market, the screener |

Focuses of **Portfolio**:

| focus | bounds | properties |
|---|---|---|
| accounts | 2 portfolios, 2 accounts, 1 bond, 2 goroutines, 6 requests, 1 fault | `ForecastIsOfAccount`, `AccountLinkedOnce`, `ClosedIsUnlinked`, `DeletedStaysDeleted` |
| plan | 7 universes of 3 to 5 bonds with different put offers, one of them with bonds that never mature, 6 sets of positions (one bought after today, one that ends on the last day), 3 amounts of cash, 2 profiles, 2 modes, 3 sets of confirmed slots, with and without duration limit and API-only filter; horizon of 12 days, 2 generations of reinvestment | `SpendsWithinCash`, `CapsHold`, `PositionsEndOnce`, `PlanAddsUp` |
| risk | 2 bonds, sound at first, then below grade or in default, 3 moves (a bond sold and bought back among them), 1 request, 1 failure of a fetch or a save | `WorseningIsTold` |
| token | 2 tokens, 2 handlers and the notifier, 2 writes, clock 0..2 with a time to live of 1, 1 failure | `StoredOpens`, `ServedIsRecent` |
| episode | 2 bonds (one in the plan or none, one without a quote), 2 prices, 4 operations, 2 days | `ProfitIsEarned` |
| advice | 4 bonds, 3 planned positions (one bond twice), one bond held, 4 days, a budget or none, 3 turns of the owner, the market or the session; a deployment ends within 60 steps, which TLC asserts | `AdviceIsNeverMuted`, `ItemsAreDistinct` |

Focuses of **Market**:

| focus | bounds | properties |
|---|---|---|
| universe | 2 goroutines, 2 loads, clock 0..3, times to live of 1 and 2, 1 refresh or clear, 1 fault | `UniverseAgeBounded`, `InvalidationIsSeen`, `OffersKept` |
| rate | 2 processes, 2 publications, clock 0..3 with a time to live of 2, 1 fault | `RateIsRecent`, `ChangesAreTold` |
| radar | 2 days, 2 calm markets and 9 swings around the thresholds, 2 key rates, one move of either, 4 bonds (in one market one pays forty points more than its peers), 2 portfolios, taxes of 0 and 13 percent, one statement that fails (the rows of one bond or of its peers are not written) | `ReadingsAgree`, `WideningIsReal` |
| screen | 245 universes (5 yields, pairs of 7 qualities, a floater, a callable), 13 queries, pages of 2 to 4 rows and an export, 3 pages, 1 reload | `SaferComesFirst`, `PagesAreTheList` |

Why the bounds suffice. Owners interact only through the list of a renewal
cycle, which is visited one by one, and payments only through their owner's row:
one owner with two payments (one bought, one renewed or bought again) gives
every conflict over a row, three payments the case of two open renewals. One
goroutine next to the notifier, or two goroutines, give every pair of concurrent
handlers. In BillingSerial a month of two instants leaves room for a second
purchase inside the first period, and the clock 0..3 passes its end; in
BillingMoney a month of one instant and the clock 0..2 give a purchase, its end,
a failed renewal with its grace, and two changes of price in between. Two alerts
show what a failed write does to the rest of the loop, a stream of one entry
brings the refusal of Redis within reach. Three updates are a switch on, a switch off
and one replayed behind them. BillingSerial and the violations that
need no fault ask what the code does when nothing fails.

In DeployRaces two goroutines give every pair of requests, and four changing
requests the longest story the properties speak of: create, order, close, create
again. Two sessions are needed for a row that is closed while another is
active, two bonds for a plan that is partly done. One order suffices because an
item's status follows its own order only. Asking for advice is not counted, since
it changes nothing by itself: it may happen any number of times.

Six requests on two portfolios and two accounts are a create each, two attaches that
overlap, a deletion and one edit more, and what they show for two is proved for any
number (section 5). The inputs of a plan are picked at the edges of the rules: cash that
buys nothing, one lot, or several positions; positions that end before today, on a
reinvestment day and on the horizon; a put window open, closed, unknown; caps that one
more lot would pass. Shares and prices are small integers, so a cap is met exactly at
some amount. A token lives one instant and the clock has three, the least in which an old
copy can be brought back after its row was replaced. Four operations are a purchase
before the attachment, a sale and a purchase after it, and a deposit on either side. Two
loads and a refresh are one load that overlaps and one that follows. Two days with a lag
of one are a past and a present; the swings sit on both sides of every threshold.
A bond far above its peers, between a row taken with 13 percent and one with none, is the
widening the tax makes. The
queries use every filter and every kind of sort key; pages of two rows cut lists of four.

Deadlock is checked in every run but Portfolio and Market. In those the behaviours end:
a plan is computed and is done, a reading of a page list or of an account history stops
at its bound of turns, and the clock of the caches at `MaxTime`. Symmetry is used for
payment ids, alerts, portfolios, accounts, bonds and goroutines, in runs without
liveness. The goroutines of BillingLive are interchangeable too, but symmetry is not
sound under its temporal properties and is not used there.

Each property is also run against a mutant: a definition with a plausible bug
(the commented operators next to the real ones), under which TLC must find the
property violated.

## 4. Fairness

* API goroutines (`WF` on each): the Go scheduler runs every goroutine, every
  gateway call has a timeout of 20 s; a goroutine that dies is an `Abort`, which
  is bounded by `MaxFaults`.
* The renewal cycle (`WF` on `RenewDue`): the ticker of `cmd/notifier` fires for
  ever and a cycle ends or returns an error.
* Webhooks (`SF` per payment): the provider repeats a notification until it is
  answered with 200; strong, because a delivery needs a free goroutine.
* Delivery: `WF` on the notifier's cycle and on the consumer's loop. When the API
  restarts or a write of the consumer fails, arrival is not guaranteed, which
  is what DeliveryStranded shows; `DetectedReachesInbox` says that this is the only
  exception: the consumer was not started again, or it had been given the entry
  and had not written it.
* Nothing is assumed of users, prices, the market or the provider's decisions.

`DetectedIsPushed` assumes, inside the property, that access and attachment are
there for good from some point: the code pushes only while they are.

## 5. The proofs

Eight modules prove what follows for all values of the constants, under the named
`ASSUME`s of the modules they extend, which TLC evaluates in every run of those modules.
A theorem about an instance of a suite (MCNotifier, MCPortfolio, MCMarket) is about that
instance's own specification. The assumptions are of two kinds. Markers (`None`, `Idle`,
`NoRow`...) are none of the values they stand beside. And parameters are what
the code's are: prices, lengths and bounds are naturals, a time to live is positive, the
sets of watched bonds and of alerts are finite, a plan's days are integers and its
positions are open when it begins, shares and minima are naturals (two that the code
divides by, or that it counts from, positive), a list has distinct ISINs (the exchange's
is read into a map by ISIN, `moex/client.go:326`), a page has a size, the papers of an
account are finitely many and the plan's are among them.

| properties | proved in |
|---|---|
| money and subscriptions | BillingProofs |
| ledger, stream and pushes, the bot's updates and switches | DeliveryProofs |
| sessions and orders | DeployProofs |
| portfolio rows and account links, tokens, risk baselines | AccountsProofs |
| positions, purchases and caps of a plan | PortfolioProofs |
| profit, advice | TradingProofs |
| layers of the bond caches | UniverseProofs |
| the key rate, the screener, the two readings of the market | MarketProofs |

### Billing

`BillingProofs` proves for all values of the constants (any number of owners,
payments, goroutines, releases, faults; any lengths and prices):

| theorem | property |
|---|---|
| `TypeCorrect` | `TypeOK` |
| `MoneyIsCaptured` | `DebitOnlyCaptured`: no row says succeeded and no debit exists without money captured in the row's amount |
| `PlanIsBought` | `SubscriptionIsBought`: the plan of a subscription was bought, through every stale save |
| `RenewalIsGrandfathered` | `RenewalAtBoughtPrice` |
| `ContractIsImplemented` | `ImplementsContract`: initial states map to initial states, each step to a step or a stutter |
| `BookedOnce` | `AppliedAtMostOnce`, as long as no two goroutines handle the same payment (`[]OneHandler`) |
| `RecordedIsApplied` | `SucceededIsApplied`: without faults and redeployment a recorded payment is booked or on its way, also when handlers overlap |

Assumptions: the named `ASSUME`s of the modules (prices and lengths are naturals,
lengths and grace are not zero, the markers `NoSub`, `NoRow`, `NoTime`, `None`
are none of the values they stand in for, the current plan of a release is a plan
version). TLC evaluates them in every billing run.

None of these properties is inductive: whether a handler may write "succeeded"
depends on what it has read. The inductive invariant `Inv` adds

* `RowsInv`: the provider knows only payments with a row, in the row's amount, and
  a renewal row asks for a version its owner has bought;
* `FrameInv`: what each frame may still write. A frame about to record success or
  to apply holds a captured payment; a frame about to save a subscription holds
  a copy whose plan was bought; a list of due subscriptions contains only such;
* `ChargeOnce`: two frames never send the same row to the provider;
* `NotifierRenews`: the notifier runs nothing but `RenewDue`.

The argument that makes it inductive is monotonicity: once captured a payment stays
captured (`prov` never leaves succeeded), a row never changes owner, plan, amount
or purpose, so `Bought` only grows and a stale copy, however old, still names a
plan that was bought. `ApplySuccessfulPayment` yields either the payment's plan
(captured, not a renewal: bought) or, for a renewal, the plan the row had, which
the invariant says was bought. There is one lemma per action, `NextInv` joins
them, and the temporal theorems follow from `InvHolds`.

The last two theorems rest on the order inside a handler: `UpdatePayment` comes first and
the debit last. So a row that says succeeded has been booked, or exactly the frame that
wrote it is still going to (`Booked`, `Applied`). A frame that found its payment unrecorded
and has not written yet can be overtaken only by another frame on the same payment:
`OneHandler` rules that out and is what BillingOverlap (section 6) violates. The
other direction needs no such hypothesis, since an overlap only books more.

### Delivery

`DeliveryProofs`, for any alerts, portfolios, cooldown, batch size and faults:

| theorem | property |
|---|---|
| `DeliveryInvariant` | the inductive invariant, below |
| `PublishedIsKept` | `MarkedIsPublished`: what the ledger marks as published was put on the stream |
| `RepeatsArePaid` | `RepeatsAreFaults`: each second push or publication within a cooldown has cost a fault of its own |

Each property is true because of something that lies between two writes, and the invariant
names it: a frame about to mark an alert has written it (`WrittenFirst`), a payload
restored from the ledger comes from a row a fault left behind (`FullWithoutFault`), and a
push that was not marked is a repeat still to come, already paid for (`RepeatsPaid`).

### The bot's inbox

The second half of `DeliveryProofs`, for any number of users, updates, restarts and failures:

| theorem | property |
|---|---|
| `InboxInvariant` | the inductive invariant, below |
| `LetGoHasEffect` | `LetGoIsDone`: an update Telegram has let go of has had its effect, but for the three ways out |

Telegram holds a stretch of updates without gaps, and the batch is a stretch of those from
the first one the offset asks for (`IdsInv`). So what lies below the offset has had its
effect. After a restart older updates are handled again and may turn a row back on; then a
later switch of the same user lies at or above the offset (`Open`) and comes again
before Telegram lets go of it. `LastStands` ties the last switch held to what the user wants.

### Sessions and orders

`DeployProofs` proves for any number of bonds, sessions, orders, goroutines and
requests:

| theorem | property |
|---|---|
| `TypeCorrect` | `TypeOK` |
| `OrdersAreOwn` | `ItemOrderIsItsOwn`: an item carries an order posted for that very item, or none |
| `CompletedIsDone` | `CompletedHasNoPending`: a completed session holds no pending item |
| `OneActiveSession` | `SingleActiveSession`: without overlap at most one session is active, also when a creation dies between closing and saving |
| `OrderedIsNotOffered` | `OfferedIsUnordered`: without overlap, loss and refresh an item whose order is open is not offered |

The two in the middle are about rows, and rows are written from copies read long before, so the
invariant `Inv` says the same (`GoodRow`) of every copy a frame may still write
(`FrameInv`), and of a frame that has posted an order that the broker knows it for
that item (`Posted`). The argument: an order never changes its item
(`OrdersEvolve`), so a good copy stays good while it waits (`GoodStays`), and every
rule makes good rows of good ones (`CompleteGood`, `SyncGood`, `StalenessGood`,
`MarkGood`, `FrozenGood`, `RebuiltGood`, `CancelGood`). The assumption
`SessionAssumption` keeps the marker `None` apart from the values it stands in for.

The last two hold while `disturbed` says nothing of what they exclude. Then at most one
goroutine is at work (`Lone`), so what a frame has read is still true when it writes:
a frame that will leave its session active knows every other to be inactive
(`SerialFrame`), and an order whose item is still offered belongs to the one frame that is
about to mark it (`OfferInv`). Two facts about the code carry the second: the list of
orders that advice takes holds open ones only (`ListsOpen`), so no item goes back to
pending, and a session's rules never add to the pending items except in a refresh.

### Portfolios and accounts

`AccountsProofs` proves for any number of portfolios, accounts, bonds, goroutines,
requests and faults:

| theorem | property |
|---|---|
| `AccountsInvariant` | `IInv`, below |
| `AccountsTyped` | `TypeOK` |
| `ForecastFollowsAccount` | `ForecastIsOfAccount`: no row keeps the frozen forecast of another account |
| `OnePortfolioPerAccount` | `AccountLinkedOnce`: two portfolios on one account only after a raced save or a failed link query |
| `ClosedAccountsAreFree` | `ClosedIsUnlinked`: nobody trades on an account deleted with its portfolio, under the same exceptions |
| `OnlyRacesResurrect` | `DeletedStaysDeleted`: only the save of an outdated copy brings a row back |

`IInv` adds what a goroutine that is not stale may still rely on (`Current`): its copy
is the row; after a check its account is free but for its own portfolio; after a snapshot
its account was not removed; a portfolio found on an account is the only one, and none is
left once it is deleted. Two facts carry the proof. `ReadOnlyOthers`: a step that writes
no row leaves every other goroutine with what it knew. `WriteOthers`: a step that writes
row `p` and account `a` only (`WritesOnly`) makes everybody stale who had read either,
and can only take links away from other accounts, so whoever is still fresh is still
right. Each action then needs to show only what its own goroutine learns. The
assumptions are `DistinctNone`, `Bounds` and `NoRowIsNone`: markers are not ids or rows,
and the bounds are naturals.

### Tokens and risk baselines

The second half of `AccountsProofs`, for any number of handlers, tokens, writes, bonds,
moves of the market, requests and failures:

| theorem | property |
|---|---|
| `TokenInvariant` | the inductive invariant of rows, caches and calls |
| `TokenOpens` | `StoredOpens`: a stored token opens, unless two writes overlapped or a read failed |
| `TokenIsRecent` | `ServedIsRecent`: a token replaced or deleted is served no longer than its time to live allows |
| `RiskInvariant` | the inductive invariant of the risk watch |
| `WorseningReachesInbox` | `WorseningIsTold`: a worsening a scan has seen to its end is in the inbox, but for the four ways a baseline is lost |

Tokens: a lone writer still finds the row it read, and a row is sealed for its own id
(`SealInv`); a plaintext copy is no older than the call that cached it plus its time to
live (`GoodCopy`, `GoodCall`). Risk: the row is written whole by a scan and by a
request, so the invariant says what either copy may still differ in from the row
(`ScanCopyStands`, `RequestCopyStands`), that one of the two is current (`OneIsCurrent`),
and that an alert for every accepted state that is worse is in the inbox or in the scan's
list (`OnItsWay`). The assumptions are `TokenAssumption` and `RiskAssumption`.

### Plans

`PortfolioProofs`, for any portfolio, universe, cash, horizon, profile, shares and minima:

| theorem | property |
|---|---|
| `PlanInvariant` | the inductive invariant of the events of a simulation |
| `EveryPositionEndsOnce` | `PositionsEndOnce`: a position that ends by the horizon was redeemed once, on its last day, with exactly its coupons |
| `CashInvariant` | the inductive invariant of the deployments of a simulation |
| `SpendsNoMoreThanThereIs` | `SpendsWithinCash`: no deployment allocates more than its cash pays for |
| `CapsAreKept` | `CapsHold`: `AutoCompose` keeps to the shares of a position, a sector and an issuer |

Positions: an event carries a number that is unique with its kind and day
(`QueueInv`), so the queue has exactly one first event (`FirstIsFirst`, by the
well-founded order of subsets); a position is either held to the end with nothing queued
and nothing paid, or what was paid and what is queued make up its coupons (`CouponsInv`),
and it is either open with its redemption queued or closed with one entry
(`RedemptionInv`). Since a redemption comes after the coupons of its day and of every
earlier one, none is left in the queue when it closes the position.

Cash: the properties are about sums over a universe, and each step of a deployment changes
one term. `Total(w, S)` is such a sum as the value of one function on the subsets of `S`.
That the function exists, that its value does not depend on the order in which elements are
taken out, and that it is the fold the model uses, is shown for one `w` and one `S` at a
time by a smallest subset for which it fails: a set, where an induction theorem would need
an operator. With it the invariant of a frame (`FrameInv`) is arithmetic. In the loops that
compose, what is left and what the picks are worth are the budget (`MoneyOK`); in the loop
that allocates, what is paid so far is the sum over the bonds passed (`Passed`, `Terms`);
in the sweep, what the allocations cost is what was spent. A cap is tested against what is
held and picked of a sector or issuer when a pick is made, and picks of other bonds only
add to other groups (`CapsOK`). `CashInv` carries this from one deployment of a plan to the
next. The assumptions are `PlanAssumption` and `CashAssumption`.

### Profit

`TradingProofs`, for any bonds, prices, deposits, and a history of any length:

| theorem | property |
|---|---|
| `EpisodeInvariant` | the inductive invariant of the history since the attachment |
| `ProfitIsWhatWasEarned` | `ProfitIsEarned`: the profit is what the account is worth, all its bonds counted, less what it was worth at T0, its bonds at cost, and what was put in since, where every bond held now or then is in sight |

The code goes backwards from the account as it is; the proof goes forwards with the
history, one operation at a time. Each step adds one operation, so each sum over the
operations since T0 (cash received, deposits, lots bought, lots sold) grows by one term or
not at all (`SumsGrow`, with the same `Total` as for plans). What the operations say was
bought of a bond, and what it cost, is what there is (`LotsAre`), until the bond is redeemed,
which no trade undoes. And the lots now, walked back over the trades since T0, are those of
T0, or fewer if the bond was redeemed since (`LeadsTo`): a redemption takes lots that the
code does not put back. So a bond that had no lots at T0 is never found to have had any, and
one that had some, is still in sight and was not redeemed is found with all of them; all
of them at their average cost is what they had cost. The recursion that follows the cost
has one solution (`Bought`, by a smallest place where two differ). The assumption is
`EpisodeAssumption`.

### Advice

The last part of `TradingProofs`, for any market, account, plan, budgets and turns:

| theorem | property |
|---|---|
| `AdviceInvariant` | the inductive invariant of a session's items |
| `ItemsStayApart` | `ItemsAreDistinct`: an item's id names one item, two positions of a plan in one bond aside |
| `AdviceIsGiven` | `AdviceIsNeverMuted`, an action property: an answer has something to buy unless nothing computed afresh would |

An id is made of the kind and what is bought, or of the position that is reinvested. A
deployment allocates each bond once: `Merge` adds to an allocation there is, so the bonds of
a frame's allocations differ (`Allocations`) through all phases, and the model's recursion
over frames has a solution (`Frames`, by a smallest step without one). A reinvestment has
the id of its source, each bond held is one position, and planned positions not held are the
exception named. Staleness, skipping, ordering and filling touch neither offer nor id
(`SameItems`), so what is apart when a session is built stays so. Advice looks at the session
twice in one answer: an item not stale at the first look is not stale at the second, when
day and quotes are the same, so a session that is still active after both has a pending
item to offer, and it is for buying (`BuysOnly`); a session that is not makes the answer a
fresh one. The assumption is `AdviceAssumption`: the plan and the universe are sequences, the
latter with distinct ISINs.

### Caches

`UniverseProofs`, for any goroutines, lifetimes, loads, refreshes, clears and faults:

| theorem | property |
|---|---|
| `UniverseInvariant` | the inductive invariant |
| `AgesAddUp` | `UniverseAgeBounded`: what is served is no older than the lifetimes of its layers together |
| `InvalidationHolds` | `InvalidationIsSeen`: after an invalidation nothing older is served, loads then under way aside |
| `OffersSurvive` | `OffersKept`, an action property: no step loses the offers the file remembers, but those it names |

A load carries data from file to memory while others rename the file and requests
clear both, so the invariant bounds the age of the data of every load in flight, says
that no completed refresh or clear is newer unless the load is marked late, and that it
still has the file's offers unless the file has changed (`GoodJob`).

### The market

`MarketProofs`, for any processes, readings and failures of the rate, any lists, queries
and page sizes, and any markets, portfolios and thresholds:

| theorem | property |
|---|---|
| `RateInvariant` | the inductive invariant of settings, memory and calls |
| `RateWasInForce` | `RateIsRecent`: the rate in use was in force within the time to live |
| `ChangesAreAnnounced` | `ChangesAreTold`: a stored change has been announced, or the failure it names has come between |
| `ScreenInvariant` | every page sent is cut from one order of the load it was read from |
| `SaferNeverComesLater` | `SaferComesFirst`: of two bonds of one yield the riskier does not come first |
| `PagesLoseNothing` | `PagesAreTheList`: the pages of one load are its list, each bond once, in the order of scores |
| `RadarInvariant` | each stored spread follows from its yield and rates, and what a scan and a run told from the rows they read |
| `WideningsAreReal` | `WideningIsReal`: a reported widening is that of the yields, but for exactly what the rates made of the rows |
| `ReadingsNeverDiffer` | `ReadingsAgree`: the scan's turbo entries and the radar's dip ideas are the same holdings, where neither lost a row |

The rate: it travels with the time it was fetched, and the invariant says of every such
pair that the rate was in force then (`Sound`). Saving and loading tear a pair, but into a
new rate beside an older time, which does no harm; the other way round is what `damaged`
records. The screener: bonuses fall and penalties rise with risk, each by its table
(`Bonuses`, `Grades`), and what a score is made of else is the same for two bonds of one
yield; the order of a list is a sequence that lists each bond once and is cut into
intervals that meet (`CutsAt`). The readings: whatever was written or not, every row's spread is
its yield less the key rate, net of the tax it notes (`RowSound`), so between two rows of a bond
the spread moved as the yield did and by what the rates made of the two (`SpreadFollowsYield`).
A median is defined by how many values lie on either side (`IsRanked`), so if each peer's rise is
at most its change of spread less the least that any peer owes to the rates, so is the median
(`Under`, `MedianBound`). The scan and the radar take medians of the same peers, and what they
keep of earlier days is the same row of the table (`PastIs`); that they have the same prices of
today is no fact about the code but the premise the property names (`BothSee`). The
assumptions are `MarketAssumption`, `ScreenAssumption` and `RadarAssumption`.

### What the proofs changed

An invariant that would not go through was each time a fact about the model.
`WorseningIsTold` was false for a bond sold and bought again: the worsening is measured
from the new baseline, so the history variable now begins anew with it. The risk model
allowed two requests where the bound says one at a time. `Buy` took any allocation; the
code passes over a bond that is not in the universe or has no price, and so does the model
now. `OffersKept` had an excuse, and `SucceededIsApplied` a premise (no overlap), that
neither needs. The ages of copies add up only if a time to live is positive, which is now
an assumption. `ItemsAreDistinct` was false, as no run showed, for a plan with one bond
twice (section 7), which is now in the run and in the property. `AdviceIsNeverMuted` is an
action property, of the step that answers, rather than an invariant that had to remember
the session before it.

Other definitions were rewritten to be reasoned about, with the same meaning: what a list
keeps of another is a set of its places (`Among`) instead of a filter and a fold; pages are
intervals of places; a deployment in Advice is one recursive function; the ideas for a dip are
a set of choices, since `sort.Slice` is not stable and ties may fall either way; the k-th
yield of a list is found by counting (`Reached`, `YieldAt`) instead of sorting; what a bond
has cost is a recursive function of the place in the history, and multiplied before it is
divided, so prices need not divide evenly (the run takes 7 and 16); an export is one guard
of the request.

### Only model-checked

* Liveness (`CapturedIsRecorded`, `EndedPeriodExpires`, `DetectedReachesInbox`,
  `DetectedIsPushed`) rests on fairness and `ENABLED`, outside the prover's reach.
* `PlanAddsUp` compares a finished plan with itself: a slot's cash with a sum over the
  entries that come before it in the finished journal, in an order that moves an entry
  next to its like (`Place`), and the chart, a line from cost to redemption for each
  position, with the totals. The sums are over sets, so `Total` would serve, but the
  invariant has to follow each slot from its deployment to the end of the plan, and it
  holds for positive lots and costs only. It has not been proved.
* The four properties of section 6 are false.

No module uses `RECURSIVE` operators.

## 6. Where the code and its comments disagree

Each run checks one property and TLC finds it violated.

* **BillingOverlap** (`AppliedAtMostOnce`): `service.go:346` calls the early return
  on a succeeded row idempotent. It is, for deliveries one after the other. Two at
  the same time both read pending, both apply, and the debit is booked twice.
* **BillingDoubleCharge** (`OneOpenRenewal`): "pending — leave; webhook will finish"
  (`service.go:550`), but the next cycle charges again under a new key, which
  contains the time of the cycle.
* **DeliveryStranded** (`PublishedIsOnItsWay`): the "outbox for delivery guarantees"
  (`ledger_repository.go:15`) ends at the stream; what the consumer was given and
  did not write is never read again.
* **DeployCancelled** (`FilledIsExecuted`): `deploy_session.go:387` "updates placed
  items from broker order statuses", but the client's list holds open orders only
  (`tinvest/orders.go:189`), so the branch for cancelled orders never runs: an order
  missing from the list counts as executed, also when it was cancelled.

## 7. What else the models show of the code

No comment or test of the repository says otherwise of these, or no run of its own is
kept for them. The properties name them as exceptions where they touch one.

Billing. Dying between `UpdatePayment` and `SaveSubscription` (`service.go:364`) loses a
paid period: the row says succeeded and no retry applies it (`SucceededIsApplied` is
checked without faults). A declined renewal is answered with status canceled, not with
an error, so the subscription never becomes past due (`service.go:538`).

Bot. The limiter of support messages is empty after a restart; an operator's reply is
sent once; a replayed message is relayed twice. A message to support may be neither relayed
nor refused aloud: the error of sending the refusal is dropped (`bot_inbox.go:166`, `181`). So
is the error of `MarkBotDisconnected` (`141`, `151`), and switching off on the settings page while a
/start is not yet confirmed is undone by the replay.

Portfolios. `Save` is an upsert of the whole row, and looking at a plan saves too
(`plan_use_case.go:128`): a request based on an older copy undoes an attach or a detach
and brings a deleted portfolio back. `ClearAccountForAttach` closes an account that
another portfolio may trade on. `AttachAccount` computes the frozen initial amount before
it sets `TradingStartedAt` (`order_use_case.go:229-247`).

Planner. The sweep knows no sector or issuer cap, although `policies.go:265` describes
both, and opens a position beyond the limit `auto_compose.go:437` states. A position the
simulation buys is numbered in one list and keeps the number 0 in the other, so the
lookup at `plan_builder.go:295` never finds its estimate and the chart ends at face value
instead of the plan's final value. `TotalInvestedRub` counts the first positions of a
simulation twice; a seed of a real account, of a later generation, or bought after today is in
the chart and is never paid for. A bond without a maturity that is not put is worth 0 on the
horizon (`plan_builder.go:308`) while the totals count its estimate. Positions held past the
horizon get no coupons. Redemptions of one day
share one deployment, and only the first names its confirmed replacement. The
reinvestment of coupons every thirty days (`README.md:14`) is not in the code.
`ClearSlotOverride` and `PruneStaleSlotOverrides` work on copies.

Advice and profit. `AddPosition` does not ask whether the plan has the bond
(`portfolio_service.go:173`), so two positions of one bond, once redeemed, give two items
with one id, and an order for the second marks the first. An initial bond that was never
bought, or has been redeemed, is pending again and advised for ever. A replacement is
suggested in the lots of its source whatever it costs. `EpisodeCapital` loses the cost of a
bond held at the attachment and later sold out or redeemed, so the profit is overstated.
`GetPerformance` builds its positions from an empty universe, so the profit it shows misses
every bond held (`advise_use_case.go:196`); `ProfitIsEarned` names this as bonds out of
sight. An exercised put is a maturity again once its window has closed.

Risk. A baseline is lost in four ways, which `WorseningIsTold` names. A failed fetch of a bond
outside the universe makes a held bond look sold. An older copy of the row takes the baseline
with it. The error of the scan's save is dropped (`scan_use_case.go:171`), so a first baseline is
taken again at the next scan, whatever the bond is worth by then. And a scan that finds nothing
held returns before it clears the baselines (`131`), so a bond sold and bought back is compared
with the baseline of its earlier holding. A fingerprint is delivered once ever.

Market. A fetch that fails without a stored rate caches the configured fallback for a
whole time to live; a stored rate loaded before a failed fetch is served and never
announced (`key_rate_service.go:105`). Two saves of the universe share one temporary
file. A load in flight puts old data back after a refresh or a clear. The disk copy of
the broker's data counts as new in RAM. A failed read of past spreads yields an empty run that
replaces the last. The rows of spreads are written with two tax rates, and net yields differ by
a factor (`scorer.go:347`), not by a constant: a bond of 60 next to peers of 20 whose rows of a
week ago are the radar's (13 percent) and today's the owner's (none) is said to widen by more
than five points while no quote moves. A row that is not written (the errors of `Upsert` and of
the reads are dropped, `scan_use_case.go:202`, `214`, `scan_radar_use_case.go:84`) stays as
another scan left it: a move of the key rate within the day is then a widening too, and the
portfolio's scan, which reads its rows back, differs from the radar, which goes by its memory.
`WideningIsReal` and `ReadingsAgree` name these cases.

Screener. The score shown uses a page's scale of durations, the order the whole list's; a
score of 0 is shown as the normal profile's (`serializers.go:67`). Without `sort_by` and
`sort_desc` the worst come first (`bonds_query.go:65`). A bond without a known grade has a
bonus of 0, more than a low grade. A reload between pages repeats or drops bonds.

Credentials. Two overlapping `Put`s, or one whose read failed, leave a row sealed for
another id (`broker_credentials_repository.go:110`), which nothing can open. A probe may
write an old token's rights onto a new row. An empty list of accounts is stored as
"read-only".

## 8. Abstractions, and what is left out

Billing. The status `canceled` of a subscription is tested and never assigned, so
it is in the type and never occurs. Amount and owner mismatch in the webhook
(`service.go:355-361`) cannot occur: the provider returns what it was sent. The
idempotency lookup at `service.go:498-504` never finds a row, since the key
contains the second of the cycle and a cycle visits a subscription once. The
provider's `waiting_for_capture` is pending (payments are sent with capture), and
paid is true exactly when a payment has succeeded. A checkout can be paid only
after its row was updated, because the user gets the address of the page only
then. A payment method is a Boolean: the code only tests it against "". Access is
not indexed by feature: all plan versions sold grant the same features. A plan
version is never deleted (the seed only inserts and switches `is_current`).

Delivery. Urgency, wording, the radar scan and the alert rules are an arbitrary set
of alerts. Owner opt-in, subscription and the broker account are two switches
(`gate`, `attached`) that flip at any time. `ON CONFLICT` is by fingerprint. An
XREADGROUP whose answer is lost is a restart of the API directly after it.
The ledger's rows are never deleted by the running processes.

Sessions. `PARTIALLYFILL` is as open as `NEW`, `REJECTED` as final as `CANCELLED`;
the status `expired` is declared and never assigned. Prices, lots and amounts are
left out: which bonds a plan proposes, and which pending items drift or become due,
are arbitrary sets. The two passes of one request for advice see the same prices
and the same day. The broker's list of open orders agrees with its orders at the
moment it is taken. Orders without an item touch no session and are left out.

Portfolios. A row keeps its mode, account, forecast, bonds and confirmed slots. An edit
is one load and one save, with the broker calls some of them make folded into a failing
save. Trading holdings are the broker's and not in the row. An account id is never reused.

Planner. Bonds come in the order of their score (the screener's matter), money is whole
units, tax and prices are small integers, a day is a number. Rounding is the code's,
in integers. Scenarios of rates only change the order and the limit of duration.

Advice. One request at a time: the races are in DeploySessions. Limit prices are written
as the market price they were derived from. TradingEpisode counts an operation once per
bond and day, in bonds; the history fits in the look-back window.

Risk, market. An alert is its kind and its bond. Quotes and spreads are in half points, so
that medians are whole. Redeployments of the tables and the text of anything shown are
left out. A load of the universe takes less than `MaxLoad`, a call less than a tick.
A copy in a cache that is past its time is never used again, so the clock's step drops it
(a plaintext token, a layer of the universe); the file of bonds stays, because its offers
outlive it. A process starts with or without the T-Invest flags an earlier one left on disk.

Screener. Yields are in hundredths, scores in thousandths: a score that differs by less
in floating point may be a tie here. The logarithm of the volume is data.

Credentials. Sealing is ideal: a token opens under the id it was sealed for and under no
other. The two account kinds do not interact, so there is one.

Not modelled: Telegram login and sessions and the ciphers (no state that interleaves);
previews, forecasts and scenario figures (read-only arithmetic); the sale of a position (one
order outside every session); favourites and saved filters (single writes); routing,
parsing, formatting, configuration and logging; the frontend, which the server does not
trust; the deployment tool, except for the redeployment it causes.
`domain/portfolio/scoring.go` is not called by the program.

## 9. The plan

1. A proof of `PlanAddsUp`: the cash of each slot as a sum over the journal, through all
   later entries.
2. An abstract `Outbox` specification (detected, visible, pushed) implemented by
   `NotificationDelivery`, an abstract life cycle of an item (offered, ordered,
   done) implemented by `DeploySessions` for serial requests, and an atomic portfolio
   store that `PortfolioAccounts` implements while nothing has raced.
3. The previews and the trading forecast over PlanSimulation.
