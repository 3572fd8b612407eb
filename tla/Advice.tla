------------------------------- MODULE Advice -------------------------------
(***************************************************************************)
(* Trading advice: what the owner of a trading portfolio is told to buy.   *)
(* Free cash is deployed by DeployCash, a position that has ended is       *)
(* reinvested, one that ends soon is watched, a put offer is reminded of.  *)
(* While a deploy session is active its pending items are offered instead  *)
(* of what would be computed afresh: advice compares them with the market  *)
(* and the calendar, and a session it finds done offers nothing more.      *)
(*                                                                         *)
(* One request at a time: DeploySessions has the races, this module what   *)
(* an item is.  An open order is in the broker's list, one that was filled *)
(* or cancelled is not.  A limit price is written as the market price it   *)
(* was derived from, which impliedMarketPricePct finds again.              *)
(***************************************************************************)
EXTENDS CashDeployment, TLC

CONSTANTS
  Bonds,           \* the universe, a sequence of bonds in the order of their score
  Planned,         \* INITIAL positions of the plan: [bond, lots, decision]
  Account,         \* the account at first: [lots, money]
  Quotes,          \* bond -> what a lot of it may cost, 0 without a quote
  Horizon,
  MinBuyCash,      \* minBuyCashRub
  ReinvestWatch,   \* reinvestWatchDays
  OfferReminder,   \* PutOfferReminderDays
  ReinvestmentGap, \* ReinvestmentGapDays
  DriftStale,      \* PriceDriftStalePct
  Budgets,         \* ExpectedCashRub of a plan's slot
  Rounds,          \* bound on the steps of a deployment
  MaxDay, MaxTurns

VARIABLES
  today,
  quote,        \* bond -> price of a lot
  lots, money,  \* the account
  orders,       \* open orders: [id, isin, lots, cost]
  session,      \* the portfolio's newest session [status, items], or NoSession
  shown,        \* suggestions of the last answer, while nothing has happened since
  turns

vars == <<today, quote, lots, money, orders, session, shown, turns>>

-----------------------------------------------------------------------------
(* Positions. *)

Universe == [k \in DOMAIN Bonds |-> [Bonds[k] EXCEPT !.lot = quote[Bonds[k].isin]]]

Input == [universe |-> Universe, horizon |-> Horizon, profile |-> "normal",
          apiOnly |-> FALSE, guarded |-> FALSE]

\* HoldingsToPositions, PositionFromBond: the owner's decision is not known of a
\* bond that is held, and an offer that cannot be used any more is left out.
Adopted(b) ==
  [bond |-> [b EXCEPT !.offer =
               IF @ # None /\ @.date >= today /\ ~BuyBlocked(b, today) THEN @ ELSE None],
   lots |-> lots[b.isin], decision |-> "pending"]

\* A planned bond that is not held, whether it was never bought or is gone.
EffectivePositions ==
  LET held == Among(Universe, {k \in DOMAIN Bonds : lots[Bonds[k].isin] > 0})
      gone == Among(Planned, {k \in DOMAIN Planned : lots[Planned[k].bond.isin] = 0})
  IN [k \in DOMAIN held |-> Adopted(held[k])] \o gone

\* PositionPlansPutExit with AssumeBestPutOutcome off, and PositionEndDate.
PlansPutExit(p) ==
  /\ p.decision = "exercise" /\ p.bond.offer.price >= p.bond.face
  /\ OfferWindow(p.bond.offer, today) \in {"unknown", "not_open", "open"}

EndDate(p) ==
  IF p.bond.offer # None /\ p.bond.offer.date <= Horizon /\ PlansPutExit(p)
  THEN p.bond.offer.date ELSE p.bond.maturity

-----------------------------------------------------------------------------
(* Suggestions: [kind, isin, lots, price, source, due]. *)

Available == money - MapThenSumSet(LAMBDA o : o.cost, orders)

\* BuildBuySuggestions; Rounds bounds the steps of the deployment.
Deployed ==
  LET frame[n \in 0 .. Rounds] ==
        IF n = 0 THEN Deploy(Input, today, Available, lots, None)
        ELSE LET f == frame[n - 1] IN IF f.phase = "buy" THEN f ELSE DeployStep(Input, today, f)
  IN frame[Rounds]

BuyOf(f) ==
  [k \in DOMAIN f.buys |->
     [kind |-> "buy", isin |-> f.buys[k].isin, lots |-> f.buys[k].lots,
      price |-> quote[f.buys[k].isin], source |-> None, due |-> None]]

\* Rounds is enough.
Completes(f) == Assert(f.phase = "buy", "Rounds is too small")

BuySuggestions ==
  LET f == Deployed
  IN IF Available >= MinBuyCash /\ Completes(f) THEN BuyOf(f) ELSE <<>>

\* The bonds of which the expected cash pays for one lot (BudgetRub), selected for
\* the day of the purchase.
Affordable(p, budget) ==
  LET cash == IF budget = None THEN p.lots * p.bond.face ELSE budget
      paid == {k \in DOMAIN Bonds : quote[Bonds[k].isin] <= cash}
  IN Selected([Input EXCEPT !.universe = Among(@, paid)], EndDate(p) + ReinvestmentGap)

CanReinvest(p, budget) ==
  EndDate(p) + ReinvestmentGap <= Horizon /\ Affordable(p, budget) # <<>>

\* The best of them; as many lots as the source has, whatever they cost.
Reinvestment(p, kind, budget) ==
  LET best == Affordable(p, budget)[1]
  IN [kind |-> kind, isin |-> best.isin, lots |-> p.lots, price |-> best.lot,
      source |-> p.bond.isin, due |-> EndDate(p)]

\* buildReinvestSuggestionsForPositions, for positions that end in so many days.
ForPositions(days, kind, budget) ==
  LET all == EffectivePositions
      due == {k \in DOMAIN all : /\ EndDate(all[k]) # None /\ EndDate(all[k]) - today \in days
                                 /\ CanReinvest(all[k], budget)}
      ending == Among(all, due)
  IN [k \in DOMAIN ending |-> Reinvestment(ending[k], kind, budget)]

ReinvestSuggestions(budget) == ForPositions({d \in Int : d <= 0}, "reinvest", budget)

ReinvestWatches(budget) == ForPositions(1 .. ReinvestWatch, "watch", budget)

\* PutOfferActionRule and PutOfferWatchRule
SubmitDue(p) ==
  /\ p.decision = "pending" /\ OfferWindow(p.bond.offer, today) = "open"
  /\ p.bond.offer.end - today <= OfferReminder

AwarenessDue(p) ==
  /\ OfferWindow(p.bond.offer, today) \in {"unknown", "not_open"}
  /\ p.bond.offer.date - today <= OfferReminder

Reminder(p) ==
  [kind |-> IF SubmitDue(p) THEN "put_offer" ELSE "put_watch", isin |-> p.bond.isin,
   lots |-> p.lots, price |-> p.bond.offer.price, source |-> None,
   due |-> IF SubmitDue(p) THEN p.bond.offer.end ELSE p.bond.offer.date]

Reminders ==
  LET all == EffectivePositions
      told == Among(all, {k \in DOMAIN all : SubmitDue(all[k]) \/ AwarenessDue(all[k])})
  IN [k \in DOMAIN told |-> Reminder(told[k])]

Fresh(budget) == BuySuggestions \o ReinvestSuggestions(budget)

-----------------------------------------------------------------------------
(* Sessions. *)

\* itemKey; an item's id is the hash of its session, its kind and this key.
\* mutant: the key of a reinvestment is what is bought
BoughtKey(s) == <<s.isin, None>>

ItemKey(s) == IF s.kind = "reinvest" THEN <<s.source, s.due>> ELSE <<s.isin, None>>

Actionable(suggestions) ==
  {k \in DOMAIN suggestions : suggestions[k].kind \in {"buy", "reinvest"}}

\* BuildDeploySessionPlan, SuggestionToSessionItem
SessionOf(plan) ==
  [status |-> "active",
   items |-> [k \in DOMAIN plan |->
                [offer |-> plan[k], id |-> <<plan[k].kind, ItemKey(plan[k])>>,
                 status |-> "pending", order |-> None]]]

BuiltSession == SessionOf(Fresh(None))

Pending(s) == {k \in DOMAIN s.items : s.items[k].status = "pending"}

NoSession == [status |-> "none", items |-> <<>>]

IsActive(s) == s.status = "active"

\* mutant: a session whose items have gone stale is not complete
CompleteUnlessStale(s) ==
  IF IsActive(s) /\ s.items # <<>> /\ \A k \in DOMAIN s.items : s.items[k].status \notin {"pending", "stale"}
  THEN [s EXCEPT !.status = "completed"] ELSE s

CompleteIfNoPending(s) ==
  IF IsActive(s) /\ s.items # <<>> /\ Pending(s) = {}
  THEN [s EXCEPT !.status = "completed"] ELSE s

\* SyncSessionWithOrders: an order that is not open any more counts as filled.
Synced(s) ==
  CompleteIfNoPending([s EXCEPT !.items = [k \in DOMAIN @ |->
    IF @[k].status = "placed" /\ @[k].order \notin {o.id : o \in orders}
    THEN [@[k] EXCEPT !.status = "filled"] ELSE @[k]]])

Drifted(item) ==
  LET was == item.offer.price now == quote[item.offer.isin]
      drift == IF now > was THEN now - was ELSE was - now
  IN 100 * drift >= DriftStale * was

\* ApplySessionStaleness
Stale(item) ==
  \/ /\ item.offer.kind = "reinvest"
     /\ item.offer.due > today \/ item.offer.due + ReinvestmentGap < today
  \/ quote[item.offer.isin] = 0
  \/ Drifted(item)

WithStaleness(s) ==
  [s EXCEPT !.items = [k \in DOMAIN @ |->
    IF @[k].status = "pending" /\ Stale(@[k]) THEN [@[k] EXCEPT !.status = "stale"] ELSE @[k]]]

\* SyncActiveSession, whose result is saved; Advise does the same to its copy, and
\* that is saved only if it is still active.
Refreshed(s) == IF IsActive(s) THEN WithStaleness(Synced(s)) ELSE s

Advised(s) ==
  IF IsActive(Refreshed(Refreshed(s))) THEN Refreshed(Refreshed(s)) ELSE Refreshed(s)

\* Advise
Offered(s, budget) ==
  LET copy == Refreshed(Refreshed(s))
      pending == Among(copy.items, Pending(copy))
  IN IF IsActive(copy) THEN [k \in DOMAIN pending |-> pending[k].offer] ELSE Fresh(budget)

-----------------------------------------------------------------------------
Init ==
  /\ today = 0
  /\ quote = [i \in ISINs |-> CHOOSE q \in Quotes[i] : \A r \in Quotes[i] : q >= r]
  /\ lots = Account.lots /\ money = Account.money
  /\ orders = {} /\ session = NoSession /\ shown = None /\ turns = 0

\* A new state of the market, the account or the session: the last answer is old.
Turn ==
  /\ turns < MaxTurns
  /\ turns' = turns + 1
  /\ shown' = None

NextDay ==
  /\ today < MaxDay
  /\ today' = today + 1
  /\ shown' = None
  /\ UNCHANGED <<quote, lots, money, orders, session, turns>>

Move(isin) ==
  /\ Turn
  /\ \E q \in Quotes[isin] \ {quote[isin]} : quote' = [quote EXCEPT ![isin] = q]
  /\ UNCHANGED <<today, lots, money, orders, session>>

\* The broker redeems a bond, on its day or later.
Redeem(b) ==
  /\ lots[b.isin] > 0 /\ b.maturity # None /\ b.maturity <= today
  /\ lots' = [lots EXCEPT ![b.isin] = 0]
  /\ money' = money + lots[b.isin] * b.face
  /\ shown' = None
  /\ UNCHANGED <<today, quote, orders, session, turns>>

\* GetAdvice, and GetTradingState, which takes the budget from the plan's slots.
GetAdvice ==
  /\ \E budget \in Budgets \cup {None} :
       shown' = Offered(session, budget) \o ReinvestWatches(budget) \o Reminders
  /\ session' = Advised(session)
  /\ UNCHANGED <<today, quote, lots, money, orders, turns>>

CreateSession ==
  /\ Turn
  /\ ~(IsActive(session) /\ Pending(session) # {})
  /\ \E built \in {BuiltSession} :
       session' = IF built.items # <<>> THEN built ELSE CompleteIfNoPending(session)
  /\ UNCHANGED <<today, quote, lots, money, orders>>

\* RefreshSession: the same session with other items.
RefreshSession ==
  /\ Turn
  /\ IsActive(session)
  /\ \E built \in {BuiltSession} : built.items # <<>> /\ session' = built
  /\ UNCHANGED <<today, quote, lots, money, orders>>

\* FindSessionItem: the first item with the id.
Found(s, id) == CHOOSE k \in DOMAIN s.items :
  s.items[k].id = id /\ \A j \in 1 .. k - 1 : s.items[j].id # id

WithItem(id, item) ==
  CompleteIfNoPending([session EXCEPT !.items[Found(session, id)] = item])

SkipItem(id) ==
  /\ Turn
  /\ session' = WithItem(id, [session.items[Found(session, id)] EXCEPT !.status = "skipped"])
  /\ UNCHANGED <<today, quote, lots, money, orders>>

CancelSession ==
  /\ Turn
  /\ session # NoSession
  /\ session' = [session EXCEPT !.status = "cancelled"]
  /\ UNCHANGED <<today, quote, lots, money, orders>>

\* PlaceOrder for an item of the active session, at its price.
PlaceOrder(id) ==
  /\ Turn
  /\ LET item == session.items[Found(session, id)]
         order == [id |-> turns, isin |-> item.offer.isin, lots |-> item.offer.lots,
                   cost |-> item.offer.lots * item.offer.price]
     IN /\ order.cost <= Available
        /\ orders' = orders \cup {order}
        /\ session' = WithItem(id, [item EXCEPT !.status = "placed", !.order = turns])
  /\ UNCHANGED <<today, quote, lots, money>>

FillOrder(o) ==
  /\ orders' = orders \ {o}
  /\ lots' = [lots EXCEPT ![o.isin] = @ + o.lots]
  /\ money' = money - o.cost
  /\ shown' = None
  /\ UNCHANGED <<today, quote, session, turns>>

CancelOrder(o) ==
  /\ orders' = orders \ {o}
  /\ shown' = None
  /\ UNCHANGED <<today, quote, lots, money, session, turns>>

Next ==
  \/ NextDay \/ GetAdvice \/ CreateSession \/ RefreshSession \/ CancelSession
  \/ \E isin \in ISINs : Move(isin)
  \/ \E k \in DOMAIN Bonds : Redeem(Bonds[k])
  \/ /\ IsActive(session)
     /\ \E k \in DOMAIN session.items :
          SkipItem(session.items[k].id) \/ PlaceOrder(session.items[k].id)
  \/ \E o \in orders : FillOrder(o) \/ CancelOrder(o)

Spec == Init /\ [][Next]_vars

-----------------------------------------------------------------------------
\* A session never leaves the owner without advice: whenever there is cash to
\* deploy or a redemption to reinvest, the answer holds something to buy, also if
\* every item of the session has gone stale, or was ordered, filled or skipped,
\* since the last answer.
AdviceIsNeverMuted ==
  [][shown' # None /\ Actionable(shown') = {} =>
       \E budget \in Budgets \cup {None} : Fresh(budget) = <<>>]_vars

\* AddPosition does not ask whether the plan has the bond already.
PlannedTwice(isin) ==
  \E j, k \in DOMAIN Planned :
    j # k /\ Planned[j].bond.isin = isin /\ Planned[k].bond.isin = isin

\* No two items of a session share an id, by which an item is found, skipped and
\* marked as ordered, also if two redemptions are reinvested in one bond or in
\* one that free cash buys too; but for two positions of the plan in one bond.
ItemsAreDistinct ==
  \A j, k \in DOMAIN session.items :
    session.items[j].id = session.items[k].id =>
      j = k \/ PlannedTwice(session.items[j].offer.source)
=============================================================================
