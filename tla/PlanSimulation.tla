--------------------------- MODULE PlanSimulation ---------------------------
(***************************************************************************)
(* RunSimulation: the cash flow of a portfolio up to its horizon, one      *)
(* event of the queue at a time.  Coupons are paid, positions mature or    *)
(* are put, and ReinvestmentGapDays after a redemption DeployCash spends   *)
(* the cash, whose purchases are positions with events of their own.       *)
(* BuildPlan then shows, for each slot, the cash it expects there.         *)
(*                                                                         *)
(* Days are numbers and Today is one of them.  in adds to the input of     *)
(* CashDeployment: mode, best (AssumeBestPutOutcome), cash (initial, or    *)
(* the broker's), seeds (positions) and confirmed (the saved slots: a      *)
(* replacement for each source bond, or None).                             *)
(***************************************************************************)
EXTENDS CashDeployment

CONSTANTS
  Inputs,               \* the plans that are simulated
  Today, ReinvestmentGapDays, MaxReinvestDepth,
  TaxRate,              \* percent
  Idle

VARIABLES
  in,
  pc,         \* "seed", "run", "done"
  cash,
  book,       \* state.OpenPositions, closed ones included
  queue,      \* the event heap
  seq,        \* numbers the events in the order they were scheduled
  days,       \* scheduledDeploy
  journal,    \* cash flow events: [date, kind, pos, amount]
  slots,      \* ResolvedSlots: [source, date (of the purchase)], and what became
              \* of them: lead (scheduled the deployment), cash (deployed)
  frame       \* the deployment in progress: [event, amount, f], or Idle

vars == <<in, pc, cash, book, queue, seq, days, journal, slots, frame>>

-----------------------------------------------------------------------------
\* SyncPutOfferFromBond and SyncCouponFromBond: a seed takes over what the
\* universe knows; a new offer date makes the decision pending again.
Synced(p) ==
  IF ~Known(in, p.bond.isin) THEN p
  ELSE LET b == BondOf(in, p.bond.isin)
           offered == b.offer # None /\ b.offer.date >= p.from
           moved == p.bond.offer = None \/ p.bond.offer.date # b.offer.date
       IN [p EXCEPT !.bond.coupon = IF b.coupon > 0 THEN b.coupon ELSE @,
                    !.bond.period = IF b.period > 0 THEN b.period ELSE @,
                    !.bond.next = IF b.next # None THEN b.next ELSE @,
                    !.bond.offer = IF offered THEN b.offer ELSE @,
                    !.decision = IF offered /\ moved THEN "pending" ELSE @]

\* PositionFromBond: no offer that cannot be used any more.
Bought(b, lots, date, generation) ==
  [bond |-> [b EXCEPT !.offer =
               IF @ # None /\ @.date >= date /\ ~BuyBlocked(b, date) THEN @ ELSE None],
   lots |-> lots, cost |-> b.lot, from |-> date, decision |-> "pending",
   generation |-> generation, closed |-> FALSE]

\* PutOfferSubmissionClosed as of today, also for what is bought later.
SubmissionClosed(p) == OfferWindow(p.bond.offer, Today) \in {None, "closed", "expired"}

PlansPutExit(p) ==
  /\ ~SubmissionClosed(p)
  /\ p.bond.offer.price >= p.bond.face
  /\ p.decision = "exercise" \/ (p.decision = "pending" /\ in.best)

EndDate(p) ==
  IF p.bond.offer # None /\ PlansPutExit(p) /\ p.bond.offer.date <= in.horizon
  THEN p.bond.offer.date ELSE p.bond.maturity

Held(p) == EndDate(p) = None \/ EndDate(p) > in.horizon

IsPut(p) ==
  /\ p.bond.offer # None /\ ~SubmissionClosed(p)
  /\ EndDate(p) = p.bond.offer.date

\* CouponDatesInRange: every period from the next coupon, after the purchase.
CouponDates(p) ==
  LET b == p.bond
      first == IF b.next = None THEN p.from + b.period ELSE b.next
  IN IF b.period = 0 \/ b.coupon = 0 THEN {}
     ELSE {d \in p.from + 1 .. EndDate(p) : (d - first) % b.period = 0 /\ d >= first}

\* NetRedemptionAmount and the coupon after tax, rounded down here.
Redemption(p, put) ==
  LET perLot == IF put THEN p.bond.offer.price ELSE p.bond.face
      gain == Most(0, perLot - p.bond.clean)
  IN p.lots * perLot - (p.lots * gain * TaxRate) \div 100

Coupon(p) == (p.lots * p.bond.coupon * (100 - TaxRate)) \div 100

-----------------------------------------------------------------------------
\* simEventPriority.  mutant: a redemption before the coupons of its day
RedemptionFirst(kind) ==
  CASE kind = "redemption" -> 0 [] kind = "coupon" -> 1 [] kind = "deploy" -> 2

Priority(kind) ==
  CASE kind = "coupon" -> 0 [] kind = "redemption" -> 1 [] kind = "deploy" -> 2

Sooner(e, f) ==
  \/ e.date < f.date
  \/ e.date = f.date /\ Priority(e.kind) < Priority(f.kind)
  \/ e.date = f.date /\ Priority(e.kind) = Priority(f.kind) /\ e.seq < f.seq

First == CHOOSE e \in queue : \A f \in queue \ {e} : Sooner(e, f)

\* scheduleLifecycle of position i, only called when it ends by the horizon.
\* The coupons of a position are numbered alike: their dates differ.
Lifecycle(i, p, n) ==
  {[date |-> d, kind |-> "coupon", pos |-> i, seq |-> n] : d \in CouponDates(p)}
    \cup {[date |-> EndDate(p), kind |-> "redemption", pos |-> i, seq |-> n]}

Open(p) ==
  /\ book' = Append(book, p)
  /\ queue' = IF Held(p) THEN queue ELSE queue \cup Lifecycle(Len(book) + 1, p, seq)
  /\ seq' = seq + 1

Entry(date, kind, pos, amount) ==
  [date |-> date, kind |-> kind, pos |-> pos, amount |-> amount]

Record(date, kind, pos, amount) ==
  /\ journal' = Append(journal, Entry(date, kind, pos, amount))
  /\ cash' = cash + amount

Init ==
  /\ in \in Inputs
  /\ pc = "seed" /\ cash = in.cash
  /\ book = <<>> /\ queue = {} /\ seq = 0 /\ days = {}
  /\ journal = <<>> /\ slots = <<>> /\ frame = Idle

\* A position the portfolio has.  The simulation also pays for what was bought
\* in it by today.
Seed ==
  /\ pc = "seed" /\ Len(book) < Len(in.seeds)
  /\ LET i == Len(book) + 1
         p == Synced(in.seeds[i])
     IN /\ Open(p)
        /\ IF in.mode = "simulation" /\ p.generation = 0 /\ p.from <= Today
           THEN Record(p.from, "purchase", i, -p.lots * p.cost)
           ELSE UNCHANGED <<cash, journal>>
  /\ UNCHANGED <<in, pc, days, slots, frame>>

Start ==
  /\ pc = "seed" /\ Len(book) = Len(in.seeds)
  /\ pc' = "run"
  /\ UNCHANGED <<in, cash, book, queue, seq, days, journal, slots, frame>>

\* The loop takes the next event.
Take(kind) ==
  /\ pc = "run" /\ frame = Idle
  /\ queue # {} /\ First.kind = kind
  /\ UNCHANGED <<in, pc>>

\* An account that is really traded has no simulated past.
Past == in.mode = "trading" /\ First.date < Today

SkipPast ==
  /\ pc = "run" /\ frame = Idle /\ queue # {} /\ Past
  /\ queue' = queue \ {First}
  /\ UNCHANGED <<in, pc, cash, book, seq, days, journal, slots, frame>>

PayCoupon ==
  /\ Take("coupon") /\ ~Past
  /\ LET i == First.pos IN
       IF book[i].closed THEN UNCHANGED <<cash, journal>>
       ELSE Record(First.date, "coupon", i, Coupon(book[i]))
  /\ queue' = queue \ {First}
  /\ UNCHANGED <<book, seq, days, slots, frame>>

\* A redemption closes the position and, unless it is too late or the chain too
\* deep, resolves a slot; redemptions whose purchase falls on one day share the
\* deployment the first of them has scheduled.
Redeem ==
  /\ Take("redemption") /\ ~Past
  /\ LET i == First.pos
         p == book[i]
         date == First.date + ReinvestmentGapDays
         source == p.bond.isin
         on == date <= in.horizon /\ p.generation < MaxReinvestDepth
         new == on /\ date \notin days
         event == [date |-> date, kind |-> "deploy", pos |-> i, seq |-> seq,
                   confirmed |-> in.confirmed[source]]
     IN /\ ~p.closed
        /\ Record(First.date, IF IsPut(p) THEN "put_offer" ELSE "maturity", i,
                  Redemption(p, IsPut(p)))
        /\ book' = [book EXCEPT ![i].closed = TRUE]
        /\ slots' = IF on THEN Append(slots, [source |-> source, date |-> date,
                                            lead |-> new, cash |-> None])
                    ELSE slots
        /\ queue' = (queue \ {First}) \cup (IF new THEN {event} ELSE {})
        /\ seq' = IF new THEN seq + 1 ELSE seq
        /\ days' = IF new THEN days \cup {date} ELSE days
  /\ UNCHANGED frame

Lots == [isin \in ISINs |->
           MapThenSumSet(LAMBDA i : book[i].lots,
                         {i \in DOMAIN book : book[i].bond.isin = isin /\ ~book[i].closed})]

\* A deployment begins; a confirmed replacement that is not valid any more is
\* dropped, one that is unknown is not.
DeployBegin ==
  /\ Take("deploy") /\ ~Past
  /\ LET e == First
         stale == e.confirmed # None /\ Known(in, e.confirmed)
                    /\ ~ValidReplacement(BondOf(in, e.confirmed), e.date, in.horizon)
         confirmed == IF stale THEN None ELSE e.confirmed
     IN /\ frame' = IF cash <= 0 THEN Idle
                    ELSE [event |-> e, amount |-> cash,
                          f |-> Deploy(in, e.date, cash, Lots, confirmed)]
        /\ slots' = [k \in DOMAIN slots |->
                       IF slots[k].date = e.date THEN [slots[k] EXCEPT !.cash = cash]
                       ELSE slots[k]]
        /\ queue' = queue \ {e}
  /\ UNCHANGED <<cash, book, seq, days, journal>>

DeployIteration ==
  /\ frame # Idle /\ frame.f.phase # "buy"
  /\ frame' = [frame EXCEPT !.f = DeployStep(in, frame.event.date, frame.f)]
  /\ UNCHANGED <<in, pc, cash, book, queue, seq, days, journal, slots>>

\* Buy the next allocation, with fewer lots if the cash does not pay for them; a bond
\* that is not quoted is passed over.
Buy ==
  /\ frame # Idle /\ frame.f.phase = "buy" /\ frame.f.buys # <<>>
  /\ LET a == Head(frame.f.buys)
         b == BondOf(in, a.isin)
         lots == IF Known(in, a.isin) /\ b.lot > 0 THEN Least(a.lots, cash \div b.lot) ELSE 0
         date == frame.event.date
         generation == book[frame.event.pos].generation + 1
     IN IF lots < 1 THEN UNCHANGED <<cash, journal, book, queue, seq>>
        ELSE /\ Open(Bought(b, lots, date, generation))
             /\ Record(date, "purchase", Len(book) + 1, -lots * b.lot)
  /\ frame' = [frame EXCEPT !.f.buys = Tail(@)]
  /\ UNCHANGED <<in, pc, days, slots>>

DeployEnd ==
  /\ frame # Idle /\ frame.f.phase = "buy" /\ frame.f.buys = <<>>
  /\ frame' = Idle
  /\ UNCHANGED <<in, pc, cash, book, queue, seq, days, journal, slots>>

Finish ==
  /\ pc = "run" /\ frame = Idle /\ queue = {}
  /\ pc' = "done"
  /\ UNCHANGED <<in, cash, book, queue, seq, days, journal, slots, frame>>

Next ==
  \/ Seed \/ Start \/ SkipPast \/ PayCoupon \/ Redeem
  \/ DeployBegin \/ DeployIteration \/ Buy \/ DeployEnd \/ Finish

Spec == Init /\ [][Next]_vars

-----------------------------------------------------------------------------
\* BuildPlan.  MergeCashflowEvents: the events of a bond of one day and kind are
\* one event, at the place of the first.
Place(k) ==
  LET alike == {j \in DOMAIN journal :
                  /\ journal[j].date = journal[k].date /\ journal[j].kind = journal[k].kind
                  /\ book[journal[j].pos].bond.isin = book[journal[k].pos].bond.isin}
  IN CHOOSE j \in alike : \A l \in alike : j <= l

\* RunningCashBeforePurchase: what comes before the first purchase of the day.
RunningCash(date) ==
  LET buys == {k \in DOMAIN journal : journal[k].date = date /\ journal[k].kind = "purchase"}
      before == {k \in DOMAIN journal :
                   \/ journal[k].date < date
                   \/ journal[k].date = date /\ \A b \in buys : Place(k) < b}
  IN in.cash + MapThenSumSet(LAMBDA k : journal[k].amount, before)

\* EnrichReinvestmentSlot, for a slot with a replacement the user confirmed.
SlotStatus(s) ==
  LET c == in.confirmed[s.source] IN
  CASE c = None                                -> "unconfirmed"
    [] ~Known(in, c) \/ BondOf(in, c).lot = 0  -> "invalid_selection"
    [] ~ValidReplacement(BondOf(in, c), s.date, in.horizon) -> "invalid_selection"
    [] RunningCash(s.date) < BondOf(in, c).lot -> "insufficient_cash"
    [] OTHER                                   -> "ok"

-----------------------------------------------------------------------------
\* appendHeld: what a position that outlives the horizon is estimated at.
Estimate(p) ==
  p.lots * (IF Known(in, p.bond.isin) /\ BondOf(in, p.bond.isin).lot > 0
            THEN BondOf(in, p.bond.isin).lot ELSE p.bond.face)

\* finalizePlanTotals, as far as the cash and the value at the horizon.
Totals ==
  LET final == in.cash + MapThenSumSet(LAMBDA k : journal[k].amount, DOMAIN journal)
      held == MapThenSumSet(LAMBDA i : Estimate(book[i]), {i \in DOMAIN book : Held(book[i])})
  IN [cash |-> final, value |-> final + held]

\* What a position is worth at its end: tax aside, what it is redeemed for; at the
\* horizon its face value (the estimates are filed under the identity a position
\* has before AddPosition gives it one, and are not found).
Terminal(p) == p.lots * (IF IsPut(p) THEN p.bond.offer.price ELSE p.bond.face)

\* The chart of a held position ends by this much below or above its estimate, all of
\* it when the bond never matures.
Misfiled(p) == Estimate(p) - (IF EndDate(p) = None THEN 0 ELSE Terminal(p))

\* mutant: a position that ends that day still has its value
ValueOnLastDay(p, date) ==
  LET end == IF Held(p) THEN in.horizon ELSE EndDate(p)
      cost == p.lots * p.cost
  IN IF date < p.from \/ (~Held(p) /\ EndDate(p) < date) THEN 0
     ELSE IF date >= end THEN IF EndDate(p) = None THEN 0 ELSE Terminal(p)
     ELSE cost + ((Terminal(p) - cost) * (date - p.from)) \div (end - p.from)

\* positionMarketValueAt: on a line from what was paid to what it ends with.  A
\* position that never ends is worth nothing at the horizon.
ValueAt(p, date) ==
  LET end == IF Held(p) THEN in.horizon ELSE EndDate(p)
      cost == p.lots * p.cost
  IN IF date < p.from \/ (~Held(p) /\ EndDate(p) <= date) THEN 0
     ELSE IF date >= end THEN IF EndDate(p) = None THEN 0 ELSE Terminal(p)
     ELSE cost + ((Terminal(p) - cost) * (date - p.from)) \div (end - p.from)

\* buildValueTimeline: the days on which something happens, and each day's cash.
TimelineDates ==
  {d \in {Today, in.horizon} \cup {journal[k].date : k \in DOMAIN journal}
           \cup {book[i].from : i \in DOMAIN book}
           \cup {EndDate(book[i]) : i \in {j \in DOMAIN book : ~Held(book[j])}} :
     Today <= d /\ d <= in.horizon}

CashAt(date) ==
  in.cash + MapThenSumSet(LAMBDA k : journal[k].amount,
                          {k \in DOMAIN journal : journal[k].date <= date})

-----------------------------------------------------------------------------
\* A deployment never allocates more than the cash it was given, through the
\* confirmed replacement, the loops of AutoCompose and the sweep, and every
\* allocation is bought as it was made: no purchase overdraws the cash.
SpendsWithinCash ==
  frame # Idle =>
    /\ frame.f.left >= 0 /\ frame.f.spent <= frame.f.cash
    /\ MapThenSumSet(LAMBDA k : frame.f.buys[k].lots * BondOf(in, frame.f.buys[k].isin).lot,
                     DOMAIN frame.f.buys) <= cash

\* What AutoCompose builds keeps to the shares of a position, a sector and an
\* issuer, counted with what is held of the bonds it sees, whatever the order of
\* its loops; it adds nothing to a sector or an issuer that is over its share
\* already.  (The sweep and a confirmed replacement are outside these caps.)
CapsHold ==
  frame # Idle =>
    LET f == frame.f IN
    \A k \in DOMAIN f.pool :
      LET b == f.pool[k] IN
      f.picks[b.isin] > 0 =>
        /\ 100 * f.picks[b.isin] * b.lot <= MaxPosition(f)
        /\ b.sector # None => 100 * SectorSpent(f, b.sector) <= MaxSectorShare * f.budget
        /\ b.issuer # None => 100 * IssuerSpent(f, b.issuer) <= MaxIssuerShare * f.budget

\* In a finished plan each position that ends by the horizon was redeemed exactly
\* once, on its last day, and was paid exactly the coupons due after its purchase
\* up to and on that day; one that does not was never redeemed.  An account that
\* is really traded is simulated from today on.
PositionsEndOnce ==
  pc = "done" =>
    \A i \in DOMAIN book :
      LET p == book[i]
          due(d) == in.mode # "trading" \/ d >= Today
          paid(kinds) == {k \in DOMAIN journal : journal[k].pos = i /\ journal[k].kind \in kinds}
          ends == paid({"maturity", "put_offer"})
      IN IF Held(p) THEN ends = {} /\ ~p.closed /\ paid({"coupon"}) = {}
         ELSE /\ {journal[k].date : k \in ends} = {d \in {EndDate(p)} : due(d)}
              /\ Cardinality(ends) <= 1 /\ (p.closed <=> ends # {})
              /\ {journal[k].date : k \in paid({"coupon"})} = {d \in CouponDates(p) : due(d)}

\* A position that is put at an offer was bought while it could still be submitted
\* to it, or at least before its day.
PutIsPossible ==
  \A i \in DOMAIN book : IsPut(book[i]) => OfferWindow(book[i].bond.offer, book[i].from)
                                              \notin {"closed", "expired"}

\* The plan keeps what it shows of a slot after today: the cash it expects there
\* is the cash that was deployed, and a confirmed replacement with status "ok" is
\* bought that day, unless another redemption scheduled the day's deployment.
\* (Not when a bond is bought and put on one day, see PutIsPossible: the proceeds
\* are then shown as cash of before the purchase.)
SlotsAreKept ==
  pc = "done" /\ PutIsPossible =>
    \A k \in DOMAIN slots :
      LET s == slots[k] IN
      s.date > Today =>
        /\ RunningCash(s.date) = s.cash
        /\ s.lead /\ SlotStatus(s) = "ok" =>
             \E j \in DOMAIN journal :
               /\ journal[j].date = s.date /\ journal[j].kind = "purchase"
               /\ book[journal[j].pos].bond.isin = in.confirmed[s.source]

\* What the plan buys it pays for, and what a simulated portfolio bought by today.
Charged(i) ==
  \/ i > Len(in.seeds)
  \/ in.mode = "simulation" /\ book[i].generation = 0 /\ book[i].from <= Today

\* A bond is on the chart as money or as value, never as both and never as neither:
\* at each point a position has value exactly from its purchase until the plan books
\* its redemption, and what was paid for it left the cash once, the day its value
\* begins; the chart ends with the cash and the value of the plan's totals, the
\* estimates that are not found aside.  (Two exceptions: a seed of a real account, of
\* a later generation, or bought after today in the simulation, has value and is never
\* paid for; and a bond without maturity that is not put has no value at the horizon,
\* while the totals count its estimate.)
CountedOnce ==
  pc = "done" =>
    /\ CashAt(in.horizon) = cash /\ Totals.cash = cash
    /\ Totals.value = CashAt(in.horizon)
         + MapThenSumSet(LAMBDA i : ValueAt(book[i], in.horizon)
                                    + (IF Held(book[i]) THEN Misfiled(book[i]) ELSE 0),
                         DOMAIN book)
    /\ \A i \in DOMAIN book :
         LET p == book[i]
             entries(kinds) == {k \in DOMAIN journal : journal[k].pos = i /\ journal[k].kind \in kinds}
             paid == {<<journal[k].date, journal[k].amount>> : k \in entries({"purchase"})}
             skipped == in.mode = "trading" /\ ~Held(p) /\ EndDate(p) < Today
         IN /\ Cardinality(entries({"purchase"})) <= 1
            /\ paid = IF Charged(i) THEN {<<p.from, -(p.lots * p.cost)>>} ELSE {}
            /\ \A d \in TimelineDates :
                 IF d < p.from THEN ValueAt(p, d) = 0
                 ELSE skipped \/ (ValueAt(p, d) > 0 <=>
                        /\ \A k \in entries({"maturity", "put_offer"}) : journal[k].date > d
                        /\ EndDate(p) # None \/ d < in.horizon)

\* A finished plan shows one portfolio in its rows, its slots and its chart.
PlanAddsUp == SlotsAreKept /\ CountedOnce
=============================================================================
