--------------------------- MODULE TradingEpisode ---------------------------
(***************************************************************************)
(* What the owner of a trading portfolio has put in and earned since it    *)
(* was attached to a broker account (T0).  The broker only tells what the  *)
(* account holds now and the operations of its history: EpisodeCapital     *)
(* walks the operations back to the account as it was at T0, and takes the *)
(* average cost of its bonds from the operations before.                   *)
(*                                                                         *)
(* The history is a sequence, so an operation's place tells what was       *)
(* before T0 (op.Date.After; no two share a moment here).  Quantities are  *)
(* bonds, and a cost that a sale divides is rounded down.  The history is  *)
(* within operationsLookbackDays.                                          *)
(***************************************************************************)
EXTENDS Integers, Sequences, FiniteSetsExt

CONSTANTS
  Bonds,
  Prices,      \* of a trade
  Quote,       \* bond -> price now, 0 for a bond without a quote
  Face,
  Funds,       \* a deposit or withdrawal
  WaveGap,     \* fundingWaveMaxGapDays
  MaxQty,      \* of a bond
  MaxOps, MaxDays,
  None

VARIABLES
  today,
  money, qty,     \* the account
  ops,            \* its history
  start,          \* place of T0 in the history, or None while not attached
  startDay,
  run,            \* history: deposits less withdrawals on end, and the day of the last
  opening,        \* history: bonds at T0, what they and the cash had cost, and the run
  fundedSince,    \* history: deposits less withdrawals since T0
  basis           \* history: what the bonds held now have cost

vars == <<today, money, qty, ops, start, startDay, run, opening, fundedSince, basis>>

\* What a set of operations has brought into the account, or taken out of it.
Payments(S) == MapThenSumSet(LAMBDA n : ops[n].pay, S)

Init ==
  /\ today = 0 /\ money = 0 /\ ops = <<>>
  /\ qty = [b \in Bonds |-> 0]
  /\ start = None /\ startDay = 0
  /\ run = [total |-> 0, last |-> 0]
  /\ opening = [qty |-> qty, value |-> 0, wave |-> 0]
  /\ fundedSince = 0
  /\ basis = qty

-----------------------------------------------------------------------------
(* domain/trading/yield_calc.go *)

\* isExecuted, operationKind; an operation has kind, bond, qty, pay, day, executed.
Executed(places) == {n \in places : ops[n].executed}

\* portfolioFigiSet of EffectiveTradingPositions: held bonds that the universe names,
\* and INITIAL positions of the plan.  An augmented universe names every held bond;
\* GetPerformance asks with no universe and no plan, and so for none at all.
Figis(universe, planned) == ({b \in Bonds : qty[b] > 0} \cap universe) \cup planned

\* len(figis) > 0 && !figis[op.FIGI]: with no bond in sight every operation counts.
Counted(figis) == IF figis = {} THEN Bonds ELSE figis

\* op.Date.After(t0).  mutant: an operation of T0 itself is undone as well
SinceInclusive == {n \in DOMAIN ops : n >= start}

Since == {n \in DOMAIN ops : n > start}

OfBond(n, kind, b) == ops[n].kind = kind /\ ops[n].bond = b

\* reverseStateToT0
CashAtStart == money - Payments(Executed(Since))

Moved(kind, b) ==
  MapThenSumSet(LAMBDA n : ops[n].qty, {n \in Executed(Since) : OfBond(n, kind, b)})

QtyAtStart(figis, b) ==
  (IF b \in figis THEN qty[b] ELSE 0) - Moved("purchase", b) + Moved("sale", b)

\* avgCostPerUnit: a sale takes its share of the cost, never more than was bought.
CostStep(s, op) ==
  IF op.kind = "purchase" THEN [qty |-> s.qty + op.qty, cost |-> s.cost - op.pay]
  ELSE IF s.qty = 0 THEN s
  ELSE LET sold == IF op.qty > s.qty THEN s.qty ELSE op.qty
       IN [qty |-> s.qty - sold, cost |-> s.cost - (s.cost * sold) \div s.qty]

Traded(op, b) == op.executed /\ op.bond = b /\ op.kind \in {"purchase", "sale"}

\* What was bought of a bond, and not sold, in the first m operations.
LotState(b, m) ==
  LET state[n \in 0 .. m] ==
        IF n = 0 THEN [qty |-> 0, cost |-> 0]
        ELSE IF Traded(ops[n], b) THEN CostStep(state[n - 1], ops[n]) ELSE state[n - 1]
  IN state[m]

\* The cost of n bonds at their average.
CostOf(b, n) ==
  LET bought == LotState(b, start)
  IN IF bought.qty = 0 THEN 0 ELSE (n * bought.cost) \div bought.qty

Funding(op) == op.executed /\ op.kind \in {"deposit", "withdrawal"}

\* fundingWaveBeforeT0: of the deposits and withdrawals in the first m operations,
\* those after which no gap of more than WaveGap days is left up to the day.
Followed(n, m, day) ==
  \/ day - ops[n].day <= WaveGap
  \/ \E k \in n + 1 .. m : Funding(ops[k]) /\ ops[k].day - ops[n].day <= WaveGap

Unbroken(m, day) ==
  {n \in 1 .. m : /\ Funding(ops[n])
                  /\ \A k \in n .. m : Funding(ops[k]) => Followed(k, m, day)}

Wave == Payments(Unbroken(start, startDay))

\* EpisodeCapital
EpisodeCapital(figis) ==
  LET held == {b \in Counted(figis) : QtyAtStart(figis, b) > 0}
      value == CashAtStart + MapThenSumSet(LAMBDA b : CostOf(b, QtyAtStart(figis, b)), held)
  IN (IF Wave > value THEN Wave ELSE value)
       + Payments({n \in Since : Funding(ops[n])})

\* A bond without a quote at its face value.
Worth(b) == qty[b] * (IF Quote[b] = 0 THEN Face ELSE Quote[b])

\* estimateCurrentValue
HoldingsValue(figis) == MapThenSumSet(Worth, figis)

\* SummarizeActualPerformance
NetProfit(figis) == HoldingsValue(figis) + money - EpisodeCapital(figis)

-----------------------------------------------------------------------------
(* The broker and the owner. *)

Operate(kind, b, n, pay) ==
  /\ Len(ops) < MaxOps
  /\ ops' = Append(ops, [kind |-> kind, bond |-> b, qty |-> n, pay |-> pay,
                         day |-> today, executed |-> TRUE])
  /\ money + pay >= 0
  /\ money' = money + pay
  /\ UNCHANGED <<today, start, startDay, opening>>

\* The sum of a run of deposits and withdrawals, none of them more than WaveGap days
\* after the one before.
RunOn == IF today - run.last <= WaveGap THEN run.total ELSE 0

Fund(kind, pay) ==
  /\ Operate(kind, None, 0, pay)
  /\ fundedSince' = fundedSince + pay
  /\ run' = [total |-> RunOn + pay, last |-> today]
  /\ UNCHANGED <<qty, basis>>

Deposit == Fund("deposit", Funds)
Withdraw == Fund("withdrawal", -Funds)

\* A bond that was redeemed cannot be bought again.
Buy(b, price) ==
  /\ \A n \in DOMAIN ops : ~OfBond(n, "maturity", b)
  /\ qty[b] < MaxQty
  /\ Operate("purchase", b, 1, -price)
  /\ qty' = [qty EXCEPT ![b] = @ + 1]
  /\ basis' = [basis EXCEPT ![b] = @ + price]
  /\ UNCHANGED <<fundedSince, run>>

Sell(b, price) ==
  /\ qty[b] > 0
  /\ Operate("sale", b, 1, price)
  /\ qty' = [qty EXCEPT ![b] = @ - 1]
  /\ basis' = [basis EXCEPT ![b] = @ - @ \div qty[b]]
  /\ UNCHANGED <<fundedSince, run>>

\* A coupon, less tax and fees.
Income(b) ==
  /\ qty[b] > 0
  /\ Operate("coupon", b, 0, qty[b])
  /\ UNCHANGED <<qty, basis, fundedSince, run>>

\* BOND_REPAYMENT_FULL
Redeem(b) ==
  /\ qty[b] > 0
  /\ Operate("maturity", b, 0, qty[b] * Face)
  /\ qty' = [qty EXCEPT ![b] = 0]
  /\ basis' = [basis EXCEPT ![b] = 0]
  /\ UNCHANGED <<fundedSince, run>>

\* An order that was cancelled is in the history too.
CancelledOrder(b) ==
  /\ Len(ops) < MaxOps
  /\ ops' = Append(ops, [kind |-> "purchase", bond |-> b, qty |-> 1, pay |-> -Funds,
                         day |-> today, executed |-> FALSE])
  /\ UNCHANGED <<today, money, qty, start, startDay, run, opening, fundedSince, basis>>

\* AttachAccount sets TradingStartedAt; after DetachAccount it may come again.
AttachAccount ==
  /\ start # Len(ops)
  /\ start' = Len(ops) /\ startDay' = today
  /\ opening' = [qty |-> qty, wave |-> RunOn,
                 value |-> money + MapThenSumSet(LAMBDA b : basis[b], Bonds)]
  /\ fundedSince' = 0
  /\ UNCHANGED <<today, money, qty, ops, run, basis>>

NextDay ==
  /\ today < MaxDays
  /\ today' = today + 1
  /\ UNCHANGED <<money, qty, ops, start, startDay, run, opening, fundedSince, basis>>

Next ==
  \/ Deposit \/ Withdraw \/ AttachAccount \/ NextDay
  \/ \E b \in Bonds : \/ \E price \in Prices : Buy(b, price) \/ Sell(b, price)
                      \/ Income(b) \/ Redeem(b) \/ CancelledOrder(b)

Spec == Init /\ [][Next]_vars

-----------------------------------------------------------------------------
\* What the account is worth, whatever the portfolio knows of its bonds.
AccountValue == money + MapThenSumSet(Worth, Bonds)

\* Every bond held is in sight, and so is every bond of T0 that the operations cannot
\* bring back: not one sold out (unless the plan names it, or no bond at all is in
\* sight), nor one redeemed.
Traceable(figis) ==
  /\ \A b \in Bonds : qty[b] > 0 => b \in figis
  /\ figis = {} \/ \A b \in Bonds : opening.qty[b] > 0 => b \in figis
  /\ \A n \in Since : ops[n].kind = "maturity" => opening.qty[ops[n].bond] = 0

\* Whatever is traded, paid, deposited and cancelled before and after the attachment,
\* the profit shown is what the account is worth now, all its bonds counted, less
\* what it was worth at T0 (or the run of deposits that led to T0, if that is more)
\* and what was put in since: found back from the history, not from a record of T0.
\* It is not where bonds are out of sight; GetPerformance asks with none in sight, and
\* the profit it shows misses every bond held (advise_use_case.go:196).
ProfitIsEarned ==
  \A universe, planned \in SUBSET Bonds :
    LET figis == Figis(universe, planned)
        base == IF opening.wave > opening.value THEN opening.wave ELSE opening.value
    IN start # None /\ Traceable(figis) =>
         NetProfit(figis) = AccountValue - (base + fundedSince)
=============================================================================
