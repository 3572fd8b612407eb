--------------------------- MODULE CashDeployment ---------------------------
(***************************************************************************)
(* DeployCash: how the planner spends an amount of cash on lots of bonds.  *)
(* AutoCompose builds new positions, tops them up and fills what is left,  *)
(* ComposeBuyAllocations only adds to existing ones when the portfolio is  *)
(* full, SweepRemainingCash spends the rest lot by lot, and a replacement  *)
(* the user confirmed comes before all of them.                            *)
(*                                                                         *)
(* Money is whole units and shares are percent.  A universe is a sequence  *)
(* of bonds in the order of their score; a bond has                        *)
(*   isin, lot (price of a lot, 0 without a quote), face and clean (value  *)
(*   and clean price of a lot), coupon (gross, a lot), period, next,       *)
(*   maturity, offer ([date, start, end, price] of a put offer), sector,   *)
(*   issuer, fits (risk profiles whose filter it passes), and the flags    *)
(*   default, cheap (clean price below the floor), tradable, long          *)
(*   (duration above the portfolio's limit).                               *)
(* in is the input of a plan: universe, horizon, profile, apiOnly,         *)
(* guarded (there is a duration limit), and what PlanSimulation adds.      *)
(***************************************************************************)
EXTENDS Integers, Sequences, FiniteSets, FiniteSetsExt

CONSTANTS
  ISINs,                \* every bond, in the universe or only held
  MaxPositionShare, TargetPositionShare, MinPositionShare,
  MaxSectorShare, MaxIssuerShare,
  MinPositionAmount, MinAutoPositions, MaxAutoPositions,
  MinReplacementHorizon,
  None

-----------------------------------------------------------------------------
\* OfferWindowStatusFor; None without an offer.
OfferWindow(offer, date) ==
  CASE offer = None                               -> None
    [] offer.date <= date                         -> "expired"
    [] offer.start = None \/ offer.end = None     -> "unknown"
    [] date < offer.start                         -> "not_open"
    [] date > offer.end                           -> "closed"
    [] OTHER                                      -> "open"

\* PutOfferBuyBlocked: too late to put the bond at its offer.
BuyBlocked(b, date) == OfferWindow(b.offer, date) = "closed"

EndOf(b) == IF b.maturity # None THEN b.maturity
            ELSE IF b.offer # None THEN b.offer.date ELSE None

FallbackSteps(profile) ==
  IF profile = "normal" THEN <<"normal", None>> ELSE <<profile, "normal", None>>

\* RiskProfileFilter (step = None: any), APITradableFilter, BondEligibilityReason.
Eligible(b, in, step, date) ==
  /\ ~b.default
  /\ step = None \/ step \in b.fits
  /\ ~in.apiOnly \/ b.tradable
  /\ b.lot > 0 /\ ~b.cheap
  /\ ~BuyBlocked(b, date)
  /\ EndOf(b) # None
  /\ date + MinReplacementHorizon <= EndOf(b) /\ EndOf(b) <= in.horizon

\* The elements of s at some of its places, in their order.
Among(s, places) ==
  [k \in 1 .. Cardinality(places) |->
     s[CHOOSE i \in places : Cardinality({j \in places : j < i}) = k - 1]]

\* SelectRankedBonds: the first filter that leaves a candidate decides.
Selected(in, date) ==
  LET steps == FallbackSteps(in.profile)
      fit(k) == {i \in DOMAIN in.universe : Eligible(in.universe[i], in, steps[k], date)}
      some == {k \in DOMAIN steps : fit(k) # {}}
  IN IF some = {} THEN <<>>
     ELSE Among(in.universe, fit(CHOOSE k \in some : \A j \in some : k <= j))

DurationGuardrail(in, bonds) ==
  Among(bonds, {k \in DOMAIN bonds : ~(in.guarded /\ bonds[k].long)})

Ranked(in, date) == DurationGuardrail(in, Selected(in, date))

\* topScoredExistingBonds
RankedExisting(in, held, date) ==
  LET fit == Selected(in, date)
      existing == {k \in DOMAIN fit : held[fit[k].isin] > 0}
      before(k) == {j \in existing : j < k}
  IN Among(fit, {k \in existing : Cardinality(before(k)) < MaxAutoPositions})

Known(in, isin) == \E i \in DOMAIN in.universe : in.universe[i].isin = isin

BondOf(in, isin) ==
  in.universe[CHOOSE i \in DOMAIN in.universe : in.universe[i].isin = isin]

\* ValidateReplacementBond asks less than Eligible: any price, any profile.
ValidReplacement(b, date, horizon) ==
  /\ b.maturity # None
  /\ b.maturity > date /\ b.maturity - date >= MinReplacementHorizon
  /\ b.maturity <= horizon
  /\ ~b.default /\ ~BuyBlocked(b, date)

-----------------------------------------------------------------------------
(***************************************************************************)
(* A call of DeployCash is a frame, and each iteration of a loop one step. *)
(*   cash, spent   the amount to deploy and what its allocations cost      *)
(*   held          lots by bond, with a confirmed replacement's            *)
(*   full          MaxAutoPositions held: buy existing bonds only          *)
(*   budget, pool, seen    AutoCompose's amount, candidates and universe   *)
(*   picks, order, left    AutoCompose's lots, their order, its rest       *)
(*   at, again     position in the loop, something changed in this round   *)
(*   bought        lots allocated so far, without the replacement's        *)
(*   buys          allocations: a sequence of [isin, lots] (what the sweep *)
(*                 adds comes from a Go map, in any order; here in the     *)
(*                 order it was added)                                     *)
(***************************************************************************)
NoLots == [i \in ISINs |-> 0]

Cost(in, lots) ==
  MapThenSumSet(LAMBDA k : in.universe[k].lot * lots[in.universe[k].isin],
                DOMAIN in.universe)

Holdings(held) == Cardinality({i \in ISINs : held[i] > 0})

\* DeployCash without a confirmed replacement.
Compose(in, date, cash, held, buys) ==
  LET full == Holdings(held) >= MaxAutoPositions
      budget == IF full THEN Cost(in, held) + cash ELSE cash
      seen == IF full THEN RankedExisting(in, held, date) ELSE in.universe
  IN [phase |-> "open", cash |-> cash, spent |-> 0, held |-> held, full |-> full,
      budget |-> budget, seen |-> seen, left |-> budget,
      pool |-> IF full THEN DurationGuardrail(in, seen) ELSE Ranked(in, date),
      picks |-> NoLots, order |-> <<>>, at |-> 1, again |-> FALSE,
      bought |-> NoLots, buys |-> buys]

\* mergeAllocationLots
Merge(buys, isin, lots) ==
  IF \E i \in DOMAIN buys : buys[i].isin = isin
  THEN [i \in DOMAIN buys |->
          IF buys[i].isin = isin THEN [buys[i] EXCEPT !.lots = @ + lots] ELSE buys[i]]
  ELSE Append(buys, [isin |-> isin, lots |-> lots])

\* The confirmed replacement takes every lot the cash pays for; the rest is
\* deployed as if the replacement were already held.  An unknown or unquoted
\* replacement, or too little cash for a lot, deploys nothing.
Deploy(in, date, cash, held, confirmed) ==
  IF confirmed = None THEN Compose(in, date, cash, held, <<>>)
  ELSE LET lot == IF Known(in, confirmed) THEN BondOf(in, confirmed).lot ELSE 0
           lots == IF lot = 0 THEN 0 ELSE cash \div lot
           buys == <<[isin |-> confirmed, lots |-> lots]>>
       IN IF lots = 0 THEN [Compose(in, date, cash, held, <<>>) EXCEPT !.phase = "buy"]
          ELSE IF cash - lots * lot = 0
          THEN [Compose(in, date, 0, held, buys) EXCEPT !.phase = "buy"]
          ELSE Compose(in, date, cash - lots * lot,
                       [held EXCEPT ![confirmed] = @ + lots], buys)

-----------------------------------------------------------------------------
\* Limits of a position, in hundredths: MaxPositionShare; MinPositionAmount or
\* MinPositionShare.
MaxPosition(f) == MaxPositionShare * f.budget
MinPosition(f) ==
  IF 100 * MinPositionAmount > MinPositionShare * f.budget
  THEN 100 * MinPositionAmount ELSE MinPositionShare * f.budget

Least(a, b) == IF a < b THEN a ELSE b
Most(a, b) == IF a > b THEN a ELSE b

TargetCount ==
  Most(MinAutoPositions,
       Least(MaxAutoPositions, (200 + TargetPositionShare) \div (2 * TargetPositionShare)))

\* sectorSpent and issuerSpent: what is held of the bonds AutoCompose sees, and
\* what it has picked.  Bonds without a sector or an issuer are not counted.
Exposed(f, group) ==
  MapThenSumSet(
    LAMBDA k : f.seen[k].lot * (f.held[f.seen[k].isin] + f.picks[f.seen[k].isin]), group)

SectorSpent(f, sector) == Exposed(f, {k \in DOMAIN f.seen : f.seen[k].sector = sector})
IssuerSpent(f, issuer) == Exposed(f, {k \in DOMAIN f.seen : f.seen[k].issuer = issuer})

\* mutant: the shares as they are before the purchase
WithinCapsBefore(f, b, extra) ==
  /\ b.sector = None \/ 100 * SectorSpent(f, b.sector) <= MaxSectorShare * f.budget
  /\ b.issuer = None \/ 100 * IssuerSpent(f, b.issuer) <= MaxIssuerShare * f.budget

WithinCaps(f, b, extra) ==
  /\ b.sector = None
       \/ 100 * (SectorSpent(f, b.sector) + extra) <= MaxSectorShare * f.budget
  /\ b.issuer = None
       \/ 100 * (IssuerSpent(f, b.issuer) + extra) <= MaxIssuerShare * f.budget

Goto(f, phase) == [f EXCEPT !.phase = phase, !.at = 1, !.again = FALSE]
Advance(f) == [f EXCEPT !.at = @ + 1]

Pick(f, b, lots) ==
  [f EXCEPT !.picks[b.isin] = @ + lots, !.left = @ - lots * b.lot,
            !.order = IF f.picks[b.isin] = 0 THEN Append(@, b.isin) ELSE @]

\* mutant: a target that is not clipped to the rest of the cash
TargetLotsUnclipped(f, b) ==
  LET rounded == Most(1, (2 * f.budget + TargetCount * b.lot) \div (2 * TargetCount * b.lot))
      small == 100 * rounded * b.lot < MinPosition(f)
      wanted == IF small THEN MinPosition(f) \div (100 * b.lot) + 1 ELSE rounded
      lots == Least(wanted, MaxPosition(f) \div (100 * b.lot))
  IN IF 100 * lots * b.lot < MinPosition(f) \/ ~WithinCaps(f, b, lots * b.lot) THEN 0 ELSE lots

\* Lots of a new position: the target rounded to lots, raised to the minimum or
\* else clipped to the maximum and to the rest; 0 when that is not allowed.
TargetLots(f, b) ==
  LET rounded == Most(1, (2 * f.budget + TargetCount * b.lot) \div (2 * TargetCount * b.lot))
      small == 100 * rounded * b.lot < MinPosition(f)
      wanted == IF small THEN MinPosition(f) \div (100 * b.lot) + 1 ELSE rounded
      lots == Least(wanted, Least(MaxPosition(f) \div (100 * b.lot), f.left \div b.lot))
  IN IF (small /\ lots < wanted) \/ 100 * lots * b.lot < MinPosition(f)
        \/ ~WithinCaps(f, b, lots * b.lot)
     THEN 0 ELSE lots

\* First loop of AutoCompose: new positions in the order of the score.
OpenStep(f) ==
  IF f.at > Len(f.pool) \/ 100 * f.left < MinPosition(f) \/ Len(f.order) >= TargetCount
  THEN Goto(f, IF 100 * f.left >= MinPosition(f) THEN "topup" ELSE "target")
  ELSE LET b == f.pool[f.at] lots == TargetLots(f, b)
       IN Advance(IF lots > 0 THEN Pick(f, b, lots) ELSE f)

TopUpAllowed(f, b) ==
  /\ f.picks[b.isin] > 0 /\ b.lot <= f.left
  /\ 100 * (f.picks[b.isin] + 1) * b.lot <= MaxPosition(f)
  /\ WithinCaps(f, b, b.lot)

\* Second loop: one more lot of each position, as long as a round changes anything.
TopUpStep(f) ==
  IF f.at > Len(f.pool)
  THEN IF f.again /\ f.left > 0 THEN Goto(f, "topup") ELSE Goto(f, "fill")
  ELSE LET b == f.pool[f.at] IN
       IF ~TopUpAllowed(f, b) THEN Advance(f)
       ELSE LET g == [Pick(f, b, 1) EXCEPT !.again = TRUE]
            IN IF g.left < b.lot THEN [g EXCEPT !.at = Len(g.pool) + 1] ELSE Advance(g)

FillLots(f, b) ==
  LET lots == Least(f.left \div b.lot, MaxPosition(f) \div (100 * b.lot))
  IN IF f.picks[b.isin] > 0 \/ 100 * lots * b.lot < MinPosition(f)
        \/ ~WithinCaps(f, b, lots * b.lot)
     THEN 0 ELSE lots

\* Third loop: with fewer than MinAutoPositions, as many lots of a new bond as fit.
FillStep(f) ==
  IF f.at > Len(f.pool) \/ Len(f.order) >= MinAutoPositions
       \/ 100 * f.left < MinPosition(f)
  THEN Goto(f, "target")
  ELSE LET b == f.pool[f.at] lots == FillLots(f, b)
       IN Advance(IF lots > 0 THEN Pick(f, b, lots) ELSE f)

\* A full portfolio buys the difference between the composed and the held lots
\* as far as the cash goes; otherwise the composed lots are the allocations.
TargetStep(in, f) ==
  IF f.at > Len(f.order)
  THEN IF f.cash > f.spent /\ (f.full \/ f.order # <<>>)
       THEN Goto(f, "sweep") ELSE Goto(f, "buy")
  ELSE LET isin == f.order[f.at]
           lot == BondOf(in, isin).lot
           lots == IF f.full
                   THEN Most(0, Least(f.picks[isin] - f.held[isin],
                                      (f.cash - f.spent) \div lot))
                   ELSE f.picks[isin]
       IN Advance(IF lots = 0 THEN f
                  ELSE [f EXCEPT !.spent = @ + lots * lot,
                                 !.bought[isin] = lots,
                                 !.buys = Merge(@, isin, lots)])

\* Neither sector nor issuer counts here.
SweepAllowed(f, b) ==
  /\ b.lot <= f.cash - f.spent
  /\ 100 * (f.held[b.isin] + f.bought[b.isin] + 1) * b.lot <= MaxPosition(f)

\* SweepRemainingCash: one lot of the best bond that fits, then from the top.
SweepStep(in, date, f) ==
  LET pool == Ranked(in, date)
      fits == {k \in DOMAIN pool : SweepAllowed(f, pool[k])}
  IN IF fits = {} \/ f.cash = f.spent THEN Goto(f, "buy")
     ELSE LET b == pool[CHOOSE k \in fits : \A j \in fits : k <= j]
          IN [f EXCEPT !.spent = @ + b.lot, !.bought[b.isin] = @ + 1,
                       !.buys = Merge(@, b.isin, 1)]

DeployStep(in, date, f) ==
  CASE f.phase = "open"   -> OpenStep(f)
    [] f.phase = "topup"  -> TopUpStep(f)
    [] f.phase = "fill"   -> FillStep(f)
    [] f.phase = "target" -> TargetStep(in, f)
    [] f.phase = "sweep"  -> SweepStep(in, date, f)
=============================================================================
