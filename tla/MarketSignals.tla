--------------------------- MODULE MarketSignals ---------------------------
(***************************************************************************)
(* What the market says of one bond next to its peers: the spread anomaly, *)
(* the widening of its spread over a week, the attribution of a fall to    *)
(* its sector or to itself, and the dip ideas and sector heatmap the radar *)
(* ranks from them.                                                        *)
(*                                                                         *)
(* A universe is a set of bonds.  A bond has isin, sector, rating (its     *)
(* ordinal), duration, liquid (it trades at least MinLiquidityRub), ytm    *)
(* (yield before tax), price (last quote), score, and the flags default,   *)
(* technical, subordinated; None stands for what is not known.  rates is   *)
(* what a bond is measured by: the key rate and the tax (percent).  A row  *)
(* is what spread_snapshots keeps of a bond on a day: spread and price.    *)
(* Yields, prices and changes are in half percentage points, so that the   *)
(* mean of two middle values is whole when quotes are whole points, and    *)
(* what is net of tax is in hundredths of them.                            *)
(***************************************************************************)
EXTENDS Integers, FiniteSets, FiniteSetsExt

CONSTANTS
  MinPeers, MaxRatingNotches, MaxDurationDiff,
  None

Points(n) == 2 * n

-----------------------------------------------------------------------------
(* Statistics of a function from bonds to numbers.                         *)

\* The value at place k when the values of f are sorted.
Ranked(f, k) ==
  CHOOSE v \in {f[x] : x \in DOMAIN f} :
    /\ Cardinality({x \in DOMAIN f : f[x] < v}) < k
    /\ k <= Cardinality({x \in DOMAIN f : f[x] <= v})

\* median, medianFloat: zero when there is nothing to take it of.
Median(f) ==
  LET n == Cardinality(DOMAIN f)
  IN IF n = 0 THEN 0
     ELSE IF n % 2 = 1 THEN Ranked(f, n \div 2 + 1)
     ELSE (Ranked(f, n \div 2) + Ranked(f, n \div 2 + 1)) \div 2

\* SpreadStatsFromPeers, ZScore >= 2: the deviation is taken about the mean,
\* the distance from the median.  n^2 times the variance stays whole.
TwoDeviations(value, f) ==
  LET n == Cardinality(DOMAIN f)
      sum == MapThenSumSet(LAMBDA x : f[x], DOMAIN f)
      squares == MapThenSumSet(LAMBDA x : f[x] * f[x], DOMAIN f)
      spread == n * squares - sum * sum
      distance == value - Median(f)
  IN spread > 0 /\ distance >= 0 /\ distance * distance * n * n >= 4 * spread

-----------------------------------------------------------------------------
(* Peers and spreads.                                                      *)

Near(x, y, most) == x # None /\ y # None /\ x - y <= most /\ y - x <= most

PeerGroup(b, universe) ==
  {p \in universe :
     /\ b.sector # None /\ b.ytm # None
     /\ p.isin # b.isin
     /\ p.sector = b.sector
     /\ p.liquid /\ p.ytm # None
     /\ Near(b.rating, p.rating, MaxRatingNotches)
     /\ Near(b.duration, p.duration, MaxDurationDiff)}

\* YTMNet, RiskFreeNetPP
Net(yield, rates) == yield * (100 - rates.tax)

NetPoints(n) == 100 * Points(n)

\* CreditSpreadPP over the riskless net yield; None without a yield.
CreditSpread(b, rates) ==
  IF b.ytm = None THEN None ELSE Net(b.ytm, rates) - Net(rates.key, rates)

Spreads(bonds, rates) == [p \in bonds |-> CreditSpread(p, rates)]

\* SpreadAnomalyRule, RankSpreadAnomalies: far above what the peers pay.
IsAnomaly(b, universe, rates) ==
  LET peers == PeerGroup(b, universe)
      spreads == Spreads(peers, rates)
      mine == CreditSpread(b, rates)
  IN /\ mine # None /\ Cardinality(peers) >= MinPeers
     /\ \/ mine - Median(spreads) >= NetPoints(8)
        \/ TwoDeviations(mine, spreads)

\* IsSpreadWidening: changes is the peers' own change of spread.
IsSpreadWidening(change, changes) ==
  Cardinality(DOMAIN changes) >= MinPeers /\ change - Median(changes) >= NetPoints(5)

-----------------------------------------------------------------------------
(* A week's change of price.  now and past are functions from isins to     *)
(* rows.                                                                   *)

Priced(isin, now, past) ==
  /\ isin \in DOMAIN now /\ isin \in DOMAIN past
  /\ now[isin].price # None /\ past[isin].price # None /\ past[isin].price > 0

Change(isin, now, past) ==
  ((now[isin].price - past[isin].price) * Points(100)) \div past[isin].price

Changes(isins, now, past) ==
  [i \in {j \in isins : Priced(j, now, past)} |-> Change(i, now, past)]

Isins(bonds) == {b.isin : b \in bonds}

\* The peers of b in the universe, as a sector.
SectorChange(b, universe, now, past) ==
  Median(Changes(Isins(PeerGroup(b, universe)), now, past))

Abs(x) == IF x < 0 THEN -x ELSE x

BuildAttribution(bond, sector) ==
  IF sector < -Points(10) /\ Abs(bond - sector) < Points(5) THEN "sector_stress"
  ELSE IF Abs(sector) < Points(3) /\ bond < -Points(10) THEN "idiosyncratic_drop"
  ELSE "mixed"

-----------------------------------------------------------------------------
(* The radar over the whole market.                                        *)

FilterRadarUniverse(universe) ==
  {b \in universe :
     /\ ~b.default /\ ~b.technical /\ ~b.subordinated
     /\ b.sector # None /\ b.ytm # None /\ b.liquid}

\* RankSpreadAnomalies before its limit.
Anomalies(universe, rates) == {b \in universe : IsAnomaly(b, universe, rates)}

\* A plausible slip: the boundary counts.
IsDipOrAtIt(bond, sector) ==
  sector <= -Points(15) /\ bond <= sector - Points(5)

\* The fall of the sector is a panic and the bond fell clearly further.
IsDip(bond, sector) ==
  /\ sector < -Points(15)
  /\ bond < sector - Points(5)
  /\ BuildAttribution(bond, sector) # "idiosyncratic_drop"

\* RankDipIdeas before its limit.
Dips(universe, now, past) ==
  {b \in universe :
     /\ Priced(b.isin, now, past)
     /\ IsDip(Change(b.isin, now, past), SectorChange(b, universe, now, past))}

\* RankDipIdeas: the furthest below their sector first, then the best score.
Deeper(a, b, universe, now, past) ==
  LET excess(x) == Change(x.isin, now, past) - SectorChange(x, universe, now, past)
  IN excess(a) < excess(b) \/ (excess(a) = excess(b) /\ a.score > b.score)

\* The ideas that are kept: sort.Slice leaves it open which of two equals comes first.
DipIdeas(universe, now, past, limit) ==
  LET dips == Dips(universe, now, past)
  IN {kept \in SUBSET dips :
        /\ Cardinality(dips) <= limit => kept = dips
        /\ Cardinality(dips) > limit => Cardinality(kept) = limit
        /\ \A b \in kept : \A a \in dips \ kept : ~Deeper(a, b, universe, now, past)}

\* BuildSectorHeatmap
Heatmap(universe, now, past, anomalies, dips) ==
  LET priced(s) == {b \in universe : b.sector = s /\ Priced(b.isin, now, past)}
      sectors == {s \in {b.sector : b \in universe} : priced(s) # {}}
  IN [s \in sectors |->
        [change |-> Median(Changes(Isins(priced(s)), now, past)),
         bonds |-> Cardinality(priced(s)),
         anomalies |-> Cardinality({b \in anomalies : b.sector = s}),
         dips |-> Cardinality({b \in dips : b.sector = s})]]

\* ScanMarketRadar; dips are the ideas that were kept.
ScanMarketRadar(universe, now, past, rates, dips) ==
  LET liquid == FilterRadarUniverse(universe)
      anomalies == Anomalies(liquid, rates)
  IN [scanned |-> Cardinality(liquid),
      anomalies |-> Isins(anomalies),
      dips |-> Isins(dips),
      sectors |-> Heatmap(liquid, now, past, anomalies, dips)]
=============================================================================
