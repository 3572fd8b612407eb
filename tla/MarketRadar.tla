---------------------------- MODULE MarketRadar ----------------------------
(***************************************************************************)
(* One cycle of the notifier over the market's quotes, day by day: the     *)
(* scan of a trading portfolio writes the day's rows of its holdings and   *)
(* their peers and reports what a week of rows says about the holdings;    *)
(* the market radar then writes the rows of the whole liquid universe and  *)
(* keeps its own reading of them as the run the API serves.                *)
(*                                                                         *)
(* The two use the same rows and thresholds but separate code, their own   *)
(* universes, and the tax rate of the owner or of the service.  Rows are   *)
(* written and read one statement after the other, and the errors of the   *)
(* statements are dropped.                                                 *)
(***************************************************************************)
EXTENDS MarketSignals, Sequences

CONSTANTS
  Markets,               \* universes a load may return
  Portfolios,            \* the trading portfolios to choose one from
  Keys,                  \* key rates, in half points as yields are
  OwnerTax, ServiceTax,  \* percent
  Outages,               \* the sets of bonds whose rows may fail to be written at once
  Lag,                   \* days between the two rows of a signal
  MaxSectorShare,        \* percent
  MaxDips, MaxDay, MaxMoves, MaxFaults,
  InvestmentGradeMin, DistressMax, MajorDowngradeSteps

Risk == INSTANCE RiskRules

VARIABLES
  portfolio,             \* [lots (isin -> lots), baselines, turbo]
  today,
  universe, key,         \* what a load of the universe, and of the key rate, returns now
  table,                 \* spread_snapshots: day -> isin -> row
  phase,                 \* "idle", or "radar" when the portfolio was scanned
  alerts,                \* the last scan, and what it had before it: [day, portfolio,
                         \* universe, past (isins), now (rows), alerts]
  run,                   \* the last radar run, None before the first
  swings, losses         \* bounded: moves of the market, statements that failed

radarVars == <<portfolio, today, universe, key, table, phase, alerts, run, swings, losses>>

NoRows == [i \in {} |-> None]

Init ==
  /\ portfolio \in Portfolios
  /\ today = 0
  /\ universe \in Markets /\ key \in Keys
  /\ table = [d \in 0..MaxDay |-> NoRows]
  /\ phase = "idle"
  /\ alerts = None
  /\ run = None
  /\ swings = 0
  /\ losses = 0

-----------------------------------------------------------------------------
(* Rows.                                                                   *)

Rates(tax) == [key |-> key, tax |-> tax]

\* The row of a bond, and, for the properties only, what it was taken from.
Row(b, rates) ==
  [spread |-> CreditSpread(b, rates), price |-> b.price, ytm |-> b.ytm, rates |-> rates]

\* Upsert of every bond with a yield over the rows of the day, but for those it failed
\* for: what they have for the day stays.
Written(rows, bonds, rates, unwritten) ==
  LET fresh == {b \in bonds : b.ytm # None /\ b.isin \notin unwritten}
  IN [i \in DOMAIN rows \cup Isins(fresh) |->
        IF i \in Isins(fresh) THEN Row(CHOOSE b \in fresh : b.isin = i, rates) ELSE rows[i]]

\* ListByISINsAndDate
Listed(day, isins) ==
  IF day < 0 THEN NoRows
  ELSE [i \in DOMAIN table[day] \cap isins |-> table[day][i]]

\* The statements that failed are counted.
Lose(failed) ==
  /\ losses' = losses + Cardinality(failed)
  /\ losses' <= MaxFaults

Unwritten(failed) == IF "write" \in failed THEN Outages ELSE {{}}

-----------------------------------------------------------------------------
(* The scan of the portfolio.                                              *)

Holding(bonds) == {b \in bonds : portfolio.lots[b.isin] > 0}

\* The holdings and the peers of each.
ScanUniverse(bonds) ==
  Holding(bonds) \cup UNION {PeerGroup(b, bonds) : b \in Holding(bonds)}

Alert(kind, b) == [kind |-> kind, isin |-> b.isin]

\* A plausible slip: the peers' widening is not subtracted.
OwnWidening(b, peers, now, past) ==
  /\ b.isin \in DOMAIN now /\ b.isin \in DOMAIN past
  /\ now[b.isin].spread - past[b.isin].spread >= NetPoints(5)

Widening(b, peers, now, past) ==
  LET both == {i \in Isins(peers) : i \in DOMAIN now /\ i \in DOMAIN past}
  IN /\ b.isin \in DOMAIN now /\ b.isin \in DOMAIN past
     /\ IsSpreadWidening(now[b.isin].spread - past[b.isin].spread,
                         [i \in both |-> now[i].spread - past[i].spread])

Escalates(b, baselines) ==
  LET baseline == baselines[b.isin]
  IN baseline # None /\ Risk!DetectRiskEscalations(baseline, Risk!RiskOf(b)) # <<>>

\* A tactical buy while the sector panics.
TurboEntry(b, bond, sector, baselines) ==
  /\ portfolio.turbo
  /\ sector < -Points(15)
  /\ bond < sector - Points(5)
  /\ baselines[b.isin] # None /\ ~Escalates(b, baselines)
  /\ b.fits

TemporalAlerts(b, bonds, now, past, baselines) ==
  LET bond == Change(b.isin, now, past)
      sector == SectorChange(b, bonds, now, past)
      when(kind, condition) == IF condition THEN {Alert(kind, b)} ELSE {}
  IN IF b.sector = None \/ ~Priced(b.isin, now, past) THEN {}
     ELSE when("sector_stress", BuildAttribution(bond, sector) = "sector_stress")
          \cup when("spread_widening", Widening(b, PeerGroup(b, bonds), now, past))
          \cup when("turbo_entry", TurboEntry(b, bond, sector, baselines))

\* SectorConcentrationRule, ExposureBySector: value by the price of a lot.
Overweight(bonds) ==
  LET value(b) == portfolio.lots[b.isin] * b.lot
      valued == {b \in Holding(bonds) : b.lot > 0}
      total(some) == MapThenSumSet(value, some)
  IN {s \in {b.sector : b \in valued} \ {None} :
        100 * total({b \in valued : b.sector = s}) > MaxSectorShare * total(valued)}

\* WorkerAlertRules but for the put offers.
RuleAlerts(bonds, baselines, rates) ==
  {Alert("risk_escalation", b) : b \in {h \in Holding(bonds) : Escalates(h, baselines)}}
    \cup {Alert("spread_anomaly", b) : b \in {h \in Holding(bonds) : IsAnomaly(h, bonds, rates)}}
    \cup {[kind |-> "sector_concentration", isin |-> s] : s \in Overweight(bonds)}

\* The baselines are synchronised first.  Each of these may fail: reading the owner's tax
\* (the service's is taken), the save of the baselines, the rows of some of the bonds,
\* either list of rows.
ScanPortfolio ==
  LET bonds == ScanUniverse(universe)
      holding == Isins(Holding(universe))
      risks == [i \in holding |-> Risk!RiskOf(CHOOSE b \in universe : b.isin = i)]
      baselines == Risk!SyncRiskBaselines(portfolio.baselines, holding, risks)
      synced == [portfolio EXCEPT !.baselines = baselines]
  IN /\ phase = "idle" /\ holding # {}
     /\ \E failed \in SUBSET {"tax", "save", "write", "past", "now"} :
          /\ Lose(failed)
          /\ portfolio' = IF "save" \in failed THEN portfolio ELSE synced
          /\ \E unwritten \in Unwritten(failed) :
               LET rates == Rates(IF "tax" \in failed THEN ServiceTax ELSE OwnerTax)
                   rows == Written(table[today], bonds, rates, unwritten)
                   past == IF "past" \in failed THEN NoRows ELSE Listed(today - Lag, Isins(bonds))
                   now == IF "now" \in failed THEN NoRows
                          ELSE [i \in DOMAIN rows \cap Isins(bonds) |-> rows[i]]
               IN /\ table' = [table EXCEPT ![today] = rows]
                  /\ alerts' = [day |-> today, portfolio |-> synced, universe |-> universe,
                                past |-> DOMAIN past, now |-> now,
                                alerts |-> RuleAlerts(bonds, baselines, rates)
                                  \cup UNION {TemporalAlerts(b, bonds, now, past, baselines)
                                                : b \in Holding(bonds)}]
     /\ phase' = "radar"
     /\ UNCHANGED <<today, universe, key, run, swings>>

\* No token or no holdings: the cycle goes on to the radar.
SkipPortfolio ==
  /\ phase = "idle"
  /\ phase' = "radar"
  /\ UNCHANGED <<portfolio, today, universe, key, table, alerts, run, swings, losses>>

-----------------------------------------------------------------------------
(* The radar.                                                              *)

\* The rows it writes it also has in memory, those whose write failed included.
ScanRadar ==
  LET liquid == FilterRadarUniverse(universe)
      rates == Rates(ServiceTax)
      rows == Written(NoRows, liquid, rates, {})
  IN /\ phase = "radar"
     /\ \E failed \in SUBSET {"write", "past"} :
          /\ Lose(failed)
          /\ \E unwritten \in Unwritten(failed) :
               table' = [table EXCEPT ![today] = Written(@, liquid, rates, unwritten)]
          /\ LET past == IF "past" \in failed THEN NoRows ELSE Listed(today - Lag, Isins(liquid))
             IN \E dips \in DipIdeas(liquid, rows, past, MaxDips) :
                  run' = [day |-> today, universe |-> universe, past |-> DOMAIN past,
                          radar |-> ScanMarketRadar(universe, rows, past, rates, dips)]
     /\ phase' = "idle"
     /\ UNCHANGED <<portfolio, today, universe, key, alerts, swings>>

\* SaveRun fails: the rows of the day stay, the run does not.
LoseRun ==
  LET liquid == FilterRadarUniverse(universe)
  IN /\ phase = "radar"
     /\ \E failed \in SUBSET {"write", "run"} :
          /\ "run" \in failed /\ Lose(failed)
          /\ \E unwritten \in Unwritten(failed) :
               table' = [table EXCEPT ![today] =
                           Written(@, liquid, Rates(ServiceTax), unwritten)]
     /\ phase' = "idle"
     /\ UNCHANGED <<portfolio, today, universe, key, alerts, run, swings>>

\* GetRadarUseCase: the last run, its bonds marked with the portfolios whose
\* plan has them and its sectors with those of its marked ideas.
GetRadar(planned) ==
  IF run = None THEN [anomalies |-> {}, dips |-> {}, sectors |-> {}, marked |-> {}]
  ELSE [anomalies |-> run.radar.anomalies, dips |-> run.radar.dips,
        sectors |-> DOMAIN run.radar.sectors,
        marked |-> planned \cap (run.radar.anomalies \cup run.radar.dips)]

-----------------------------------------------------------------------------
(* The world.                                                              *)

\* Quotes move, or the key rate does.
Swing ==
  /\ swings < MaxMoves
  /\ swings' = swings + 1
  /\ \/ universe' \in Markets \ {universe} /\ key' = key
     \/ key' \in Keys \ {key} /\ universe' = universe
  /\ UNCHANGED <<portfolio, today, table, phase, alerts, run, losses>>

\* The notifier may be down for the whole day.
NextDay ==
  /\ phase = "idle" /\ today < MaxDay
  /\ today' = today + 1
  /\ UNCHANGED <<portfolio, universe, key, table, phase, alerts, run, swings, losses>>

Next == ScanPortfolio \/ SkipPortfolio \/ ScanRadar \/ LoseRun \/ Swing \/ NextDay

Spec == Init /\ [][Next]_radarVars

-----------------------------------------------------------------------------
(* Properties.                                                             *)

\* The scan and the radar looked at the same quotes and rows.
SameReading ==
  /\ phase = "idle" /\ alerts # None /\ run # None
  /\ alerts.day = run.day /\ alerts.universe = run.universe

Raised(kind) == {a.isin : a \in {x \in alerts.alerts : x.kind = kind}}

\* The two readings of one market agree: a holding the radar may show is a dip
\* idea exactly when the scan finds it fit for a turbo entry, but for what the
\* portfolio itself asks of one and for the radar's limit.  Left out are a bond with a
\* peer in default, which only the scan counts as a peer, and a bond for which, or for
\* a peer of which, one of the two lost the rows of the past, or the scan did not
\* find its own row of today: the write or the read of it failed and the error was
\* dropped (scan_use_case.go:202 and 215), while the radar goes by its memory.
ReadingsAgree ==
  SameReading =>
    LET liquid == FilterRadarUniverse(run.universe)
        mine == alerts.portfolio
        compared(b) == PeerGroup(b, liquid) \cup {b}
        comparable == {b \in liquid :
                         /\ mine.lots[b.isin] > 0
                         /\ PeerGroup(b, run.universe) \subseteq liquid
                         /\ Isins(compared(b)) \cap alerts.past = Isins(compared(b)) \cap run.past
                         /\ \A p \in compared(b) : /\ p.isin \in DOMAIN alerts.now
                                                   /\ alerts.now[p.isin].price = p.price}
        ideas == GetRadar({}).dips
    IN \A b \in comparable :
         /\ b.isin \in Raised("turbo_entry") =>
              b.isin \in ideas \/ Cardinality(ideas) = MaxDips
         /\ (/\ b.isin \in ideas /\ mine.turbo /\ b.fits
             /\ ~Escalates(b, mine.baselines)) => b.isin \in Raised("turbo_entry")

\* What a row's spread owes to the rates it was taken by and not to the quotes: the
\* yield counts less under a higher tax, and the riskless yield is taken away.
Owed(row) == Net(row.ytm, row.rates) - Net(row.rates.key, row.rates) - Net(row.ytm, Rates(OwnerTax))

\* A widening is the bond's own: between the rows of the two days its yield, net of the
\* owner's tax, rose five points more than its peers' yields, but for what the rates
\* made of the rows.  That is nothing when the rows were all taken by the owner's tax,
\* and those of a day by one key rate.  It is (yield - key rate) times the difference
\* of the taxes when the radar wrote the rows of the past, so that a bond that pays far
\* more than its peers may be said to widen while no quote moves; and a whole move of
\* the key rate when a row of the day is older than it, because its write failed.
WideningIsReal ==
  alerts # None =>
    LET now == alerts.now
        past == Listed(alerts.day - Lag, Isins(alerts.universe))
        known == {b \in alerts.universe : b.isin \in DOMAIN now \cap DOMAIN past}
        rise(b) == Net(now[b.isin].ytm - past[b.isin].ytm, Rates(OwnerTax))
        owed(b) == Owed(now[b.isin]) - Owed(past[b.isin])
    IN \A b \in known :
         LET peers == PeerGroup(b, alerts.universe) \cap known
         IN b.isin \in Raised("spread_widening") =>
              \E p \in peers :
                rise(b) - Median([q \in peers |-> rise(q)])
                  >= NetPoints(5) - (owed(b) - owed(p))
=============================================================================
