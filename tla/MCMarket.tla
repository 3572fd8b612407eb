------------------------------ MODULE MCMarket ------------------------------
(***************************************************************************)
(* Market data on one small instance: the caches of the universe, the key  *)
(* rate in two processes, the readings of the quotes by the notifier, and  *)
(* the screener.  The caches meet only in InvalidateAllBondCaches, which   *)
(* the universe may take at any time, and the readings and the screener    *)
(* take whatever a load returns, so a behaviour follows one of the four    *)
(* (focus) and the others rest.                                            *)
(*                                                                         *)
(* Readings: two days and one move, of the quotes from a calm market to    *)
(* one of ten others around the thresholds or of the key rate, and one     *)
(* statement that fails; h and k may be held, p and q are the peers of h.  *)
(* Screener: two bonds of one yield (five of them) and every two of seven  *)
(* qualities, a floater and a callable; up to three pages, one reload.     *)
(***************************************************************************)
EXTENDS BondUniverse, Integers, Sequences, TLC

CONSTANTS
  Procs, RateTTL, MaxRate,
  Markets, Holders, Keys, OwnerTax, ServiceTax, Outages,
  Lag, MaxSectorShare, MaxDips, MaxDay, MaxMoves,
  InvestmentGradeMin, DistressMax, MajorDowngradeSteps, MinPeers, MaxRatingNotches,
  MaxDurationDiff,
  PolicyRate, TaxRate, Lists, Queries, DefaultSize, MaxSize, ExportSize, MaxPage

VARIABLES
  focus, cbr, until, setting, mem, frame, answer, told, damaged,
  portfolio, today, universe, key, table, phase, alerts, run, swings, losses,
  lists, load, asked, ranking, pages

KR == INSTANCE KeyRate
Radar == INSTANCE MarketRadar WITH Portfolios <- Holders
Screen == INSTANCE Screening WITH KeyRate <- PolicyRate

\* The first rate is published, an answer lives a while, and nothing is taken for Idle
\* or None that is neither.
ASSUME MarketAssumption ==
  /\ RateTTL \in Nat \ {0} /\ MaxRate \in Nat \ {0}
  /\ Idle \notin KR!Calls /\ None \notin KR!Answers

\* A page has a size, and nothing a list is made of is taken for None.
IsListed(b) ==
  /\ b.ytm \in Int \cup {None} /\ b.coupon \in Int \cup {None}
  /\ b.duration \in Int \cup {None} /\ b.volume \in Int
  /\ b.rating \in -6 .. Screen!Unlisted \cup {None}
  /\ b.level \in DOMAIN Screen!RiskBase

ASSUME ScreenAssumption ==
  /\ PolicyRate \in Int /\ TaxRate \in Int /\ None \notin Int
  /\ {DefaultSize, MaxSize, ExportSize} \subseteq Nat \ {0}
  /\ \A q \in Queries :
       /\ {"profile", "scenario", "sort", "desc", "size", "export"} \subseteq DOMAIN q
       /\ q.size \in Int /\ q.profile \in Screen!Profiles
       /\ Screen!Normalised(q) # None
  /\ \A s \in Lists :
       /\ s \in Seq({s[k] : k \in DOMAIN s}) /\ s # <<>>
       /\ \A k \in DOMAIN s :
            IsFiniteSet(s[k]) /\ (\A b \in s[k] : IsListed(b)) /\ None \notin Seq(s[k])

\* A bond is once in what a load returns, and a signal looks back a day or more.
ASSUME RadarAssumption ==
  /\ Lag \in Nat \ {0} /\ MaxDips \in Nat \ {0} /\ MinPeers \in Nat \ {0} /\ MaxDay \in Nat
  /\ Keys \subseteq Int /\ OwnerTax \in Int /\ ServiceTax \in Int
  /\ \A u \in Markets :
       /\ IsFiniteSet(u)
       /\ \A b \in u : /\ b.ytm \in Int \cup {None} /\ b.price \in Int \cup {None}
                       /\ Radar!Risk!RiskOf(b) # None
       /\ \A b, c \in u : b.isin = c.isin => b = c
       /\ \A p \in Holders : /\ {"lots", "baselines", "turbo"} \subseteq DOMAIN p
                             /\ {b.isin : b \in u} \subseteq DOMAIN p.baselines

-----------------------------------------------------------------------------
Quote(isin, price, ytm, rating, default) ==
  [isin |-> isin, sector |-> "s", rating |-> rating, duration |-> 1, liquid |-> TRUE,
   ytm |-> ytm, price |-> price, score |-> IF isin = "h" THEN 2 ELSE 1,
   lot |-> IF isin = "k" THEN 30 ELSE 10,
   default |-> default, technical |-> FALSE, subordinated |-> FALSE, fits |-> TRUE]

\* h and k may be held; p and q are their peers.
Quotes(h, k, peers, hytm, pytm, rating, default) ==
  {Quote("h", h, hytm, rating, FALSE), [Quote("k", k, 30, 10, FALSE) EXCEPT !.sector = "t"],
   Quote("p", peers, pytm, 10, FALSE), Quote("q", peers, pytm, 10, default)}

\* h pays what its peers pay, or forty points more.
Calm == {Quotes(100, 100, 100, 30, 30, 10, FALSE), Quotes(100, 100, 100, 120, 40, 10, FALSE)}

MCQuotes ==
  Calm
    \cup {Quotes(h, 100, 80, 30, 30, 10, FALSE) : h \in {74, 75}}
    \cup {Quotes(74, 100, 80, 30, 30, 9, FALSE), Quotes(74, 100, 80, 30, 30, 10, TRUE)}
    \cup {Quotes(79, 100, 85, 30, 30, 10, FALSE), Quotes(88, 100, 88, 30, 30, 10, FALSE),
          Quotes(70, None, 80, None, 30, 10, FALSE)}
    \cup {Quotes(100, 100, 100, 40, y, 10, FALSE) : y \in {30, 40}}

MCOutages == {{"h"}, {"p", "q"}}

NoBaselines == [i \in {"h", "k", "p", "q"} |-> None]
MCHolders ==
  {[lots |-> [i \in {"h", "k", "p", "q"} |-> IF i = "h" \/ (i = "k" /\ ~t) THEN 1 ELSE 0],
    baselines |-> NoBaselines, turbo |-> t] : t \in BOOLEAN}

-----------------------------------------------------------------------------
\* Two bonds of one yield and two qualities, a floater without a yield and a callable.
Paper(isin, ytm, level, rating, burdened) ==
  [isin |-> isin, ytm |-> ytm, coupon |-> 12, callable |-> FALSE, type |-> "fixed",
   level |-> level, rating |-> rating, amortised |-> burdened, subordinated |-> burdened,
   volume |-> 50, duration |-> 30, days |-> 900, toMaturity |-> 900, default |-> FALSE,
   lot |-> 10, sector |-> "s"]

Qualities ==
  {<<"low", 12, FALSE>>, <<"low", 3, FALSE>>, <<"low", 2, FALSE>>, <<"low", None, FALSE>>,
   <<"low", 12, TRUE>>, <<"high", 3, FALSE>>, <<"moderate", -3, FALSE>>}

Twin(isin, ytm, q) == Paper(isin, ytm, q[1], q[2], q[3])
Floater == [Paper("f", None, "unknown", 13, FALSE) EXCEPT !.type = "floating",
            !.volume = 120, !.duration = None, !.days = None, !.default = TRUE]
Callable == [Paper("g", 68, "moderate", 5, FALSE) EXCEPT !.callable = TRUE, !.duration = 10,
             !.days = 200, !.toMaturity = None, !.volume = 0, !.type = "variable"]

MCLists ==
  {<<{Twin("a", y, p), Twin("b", y, q), Floater, Callable},
     {Twin("a", 20, p), Twin("b", 20, q), Callable}>>
     : y \in {10, 25, 45, 55, 70}, p \in Qualities, q \in Qualities}

Query == [profile |-> "normal", scenario |-> "hold", sort |-> "score", desc |-> None, size |-> 2,
          export |-> FALSE, by |-> "effective", hideDefault |-> FALSE,
          hideSubordinated |-> FALSE, maxDays |-> None, minVolume |-> None, minYTM |-> None,
          maxLot |-> None, types |-> {}, levels |-> {}, sectors |-> {}, search |-> None]
MCQueries ==
  {[Query EXCEPT !.profile = p, !.scenario = s] :
     p \in {"conservative", "aggressive"}, s \in {"hold", "cut", "hike"}}
    \cup {[Query EXCEPT !.sort = s, !.desc = FALSE] : s \in {"ytm_net", "days_to_maturity", "volume"}}
    \cup {[Query EXCEPT !.export = TRUE, !.hideDefault = TRUE, !.sort = None],
          [Query EXCEPT !.size = 0, !.hideSubordinated = TRUE, !.minYTM = 900],
          [Query EXCEPT !.size = 9, !.by = "maturity", !.maxDays = 300],
          [Query EXCEPT !.types = {"fixed"}, !.levels = {"low", "high"}, !.sectors = {"s"},
             !.search = {"a", "b", "g"}, !.minVolume = 1, !.maxLot = 20]}

-----------------------------------------------------------------------------
rateVars == <<cbr, until, setting, mem, frame, answer, told, damaged>>
universeVars == <<ram, file, tmp, brokerRam, brokerFile, flags, ratings, job, admin,
                  refreshed, cleared, loads>>
screenVars == <<lists, load, asked, ranking, pages>>
radarVars == <<portfolio, today, universe, key, table, phase, alerts, run, swings, losses>>

MarketInit ==
  /\ focus \in {"rate", "universe", "radar", "screen"}
  /\ Init
  /\ KR!Init
  /\ IF focus = "radar" THEN Radar!Init /\ universe \in Calm
     ELSE /\ portfolio = None /\ universe = {} /\ table = <<>> /\ phase = "rest"
          /\ alerts = None /\ run = None /\ today = 0 /\ key = 0 /\ swings = 0 /\ losses = 0
  /\ IF focus = "screen" THEN Screen!Init
     ELSE lists = None /\ load = 1 /\ asked = None /\ ranking = None /\ pages = <<>>

MarketNext ==
  \/ focus = "universe" /\ Next /\ UNCHANGED <<rateVars, radarVars, screenVars, focus>>
  \/ focus = "rate" /\ KR!Next /\ UNCHANGED <<universeVars, radarVars, screenVars, focus>>
  \/ focus = "radar" /\ Radar!Next /\ UNCHANGED <<vars, rateVars, screenVars, focus>>
  \/ focus = "screen" /\ Screen!Next /\ UNCHANGED <<vars, rateVars, radarVars, focus>>

MarketSpec == MarketInit /\ [][MarketNext]_<<vars, rateVars, radarVars, screenVars, focus>>

Symmetry == Permutations(Threads) \cup Permutations(Procs)

\* The properties of the two instances, under the names they have there.
RateIsRecent == KR!RateIsRecent
ChangesAreTold == KR!ChangesAreTold
ReadingsAgree == Radar!ReadingsAgree
WideningIsReal == Radar!WideningIsReal
SaferComesFirst == Screen!SaferComesFirst
PagesAreTheList == Screen!PagesAreTheList
=============================================================================
