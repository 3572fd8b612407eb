---------------------------- MODULE MCPortfolio ----------------------------
(***************************************************************************)
(* A portfolio as a row that requests share, the plan that is computed     *)
(* from it, the risk baselines the notifier keeps in it, the broker token  *)
(* its requests use, the account's history since the attachment, and the   *)
(* advice on what to buy.  A plan and a profit are pure functions of what  *)
(* they were given, no edit of the account looks at the baselines, a token *)
(* is the same for every request, and advice is asked of a portfolio that  *)
(* stays attached, so a behaviour follows one of the six (focus) and the   *)
(* others rest.                                                            *)
(*                                                                         *)
(* Accounts: two portfolios of one owner, two sandbox accounts, two        *)
(* overlapping requests.  Plan: seven universes of up to five bonds, in    *)
(* one of them a bond that never matures, up to three seeds, also bought   *)
(* after today, a horizon of twelve days.  Risk: two bonds that start      *)
(* sound, fall below investment grade or in default, three moves of the    *)
(* market, one request of the owner, one failure.  Token: two handlers and *)
(* the notifier, two tokens, two writes, one failure.  Episode: two bonds, *)
(* one without a quote, planned or not, four operations on two days.       *)
(* Advice: four bonds, one of them held, two planned, one of these twice,  *)
(* four days, three turns of the owner, the market or a session.           *)
(***************************************************************************)
EXTENDS PortfolioAccounts, Integers, Sequences, TLC

CONSTANTS
  ISINs, MaxPositionShare, TargetPositionShare, MinPositionShare, MaxSectorShare,
  MaxIssuerShare, MinPositionAmount, MinAutoPositions, MaxAutoPositions,
  MinReplacementHorizon, Inputs, Today, ReinvestmentGapDays, MaxReinvestDepth, TaxRate,
  Watched, Risks, InvestmentGradeMin, DistressMax, MajorDowngradeSteps, MaxMoves, MaxEdits,
  MaxFetches,
  Tokens, Trading, Watcher, TTL, MaxGet, MaxTime, MaxWrites,
  Papers, Unquoted, Prices, Face, Funds, WaveGap, MaxQty, MaxOps, MaxDays,
  OfferedBonds, PlannedBonds, Account, Quotes, Horizon, MinBuyCash, ReinvestWatch,
  OfferReminder, DriftStale, Budgets, Rounds, MaxDay, MaxTurns

VARIABLES
  focus, in, pc, cash, book, queue, seq, days, journal, slots, frame,
  risk, listed, held, baselines, scan, request, inbox, accepted, lost, left, reported, moves,
  edits, fetches,
  now, credential, drawn, plain, call, served, stored, overlapped, unread, writes,
  today, money, qty, ops, start, startDay, run, opening, fundedSince, basis,
  day, quote, owned, purse, orders, session, shown, turns

Plan == INSTANCE PlanSimulation
Monitor == INSTANCE RiskMonitor WITH
  Held <- Watched, row <- baselines, requests <- edits, MaxRequests <- MaxEdits
Token == INSTANCE Credentials WITH ids <- drawn, blind <- unread
Episode == INSTANCE TradingEpisode WITH
  Bonds <- Papers, Quote <- [b \in Papers |-> IF b \in Unquoted THEN 0 ELSE 24]
Advisor == INSTANCE Advice WITH
  Bonds <- OfferedBonds, Planned <- PlannedBonds, ReinvestmentGap <- ReinvestmentGapDays,
  today <- day, money <- purse, lots <- owned

\* Finitely many bonds are watched, and None and Idle are none of what they stand beside.
ASSUME RiskAssumption ==
  /\ IsFiniteSet(Watched) /\ None \notin Watched /\ None \notin Risks
  /\ None \notin Monitor!Baselines
  /\ Idle \notin Monitor!Scans /\ Idle \notin Monitor!Requests

\* A copy lives a while, and nothing is taken for Idle or None that is neither.
ASSUME TokenAssumption ==
  /\ TTL \in Nat \ {0} /\ MaxGet \in Nat
  /\ Idle \notin Token!Calls /\ None \notin Token!Row /\ None \notin Token!Copies

\* A bond may mature, and be put on the day of its offer; what the portfolio has is a
\* sequence of positions, none of them closed.  Prices are whole, and the exchange's
\* list is read into a map by ISIN.
HasDates(b) ==
  /\ {"maturity", "offer", "coupon", "period", "next"} \subseteq DOMAIN b
  /\ b.maturity \in Int \cup {None}
  /\ b.offer # None => b.offer.date \in Int

HasPrices(b) ==
  /\ {"lot", "face", "clean", "coupon"} \subseteq DOMAIN b
  /\ b.lot \in Nat /\ b.face \in Int /\ b.clean \in Int /\ b.coupon \in Int
  /\ b.offer # None => b.offer.price \in Int

IsPosition(p) ==
  /\ {"bond", "from", "decision", "closed"} \subseteq DOMAIN p
  /\ HasDates(p.bond) /\ p.from \in Int

ASSUME PlanAssumption ==
  /\ Today \in Int /\ ReinvestmentGapDays \in Int
  /\ \A i \in Inputs :
       /\ i.horizon \in Int
       /\ \A k \in DOMAIN i.universe : HasDates(i.universe[k])
       /\ i.seeds \in Seq({i.seeds[k] : k \in DOMAIN i.seeds})
       /\ \A k \in DOMAIN i.seeds : IsPosition(i.seeds[k]) /\ ~i.seeds[k].closed

ASSUME CashAssumption ==
  /\ TaxRate \in Int
  /\ MaxPositionShare \in Nat /\ MinPositionShare \in Nat /\ MinPositionAmount \in Nat
  /\ TargetPositionShare \in Nat \ {0} /\ MinAutoPositions \in Nat \ {0}
  /\ MaxAutoPositions \in Nat
  /\ \A i \in Inputs :
       /\ i.cash \in Int
       /\ i.universe \in Seq({i.universe[k] : k \in DOMAIN i.universe})
       /\ \A k \in DOMAIN i.universe :
            HasPrices(i.universe[k]) /\ i.universe[k].isin \in ISINs
       /\ \A j, k \in DOMAIN i.universe : i.universe[j].isin = i.universe[k].isin => j = k
       /\ \A k \in DOMAIN i.seeds :
            /\ {"lots", "cost"} \subseteq DOMAIN i.seeds[k]
            /\ HasPrices(i.seeds[k].bond)
            /\ i.seeds[k].lots \in Nat /\ i.seeds[k].cost \in Int

\* The universe is one bond to an ISIN; the plan may have a bond twice.
ASSUME AdviceAssumption ==
  /\ Rounds \in Nat
  /\ OfferedBonds \in Seq({OfferedBonds[k] : k \in DOMAIN OfferedBonds})
  /\ \A k \in DOMAIN OfferedBonds : {"isin", "lot", "offer"} \subseteq DOMAIN OfferedBonds[k]
  /\ \A j, k \in DOMAIN OfferedBonds : OfferedBonds[j].isin = OfferedBonds[k].isin => j = k
  /\ PlannedBonds \in Seq({PlannedBonds[k] : k \in DOMAIN PlannedBonds})

\* Finitely many papers, and whole amounts and days.
ASSUME EpisodeAssumption ==
  /\ IsFiniteSet(Papers) /\ WaveGap \in Nat
  /\ Prices \subseteq Int /\ Face \in Int /\ Funds \in Int

-----------------------------------------------------------------------------
Bond(isin, lot, maturity, sector, issuer) ==
  [isin |-> isin, lot |-> lot, face |-> lot + 2, clean |-> lot, coupon |-> 2, period |-> 3,
   next |-> None, maturity |-> maturity, offer |-> None, sector |-> sector,
   issuer |-> issuer, fits |-> {"conservative", "normal", "aggressive"},
   default |-> FALSE, cheap |-> FALSE, tradable |-> TRUE, long |-> FALSE]

Offer(date, opens, end, price) == [date |-> date, start |-> opens, end |-> end, price |-> price]

A == Bond("a", 9, 6, "s", "x")
B == Bond("b", 13, 8, "s", "y")
C == [Bond("c", 2, 12, "t", "x") EXCEPT !.next = 4, !.coupon = 1]
D == [Bond("d", 20, 11, None, None) EXCEPT !.fits = {"aggressive"}, !.long = TRUE]
E == [Bond("e", 11, 12, "t", "z") EXCEPT !.tradable = FALSE, !.coupon = 0]
Gone == [Bond("g", 10, 3, "s", "x") EXCEPT !.period = 2]
Endless == [A EXCEPT !.maturity = None, !.offer = Offer(7, 2, 5, 11)]

Offers(lot) == {None, Offer(4, 1, 3, lot + 2), Offer(7, 2, 5, lot + 2),
                Offer(7, None, None, lot + 2)}

Universes == {<<[A EXCEPT !.offer = o], B, C, D, E>> : o \in Offers(9)}
  \cup {<<Endless, [B EXCEPT !.maturity = None], C>>}
  \cup {<<D, [C EXCEPT !.offer = o], [B EXCEPT !.default = TRUE], A>> : o \in {None, Offer(7, 2, 5, 9)}}

Position(b, lots, from, decision, generation) ==
  [bond |-> b, lots |-> lots, cost |-> b.lot, from |-> from, decision |-> decision,
   generation |-> generation, closed |-> FALSE]

Seeds == {<<>>,
          <<Position(Gone, 1, -2, "pending", 0)>>,
          <<Position([Gone EXCEPT !.maturity = 12, !.period = 12], 1, 0, "pending", 0)>>,
          <<Position([A EXCEPT !.maturity = 3], 3, -1, "exercise", 0), Position(Gone, 2, 0, "hold", 1)>>,
          <<Position(C, 1, -5, "pending", 0), Position(B, 1, 2, "pending", 0),
            Position(Gone, 3, -4, "pending", 0)>>,
          <<Position([Gone EXCEPT !.maturity = -1], 2, -6, "pending", 0),
            Position([A EXCEPT !.offer = Offer(4, 1, 3, 9)], 2, -3, "exercise", 0)>>}

Confirmed == {[i \in ISINs |-> None], [i \in ISINs |-> IF i = "g" THEN "b" ELSE None],
              [i \in ISINs |-> IF i = "g" THEN "d" ELSE IF i = "a" THEN "c" ELSE "g"]}

MCInputs ==
  {[universe |-> u, horizon |-> 12, profile |-> p, apiOnly |-> api, guarded |-> g,
    mode |-> m, best |-> m = "simulation", cash |-> c, seeds |-> s, confirmed |-> f] :
     u \in Universes, p \in {"normal", "aggressive"}, api \in BOOLEAN, g \in BOOLEAN,
     m \in {"simulation", "trading"}, c \in {4, 11, 120}, s \in Seeds, f \in Confirmed}

-----------------------------------------------------------------------------
\* Half way, a is redeemed, then g would be; b has a put offer and moves.
Matured == [A EXCEPT !.maturity = 2]
Lapsed == [Gone EXCEPT !.maturity = 1]
Puttable == [B EXCEPT !.offer = Offer(7, 2, 3, 15)]

MCOfferedBonds == <<Matured, Puttable, C, Lapsed>>

MCPlannedBonds ==
  <<[bond |-> Lapsed, lots |-> 1, decision |-> "pending"],
    [bond |-> [B EXCEPT !.offer = Offer(3, 1, 2, 15)], lots |-> 1, decision |-> "exercise"],
    [bond |-> Lapsed, lots |-> 2, decision |-> "pending"]>>

MCAccount == [lots |-> [i \in ISINs |-> IF i = "a" THEN 2 ELSE 0], money |-> 5]

MCQuotes == [i \in ISINs |-> IF i = "b" THEN {13, 14, 0} ELSE IF i = "a" THEN {9}
                             ELSE IF i = "c" THEN {2} ELSE {10}]

-----------------------------------------------------------------------------
MCDistress == -4

Untroubled == [default |-> FALSE, technical |-> FALSE, rating |-> 8]

MCRisks ==
  {Untroubled, [Untroubled EXCEPT !.rating = 1],
   [Untroubled EXCEPT !.default = TRUE, !.rating = -5]}

planVars == <<in, pc, cash, book, queue, seq, days, journal, slots, frame>>
riskVars == <<risk, listed, held, baselines, scan, request, inbox, accepted, lost, left,
              reported, moves, edits, fetches>>
tokenVars == <<now, credential, drawn, plain, call, served, stored, overlapped, unread,
               writes>>
episodeVars == <<today, money, qty, ops, start, startDay, run, opening, fundedSince, basis>>
adviceVars == <<day, quote, owned, purse, orders, session, shown, turns>>
otherVars == <<planVars, riskVars, tokenVars, episodeVars, adviceVars>>

PortfolioInit ==
  /\ focus \in {"accounts", "plan", "risk", "token", "episode", "advice"}
  /\ Init
  /\ IF focus = "plan" THEN Plan!Init
     ELSE /\ in = None /\ pc = "rest" /\ cash = 0 /\ seq = 0 /\ frame = Idle
          /\ book = <<>> /\ queue = {} /\ days = {} /\ journal = <<>> /\ slots = <<>>
  /\ IF focus = "risk"
     THEN /\ Monitor!Init /\ risk \in [Watched -> {Untroubled}]
          /\ held = {} \/ (Cardinality(held) = 1 /\ listed = Watched)
     ELSE /\ risk = None /\ listed = {} /\ held = {} /\ baselines = None /\ scan = Idle
          /\ request = Idle /\ inbox = {} /\ accepted = [b \in Watched |-> None]
          /\ lost = {} /\ left = {} /\ reported = accepted /\ moves = 0 /\ edits = 0 /\ fetches = 0
  /\ IF focus = "token" THEN Token!Init
     ELSE /\ now = 0 /\ credential = None /\ drawn = 0 /\ plain = Idle /\ call = Idle
          /\ served = 0 /\ stored = Idle /\ writes = 0
          /\ overlapped = FALSE /\ unread = FALSE
  /\ Episode!Init
  /\ Advisor!Init

PortfolioNext ==
  /\ UNCHANGED focus
  /\ \/ focus = "accounts" /\ Next /\ UNCHANGED otherVars
     \/ /\ focus = "plan" /\ Plan!Next
        /\ UNCHANGED <<vars, riskVars, tokenVars, episodeVars, adviceVars>>
     \/ /\ focus = "risk" /\ Monitor!Next
        /\ UNCHANGED <<vars, planVars, tokenVars, episodeVars, adviceVars>>
     \/ /\ focus = "token" /\ Token!Next
        /\ UNCHANGED <<row, ids, acct, job, requests, raced, blind, removed>>
        /\ UNCHANGED <<planVars, riskVars, episodeVars, adviceVars>>
     \/ /\ focus = "episode" /\ Episode!Next
        /\ UNCHANGED <<vars, planVars, riskVars, tokenVars, adviceVars>>
     \/ /\ focus = "advice" /\ Advisor!Next
        /\ UNCHANGED <<vars, planVars, riskVars, tokenVars, episodeVars>>

PortfolioSpec == PortfolioInit /\ [][PortfolioNext]_<<vars, otherVars, focus>>

Symmetry ==
  Permutations(Portfolios) \cup Permutations(Accounts)
    \cup Permutations(Bonds) \cup Permutations(Threads)
    \cup Permutations(Watched)

\* The properties of the instances, under the names they have there.
SpendsWithinCash == Plan!SpendsWithinCash
CapsHold == Plan!CapsHold
PositionsEndOnce == Plan!PositionsEndOnce
PlanAddsUp == Plan!PlanAddsUp
WorseningIsTold == Monitor!WorseningIsTold
StoredOpens == Token!StoredOpens
ServedIsRecent == Token!ServedIsRecent
ProfitIsEarned == Episode!ProfitIsEarned
AdviceIsNeverMuted == Advisor!AdviceIsNeverMuted
ItemsAreDistinct == Advisor!ItemsAreDistinct
=============================================================================
