---------------------------- MODULE RiskMonitor ----------------------------
(***************************************************************************)
(* The watch over the issuers of the bonds a trading portfolio holds.  The *)
(* notifier scans: it reads the portfolio's row, the broker's holdings and *)
(* the market, keeps a risk baseline for every holding in the row, and     *)
(* reports what is worse than its baseline.  Meanwhile the owner may       *)
(* acknowledge a worsening, which makes the present state the baseline, or *)
(* edit the portfolio; both read the row and later write the whole of it.  *)
(*                                                                         *)
(* A bond outside the screener's universe is fetched one by one from MOEX, *)
(* which may fail: the scan then does not see that it is held.             *)
(*                                                                         *)
(* A scan that finds no bond returns before it touches the baselines, and  *)
(* one whose save fails goes on with what it has in memory.                *)
(*                                                                         *)
(* A report is its fingerprint <<bond, first kind>>, delivered once ever.  *)
(***************************************************************************)
EXTENDS RiskRules, FiniteSets, SequencesExt

CONSTANTS
  Held,                  \* the bonds
  Risks,                 \* the states an issuer may be in
  MaxMoves,              \* bound on changes of the market and of the holdings
  MaxRequests,           \* bound on the owner's requests
  MaxFetches,            \* bound on failed fetches, failed saves of a scan and failed deliveries
  Idle

VARIABLES
  risk,                  \* bond -> risk by MOEX and the rating agencies
  listed,                \* bonds of the screener's universe
  held,                  \* bonds on the broker's account
  row,                   \* the baselines in the portfolio's row
  scan,                  \* Idle or the frame of the notifier's scan
  request,               \* Idle or the frame of the owner's request
  inbox,                 \* fingerprints delivered
  accepted,              \* the risk a scan first saw a held bond at, or its owner acknowledged
  lost,                  \* bonds held at what the row may not say
  left,                  \* bonds not held whose baseline may still be in the row
  reported,              \* bond -> risk the last scan that ended has seen since the
                         \* owner took it or acknowledged, or None
  moves, requests, fetches

market == <<risk, listed, held>>
counters == <<moves, requests, fetches>>
riskVars == <<market, row, scan, request, inbox, accepted, lost, left, reported, counters>>

Nothing == [b \in Held |-> None]

\* Baselines in a row or a copy of it, and the frames of a scan and of a request.
Baselines == [Held -> Risks \cup {None}]

Kinds == {"default", "technical_default", "distress_rating", "ig_exit", "major_downgrade"}

Scans == [pc : {"market", "deliver"}, copy : Baselines, seen : Baselines,
          alerts : Seq(Held \X Kinds), voided : SUBSET Held]

Requests == [bond : Held, seen : Risks, copy : Baselines \cup {None}]
  \cup [bond : {None}, seen : {None}, copy : Baselines]

Init ==
  /\ risk \in [Held -> {r \in Risks : ~r.default /\ ~r.technical}]
  /\ listed \in SUBSET Held
  /\ held \in SUBSET Held
  /\ row = Nothing
  /\ scan = Idle
  /\ request = Idle
  /\ inbox = {}
  /\ accepted = Nothing
  /\ lost = {} /\ left = {}
  /\ reported = Nothing
  /\ moves = 0 /\ requests = 0 /\ fetches = 0

-----------------------------------------------------------------------------
(* The world: issuers, the screener's list, trades.                        *)

Issuer(b) ==
  \E r \in Risks \ {risk[b]} :
    risk' = [risk EXCEPT ![b] = r] /\ UNCHANGED <<listed, held>>

Listing(b) ==
  /\ listed' = IF b \in listed THEN listed \ {b} ELSE listed \cup {b}
  /\ UNCHANGED <<risk, held>>

Trade(b) ==
  /\ held' = IF b \in held THEN held \ {b} ELSE held \cup {b}
  /\ UNCHANGED <<risk, listed>>

Move ==
  /\ moves < MaxMoves
  /\ moves' = moves + 1
  /\ \E b \in Held : Issuer(b) \/ Listing(b) \/ Trade(b)
  /\ UNCHANGED <<row, scan, request, inbox, accepted, lost, left, reported, requests, fetches>>

-----------------------------------------------------------------------------
(* The scan.                                                               *)

\* What a save of saved, made of a row read as copy, takes from the row.
Overwritten(copy, saved) == {b \in Held : row[b] # copy[b] /\ saved[b] # row[b]}

\* accepted after a scan found these bonds at the broker and saw these risks.
Accepted(seen) ==
  [b \in Held |-> IF b \notin held THEN None
                  ELSE IF accepted[b] = None /\ b \in DOMAIN seen THEN seen[b] ELSE accepted[b]]

Kept(bonds, reference) == {b \in bonds : reference[b] # None}

ScanRead ==
  /\ scan = Idle
  /\ scan' = [pc |-> "market", copy |-> row, seen |-> Nothing, alerts |-> <<>>, voided |-> {}]
  /\ UNCHANGED <<market, row, request, inbox, accepted, lost, left, reported, counters>>

\* HoldingISINsFromSnapshot over the augmented universe.
Resolved(failing) == held \ (failing \ listed)

RiskEscalationRule(baselines, seen) ==
  LET worse == {b \in DOMAIN seen : baselines[b] # None
                                      /\ DetectRiskEscalations(baselines[b], seen[b]) # <<>>}
  IN {<<b, Head(DetectRiskEscalations(baselines[b], seen[b]))>> : b \in worse}

\* No bond at the broker, or none that the universe knows: the baselines stay as they are.
FindNothing ==
  LET reference == Accepted(<<>>)
  IN /\ scan' = Idle
     /\ accepted' = reference
     /\ lost' = Kept(lost, reference)
     /\ left' = {b \in Held : reference[b] = None /\ row[b] # None}
     /\ UNCHANGED <<row, reported>>

\* The baselines are synced in memory and saved when that changed them; the error of
\* the save is dropped.
SaveBaselines(holding, seen, fails) ==
  LET synced == SyncRiskBaselines(scan.copy, holding, seen)
      saved == IF synced = scan.copy \/ fails THEN row ELSE synced
      reference == Accepted(seen)
      dropped == {b \in held \ holding : ~fails /\ scan.copy[b] # None}
      unsaved == {b \in DOMAIN seen : fails /\ synced[b] # scan.copy[b]}
      stale == {b \in left : accepted[b] = None}
      remain == IF fails THEN Held ELSE left \cup {b \in Held : row[b] # scan.copy[b]}
  IN /\ fails => synced # scan.copy
     /\ row' = saved
     /\ accepted' = reference
     /\ lost' = Kept(lost \cup dropped \cup unsaved \cup stale \cup Overwritten(scan.copy, saved),
                     reference)
     /\ left' = {b \in remain : reference[b] = None /\ saved[b] # None}
     /\ reported' = [b \in Held |-> IF accepted[b] = None THEN None ELSE reported[b]]
     /\ scan' = [scan EXCEPT !.pc = "deliver",
                   !.seen = [b \in Held |-> IF b \in DOMAIN seen THEN seen[b] ELSE None],
                   !.alerts = SetToSeq(RiskEscalationRule(synced, seen))]

\* first and again are the bonds MOEX does not answer for in the two loads.
ScanMarket(first, again, fails) ==
  LET holding == Resolved(first)
      seen == [b \in holding \ (again \ listed) |-> risk[b]]
  IN /\ scan # Idle /\ scan.pc = "market"
     /\ \/ holding = {} /\ ~fails /\ FindNothing
        \/ holding # {} /\ SaveBaselines(holding, seen, fails)
     /\ fetches' = fetches + Cardinality((first \cup again) \ listed) + (IF fails THEN 1 ELSE 0)
     /\ fetches' <= MaxFetches
     /\ UNCHANGED <<market, request, inbox, moves, requests>>

\* TokenFor, GetAccountSnapshot: no key or no answer, the portfolio is left out.
ScanSkip ==
  /\ scan # Idle /\ scan.pc = "market"
  /\ fetches < MaxFetches
  /\ fetches' = fetches + 1
  /\ scan' = Idle
  /\ UNCHANGED <<market, row, request, inbox, accepted, lost, left, reported, moves, requests>>

\* ProcessAlert, one alert at a time; an error leaves the rest to the next scan.
Deliver ==
  /\ scan # Idle /\ scan.pc = "deliver" /\ scan.alerts # <<>>
  /\ \/ /\ inbox' = inbox \cup {Head(scan.alerts)}
        /\ scan' = [scan EXCEPT !.alerts = Tail(@)]
        /\ UNCHANGED fetches
     \/ /\ fetches < MaxFetches /\ fetches' = fetches + 1
        /\ scan' = Idle
        /\ UNCHANGED inbox
  /\ UNCHANGED <<market, row, request, accepted, lost, left, reported, moves, requests>>

ScanEnd ==
  /\ scan # Idle /\ scan.pc = "deliver" /\ scan.alerts = <<>>
  /\ reported' = [b \in Held |-> IF b \in scan.voided THEN None ELSE scan.seen[b]]
  /\ scan' = Idle
  /\ UNCHANGED <<market, row, request, inbox, accepted, lost, left, counters>>

-----------------------------------------------------------------------------
(* The owner's requests.                                                   *)

\* AcknowledgeRiskAlert loads the screener's universe, then reads the row;
\* an edit of something else only reads the row.
BeginAcknowledge(b) ==
  /\ b \in listed
  /\ request' = [bond |-> b, seen |-> risk[b], copy |-> None]

BeginEdit == request' = [bond |-> None, seen |-> None, copy |-> row]

Begin ==
  /\ request = Idle /\ requests < MaxRequests
  /\ requests' = requests + 1
  /\ (\E b \in Held : BeginAcknowledge(b)) \/ BeginEdit
  /\ UNCHANGED <<market, row, scan, inbox, accepted, lost, left, reported, moves, fetches>>

GetTradingPortfolio ==
  /\ request # Idle /\ request.copy = None
  /\ request' = [request EXCEPT !.copy = row]
  /\ UNCHANGED <<market, row, scan, inbox, accepted, lost, left, reported, counters>>

\* AcknowledgeRiskBaseline
Acknowledged(copy, b, seen) == [copy EXCEPT ![b] = seen]

\* The owner now holds b at what the acknowledgement saw, and a scan under way
\* speaks of the baseline before it.
SaveRequest ==
  /\ request # Idle /\ request.copy # None
  /\ LET b == request.bond
         saved == IF b = None THEN request.copy
                  ELSE Acknowledged(request.copy, b, request.seen)
         taken == Overwritten(request.copy, saved)
     IN /\ row' = saved
        /\ IF b = None
           THEN /\ lost' = Kept(lost \cup taken, accepted)
                /\ left' = {c \in left \cup taken : accepted[c] = None}
                /\ UNCHANGED <<accepted, reported, scan>>
           ELSE /\ accepted' = [accepted EXCEPT ![b] = request.seen]
                /\ lost' = Kept(lost \cup taken, accepted) \ {b}
                /\ left' = {c \in left \cup taken : accepted[c] = None} \ {b}
                /\ reported' = [reported EXCEPT ![b] = None]
                /\ scan' = IF scan = Idle THEN Idle
                           ELSE [scan EXCEPT !.voided = @ \cup {b}]
  /\ request' = Idle
  /\ UNCHANGED <<market, inbox, counters>>

-----------------------------------------------------------------------------
Scan ==
  \/ ScanRead
  \/ \E first, again \in SUBSET Held, fails \in BOOLEAN : ScanMarket(first, again, fails)
  \/ ScanSkip
  \/ Deliver
  \/ ScanEnd

Owner == Begin \/ GetTradingPortfolio \/ SaveRequest

Next == Move \/ Scan \/ Owner

Spec == Init /\ [][Next]_riskVars

-----------------------------------------------------------------------------
(* Properties.                                                             *)

\* A worsening is not lost between its baseline and the inbox: whatever the last scan
\* that ended has seen of a bond, if it is worse than what a scan first saw it held at
\* or its owner acknowledged last, its gravest kind has been delivered.  Excepted (lost)
\* are the four ways the code does lose a baseline: a failed fetch makes a held bond
\* look sold; a save made of an older row takes the baseline with it; the save of the
\* scan fails and its error is dropped, so the first baseline is taken again at the next
\* scan, whatever it is worth by then; and a bond bought back is compared with the
\* baseline of its earlier holding, where that is left in the row: a scan that finds no
\* bond at all returns before it clears the baselines, and a failed save or an older
\* copy of the row keeps them too (left).
WorseningIsTold ==
  \A b \in Held :
    (/\ accepted[b] # None /\ reported[b] # None /\ b \notin lost
     /\ DetectRiskEscalations(accepted[b], reported[b]) # <<>>)
      => <<b, Head(DetectRiskEscalations(accepted[b], reported[b]))>> \in inbox
=============================================================================
