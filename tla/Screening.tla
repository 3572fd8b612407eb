----------------------------- MODULE Screening -----------------------------
(***************************************************************************)
(* The screener: every bond of the loaded universe gets a composite score  *)
(* per risk profile, and an owner reads the list page by page, each page a *)
(* request of its own that filters, sorts and cuts the list anew.  A load  *)
(* of the universe may take the place of the last one between two pages.   *)
(*                                                                         *)
(* Yields are in pp before tax and in hundredths of a pp after it, scores  *)
(* in thousandths of a point.  The logarithm of a volume is data: a bond's *)
(* volume is its place between the two liquidity anchors, in percent.      *)
(***************************************************************************)
EXTENDS Integers, FiniteSets, Sequences, SequencesExt, FiniteSetsExt

CONSTANTS
  KeyRate, TaxRate,   \* percent
  Lists,              \* the loads a behaviour may see, in order: sequences of sets of bonds
  Queries,            \* what the owner may ask for
  DefaultSize, MaxSize, ExportSize,   \* pages: 50, 100 and 5000 rows in the code
  MaxPage,            \* bound
  None

VARIABLES
  lists, load,   \* the loads of the universe, and which of them is current
  asked,         \* the query the owner reads, normalised, without its page
  ranking,       \* the order the current load has under it
  pages          \* the pages read so far

vars == <<lists, load, asked, ranking, pages>>

Profiles == {"conservative", "normal", "aggressive"}
Scenarios == {"hold", "cut", "hike"}
Point == 1000

Least(a, b) == IF a < b THEN a ELSE b
Most(a, b) == IF a > b THEN a ELSE b
Clip(score) == Most(0, Least(100 * Point, score))

-----------------------------------------------------------------------------
\* Parts of the score.
Net(rate) == rate * (100 - TaxRate)
RiskFreeNet == Net(KeyRate)

DistressStart == 2800
DistressDecay == 3500
DistressFull == 5000
BoredomSpread == 1400

YTMScore(ytm, maxSpread) ==
  LET spread == ytm - RiskFreeNet
      peak == Least(100 * Point, (Least(spread, DistressStart) * 100 * Point) \div maxSpread)
  IN CASE ytm = None -> 0
       [] ytm # None /\ spread <= 0 -> 0
       [] ytm # None /\ spread > 0 /\ maxSpread <= 0 -> 50 * Point
       [] ytm # None /\ spread > 0 /\ maxSpread > 0 ->
            IF spread <= DistressDecay THEN peak
            ELSE IF spread >= DistressFull THEN 0
            ELSE (peak * (DistressFull - spread)) \div (DistressFull - DistressDecay)

\* A callable bond is not expected to yield more than its coupon.
ScoringYTM(b) ==
  IF b.ytm = None THEN None
  ELSE IF ~b.callable THEN Net(b.ytm)
  ELSE IF b.coupon = None THEN RiskFreeNet
  ELSE Least(Net(b.ytm), Net(b.coupon))

Rated(list) == {b \in list : ScoringYTM(b) # None}

\* The yields that k rated bonds, or more, do not exceed.
Reached(rated, k) ==
  {y \in {ScoringYTM(b) : b \in rated} :
     k <= Cardinality({b \in rated : ScoringYTM(b) <= y})}

\* The yield at place k of the rated bonds, sorted.
YieldAt(rated, k) == Min(Reached(rated, k))

\* The 95th percentile of the yields, between its two neighbours.
YTMScaleReference(list) ==
  LET rated == Rated(list)
      pos == 95 * (Cardinality(rated) - 1)
      at == pos \div 100
      part == pos % 100
  IN IF rated = {} THEN RiskFreeNet
     ELSE IF part = 0 THEN YieldAt(rated, at + 1)
     ELSE (YieldAt(rated, at + 1) * (100 - part) + YieldAt(rated, at + 2) * part) \div 100

\* The ordinal of a grade, -6 to 12, or a grade the table does not know.
Unlisted == 13
Graded(rating) == rating \in -6 .. 12

InvestmentGrade(b) == Graded(b.rating) /\ b.rating >= 3

\* The slip that gives a missing rating the bonus of an unknown grade.
RatingBonusUnlessMissing(rating) ==
  IF ~Graded(rating) THEN 0
  ELSE IF rating < 0 THEN -25
  ELSE <<-25, -22, -20, -16, -12, -8, -5, 0, 4, 8, 12, 16, 20>>[rating + 1]

RatingBonus(rating) ==
  IF rating = None THEN -25
  ELSE IF rating = Unlisted THEN 0
  ELSE IF rating < 0 THEN -25
  ELSE <<-25, -22, -20, -16, -12, -8, -5, 0, 4, 8, 12, 16, 20>>[rating + 1]

RiskBase == [low |-> 80, moderate |-> 55, high |-> 25, unknown |-> 45]

RiskScore(b) ==
  LET penalties == (IF b.amortised THEN 5 ELSE 0) + (IF b.type = "variable" THEN 8 ELSE 0)
                     + (IF b.subordinated THEN 30 ELSE 0) + (IF b.callable THEN 12 ELSE 0)
  IN Clip((RiskBase[b.level] - penalties + RatingBonus(b.rating)) * Point)

Spread(b) == (IF ScoringYTM(b) = None THEN 0 ELSE ScoringYTM(b)) - RiskFreeNet

DistressSpreadStart(b) == IF InvestmentGrade(b) THEN DistressStart + 1200 ELSE DistressStart

\* How far a spread is on its way from start to the full distress, of the worst penalty.
Share(spread, start, worst) ==
  IF spread <= start THEN 0
  ELSE (Least(spread - start, DistressFull - start) * worst * Point) \div (DistressFull - start)

DistressPenalty(b) == Share(Spread(b), DistressSpreadStart(b), 40)

FinalRiskScore(b) == Most(0, RiskScore(b) - DistressPenalty(b))

LiquidityScore(b) == Clip(b.volume * Point)

BoredomPenalty(b) ==
  IF Spread(b) >= BoredomSpread THEN 0
  ELSE ((BoredomSpread - Spread(b)) * 22 * Point) \div BoredomSpread

JunkPenalty(b) == IF InvestmentGrade(b) THEN 0 ELSE Share(Spread(b), DistressStart, 50)

ProfileWeights ==
  [conservative |-> <<20, 60, 20>>, normal |-> <<30, 50, 20>>, aggressive |-> <<60, 25, 15>>]

CompositeForProfile(b, profile, maxSpread) ==
  LET w == ProfileWeights[profile]
      score == (YTMScore(ScoringYTM(b), maxSpread) * w[1] + FinalRiskScore(b) * w[2]
                  + LiquidityScore(b) * w[3]) \div 100
  IN IF profile = "aggressive" THEN Most(0, score - BoredomPenalty(b) - JunkPenalty(b))
     ELSE score

\* The base scores of a load: the scale is the whole list's.
ProfileScores(list) ==
  LET maxSpread == Most(YTMScaleReference(list) - RiskFreeNet, 0)
  IN [b \in list |-> [p \in Profiles |-> CompositeForProfile(b, p, maxSpread)]]

-----------------------------------------------------------------------------
\* The duration adjustment of a rate scenario; durations are in tenths of a year.
DurationWeight(scenario) == IF scenario = "hold" THEN 0 ELSE 20   \* percent
TargetDuration(scenario) == IF scenario = "cut" THEN 20 ELSE 5

\* A floater's rate duration is the policy's, which is 0 in every policy.
RateSensitiveDuration(b) == IF b.type = "floating" THEN 0 ELSE b.duration

DurationScale(list) ==
  Max({0} \cup {RateSensitiveDuration(b) : b \in {x \in list : RateSensitiveDuration(x) # None}})

DurationAdjustment(b, scenario, scale) ==
  LET duration == RateSensitiveDuration(b)
      near == Least(scale, duration)
      factor == IF scenario = "hike" THEN scale - near ELSE near
      distance == IF duration < TargetDuration(scenario) THEN TargetDuration(scenario) - duration
                  ELSE duration - TargetDuration(scenario)
  IN IF scenario = "hold" \/ duration = None \/ scale <= 0 THEN 0
     ELSE (factor * DurationWeight(scenario) * Point) \div scale
            + (Most(0, scale - distance) * ((DurationWeight(scenario) * Point) \div 2)) \div scale

ResolvedScore(b, base, scenario, scale) ==
  LET adjustment == DurationAdjustment(b, scenario, scale)
  IN IF adjustment = 0 THEN base ELSE Clip(base + adjustment)

-----------------------------------------------------------------------------
\* A request for a page of the list.
Normalised(q) ==
  [q EXCEPT !.size = IF q.export THEN ExportSize
                     ELSE Least(MaxSize, IF @ <= 0 THEN DefaultSize ELSE @),
            !.sort = IF @ = None THEN "score" ELSE @,
            \* only a sort by score that was asked for is best first by default
            !.desc = IF @ = None THEN q.sort = "score" ELSE @]

NormalisedPage(q, page) == IF q.export \/ page < 1 THEN 1 ELSE page

DaysForFilter(b, by) == IF by = "maturity" /\ b.toMaturity # None THEN b.toMaturity ELSE b.days

Matches(list, q) ==
  {b \in list :
     /\ ~(q.hideDefault /\ b.default)
     /\ ~(q.hideSubordinated /\ b.subordinated)
     /\ q.maxDays # None => DaysForFilter(b, q.by) # None /\ DaysForFilter(b, q.by) <= q.maxDays
     /\ q.minVolume # None => b.volume >= q.minVolume
     /\ q.minYTM # None => b.ytm # None /\ Net(b.ytm) >= q.minYTM
     /\ q.maxLot # None => b.lot = None \/ b.lot <= q.maxLot
     /\ q.types # {} => b.type \in q.types
     /\ q.levels # {} => b.level \in q.levels
     /\ q.sectors # {} => b.sector \in q.sectors
     /\ q.search # None => b.isin \in q.search}

\* What the rows are sorted by: the score counts the list's own duration scale, a
\* missing value counts as 0.
SortKey(list, q) ==
  LET scores == ProfileScores(list)
      found == Matches(list, q)
      scale == DurationScale(found)
      OrZero(v) == IF v = None THEN 0 ELSE v
  IN [b \in found |->
        IF q.sort = "score" THEN ResolvedScore(b, scores[b][q.profile], q.scenario, scale)
        ELSE IF q.sort = "ytm_net" THEN OrZero(b.ytm)
        ELSE IF q.sort = "days_to_maturity" THEN OrZero(b.days)
        ELSE OrZero(b.volume)]

\* The orders the two sorts may leave: equal keys come in any order, the same at every
\* request for the same list.
Rankings(list, q) ==
  LET key == SortKey(list, q)
  IN {s \in SetToSeqs(DOMAIN key) :
        \A i \in 1 .. Len(s) - 1 :
          IF q.desc THEN key[s[i]] >= key[s[i + 1]] ELSE key[s[i]] <= key[s[i + 1]]}

\* The slip that begins a page with the last row of the one before.
PageStartInclusive(page, size) == Most(0, (page - 1) * size - 1)

PageStart(page, size) == (page - 1) * size

Page(seq, page, size) ==
  SubSeq(seq, PageStart(page, size) + 1, Least(PageStart(page, size) + size, Len(seq)))

\* The score a row shows: its duration scale is the page's, and a score of 0 is shown as
\* the normal profile's.
ShownScore(b, list, q, scale) ==
  LET scores == ProfileScores(list)
      active == ResolvedScore(b, scores[b][q.profile], q.scenario, scale)
  IN IF active = 0 THEN scores[b]["normal"] ELSE active

Init ==
  /\ lists \in Lists /\ load = 1
  /\ asked = None /\ ranking = None /\ pages = <<>>

\* The owner sets the filters, the profile and the order.
Ask(q) ==
  /\ asked = None
  /\ asked' = Normalised(q)
  /\ UNCHANGED <<lists, load, ranking, pages>>

\* ListBonds: one page of the current load.
ListBonds(page) ==
  /\ asked # None
  /\ \E order \in IF ranking = None THEN Rankings(lists[load], asked) ELSE {ranking} :
       LET rows == Page(order, NormalisedPage(asked, page), asked.size)
           scale == DurationScale(ToSet(rows))
       IN /\ ranking' = order
          /\ pages' = Append(pages,
               [page |-> NormalisedPage(asked, page), load |-> load, total |-> Len(order),
                rows |-> [i \in DOMAIN rows |->
                            [bond |-> rows[i],
                             shown |-> ShownScore(rows[i], lists[load], asked, scale)]]])
  /\ UNCHANGED <<lists, load, asked>>

\* The owner goes on while the last answer says that there are more rows; an export is
\* one request.
NextPage ==
  LET last == pages[Len(pages)]
  IN /\ asked # None
     /\ Len(pages) < MaxPage
     /\ IF pages = <<>> THEN ListBonds(1)
        ELSE /\ ~asked.export /\ last.page * asked.size < last.total
          /\ ListBonds(last.page + 1)

\* The universe is loaded again: its quotes and its members may have changed.
Reload ==
  /\ load < Len(lists)
  /\ load' = load + 1
  /\ ranking' = None
  /\ UNCHANGED <<lists, asked, pages>>

Next == (\E q \in Queries : Ask(q)) \/ NextPage \/ Reload

Spec == Init /\ [][Next]_vars

-----------------------------------------------------------------------------
\* The rows read so far, by page and place, in the order they were read.
Places == UNION {{n} \X DOMAIN pages[n].rows : n \in DOMAIN pages}
RowAt(p) == pages[p[1]].rows[p[2]]
LoadAt(p) == pages[p[1]].load
Before(p, r) == p[1] < r[1] \/ (p[1] = r[1] /\ p[2] < r[2])

\* Two bonds that pay the same, the first of them of no worse quality.
Quality(b) == <<RiskBase[b.level], IF Graded(b.rating) THEN b.rating ELSE -99,
                IF b.amortised THEN 0 ELSE 1, IF b.subordinated THEN 0 ELSE 1>>
Twins(a, b) ==
  /\ a # b
  /\ a.ytm = b.ytm /\ a.coupon = b.coupon /\ a.callable = b.callable /\ a.type = b.type
  /\ a.volume = b.volume /\ a.duration = b.duration
  /\ Unlisted \notin {a.rating, b.rating}
SaferTwin(a, b) == Twins(a, b) /\ \A i \in 1 .. 4 : Quality(a)[i] >= Quality(b)[i]

\* Best first, the safer of two bonds that pay the same never comes after the riskier
\* one, in any profile and rate scenario, unless the two score alike: a penalty that
\* depends on the spread must not outweigh the quality it is excused for (scorer.go,
\* DistressPenalty and JunkPenalty start later for an investment grade).
SaferComesFirst ==
  asked # None /\ asked.sort = "score" /\ asked.desc =>
    \A p, r \in Places :
      Before(p, r) /\ LoadAt(p) = LoadAt(r) /\ SaferTwin(RowAt(r).bond, RowAt(p).bond) =>
        LET key == SortKey(lists[LoadAt(p)], asked)
        IN key[RowAt(p).bond] = key[RowAt(r).bond]

\* Pages cut from one load are the list itself: read to the end, every match is on them
\* exactly once, and without a rate scenario the scores shown go down from the first
\* page to the last, but for a score of 0 (screener_query.go, PaginateBondList; each
\* page is filtered, sorted and given its scale by a request of its own).
PagesAreTheList ==
  pages # <<>> /\ (\A n \in DOMAIN pages : pages[n].load = pages[1].load) =>
    LET last == pages[Len(pages)]
        found == Matches(lists[last.load], asked)
        key == SortKey(lists[last.load], asked)
    IN /\ \A p, r \in Places : p # r => RowAt(p).bond # RowAt(r).bond
       /\ last.page * asked.size >= last.total => {RowAt(p).bond : p \in Places} = found
       /\ asked.scenario = "hold" /\ asked.sort = "score" /\ asked.desc =>
            \A p, r \in Places :
              Before(p, r) /\ key[RowAt(r).bond] # 0 => RowAt(p).shown >= RowAt(r).shown
=============================================================================
