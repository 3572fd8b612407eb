------------------------------ MODULE MarketProofs ------------------------------
(***************************************************************************)
(* What holds of market data for any constants.                            *)
(*                                                                         *)
(* The key rate, for any number of processes, any time to live, any number *)
(* of changes of the rate, failures and restarts: a rate is passed between *)
(* memory, settings and processes with the time it was fetched, so the     *)
(* invariant says of every such pair that the rate was in force at that    *)
(* time (Sound).  A pair is torn while it is saved or loaded, but only the *)
(* way that does no harm: a new rate beside an older time.  The other way  *)
(* round is what damaged records.                                          *)
(*                                                                         *)
(* The screener, for any lists of bonds, queries, rates and page sizes:    *)
(* the score of a bond grows with its quality, because every part of it    *)
(* does, so a list that is sorted by it has no riskier twin first; and the *)
(* pages of one load are cut from one order of it (ScreenInv).             *)
(*                                                                         *)
(* The signals, for any markets, lags, rates and limits: a median never    *)
(* moves further than what it is taken of, and what the notifier's scan    *)
(* and the radar keep is what they said of rows that no later step         *)
(* changes (RadarInv), so the two can be compared.                         *)
(***************************************************************************)
EXTENDS MCMarket, TLAPS, FiniteSetTheorems, WellFoundedInduction

-----------------------------------------------------------------------------
(* The key rate.                                                            *)

Memory == [rate : KR!Rates, at : Nat \cup {None}, has : BOOLEAN]

RatesTyped ==
  /\ now \in Nat /\ cbr \in KR!Rates \ {KR!Fallback}
  /\ until \in [KR!Rates -> Nat \cup {None}]
  /\ setting \in [rate : KR!Rates \cup {None}, at : Nat \cup {None}]
  /\ mem \in [Procs -> Memory]
  /\ frame \in [Procs -> KR!Calls \cup {Idle}]
  /\ answer \in [Procs -> KR!Answers \cup {None}]
  /\ told \in [Procs -> KR!Rates]
  /\ faults \in Nat /\ damaged \in BOOLEAN

InStep(p, steps) == frame[p] # Idle /\ frame[p].step \in steps

\* Whoever holds the mutex has a rate before its time, and a rate to save is new.
InCall(p) ==
  /\ frame[p] # Idle /\ frame[p].again => faults > 0
  /\ InStep(p, {"time"}) => mem[p].has /\ mem[p].rate = frame[p].seen[1]
  /\ InStep(p, {"saveRate", "saveTime"}) =>
       mem[p].has /\ mem[p].at = now /\ mem[p].rate # KR!Fallback

\* Without a fault, the rate last announced is the one in memory, or the one it was
\* when the call under way began.
Told(p) ==
  faults = 0 =>
    IF frame[p] = Idle THEN told[p] = KR!Effective(p) ELSE told[p] = frame[p].prev

\* The rate was in force at that time.
Sound(rate, at) ==
  /\ at \in Nat /\ at <= now
  /\ IF rate = KR!Fallback THEN faults > 0
     ELSE rate = cbr \/ (until[rate] # None /\ at <= until[rate])

SettingSound ==
  /\ setting.at # None => setting.at <= now
  /\ setting.rate # KR!Fallback
  /\ setting.rate # None /\ setting.at # None => Sound(setting.rate, setting.at)

MemorySound(p) == mem[p].has /\ ~InStep(p, {"time"}) => Sound(mem[p].rate, mem[p].at)

\* The rate was in force less than a TTL before the answer.
Recent(a) ==
  /\ a.at <= now
  /\ IF a.rate = KR!Fallback THEN faults > 0
     ELSE a.rate = cbr \/ (until[a.rate] # None /\ a.at - until[a.rate] < RateTTL)

AnswerRecent(p) == answer[p] # None /\ answer[p].how # "failed" => Recent(answer[p])

RateInv ==
  /\ RatesTyped
  /\ \A p \in Procs : InCall(p) /\ Told(p)
  /\ ~damaged => SettingSound /\ \A p \in Procs : MemorySound(p) /\ AnswerRecent(p)

-----------------------------------------------------------------------------
LEMMA RateInit == KR!Init => RateInv
<1> SUFFICES ASSUME KR!Init PROVE RateInv
  OBVIOUS
<1> USE MarketAssumption, UniverseAssumption DEF KR!Init, KR!Rates, KR!Fallback
<1>1. RatesTyped
  <2>1. mem \in [Procs -> Memory]
    BY DEF Memory
  <2>2. frame \in [Procs -> KR!Calls \cup {Idle}] /\ answer \in [Procs -> KR!Answers \cup {None}]
    OBVIOUS
  <2>3. until \in [0 .. MaxRate -> Nat \cup {None}] /\ told \in [Procs -> 0 .. MaxRate]
    OBVIOUS
  <2>4. now \in Nat /\ cbr \in (0 .. MaxRate) \ {0} /\ faults \in Nat
    OBVIOUS
  <2>5. damaged \in BOOLEAN
    OBVIOUS
  <2>6. setting \in [rate : (0 .. MaxRate) \cup {None}, at : Nat \cup {None}]
    OBVIOUS
  <2> QED
    BY <2>1, <2>2, <2>3, <2>4, <2>5, <2>6 DEF RatesTyped
<1>2. ASSUME NEW p \in Procs
      PROVE  InCall(p) /\ Told(p) /\ MemorySound(p) /\ AnswerRecent(p)
  BY <1>2 DEF InCall, InStep, Told, KR!Effective, MemorySound, AnswerRecent
<1>3. SettingSound
  BY DEF SettingSound
<1> QED
  BY <1>1, <1>2, <1>3 DEF RateInv

\* A pair stays sound when its time moves back, the clock on, or a rate is published.
LEMMA SoundStays ==
  ASSUME RatesTyped, NEW rate \in KR!Rates, NEW at, NEW older, Sound(rate, at),
         older \in Nat, older <= at
  PROVE  /\ Sound(rate, older)
         /\ UNCHANGED <<now, cbr, until>> /\ faults' >= faults /\ faults' \in Nat
              => Sound(rate, at)'
BY DEF RatesTyped, Sound

LEMMA SoundIsRecent ==
  ASSUME RatesTyped, NEW rate \in KR!Rates, NEW at, Sound(rate, at), now - at < RateTTL
  PROVE  Recent([rate |-> rate, at |-> now, how |-> "fetched"])
<1> USE MarketAssumption, UniverseAssumption DEF RatesTyped, Sound, Recent
<1>1. until[rate] # None => until[rate] \in Nat
  OBVIOUS
<1> QED
  BY <1>1

\* A step of one call leaves the others as they are.
LEMMA OthersKeep ==
  ASSUME RatesTyped, NEW q \in Procs, UNCHANGED <<now, cbr, until>>,
         faults' \in Nat, faults' >= faults,
         mem'[q] = mem[q], frame'[q] = frame[q], answer'[q] = answer[q], told'[q] = told[q]
  PROVE  /\ InCall(q) => InCall(q)'
         /\ Told(q) => Told(q)'
         /\ MemorySound(q) => MemorySound(q)'
         /\ AnswerRecent(q) => AnswerRecent(q)'
<1>1. faults \in Nat
  BY DEF RatesTyped
<1>2. InCall(q) => InCall(q)'
  BY <1>1 DEF InCall, InStep
<1>3. Told(q) => Told(q)'
  BY <1>1 DEF Told, KR!Effective
<1>4. MemorySound(q) => MemorySound(q)'
  BY <1>1 DEF MemorySound, InStep, Sound
<1>5. AnswerRecent(q) => AnswerRecent(q)'
  BY <1>1 DEF AnswerRecent, Recent
<1> QED
  BY <1>2, <1>3, <1>4, <1>5

LEMMA CallStep ==
  ASSUME RateInv, NEW p \in Procs,
         UNCHANGED <<now, cbr, until>>, faults' \in Nat, faults' >= faults,
         damaged' \in BOOLEAN, damaged => damaged',
         setting' \in [rate : KR!Rates \cup {None}, at : Nat \cup {None}],
         mem' \in [Procs -> Memory], frame' \in [Procs -> KR!Calls \cup {Idle}],
         answer' \in [Procs -> KR!Answers \cup {None}], told' \in [Procs -> KR!Rates],
         \A q \in Procs \ {p} : /\ mem'[q] = mem[q] /\ frame'[q] = frame[q]
                                /\ answer'[q] = answer[q] /\ told'[q] = told[q],
         InCall(p)', Told(p)',
         ~damaged' => SettingSound' /\ MemorySound(p)' /\ AnswerRecent(p)'
  PROVE  RateInv'
<1>0. RatesTyped
  BY DEF RateInv
<1>1. RatesTyped'
  BY <1>0 DEF RatesTyped
<1>2. ASSUME NEW q \in Procs PROVE InCall(q)' /\ Told(q)'
  <2>1. CASE q = p
    BY <2>1
  <2>2. CASE q # p
    BY <1>0, <2>2, OthersKeep DEF RateInv
  <2> QED
    BY <2>1, <2>2
<1>3. ASSUME ~damaged', NEW q \in Procs PROVE MemorySound(q)' /\ AnswerRecent(q)'
  <2>1. CASE q = p
    BY <1>3, <2>1
  <2>2. CASE q # p
    BY <1>0, <1>3, <2>2, OthersKeep DEF RateInv
  <2> QED
    BY <2>1, <2>2
<1> QED
  BY <1>1, <1>2, <1>3 DEF RateInv

\* What a call finds sound while nothing is damaged, and leaves so.
LEMMA StillSound ==
  ASSUME RateInv, NEW p \in Procs,
         UNCHANGED <<now, cbr, until>>, faults' \in Nat, faults' >= faults,
         damaged => damaged'
  PROVE  ~damaged' => /\ SettingSound /\ MemorySound(p)
                      /\ setting' = setting => SettingSound'
                      /\ answer' = answer => AnswerRecent(p)'
<1> SUFFICES ASSUME ~damaged'
             PROVE  /\ SettingSound /\ MemorySound(p)
                    /\ setting' = setting => SettingSound'
                    /\ answer' = answer => AnswerRecent(p)'
  OBVIOUS
<1>1. ~damaged
  OBVIOUS
<1>2. RatesTyped /\ SettingSound /\ MemorySound(p) /\ AnswerRecent(p)
  BY <1>1 DEF RateInv
<1>3. setting' = setting => SettingSound'
  BY <1>2 DEF RatesTyped, SettingSound, Sound
<1>4. answer' = answer => AnswerRecent(p)'
  BY <1>2 DEF RatesTyped, AnswerRecent, Recent
<1> QED
  BY <1>2, <1>3, <1>4

LEMMA BeginKeeps ==
  ASSUME RateInv, NEW p \in Procs, KR!CurrentBegin(p)
  PROVE  RateInv'
<1> USE MarketAssumption, UniverseAssumption
<1>0. RatesTyped /\ InCall(p) /\ Told(p) /\ frame[p] = Idle /\ mem[p] \in Memory
  BY DEF RateInv, RatesTyped, KR!CurrentBegin
<1>1. /\ UNCHANGED <<now, cbr, until, setting, mem, told, faults, damaged>>
      /\ faults \in Nat /\ damaged \in BOOLEAN /\ now \in Nat
  BY <1>0 DEF KR!CurrentBegin, RatesTyped
<1>2. CASE mem[p].has /\ KR!Fresh(mem[p].at)
  <2> DEFINE a == [rate |-> mem[p].rate, at |-> now, how |-> "fetched"]
  <2>1. answer' = [answer EXCEPT ![p] = a] /\ frame' = [frame EXCEPT ![p] = Idle]
    BY <1>2 DEF KR!CurrentBegin, KR!Return
  <2>2. a \in KR!Answers /\ mem[p].rate \in KR!Rates
    BY <1>0, <1>1 DEF Memory, KR!Answers
  <2>3. ~damaged => Recent(a)
    <3>1. ~damaged => Sound(mem[p].rate, mem[p].at)
      BY <1>0, <1>2 DEF RateInv, MemorySound, InStep
    <3>2. now - mem[p].at < RateTTL
      BY <1>2 DEF KR!Fresh
    <3> QED
      BY <1>0, <2>2, <3>1, <3>2, SoundIsRecent
  <2>4. /\ answer' \in [Procs -> KR!Answers \cup {None}] /\ answer'[p] = a
        /\ frame' \in [Procs -> KR!Calls \cup {Idle}] /\ frame'[p] = Idle
        /\ \A q \in Procs \ {p} : answer'[q] = answer[q] /\ frame'[q] = frame[q]
    <3> HIDE DEF a
    <3> QED
      BY <1>0, <2>1, <2>2 DEF RatesTyped
  <2>5. InCall(p)' /\ Told(p)'
    BY <1>0, <1>1, <2>4 DEF InCall, InStep, Told, KR!Effective
  <2>6. ~damaged' => SettingSound' /\ MemorySound(p)' /\ AnswerRecent(p)'
    <3>1. ASSUME ~damaged PROVE SettingSound' /\ MemorySound(p)'
      BY <1>0, <1>1, <2>4, <3>1 DEF RateInv, SettingSound, MemorySound, InStep, Sound
    <3>2. ASSUME ~damaged PROVE AnswerRecent(p)'
      BY <1>1, <2>3, <2>4, <3>2 DEF AnswerRecent, Recent
    <3> QED
      BY <1>1, <3>1, <3>2
  <2> QED
    BY <1>0, <1>1, <2>4, <2>5, <2>6, CallStep DEF RatesTyped
<1>3. CASE ~(mem[p].has /\ KR!Fresh(mem[p].at))
  <2> DEFINE c == [step |-> "rate", prev |-> KR!Effective(p), again |-> FALSE,
                   seen |-> <<None, None>>]
  <2>1. UNCHANGED answer /\ frame' = [frame EXCEPT ![p] = c]
    BY <1>3 DEF KR!CurrentBegin
  <2>2. c \in KR!Calls
    BY <1>0 DEF Memory, KR!Effective, KR!Calls, KR!Rates, KR!Fallback
  <2>3. /\ frame' \in [Procs -> KR!Calls \cup {Idle}] /\ frame'[p] = c
        /\ \A q \in Procs \ {p} : frame'[q] = frame[q]
    <3> HIDE DEF c
    <3> QED
      BY <1>0, <2>1, <2>2 DEF RatesTyped
  <2>4. InCall(p)' /\ Told(p)'
    BY <1>0, <1>1, <2>2, <2>3 DEF InCall, InStep, Told, KR!Effective
  <2>5. ~damaged' => SettingSound' /\ MemorySound(p)' /\ AnswerRecent(p)'
    <3>1. ASSUME ~damaged PROVE SettingSound' /\ MemorySound(p)'
      BY <1>0, <1>1, <2>3, <3>1 DEF RateInv, SettingSound, MemorySound, InStep, Sound
    <3>2. ASSUME ~damaged PROVE AnswerRecent(p)'
      BY <1>0, <1>1, <2>1, <3>2 DEF RateInv, AnswerRecent, Recent
    <3> QED
      BY <1>1, <3>1, <3>2
  <2>6. /\ answer' \in [Procs -> KR!Answers \cup {None}] /\ told' \in [Procs -> KR!Rates]
        /\ mem' \in [Procs -> Memory]
        /\ setting' \in [rate : KR!Rates \cup {None}, at : Nat \cup {None}]
    BY <1>0, <1>1, <2>1 DEF RatesTyped
  <2>7. UNCHANGED <<now, cbr, until>> /\ faults' \in Nat /\ faults' >= faults
    BY <1>1
  <2> HIDE DEF c
  <2> QED
    BY <1>1, <2>1, <2>3, <2>4, <2>5, <2>6, <2>7, CallStep
<1> QED
  BY <1>2, <1>3

\* What a step of a call of p to another step does to the frames.
WentTo(p, step) ==
  /\ frame' \in [Procs -> KR!Calls \cup {Idle}] /\ frame'[p] # Idle
  /\ frame'[p].step = step /\ frame'[p].prev = frame[p].prev
  /\ frame'[p].again = frame[p].again
  /\ \A q \in Procs \ {p} : frame'[q] = frame[q]

\* A call of p goes on: its frame moves to another step.
LEMMA GotoMoves ==
  ASSUME RatesTyped, NEW p \in Procs, frame[p] \in KR!Calls, NEW step,
         step \in {"rate", "time", "fetch", "saveRate", "saveTime"},
         frame' = [frame EXCEPT ![p].step = step]
  PROVE  WentTo(p, step)
<1> DEFINE c == [frame[p] EXCEPT !.step = step]
<1>1. /\ c \in KR!Calls /\ c.step = step /\ c.prev = frame[p].prev
      /\ c.again = frame[p].again
  BY DEF KR!Calls
<1>2. frame' = [frame EXCEPT ![p] = c]
  OBVIOUS
<1>3. c # Idle
  <2> HIDE DEF c
  <2> QED
    BY <1>1, MarketAssumption
<1> HIDE DEF c
<1>4. frame \in [Procs -> KR!Calls \cup {Idle}]
  BY DEF RatesTyped
<1> QED
  BY <1>1, <1>2, <1>3, <1>4 DEF WentTo

\* What the end of a call of p does to the frames and the answers.
Answered(p, rate, how) ==
  /\ frame' \in [Procs -> KR!Calls \cup {Idle}] /\ frame'[p] = Idle
  /\ answer' \in [Procs -> KR!Answers \cup {None}]
  /\ answer'[p] = [rate |-> rate, at |-> now, how |-> how]
  /\ \A q \in Procs \ {p} : frame'[q] = frame[q] /\ answer'[q] = answer[q]

\* A call of p returns.
LEMMA ReturnMoves ==
  ASSUME RatesTyped, NEW p \in Procs, NEW rate, rate \in KR!Rates, NEW how,
         how \in {"fetched", "failed"}, KR!Return(p, rate, how)
  PROVE  Answered(p, rate, how)
<1> DEFINE a == [rate |-> rate, at |-> now, how |-> how]
<1>1. a \in KR!Answers
  BY DEF KR!Answers, RatesTyped
<1>2. answer' = [answer EXCEPT ![p] = a] /\ frame' = [frame EXCEPT ![p] = Idle]
  BY DEF KR!Return
<1> HIDE DEF a
<1>3. answer' \in [Procs -> KR!Answers \cup {None}] /\ answer'[p] = a
  BY <1>1, <1>2 DEF RatesTyped
<1>4. /\ frame' \in [Procs -> KR!Calls \cup {Idle}] /\ frame'[p] = Idle
      /\ \A q \in Procs \ {p} : frame'[q] = frame[q] /\ answer'[q] = answer[q]
  BY <1>2 DEF RatesTyped
<1> QED
  BY <1>3, <1>4 DEF Answered, a

LEMMA NotifyMoves ==
  ASSUME RatesTyped, NEW p \in Procs, NEW rate \in KR!Rates, KR!Notify(p, rate),
         frame[p] # Idle, Told(p), faults' = 0 => faults = 0
  PROVE  /\ told' \in [Procs -> KR!Rates]
         /\ \A q \in Procs \ {p} : told'[q] = told[q]
         /\ faults' = 0 => told'[p] = rate
BY DEF RatesTyped, KR!Notify, Told

LEMMA LoadRateKeeps ==
  ASSUME RateInv, NEW p \in Procs, KR!LoadRate(p)
  PROVE  RateInv'
<1> USE MarketAssumption, UniverseAssumption
<1>0. /\ RatesTyped /\ InCall(p) /\ Told(p)
      /\ frame[p] \in KR!Calls /\ frame[p] # Idle /\ frame[p].step = "rate"
      /\ mem[p] \in Memory
  BY DEF RateInv, RatesTyped, KR!LoadRate
<1>1. /\ UNCHANGED <<now, cbr, until>> /\ setting' = setting
      /\ faults \in Nat /\ faults' \in Nat /\ faults' >= faults
      /\ damaged' \in BOOLEAN
      /\ damaged => damaged'
  BY <1>0 DEF KR!LoadRate, KR!Call, RatesTyped
<1>t. /\ setting' \in [rate : KR!Rates \cup {None}, at : Nat \cup {None}]
      /\ now \in Nat /\ KR!Fallback \in KR!Rates
  BY <1>0, <1>1 DEF RatesTyped, KR!Fallback, KR!Rates
<1>s. ~damaged' => /\ SettingSound' /\ MemorySound(p)
                   /\ answer' = answer => AnswerRecent(p)'
  BY <1>1, StillSound
<1>2. CASE /\ setting.rate # None
           /\ mem' = [mem EXCEPT ![p].rate = setting.rate, ![p].has = TRUE]
           /\ frame' = [frame EXCEPT ![p].step = "time",
                                     ![p].seen = <<setting.rate, setting.at>>]
           /\ UNCHANGED <<answer, told>>
  <2> DEFINE m == [mem[p] EXCEPT !.rate = setting.rate, !.has = TRUE]
             c == [frame[p] EXCEPT !.step = "time", !.seen = <<setting.rate, setting.at>>]
  <2>1. m \in Memory /\ m.has /\ m.rate = setting.rate
    BY <1>0, <1>2 DEF Memory, RatesTyped
  <2>2. /\ c \in KR!Calls /\ c.step = "time" /\ c.prev = frame[p].prev
        /\ c.again = frame[p].again /\ c.seen[1] = setting.rate
    BY <1>0, <1>2 DEF KR!Calls, RatesTyped
  <2>3. mem' = [mem EXCEPT ![p] = m] /\ frame' = [frame EXCEPT ![p] = c]
    BY <1>2
  <2> HIDE DEF m, c
  <2>4. /\ mem' \in [Procs -> Memory] /\ mem'[p] = m
        /\ frame' \in [Procs -> KR!Calls \cup {Idle}] /\ frame'[p] = c /\ c # Idle
        /\ \A q \in Procs \ {p} : mem'[q] = mem[q] /\ frame'[q] = frame[q]
    BY <1>0, <2>1, <2>2, <2>3 DEF RatesTyped
  <2>5. InCall(p)'
    BY <1>0, <1>1, <2>1, <2>2, <2>4 DEF InCall, InStep
  <2>6. Told(p)'
    BY <1>0, <1>1, <1>2, <2>2, <2>4 DEF Told
  <2>7. MemorySound(p)'
    BY <2>2, <2>4 DEF MemorySound, InStep
  <2>8. told' \in [Procs -> KR!Rates] /\ answer' \in [Procs -> KR!Answers \cup {None}]
    BY <1>0, <1>2 DEF RatesTyped
  <2>9. ~damaged' => SettingSound' /\ MemorySound(p)' /\ AnswerRecent(p)'
    BY <1>s, <1>2, <2>7
  <2>10. \A q \in Procs \ {p} : /\ mem'[q] = mem[q] /\ frame'[q] = frame[q]
                               /\ answer'[q] = answer[q] /\ told'[q] = told[q]
    BY <1>2, <2>4
  <2> QED
    BY <1>1, <1>t, <2>4, <2>5, <2>6, <2>8, <2>9, <2>10, CallStep
<1>3. CASE KR!NotLoaded(p) /\ frame[p].again
  <2>1. /\ mem' = [mem EXCEPT ![p] = [rate |-> KR!Fallback, at |-> now, has |-> TRUE]]
        /\ KR!Return(p, KR!Fallback, "failed")
        /\ KR!Notify(p, KR!Fallback)
        /\ faults > 0
    BY <1>0, <1>3 DEF KR!NotLoaded, InCall
  <2>2. [rate |-> KR!Fallback, at |-> now, has |-> TRUE] \in Memory
    BY <1>t DEF Memory
  <2>3. /\ mem' \in [Procs -> Memory]
        /\ mem'[p] = [rate |-> KR!Fallback, at |-> now, has |-> TRUE]
        /\ \A q \in Procs \ {p} : mem'[q] = mem[q]
    BY <1>0, <2>1, <2>2 DEF RatesTyped
  <2>4. /\ frame' \in [Procs -> KR!Calls \cup {Idle}] /\ frame'[p] = Idle
        /\ answer' \in [Procs -> KR!Answers \cup {None}] /\ answer'[p].how = "failed"
        /\ told' \in [Procs -> KR!Rates]
        /\ \A q \in Procs \ {p} : /\ frame'[q] = frame[q] /\ answer'[q] = answer[q]
                                  /\ told'[q] = told[q]
    <3>1. KR!Fallback \in KR!Rates /\ (faults' = 0 => faults = 0)
      BY <1>1, <1>t
    <3>2. /\ frame' \in [Procs -> KR!Calls \cup {Idle}] /\ frame'[p] = Idle
          /\ answer' \in [Procs -> KR!Answers \cup {None}]
          /\ answer'[p] = [rate |-> KR!Fallback, at |-> now, how |-> "failed"]
          /\ \A q \in Procs \ {p} : frame'[q] = frame[q] /\ answer'[q] = answer[q]
      <4>1. Answered(p, KR!Fallback, "failed")
        BY <1>0, <2>1, <3>1, ReturnMoves
      <4> QED
        BY <4>1 DEF Answered
    <3>3. told' \in [Procs -> KR!Rates] /\ \A q \in Procs \ {p} : told'[q] = told[q]
      BY <1>0, <2>1, <3>1, NotifyMoves
    <3> QED
      BY <3>2, <3>3
  <2>5. InCall(p)' /\ Told(p)' /\ AnswerRecent(p)'
    BY <1>1, <2>1, <2>4 DEF InCall, InStep, Told, AnswerRecent
  <2>6. MemorySound(p)'
    BY <1>1, <1>t, <2>1, <2>3 DEF MemorySound, Sound
  <2>7. ~damaged' => SettingSound' /\ MemorySound(p)' /\ AnswerRecent(p)'
    BY <1>s, <2>5, <2>6
  <2> QED
    BY <1>1, <1>t, <2>3, <2>4, <2>5, <2>7, CallStep
<1>4. CASE KR!NotLoaded(p) /\ ~frame[p].again
  <2>1. frame' = [frame EXCEPT ![p].step = "fetch"] /\ UNCHANGED <<mem, answer, told>>
    BY <1>4 DEF KR!NotLoaded, KR!Goto
  <2>2. /\ frame' \in [Procs -> KR!Calls \cup {Idle}] /\ frame'[p] # Idle
        /\ frame'[p].step = "fetch" /\ frame'[p].prev = frame[p].prev
        /\ frame'[p].again = frame[p].again
        /\ \A q \in Procs \ {p} : frame'[q] = frame[q]
    <3>1. WentTo(p, "fetch")
      BY <1>0, <2>1, GotoMoves
    <3> QED
      BY <3>1 DEF WentTo
  <2>3. InCall(p)'
    BY <1>0, <1>4, <2>2 DEF InCall, InStep
  <2>4. Told(p)'
    BY <1>0, <1>1, <2>1, <2>2 DEF Told
  <2>5. ~damaged' => MemorySound(p)'
    <3>1. ASSUME MemorySound(p) PROVE MemorySound(p)'
      BY <1>0, <1>1, <2>1, <3>1 DEF MemorySound, InStep, Sound
    <3> QED
      BY <1>s, <3>1
  <2>6. /\ mem' \in [Procs -> Memory] /\ told' \in [Procs -> KR!Rates]
        /\ answer' \in [Procs -> KR!Answers \cup {None}]
    BY <1>0, <2>1 DEF RatesTyped
  <2>7. ~damaged' => SettingSound' /\ MemorySound(p)' /\ AnswerRecent(p)'
    BY <1>s, <2>1, <2>5
  <2>8. \A q \in Procs \ {p} : /\ mem'[q] = mem[q] /\ frame'[q] = frame[q]
                              /\ answer'[q] = answer[q] /\ told'[q] = told[q]
    BY <2>1, <2>2
  <2> QED
    BY <1>1, <1>t, <2>2, <2>3, <2>4, <2>6, <2>7, <2>8, CallStep
<1> QED
  BY <1>2, <1>3, <1>4 DEF KR!LoadRate

LEMMA LoadTimeKeeps ==
  ASSUME RateInv, NEW p \in Procs, KR!LoadTime(p)
  PROVE  RateInv'
<1> USE MarketAssumption, UniverseAssumption
<1>0. /\ RatesTyped /\ InCall(p) /\ Told(p)
      /\ frame[p] \in KR!Calls /\ frame[p] # Idle /\ frame[p].step = "time"
      /\ mem[p] \in Memory
  BY DEF RateInv, RatesTyped, KR!LoadTime
<1>1. PICK ok \in BOOLEAN :
        LET stored == IF ok THEN setting.at ELSE None
            at == IF stored # None THEN stored
                  ELSE IF mem[p].at # None THEN mem[p].at ELSE now
        IN /\ KR!Call(ok)
           /\ damaged' = (damaged \/ ~ok \/ stored = None
                           \/ frame[p].seen # <<setting.rate, setting.at>>)
           /\ mem' = [mem EXCEPT ![p].at = at]
           /\ IF frame[p].again \/ KR!Fresh(at)
              THEN KR!Return(p, mem[p].rate, KR!How(p)) /\ KR!Notify(p, mem[p].rate)
              ELSE KR!Goto(p, "fetch")
  BY DEF KR!LoadTime
<1> DEFINE stored == IF ok THEN setting.at ELSE None
           at == IF stored # None THEN stored
                 ELSE IF mem[p].at # None THEN mem[p].at ELSE now
           m == [mem[p] EXCEPT !.at = at]
<1>2. /\ UNCHANGED <<now, cbr, until>> /\ setting' = setting
      /\ faults \in Nat /\ faults' \in Nat /\ faults' >= faults
      /\ damaged' \in BOOLEAN
      /\ damaged => damaged'
  BY <1>0, <1>1 DEF KR!LoadTime, KR!Call, RatesTyped
<1>3. /\ setting' \in [rate : KR!Rates \cup {None}, at : Nat \cup {None}]
      /\ now \in Nat /\ at \in Nat
  BY <1>0, <1>2 DEF RatesTyped, Memory
<1>4. m \in Memory /\ m.has /\ m.rate = mem[p].rate /\ m.at = at /\ mem[p].rate \in KR!Rates
  BY <1>0, <1>3 DEF Memory, InCall, InStep
<1>5. mem' = [mem EXCEPT ![p] = m]
  BY <1>1
<1>6. ~damaged' => SettingSound' /\ Sound(m.rate, at)
  <2>1. ASSUME ~damaged'
        PROVE  /\ stored # None /\ stored = setting.at
               /\ frame[p].seen = <<setting.rate, setting.at>>
    BY <1>1, <2>1
  <2>2. ASSUME ~damaged' PROVE at = setting.at /\ m.rate = setting.rate
    BY <1>0, <1>4, <2>1, <2>2 DEF InCall, InStep
  <2>3. ASSUME ~damaged' PROVE SettingSound /\ SettingSound'
    BY <1>2, <2>3, StillSound
  <2>4. ASSUME ~damaged' PROVE Sound(m.rate, at)
    <3> HIDE DEF at, m, stored
    <3> QED
      BY <1>3, <1>4, <2>2, <2>3, <2>4 DEF SettingSound, KR!Rates
  <2> QED
    BY <2>3, <2>4
<1>7. /\ mem' \in [Procs -> Memory] /\ mem'[p] = m
      /\ \A q \in Procs \ {p} : mem'[q] = mem[q]
  <2> HIDE DEF m
  <2> QED
    BY <1>0, <1>4, <1>5 DEF RatesTyped
<1>8. ~damaged' => MemorySound(p)'
  <2>1. Sound(m.rate, at) => MemorySound(p)'
    <3> HIDE DEF m, at
    <3> QED
      BY <1>2, <1>4, <1>7 DEF MemorySound, Sound
  <2> QED
    BY <1>6, <2>1
<1> HIDE DEF m
<1>9. CASE frame[p].again \/ KR!Fresh(at)
  <2>1. KR!Return(p, mem[p].rate, KR!How(p)) /\ KR!Notify(p, mem[p].rate)
    BY <1>1, <1>9
  <2>2. KR!How(p) \in {"fetched", "failed"} /\ (faults' = 0 => faults = 0)
    BY <1>2 DEF KR!How
  <2>3. /\ frame' \in [Procs -> KR!Calls \cup {Idle}] /\ frame'[p] = Idle
        /\ answer' \in [Procs -> KR!Answers \cup {None}]
        /\ answer'[p] = [rate |-> mem[p].rate, at |-> now, how |-> KR!How(p)]
        /\ \A q \in Procs \ {p} : frame'[q] = frame[q] /\ answer'[q] = answer[q]
    <3>1. Answered(p, mem[p].rate, KR!How(p))
      BY <1>0, <1>4, <2>1, <2>2, ReturnMoves
    <3> QED
      BY <3>1 DEF Answered
  <2>4. /\ told' \in [Procs -> KR!Rates]
        /\ \A q \in Procs \ {p} : told'[q] = told[q]
        /\ faults' = 0 => told'[p] = mem[p].rate
    BY <1>0, <1>4, <2>1, <2>2, NotifyMoves
  <2>5. InCall(p)' /\ Told(p)'
    BY <1>4, <1>7, <2>3, <2>4 DEF InCall, InStep, Told, KR!Effective
  <2>6. ASSUME Sound(m.rate, at) PROVE AnswerRecent(p)'
    <3>1. CASE frame[p].again
      BY <2>3, <3>1 DEF AnswerRecent, KR!How
    <3>2. CASE ~frame[p].again
      <4>1. now - at < RateTTL /\ KR!How(p) = "fetched"
        BY <1>9, <3>2 DEF KR!Fresh, KR!How
      <4>2. Recent(answer'[p])
        <5> HIDE DEF at
        <5> QED
          BY <1>0, <1>4, <2>3, <2>6, <4>1, SoundIsRecent
      <4> QED
        BY <1>2, <4>2 DEF AnswerRecent, Recent
    <3> QED
      BY <3>1, <3>2
  <2>7. ~damaged' => SettingSound' /\ MemorySound(p)' /\ AnswerRecent(p)'
    BY <1>6, <1>8, <2>6
  <2>8. \A q \in Procs \ {p} : /\ mem'[q] = mem[q] /\ frame'[q] = frame[q]
                              /\ answer'[q] = answer[q] /\ told'[q] = told[q]
    BY <1>7, <2>3, <2>4
  <2> HIDE DEF at
  <2> QED
    BY <1>2, <1>3, <1>7, <2>3, <2>4, <2>5, <2>7, <2>8, CallStep
<1>10. CASE ~(frame[p].again \/ KR!Fresh(at))
  <2>1. frame' = [frame EXCEPT ![p].step = "fetch"] /\ UNCHANGED <<answer, told>>
    BY <1>1, <1>10 DEF KR!Goto
  <2>2. /\ frame' \in [Procs -> KR!Calls \cup {Idle}] /\ frame'[p] # Idle
        /\ frame'[p].step = "fetch" /\ frame'[p].prev = frame[p].prev
        /\ frame'[p].again = frame[p].again
        /\ \A q \in Procs \ {p} : frame'[q] = frame[q]
    <3>1. WentTo(p, "fetch")
      BY <1>0, <2>1, GotoMoves
    <3> QED
      BY <3>1 DEF WentTo
  <2>3. InCall(p)' /\ Told(p)'
    <3>1. ~frame'[p].again
      BY <1>10, <2>2
    <3>2. InCall(p)'
      BY <2>2, <3>1 DEF InCall, InStep
    <3>3. faults' = 0 => faults = 0
      BY <1>2
    <3>4. Told(p)'
      BY <1>0, <2>1, <2>2, <3>3 DEF Told
    <3> QED
      BY <3>2, <3>4
  <2>4. ~damaged' => SettingSound' /\ MemorySound(p)' /\ AnswerRecent(p)'
    <3>1. ~damaged' => AnswerRecent(p)'
      BY <1>2, <2>1, StillSound
    <3> QED
      BY <1>6, <1>8, <3>1
  <2>5. answer' \in [Procs -> KR!Answers \cup {None}] /\ told' \in [Procs -> KR!Rates]
    BY <1>0, <2>1 DEF RatesTyped
  <2>6. \A q \in Procs \ {p} : /\ mem'[q] = mem[q] /\ frame'[q] = frame[q]
                              /\ answer'[q] = answer[q] /\ told'[q] = told[q]
    BY <1>7, <2>1, <2>2
  <2> HIDE DEF at
  <2> QED
    BY <1>2, <1>3, <1>7, <2>2, <2>3, <2>4, <2>5, <2>6, CallStep
<1> QED
  BY <1>9, <1>10

LEMMA FetchKeeps ==
  ASSUME RateInv, NEW p \in Procs, KR!Fetch(p)
  PROVE  RateInv'
<1> USE MarketAssumption, UniverseAssumption
<1>0. /\ RatesTyped /\ InCall(p) /\ Told(p)
      /\ frame[p] \in KR!Calls /\ frame[p] # Idle /\ frame[p].step = "fetch"
      /\ mem[p] \in Memory
  BY DEF RateInv, RatesTyped, KR!Fetch
<1>1. /\ UNCHANGED <<now, cbr, until>> /\ setting' = setting
      /\ faults \in Nat /\ faults' \in Nat /\ faults' >= faults
      /\ damaged' \in BOOLEAN /\ damaged' = damaged
      /\ damaged => damaged'
  BY <1>0 DEF KR!Fetch, KR!Call, RatesTyped
<1>2. /\ setting' \in [rate : KR!Rates \cup {None}, at : Nat \cup {None}]
      /\ now \in Nat /\ cbr \in KR!Rates /\ cbr # KR!Fallback
  BY <1>0, <1>1 DEF RatesTyped
<1>3. ~damaged' => /\ SettingSound' /\ MemorySound(p)
                   /\ answer' = answer => AnswerRecent(p)'
  BY <1>1, StillSound
<1>4. CASE /\ mem' = [mem EXCEPT ![p] = [rate |-> cbr, at |-> now, has |-> TRUE]]
           /\ KR!Goto(p, "saveRate")
  <2> DEFINE m == [rate |-> cbr, at |-> now, has |-> TRUE]
  <2>1. m \in Memory /\ m.has /\ m.rate = cbr /\ m.at = now
    BY <1>2 DEF Memory
  <2>2. mem' = [mem EXCEPT ![p] = m]
    BY <1>4
  <2> HIDE DEF m
  <2>3. /\ mem' \in [Procs -> Memory] /\ mem'[p] = m
        /\ \A q \in Procs \ {p} : mem'[q] = mem[q]
    BY <1>0, <2>1, <2>2 DEF RatesTyped
  <2>4. frame' = [frame EXCEPT ![p].step = "saveRate"] /\ UNCHANGED <<answer, told>>
    BY <1>4 DEF KR!Goto
  <2>5. /\ frame' \in [Procs -> KR!Calls \cup {Idle}] /\ frame'[p] # Idle
        /\ frame'[p].step = "saveRate" /\ frame'[p].prev = frame[p].prev
        /\ frame'[p].again = frame[p].again
        /\ \A q \in Procs \ {p} : frame'[q] = frame[q]
    <3>1. WentTo(p, "saveRate")
      BY <1>0, <2>4, GotoMoves
    <3> QED
      BY <3>1 DEF WentTo
  <2>6. InCall(p)' /\ Told(p)'
    <3>1. InCall(p)'
      BY <1>0, <1>1, <1>2, <2>1, <2>3, <2>5 DEF InCall, InStep, KR!Fallback
    <3>2. Told(p)'
      BY <1>0, <1>1, <2>4, <2>5 DEF Told
    <3> QED
      BY <3>1, <3>2
  <2>7. MemorySound(p)'
    BY <1>1, <1>2, <2>1, <2>3 DEF MemorySound, Sound, KR!Fallback
  <2>8. ~damaged' => SettingSound' /\ MemorySound(p)' /\ AnswerRecent(p)'
    BY <1>3, <2>4, <2>7
  <2>9. answer' \in [Procs -> KR!Answers \cup {None}] /\ told' \in [Procs -> KR!Rates]
    BY <1>0, <2>4 DEF RatesTyped
  <2>10. \A q \in Procs \ {p} : /\ mem'[q] = mem[q] /\ frame'[q] = frame[q]
                               /\ answer'[q] = answer[q] /\ told'[q] = told[q]
    BY <2>3, <2>4, <2>5
  <2> QED
    BY <1>1, <1>2, <2>3, <2>5, <2>6, <2>8, <2>9, <2>10, CallStep
<1>5. CASE /\ KR!Call(FALSE) /\ mem[p].has
           /\ KR!Return(p, mem[p].rate, "failed")
           /\ mem' = [mem EXCEPT ![p] = KR!AfterFailure(@)]
           /\ UNCHANGED told
  <2>1. mem' = mem /\ mem[p].rate \in KR!Rates /\ faults' > 0
    BY <1>0, <1>1, <1>5 DEF RatesTyped, KR!AfterFailure, Memory, KR!Call
  <2>2. /\ frame' \in [Procs -> KR!Calls \cup {Idle}] /\ frame'[p] = Idle
        /\ answer' \in [Procs -> KR!Answers \cup {None}]
        /\ answer'[p] = [rate |-> mem[p].rate, at |-> now, how |-> "failed"]
        /\ \A q \in Procs \ {p} : frame'[q] = frame[q] /\ answer'[q] = answer[q]
    <3>1. Answered(p, mem[p].rate, "failed")
      BY <1>0, <1>5, <2>1, ReturnMoves
    <3> QED
      BY <3>1 DEF Answered
  <2>3. InCall(p)' /\ Told(p)' /\ AnswerRecent(p)'
    BY <2>1, <2>2 DEF InCall, InStep, Told, AnswerRecent
  <2>4. MemorySound(p) => MemorySound(p)'
    BY <1>0, <1>1, <2>1, <2>2 DEF MemorySound, InStep, Sound
  <2>5. ~damaged' => SettingSound' /\ MemorySound(p)' /\ AnswerRecent(p)'
    BY <1>3, <2>3, <2>4
  <2>6. mem' \in [Procs -> Memory] /\ told' \in [Procs -> KR!Rates]
    BY <1>0, <1>5, <2>1 DEF RatesTyped
  <2>7. \A q \in Procs \ {p} : /\ mem'[q] = mem[q] /\ frame'[q] = frame[q]
                              /\ answer'[q] = answer[q] /\ told'[q] = told[q]
    BY <1>5, <2>1, <2>2
  <2> QED
    BY <1>1, <1>2, <2>2, <2>3, <2>5, <2>6, <2>7, CallStep
<1>6. CASE /\ KR!Call(FALSE) /\ ~mem[p].has
           /\ frame' = [frame EXCEPT ![p].step = "rate", ![p].again = TRUE]
           /\ UNCHANGED <<mem, answer, told>>
  <2> DEFINE c == [frame[p] EXCEPT !.step = "rate", !.again = TRUE]
  <2>1. /\ c \in KR!Calls /\ c.step = "rate"
        /\ faults' > 0
    <3>1. c \in KR!Calls /\ c.step = "rate"
      BY <1>0 DEF KR!Calls
    <3>2. faults' > 0
      BY <1>1, <1>6 DEF KR!Call
    <3> QED
      BY <3>1, <3>2
  <2>2. frame' = [frame EXCEPT ![p] = c]
    BY <1>6
  <2> HIDE DEF c
  <2>3. /\ frame' \in [Procs -> KR!Calls \cup {Idle}] /\ frame'[p] = c /\ c # Idle
        /\ \A q \in Procs \ {p} : frame'[q] = frame[q]
    BY <1>0, <2>1, <2>2 DEF RatesTyped
  <2>4. InCall(p)' /\ Told(p)'
    BY <2>1, <2>3 DEF InCall, InStep, Told
  <2>5. MemorySound(p)'
    BY <1>6 DEF MemorySound
  <2>6. ~damaged' => SettingSound' /\ MemorySound(p)' /\ AnswerRecent(p)'
    BY <1>3, <1>6, <2>5
  <2>7. /\ mem' \in [Procs -> Memory] /\ told' \in [Procs -> KR!Rates]
        /\ answer' \in [Procs -> KR!Answers \cup {None}]
    BY <1>0, <1>6 DEF RatesTyped
  <2>8. \A q \in Procs \ {p} : /\ mem'[q] = mem[q] /\ frame'[q] = frame[q]
                              /\ answer'[q] = answer[q] /\ told'[q] = told[q]
    BY <1>6, <2>3
  <2> QED
    BY <1>1, <1>2, <2>3, <2>4, <2>6, <2>7, <2>8, CallStep
<1> QED
  BY <1>4, <1>5, <1>6 DEF KR!Fetch

\* The new rate is written beside the older time.
LEMMA SaveRateKeeps ==
  ASSUME RateInv, NEW p \in Procs, KR!SaveRate(p)
  PROVE  RateInv'
<1> USE MarketAssumption, UniverseAssumption
<1>0. /\ RatesTyped /\ InCall(p) /\ Told(p)
      /\ frame[p] \in KR!Calls /\ frame[p] # Idle /\ frame[p].step = "saveRate"
      /\ mem[p] \in Memory
      /\ mem[p].has /\ mem[p].at = now /\ mem[p].rate # KR!Fallback
  BY DEF RateInv, RatesTyped, KR!SaveRate, InCall, InStep
<1>1. /\ UNCHANGED <<now, cbr, until>> /\ mem' = mem
      /\ UNCHANGED <<answer, told>> /\ frame' = [frame EXCEPT ![p].step = "saveTime"]
      /\ faults \in Nat /\ faults' \in Nat /\ faults' >= faults
      /\ damaged' \in BOOLEAN
      /\ damaged => damaged'
      /\ setting' = setting \/ setting' = [setting EXCEPT !.rate = mem[p].rate]
  BY <1>0 DEF KR!SaveRate, KR!Call, KR!Goto, RatesTyped
<1>2. /\ setting' \in [rate : KR!Rates \cup {None}, at : Nat \cup {None}]
      /\ setting'.at = setting.at /\ setting'.rate \in {setting.rate, mem[p].rate}
      /\ setting \in [rate : KR!Rates \cup {None}, at : Nat \cup {None}]
      /\ now \in Nat
  BY <1>0, <1>1 DEF RatesTyped, Memory
<1>3. /\ frame' \in [Procs -> KR!Calls \cup {Idle}] /\ frame'[p] # Idle
      /\ frame'[p].step = "saveTime" /\ frame'[p].prev = frame[p].prev
      /\ frame'[p].again = frame[p].again
      /\ \A q \in Procs \ {p} : frame'[q] = frame[q]
  <2>1. WentTo(p, "saveTime")
    BY <1>0, <1>1, GotoMoves
  <2> QED
    BY <2>1 DEF WentTo
<1>4. InCall(p)' /\ Told(p)'
  <2>1. InCall(p)'
    BY <1>0, <1>1, <1>3 DEF InCall, InStep
  <2>2. Told(p)'
    BY <1>0, <1>1, <1>3 DEF Told
  <2> QED
    BY <2>1, <2>2
<1>5. ASSUME ~damaged' PROVE SettingSound' /\ MemorySound(p)' /\ AnswerRecent(p)'
  <2>1. SettingSound /\ MemorySound(p) /\ AnswerRecent(p)'
    BY <1>1, <1>5, StillSound
  <2>2. Sound(mem[p].rate, now)
    BY <1>0, <2>1 DEF MemorySound, InStep
  <2>3. MemorySound(p)'
    BY <1>0, <1>1, <2>2 DEF MemorySound, Sound
  <2>4. ASSUME setting.at # None PROVE Sound(mem[p].rate, setting.at)
    BY <1>0, <1>2, <2>1, <2>2, <2>4, SoundStays DEF SettingSound, Memory
  <2>5. ASSUME setting'.rate # None, setting'.at # None
        PROVE  Sound(setting'.rate, setting'.at)
    BY <1>2, <2>1, <2>4, <2>5 DEF SettingSound
  <2>6. SettingSound'
    BY <1>0, <1>1, <1>2, <2>1, <2>5 DEF SettingSound, Sound, KR!Fallback
  <2> QED
    BY <2>1, <2>3, <2>6
<1>6. /\ mem' \in [Procs -> Memory] /\ told' \in [Procs -> KR!Rates]
      /\ answer' \in [Procs -> KR!Answers \cup {None}]
  BY <1>0, <1>1 DEF RatesTyped
<1>7. \A q \in Procs \ {p} : /\ mem'[q] = mem[q] /\ frame'[q] = frame[q]
                            /\ answer'[q] = answer[q] /\ told'[q] = told[q]
  BY <1>1, <1>3
<1> QED
  BY <1>1, <1>2, <1>3, <1>4, <1>5, <1>6, <1>7, CallStep

\* The time follows: the pair is whole again.
LEMMA SaveTimeKeeps ==
  ASSUME RateInv, NEW p \in Procs, KR!SaveTime(p)
  PROVE  RateInv'
<1> USE MarketAssumption, UniverseAssumption
<1>0. /\ RatesTyped /\ InCall(p) /\ Told(p)
      /\ frame[p] \in KR!Calls /\ frame[p] # Idle /\ frame[p].step = "saveTime"
      /\ mem[p] \in Memory
      /\ mem[p].has /\ mem[p].at = now /\ mem[p].rate # KR!Fallback
      /\ mem[p].rate \in KR!Rates
  BY DEF RateInv, RatesTyped, KR!SaveTime, InCall, InStep, Memory
<1>1. PICK ok \in BOOLEAN :
        /\ KR!Call(ok)
        /\ damaged' = (damaged \/ ~ok \/ setting.rate # mem[p].rate)
        /\ setting' = IF ok THEN [setting EXCEPT !.at = mem[p].at] ELSE setting
  BY DEF KR!SaveTime
<1>2. /\ UNCHANGED <<now, cbr, until>> /\ mem' = mem
      /\ faults \in Nat /\ faults' \in Nat /\ faults' >= faults
      /\ damaged' \in BOOLEAN
      /\ damaged => damaged'
      /\ faults' = 0 => faults = 0
      /\ now \in Nat
  BY <1>0, <1>1 DEF KR!SaveTime, KR!Call, RatesTyped
<1>3. setting' \in [rate : KR!Rates \cup {None}, at : Nat \cup {None}]
  BY <1>0, <1>1, <1>2 DEF RatesTyped
<1>4. /\ frame' \in [Procs -> KR!Calls \cup {Idle}] /\ frame'[p] = Idle
      /\ answer' \in [Procs -> KR!Answers \cup {None}]
      /\ answer'[p] = [rate |-> mem[p].rate, at |-> now, how |-> "fetched"]
      /\ \A q \in Procs \ {p} : frame'[q] = frame[q] /\ answer'[q] = answer[q]
  <2>1. Answered(p, mem[p].rate, "fetched")
    BY <1>0, ReturnMoves DEF KR!SaveTime
  <2> QED
    BY <2>1 DEF Answered
<1>5. /\ told' \in [Procs -> KR!Rates]
      /\ \A q \in Procs \ {p} : told'[q] = told[q]
      /\ faults' = 0 => told'[p] = mem[p].rate
  BY <1>0, <1>2, NotifyMoves DEF KR!SaveTime
<1>6. InCall(p)' /\ Told(p)'
  BY <1>0, <1>2, <1>4, <1>5 DEF InCall, InStep, Told, KR!Effective
<1>7. ASSUME ~damaged' PROVE SettingSound' /\ MemorySound(p)' /\ AnswerRecent(p)'
  <2>1. setting' = [setting EXCEPT !.at = mem[p].at] /\ setting.rate = mem[p].rate
    BY <1>1, <1>7
  <2>2. setting'.at = now /\ setting'.rate = mem[p].rate
    BY <1>0, <2>1 DEF RatesTyped
  <2>3. Sound(mem[p].rate, now)
    <3>1. MemorySound(p)
      BY <1>2, <1>7, StillSound
    <3> QED
      BY <1>0, <3>1 DEF MemorySound, InStep
  <2>4. SettingSound'
    BY <1>0, <1>2, <2>2, <2>3 DEF SettingSound, Sound, KR!Fallback
  <2>5. MemorySound(p)'
    BY <1>0, <1>2, <2>3 DEF MemorySound, Sound
  <2>6. AnswerRecent(p)'
    <3>1. now - now < RateTTL
      BY <1>2
    <3>2. Recent(answer'[p])
      BY <1>0, <1>4, <2>3, <3>1, SoundIsRecent
    <3> QED
      BY <1>2, <3>2 DEF AnswerRecent, Recent
  <2> QED
    BY <2>4, <2>5, <2>6
<1>8. mem' \in [Procs -> Memory]
  BY <1>0, <1>2 DEF RatesTyped
<1>9. \A q \in Procs \ {p} : /\ mem'[q] = mem[q] /\ frame'[q] = frame[q]
                            /\ answer'[q] = answer[q] /\ told'[q] = told[q]
  BY <1>2, <1>4, <1>5
<1> QED
  BY <1>2, <1>3, <1>4, <1>5, <1>6, <1>7, <1>8, <1>9, CallStep

LEMMA RestartKeeps ==
  ASSUME RateInv, NEW p \in Procs, KR!Restart(p)
  PROVE  RateInv'
<1> USE MarketAssumption, UniverseAssumption
<1> DEFINE m == [rate |-> KR!Fallback, at |-> None, has |-> FALSE]
<1>0. RatesTyped
  BY DEF RateInv
<1>1. /\ UNCHANGED <<now, cbr, until>> /\ setting' = setting
      /\ faults \in Nat /\ faults' \in Nat /\ faults' >= faults
      /\ damaged' \in BOOLEAN
      /\ damaged => damaged'
  BY <1>0 DEF KR!Restart, RatesTyped
<1>2. m \in Memory /\ m.has = FALSE /\ KR!Fallback \in KR!Rates
  BY DEF Memory, KR!Fallback, KR!Rates
<1>3. /\ mem' = [mem EXCEPT ![p] = m] /\ frame' = [frame EXCEPT ![p] = Idle]
      /\ answer' = [answer EXCEPT ![p] = None] /\ told' = [told EXCEPT ![p] = KR!Fallback]
  BY DEF KR!Restart
<1> HIDE DEF m
<1>4. /\ mem' \in [Procs -> Memory] /\ mem'[p] = m
      /\ \A q \in Procs \ {p} : mem'[q] = mem[q]
  BY <1>0, <1>2, <1>3 DEF RatesTyped
<1>5. /\ frame' \in [Procs -> KR!Calls \cup {Idle}] /\ frame'[p] = Idle
      /\ answer' \in [Procs -> KR!Answers \cup {None}] /\ answer'[p] = None
      /\ \A q \in Procs \ {p} : frame'[q] = frame[q] /\ answer'[q] = answer[q]
  BY <1>0, <1>3 DEF RatesTyped
<1>6. /\ told' \in [Procs -> KR!Rates] /\ told'[p] = KR!Fallback
      /\ \A q \in Procs \ {p} : told'[q] = told[q]
  BY <1>0, <1>2, <1>3 DEF RatesTyped
<1>7. InCall(p)' /\ Told(p)' /\ MemorySound(p)' /\ AnswerRecent(p)'
  BY <1>2, <1>4, <1>5, <1>6 DEF InCall, InStep, Told, KR!Effective, MemorySound, AnswerRecent
<1>8. ~damaged' => SettingSound' /\ MemorySound(p)' /\ AnswerRecent(p)'
  BY <1>1, <1>7, StillSound
<1>9. setting' \in [rate : KR!Rates \cup {None}, at : Nat \cup {None}]
  BY <1>0, <1>1 DEF RatesTyped
<1>10. \A q \in Procs \ {p} : /\ mem'[q] = mem[q] /\ frame'[q] = frame[q]
                             /\ answer'[q] = answer[q] /\ told'[q] = told[q]
  BY <1>4, <1>5, <1>6
<1> QED
  BY <1>1, <1>4, <1>5, <1>6, <1>7, <1>8, <1>9, <1>10, CallStep

\* A rate replaced now was in force at every time a pair can carry.
LEMMA PublishKeeps ==
  ASSUME RateInv, KR!Publish
  PROVE  RateInv'
<1> USE MarketAssumption, UniverseAssumption
<1>0. RatesTyped
  BY DEF RateInv
<1>1. /\ UNCHANGED <<now, setting, mem, frame, answer, told, faults, damaged>>
      /\ cbr' = cbr + 1 /\ cbr < MaxRate
      /\ until' = [until EXCEPT ![cbr] = now]
  BY DEF KR!Publish
<1>2. /\ now \in Nat /\ cbr \in Nat /\ cbr \in KR!Rates /\ cbr # KR!Fallback
      /\ cbr' \in KR!Rates \ {KR!Fallback}
      /\ until' \in [KR!Rates -> Nat \cup {None}]
      /\ until'[cbr] = now /\ now # None
      /\ \A r \in KR!Rates \ {cbr} : until'[r] = until[r]
  BY <1>0, <1>1 DEF RatesTyped, KR!Rates, KR!Fallback
<1>3. RatesTyped'
  BY <1>0, <1>1, <1>2 DEF RatesTyped
<1>4. ASSUME NEW rate \in KR!Rates, NEW at, Sound(rate, at) PROVE Sound(rate, at)'
  <2>1. CASE rate = cbr
    BY <1>1, <1>2, <1>4, <2>1 DEF Sound
  <2>2. CASE rate # cbr
    BY <1>1, <1>2, <1>4, <2>2 DEF Sound
  <2> QED
    BY <2>1, <2>2
<1>5. ASSUME NEW p \in Procs PROVE InCall(p)' /\ Told(p)'
  BY <1>1, <1>5 DEF RateInv, InCall, InStep, Told, KR!Effective
<1>6. ASSUME ~damaged' PROVE SettingSound'
  <2>1. SettingSound
    BY <1>1, <1>6 DEF RateInv
  <2>2. ASSUME setting.rate # None, setting.at # None PROVE Sound(setting.rate, setting.at)'
    <3>1. setting.rate \in KR!Rates
      BY <1>0, <2>2 DEF RatesTyped
    <3>2. Sound(setting.rate, setting.at)
      BY <2>1, <2>2 DEF SettingSound
    <3> QED
      BY <1>1, <1>4, <3>1, <3>2 DEF Sound
  <2> QED
    BY <1>1, <2>1, <2>2 DEF SettingSound, KR!Fallback
<1>7. ASSUME ~damaged', NEW p \in Procs PROVE MemorySound(p)' /\ AnswerRecent(p)'
  <2>1. MemorySound(p) /\ AnswerRecent(p)
    BY <1>1, <1>7 DEF RateInv
  <2>2. mem[p].rate \in KR!Rates
    BY <1>0, <1>7 DEF RatesTyped, Memory
  <2>3. MemorySound(p)'
    BY <1>1, <1>4, <2>1, <2>2 DEF MemorySound, InStep, Sound
  <2>4. ASSUME answer[p] # None, Recent(answer[p]) PROVE Recent(answer[p])'
    <3>1. answer[p].rate \in KR!Rates /\ answer[p].at \in Nat
      BY <1>0, <1>7, <2>4 DEF RatesTyped, KR!Answers
    <3>2. CASE answer[p].rate = cbr
      BY <1>1, <1>2, <2>4, <3>1, <3>2 DEF Recent
    <3>3. CASE answer[p].rate # cbr
      BY <1>1, <1>2, <2>4, <3>1, <3>3 DEF Recent
    <3> QED
      BY <3>2, <3>3
  <2>5. AnswerRecent(p)'
    BY <1>1, <2>1, <2>4 DEF AnswerRecent, Recent
  <2> QED
    BY <2>3, <2>5
<1> QED
  BY <1>3, <1>5, <1>6, <1>7 DEF RateInv

LEMMA TickKeeps ==
  ASSUME RateInv, KR!Tick
  PROVE  RateInv'
<1> USE MarketAssumption, UniverseAssumption
<1>0. RatesTyped
  BY DEF RateInv
<1>1. /\ UNCHANGED <<cbr, until, setting, mem, frame, answer, told, faults, damaged>>
      /\ now' = now + 1 /\ now \in Nat /\ \A p \in Procs : frame[p] = Idle
  BY <1>0 DEF KR!Tick, RatesTyped
<1>2. RatesTyped'
  BY <1>0, <1>1 DEF RatesTyped
<1>3. ASSUME NEW rate, NEW at, Sound(rate, at) PROVE Sound(rate, at)'
  BY <1>1, <1>3 DEF Sound
<1>4. ASSUME NEW p \in Procs PROVE InCall(p)' /\ Told(p)'
  BY <1>1, <1>4 DEF RateInv, InCall, InStep, Told, KR!Effective
<1>5. ASSUME ~damaged' PROVE SettingSound'
  <2>1. SettingSound
    BY <1>1, <1>5 DEF RateInv
  <2>2. setting.at # None => setting.at <= now'
    BY <1>0, <1>1, <2>1 DEF SettingSound, RatesTyped
  <2>3. setting.rate # None /\ setting.at # None => Sound(setting.rate, setting.at)'
    BY <1>1, <1>3, <2>1 DEF SettingSound, Sound
  <2> QED
    BY <1>1, <2>1, <2>2, <2>3 DEF SettingSound, KR!Fallback
<1>6. ASSUME ~damaged', NEW p \in Procs PROVE MemorySound(p)' /\ AnswerRecent(p)'
  <2>1. MemorySound(p) /\ AnswerRecent(p)
    BY <1>1, <1>6 DEF RateInv
  <2>2. MemorySound(p)'
    BY <1>1, <1>3, <2>1 DEF MemorySound, InStep, Sound
  <2>3. answer[p] # None /\ Recent(answer[p]) => Recent(answer[p])'
    <3>1. answer[p] # None => answer[p].at \in Nat
      BY <1>0, <1>6 DEF RatesTyped, KR!Answers
    <3> QED
      BY <1>1, <3>1 DEF Recent
  <2>4. AnswerRecent(p)'
    BY <1>1, <2>1, <2>3 DEF AnswerRecent, Recent
  <2> QED
    BY <2>2, <2>4
<1> QED
  BY <1>2, <1>4, <1>5, <1>6 DEF RateInv

LEMMA RateStep == RateInv /\ [KR!Next]_(KR!vars) => RateInv'
<1> SUFFICES ASSUME RateInv, [KR!Next]_(KR!vars) PROVE RateInv'
  OBVIOUS
<1>1. CASE KR!Next
  BY <1>1, BeginKeeps, LoadRateKeeps, LoadTimeKeeps, FetchKeeps, SaveRateKeeps,
     SaveTimeKeeps, RestartKeeps, PublishKeeps, TickKeeps DEF KR!Next
<1>2. CASE UNCHANGED KR!vars
  BY <1>2 DEF KR!vars, RateInv, RatesTyped, InCall, InStep, Told, KR!Effective, SettingSound,
     MemorySound, Sound, AnswerRecent, Recent, KR!Rates, KR!Fallback
<1> QED
  BY <1>1, <1>2

\* Whatever is in memory or the settings is sound unless damaged; see the top.
THEOREM RateInvariant == KR!Spec => []RateInv
BY RateInit, RateStep, PTL DEF KR!Spec

\* A rate that Current returns was in force less than a TTL ago, through memory, the
\* settings the processes share and restarts, unless the fetch of this very call failed
\* or the settings have been damaged (loadPersistedLocked, persistLocked).
THEOREM RateWasInForce == KR!Spec => []RateIsRecent
<1>1. RateInv => RateIsRecent
  <2> SUFFICES ASSUME RateInv, ~damaged, NEW p \in Procs,
                      answer[p] # None, answer[p].how # "failed"
               PROVE  CASE answer[p].rate = KR!Fallback -> faults > 0
                        [] answer[p].rate = cbr -> TRUE
                        [] OTHER -> /\ until[answer[p].rate] # None
                                    /\ answer[p].at - until[answer[p].rate] < RateTTL
    BY DEF RateIsRecent, KR!RateIsRecent
  <2>1. Recent(answer[p]) /\ cbr # KR!Fallback
    BY DEF RateInv, AnswerRecent, RatesTyped
  <2> QED
    BY <2>1 DEF Recent
<1> QED
  BY <1>1, RateInvariant, PTL

\* While nothing fails, the rate in memory is the one OnChange last announced, so the
\* bonds scored with another one have been dropped (notifyChange).
THEOREM ChangesAreAnnounced == KR!Spec => []ChangesAreTold
<1>1. RateInv => ChangesAreTold
  BY DEF RateInv, Told, ChangesAreTold, KR!ChangesAreTold
<1> QED
  BY <1>1, RateInvariant, PTL

-----------------------------------------------------------------------------
(* The score.                                                              *)

Numbers == PolicyRate \in Int /\ TaxRate \in Int /\ None \notin Int

LEMMA DivGrows ==
  ASSUME NEW x \in Int, NEW y \in Int, x <= y, NEW d \in Nat \ {0}
  PROVE  x \div d \in Int /\ x \div d <= y \div d
OBVIOUS

LEMMA DivIsNat ==
  ASSUME NEW x \in Nat, NEW d \in Nat \ {0}
  PROVE  x \div d \in Nat
OBVIOUS

LEMMA ClipGrows ==
  ASSUME NEW x \in Int, NEW y \in Int, x <= y
  PROVE  /\ Screen!Clip(x) \in Nat /\ Screen!Clip(y) \in Nat
         /\ Screen!Clip(x) <= Screen!Clip(y) /\ Screen!Clip(y) <= 100000
BY DEF Screen!Clip, Screen!Most, Screen!Least, Screen!Point

LEMMA YieldIsNumber ==
  ASSUME Numbers, NEW b, IsListed(b)
  PROVE  /\ Screen!RiskFreeNet \in Int
         /\ Screen!ScoringYTM(b) \in Int \cup {None}
         /\ Screen!Spread(b) \in Int
<1>1. \A r \in Int : Screen!Net(r) \in Int
  BY DEF Numbers, Screen!Net
<1>2. Screen!RiskFreeNet \in Int
  BY <1>1 DEF Numbers, Screen!RiskFreeNet
<1>3. Screen!ScoringYTM(b) \in Int \cup {None}
  BY <1>1, <1>2 DEF Screen!ScoringYTM, IsListed, Screen!Least
<1> QED
  BY <1>2, <1>3 DEF Screen!Spread

\* What a score owes to the yield is the same for two bonds that pay the same.
LEMMA TwinsPayAlike ==
  ASSUME NEW a, NEW b, Screen!Twins(a, b)
  PROVE  /\ Screen!ScoringYTM(a) = Screen!ScoringYTM(b)
         /\ Screen!Spread(a) = Screen!Spread(b)
         /\ Screen!LiquidityScore(a) = Screen!LiquidityScore(b)
         /\ Screen!BoredomPenalty(a) = Screen!BoredomPenalty(b)
         /\ Screen!RateSensitiveDuration(a) = Screen!RateSensitiveDuration(b)
<1>1. Screen!ScoringYTM(a) = Screen!ScoringYTM(b)
  BY DEF Screen!Twins, Screen!ScoringYTM
<1>2. Screen!Spread(a) = Screen!Spread(b)
  BY <1>1 DEF Screen!Spread
<1> QED
  BY <1>1, <1>2 DEF Screen!Twins, Screen!LiquidityScore, Screen!BoredomPenalty,
     Screen!RateSensitiveDuration

\* ratingBonuses, from D to AAA.
Bonuses == <<-25, -22, -20, -16, -12, -8, -5, 0, 4, 8, 12, 16, 20>>

LEMMA BonusRange ==
  ASSUME NEW x \in 1 .. 13
  PROVE  Bonuses[x] \in Int /\ -25 <= Bonuses[x]
BY DEF Bonuses

LEMMA BonusGrows ==
  ASSUME NEW x \in 1 .. 13, NEW y \in 1 .. 13, x <= y
  PROVE  Bonuses[x] <= Bonuses[y]
BY DEF Bonuses

LEMMA BonusOf ==
  ASSUME Numbers, NEW r \in 0 .. 12
  PROVE  /\ Screen!RatingBonus(r) = Bonuses[r + 1]
         /\ Screen!RatingBonus(r) \in Int /\ -25 <= Screen!RatingBonus(r)
<1>1. r # None /\ r # 13 /\ ~(r < 0)
  BY DEF Numbers
<1>2. Screen!RatingBonus(r) = Bonuses[r + 1]
  BY <1>1 DEF Screen!RatingBonus, Screen!Unlisted, Bonuses
<1>3. PICK k \in 1 .. 13 : k = r + 1
  OBVIOUS
<1>4. Bonuses[k] \in Int /\ -25 <= Bonuses[k]
  BY BonusRange
<1> QED
  BY <1>2, <1>3, <1>4

\* A missing grade, and any below zero, is scored like the least.
LEMMA LeastBonus ==
  ASSUME Numbers, NEW r \in -6 .. -1 \cup {None}
  PROVE  Screen!RatingBonus(r) = -25
<1>1. CASE r = None
  BY <1>1 DEF Screen!RatingBonus
<1>2. CASE r # None
  <2>1. r \in Int /\ r < 0 /\ r # 13
    BY <1>2
  <2> QED
    BY <1>2, <2>1 DEF Screen!RatingBonus, Screen!Unlisted
<1> QED
  BY <1>1, <1>2

Grades == -6 .. 12 \cup {None}

LEMMA BetterGradeScoresMore ==
  ASSUME Numbers, NEW x \in Grades, NEW y \in Grades,
         x \in 0 .. 12 => y \in 0 .. 12 /\ x <= y
  PROVE  /\ Screen!RatingBonus(x) \in Int /\ Screen!RatingBonus(y) \in Int
         /\ Screen!RatingBonus(x) <= Screen!RatingBonus(y)
<1>1. \A r \in Grades : r \in 0 .. 12 \/ r \in -6 .. -1 \cup {None}
  BY DEF Grades
<1>2. \A r \in Grades : Screen!RatingBonus(r) \in Int /\ -25 <= Screen!RatingBonus(r)
  <2> SUFFICES ASSUME NEW r \in Grades
               PROVE  Screen!RatingBonus(r) \in Int /\ -25 <= Screen!RatingBonus(r)
    OBVIOUS
  <2>1. CASE r \in 0 .. 12
    BY <2>1, BonusOf
  <2>2. CASE r \in -6 .. -1 \cup {None}
    <3>1. Screen!RatingBonus(r) = -25
      BY <2>2, LeastBonus
    <3> QED
      BY <3>1
  <2> QED
    BY <1>1, <2>1, <2>2
<1>3. CASE x \in 0 .. 12
  <2>1. y \in 0 .. 12 /\ x <= y
    BY <1>3
  <2>2. PICK k \in 1 .. 13, l \in 1 .. 13 : k = x + 1 /\ l = y + 1
    BY <1>3, <2>1
  <2>3. Bonuses[k] <= Bonuses[l]
    BY <1>3, <2>1, <2>2, BonusGrows
  <2>4. Screen!RatingBonus(x) = Bonuses[k] /\ Screen!RatingBonus(y) = Bonuses[l]
    BY <1>3, <2>1, <2>2, BonusOf
  <2> QED
    BY <1>2, <2>3, <2>4
<1>4. CASE x \notin 0 .. 12
  <2>1. Screen!RatingBonus(x) = -25
    BY <1>1, <1>4, LeastBonus
  <2> QED
    BY <1>2, <2>1
<1> QED
  BY <1>3, <1>4

\* A bond that is listed, and has a grade the table knows, or none.
IsGraded(b) == IsListed(b) /\ b.rating # Screen!Unlisted

LEMMA RiskGrows ==
  ASSUME Numbers, NEW a, IsGraded(a), NEW b, IsGraded(b), Screen!SaferTwin(a, b)
  PROVE  /\ Screen!RiskScore(a) \in Nat /\ Screen!RiskScore(b) \in Nat
         /\ Screen!RiskScore(b) <= Screen!RiskScore(a)
<1> DEFINE Lack(x) == (IF x.amortised THEN 5 ELSE 0) + (IF x.type = "variable" THEN 8 ELSE 0)
                        + (IF x.subordinated THEN 30 ELSE 0) + (IF x.callable THEN 12 ELSE 0)
           Base(x) == Screen!RiskBase[x.level]
<1>1. \A i \in 1 .. 4 : Screen!Quality(a)[i] >= Screen!Quality(b)[i]
  BY DEF Screen!SaferTwin
<1>2. Base(a) >= Base(b) /\ Base(a) \in Int /\ Base(b) \in Int
  <2>1. Screen!Quality(a)[1] = Base(a) /\ Screen!Quality(b)[1] = Base(b)
    BY DEF Screen!Quality
  <2>2. \A l \in DOMAIN Screen!RiskBase : Screen!RiskBase[l] \in Int
    BY DEF Screen!RiskBase
  <2>3. a.level \in DOMAIN Screen!RiskBase /\ b.level \in DOMAIN Screen!RiskBase
    BY DEF IsGraded, IsListed
  <2>4. Base(a) \in Int /\ Base(b) \in Int
    BY <2>2, <2>3
  <2> QED
    BY <1>1, <2>1, <2>4
<1>3. (IF Screen!Graded(a.rating) THEN a.rating ELSE -99)
        >= (IF Screen!Graded(b.rating) THEN b.rating ELSE -99)
  <2>1. Screen!Quality(a)[2] >= Screen!Quality(b)[2]
    BY <1>1
  <2> QED
    BY <2>1 DEF Screen!Quality
<1>4. Lack(a) \in Int /\ Lack(b) \in Int /\ Lack(a) <= Lack(b)
  <2>1. /\ Screen!Quality(a)[3] = (IF a.amortised THEN 0 ELSE 1)
        /\ Screen!Quality(b)[3] = (IF b.amortised THEN 0 ELSE 1)
        /\ Screen!Quality(a)[4] = (IF a.subordinated THEN 0 ELSE 1)
        /\ Screen!Quality(b)[4] = (IF b.subordinated THEN 0 ELSE 1)
    BY DEF Screen!Quality
  <2>2. (a.amortised => b.amortised) /\ (a.subordinated => b.subordinated)
    BY <1>1, <2>1
  <2>3. a.type = b.type /\ a.callable = b.callable
    BY DEF Screen!SaferTwin, Screen!Twins
  <2> QED
    BY <2>2, <2>3
<1>5. a.rating \in Grades /\ b.rating \in Grades
  BY DEF IsGraded, IsListed, Screen!Unlisted, Grades
<1>6. ASSUME b.rating \in 0 .. 12 PROVE a.rating \in 0 .. 12 /\ b.rating <= a.rating
  <2>1. Screen!Graded(b.rating)
    BY <1>6 DEF Screen!Graded
  <2>2. CASE Screen!Graded(a.rating)
    <3>1. a.rating >= b.rating
      BY <1>3, <2>1, <2>2
    <3>2. a.rating \in -6 .. 12
      BY <2>2 DEF Screen!Graded
    <3> QED
      BY <1>6, <3>1, <3>2
  <2>3. CASE ~Screen!Graded(a.rating)
    BY <1>3, <1>6, <2>1, <2>3
  <2> QED
    BY <2>2, <2>3
<1>7. /\ Screen!RatingBonus(a.rating) \in Int /\ Screen!RatingBonus(b.rating) \in Int
      /\ Screen!RatingBonus(b.rating) <= Screen!RatingBonus(a.rating)
  BY <1>5, <1>6, BetterGradeScoresMore
<1> DEFINE Raw(x) == (Base(x) - Lack(x) + Screen!RatingBonus(x.rating)) * 1000
<1>8. Raw(a) \in Int /\ Raw(b) \in Int /\ Raw(b) <= Raw(a)
  <2> HIDE DEF Base, Lack
  <2> QED
    BY <1>2, <1>4, <1>7
<1>9. Screen!RiskScore(a) = Screen!Clip(Raw(a)) /\ Screen!RiskScore(b) = Screen!Clip(Raw(b))
  BY DEF Screen!RiskScore, Screen!Point
<1> HIDE DEF Raw
<1> QED
  BY <1>8, <1>9, ClipGrows

\* A bond that is safer and pays the same is an investment grade if the other is.
LEMMA SaferIsInvestmentGrade ==
  ASSUME Numbers, NEW a, IsGraded(a), NEW b, IsGraded(b), Screen!SaferTwin(a, b),
         Screen!InvestmentGrade(b)
  PROVE  Screen!InvestmentGrade(a)
<1>1. Screen!Quality(a)[2] >= Screen!Quality(b)[2]
  BY DEF Screen!SaferTwin
<1>2. /\ Screen!Quality(a)[2] = IF Screen!Graded(a.rating) THEN a.rating ELSE -99
      /\ Screen!Quality(b)[2] = IF Screen!Graded(b.rating) THEN b.rating ELSE -99
  BY DEF Screen!Quality
<1>3. Screen!Graded(b.rating) /\ b.rating \in -6 .. 12 /\ b.rating >= 3
  BY DEF Screen!InvestmentGrade, Screen!Graded
<1>4. Screen!Graded(a.rating)
  <2> SUFFICES ASSUME ~Screen!Graded(a.rating) PROVE FALSE
    OBVIOUS
  <2> QED
    BY <1>1, <1>2, <1>3
<1>5. a.rating \in -6 .. 12 /\ a.rating >= b.rating
  BY <1>1, <1>2, <1>3, <1>4 DEF Screen!Graded
<1>6. a.rating >= 3
  BY <1>3, <1>5
<1> QED
  BY <1>4, <1>6 DEF Screen!InvestmentGrade

\* A penalty that starts later is never the greater one.
LEMMA ShareIsNat ==
  ASSUME NEW s \in Int, NEW worst \in {40, 50}, NEW from \in {2800, 4000}
  PROVE  Screen!Share(s, from, worst) \in Nat
BY DEF Screen!Share, Screen!Least, Screen!DistressFull, Screen!Point

LEMMA LaterStartCostsLess ==
  ASSUME NEW s \in Int
  PROVE  Screen!Share(s, 4000, 40) <= Screen!Share(s, 2800, 40)
<1>1. CASE s <= 4000
  <2>1. Screen!Share(s, 4000, 40) = 0
    BY <1>1 DEF Screen!Share
  <2> QED
    BY <2>1, ShareIsNat
<1>2. CASE s >= 5000
  BY <1>2 DEF Screen!Share, Screen!Least, Screen!DistressFull, Screen!Point
<1>3. CASE s > 4000 /\ s < 5000
  <2>1. Screen!Share(s, 4000, 40) = ((s - 4000) * 40000) \div 1000
    BY <1>3 DEF Screen!Share, Screen!Least, Screen!DistressFull, Screen!Point
  <2>2. Screen!Share(s, 2800, 40) = ((s - 2800) * 40000) \div 2200
    BY <1>3 DEF Screen!Share, Screen!Least, Screen!DistressFull, Screen!Point
  <2>3. ((s - 4000) * 40000) \div 1000 = (s - 4000) * 40
    BY <1>3
  <2>4. (s - 4000) * 40 <= ((s - 2800) * 40000) \div 2200
    BY <1>3
  <2> QED
    BY <2>1, <2>2, <2>3, <2>4
<1> QED
  BY <1>1, <1>2, <1>3

LEMMA FinalRiskGrows ==
  ASSUME Numbers, NEW a, IsGraded(a), NEW b, IsGraded(b), Screen!SaferTwin(a, b)
  PROVE  /\ Screen!FinalRiskScore(a) \in Nat /\ Screen!FinalRiskScore(b) \in Nat
         /\ Screen!FinalRiskScore(b) <= Screen!FinalRiskScore(a)
<1>1. PICK s : s = Screen!Spread(a)
  OBVIOUS
<1>2. Screen!Twins(a, b)
  BY DEF Screen!SaferTwin
<1>3. s \in Int /\ s = Screen!Spread(b)
  BY <1>1, <1>2, YieldIsNumber, TwinsPayAlike DEF IsGraded
<1>4. /\ Screen!DistressPenalty(a) = Screen!Share(s, Screen!DistressSpreadStart(a), 40)
      /\ Screen!DistressPenalty(b) = Screen!Share(s, Screen!DistressSpreadStart(b), 40)
  BY <1>1, <1>3 DEF Screen!DistressPenalty
<1>5. /\ Screen!InvestmentGrade(a) => Screen!DistressSpreadStart(a) = 4000
      /\ ~Screen!InvestmentGrade(a) => Screen!DistressSpreadStart(a) = 2800
      /\ Screen!InvestmentGrade(b) => Screen!DistressSpreadStart(b) = 4000
      /\ ~Screen!InvestmentGrade(b) => Screen!DistressSpreadStart(b) = 2800
  BY DEF Screen!DistressSpreadStart, Screen!DistressStart
<1>6. Screen!Share(s, 4000, 40) \in Nat /\ Screen!Share(s, 2800, 40) \in Nat
  BY <1>3, ShareIsNat
<1>7. Screen!Share(s, 4000, 40) <= Screen!Share(s, 2800, 40)
  BY <1>3, LaterStartCostsLess
<1>8. /\ Screen!DistressPenalty(a) \in Nat /\ Screen!DistressPenalty(b) \in Nat
      /\ Screen!DistressPenalty(a) <= Screen!DistressPenalty(b)
  BY <1>4, <1>5, <1>6, <1>7, SaferIsInvestmentGrade
<1>9. /\ Screen!RiskScore(a) \in Nat /\ Screen!RiskScore(b) \in Nat
      /\ Screen!RiskScore(b) <= Screen!RiskScore(a)
  BY RiskGrows
<1> QED
  BY <1>8, <1>9 DEF Screen!FinalRiskScore, Screen!Most

LEMMA JunkFalls ==
  ASSUME Numbers, NEW a, IsGraded(a), NEW b, IsGraded(b), Screen!SaferTwin(a, b)
  PROVE  /\ Screen!JunkPenalty(a) \in Nat /\ Screen!JunkPenalty(b) \in Nat
         /\ Screen!JunkPenalty(a) <= Screen!JunkPenalty(b)
<1>1. PICK s : s = Screen!Spread(a)
  OBVIOUS
<1>2. Screen!Twins(a, b)
  BY DEF Screen!SaferTwin
<1>3. s \in Int /\ s = Screen!Spread(b)
  BY <1>1, <1>2, YieldIsNumber, TwinsPayAlike DEF IsGraded
<1>4. PICK n \in Nat : n = Screen!Share(s, 2800, 50)
  BY <1>3, ShareIsNat
<1>5. /\ Screen!JunkPenalty(a) = IF Screen!InvestmentGrade(a) THEN 0 ELSE n
      /\ Screen!JunkPenalty(b) = IF Screen!InvestmentGrade(b) THEN 0 ELSE n
  BY <1>1, <1>3, <1>4 DEF Screen!JunkPenalty, Screen!DistressStart
<1>6. Screen!InvestmentGrade(b) => Screen!InvestmentGrade(a)
  BY SaferIsInvestmentGrade
<1> QED
  BY <1>5, <1>6

\* What is scored of a yield is a number, whatever the scale of the list.
LEMMA YTMScoreIsNat ==
  ASSUME Numbers, NEW ytm \in Int \cup {None}, NEW scale \in Nat, Screen!RiskFreeNet \in Int
  PROVE  Screen!YTMScore(ytm, scale) \in Nat
<1>1. CASE ytm = None
  BY <1>1 DEF Screen!YTMScore
<1>2. CASE ytm # None
  <2>1. PICK s \in Int : s = ytm - Screen!RiskFreeNet
    BY <1>2
  <2>2. CASE s <= 0
    BY <1>2, <2>1, <2>2 DEF Screen!YTMScore
  <2>3. CASE s > 0 /\ scale = 0
    BY <1>2, <2>1, <2>3 DEF Screen!YTMScore, Screen!Point
  <2>4. CASE s > 0 /\ scale > 0
    <3>1. PICK c \in Nat : c = Screen!Least(s, 2800) * 100000
      BY <2>4 DEF Screen!Least
    <3>2. c \div scale \in Nat
      BY <2>4, DivIsNat
    <3>3. PICK peak \in Nat : peak = Screen!Least(100000, c \div scale)
      BY <3>2 DEF Screen!Least
    <3>4. Screen!YTMScore(ytm, scale)
            = IF s <= 3500 THEN peak ELSE IF s >= 5000 THEN 0 ELSE (peak * (5000 - s)) \div 1500
      <4>1. Screen!Least(100 * 1000, (Screen!Least(s, 2800) * 100 * 1000) \div scale) = peak
        <5>1. Screen!Least(s, 2800) * 100 * 1000 = c
          BY <3>1, <2>4 DEF Screen!Least
        <5> QED
          BY <5>1, <3>3
      <4> QED
        BY <1>2, <2>1, <2>4, <4>1 DEF Screen!YTMScore, Screen!Point, Screen!DistressStart,
           Screen!DistressDecay, Screen!DistressFull
    <3>5. s > 3500 /\ s < 5000 => (peak * (5000 - s)) \div 1500 \in Nat
      <4> SUFFICES ASSUME s > 3500, s < 5000 PROVE (peak * (5000 - s)) \div 1500 \in Nat
        OBVIOUS
      <4>1. 5000 - s \in Nat
        OBVIOUS
      <4>2. peak * (5000 - s) \in Nat
        BY <4>1
      <4> QED
        BY <4>2, DivIsNat
    <3> QED
      BY <3>4, <3>5
  <2> QED
    BY <2>2, <2>3, <2>4
<1> QED
  BY <1>1, <1>2

LEMMA BoredomIsNat ==
  ASSUME Numbers, NEW b, IsListed(b)
  PROVE  Screen!BoredomPenalty(b) \in Nat
<1>1. PICK s \in Int : s = Screen!Spread(b)
  BY YieldIsNumber
<1>2. CASE s >= 1400
  BY <1>1, <1>2 DEF Screen!BoredomPenalty, Screen!BoredomSpread
<1>3. CASE s < 1400
  <2>1. (1400 - s) * 22 * 1000 \in Nat
    BY <1>3
  <2>2. ((1400 - s) * 22 * 1000) \div 1400 \in Nat
    BY <2>1, DivIsNat
  <2> QED
    BY <1>1, <1>3, <2>2 DEF Screen!BoredomPenalty, Screen!BoredomSpread, Screen!Point
<1> QED
  BY <1>2, <1>3

-----------------------------------------------------------------------------
(* Finite sets of numbers.                                                 *)

\* Of the subsets of a finite set that are bad, some has no smaller one.
LEMMA SmallestSet ==
  ASSUME NEW S, IsFiniteSet(S), NEW Bad \in SUBSET (SUBSET S), Bad # {}
  PROVE  \E T \in Bad : \A U \in Bad : U \subseteq T => U = T
<1>1. Bad \subseteq FiniteSubsetsOf(S)
  BY FS_FiniteSubsetsOfFinite
<1>2. IsWellFoundedOn(StrictSubsetOrdering(S), FiniteSubsetsOf(S))
  BY FS_StrictSubsetOrderingWellFounded
<1>3. PICK T \in Bad : \A U \in Bad : ~(<<U, T>> \in StrictSubsetOrdering(S))
  BY <1>1, <1>2, WFMin
<1> QED
  BY <1>3 DEF StrictSubsetOrdering

LEMMA LeastExists ==
  ASSUME NEW S, S \subseteq Int, IsFiniteSet(S), S # {}
  PROVE  \E m \in S : \A x \in S : m <= x
<1> DEFINE Bad == {T \in SUBSET S : T # {} /\ ~\E m \in T : \A x \in T : m <= x}
<1>1. Bad = {}
  <2> SUFFICES ASSUME Bad # {} PROVE FALSE
    OBVIOUS
  <2>1. PICK T \in Bad : \A U \in Bad : U \subseteq T => U = T
    <3>1. IsFiniteSet(S) /\ Bad \in SUBSET (SUBSET S) /\ Bad # {}
      OBVIOUS
    <3> HIDE DEF Bad
    <3> QED
      BY ONLY <3>1, SmallestSet
  <2>2. T \in SUBSET S /\ ~\E m \in T : \A x \in T : m <= x
    BY <2>1
  <2>3. PICK c \in T : TRUE
    BY <2>1
  <2>4. c \in Int /\ c <= c
    BY <2>2
  <2>5. PICK U : U = T \ {c}
    OBVIOUS
  <2>6. U # {}
    BY <2>2, <2>3, <2>4, <2>5
  <2>7. U \notin Bad /\ U \in SUBSET S
    BY <2>1, <2>3, <2>5
  <2>8. PICK m \in U : \A x \in U : m <= x
    BY <2>6, <2>7
  <2>9. m \in Int /\ m \in T
    BY <2>5, <2>7
  <2>10. CASE m <= c
    BY <2>2, <2>5, <2>8, <2>9, <2>10
  <2>11. CASE c <= m
    <3>1. \A x \in T : c <= x
      BY <2>2, <2>4, <2>5, <2>8, <2>9, <2>11
    <3> QED
      BY <2>2, <2>3, <3>1
  <2> QED
    BY <2>4, <2>9, <2>10, <2>11
<1> QED
  BY <1>1

LEMMA GreatestExists ==
  ASSUME NEW S \in SUBSET Int, IsFiniteSet(S), S # {}
  PROVE  \E m \in S : \A x \in S : m >= x
<1> DEFINE N == {-x : x \in S}
<1>1. N \in SUBSET Int /\ N # {}
  <2>1. \A x \in S : -x \in Int
    OBVIOUS
  <2> QED
    BY <2>1
<1>2. IsFiniteSet(N)
  <2> DEFINE f == [x \in S |-> -x]
  <2>1. f \in Surjection(S, N)
    BY DEF Surjection
  <2> QED
    BY <2>1, FS_Surjection
<1>3. PICK m \in N : \A x \in N : m <= x
  BY <1>1, <1>2, LeastExists
<1>4. PICK k \in S : m = -k
  OBVIOUS
<1>5. \A x \in S : -k <= -x /\ x \in Int /\ k \in Int
  BY <1>3, <1>4
<1> QED
  BY <1>5

LEMMA ImageIsFinite ==
  ASSUME NEW S, IsFiniteSet(S), NEW f
  PROVE  IsFiniteSet({f[x] : x \in S})
<1> DEFINE g == [x \in S |-> f[x]]
<1>1. g \in Surjection(S, {f[x] : x \in S})
  BY DEF Surjection
<1> QED
  BY <1>1, FS_Surjection

-----------------------------------------------------------------------------
(* The scales of a list.                                                   *)

IsList(list) == IsFiniteSet(list) /\ \A b \in list : IsListed(b)

LEMMA SameCardinality == \A S : Screen!Cardinality(S) = Cardinality(S)
BY DEF Screen!Cardinality, Cardinality

LEMMA YieldAtIsNumber ==
  ASSUME NEW rated, IsFiniteSet(rated), \A b \in rated : Screen!ScoringYTM(b) \in Int,
         NEW k \in Int, k <= Cardinality(rated), rated # {}
  PROVE  Screen!YieldAt(rated, k) \in Int
<1> DEFINE f == [b \in rated |-> Screen!ScoringYTM(b)]
           Y == {f[b] : b \in rated}
<1>1. Y = {Screen!ScoringYTM(b) : b \in rated}
  OBVIOUS
<1>2. IsFiniteSet(Y)
  <2> HIDE DEF f
  <2> QED
    BY ImageIsFinite
<1>3. Y \in SUBSET Int /\ Y # {}
  OBVIOUS
<1> HIDE DEF f, Y
<1>4. PICK m \in Y : \A y \in Y : m >= y
  BY <1>2, <1>3, GreatestExists
<1>5. {b \in rated : Screen!ScoringYTM(b) <= m} = rated
  BY <1>1, <1>3, <1>4
<1>6. PICK Z : Z = Screen!Reached(rated, k)
  OBVIOUS
<1>7. Z = {y \in Y : k <= Cardinality({b \in rated : Screen!ScoringYTM(b) <= y})}
  <2>1. Z = {y \in {Screen!ScoringYTM(b) : b \in rated} :
               k <= Cardinality({b \in rated : Screen!ScoringYTM(b) <= y})}
    BY <1>6, SameCardinality DEF Screen!Reached
  <2> QED
    BY <1>1, <2>1
<1>8. m \in Z /\ Z \in SUBSET Int
  BY <1>3, <1>5, <1>7
<1>9. IsFiniteSet(Z)
  BY <1>2, <1>7, FS_Subset
<1>10. Screen!YieldAt(rated, k) = CHOOSE x \in Z : \A z \in Z : x <= z
  BY <1>6 DEF Screen!YieldAt, Screen!Min
<1>11. \E x \in Z : \A z \in Z : x <= z
  BY <1>8, <1>9, LeastExists
<1>12. Screen!YieldAt(rated, k) \in Z
  BY <1>10, <1>11
<1> QED
  BY <1>8, <1>12

LEMMA ScaleIsNumber ==
  ASSUME Numbers, NEW list, IsList(list)
  PROVE  Screen!YTMScaleReference(list) \in Int
<1>3. PICK r : r = Screen!Rated(list)
  OBVIOUS
<1>1. Screen!RiskFreeNet \in Int /\ \A b \in r : Screen!ScoringYTM(b) \in Int
  <2>1. Screen!RiskFreeNet \in Int
    BY DEF Numbers, Screen!RiskFreeNet, Screen!Net
  <2>2. \A b \in r : IsListed(b) /\ Screen!ScoringYTM(b) # None
    BY <1>3 DEF IsList, Screen!Rated
  <2> QED
    BY <2>1, <2>2, YieldIsNumber
<1>2. IsFiniteSet(r)
  BY <1>3, FS_Subset DEF IsList, Screen!Rated
<1>4. CASE r = {}
  BY <1>1, <1>3, <1>4 DEF Screen!YTMScaleReference
<1>5. CASE r # {}
  <2>1. PICK n \in Nat \ {0} : n = Cardinality(r)
    BY <1>2, <1>5, FS_CardinalityType, FS_EmptySet
  <2>2. PICK at \in Int, part \in 0 .. 99 :
          at = (95 * (n - 1)) \div 100 /\ part = (95 * (n - 1)) % 100
    OBVIOUS
  <2>3. at + 1 \in Int /\ at + 1 <= n
    BY <2>2
  <2>4. part # 0 => at + 2 \in Int /\ at + 2 <= n
    BY <2>2
  <2>5. Screen!YTMScaleReference(list)
          = IF part = 0 THEN Screen!YieldAt(r, at + 1)
            ELSE (Screen!YieldAt(r, at + 1) * (100 - part)
                   + Screen!YieldAt(r, at + 2) * part) \div 100
    <3> DEFINE l == Screen!Rated(list)
               p == 95 * (Cardinality(l) - 1)
    <3>1. Screen!YTMScaleReference(list)
            = IF l = {} THEN Screen!RiskFreeNet
              ELSE IF p % 100 = 0 THEN Screen!YieldAt(l, (p \div 100) + 1)
              ELSE (Screen!YieldAt(l, (p \div 100) + 1) * (100 - (p % 100))
                    + Screen!YieldAt(l, (p \div 100) + 2) * (p % 100)) \div 100
      BY SameCardinality DEF Screen!YTMScaleReference
    <3>2. l = r
      BY <1>3
    <3> HIDE DEF l
    <3>3. p % 100 = part /\ p \div 100 = at
      BY <2>1, <2>2, <3>2
    <3> HIDE DEF p
    <3> QED
      BY <1>5, <3>1, <3>2, <3>3
  <2>6. Screen!YieldAt(r, at + 1) \in Int
    BY <1>1, <1>2, <1>5, <2>1, <2>3, YieldAtIsNumber
  <2>7. part # 0 => Screen!YieldAt(r, at + 2) \in Int
    BY <1>1, <1>2, <1>5, <2>1, <2>4, YieldAtIsNumber
  <2>8. CASE part = 0
    BY <2>5, <2>6, <2>8
  <2>9. CASE part # 0
    <3>1. PICK x \in Int, y \in Int : x = Screen!YieldAt(r, at + 1) /\ y = Screen!YieldAt(r, at + 2)
      BY <2>6, <2>7, <2>9
    <3>2. x * (100 - part) + y * part \in Int
      OBVIOUS
    <3> QED
      BY <2>5, <2>9, <3>1, <3>2
  <2> QED
    BY <2>8, <2>9
<1> QED
  BY <1>4, <1>5

-----------------------------------------------------------------------------
(* The score of a bond. *)

LEMMA BonusIsNumber ==
  ASSUME Numbers, NEW r \in -6 .. Screen!Unlisted \cup {None}
  PROVE  Screen!RatingBonus(r) \in Int
<1>1. CASE r \in 0 .. 12
  BY <1>1, BonusOf
<1>2. CASE r \in -6 .. -1 \cup {None}
  <2>1. Screen!RatingBonus(r) = -25
    BY <1>2, LeastBonus
  <2> QED
    BY <2>1
<1>3. CASE r = 13
  <2>1. r # None
    BY <1>3 DEF Numbers
  <2>2. Screen!RatingBonus(r) = 0
    BY <1>3, <2>1 DEF Screen!RatingBonus, Screen!Unlisted
  <2> QED
    BY <2>2
<1> QED
  BY <1>1, <1>2, <1>3 DEF Screen!Unlisted

LEMMA RiskIsNat ==
  ASSUME Numbers, NEW b, IsListed(b)
  PROVE  Screen!RiskScore(b) \in Nat
<1>1. PICK base \in Int : base = Screen!RiskBase[b.level]
  <2>1. \A l \in DOMAIN Screen!RiskBase : Screen!RiskBase[l] \in Int
    BY DEF Screen!RiskBase
  <2> QED
    BY <2>1 DEF IsListed
<1>2. PICK bonus \in Int : bonus = Screen!RatingBonus(b.rating)
  BY BonusIsNumber DEF IsListed
<1>3. PICK lack \in Int : lack = (IF b.amortised THEN 5 ELSE 0) + (IF b.type = "variable" THEN 8 ELSE 0)
                        + (IF b.subordinated THEN 30 ELSE 0) + (IF b.callable THEN 12 ELSE 0)
  OBVIOUS
<1>4. PICK raw \in Int : raw = (base - lack + bonus) * 1000
  OBVIOUS
<1>5. Screen!RiskScore(b) = Screen!Clip(raw)
  BY <1>1, <1>2, <1>3, <1>4 DEF Screen!RiskScore, Screen!Point
<1>6. raw <= raw
  OBVIOUS
<1> QED
  BY <1>5, <1>6, ClipGrows

LEMMA FinalRiskIsNat ==
  ASSUME Numbers, NEW b, IsListed(b)
  PROVE  Screen!FinalRiskScore(b) \in Nat
<1>1. PICK s \in Int : s = Screen!Spread(b)
  BY YieldIsNumber
<1>2. Screen!DistressSpreadStart(b) \in {2800, 4000}
  BY DEF Screen!DistressSpreadStart, Screen!DistressStart
<1>3. Screen!DistressPenalty(b) \in Nat
  BY <1>1, <1>2, ShareIsNat DEF Screen!DistressPenalty
<1> QED
  BY <1>3, RiskIsNat DEF Screen!FinalRiskScore, Screen!Most

LEMMA JunkIsNat ==
  ASSUME Numbers, NEW b, IsListed(b)
  PROVE  Screen!JunkPenalty(b) \in Nat
<1>1. PICK s \in Int : s = Screen!Spread(b)
  BY YieldIsNumber
<1>2. Screen!Share(s, 2800, 50) \in Nat
  BY <1>1, ShareIsNat
<1> QED
  BY <1>1, <1>2 DEF Screen!JunkPenalty, Screen!DistressStart

LEMMA LiquidityIsNat ==
  ASSUME Numbers, NEW b, IsListed(b)
  PROVE  Screen!LiquidityScore(b) \in Nat
<1>1. PICK v \in Int : v = b.volume * Screen!Point
  BY DEF IsListed, Screen!Point
<1>2. v <= v
  BY <1>1
<1> QED
  BY <1>1, <1>2, ClipGrows DEF Screen!LiquidityScore

LEMMA WeightsOf ==
  ASSUME NEW profile \in Screen!Profiles
  PROVE  /\ Screen!ProfileWeights[profile][1] \in Nat /\ Screen!ProfileWeights[profile][2] \in Nat
         /\ Screen!ProfileWeights[profile][3] \in Nat
BY DEF Screen!ProfileWeights, Screen!Profiles

\* The weighted mean of the three parts.
Mean(b, profile, scale) ==
  (Screen!YTMScore(Screen!ScoringYTM(b), scale) * Screen!ProfileWeights[profile][1]
     + Screen!FinalRiskScore(b) * Screen!ProfileWeights[profile][2]
     + Screen!LiquidityScore(b) * Screen!ProfileWeights[profile][3]) \div 100

LEMMA MeanIsNat ==
  ASSUME Numbers, NEW b, IsListed(b), NEW profile \in Screen!Profiles, NEW scale \in Nat
  PROVE  Mean(b, profile, scale) \in Nat
<1>1. PICK w1 \in Nat, w2 \in Nat, w3 \in Nat :
        /\ w1 = Screen!ProfileWeights[profile][1] /\ w2 = Screen!ProfileWeights[profile][2]
        /\ w3 = Screen!ProfileWeights[profile][3]
  BY WeightsOf
<1>2. PICK y \in Nat, r \in Nat, l \in Nat :
        /\ y = Screen!YTMScore(Screen!ScoringYTM(b), scale) /\ r = Screen!FinalRiskScore(b)
        /\ l = Screen!LiquidityScore(b)
  BY YieldIsNumber, YTMScoreIsNat, FinalRiskIsNat, LiquidityIsNat
<1>3. PICK n : n = y * w1 + r * w2 + l * w3
  OBVIOUS
<1>4. n \in Nat
  <2>1. y * w1 \in Nat /\ r * w2 \in Nat /\ l * w3 \in Nat
    OBVIOUS
  <2> QED
    BY <1>3, <2>1
<1>5. n \div 100 \in Nat
  BY <1>4, DivIsNat
<1> QED
  BY <1>1, <1>2, <1>3, <1>5 DEF Mean

LEMMA CompositeOf ==
  ASSUME Numbers, NEW b, NEW profile, NEW scale
  PROVE  Screen!CompositeForProfile(b, profile, scale)
           = IF profile = "aggressive"
               THEN Screen!Most(0, Mean(b, profile, scale) - Screen!BoredomPenalty(b)
                                     - Screen!JunkPenalty(b))
               ELSE Mean(b, profile, scale)
BY DEF Screen!CompositeForProfile, Mean

LEMMA CompositeIsNat ==
  ASSUME Numbers, NEW b, IsListed(b), NEW profile \in Screen!Profiles, NEW scale \in Nat
  PROVE  Screen!CompositeForProfile(b, profile, scale) \in Nat
BY CompositeOf, MeanIsNat, BoredomIsNat, JunkIsNat DEF Screen!Most

LEMMA MeanGrows ==
  ASSUME Numbers, NEW a, IsGraded(a), NEW b, IsGraded(b), Screen!SaferTwin(a, b),
         NEW profile \in Screen!Profiles, NEW scale \in Nat
  PROVE  Mean(b, profile, scale) <= Mean(a, profile, scale)
<1>1. PICK w1 \in Nat, w2 \in Nat, w3 \in Nat :
        /\ w1 = Screen!ProfileWeights[profile][1] /\ w2 = Screen!ProfileWeights[profile][2]
        /\ w3 = Screen!ProfileWeights[profile][3]
  BY WeightsOf
<1>2. PICK y \in Nat, l \in Nat :
        y = Screen!YTMScore(Screen!ScoringYTM(b), scale) /\ l = Screen!LiquidityScore(b)
  BY YieldIsNumber, YTMScoreIsNat, LiquidityIsNat DEF IsGraded
<1>3. y = Screen!YTMScore(Screen!ScoringYTM(a), scale) /\ l = Screen!LiquidityScore(a)
  BY <1>2, TwinsPayAlike DEF Screen!SaferTwin
<1>4. PICK ra \in Nat, rb \in Nat :
        ra = Screen!FinalRiskScore(a) /\ rb = Screen!FinalRiskScore(b) /\ rb <= ra
  BY FinalRiskGrows
<1>5. PICK m \in Nat, n \in Nat : m = y * w1 + rb * w2 + l * w3 /\ n = y * w1 + ra * w2 + l * w3
  <2>1. \A p \in Nat, q \in Nat : p * q \in Nat
    OBVIOUS
  <2>2. y * w1 \in Nat /\ rb * w2 \in Nat /\ ra * w2 \in Nat /\ l * w3 \in Nat
    BY <2>1
  <2> QED
    BY <2>2
<1>6. m <= n
  <2>1. rb * w2 <= ra * w2
    BY <1>4
  <2>2. PICK p \in Nat, q \in Nat, u \in Nat, v \in Nat :
          p = y * w1 /\ q = rb * w2 /\ u = ra * w2 /\ v = l * w3
    OBVIOUS
  <2> QED
    BY <1>5, <2>1, <2>2
<1>7. m \div 100 <= n \div 100
  BY <1>6, DivGrows
<1> QED
  BY <1>1, <1>2, <1>3, <1>4, <1>5, <1>7 DEF Mean

LEMMA CompositeGrows ==
  ASSUME Numbers, NEW a, IsGraded(a), NEW b, IsGraded(b), Screen!SaferTwin(a, b),
         NEW profile \in Screen!Profiles, NEW scale \in Nat
  PROVE  Screen!CompositeForProfile(b, profile, scale) <= Screen!CompositeForProfile(a, profile, scale)
<1>1. Mean(b, profile, scale) <= Mean(a, profile, scale)
  BY MeanGrows
<1>2. Mean(b, profile, scale) \in Nat /\ Mean(a, profile, scale) \in Nat
  BY MeanIsNat DEF IsGraded
<1>3. PICK d \in Nat : d = Screen!BoredomPenalty(a) /\ d = Screen!BoredomPenalty(b)
  BY BoredomIsNat, TwinsPayAlike DEF IsGraded, Screen!SaferTwin
<1>4. PICK ja \in Nat, jb \in Nat :
        ja = Screen!JunkPenalty(a) /\ jb = Screen!JunkPenalty(b) /\ ja <= jb
  BY JunkFalls
<1>5. PICK ma \in Nat, mb \in Nat :
        ma = Mean(a, profile, scale) /\ mb = Mean(b, profile, scale) /\ mb <= ma
  BY <1>1, <1>2
<1>6. /\ Screen!CompositeForProfile(a, profile, scale)
           = IF profile = "aggressive" THEN Screen!Most(0, ma - d - ja) ELSE ma
      /\ Screen!CompositeForProfile(b, profile, scale)
           = IF profile = "aggressive" THEN Screen!Most(0, mb - d - jb) ELSE mb
  BY <1>3, <1>4, <1>5, CompositeOf
<1> QED
  BY <1>4, <1>5, <1>6 DEF Screen!Most

-----------------------------------------------------------------------------
(* The score a list is sorted by. *)

LEMMA DurationScaleIsNat ==
  ASSUME Numbers, NEW list, IsList(list)
  PROVE  Screen!DurationScale(list) \in Nat
<1>1. PICK f : f = [b \in {x \in list : Screen!RateSensitiveDuration(x) # None} |->
                      Screen!RateSensitiveDuration(b)]
  OBVIOUS
<1>2. PICK L : L = {x \in list : Screen!RateSensitiveDuration(x) # None}
  OBVIOUS
<1>3. IsFiniteSet(L) /\ \A b \in L : IsListed(b) /\ Screen!RateSensitiveDuration(b) # None
  BY <1>2, FS_Subset DEF IsList
<1>4. \A b \in L : Screen!RateSensitiveDuration(b) \in Int
  BY <1>3 DEF Screen!RateSensitiveDuration, IsListed
<1>5. PICK D : D = {0} \cup {Screen!RateSensitiveDuration(b) : b \in L}
  OBVIOUS
<1>6. D \in SUBSET Int /\ D # {} /\ 0 \in D
  BY <1>4, <1>5
<1>7. IsFiniteSet(D)
  <2>1. {Screen!RateSensitiveDuration(b) : b \in L} = {f[b] : b \in L}
    BY <1>1, <1>2
  <2>2. IsFiniteSet({f[b] : b \in L})
    BY <1>3, ImageIsFinite
  <2> QED
    BY <1>5, <2>1, <2>2, FS_AddElement
<1>8. PICK m \in D : \A x \in D : m >= x
  BY <1>6, <1>7, GreatestExists
<1>9. Screen!DurationScale(list) = Screen!Max(D)
  <2>1. Screen!DurationScale(list)
          = Screen!Max({0} \cup {Screen!RateSensitiveDuration(b) :
                                   b \in {x \in list : Screen!RateSensitiveDuration(x) # None}})
    BY DEF Screen!DurationScale
  <2> QED
    BY <1>2, <1>5, <2>1
<1>10. Screen!Max(D) = CHOOSE x \in D : \A y \in D : x >= y
  BY DEF Screen!Max
<1>11. Screen!Max(D) \in D /\ \A y \in D : Screen!Max(D) >= y
  BY <1>8, <1>10
<1>12. PICK x \in D : x = Screen!Max(D) /\ x >= 0
  BY <1>6, <1>11
<1>13. x \in Nat
  BY <1>6, <1>12
<1> QED
  BY <1>9, <1>12, <1>13

LEMMA AdjustmentIsNumber ==
  ASSUME Numbers, NEW b, IsListed(b), NEW scenario, NEW scale \in Nat
  PROVE  Screen!DurationAdjustment(b, scenario, scale) \in Int
<1> DEFINE duration == Screen!RateSensitiveDuration(b)
           near == Screen!Least(scale, duration)
           factor == IF scenario = "hike" THEN scale - near ELSE near
           target == Screen!TargetDuration(scenario)
           distance == IF duration < target THEN target - duration ELSE duration - target
           w == Screen!DurationWeight(scenario)
<1>1. CASE scenario = "hold" \/ duration = None \/ scale <= 0
  BY <1>1 DEF Screen!DurationAdjustment
<1>2. CASE ~(scenario = "hold" \/ duration = None \/ scale <= 0)
  <2>1. duration \in Int /\ scale \in Nat \ {0}
    BY <1>2 DEF IsListed, Screen!RateSensitiveDuration
  <2>2. target \in {20, 5} /\ w \in {0, 20}
    BY DEF Screen!TargetDuration, Screen!DurationWeight
  <2> HIDE DEF duration, target, w
  <2>3. near \in Int /\ factor \in Int /\ distance \in Int
    BY <2>1, <2>2 DEF Screen!Least
  <2>4. PICK x \in Int, y \in Int : /\ x = factor * w * Screen!Point
                                    /\ y = Screen!Most(0, scale - distance) * ((w * Screen!Point) \div 2)
    <3>1. Screen!Most(0, scale - distance) \in Int
      BY <2>1, <2>3 DEF Screen!Most
    <3> HIDE DEF factor
    <3>2. (w * Screen!Point) \div 2 \in {0, 10000} /\ w * Screen!Point \in {0, 20000}
      BY <2>2 DEF Screen!Point
    <3>3. factor * w * Screen!Point \in Int
      BY <2>2, <2>3 DEF Screen!Point
    <3>4. Screen!Most(0, scale - distance) * ((w * Screen!Point) \div 2) \in Int
      BY <3>1, <3>2
    <3> QED
      BY <3>3, <3>4
  <2>5. x \div scale \in Int /\ y \div scale \in Int
    <3>1. x <= x /\ y <= y
      OBVIOUS
    <3> QED
      BY <2>1, <3>1, DivGrows
  <2>6. Screen!DurationAdjustment(b, scenario, scale) = (x \div scale) + (y \div scale)
    BY <1>2, <2>4 DEF Screen!DurationAdjustment, duration, target, w
  <2> QED
    BY <2>5, <2>6
<1> QED
  BY <1>1, <1>2

LEMMA ResolvedGrows ==
  ASSUME Numbers, NEW b, IsListed(b), NEW a, Screen!Twins(a, b), NEW scenario, NEW scale \in Nat,
         NEW x \in Nat, NEW y \in Nat, y <= x
  PROVE  /\ Screen!ResolvedScore(a, x, scenario, scale) \in Nat
         /\ Screen!ResolvedScore(b, y, scenario, scale) \in Nat
         /\ Screen!ResolvedScore(b, y, scenario, scale) <= Screen!ResolvedScore(a, x, scenario, scale)
<1>1. PICK d \in Int : d = Screen!DurationAdjustment(b, scenario, scale)
  BY AdjustmentIsNumber
<1>2. d = Screen!DurationAdjustment(a, scenario, scale)
  BY <1>1, TwinsPayAlike DEF Screen!DurationAdjustment
<1>3. /\ Screen!ResolvedScore(a, x, scenario, scale) = IF d = 0 THEN x ELSE Screen!Clip(x + d)
      /\ Screen!ResolvedScore(b, y, scenario, scale) = IF d = 0 THEN y ELSE Screen!Clip(y + d)
  BY <1>1, <1>2 DEF Screen!ResolvedScore
<1>4. /\ Screen!Clip(x + d) \in Nat /\ Screen!Clip(y + d) \in Nat
      /\ Screen!Clip(y + d) <= Screen!Clip(x + d)
  <2>1. x + d \in Int /\ y + d \in Int /\ y + d <= x + d
    OBVIOUS
  <2> QED
    BY <2>1, ClipGrows
<1> QED
  BY <1>3, <1>4

LEMMA SafestSortsFirst ==
  ASSUME Numbers, NEW list, IsList(list), NEW q, q.profile \in Screen!Profiles, q.sort = "score",
         NEW a \in Screen!Matches(list, q), NEW b \in Screen!Matches(list, q)
  PROVE  /\ Screen!SortKey(list, q)[a] \in Nat
         /\ Screen!SaferTwin(a, b) => Screen!SortKey(list, q)[b] <= Screen!SortKey(list, q)[a]
<1> DEFINE found == Screen!Matches(list, q)
           p == q.profile
<1>1. a \in list /\ b \in list /\ IsListed(a) /\ IsListed(b)
  BY DEF Screen!Matches, IsList
<1>2. PICK scale : scale = Screen!Most(Screen!YTMScaleReference(list) - Screen!RiskFreeNet, 0)
  OBVIOUS
<1>3. scale \in Nat
  <2>1. Screen!RiskFreeNet \in Int
    BY <1>1, YieldIsNumber
  <2> QED
    BY <1>2, <2>1, ScaleIsNumber DEF Screen!Most
<1>4. \A c \in list : Screen!ProfileScores(list)[c][p] = Screen!CompositeForProfile(c, p, scale)
  BY <1>2 DEF Screen!ProfileScores
<1>5. IsList(found)
  BY FS_Subset DEF IsList, Screen!Matches
<1>6. PICK years \in Nat : years = Screen!DurationScale(found)
  BY <1>5, DurationScaleIsNat
<1>7. \A c \in found : Screen!SortKey(list, q)[c]
                         = Screen!ResolvedScore(c, Screen!ProfileScores(list)[c][p], q.scenario, years)
  BY <1>6 DEF Screen!SortKey
<1>8. PICK x \in Nat, y \in Nat : /\ x = Screen!CompositeForProfile(a, p, scale)
                                  /\ y = Screen!CompositeForProfile(b, p, scale)
  BY <1>1, <1>3, CompositeIsNat
<1>9. /\ Screen!SortKey(list, q)[a] = Screen!ResolvedScore(a, x, q.scenario, years)
      /\ Screen!SortKey(list, q)[b] = Screen!ResolvedScore(b, y, q.scenario, years)
  BY <1>1, <1>4, <1>7, <1>8
<1>10. Screen!SortKey(list, q)[a] \in Nat
  <2>1. PICK d \in Int : d = Screen!DurationAdjustment(a, q.scenario, years)
    BY <1>1, AdjustmentIsNumber
  <2>2. x + d \in Int /\ x + d <= x + d
    OBVIOUS
  <2>3. Screen!Clip(x + d) \in Nat
    BY <2>2, ClipGrows
  <2> QED
    BY <1>9, <2>1, <2>3 DEF Screen!ResolvedScore
<1>11. ASSUME Screen!SaferTwin(a, b)
       PROVE  Screen!SortKey(list, q)[b] <= Screen!SortKey(list, q)[a]
  <2>1. Screen!Twins(a, b) /\ IsGraded(a) /\ IsGraded(b)
    BY <1>1, <1>11 DEF Screen!SaferTwin, Screen!Twins, IsGraded
  <2>2. y <= x
    BY <1>3, <1>8, <1>11, <2>1, CompositeGrows
  <2>3. Screen!ResolvedScore(b, y, q.scenario, years) <= Screen!ResolvedScore(a, x, q.scenario, years)
    BY <1>1, <2>1, <2>2, ResolvedGrows
  <2> QED
    BY <1>9, <2>3
<1> QED
  BY <1>10, <1>11

-----------------------------------------------------------------------------
(* Orders of a list, and pages cut from them. *)

LEMMA EachHasAPlace ==
  ASSUME NEW S, IsFiniteSet(S), NEW s \in Screen!SetToSeqs(S)
  PROVE  /\ s \in Seq(S) /\ Len(s) \in Nat /\ DOMAIN s = 1 .. Len(s)
         /\ \A i \in 1 .. Len(s) : s[i] \in S
         /\ \A i, j \in 1 .. Len(s) : s[i] = s[j] => i = j
         /\ \A x \in S : \E i \in 1 .. Len(s) : s[i] = x
<1>1. PICK n : n = Cardinality(S)
  OBVIOUS
<1>2. n \in Nat
  BY <1>1, FS_CardinalityType
<1>3. s \in [1 .. n -> S] /\ \A i, j \in 1 .. n : i # j => s[i] # s[j]
  BY <1>1, SameCardinality DEF Screen!SetToSeqs
<1>4. s \in Seq(S) /\ Len(s) = n /\ DOMAIN s = 1 .. n
  BY <1>2, <1>3
<1>5. s \in Injection(1 .. n, S)
  BY <1>3 DEF Injection, IsInjective
<1>6. Cardinality(1 .. n) = n
  BY <1>2, FS_Interval
<1>7. s \in Surjection(1 .. n, S)
  BY <1>1, <1>5, <1>6, FS_Injection
<1>8. \A x \in S : \E i \in 1 .. n : s[i] = x
  BY <1>7 DEF Surjection
<1> QED
  BY <1>2, <1>3, <1>4, <1>8

\* Where no neighbour rises, nothing later is higher.
LEMMA NeverRises ==
  ASSUME NEW n \in Nat, NEW v, \A i \in 1 .. n : v[i] \in Int,
         \A i \in 1 .. (n - 1) : v[i] >= v[i + 1],
         NEW i \in 1 .. n, NEW j \in 1 .. n, i < j
  PROVE  v[i] >= v[j]
<1> DEFINE Bad == {k \in 1 .. n : i < k /\ ~(v[i] >= v[k])}
<1>1. Bad = {}
  <2> SUFFICES ASSUME Bad # {} PROVE FALSE
    OBVIOUS
  <2>1. IsFiniteSet(Bad)
    <3>1. IsFiniteSet(1 .. n) /\ Bad \subseteq 1 .. n
      BY FS_Interval
    <3> HIDE DEF Bad
    <3> QED
      BY <3>1, FS_Subset
  <2>2. PICK k \in Bad : \A x \in Bad : k <= x
    <3>1. Bad \subseteq Int
      OBVIOUS
    <3> HIDE DEF Bad
    <3> QED
      BY <2>1, <3>1, LeastExists
  <2>3. PICK h \in Int : h = k - 1
    OBVIOUS
  <2>4. h \in 1 .. (n - 1) /\ i <= h /\ h + 1 = k /\ h \in 1 .. n
    BY <2>3
  <2>5. v[h] >= v[k]
    BY <2>4
  <2>6. v[i] >= v[h]
    <3>1. CASE h = i
      BY <3>1
    <3>2. CASE h # i
      <4>1. h \notin Bad
        BY <2>2, <2>3
      <4> QED
        BY <2>4, <3>2, <4>1
    <3> QED
      BY <3>1, <3>2
  <2>7. v[i] \in Int /\ v[h] \in Int /\ v[k] \in Int
    BY <2>4
  <2> QED
    BY <2>5, <2>6, <2>7
<1> QED
  BY <1>1

\* The place in the order of row i of page m.
LEMMA LaterPagesFollow ==
  ASSUME NEW size \in Nat \ {0}, NEW m \in Nat \ {0}, NEW n \in Nat \ {0}, m < n,
         NEW i \in 1 .. size, NEW j \in 1 .. size
  PROVE  Screen!PageStart(m, size) + i < Screen!PageStart(n, size) + j
<1>1. PICK a \in Nat, b \in Nat : a = (m - 1) * size /\ b = (n - 1) * size
  OBVIOUS
<1>2. a + size <= b
  <2>1. \A x \in Nat, y \in Nat : x <= y => x * size <= y * size
    OBVIOUS
  <2>2. m * size <= (n - 1) * size
    BY <2>1
  <2>3. m * size = a + size
    BY <1>1
  <2> QED
    BY <1>1, <2>2, <2>3
<1> QED
  BY <1>1, <1>2 DEF Screen!PageStart

LEMMA PageOfPlace ==
  ASSUME NEW size \in Nat \ {0}, NEW n \in Nat, NEW x \in Nat \ {0}, x <= n * size
  PROVE  \E m \in 1 .. n, i \in 1 .. size : Screen!PageStart(m, size) + i = x
<1> DEFINE Ends == {m \in 1 .. n : x <= m * size}
<1>1. n \in Ends
  <2>1. n # 0
    OBVIOUS
  <2> QED
    BY <2>1
<1>2. IsFiniteSet(Ends) /\ Ends \subseteq Int
  <2>1. IsFiniteSet(1 .. n) /\ Ends \subseteq 1 .. n
    BY FS_Interval
  <2> HIDE DEF Ends
  <2>2. IsFiniteSet(Ends)
    BY <2>1, FS_Subset
  <2>3. Ends \subseteq Int
    BY <2>1
  <2> QED
    BY <2>2, <2>3
<1>3. PICK m \in Ends : \A k \in Ends : m <= k
  <2> HIDE DEF Ends
  <2> QED
    BY <1>1, <1>2, LeastExists
<1>4. PICK a \in Nat : a = (m - 1) * size
  OBVIOUS
<1>5. a < x
  <2>1. CASE m = 1
    BY <1>4, <2>1
  <2>2. CASE m # 1
    <3>1. PICK h \in 1 .. n : h = m - 1
      BY <2>2
    <3>2. h \notin Ends
      BY <1>3, <3>1
    <3>3. ~(x <= h * size)
      BY <3>2
    <3> QED
      BY <1>4, <3>1, <3>3
  <2> QED
    BY <2>1, <2>2
<1>6. x <= a + size
  <2>1. m * size = a + size
    BY <1>4
  <2> QED
    BY <2>1
<1>7. x - a \in 1 .. size /\ a + (x - a) = x
  BY <1>5, <1>6
<1> QED
  BY <1>4, <1>7 DEF Screen!PageStart

-----------------------------------------------------------------------------
(* The screener's state. *)

IsSeq(s) == s \in Seq({s[k] : k \in DOMAIN s})

\* A page is cut from an order of the list, at the place its number says.
IsCut(pg, order, list) ==
  /\ pg.total = Len(order)
  /\ DOMAIN pg.rows = {i \in 1 .. asked.size : Screen!PageStart(pg.page, asked.size) + i <= Len(order)}
  /\ \A i \in DOMAIN pg.rows :
       /\ pg.rows[i].bond = order[Screen!PageStart(pg.page, asked.size) + i]
       /\ asked.scenario = "hold" =>
            pg.rows[i].shown = Screen!ShownScore(pg.rows[i].bond, list, asked, 0)

Read == 1 .. Len(pages)

\* Every page of load k is cut from one order of it.
CutFrom(k, order) ==
  /\ order \in Screen!Rankings(lists[k], asked)
  /\ \A n \in Read : pages[n].load = k => IsCut(pages[n], order, lists[k])

ScreenTyped ==
  /\ lists \in Lists /\ load \in 1 .. Len(lists)
  /\ asked = None => pages = <<>> /\ ranking = None
  /\ asked # None => asked.size \in Nat \ {0} /\ asked.profile \in Screen!Profiles
  /\ IsSeq(pages)
  /\ \A n \in Read : pages[n].page = n /\ pages[n].load \in 1 .. load

ScreenInv ==
  /\ ScreenTyped
  /\ IF ranking = None THEN \A n \in Read : pages[n].load # load ELSE CutFrom(load, ranking)
  /\ \A n \in Read : \E order \in Screen!Rankings(lists[pages[n].load], asked) :
       CutFrom(pages[n].load, order)

SizesGood == {DefaultSize, MaxSize, ExportSize} \subseteq Nat \ {0}

QueriesGood ==
  \A q \in Queries :
    /\ {"profile", "scenario", "sort", "desc", "size", "export"} \subseteq DOMAIN q
    /\ q.size \in Int /\ q.profile \in Screen!Profiles
    /\ Screen!Normalised(q) # None

ListsGood ==
  \A s \in Lists : /\ IsSeq(s) /\ s # <<>>
                   /\ \A k \in DOMAIN s : IsList(s[k]) /\ None \notin Seq(s[k])

LEMMA Assumed == Numbers /\ SizesGood /\ QueriesGood /\ ListsGood
BY ScreenAssumption DEF Numbers, SizesGood, QueriesGood, ListsGood, IsSeq, IsList

LEMMA Appended ==
  ASSUME NEW s, IsSeq(s), NEW x
  PROVE  /\ IsSeq(Append(s, x)) /\ Len(s) \in Nat /\ Len(Append(s, x)) = Len(s) + 1
         /\ Append(s, x)[Len(s) + 1] = x
         /\ \A k \in 1 .. Len(s) : Append(s, x)[k] = s[k]
<1> DEFINE S == {s[k] : k \in DOMAIN s} \cup {x}
<1>1. s \in Seq(S) /\ x \in S
  BY DEF IsSeq
<1> HIDE DEF S
<1>2. /\ Append(s, x) \in Seq(S) /\ Len(s) \in Nat /\ Len(Append(s, x)) = Len(s) + 1
      /\ Append(s, x)[Len(s) + 1] = x
      /\ \A k \in 1 .. Len(s) : Append(s, x)[k] = s[k]
  BY <1>1
<1> DEFINE t == Append(s, x)
<1> HIDE DEF t
<1>3. ASSUME t \in Seq(S) PROVE IsSeq(t)
  BY <1>3 DEF IsSeq
<1> QED
  BY <1>2, <1>3 DEF t

LEMMA NormalisedIsGood ==
  ASSUME NEW q \in Queries
  PROVE  /\ Screen!Normalised(q).size \in Nat \ {0} /\ Screen!Normalised(q).profile \in Screen!Profiles
         /\ Screen!Normalised(q) # None
<1>1. /\ {"profile", "scenario", "sort", "desc", "size", "export"} \subseteq DOMAIN q
      /\ q.size \in Int /\ q.profile \in Screen!Profiles
      /\ Screen!Normalised(q) # None
  BY Assumed DEF QueriesGood
<1>2. Screen!Normalised(q).profile = q.profile
  BY <1>1 DEF Screen!Normalised
<1>3. Screen!Normalised(q).size
        = IF q.export THEN ExportSize
          ELSE Screen!Least(MaxSize, IF q.size <= 0 THEN DefaultSize ELSE q.size)
  BY <1>1 DEF Screen!Normalised
<1>4. DefaultSize \in Nat \ {0} /\ MaxSize \in Nat \ {0} /\ ExportSize \in Nat \ {0}
  BY Assumed DEF SizesGood
<1> QED
  BY <1>1, <1>2, <1>3, <1>4 DEF Screen!Least

\* What an order of a list is.
LEMMA OrderOfMatches ==
  ASSUME NEW list, IsList(list), NEW q, NEW order \in Screen!Rankings(list, q)
  PROVE  /\ order \in Seq(list) /\ Len(order) \in Nat /\ DOMAIN order = 1 .. Len(order)
         /\ \A i \in 1 .. Len(order) : order[i] \in Screen!Matches(list, q)
         /\ \A i, j \in 1 .. Len(order) : order[i] = order[j] => i = j
         /\ \A b \in Screen!Matches(list, q) : \E i \in 1 .. Len(order) : order[i] = b
<1>1. PICK S : S = Screen!Matches(list, q)
  OBVIOUS
<1>2. S \subseteq list /\ IsFiniteSet(S)
  BY <1>1, FS_Subset DEF IsList, Screen!Matches
<1>3. DOMAIN Screen!SortKey(list, q) = S
  BY <1>1 DEF Screen!SortKey
<1>4. order \in Screen!SetToSeqs(S)
  BY <1>3 DEF Screen!Rankings
<1>5. /\ order \in Seq(S) /\ Len(order) \in Nat /\ DOMAIN order = 1 .. Len(order)
      /\ \A i \in 1 .. Len(order) : order[i] \in S
      /\ \A i, j \in 1 .. Len(order) : order[i] = order[j] => i = j
      /\ \A b \in S : \E i \in 1 .. Len(order) : order[i] = b
  BY <1>2, <1>4, EachHasAPlace
<1>6. order \in Seq(list)
  BY <1>2, <1>5
<1> QED
  BY <1>1, <1>5, <1>6

\* Best first is best first for any two places.
LEMMA BestComesFirst ==
  ASSUME NEW list, IsList(list), NEW q, q.profile \in Screen!Profiles, q.sort = "score", q.desc,
         NEW order \in Screen!Rankings(list, q),
         NEW i \in 1 .. Len(order), NEW j \in 1 .. Len(order), i < j
  PROVE  Screen!SortKey(list, q)[order[i]] >= Screen!SortKey(list, q)[order[j]]
<1>1. PICK by : by = Screen!SortKey(list, q)
  OBVIOUS
<1>2. Len(order) \in Nat /\ \A k \in 1 .. Len(order) : order[k] \in Screen!Matches(list, q)
  BY OrderOfMatches
<1>3. \A k \in 1 .. Len(order) : by[order[k]] \in Int
  BY <1>1, <1>2, Assumed, SafestSortsFirst
<1>4. \A k \in 1 .. (Len(order) - 1) : by[order[k]] >= by[order[k + 1]]
  BY <1>1 DEF Screen!Rankings
<1>5. PICK v : v = [k \in 1 .. Len(order) |-> by[order[k]]]
  OBVIOUS
<1>6. /\ \A k \in 1 .. Len(order) : v[k] \in Int
      /\ \A k \in 1 .. (Len(order) - 1) : v[k] >= v[k + 1]
  BY <1>2, <1>3, <1>4, <1>5
<1>7. v[i] >= v[j]
  BY <1>2, <1>6, NeverRises
<1> QED
  BY <1>1, <1>5, <1>7

\* r holds the rows from PageStart(n, size) on, at most `size' of them, as long as o has any.
CutsAt(r, o, n, size) ==
  /\ DOMAIN r = {i \in 1 .. size : Screen!PageStart(n, size) + i <= Len(o)}
  /\ \A i \in DOMAIN r : r[i] = o[Screen!PageStart(n, size) + i]

\* The places of a page are those after its start that the list still has.
LEMMA PlacesOfPage ==
  ASSUME NEW a \in Nat, NEW size \in Nat, NEW l \in Nat, NEW e \in Nat,
         e = (IF a + size < l THEN a + size ELSE l)
  PROVE  1 .. (e - a) = {i \in 1 .. size : a + i <= l}
<1>1. \A i \in Int : 1 <= i /\ i <= e - a <=> 1 <= i /\ i <= size /\ a + i <= l
  OBVIOUS
<1>2. ASSUME NEW i \in 1 .. (e - a)
      PROVE  i \in {j \in 1 .. size : a + j <= l}
  <2>1. i \in Int /\ 1 <= i /\ i <= e - a
    OBVIOUS
  <2>2. i \in 1 .. size /\ a + i <= l
    BY <1>1, <2>1
  <2> QED
    BY <2>2
<1>3. ASSUME NEW i \in {j \in 1 .. size : a + j <= l}
      PROVE  i \in 1 .. (e - a)
  <2>1. i \in 1 .. size /\ a + i <= l
    OBVIOUS
  <2>2. i \in Int /\ 1 <= i /\ i <= e - a
    BY <1>1, <2>1
  <2> QED
    BY <2>2
<1> QED
  BY <1>2, <1>3

\* The rows PaginateBondList cuts.
LEMMA PageIsCut ==
  ASSUME NEW S, NEW o \in Seq(S), NEW n \in Nat \ {0}, NEW size \in Nat \ {0},
         NEW r, r = Screen!Page(o, n, size)
  PROVE  CutsAt(r, o, n, size)
<1>1. PICK a \in Nat : a = Screen!PageStart(n, size)
  <2>1. (n - 1) * size \in Nat
    OBVIOUS
  <2> QED
    BY <2>1 DEF Screen!PageStart
<1>2. PICK l \in Nat : l = Len(o)
  OBVIOUS
<1>3. PICK e \in Nat : e = Screen!Least(a + size, l)
  BY DEF Screen!Least
<1>4. r = SubSeq(o, a + 1, e)
  BY <1>1, <1>2, <1>3 DEF Screen!Page
<1>5. e <= l /\ e = IF a + size < l THEN a + size ELSE l
  BY <1>3 DEF Screen!Least
<1>6. (a + 1 <= e => DOMAIN r = 1 .. (e - a)) /\ (e < a + 1 => DOMAIN r = {})
  BY <1>2, <1>4, <1>5
<1>7. \A i \in DOMAIN r : r[i] = o[a + i]
  BY <1>2, <1>4, <1>5, <1>6
<1>8. DOMAIN r = 1 .. (e - a)
  <2>1. e < a + 1 => 1 .. (e - a) = {}
    OBVIOUS
  <2> QED
    BY <1>6, <2>1
<1>9. DOMAIN r = {i \in 1 .. size : a + i <= l}
  BY <1>5, <1>8, PlacesOfPage
<1> QED
  BY <1>1, <1>2, <1>7, <1>9 DEF CutsAt

LEMMA HoldHasNoScale ==
  ASSUME NEW b, NEW list, NEW q, q.scenario = "hold", NEW scale
  PROVE  Screen!ShownScore(b, list, q, scale) = Screen!ShownScore(b, list, q, 0)
<1>1. \A base, s : Screen!ResolvedScore(b, base, "hold", s) = base
  BY DEF Screen!ResolvedScore, Screen!DurationAdjustment
<1> QED
  BY <1>1 DEF Screen!ShownScore

LEMMA ScreenInit == Screen!Init => ScreenInv
<1> SUFFICES ASSUME Screen!Init PROVE ScreenInv
  OBVIOUS
<1>1. lists \in Lists /\ load = 1 /\ asked = None /\ ranking = None /\ pages = <<>>
  BY DEF Screen!Init
<1>2. IsSeq(pages) /\ Read = {}
  BY <1>1 DEF IsSeq, Read
<1>3. load \in 1 .. Len(lists)
  <2>1. IsSeq(lists) /\ lists # <<>>
    BY <1>1, Assumed DEF ListsGood
  <2>2. Len(lists) \in Nat /\ Len(lists) # 0
    BY <2>1 DEF IsSeq
  <2> QED
    BY <1>1, <2>2
<1> QED
  BY <1>1, <1>2, <1>3 DEF ScreenInv, ScreenTyped

LEMMA AskKeeps ==
  ASSUME ScreenInv, NEW q \in Queries, Screen!Ask(q)
  PROVE  ScreenInv'
<1>1. /\ asked = None /\ asked' = Screen!Normalised(q)
      /\ lists' = lists /\ load' = load /\ ranking' = ranking /\ pages' = pages
  BY DEF Screen!Ask
<1>2. pages = <<>> /\ ranking = None
  BY <1>1 DEF ScreenInv, ScreenTyped
<1>3. Read = {} /\ Read' = {}
  BY <1>1, <1>2 DEF Read
<1>4. ScreenTyped'
  BY <1>1, <1>2, <1>3, NormalisedIsGood DEF ScreenInv, ScreenTyped
<1> QED
  BY <1>1, <1>2, <1>3, <1>4 DEF ScreenInv

\* A list of the current behaviour.
LEMMA CurrentList ==
  ASSUME ScreenTyped, NEW k \in 1 .. load
  PROVE  /\ IsList(lists[k]) /\ None \notin Seq(lists[k])
         /\ IsSeq(lists) /\ Len(lists) \in Nat
<1>1. IsSeq(lists) /\ \A i \in DOMAIN lists : IsList(lists[i]) /\ None \notin Seq(lists[i])
  BY Assumed DEF ScreenTyped, ListsGood
<1>2. Len(lists) \in Nat /\ DOMAIN lists = 1 .. Len(lists)
  BY <1>1 DEF IsSeq
<1>3. k \in DOMAIN lists
  BY <1>2 DEF ScreenTyped
<1> QED
  BY <1>1, <1>2, <1>3

LEMMA ReloadKeeps ==
  ASSUME ScreenInv, Screen!Reload
  PROVE  ScreenInv'
<1>1. /\ load < Len(lists) /\ load' = load + 1 /\ ranking' = None
      /\ lists' = lists /\ asked' = asked /\ pages' = pages
  BY DEF Screen!Reload
<1>2. load \in 1 .. Len(lists) /\ Len(lists) \in Nat
  <2>1. load \in 1 .. Len(lists) /\ ScreenTyped
    BY DEF ScreenInv, ScreenTyped
  <2>2. IsSeq(lists)
    BY <2>1, Assumed DEF ScreenTyped, ListsGood
  <2> QED
    BY <2>1, <2>2 DEF IsSeq
<1>3. Read' = Read
  BY <1>1 DEF Read
<1>4. \A n \in Read : pages[n].page = n /\ pages[n].load \in 1 .. load
  BY DEF ScreenInv, ScreenTyped
<1>5. \A n \in Read : pages[n].load \in 1 .. load' /\ pages[n].load # load'
  BY <1>1, <1>2, <1>4
<1>6. ScreenTyped'
  BY <1>1, <1>2, <1>3, <1>4, <1>5 DEF ScreenInv, ScreenTyped
<1>7. \A n \in Read : \E order \in Screen!Rankings(lists[pages[n].load], asked) :
        CutFrom(pages[n].load, order)'
  BY <1>1, <1>3 DEF ScreenInv, CutFrom, IsCut
<1> QED
  BY <1>1, <1>3, <1>5, <1>6, <1>7 DEF ScreenInv

\* What a page holds of an order.
LEMMA NewPageIsCut ==
  ASSUME ScreenTyped, asked # None, NEW n \in Nat \ {0},
         NEW order \in Screen!Rankings(lists[load], asked), NEW scale,
         NEW rows, rows = Screen!Page(order, n, asked.size),
         NEW pg, pg = [page |-> n, load |-> load, total |-> Len(order),
                       rows |-> [i \in DOMAIN rows |->
                                   [bond |-> rows[i],
                                    shown |-> Screen!ShownScore(rows[i], lists[load], asked, scale)]]]
  PROVE  IsCut(pg, order, lists[load]) /\ pg.page = n /\ pg.load = load
<1>1. IsList(lists[load])
  BY CurrentList DEF ScreenTyped
<1>2. order \in Seq(lists[load])
  BY <1>1, OrderOfMatches
<1>3. asked.size \in Nat \ {0}
  BY DEF ScreenTyped
<1>4. CutsAt(rows, order, n, asked.size)
  <2>1. PICK size \in Nat \ {0} : size = asked.size
    BY <1>3
  <2>2. PICK S, o : S = lists[load] /\ o = order /\ o \in Seq(S)
    BY <1>2
  <2>3. rows = Screen!Page(o, n, size)
    BY <2>1, <2>2
  <2>4. CutsAt(rows, o, n, size)
    BY <2>2, <2>3, PageIsCut
  <2> QED
    BY <2>1, <2>2, <2>4
<1>5. /\ pg.page = n /\ pg.load = load /\ pg.total = Len(order) /\ DOMAIN pg.rows = DOMAIN rows
      /\ \A i \in DOMAIN rows :
           /\ pg.rows[i].bond = rows[i]
           /\ pg.rows[i].shown = Screen!ShownScore(rows[i], lists[load], asked, scale)
  OBVIOUS
<1>6. asked.scenario = "hold" =>
        \A b : Screen!ShownScore(b, lists[load], asked, scale)
                 = Screen!ShownScore(b, lists[load], asked, 0)
  BY HoldHasNoScale
<1> QED
  BY <1>4, <1>5, <1>6 DEF IsCut, CutsAt

LEMMA ListBondsKeeps ==
  ASSUME ScreenInv, NEW n, n = Len(pages) + 1, Screen!ListBonds(n),
         Screen!NormalisedPage(asked, n) = n
  PROVE  ScreenInv'
<1>1. ScreenTyped /\ asked # None
  BY DEF ScreenInv, Screen!ListBonds
<1>2. lists' = lists /\ load' = load /\ asked' = asked
  BY DEF Screen!ListBonds
<1>3. PICK order, scale, pg, rows :
        /\ order \in IF ranking = None THEN Screen!Rankings(lists[load], asked) ELSE {ranking}
        /\ rows = Screen!Page(order, n, asked.size)
        /\ pg = [page |-> n, load |-> load, total |-> Len(order),
                 rows |-> [i \in DOMAIN rows |->
                             [bond |-> rows[i],
                              shown |-> Screen!ShownScore(rows[i], lists[load], asked, scale)]]]
        /\ ranking' = order /\ pages' = Append(pages, pg)
  BY DEF Screen!ListBonds
<1>4. order \in Screen!Rankings(lists[load], asked)
  BY <1>3 DEF ScreenInv, CutFrom
<1>5. /\ IsSeq(pages) /\ Len(pages) \in Nat /\ IsSeq(pages') /\ Len(pages') = n /\ n \in Nat \ {0}
      /\ pages'[n] = pg /\ \A m \in Read : pages'[m] = pages[m]
  BY <1>1, <1>3, Appended DEF ScreenTyped, Read
<1>6. IsCut(pg, order, lists[load]) /\ pg.page = n /\ pg.load = load
  BY <1>1, <1>3, <1>4, <1>5, NewPageIsCut
<1>7. Read' = Read \cup {n} /\ n \notin Read
  BY <1>5 DEF Read
<1>8. order # None /\ load \in 1 .. load
  <2>1. load \in 1 .. Len(lists)
    BY <1>1 DEF ScreenTyped
  <2>2. load \in 1 .. load
    BY <2>1
  <2>3. IsList(lists[load]) /\ None \notin Seq(lists[load])
    BY <1>1, <2>2, CurrentList
  <2> QED
    BY <1>4, <2>2, <2>3, OrderOfMatches
<1>9. ScreenTyped'
  BY <1>1, <1>2, <1>5, <1>6, <1>7, <1>8 DEF ScreenTyped
<1>10. \A m \in Read : pages[m].load = load => IsCut(pages[m], order, lists[load])
  BY <1>3 DEF ScreenInv, CutFrom
<1>11. \A m \in Read' : pages'[m].load = load => IsCut(pages'[m], order, lists[load])
  BY <1>5, <1>6, <1>7, <1>10
<1>12. CutFrom(load, order)'
  BY <1>2, <1>4, <1>11 DEF CutFrom, IsCut
<1>13. ASSUME NEW m \in Read'
       PROVE  \E o \in Screen!Rankings(lists'[pages'[m].load], asked') : CutFrom(pages[m].load, o)'
  <2>1. CASE pages'[m].load = load
    BY <1>2, <1>4, <1>12, <2>1
  <2>2. CASE pages'[m].load # load
    <3>1. m \in Read /\ pages'[m] = pages[m]
      BY <1>5, <1>6, <1>7, <2>2
    <3>2. PICK k : k = pages[m].load
      OBVIOUS
    <3>3. PICK o \in Screen!Rankings(lists[k], asked) : CutFrom(k, o)
      BY <3>1, <3>2 DEF ScreenInv
    <3>4. \A x \in Read' : pages'[x].load = k => IsCut(pages'[x], o, lists[k])
      BY <1>5, <1>6, <1>7, <2>2, <3>1, <3>2, <3>3 DEF CutFrom
    <3>5. CutFrom(k, o)'
      BY <1>2, <3>3, <3>4 DEF CutFrom, IsCut
    <3> QED
      BY <1>2, <3>1, <3>2, <3>3, <3>5
  <2> QED
    BY <2>1, <2>2
<1> QED
  BY <1>2, <1>3, <1>8, <1>9, <1>12, <1>13 DEF ScreenInv

LEMMA NextPageKeeps ==
  ASSUME ScreenInv, Screen!NextPage
  PROVE  ScreenInv'
<1>1. ScreenTyped /\ asked # None
  BY DEF ScreenInv, Screen!NextPage
<1>2. IsSeq(pages) /\ Len(pages) \in Nat
  BY <1>1 DEF ScreenTyped, IsSeq
<1>3. CASE pages = <<>>
  <2>1. Len(pages) + 1 = 1
    BY <1>3
  <2>2. Screen!ListBonds(1)
    BY <1>3 DEF Screen!NextPage
  <2>3. Screen!NormalisedPage(asked, 1) = 1
    BY DEF Screen!NormalisedPage
  <2> QED
    BY <2>1, <2>2, <2>3, ListBondsKeeps
<1>4. CASE pages # <<>>
  <2>1. Len(pages) \in Read
    BY <1>2, <1>4 DEF Read, IsSeq
  <2>2. pages[Len(pages)].page = Len(pages)
    BY <1>1, <2>1 DEF ScreenTyped
  <2>3. PICK n : n = Len(pages) + 1
    OBVIOUS
  <2>4. ~asked.export /\ Screen!ListBonds(n)
    BY <1>4, <2>2, <2>3 DEF Screen!NextPage
  <2>5. Screen!NormalisedPage(asked, n) = n
    BY <1>2, <2>3, <2>4 DEF Screen!NormalisedPage
  <2> QED
    BY <2>3, <2>4, <2>5, ListBondsKeeps
<1> QED
  BY <1>3, <1>4

LEMMA ScreenStep == ScreenInv /\ [Screen!Next]_Screen!vars => ScreenInv'
<1> SUFFICES ASSUME ScreenInv, [Screen!Next]_Screen!vars PROVE ScreenInv'
  OBVIOUS
<1>1. CASE UNCHANGED Screen!vars
  <2>1. lists' = lists /\ load' = load /\ asked' = asked /\ ranking' = ranking /\ pages' = pages
    BY <1>1 DEF Screen!vars
  <2>2. ScreenTyped' /\ Read' = Read
    BY <2>1 DEF ScreenInv, ScreenTyped, Read
  <2>3. ASSUME NEW pg, NEW o, NEW l
        PROVE  IsCut(pg, o, l) => IsCut(pg, o, l)'
    BY <2>1 DEF IsCut
  <2>4. ASSUME NEW k, NEW o, CutFrom(k, o)
        PROVE  CutFrom(k, o)'
    BY <2>1, <2>2, <2>3, <2>4 DEF CutFrom
  <2> QED
    BY <2>1, <2>2, <2>4 DEF ScreenInv
<1> QED
  BY <1>1, AskKeeps, NextPageKeeps, ReloadKeeps DEF Screen!Next

\* Every page the screener has sent is cut from one order of the load it was read from,
\* and the pages of the current load are cut from the order that is kept (PaginateBondList).
THEOREM ScreenInvariant == Screen!Spec => []ScreenInv
BY ScreenInit, ScreenStep, PTL DEF Screen!Spec

\* Every place of a page is a place in the order the load is read by.
LEMMA PlaceInOrder ==
  ASSUME ScreenInv, NEW p \in Screen!Places, NEW order, CutFrom(Screen!LoadAt(p), order)
  PROVE  /\ p[1] \in Read /\ p[2] \in 1 .. asked.size
         /\ Screen!PageStart(p[1], asked.size) + p[2] \in 1 .. Len(order)
         /\ Screen!RowAt(p).bond = order[Screen!PageStart(p[1], asked.size) + p[2]]
         /\ asked.scenario = "hold" =>
              Screen!RowAt(p).shown
                = Screen!ShownScore(Screen!RowAt(p).bond, lists[Screen!LoadAt(p)], asked, 0)
<1>1. ScreenTyped /\ asked # None
  <2>1. pages # <<>>
    BY DEF Screen!Places
  <2> QED
    BY <2>1 DEF ScreenInv, ScreenTyped
<1>2. IsSeq(pages) /\ Len(pages) \in Nat /\ DOMAIN pages = Read
  BY <1>1 DEF ScreenTyped, IsSeq, Read
<1>3. PICK n \in Read : p \in {n} \X DOMAIN pages[n].rows
  BY <1>2 DEF Screen!Places
<1>4. p[1] = n /\ p[2] \in DOMAIN pages[n].rows
  BY <1>3
<1>5. PICK i : i = p[2]
  OBVIOUS
<1>6. Screen!LoadAt(p) = pages[n].load /\ Screen!RowAt(p) = pages[n].rows[i]
  BY <1>4, <1>5 DEF Screen!LoadAt, Screen!RowAt
<1>7. IsCut(pages[n], order, lists[pages[n].load]) /\ pages[n].page = n
  BY <1>1, <1>6 DEF CutFrom, ScreenTyped
<1>8. /\ i \in 1 .. asked.size /\ Screen!PageStart(n, asked.size) + i <= Len(order)
      /\ pages[n].rows[i].bond = order[Screen!PageStart(n, asked.size) + i]
      /\ asked.scenario = "hold" =>
           pages[n].rows[i].shown
             = Screen!ShownScore(pages[n].rows[i].bond, lists[pages[n].load], asked, 0)
  BY <1>4, <1>5, <1>7 DEF IsCut
<1>9. Len(order) \in Nat
  <2>1. pages[n].load \in 1 .. load
    BY <1>1 DEF ScreenTyped
  <2>2. IsList(lists[pages[n].load])
    BY <1>1, <2>1, CurrentList
  <2> QED
    BY <1>6, <2>2, OrderOfMatches DEF CutFrom
<1>10. Screen!PageStart(n, asked.size) + i \in 1 .. Len(order)
  <2>1. PICK size \in Nat \ {0}, m \in Nat : size = asked.size /\ m = n - 1
    BY <1>1, <1>2 DEF ScreenTyped, Read
  <2>2. m * size \in Nat
    OBVIOUS
  <2>3. Screen!PageStart(n, asked.size) \in Nat
    BY <2>1, <2>2 DEF Screen!PageStart
  <2> QED
    BY <1>8, <1>9, <2>1, <2>3
<1> QED
  BY <1>4, <1>5, <1>6, <1>8, <1>10

\* Some order explains the pages of the load a place was read from.
LEMMA OrderOfPlace ==
  ASSUME ScreenInv, NEW p \in Screen!Places
  PROVE  /\ asked # None /\ asked.size \in Nat \ {0} /\ asked.profile \in Screen!Profiles
         /\ IsList(lists[Screen!LoadAt(p)])
         /\ p[1] \in Read /\ Read \subseteq Nat \ {0} /\ DOMAIN pages = Read
         /\ \E order \in Screen!Rankings(lists[Screen!LoadAt(p)], asked) :
              CutFrom(Screen!LoadAt(p), order)
<1>1. ScreenTyped /\ asked # None
  <2>1. pages # <<>>
    BY DEF Screen!Places
  <2> QED
    BY <2>1 DEF ScreenInv, ScreenTyped
<1>2. IsSeq(pages) /\ Len(pages) \in Nat /\ DOMAIN pages = Read
  BY <1>1 DEF ScreenTyped, IsSeq, Read
<1>3. PICK n \in Read : p \in {n} \X DOMAIN pages[n].rows
  BY <1>2 DEF Screen!Places
<1>4. p[1] = n
  BY <1>3
<1>5. Screen!LoadAt(p) = pages[n].load
  BY <1>4 DEF Screen!LoadAt
<1>6. pages[n].load \in 1 .. load
  BY <1>1 DEF ScreenTyped
<1>7. IsList(lists[pages[n].load])
  BY <1>1, <1>6, CurrentList
<1>8. \E order \in Screen!Rankings(lists[pages[n].load], asked) : CutFrom(pages[n].load, order)
  BY DEF ScreenInv
<1> QED
  BY <1>1, <1>2, <1>4, <1>5, <1>7, <1>8 DEF ScreenTyped, Read

\* Rows of one load come in the order of their places.
LEMMA BeforeIsEarlier ==
  ASSUME ScreenInv, NEW p \in Screen!Places, NEW r \in Screen!Places,
         Screen!LoadAt(p) = Screen!LoadAt(r), NEW order, CutFrom(Screen!LoadAt(p), order)
  PROVE  /\ Screen!Before(p, r) => Screen!PageStart(p[1], asked.size) + p[2]
                                     < Screen!PageStart(r[1], asked.size) + r[2]
         /\ p # r => Screen!Before(p, r) \/ Screen!Before(r, p)
<1>1. /\ p[1] \in Nat \ {0} /\ r[1] \in Nat \ {0} /\ asked.size \in Nat \ {0}
      /\ p[2] \in 1 .. asked.size /\ r[2] \in 1 .. asked.size
  BY OrderOfPlace, PlaceInOrder
<1>s. PICK size \in Nat \ {0} : size = asked.size
  BY <1>1
<1>2. PICK m \in Nat \ {0}, n \in Nat \ {0}, i \in 1 .. size, j \in 1 .. size :
        size = asked.size /\ m = p[1] /\ n = r[1] /\ i = p[2] /\ j = r[2]
  BY <1>1, <1>s
<1>3. m < n => Screen!PageStart(m, size) + i < Screen!PageStart(n, size) + j
  BY LaterPagesFollow
<1>4. Screen!PageStart(m, size) \in Int
  <2>1. (m - 1) * size \in Int
    OBVIOUS
  <2> QED
    BY <2>1 DEF Screen!PageStart
<1>5. m = n /\ i < j => Screen!PageStart(m, size) + i < Screen!PageStart(n, size) + j
  BY <1>4
<1>6. Screen!Before(p, r) => Screen!PageStart(p[1], asked.size) + p[2]
                               < Screen!PageStart(r[1], asked.size) + r[2]
  BY <1>2, <1>3, <1>5 DEF Screen!Before
<1>7. ASSUME p # r PROVE Screen!Before(p, r) \/ Screen!Before(r, p)
  <2>1. p = <<p[1], p[2]>> /\ r = <<r[1], r[2]>>
    BY DEF Screen!Places
  <2>2. m # n \/ i # j
    BY <1>2, <1>7, <2>1
  <2>3. m < n \/ n < m \/ (m = n /\ (i < j \/ j < i))
    BY <2>2
  <2> QED
    BY <1>2, <2>3 DEF Screen!Before
<1> QED
  BY <1>6, <1>7

\* Without a rate scenario the score shown is the one sorted by, or the normal profile's.
LEMMA ShownIsKey ==
  ASSUME NEW list, NEW q, q.scenario = "hold", q.sort = "score", NEW b \in Screen!Matches(list, q)
  PROVE  Screen!ShownScore(b, list, q, 0)
           = IF Screen!SortKey(list, q)[b] = 0 THEN Screen!ProfileScores(list)[b]["normal"]
             ELSE Screen!SortKey(list, q)[b]
<1>1. \A base, s : Screen!ResolvedScore(b, base, "hold", s) = base
  BY DEF Screen!ResolvedScore, Screen!DurationAdjustment
<1>2. Screen!SortKey(list, q)[b] = Screen!ProfileScores(list)[b][q.profile]
  BY <1>1 DEF Screen!SortKey
<1> QED
  BY <1>1, <1>2 DEF Screen!ShownScore

\* In a list sorted by score, best first, the safer of two bonds that pay the same never
\* comes after the riskier one unless the two score alike, for any universe, any yields,
\* key rate and tax rate, every profile and every rate scenario (scorer.go).
THEOREM SaferNeverComesLater == Screen!Spec => []SaferComesFirst
<1>1. ScreenInv => SaferComesFirst
  <2> SUFFICES ASSUME ScreenInv, asked # None, asked.sort = "score", asked.desc,
                      NEW p \in Screen!Places, NEW r \in Screen!Places,
                      Screen!Before(p, r), Screen!LoadAt(p) = Screen!LoadAt(r),
                      Screen!SaferTwin(Screen!RowAt(r).bond, Screen!RowAt(p).bond)
               PROVE  Screen!SortKey(lists[Screen!LoadAt(p)], asked)[Screen!RowAt(p).bond]
                        = Screen!SortKey(lists[Screen!LoadAt(p)], asked)[Screen!RowAt(r).bond]
    BY DEF SaferComesFirst, Screen!SaferComesFirst
  <2>1. PICK list, by : /\ list = lists[Screen!LoadAt(p)]
                         /\ by = Screen!SortKey(lists[Screen!LoadAt(p)], asked)
    OBVIOUS
  <2>2. IsList(list) /\ asked.profile \in Screen!Profiles
    BY <2>1, OrderOfPlace
  <2>3. PICK order \in Screen!Rankings(list, asked) : CutFrom(Screen!LoadAt(p), order)
    BY <2>1, OrderOfPlace
  <2>4. PICK x \in 1 .. Len(order), y \in 1 .. Len(order) :
          /\ x = Screen!PageStart(p[1], asked.size) + p[2]
          /\ y = Screen!PageStart(r[1], asked.size) + r[2]
          /\ Screen!RowAt(p).bond = order[x] /\ Screen!RowAt(r).bond = order[y]
    BY <2>3, PlaceInOrder
  <2>5. x < y
    BY <2>3, <2>4, BeforeIsEarlier
  <2>6. by[order[x]] >= by[order[y]]
    BY <2>1, <2>2, <2>3, <2>5, BestComesFirst
  <2>7. order[x] \in Screen!Matches(list, asked) /\ order[y] \in Screen!Matches(list, asked)
    BY <2>2, <2>3, OrderOfMatches
  <2>8. by[order[x]] \in Nat /\ by[order[y]] \in Nat
    BY <2>1, <2>2, <2>7, Assumed, SafestSortsFirst
  <2>9. by[order[x]] <= by[order[y]]
    BY <2>1, <2>2, <2>4, <2>7, Assumed, SafestSortsFirst
  <2> QED
    BY <2>1, <2>4, <2>6, <2>8, <2>9
<1> QED
  BY <1>1, ScreenInvariant, PTL

\* The pages of one load are the list itself: no bond twice, none left out once they are
\* read to the end, and without a rate scenario no score of 0 apart shown out of order,
\* for any list, any page size and any filter (PaginateBondList).
THEOREM PagesLoseNothing == Screen!Spec => []PagesAreTheList
<1>1. ScreenInv => PagesAreTheList
  <2> SUFFICES ASSUME ScreenInv, pages # <<>>,
                      \A n \in DOMAIN pages : pages[n].load = pages[1].load
               PROVE  PagesAreTheList
    BY DEF PagesAreTheList, Screen!PagesAreTheList
  <2>1. ScreenTyped /\ asked # None /\ asked.size \in Nat \ {0} /\ asked.profile \in Screen!Profiles
    BY DEF ScreenInv, ScreenTyped
  <2>2. Len(pages) \in Nat \ {0} /\ DOMAIN pages = Read
    BY <2>1 DEF ScreenTyped, IsSeq, Read
  <2>3. 1 \in Read /\ Len(pages) \in Read
    BY <2>2 DEF Read
  <2>4. PICK k, list : k = pages[1].load /\ list = lists[k]
    OBVIOUS
  <2>5. k \in 1 .. load /\ \A n \in Read : pages[n].load = k /\ pages[n].page = n
    BY <2>1, <2>2, <2>3, <2>4 DEF ScreenTyped
  <2>6. IsList(list)
    BY <2>1, <2>4, <2>5, CurrentList
  <2>7. PICK order \in Screen!Rankings(list, asked) : CutFrom(k, order)
    BY <2>3, <2>4 DEF ScreenInv
  <2>8. \A p \in Screen!Places : Screen!LoadAt(p) = k
    <3>1. \A p \in Screen!Places : p[1] \in Read
      BY OrderOfPlace
    <3> QED
      BY <2>5, <3>1 DEF Screen!LoadAt
  <2>9. /\ Len(order) \in Nat /\ \A i \in 1 .. Len(order) : order[i] \in Screen!Matches(list, asked)
        /\ \A i, j \in 1 .. Len(order) : order[i] = order[j] => i = j
        /\ \A b \in Screen!Matches(list, asked) : \E i \in 1 .. Len(order) : order[i] = b
    BY <2>6, <2>7, OrderOfMatches
  <2> DEFINE Nth(p) == Screen!PageStart(p[1], asked.size) + p[2]
  <2>10. \A p \in Screen!Places : Nth(p) \in 1 .. Len(order) /\ Screen!RowAt(p).bond = order[Nth(p)]
    BY <2>7, <2>8, PlaceInOrder
  <2>11. \A p, r \in Screen!Places : Screen!Before(p, r) => Nth(p) < Nth(r)
    BY <2>7, <2>8, BeforeIsEarlier
  <2>12. \A p, r \in Screen!Places : p # r => Screen!Before(p, r) \/ Screen!Before(r, p)
    BY <2>7, <2>8, BeforeIsEarlier
  <2>13. ASSUME NEW p \in Screen!Places, NEW r \in Screen!Places, p # r
         PROVE  Screen!RowAt(p).bond # Screen!RowAt(r).bond
    <3>1. Nth(p) # Nth(r)
      <4>1. Nth(p) \in Int /\ Nth(r) \in Int
        BY <2>9, <2>10
      <4>2. Nth(p) < Nth(r) \/ Nth(r) < Nth(p)
        BY <2>11, <2>12, <2>13
      <4> HIDE DEF Nth
      <4> QED
        BY <4>1, <4>2
    <3> HIDE DEF Nth
    <3> QED
      BY <2>9, <2>10, <3>1
  <2>14. ASSUME pages[Len(pages)].page * asked.size >= pages[Len(pages)].total
         PROVE  {Screen!RowAt(p).bond : p \in Screen!Places} = Screen!Matches(list, asked)
    <3>1. pages[Len(pages)].page = Len(pages) /\ pages[Len(pages)].total = Len(order)
      BY <2>3, <2>5, <2>7 DEF CutFrom, IsCut
    <3>2. Len(pages) * asked.size >= Len(order)
      BY <2>14, <3>1
    <3>3. \A p \in Screen!Places : Screen!RowAt(p).bond \in Screen!Matches(list, asked)
      <4> HIDE DEF Nth
      <4> QED
        BY <2>9, <2>10
    <3>4. ASSUME NEW b \in Screen!Matches(list, asked)
          PROVE  \E p \in Screen!Places : Screen!RowAt(p).bond = b
      <4>1. PICK x \in 1 .. Len(order) : order[x] = b
        BY <2>9
      <4>2. PICK size \in Nat \ {0}, l \in Nat : size = asked.size /\ l = Len(pages)
        BY <2>1, <2>2
      <4>3. x \in Nat \ {0} /\ x <= l * size
        <5>1. PICK e \in Nat : e = l * size
          OBVIOUS
        <5> QED
          BY <2>9, <3>2, <4>2, <5>1
      <4>4. PICK m \in 1 .. l, i \in 1 .. size : Screen!PageStart(m, size) + i = x
        BY <4>3, PageOfPlace
      <4>5. m \in Read /\ IsCut(pages[m], order, list) /\ pages[m].page = m
        BY <2>4, <2>5, <2>7, <4>2 DEF Read, CutFrom
      <4>6. i \in DOMAIN pages[m].rows /\ pages[m].rows[i].bond = b
        <5>1. Screen!PageStart(m, size) + i <= Len(order)
          BY <2>9, <4>4
        <5> QED
          BY <4>1, <4>2, <4>4, <4>5, <5>1 DEF IsCut
      <4>7. <<m, i>> \in Screen!Places
        BY <2>2, <4>5, <4>6 DEF Screen!Places
      <4>8. Screen!RowAt(<<m, i>>).bond = b
        BY <4>6 DEF Screen!RowAt
      <4> QED
        BY <4>7, <4>8
    <3> QED
      BY <3>3, <3>4
  <2>15. ASSUME asked.scenario = "hold", asked.sort = "score", asked.desc,
                NEW p \in Screen!Places, NEW r \in Screen!Places, Screen!Before(p, r),
                Screen!SortKey(list, asked)[Screen!RowAt(r).bond] # 0
         PROVE  Screen!RowAt(p).shown >= Screen!RowAt(r).shown
    <3>1. PICK by : by = Screen!SortKey(list, asked)
      OBVIOUS
    <3>2. PICK x \in 1 .. Len(order), y \in 1 .. Len(order) : x = Nth(p) /\ y = Nth(r) /\ x < y
      BY <2>10, <2>11, <2>15
    <3>3. Screen!RowAt(p).bond = order[x] /\ Screen!RowAt(r).bond = order[y]
      <4> HIDE DEF Nth
      <4> QED
        BY <2>10, <3>2
    <3>4. by[order[x]] >= by[order[y]]
      BY <2>1, <2>6, <2>7, <2>15, <3>1, <3>2, BestComesFirst
    <3>5. order[x] \in Screen!Matches(list, asked) /\ order[y] \in Screen!Matches(list, asked)
      BY <2>9
    <3>6. by[order[x]] \in Nat /\ by[order[y]] \in Nat /\ by[order[y]] # 0
      BY <2>1, <2>6, <2>15, <3>1, <3>3, <3>5, Assumed, SafestSortsFirst
    <3>7. \A b \in Screen!Matches(list, asked) :
            Screen!ShownScore(b, list, asked, 0)
              = IF by[b] = 0 THEN Screen!ProfileScores(list)[b]["normal"] ELSE by[b]
      BY <2>15, <3>1, ShownIsKey
    <3>8. /\ Screen!RowAt(p).shown = Screen!ShownScore(order[x], list, asked, 0)
          /\ Screen!RowAt(r).shown = Screen!ShownScore(order[y], list, asked, 0)
      BY <2>4, <2>7, <2>8, <2>15, <3>3, PlaceInOrder
    <3> QED
      BY <3>4, <3>5, <3>6, <3>7, <3>8
  <2>16. pages[Len(pages)].load = k
    BY <2>3, <2>5
  <2> HIDE DEF Nth
  <2> QED
    BY <2>4, <2>13, <2>14, <2>15, <2>16 DEF PagesAreTheList, Screen!PagesAreTheList
<1> QED
  BY <1>1, ScreenInvariant, PTL

-----------------------------------------------------------------------------
(* Medians.                                                                *)

LEMMA RadarCardinality == \A S : Radar!Cardinality(S) = Cardinality(S)
BY DEF Radar!Cardinality, Cardinality

\* What a CHOOSE of Ranked is made from.
IsRanked(f, k, v) ==
  /\ v \in {f[x] : x \in DOMAIN f}
  /\ Cardinality({x \in DOMAIN f : f[x] < v}) < k
  /\ k <= Cardinality({x \in DOMAIN f : f[x] <= v})

LEMMA RankedChooses == \A f, k : Radar!Ranked(f, k) = CHOOSE v : IsRanked(f, k, v)
<1> SUFFICES ASSUME NEW f, NEW k PROVE Radar!Ranked(f, k) = CHOOSE v : IsRanked(f, k, v)
  OBVIOUS
<1> QED
  BY RadarCardinality DEF Radar!Ranked, IsRanked

LEMMA RankExists ==
  ASSUME NEW D, IsFiniteSet(D), NEW f \in [D -> Int], NEW k \in 1 .. Cardinality(D)
  PROVE  \E v : IsRanked(f, k, v)
<1>1. PICK Y : Y = {f[x] : x \in D}
  OBVIOUS
<1>2. IsFiniteSet(Y) /\ Y \subseteq Int
  BY <1>1, ImageIsFinite
<1>3. Cardinality(D) \in Nat /\ k \in Nat /\ 1 <= k /\ k <= Cardinality(D)
  BY FS_CardinalityType
<1>4. D # {}
  BY <1>3, FS_EmptySet
<1>5. PICK m \in Y : \A y \in Y : m >= y
  <2>1. Y \in SUBSET Int /\ Y # {}
    BY <1>1, <1>2, <1>4
  <2> QED
    BY <1>2, <2>1, GreatestExists
<1>6. {x \in D : f[x] <= m} = D
  BY <1>1, <1>2, <1>5
<1>7. PICK Z : Z = {y \in Y : k <= Cardinality({x \in D : f[x] <= y})}
  OBVIOUS
<1>8. m \in Z /\ IsFiniteSet(Z) /\ Z \subseteq Int
  BY <1>2, <1>3, <1>5, <1>6, <1>7, FS_Subset
<1>9. PICK v \in Z : \A z \in Z : v <= z
  BY <1>8, LeastExists
<1>10. PICK B : B = {x \in D : f[x] < v}
  OBVIOUS
<1>11. IsFiniteSet(B) /\ Cardinality(B) \in Nat
  BY <1>10, FS_Subset, FS_CardinalityType
<1>12. Cardinality(B) < k
  <2> SUFFICES ASSUME k <= Cardinality(B) PROVE FALSE
    BY <1>3, <1>11
  <2>1. B # {}
    BY <1>3, <1>11, FS_EmptySet
  <2>2. PICK W : W = {f[x] : x \in B}
    OBVIOUS
  <2>3. W # {} /\ W \subseteq Y /\ W \in SUBSET Int /\ IsFiniteSet(W)
    BY <1>1, <1>2, <1>10, <2>1, <2>2, FS_Subset
  <2>4. PICK w \in W : \A y \in W : w >= y
    BY <2>3, GreatestExists
  <2>5. w \in Int /\ v \in Int /\ w < v
    BY <1>8, <1>10, <2>2, <2>3
  <2>6. {x \in D : f[x] <= w} = B
    BY <1>10, <2>2, <2>4, <2>5
  <2>7. w \in Z
    BY <1>7, <2>3, <2>6
  <2> QED
    BY <1>9, <2>5, <2>7
<1>13. DOMAIN f = D
  OBVIOUS
<1>14. IsRanked(f, k, v)
  BY <1>1, <1>7, <1>10, <1>12, <1>13 DEF IsRanked
<1> QED
  BY <1>14

LEMMA RankedIs ==
  ASSUME NEW D, IsFiniteSet(D), NEW f \in [D -> Int], NEW k \in 1 .. Cardinality(D)
  PROVE  Radar!Ranked(f, k) \in Int /\ IsRanked(f, k, Radar!Ranked(f, k))
<1>1. IsRanked(f, k, CHOOSE v : IsRanked(f, k, v))
  BY RankExists
<1>2. IsRanked(f, k, Radar!Ranked(f, k))
  BY <1>1, RankedChooses
<1> QED
  BY <1>2 DEF IsRanked

\* f and g run over as many things, and where h takes one to the other f is at most c more.
Under(D, f, E, g, h, c) ==
  /\ IsFiniteSet(D) /\ f \in [D -> Int] /\ IsFiniteSet(E) /\ g \in [E -> Int]
  /\ Cardinality(D) = Cardinality(E) /\ h \in Surjection(D, E) /\ c \in Int
  /\ \A x \in D : f[x] <= g[h[x]] + c

LEMMA RankedBound ==
  ASSUME NEW D, NEW f, NEW E, NEW g, NEW h, NEW c, Under(D, f, E, g, h, c),
         NEW k \in 1 .. Cardinality(D)
  PROVE  Radar!Ranked(f, k) <= Radar!Ranked(g, k) + c
<1>1. PICK v \in Int : v = Radar!Ranked(f, k) /\ IsRanked(f, k, v)
  BY RankedIs DEF Under
<1>2. PICK w \in Int : w = Radar!Ranked(g, k) /\ IsRanked(g, k, w)
  BY RankedIs DEF Under
<1> SUFFICES ASSUME v > w + c PROVE FALSE
  BY <1>1, <1>2 DEF Under
<1>3. PICK T : T = {y \in E : g[y] <= w}
  OBVIOUS
<1>4. PICK B : B = {x \in D : f[x] < v}
  OBVIOUS
<1>5. PICK A : A = {x \in D : g[h[x]] <= w}
  OBVIOUS
<1>6. k <= Cardinality(T) /\ Cardinality(B) < k
  BY <1>1, <1>2, <1>3, <1>4 DEF IsRanked, Under
<1>7. IsFiniteSet(A) /\ IsFiniteSet(B) /\ A \subseteq B
  <2>1. IsFiniteSet(A) /\ IsFiniteSet(B)
    BY <1>4, <1>5, FS_Subset DEF Under
  <2>2. \A x \in D : f[x] \in Int /\ g[h[x]] \in Int /\ f[x] <= g[h[x]] + c
    BY DEF Under, Surjection
  <2>3. c \in Int
    BY DEF Under
  <2>4. \A x \in D : g[h[x]] <= w => f[x] < v
    BY <2>2, <2>3
  <2> QED
    BY <1>4, <1>5, <2>1, <2>4
<1>8. Cardinality(A) \in Nat /\ Cardinality(B) \in Nat /\ Cardinality(A) <= Cardinality(B)
  BY <1>7, FS_Subset, FS_CardinalityType
<1>9. IsFiniteSet(T) /\ Cardinality(T) <= Cardinality(A)
  <2>1. PICK j : j = [x \in A |-> h[x]]
    OBVIOUS
  <2>2. j \in Surjection(A, T)
    BY <1>3, <1>5, <2>1 DEF Surjection, Under
  <2> QED
    BY <1>7, <2>2, FS_Surjection
<1>10. Cardinality(T) \in Nat
  BY <1>9, FS_CardinalityType
<1> QED
  BY <1>6, <1>8, <1>9, <1>10

LEMMA MedianIs ==
  ASSUME NEW D, IsFiniteSet(D), NEW f \in [D -> Int]
  PROVE  /\ Radar!Median(f) \in Int
         /\ \A n \in Nat : n = Cardinality(D) =>
              Radar!Median(f)
                = IF n = 0 THEN 0
                  ELSE IF n % 2 = 1 THEN Radar!Ranked(f, n \div 2 + 1)
                  ELSE (Radar!Ranked(f, n \div 2) + Radar!Ranked(f, n \div 2 + 1)) \div 2
<1>1. PICK n \in Nat : n = Cardinality(D)
  BY FS_CardinalityType
<1>2. Radar!Cardinality(DOMAIN f) = n
  BY <1>1, RadarCardinality
<1>3. Radar!Median(f)
        = IF n = 0 THEN 0
          ELSE IF n % 2 = 1 THEN Radar!Ranked(f, n \div 2 + 1)
          ELSE (Radar!Ranked(f, n \div 2) + Radar!Ranked(f, n \div 2 + 1)) \div 2
  BY <1>2 DEF Radar!Median
<1>4. n # 0 => n \div 2 + 1 \in 1 .. n
  OBVIOUS
<1>5. n # 0 /\ n % 2 # 1 => n \div 2 \in 1 .. n
  OBVIOUS
<1>6. \A k \in 1 .. n : Radar!Ranked(f, k) \in Int
  BY <1>1, RankedIs
<1> QED
  BY <1>1, <1>3, <1>4, <1>5, <1>6

LEMMA MedianOfMany ==
  ASSUME NEW D, IsFiniteSet(D), NEW f \in [D -> Int], NEW n \in Nat \ {0}, n = Cardinality(D)
  PROVE  Radar!Median(f)
           = IF n % 2 = 1 THEN Radar!Ranked(f, n \div 2 + 1)
             ELSE (Radar!Ranked(f, n \div 2) + Radar!Ranked(f, n \div 2 + 1)) \div 2
<1>1. Radar!Median(f)
        = IF n = 0 THEN 0
          ELSE IF n % 2 = 1 THEN Radar!Ranked(f, n \div 2 + 1)
          ELSE (Radar!Ranked(f, n \div 2) + Radar!Ranked(f, n \div 2 + 1)) \div 2
  BY MedianIs, Zenon
<1> QED
  BY <1>1

\* The median of what is at most c more is at most c more.
LEMMA MedianBound ==
  ASSUME NEW D, NEW f, NEW E, NEW g, NEW h, NEW c, Under(D, f, E, g, h, c), D # {}
  PROVE  Radar!Median(f) <= Radar!Median(g) + c
<1>1. IsFiniteSet(D) /\ f \in [D -> Int] /\ IsFiniteSet(E) /\ g \in [E -> Int] /\ c \in Int
  BY DEF Under
<1>2. PICK n \in Nat : n = Cardinality(D) /\ n = Cardinality(E)
  BY <1>1, FS_CardinalityType DEF Under
<1>3. n # 0
  BY <1>1, <1>2, FS_EmptySet
<1>4. /\ Radar!Median(f) = IF n % 2 = 1 THEN Radar!Ranked(f, n \div 2 + 1)
                           ELSE (Radar!Ranked(f, n \div 2) + Radar!Ranked(f, n \div 2 + 1)) \div 2
      /\ Radar!Median(g) = IF n % 2 = 1 THEN Radar!Ranked(g, n \div 2 + 1)
                           ELSE (Radar!Ranked(g, n \div 2) + Radar!Ranked(g, n \div 2 + 1)) \div 2
  <2>1. Radar!Median(f) = IF n % 2 = 1 THEN Radar!Ranked(f, n \div 2 + 1)
                          ELSE (Radar!Ranked(f, n \div 2) + Radar!Ranked(f, n \div 2 + 1)) \div 2
    BY <1>1, <1>2, <1>3, MedianOfMany
  <2>2. Radar!Median(g) = IF n % 2 = 1 THEN Radar!Ranked(g, n \div 2 + 1)
                          ELSE (Radar!Ranked(g, n \div 2) + Radar!Ranked(g, n \div 2 + 1)) \div 2
    BY <1>1, <1>2, <1>3, MedianOfMany
  <2> QED
    BY <2>1, <2>2
<1>5. \A k \in 1 .. n : /\ Radar!Ranked(f, k) \in Int /\ Radar!Ranked(g, k) \in Int
                        /\ Radar!Ranked(f, k) <= Radar!Ranked(g, k) + c
  BY <1>1, <1>2, RankedIs, RankedBound
<1>6. n \div 2 + 1 \in 1 .. n
  BY <1>3
<1>7. n % 2 # 1 => n \div 2 \in 1 .. n
  BY <1>3
<1>8. CASE n % 2 = 1
  BY <1>4, <1>5, <1>6, <1>8
<1>9. CASE n % 2 # 1
  <2>1. PICK a \in Int, b \in Int, x \in Int, y \in Int :
          /\ a = Radar!Ranked(f, n \div 2) /\ b = Radar!Ranked(f, n \div 2 + 1)
          /\ x = Radar!Ranked(g, n \div 2) /\ y = Radar!Ranked(g, n \div 2 + 1)
          /\ a <= x + c /\ b <= y + c
    BY <1>5, <1>6, <1>7, <1>9
  <2>2. (a + b) \div 2 <= (x + y) \div 2 + c
    <3>1. a + b <= x + y + 2 * c /\ c \in Int
      BY <1>1, <2>1
    <3> QED
      BY <3>1
  <2> QED
    BY <1>4, <1>9, <2>1, <2>2
<1> QED
  BY <1>8, <1>9

-----------------------------------------------------------------------------
(* Loads of the universe.                                                  *)

RadarNumbers ==
  /\ Lag \in Nat \ {0} /\ MaxDips \in Nat \ {0} /\ MinPeers \in Nat \ {0} /\ MaxDay \in Nat
  /\ Keys \subseteq Int /\ OwnerTax \in Int /\ ServiceTax \in Int /\ None \notin Int

IsQuoted(b) == b.ytm \in Int \cup {None} /\ b.price \in Int \cup {None}

\* A bond is once in a set of bonds.
IsMarket(u) == /\ IsFiniteSet(u) /\ \A b \in u : IsQuoted(b) /\ Radar!Risk!RiskOf(b) # None
               /\ \A b, c \in u : b.isin = c.isin => b = c

IsHeld(p) ==
  \A u \in Markets : /\ {"lots", "baselines", "turbo"} \subseteq DOMAIN p
                     /\ Radar!Isins(u) \subseteq DOMAIN p.baselines

LEMMA RadarAssumed ==
  RadarNumbers /\ (\A u \in Markets : IsMarket(u)) /\ (\A p \in Holders : IsHeld(p))
<1>1. RadarNumbers
  BY RadarAssumption, ScreenAssumption DEF RadarNumbers
<1>2. ASSUME NEW u \in Markets PROVE IsMarket(u)
  BY RadarAssumption DEF IsMarket, IsQuoted
<1>3. ASSUME NEW p \in Holders, NEW u \in Markets 
      PROVE  /\ {"lots", "baselines", "turbo"} \subseteq DOMAIN p
             /\ Radar!Isins(u) \subseteq DOMAIN p.baselines
  BY RadarAssumption DEF Radar!Isins
<1> QED
  BY <1>1, <1>2, <1>3 DEF IsHeld

\* Part of a market is one.
LEMMA PartIsMarket ==
  ASSUME NEW u, IsMarket(u), NEW s, s \subseteq u
  PROVE  IsMarket(s)
BY FS_Subset DEF IsMarket

IsRates(rates) == rates.key \in Int /\ rates.tax \in Int

\* A yield, or the key rate, net of a tax.
Taxed(yield, tax) == yield * (100 - tax)

RowOf(b, rates) ==
  [spread |-> Taxed(b.ytm, rates.tax) - Taxed(rates.key, rates.tax), price |-> b.price,
   ytm |-> b.ytm, rates |-> rates]

\* The rows hold what was written for the bonds that have a yield.
Holds(rows, bonds, rates, unwritten) ==
  \A b \in bonds : b.ytm # None /\ b.isin \notin unwritten =>
                     b.isin \in DOMAIN rows /\ rows[b.isin] = RowOf(b, rates)

\* A row is of a yield, and its spread was taken by the rates that are noted.
RowSound(r) ==
  /\ r.ytm \in Int /\ r.price \in Int \cup {None} /\ IsRates(r.rates)
  /\ r.spread = Taxed(r.ytm, r.rates.tax) - Taxed(r.rates.key, r.rates.tax)

RowsSound(rows) == \A i \in DOMAIN rows : RowSound(rows[i])

LEMMA WrittenHolds ==
  ASSUME RadarNumbers, NEW rows, NEW u, IsMarket(u), NEW rates, IsRates(rates), NEW unwritten
  PROVE  /\ Holds(Radar!Written(rows, u, rates, unwritten), u, rates, unwritten)
         /\ RowsSound(rows) => RowsSound(Radar!Written(rows, u, rates, unwritten))
<1>1. PICK fresh : fresh = {b \in u : b.ytm # None /\ b.isin \notin unwritten}
  OBVIOUS
<1>2. Radar!Isins(fresh) = {b.isin : b \in fresh}
  BY DEF Radar!Isins
<1>3. PICK w : w = Radar!Written(rows, u, rates, unwritten)
  OBVIOUS
<1>4. /\ DOMAIN w = DOMAIN rows \cup Radar!Isins(fresh)
      /\ \A i \in DOMAIN w :
           w[i] = IF i \in Radar!Isins(fresh)
                  THEN Radar!Row(CHOOSE b \in fresh : b.isin = i, rates) ELSE rows[i]
  BY <1>1, <1>3 DEF Radar!Written
<1>5. ASSUME NEW b \in fresh
      PROVE  b.isin \in DOMAIN w /\ w[b.isin] = RowOf(b, rates)
  <2>1. (CHOOSE c \in fresh : c.isin = b.isin) = b
    BY <1>1 DEF IsMarket
  <2>2. w[b.isin] = Radar!Row(b, rates) /\ b.isin \in DOMAIN w
    BY <1>2, <1>4, <2>1
  <2>3. Radar!CreditSpread(b, rates) = Taxed(b.ytm, rates.tax) - Taxed(rates.key, rates.tax)
    BY <1>1 DEF Radar!CreditSpread, Radar!Net, Taxed
  <2> QED
    BY <2>2, <2>3 DEF Radar!Row, RowOf
<1>6. Holds(w, u, rates, unwritten)
  BY <1>1, <1>5 DEF Holds
<1>7. ASSUME RowsSound(rows), NEW i \in DOMAIN w
      PROVE  RowSound(w[i])
  <2>1. CASE i \in Radar!Isins(fresh)
    <3>1. PICK b \in fresh : b.isin = i
      BY <1>2, <2>1
    <3>2. w[i] = RowOf(b, rates) /\ b.ytm \in Int /\ b.price \in Int \cup {None}
      BY <1>1, <1>5, <3>1 DEF IsMarket, IsQuoted
    <3> QED
      BY <3>2 DEF RowSound, RowOf
  <2>2. CASE i \notin Radar!Isins(fresh)
    BY <1>4, <1>7, <2>2 DEF RowsSound
  <2> QED
    BY <2>1, <2>2
<1> QED
  BY <1>3, <1>6, <1>7 DEF RowsSound

\* The rates of a scan or a run are numbers.
LEMMA RatesAreNumbers ==
  ASSUME key \in Keys
  PROVE  /\ IsRates(Radar!Rates(OwnerTax)) /\ IsRates(Radar!Rates(ServiceTax))
         /\ \A failed : IsRates(Radar!Rates(IF "tax" \in failed THEN ServiceTax ELSE OwnerTax))
BY RadarAssumed DEF RadarNumbers, IsRates, Radar!Rates

-----------------------------------------------------------------------------
(* What a scan and a radar run have read.                                  *)

\* The rows of a signal's earlier day.
Before(day) == IF day - Lag < 0 THEN Radar!NoRows ELSE table[day - Lag]

\* The rows of the past are those of that day, or they are lost.
PastIs(past, rows, isins) ==
  /\ \A i \in DOMAIN past : i \in DOMAIN rows /\ past[i] = rows[i]
  /\ DOMAIN past = {} \/ DOMAIN past = DOMAIN rows \cap isins

HeldOf(pf, bonds) == {b \in bonds : pf.lots[b.isin] > 0}

Widens(b, bonds, cur, past) ==
  /\ b.sector # None /\ Radar!Priced(b.isin, cur, past)
  /\ Radar!Widening(b, Radar!PeerGroup(b, bonds), cur, past)

Enters(pf, b, bonds, cur, past) ==
  /\ b.sector # None /\ Radar!Priced(b.isin, cur, past)
  /\ pf.turbo /\ b.fits
  /\ Radar!SectorChange(b, bonds, cur, past) < -Radar!Points(15)
  /\ Radar!Change(b.isin, cur, past)
       < Radar!SectorChange(b, bonds, cur, past) - Radar!Points(5)
  /\ pf.baselines[b.isin] # None /\ ~Radar!Escalates(b, pf.baselines)

RaisedIn(al, kind) == {a.isin : a \in {x \in al.alerts : x.kind = kind}}

\* The alerts are those of the holdings, by the rows cur and past.
ScanIs(al, pf, rows, bonds, cur, past) ==
  /\ RowsSound(cur) /\ al.now = cur
  /\ PastIs(past, rows, Radar!Isins(bonds)) /\ al.past = DOMAIN past
  /\ RaisedIn(al, "spread_widening")
       = {b.isin : b \in {c \in HeldOf(pf, bonds) : Widens(c, bonds, cur, past)}}
  /\ RaisedIn(al, "turbo_entry")
       = {b.isin : b \in {c \in HeldOf(pf, bonds) : Enters(pf, c, bonds, cur, past)}}

\* What a scan looks at: the holdings and their peers.
Looked(pf, u) ==
  HeldOf(pf, u) \cup UNION {Radar!PeerGroup(b, u) : b \in HeldOf(pf, u)}

ScanSound ==
  alerts # None =>
    /\ alerts.universe \in Markets /\ alerts.day \in 0 .. today
    /\ \A b \in HeldOf(alerts.portfolio, alerts.universe) :
         alerts.portfolio.baselines[b.isin] # None
    /\ \E cur, past : ScanIs(alerts, alerts.portfolio, Before(alerts.day),
                             Looked(alerts.portfolio, alerts.universe), cur, past)

RunIs(r, rows, liquid, past, dips) ==
  /\ PastIs(past, rows, Radar!Isins(liquid)) /\ r.past = DOMAIN past
  /\ \E rates : /\ IsRates(rates)
                 /\ dips \in Radar!DipIdeas(liquid, Radar!Written(Radar!NoRows, liquid, rates, {}),
                                          past, MaxDips)
  /\ r.radar.dips = Radar!Isins(dips)

RunSound ==
  run # None =>
    /\ run.universe \in Markets /\ run.day \in 0 .. today
    /\ \E past, dips : RunIs(run, Before(run.day), Radar!FilterRadarUniverse(run.universe), past, dips)

RadarTyped ==
  /\ IsHeld(portfolio) /\ today \in 0 .. MaxDay /\ universe \in Markets /\ key \in Keys
  /\ table = [d \in 0 .. MaxDay |-> table[d]]
  /\ \A d \in 0 .. MaxDay : RowsSound(table[d])

RadarInv == RadarTyped /\ ScanSound /\ RunSound

-----------------------------------------------------------------------------
LEMMA RadarInit == Radar!Init => RadarInv
<1> SUFFICES ASSUME Radar!Init PROVE RadarInv
  OBVIOUS
<1>1. /\ portfolio \in Holders /\ today = 0 /\ universe \in Markets /\ key \in Keys /\ alerts = None /\ run = None
      /\ table = [d \in 0 .. MaxDay |-> Radar!NoRows]
  BY DEF Radar!Init
<1>2. RowsSound(Radar!NoRows)
  BY DEF RowsSound, Radar!NoRows
<1>3. 0 \in 0 .. MaxDay
  BY RadarAssumed DEF RadarNumbers
<1>4. RadarTyped
  BY <1>1, <1>2, <1>3, RadarAssumed DEF RadarTyped
<1> QED
  BY <1>1, <1>4 DEF RadarInv, ScanSound, RunSound

\* The row of an earlier day stays when today's is written.
LEMMA BeforeStays ==
  ASSUME RadarTyped, NEW rows, RowsSound(rows), table' = [table EXCEPT ![today] = rows]
  PROVE  /\ table' = [d \in 0 .. MaxDay |-> table'[d]]
         /\ \A d \in 0 .. MaxDay : RowsSound(table'[d])
         /\ \A day \in 0 .. today : Before(day)' = Before(day)
<1>1. table = [d \in 0 .. MaxDay |-> table[d]] /\ today \in 0 .. MaxDay /\ Lag \in Nat \ {0}
  BY RadarAssumed DEF RadarTyped, RadarNumbers
<1>2. /\ table' = [d \in 0 .. MaxDay |-> table'[d]]
      /\ \A d \in 0 .. MaxDay : table'[d] = IF d = today THEN rows ELSE table[d]
  BY <1>1
<1>3. \A d \in 0 .. MaxDay : RowsSound(table'[d])
  BY <1>2 DEF RadarTyped
<1>4. ASSUME NEW day \in 0 .. today PROVE Before(day)' = Before(day)
  <2>1. day - Lag >= 0 => day - Lag \in 0 .. MaxDay /\ day - Lag # today
    BY <1>1, RadarAssumed DEF RadarNumbers
  <2>2. day - Lag >= 0 => table'[day - Lag] = table[day - Lag]
    BY <1>2, <2>1
  <2>3. day - Lag < 0 \/ day - Lag >= 0
    BY <1>1
  <2> QED
    BY <2>2, <2>3 DEF Before
<1> QED
  BY <1>2, <1>3, <1>4

\* What was read stays what was read.
LEMMA ScanStays ==
  ASSUME ScanSound, alerts' = alerts, today' \in Nat, today \in Nat,
         today <= today', \A day \in 0 .. today : Before(day)' = Before(day)
  PROVE  ScanSound'
<1> SUFFICES ASSUME alerts # None PROVE ScanSound'
  BY DEF ScanSound
<1>1. alerts.day \in 0 .. today' /\ Before(alerts.day)' = Before(alerts.day)
  BY DEF ScanSound
<1> QED
  BY <1>1 DEF ScanSound

LEMMA RunStays ==
  ASSUME RunSound, run' = run, today' \in Nat, today \in Nat, today <= today',
         \A day \in 0 .. today : Before(day)' = Before(day)
  PROVE  RunSound'
<1> SUFFICES ASSUME run # None PROVE RunSound'
  BY DEF RunSound
<1>1. run.day \in 0 .. today' /\ Before(run.day)' = Before(run.day)
  BY DEF RunSound
<1> QED
  BY <1>1 DEF RunSound

\* ListByISINsAndDate: the rows of the earlier day, or none.
LEMMA ListedIsPast ==
  ASSUME RadarTyped, NEW day \in 0 .. today, NEW isins,
         NEW past \in {Radar!Listed(day - Lag, isins), Radar!NoRows}
  PROVE  PastIs(past, Before(day), isins)
<1>1. PICK rows : rows = Before(day)
  OBVIOUS
<1>2. CASE past = Radar!NoRows
  BY <1>2 DEF PastIs, Radar!NoRows
<1>3. CASE past = Radar!Listed(day - Lag, isins) /\ day - Lag < 0
  BY <1>3 DEF PastIs, Radar!NoRows, Radar!Listed
<1>4. CASE past = Radar!Listed(day - Lag, isins) /\ ~(day - Lag < 0)
  <2>1. rows = table[day - Lag] /\ past = [i \in DOMAIN rows \cap isins |-> rows[i]]
    BY <1>1, <1>4 DEF Before, Radar!Listed
  <2> QED
    BY <1>1, <2>1 DEF PastIs
<1> QED
  BY <1>2, <1>3, <1>4

\* Every held bond has a baseline once they are synchronised.
LEMMA SyncRemembers ==
  ASSUME NEW pf, IsHeld(pf), NEW u \in Markets, NEW held, held = HeldOf(pf, u), NEW risks,
         risks = [i \in Radar!Isins(held) |-> Radar!Risk!RiskOf(CHOOSE b \in u : b.isin = i)],
         NEW baselines,
         baselines = Radar!Risk!SyncRiskBaselines(pf.baselines, Radar!Isins(held), risks)
  PROVE  /\ DOMAIN baselines = DOMAIN pf.baselines
         /\ \A b \in held : baselines[b.isin] # None
<1>1. /\ DOMAIN baselines = DOMAIN pf.baselines
      /\ \A i \in DOMAIN pf.baselines :
           baselines[i] = IF i \notin Radar!Isins(held) THEN None
                          ELSE IF pf.baselines[i] # None \/ i \notin DOMAIN risks THEN pf.baselines[i]
                          ELSE risks[i]
  BY DEF Radar!Risk!SyncRiskBaselines
<1>2. ASSUME NEW b \in held
      PROVE  baselines[b.isin] # None
  <2>1. b \in u /\ b.isin \in Radar!Isins(held) /\ b.isin \in Radar!Isins(u)
    BY DEF HeldOf, Radar!Isins
  <2>2. (CHOOSE c \in u : c.isin = b.isin) = b /\ Radar!Risk!RiskOf(b) # None
    BY <2>1, RadarAssumed DEF IsMarket
  <2>3. risks[b.isin] # None /\ b.isin \in DOMAIN risks
    BY <2>1, <2>2
  <2>4. b.isin \in DOMAIN pf.baselines
    BY <2>1 DEF IsHeld
  <2> QED
    BY <1>1, <2>1, <2>3, <2>4
<1> QED
  BY <1>1, <1>2

\* The two alerts that are compared come from TemporalAlertRules alone.
LEMMA RulesRaiseOthers ==
  ASSUME NEW bonds, NEW baselines, NEW rates, NEW a \in Radar!RuleAlerts(bonds, baselines, rates)
  PROVE  a.kind # "spread_widening" /\ a.kind # "turbo_entry"
<1>1. \A b : Radar!Alert("risk_escalation", b).kind = "risk_escalation"
  BY DEF Radar!Alert
<1>2. \A b : Radar!Alert("spread_anomaly", b).kind = "spread_anomaly"
  BY DEF Radar!Alert
<1>3. \/ \E b : a = Radar!Alert("risk_escalation", b)
      \/ \E b : a = Radar!Alert("spread_anomaly", b)
      \/ \E s : a = [kind |-> "sector_concentration", isin |-> s]
  BY DEF Radar!RuleAlerts
<1> QED
  BY <1>1, <1>2, <1>3

LEMMA TemporalRaises ==
  ASSUME NEW pf, pf.turbo = portfolio.turbo, NEW b, NEW bonds, NEW cur, NEW past
  PROVE  LET temporal == Radar!TemporalAlerts(b, bonds, cur, past, pf.baselines) IN
         /\ \A a \in temporal : a.isin = b.isin
         /\ (\E a \in temporal : a.kind = "spread_widening") <=> Widens(b, bonds, cur, past)
         /\ (\E a \in temporal : a.kind = "turbo_entry") <=> Enters(pf, b, bonds, cur, past)
<1> DEFINE temporal == Radar!TemporalAlerts(b, bonds, cur, past, pf.baselines)
           sector == Radar!SectorChange(b, bonds, cur, past)
           stress == Radar!BuildAttribution(Radar!Change(b.isin, cur, past), sector) = "sector_stress"
           wide == Radar!Widening(b, Radar!PeerGroup(b, bonds), cur, past)
           turbo == Radar!TurboEntry(b, Radar!Change(b.isin, cur, past), sector, pf.baselines)
           here == b.sector # None /\ Radar!Priced(b.isin, cur, past)
<1>1. temporal = IF ~here THEN {}
                 ELSE (IF stress THEN {Radar!Alert("sector_stress", b)} ELSE {})
                      \cup (IF wide THEN {Radar!Alert("spread_widening", b)} ELSE {})
                      \cup (IF turbo THEN {Radar!Alert("turbo_entry", b)} ELSE {})
  BY DEF Radar!TemporalAlerts
<1>2. turbo /\ here <=> Enters(pf, b, bonds, cur, past)
  BY DEF Radar!TurboEntry, Enters
<1>3. wide /\ here <=> Widens(b, bonds, cur, past)
  BY DEF Widens
<1>4. /\ Radar!Alert("sector_stress", b).kind = "sector_stress"
      /\ Radar!Alert("spread_widening", b).kind = "spread_widening"
      /\ Radar!Alert("turbo_entry", b).kind = "turbo_entry"
      /\ \A k : Radar!Alert(k, b).isin = b.isin
  BY DEF Radar!Alert
<1> HIDE DEF temporal, sector, stress, wide, turbo, here
<1>5. \A a \in temporal : a.isin = b.isin
  BY <1>1, <1>4
<1>6. (\E a \in temporal : a.kind = "spread_widening") <=> wide /\ here
  BY <1>1, <1>4
<1>7. (\E a \in temporal : a.kind = "turbo_entry") <=> turbo /\ here
  BY <1>1, <1>4
<1> QED
  BY <1>2, <1>3, <1>5, <1>6, <1>7 DEF temporal

\* The alerts of one kind come from the holdings whose signals say so.
RaisesFrom(al, others, held, Temporal, kind, Says) ==
  /\ Says \subseteq held
  /\ \A a : a \in al.alerts <=> a \in others \/ \E b \in held : a \in Temporal[b]
  /\ \A a \in others : a.kind # kind
  /\ \A b \in held : /\ \A a \in Temporal[b] : a.isin = b.isin
                     /\ (\E a \in Temporal[b] : a.kind = kind) <=> b \in Says

LEMMA RaisedBy ==
  ASSUME NEW al, NEW others, NEW held, NEW Temporal, NEW kind, NEW Says,
         RaisesFrom(al, others, held, Temporal, kind, Says)
  PROVE  \A x : x \in RaisedIn(al, kind) <=> \E b \in Says : x = b.isin
<1> USE DEF RaisesFrom
<1>1. ASSUME NEW x \in RaisedIn(al, kind)
      PROVE  \E b \in Says : x = b.isin
  <2>1. PICK a \in al.alerts : a.kind = kind /\ x = a.isin
    BY DEF RaisedIn
  <2>2. PICK b \in held : a \in Temporal[b]
    BY <2>1
  <2> QED
    BY <2>1, <2>2
<1>2. ASSUME NEW b \in Says
      PROVE  b.isin \in RaisedIn(al, kind)
  <2>1. PICK a \in Temporal[b] : a.kind = kind
    OBVIOUS
  <2>2. a \in al.alerts /\ a.isin = b.isin
    BY <2>1
  <2> QED
    BY <2>1, <2>2 DEF RaisedIn
<1> QED
  BY <1>1, <1>2

LEMMA LookedIsMarket ==
  ASSUME NEW pf, NEW u, IsMarket(u)
  PROVE  /\ Looked(pf, u) \subseteq u /\ IsMarket(Looked(pf, u))
         /\ HeldOf(pf, Looked(pf, u)) = HeldOf(pf, u)
<1>1. \A b : Radar!PeerGroup(b, u) \subseteq u
  BY DEF Radar!PeerGroup
<1>2. Looked(pf, u) \subseteq u /\ HeldOf(pf, u) \subseteq Looked(pf, u)
  BY <1>1 DEF Looked, HeldOf
<1>3. IsMarket(Looked(pf, u))
  BY <1>2, PartIsMarket
<1> QED
  BY <1>2, <1>3 DEF HeldOf

LEMMA ScanKeeps ==
  ASSUME RadarInv, Radar!ScanPortfolio
  PROVE  RadarInv'
<1> DEFINE bonds == Radar!ScanUniverse(universe)
           held == Radar!Holding(universe)
           risks == [i \in Radar!Isins(held) |->
                       Radar!Risk!RiskOf(CHOOSE b \in universe : b.isin = i)]
           baselines == Radar!Risk!SyncRiskBaselines(portfolio.baselines, Radar!Isins(held), risks)
           Report(rows, rates, read, past) ==
             [day |-> today, portfolio |-> [portfolio EXCEPT !.baselines = baselines],
              universe |-> universe, past |-> DOMAIN past, now |-> read,
              alerts |-> Radar!RuleAlerts(bonds, baselines, rates)
                \cup UNION {Radar!TemporalAlerts(b, bonds, read, past, baselines)
                              : b \in Radar!Holding(bonds)}]
<1>s. PICK failed \in SUBSET {"tax", "save", "write", "past", "now"} :
        /\ portfolio' = IF "save" \in failed THEN portfolio
                        ELSE [portfolio EXCEPT !.baselines = baselines]
        /\ \E unwritten \in Radar!Unwritten(failed) :
             LET rates == Radar!Rates(IF "tax" \in failed THEN ServiceTax ELSE OwnerTax)
                 rows == Radar!Written(table[today], bonds, rates, unwritten)
                 past == IF "past" \in failed THEN Radar!NoRows
                         ELSE Radar!Listed(today - Lag, Radar!Isins(bonds))
                 read == IF "now" \in failed THEN Radar!NoRows
                         ELSE [i \in DOMAIN rows \cap Radar!Isins(bonds) |-> rows[i]]
             IN table' = [table EXCEPT ![today] = rows] /\ alerts' = Report(rows, rates, read, past)
  BY DEF Radar!ScanPortfolio
<1>r. PICK unwritten, rates, rows, past, cur :
        /\ rates = Radar!Rates(IF "tax" \in failed THEN ServiceTax ELSE OwnerTax)
        /\ rows = Radar!Written(table[today], bonds, rates, unwritten)
        /\ past \in {Radar!Listed(today - Lag, Radar!Isins(bonds)), Radar!NoRows}
        /\ cur = IF "now" \in failed THEN Radar!NoRows
                 ELSE [i \in DOMAIN rows \cap Radar!Isins(bonds) |-> rows[i]]
        /\ table' = [table EXCEPT ![today] = rows] /\ alerts' = Report(rows, rates, cur, past)
  <2> HIDE DEF bonds, Report
  <2> QED
    BY <1>s
<1> DEFINE Temporal ==
             [b \in Radar!Holding(bonds) |-> Radar!TemporalAlerts(b, bonds, cur, past, baselines)]
<1>1. PICK pf : pf = [portfolio EXCEPT !.baselines = baselines]
  OBVIOUS
<1>2. /\ table' = [table EXCEPT ![today] = rows]
      /\ portfolio' \in {portfolio, pf}
      /\ today' = today /\ universe' = universe /\ key' = key /\ run' = run
  BY <1>s, <1>r, <1>1 DEF Radar!ScanPortfolio
<1>3. {Radar!TemporalAlerts(b, bonds, cur, past, baselines) : b \in Radar!Holding(bonds)}
        = {Temporal[b] : b \in Radar!Holding(bonds)}
  BY ONLY TRUE
<1>u. PICK u : u = universe
  OBVIOUS
<1>4. RadarTyped /\ RunSound /\ u \in Markets /\ IsMarket(u) /\ RadarNumbers
  BY <1>u, RadarAssumed DEF RadarInv, RadarTyped
<1>5. bonds = Looked(portfolio, u) /\ held = HeldOf(portfolio, u)
  BY <1>u DEF Radar!Holding, Radar!ScanUniverse, HeldOf, Looked
<1>6. risks = [i \in Radar!Isins(held) |-> Radar!Risk!RiskOf(CHOOSE b \in u : b.isin = i)]
  BY <1>u
<1>7. Radar!Holding(bonds) = HeldOf(portfolio, bonds)
  BY DEF Radar!Holding, HeldOf
<1>8. baselines = Radar!Risk!SyncRiskBaselines(portfolio.baselines, Radar!Isins(held), risks)
  OBVIOUS
<1>9. alerts' = [day |-> today, portfolio |-> pf, universe |-> u, past |-> DOMAIN past, now |-> cur,
                alerts |-> Radar!RuleAlerts(bonds, baselines, rates)
                  \cup UNION {Radar!TemporalAlerts(b, bonds, cur, past, baselines)
                                : b \in Radar!Holding(bonds)}]
  BY <1>r, <1>1, <1>u
<1> HIDE DEF bonds, held, risks, baselines, Report
<1>10. bonds \subseteq u /\ IsMarket(bonds) /\ HeldOf(portfolio, bonds) = held
  BY <1>4, <1>5, LookedIsMarket
<1>11. RowsSound(rows)
  <2>1. RowsSound(table[today]) /\ IsRates(rates)
    BY <1>r, <1>4, RatesAreNumbers DEF RadarTyped
  <2> QED
    BY <1>r, <1>4, <1>10, <2>1, WrittenHolds
<1>12. RowsSound(cur)
  BY <1>r, <1>11 DEF RowsSound, Radar!NoRows
<1>13. today \in Nat /\ today \in 0 .. today /\ IsHeld(portfolio)
  BY <1>4 DEF RadarTyped
<1>14. /\ table' = [d \in 0 .. MaxDay |-> table'[d]]
       /\ \A d \in 0 .. MaxDay : RowsSound(table'[d])
       /\ \A day \in 0 .. today : Before(day)' = Before(day)
  BY <1>2, <1>4, <1>11, BeforeStays
<1>15. DOMAIN baselines = DOMAIN portfolio.baselines /\ \A b \in held : baselines[b.isin] # None
  BY <1>4, <1>5, <1>6, <1>8, <1>13, SyncRemembers
<1>17. pf.lots = portfolio.lots /\ pf.turbo = portfolio.turbo /\ pf.baselines = baselines
  <2>1. {"lots", "baselines", "turbo"} \subseteq DOMAIN portfolio
    BY <1>4, <1>13 DEF IsHeld
  <2> QED
    BY <1>1, <2>1
<1>18. IsHeld(pf)
  <2>1. DOMAIN pf = DOMAIN portfolio
    BY <1>1
  <2> QED
    BY <1>13, <1>15, <1>17, <2>1 DEF IsHeld
<1>19. RadarTyped'
  <2>1. IsHeld(portfolio')
    BY <1>2, <1>13, <1>18
  <2> QED
    BY <1>2, <1>4, <1>14, <2>1 DEF RadarTyped
<1>20. RunSound'
  BY <1>2, <1>4, <1>13, <1>14, RunStays
<1>21. /\ \A s : HeldOf(pf, s) = HeldOf(portfolio, s)
       /\ Looked(pf, u) = bonds
  BY <1>5, <1>17 DEF HeldOf, Looked
<1>22. PastIs(past, Before(today), Radar!Isins(bonds))
  BY <1>r, <1>4, <1>13, ListedIsPast
<1>23. PICK al : al = alerts'
  OBVIOUS
<1>24. /\ al.day = today /\ al.portfolio = pf /\ al.universe = u /\ al.past = DOMAIN past
       /\ al.now = cur
       /\ al.alerts = Radar!RuleAlerts(bonds, baselines, rates)
            \cup UNION {Temporal[b] : b \in Radar!Holding(bonds)}
  BY <1>3, <1>9, <1>23
<1>25. \A a \in Radar!RuleAlerts(bonds, baselines, rates) : a.kind # "spread_widening" /\ a.kind # "turbo_entry"
  BY RulesRaiseOthers
<1>26. \A b \in held :
         /\ \A a \in Temporal[b] : a.isin = b.isin
         /\ (\E a \in Temporal[b] : a.kind = "spread_widening") <=> Widens(b, bonds, cur, past)
         /\ (\E a \in Temporal[b] : a.kind = "turbo_entry") <=> Enters(pf, b, bonds, cur, past)
  <2> SUFFICES ASSUME NEW b \in held
               PROVE  /\ \A a \in Temporal[b] : a.isin = b.isin
                      /\ (\E a \in Temporal[b] : a.kind = "spread_widening") <=> Widens(b, bonds, cur, past)
                      /\ (\E a \in Temporal[b] : a.kind = "turbo_entry") <=> Enters(pf, b, bonds, cur, past)
    OBVIOUS
  <2>1. Temporal[b] = Radar!TemporalAlerts(b, bonds, cur, past, pf.baselines)
    BY <1>7, <1>10, <1>17
  <2> HIDE DEF Temporal
  <2> QED
    BY <1>17, <2>1, TemporalRaises
<1> HIDE DEF Temporal
<1>27. RaisedIn(al, "spread_widening") = {b.isin : b \in {c \in held : Widens(c, bonds, cur, past)}}
  <2>1. PICK Says : Says = {c \in held : Widens(c, bonds, cur, past)}
    OBVIOUS
  <2>2. PICK T, others, kind : kind = "spread_widening" /\ T = Temporal
                              /\ others = Radar!RuleAlerts(bonds, baselines, rates)
    OBVIOUS
  <2>4. \A a : a \in al.alerts <=> a \in others \/ \E b \in held : a \in T[b]
    BY <1>7, <1>10, <1>24, <2>2
  <2>5. \A a \in others : a.kind # kind
    BY <1>25, <2>2
  <2>6. \A b \in held : /\ \A a \in T[b] : a.isin = b.isin
                        /\ (\E a \in T[b] : a.kind = kind) <=> b \in Says
    BY <1>26, <2>1, <2>2
  <2>3. Says \subseteq held
    BY <2>1
  <2>7. \A x : x \in RaisedIn(al, kind) <=> \E b \in Says : x = b.isin
    <3>1. RaisesFrom(al, others, held, T, kind, Says)
      BY <2>3, <2>4, <2>5, <2>6 DEF RaisesFrom
    <3> QED
      BY <3>1, RaisedBy
  <2> QED
    BY <2>1, <2>2, <2>7
<1>28. RaisedIn(al, "turbo_entry") = {b.isin : b \in {c \in held : Enters(pf, c, bonds, cur, past)}}
  <2>1. PICK Says : Says = {c \in held : Enters(pf, c, bonds, cur, past)}
    OBVIOUS
  <2>2. PICK T, others, kind : kind = "turbo_entry" /\ T = Temporal
                              /\ others = Radar!RuleAlerts(bonds, baselines, rates)
    OBVIOUS
  <2>4. \A a : a \in al.alerts <=> a \in others \/ \E b \in held : a \in T[b]
    BY <1>7, <1>10, <1>24, <2>2
  <2>5. \A a \in others : a.kind # kind
    BY <1>25, <2>2
  <2>6. \A b \in held : /\ \A a \in T[b] : a.isin = b.isin
                        /\ (\E a \in T[b] : a.kind = kind) <=> b \in Says
    BY <1>26, <2>1, <2>2
  <2>3. Says \subseteq held
    BY <2>1
  <2>7. \A x : x \in RaisedIn(al, kind) <=> \E b \in Says : x = b.isin
    <3>1. RaisesFrom(al, others, held, T, kind, Says)
      BY <2>3, <2>4, <2>5, <2>6 DEF RaisesFrom
    <3> QED
      BY <3>1, RaisedBy
  <2> QED
    BY <2>1, <2>2, <2>7
<1>29. ScanIs(al, pf, Before(today), bonds, cur, past)
  BY <1>10, <1>12, <1>21, <1>22, <1>24, <1>27, <1>28 DEF ScanIs
<1>30. ScanSound'
  <2>1. /\ al.universe \in Markets /\ al.day \in 0 .. today
        /\ \A b \in HeldOf(pf, u) : pf.baselines[b.isin] # None
    BY <1>4, <1>5, <1>13, <1>15, <1>17, <1>21, <1>24
  <2>2. Before(al.day)' = Before(today)
    BY <1>13, <1>14, <1>24, <1>23
  <2>3. \E x, y : ScanIs(al, pf, Before(al.day)', Looked(pf, al.universe), x, y)
    BY <1>21, <1>24, <1>29, <2>2
  <2> QED
    BY <1>2, <1>23, <1>24, <2>1, <2>3 DEF ScanSound
<1> QED
  BY <1>19, <1>20, <1>30 DEF RadarInv

LEMMA LiquidIsMarket ==
  ASSUME NEW u, IsMarket(u)
  PROVE  /\ Radar!FilterRadarUniverse(u) \subseteq u /\ IsMarket(Radar!FilterRadarUniverse(u))
         /\ \A b \in Radar!FilterRadarUniverse(u) : b.sector # None /\ b.ytm # None
<1>1. /\ Radar!FilterRadarUniverse(u) \subseteq u
      /\ \A b \in Radar!FilterRadarUniverse(u) : b.sector # None /\ b.ytm # None
  BY DEF Radar!FilterRadarUniverse
<1> QED
  BY <1>1, PartIsMarket

\* Today's rows with the liquid universe written over them are as sound.
LEMMA RadarWrites ==
  ASSUME RadarTyped, NEW liquid, liquid = Radar!FilterRadarUniverse(universe), NEW unwritten,
         table' = [table EXCEPT ![today] =
                     Radar!Written(@, liquid, Radar!Rates(ServiceTax), unwritten)]
  PROVE  /\ table' = [d \in 0 .. MaxDay |-> table'[d]]
         /\ \A d \in 0 .. MaxDay : RowsSound(table'[d])
         /\ \A day \in 0 .. today : Before(day)' = Before(day)
<1>1. PICK rows : rows = Radar!Written(table[today], liquid, Radar!Rates(ServiceTax), unwritten)
  OBVIOUS
<1>2. /\ IsMarket(liquid) /\ RadarNumbers /\ today \in 0 .. MaxDay
      /\ IsRates(Radar!Rates(ServiceTax))
  BY LiquidIsMarket, RadarAssumed, RatesAreNumbers DEF RadarTyped
<1>3. RowsSound(rows)
  <2>1. RowsSound(table[today])
    BY <1>2 DEF RadarTyped
  <2> QED
    BY <1>1, <1>2, <2>1, WrittenHolds
<1>4. table' = [table EXCEPT ![today] = rows]
  BY <1>1
<1> QED
  BY <1>3, <1>4, BeforeStays

LEMMA RadarKeeps ==
  ASSUME RadarInv, Radar!ScanRadar
  PROVE  RadarInv'
<1> DEFINE liquid == Radar!FilterRadarUniverse(universe)
           rates == Radar!Rates(ServiceTax)
           rows == Radar!Written(Radar!NoRows, liquid, rates, {})
<1>p. PICK failed \in SUBSET {"write", "past"} :
        /\ \E unwritten \in Radar!Unwritten(failed) :
             table' = [table EXCEPT ![today] = Radar!Written(@, liquid, rates, unwritten)]
        /\ \E dips \in Radar!DipIdeas(liquid, rows,
                          IF "past" \in failed THEN Radar!NoRows
                          ELSE Radar!Listed(today - Lag, Radar!Isins(liquid)), MaxDips) :
             run' = [day |-> today, universe |-> universe,
                     past |-> DOMAIN (IF "past" \in failed THEN Radar!NoRows
                                      ELSE Radar!Listed(today - Lag, Radar!Isins(liquid))),
                     radar |-> Radar!ScanMarketRadar(universe, rows,
                                 IF "past" \in failed THEN Radar!NoRows
                                 ELSE Radar!Listed(today - Lag, Radar!Isins(liquid)), rates, dips)]
  BY DEF Radar!ScanRadar
<1>q. PICK past : past = IF "past" \in failed THEN Radar!NoRows
                         ELSE Radar!Listed(today - Lag, Radar!Isins(liquid))
  OBVIOUS
<1>1. PICK dips \in Radar!DipIdeas(liquid, rows, past, MaxDips) :
        run' = [day |-> today, universe |-> universe, past |-> DOMAIN past,
                radar |-> Radar!ScanMarketRadar(universe, rows, past, rates, dips)]
  BY <1>p, <1>q
<1>2. /\ \E unwritten :
           table' = [table EXCEPT ![today] = Radar!Written(@, liquid, rates, unwritten)]
      /\ portfolio' = portfolio /\ today' = today /\ universe' = universe /\ alerts' = alerts
      /\ key' = key
  BY <1>p DEF Radar!ScanRadar
<1>3. RadarTyped /\ ScanSound /\ today \in Nat /\ today \in 0 .. today
  BY DEF RadarInv, RadarTyped
<1>4. /\ table' = [d \in 0 .. MaxDay |-> table'[d]]
      /\ \A d \in 0 .. MaxDay : RowsSound(table'[d])
      /\ \A day \in 0 .. today : Before(day)' = Before(day)
  BY <1>2, <1>3, RadarWrites
<1>5. RadarTyped'
  BY <1>2, <1>3, <1>4 DEF RadarTyped
<1>6. ScanSound'
  BY <1>2, <1>3, <1>4, ScanStays
<1>7. PICK r : r = run'
  OBVIOUS
<1>8. r.day = today /\ r.universe = universe /\ r.past = DOMAIN past /\ r.radar.dips = Radar!Isins(dips)
  BY <1>1, <1>7 DEF Radar!ScanMarketRadar
<1>9. PastIs(past, Before(today), Radar!Isins(liquid))
  BY <1>q, <1>3, ListedIsPast
<1>10. RunIs(r, Before(today), liquid, past, dips)
  <2>1. IsRates(rates)
    BY <1>3, RatesAreNumbers DEF RadarTyped
  <2> HIDE DEF rates
  <2> QED
    BY <1>1, <1>8, <1>9, <2>1 DEF RunIs
<1> HIDE DEF rows
<1>11. RunSound'
  <2>1. r.universe \in Markets /\ r.day \in 0 .. today
    BY <1>3, <1>8 DEF RadarTyped
  <2>2. Before(r.day)' = Before(today)
    BY <1>3, <1>4, <1>7, <1>8
  <2>3. \E x, y : RunIs(r, Before(r.day)', Radar!FilterRadarUniverse(r.universe), x, y)
    BY <1>8, <1>10, <2>2
  <2> QED
    BY <1>2, <1>7, <2>1, <2>3 DEF RunSound
<1> QED
  BY <1>5, <1>6, <1>11 DEF RadarInv

\* A run that is not saved leaves the last one.
LEMMA LoseRunKeeps ==
  ASSUME RadarInv, Radar!LoseRun
  PROVE  RadarInv'
<1>1. /\ \E unwritten :
           table' = [table EXCEPT ![today] = Radar!Written(@, Radar!FilterRadarUniverse(universe),
                                                           Radar!Rates(ServiceTax), unwritten)]
      /\ portfolio' = portfolio /\ today' = today /\ universe' = universe
      /\ alerts' = alerts /\ run' = run /\ key' = key
  BY DEF Radar!LoseRun
<1>2. RadarTyped /\ ScanSound /\ RunSound /\ today \in Nat
  BY DEF RadarInv, RadarTyped
<1>3. /\ table' = [d \in 0 .. MaxDay |-> table'[d]]
      /\ \A d \in 0 .. MaxDay : RowsSound(table'[d])
      /\ \A day \in 0 .. today : Before(day)' = Before(day)
  BY <1>1, <1>2, RadarWrites
<1>4. RadarTyped'
  BY <1>1, <1>2, <1>3 DEF RadarTyped
<1>5. ScanSound' /\ RunSound'
  BY <1>1, <1>2, <1>3, ScanStays, RunStays
<1> QED
  BY <1>4, <1>5 DEF RadarInv

\* The other steps write no rows.
LEMMA RestKeeps ==
  ASSUME RadarInv, table' = table, portfolio' = portfolio, alerts' = alerts, run' = run,
         universe' \in Markets, key' \in Keys, today' \in today .. MaxDay
  PROVE  RadarInv'
<1>1. RadarTyped /\ ScanSound /\ RunSound /\ today \in Nat /\ today' \in Nat /\ today <= today'
  BY DEF RadarInv, RadarTyped
<1>2. \A day \in 0 .. today : Before(day)' = Before(day)
  BY DEF Before
<1>3. today' \in 0 .. MaxDay
  BY <1>1
<1>4. RadarTyped'
  BY <1>1, <1>3 DEF RadarTyped
<1>5. ScanSound' /\ RunSound'
  BY <1>1, <1>2, ScanStays, RunStays
<1> QED
  BY <1>4, <1>5 DEF RadarInv

LEMMA RadarStep == RadarInv /\ [Radar!Next]_Radar!radarVars => RadarInv'
<1> SUFFICES ASSUME RadarInv, [Radar!Next]_Radar!radarVars PROVE RadarInv'
  OBVIOUS
<1>1. /\ today \in today .. MaxDay /\ universe \in Markets /\ key \in Keys
      /\ today \in Int /\ MaxDay \in Int
  <2>1. MaxDay \in Nat
    BY RadarAssumed DEF RadarNumbers
  <2> QED
    BY <2>1 DEF RadarInv, RadarTyped
<1>2. CASE Radar!ScanPortfolio
  BY <1>2, ScanKeeps
<1>3. CASE Radar!ScanRadar
  BY <1>3, RadarKeeps
<1>4. CASE Radar!LoseRun
  BY <1>4, LoseRunKeeps
<1>5. CASE Radar!SkipPortfolio
  <2>1. /\ table' = table /\ portfolio' = portfolio /\ alerts' = alerts /\ run' = run
        /\ universe' = universe /\ key' = key /\ today' = today
    BY <1>5 DEF Radar!SkipPortfolio
  <2> QED
    BY <1>1, <2>1, RestKeeps
<1>6. CASE Radar!Swing
  <2>1. /\ table' = table /\ portfolio' = portfolio /\ alerts' = alerts /\ run' = run
        /\ universe' \in Markets /\ key' \in Keys /\ today' = today
    BY <1>1, <1>6 DEF Radar!Swing
  <2> QED
    BY <1>1, <2>1, RestKeeps
<1>7. CASE Radar!NextDay
  <2>1. /\ table' = table /\ portfolio' = portfolio /\ alerts' = alerts /\ run' = run
        /\ universe' = universe /\ key' = key /\ today' = today + 1 /\ today < MaxDay
    BY <1>7 DEF Radar!NextDay
  <2>2. today' \in today .. MaxDay
    BY <1>1, <2>1
  <2> QED
    BY <1>1, <2>1, <2>2, RestKeeps
<1>8. CASE UNCHANGED Radar!radarVars
  <2>1. /\ table' = table /\ portfolio' = portfolio /\ alerts' = alerts /\ run' = run
        /\ universe' = universe /\ key' = key /\ today' = today
    BY <1>8 DEF Radar!radarVars
  <2> QED
    BY <1>1, <2>1, RestKeeps
<1> QED
  BY <1>2, <1>3, <1>4, <1>5, <1>6, <1>7, <1>8 DEF Radar!Next

\* The alerts and the run that are kept are what the two scanners say of rows that were
\* written that day and of rows of the earlier day, which no later step changes
\* (ScanPortfolio, ScanRadar, LoseRun).
THEOREM RadarInvariant == Radar!Spec => []RadarInv
BY RadarInit, RadarStep, PTL DEF Radar!Spec

-----------------------------------------------------------------------------
(* What follows for one bond.                                              *)

LEMMA BeforeIsSound ==
  ASSUME RadarTyped, NEW day \in 0 .. today
  PROVE  RowsSound(Before(day))
<1>1. today \in 0 .. MaxDay /\ RadarNumbers
  BY RadarAssumed DEF RadarTyped
<1>2. CASE day - Lag < 0
  BY <1>2 DEF Before, RowsSound, Radar!NoRows
<1>3. CASE ~(day - Lag < 0)
  <2>1. day - Lag \in 0 .. MaxDay
    BY <1>1, <1>3 DEF RadarNumbers
  <2>2. RowsSound(table[day - Lag])
    BY <2>1 DEF RadarTyped
  <2> QED
    BY <1>3, <2>2 DEF Before
<1> QED
  BY <1>2, <1>3

\* The scan sees every peer of a holding.
LEMMA PeersAreLooked ==
  ASSUME NEW pf, NEW u, NEW b \in HeldOf(pf, u)
  PROVE  /\ Radar!PeerGroup(b, Looked(pf, u)) = Radar!PeerGroup(b, u)
         /\ Radar!PeerGroup(b, u) \subseteq Looked(pf, u) /\ b \in Looked(pf, u)
<1>1. Radar!PeerGroup(b, u) \subseteq Looked(pf, u) /\ b \in Looked(pf, u)
  BY DEF Looked
<1>2. Looked(pf, u) \subseteq u
  BY DEF Looked, HeldOf, Radar!PeerGroup
<1>3. Radar!PeerGroup(b, Looked(pf, u)) = Radar!PeerGroup(b, u)
  BY <1>1, <1>2 DEF Radar!PeerGroup
<1> QED
  BY <1>1, <1>3

LEMMA PeersHaveYields ==
  ASSUME NEW b, NEW u, IsMarket(u)
  PROVE  /\ Radar!PeerGroup(b, u) \subseteq u /\ IsFiniteSet(Radar!PeerGroup(b, u))
         /\ \A p \in Radar!PeerGroup(b, u) : p.ytm \in Int
<1>1. /\ Radar!PeerGroup(b, u) \subseteq u
      /\ \A p \in Radar!PeerGroup(b, u) : p.ytm # None
  BY DEF Radar!PeerGroup
<1> QED
  BY <1>1, FS_Subset DEF IsMarket, IsQuoted

\* What the yield of a bond rose net of the owner's tax, and what the rates made of its
\* rows, from the row past to the row cur.
RiseOf(cur, past) == Taxed(cur.ytm - past.ytm, OwnerTax)
OwedOf(cur, past) == Radar!Owed(cur) - Radar!Owed(past)

\* Between two rows of one bond the spread moved as its yield did, but for the rates.
LEMMA SpreadFollowsYield ==
  ASSUME RadarNumbers, NEW cur, RowSound(cur), NEW past, RowSound(past)
  PROVE  /\ cur.spread - past.spread \in Int
         /\ RiseOf(cur, past) \in Int /\ OwedOf(cur, past) \in Int
         /\ cur.spread - past.spread = RiseOf(cur, past) + OwedOf(cur, past)
<1>1. ASSUME NEW r, RowSound(r)
      PROVE  /\ Radar!Owed(r) = r.spread - Taxed(r.ytm, OwnerTax)
             /\ Radar!Owed(r) \in Int /\ r.spread \in Int
             /\ Taxed(r.ytm, OwnerTax) \in Int
  <2>1. /\ Radar!Owed(r) = Taxed(r.ytm, r.rates.tax) - Taxed(r.rates.key, r.rates.tax)
                             - Taxed(r.ytm, OwnerTax)
    BY DEF Radar!Owed, Radar!Net, Radar!Rates, Taxed
  <2>2. /\ r.ytm \in Int /\ r.rates.tax \in Int /\ r.rates.key \in Int /\ OwnerTax \in Int
        /\ r.spread = Taxed(r.ytm, r.rates.tax) - Taxed(r.rates.key, r.rates.tax)
    BY <1>1 DEF RowSound, IsRates, RadarNumbers
  <2>3. \A y, t \in Int : Taxed(y, t) \in Int
    BY DEF Taxed
  <2>4. PICK v \in Int, w \in Int, x \in Int :
          /\ v = Taxed(r.ytm, r.rates.tax) /\ w = Taxed(r.rates.key, r.rates.tax)
          /\ x = Taxed(r.ytm, OwnerTax)
    BY <2>2, <2>3
  <2>5. Radar!Owed(r) = v - w - x /\ r.spread = v - w
    BY <2>1, <2>2, <2>4
  <2> QED
    BY <2>4, <2>5
<1>2. PICK y \in Int, z \in Int, t \in Int : y = cur.ytm /\ z = past.ytm /\ t = 100 - OwnerTax
  BY DEF RowSound, RadarNumbers
<1>3. (y - z) * t = y * t - z * t /\ (y - z) * t \in Int
  OBVIOUS
<1>4. /\ RiseOf(cur, past) = Taxed(cur.ytm, OwnerTax) - Taxed(past.ytm, OwnerTax)
      /\ RiseOf(cur, past) \in Int
  BY <1>2, <1>3 DEF RiseOf, Taxed
<1>5. PICK a \in Int, b \in Int, c \in Int, d \in Int :
        /\ a = cur.spread /\ b = past.spread
        /\ c = Taxed(cur.ytm, OwnerTax) /\ d = Taxed(past.ytm, OwnerTax)
  BY <1>1
<1>6. Radar!Owed(cur) = a - c /\ Radar!Owed(past) = b - d
  BY <1>1, <1>5
<1>7. a - b = (c - d) + ((a - c) - (b - d)) /\ a - b \in Int /\ (a - c) - (b - d) \in Int
  OBVIOUS
<1> QED
  BY <1>4, <1>5, <1>6, <1>7 DEF OwedOf

\* A widening the scan raises, and the peers it was measured by.
WideningOf(b, u, pf, rows, bonds, cur, past, E) ==
  /\ IsMarket(u) /\ b \in HeldOf(pf, u)
  /\ RowsSound(rows) /\ RowsSound(cur) /\ bonds = Looked(pf, u)
  /\ PastIs(past, rows, Radar!Isins(bonds))
  /\ Widens(b, bonds, cur, past)
  /\ E = {p \in Radar!PeerGroup(b, u) : p.isin \in DOMAIN cur /\ p.isin \in DOMAIN past}

LEMMA WideningIsOfYields ==
  ASSUME RadarNumbers, NEW b, NEW u, NEW pf, NEW rows, NEW bonds, NEW cur, NEW past, NEW E,
         WideningOf(b, u, pf, rows, bonds, cur, past, E)
  PROVE  \E p \in E :
           RiseOf(cur[b.isin], past[b.isin])
               - Radar!Median([q \in E |-> RiseOf(cur[q.isin], past[q.isin])])
             >= Radar!NetPoints(5)
                  - (OwedOf(cur[b.isin], past[b.isin]) - OwedOf(cur[p.isin], past[p.isin]))
<1> DEFINE peers == Radar!PeerGroup(b, u)
           both == {i \in Radar!Isins(peers) : i \in DOMAIN cur /\ i \in DOMAIN past}
           changes == [i \in both |-> cur[i].spread - past[i].spread]
           change == cur[b.isin].spread - past[b.isin].spread
           rises == [q \in E |-> RiseOf(cur[q.isin], past[q.isin])]
           owed == [q \in E |-> OwedOf(cur[q.isin], past[q.isin])]
           h == [p \in E |-> p.isin]
<1> USE DEF WideningOf
<1>1. Radar!PeerGroup(b, bonds) = peers
  BY PeersAreLooked
<1>2. /\ b.isin \in DOMAIN cur /\ b.isin \in DOMAIN past
      /\ Radar!Cardinality(both) >= MinPeers
      /\ change - Radar!Median(changes) >= Radar!NetPoints(5)
  <2>1. Radar!Widening(b, peers, cur, past)
    BY <1>1 DEF Widens
  <2>2. b.isin \in DOMAIN cur /\ b.isin \in DOMAIN past /\ Radar!IsSpreadWidening(change, changes)
    BY <2>1 DEF Radar!Widening
  <2>3. DOMAIN changes = both
    OBVIOUS
  <2> HIDE DEF both, changes, change
  <2> QED
    BY <2>2, <2>3 DEF Radar!IsSpreadWidening
<1>3. RowsSound(past)
  BY DEF RowsSound, PastIs
<1>4. peers \subseteq u /\ IsFiniteSet(peers)
  BY PeersHaveYields
<1>5. ASSUME NEW i, i \in DOMAIN cur, i \in DOMAIN past
      PROVE  /\ cur[i].spread - past[i].spread \in Int
             /\ RiseOf(cur[i], past[i]) \in Int /\ OwedOf(cur[i], past[i]) \in Int
             /\ cur[i].spread - past[i].spread = RiseOf(cur[i], past[i]) + OwedOf(cur[i], past[i])
  <2>1. RowSound(cur[i]) /\ RowSound(past[i])
    BY <1>3, <1>5 DEF RowsSound
  <2> QED
    BY <2>1, SpreadFollowsYield
<1>7. E \subseteq peers /\ IsFiniteSet(E)
  BY <1>4, FS_Subset
<1>8. h \in Bijection(E, both)
  <2>1. ASSUME NEW p \in E PROVE p.isin \in both
    BY DEF Radar!Isins
  <2>2. ASSUME NEW i \in both PROVE \E p \in E : p.isin = i
    <3>1. PICK p \in peers : p.isin = i
      BY DEF Radar!Isins
    <3> QED
      BY <3>1
  <2>3. ASSUME NEW p \in E, NEW q \in E, p.isin = q.isin PROVE p = q
    BY <1>4, <1>7, <2>3 DEF IsMarket
  <2> HIDE DEF both
  <2>4. h \in [E -> both] /\ \A p \in E : h[p] = p.isin
    BY <2>1
  <2> HIDE DEF h
  <2> QED
    BY <2>2, <2>3, <2>4 DEF Bijection, Injection, IsInjective, Surjection
<1>9. IsFiniteSet(both) /\ Cardinality(both) = Cardinality(E)
  <2> HIDE DEF both, h
  <2> QED
    BY <1>7, <1>8, FS_Surjection DEF Bijection
<1>10. \A p \in E : /\ changes[h[p]] \in Int /\ rises[p] \in Int /\ owed[p] \in Int
                    /\ changes[h[p]] = rises[p] + owed[p]
  <2> SUFFICES ASSUME NEW p \in E
               PROVE  /\ changes[h[p]] \in Int /\ rises[p] \in Int /\ owed[p] \in Int
                      /\ changes[h[p]] = rises[p] + owed[p]
    OBVIOUS
  <2>1. h[p] = p.isin /\ p.isin \in both
    BY <1>8 DEF Bijection, Injection
  <2>2. /\ changes[p.isin] = cur[p.isin].spread - past[p.isin].spread
        /\ rises[p] = RiseOf(cur[p.isin], past[p.isin])
        /\ owed[p] = OwedOf(cur[p.isin], past[p.isin])
    BY <2>1
  <2>3. p.isin \in DOMAIN cur /\ p.isin \in DOMAIN past
    OBVIOUS
  <2> HIDE DEF changes, rises, owed, h, both
  <2> QED
    BY <1>5, <2>1, <2>2, <2>3
<1>11. /\ changes \in [both -> Int] /\ rises \in [E -> Int] /\ owed \in [E -> Int]
       /\ h \in Surjection(E, both)
  <2>1. h \in Surjection(E, both)
    BY <1>8 DEF Bijection
  <2>2. \A i \in both : \E p \in E : h[p] = i
    BY <2>1 DEF Surjection
  <2>3. \A i \in both : changes[i] \in Int
    BY <1>10, <2>2
  <2>4. /\ changes = [i \in both |-> changes[i]]
        /\ rises = [p \in E |-> rises[p]] /\ owed = [p \in E |-> owed[p]]
    OBVIOUS
  <2> HIDE DEF changes, both, rises, owed, h
  <2> QED
    BY <1>10, <2>1, <2>3, <2>4
<1>12. E # {}
  <2>1. Cardinality(E) \in Nat /\ Cardinality(E) >= MinPeers /\ MinPeers \in Nat \ {0}
    <3> HIDE DEF both
    <3> QED
      BY <1>2, <1>7, <1>9, RadarCardinality, FS_CardinalityType DEF RadarNumbers
  <2>2. ASSUME E = {} PROVE Cardinality(E) = 0
    BY ONLY <2>2, FS_EmptySet
  <2>3. ASSUME NEW k \in Nat \ {0}, NEW n \in Nat, n >= k PROVE n # 0
    BY <2>3
  <2>4. Cardinality(E) # 0
    BY <2>1, <2>3
  <2> QED
    BY <2>1, <2>2, <2>4
<1> HIDE DEF changes, both, h, rises, owed
<1>13. PICK p \in E : \A q \in E : owed[p] <= owed[q]
  <2>1. PICK S : S = {owed[q] : q \in E}
    OBVIOUS
  <2>2. S \subseteq Int /\ IsFiniteSet(S) /\ S # {}
    BY <1>7, <1>11, <1>12, <2>1, ImageIsFinite
  <2>3. PICK m \in S : \A x \in S : m <= x
    BY <2>2, LeastExists
  <2> QED
    BY <2>1, <2>3
<1>14. PICK c \in Int : c = -owed[p]
  BY <1>10
<1>15. Radar!Median(rises) <= Radar!Median(changes) + c
  <2>1. \A q \in E : rises[q] <= changes[h[q]] + c
    BY <1>10, <1>13, <1>14
  <2>2. Under(E, rises, both, changes, h, c)
    BY <1>7, <1>9, <1>11, <1>14, <2>1 DEF Under
  <2> QED
    BY <1>12, <2>2, MedianBound
<1>16. Radar!Median(rises) \in Int /\ Radar!Median(changes) \in Int
  BY <1>7, <1>9, <1>11, MedianIs
<1>17. /\ change \in Int /\ RiseOf(cur[b.isin], past[b.isin]) \in Int
       /\ OwedOf(cur[b.isin], past[b.isin]) \in Int
       /\ change = RiseOf(cur[b.isin], past[b.isin]) + OwedOf(cur[b.isin], past[b.isin])
  BY <1>2, <1>5
<1> HIDE DEF change
<1>18. PICK y \in Int, o \in Int, d \in Int, m \in Int, n \in Int :
         /\ y = RiseOf(cur[b.isin], past[b.isin]) /\ o = OwedOf(cur[b.isin], past[b.isin])
         /\ d = change /\ m = Radar!Median(rises) /\ n = Radar!Median(changes)
  BY <1>16, <1>17
<1>19. d - n >= 1000 /\ m <= n + c /\ d = y + o
  BY <1>2, <1>15, <1>17, <1>18 DEF Radar!Points, Radar!NetPoints
<1>20. PICK w \in Int : w = owed[p] /\ c = -w
  BY <1>10, <1>14
<1>21. y - m >= 1000 - (o - w)
  BY <1>19, <1>20
<1>22. owed[p] = OwedOf(cur[p.isin], past[p.isin])
  BY DEF owed
<1>23. Radar!NetPoints(5) = 1000
  BY DEF Radar!Points, Radar!NetPoints
<1> QED
  BY <1>18, <1>20, <1>21, <1>22, <1>23 DEF rises

\* What WideningIsReal says of a market and its rows of the two days.
AllWiden(u, cur, before) ==
  LET known == {b \in u : b.isin \in DOMAIN cur \cap DOMAIN before}
      rise(b) == Radar!Net(cur[b.isin].ytm - before[b.isin].ytm, Radar!Rates(OwnerTax))
      owed(b) == Radar!Owed(cur[b.isin]) - Radar!Owed(before[b.isin])
  IN \A b \in known :
       LET peers == Radar!PeerGroup(b, u) \cap known
       IN b.isin \in Radar!Raised("spread_widening") =>
            \E p \in peers :
              rise(b) - Radar!Median([q \in peers |-> rise(q)])
                >= Radar!NetPoints(5) - (owed(b) - owed(p))

\* For any taxes, key rates, lags and markets, and whatever writes and reads failed: what
\* the scan calls a widening is the bond's own, but for what the rates the rows were taken
\* by made of them (IsSpreadWidening, YTMNet).
THEOREM WideningsAreReal == Radar!Spec => []WideningIsReal
<1>1. RadarInv => WideningIsReal
  <2> SUFFICES ASSUME RadarInv, alerts # None PROVE WideningIsReal
    BY DEF WideningIsReal, Radar!WideningIsReal
  <2>1. PICK u, day, rows, pf, bonds : /\ u = alerts.universe /\ day = alerts.day
                                      /\ rows = Before(day) /\ pf = alerts.portfolio
                                      /\ bonds = Looked(pf, u)
    OBVIOUS
  <2>2. PICK cur, past : ScanIs(alerts, pf, rows, bonds, cur, past)
    BY <2>1 DEF RadarInv, ScanSound
  <2>3. IsMarket(u) /\ RadarNumbers /\ RowsSound(rows)
    <3>1. u \in Markets /\ day \in 0 .. today /\ RadarTyped
      BY <2>1 DEF RadarInv, ScanSound
    <3> QED
      BY <2>1, <3>1, RadarAssumed, BeforeIsSound
  <2>4. PICK before : before = Radar!Listed(day - Lag, Radar!Isins(u))
    OBVIOUS
  <2>5. /\ DOMAIN before = DOMAIN rows \cap Radar!Isins(u)
        /\ \A i \in DOMAIN before : before[i] = rows[i]
    <3>1. CASE day - Lag < 0
      BY <2>1, <2>4, <3>1 DEF Before, Radar!Listed, Radar!NoRows
    <3>2. CASE ~(day - Lag < 0)
      BY <2>1, <2>4, <3>2 DEF Before, Radar!Listed
    <3> QED
      BY <3>1, <3>2
  <2>6. PICK known : known = {b \in u : b.isin \in DOMAIN cur \cap DOMAIN before}
    OBVIOUS
  <2>7. ASSUME NEW b \in known, b.isin \in RaisedIn(alerts, "spread_widening")
        PROVE  \E p \in Radar!PeerGroup(b, u) \cap known :
                 RiseOf(cur[b.isin], before[b.isin])
                     - Radar!Median([q \in Radar!PeerGroup(b, u) \cap known |->
                                       RiseOf(cur[q.isin], before[q.isin])])
                   >= Radar!NetPoints(5)
                        - (OwedOf(cur[b.isin], before[b.isin])
                             - OwedOf(cur[p.isin], before[p.isin]))
    <3>1. PICK c \in HeldOf(pf, bonds) : Widens(c, bonds, cur, past) /\ c.isin = b.isin
      BY <2>2, <2>7 DEF ScanIs
    <3>2. HeldOf(pf, bonds) = HeldOf(pf, u)
      BY <2>1, <2>3, LookedIsMarket
    <3>3. b = c /\ b \in HeldOf(pf, u)
      BY <2>3, <2>6, <3>1, <3>2 DEF HeldOf, IsMarket
    <3>4. PICK E : E = {p \in Radar!PeerGroup(b, u) : p.isin \in DOMAIN cur /\ p.isin \in DOMAIN past}
      OBVIOUS
    <3>5. DOMAIN past = DOMAIN rows \cap Radar!Isins(bonds) /\ \A i \in DOMAIN past : past[i] = rows[i]
      BY <2>2, <3>1 DEF ScanIs, PastIs, Widens, Radar!Priced
    <3>6. /\ Radar!PeerGroup(b, u) \subseteq bonds /\ b \in bonds /\ bonds \subseteq u
      BY <2>1, <2>3, <3>3, PeersAreLooked, LookedIsMarket
    <3>7. \A p \in bonds : /\ p.isin \in DOMAIN past <=> p.isin \in DOMAIN before
                           /\ p.isin \in DOMAIN past => past[p.isin] = before[p.isin]
      BY <2>5, <3>5, <3>6 DEF Radar!Isins
    <3>8. E = Radar!PeerGroup(b, u) \cap known
      BY <2>6, <3>4, <3>6, <3>7
    <3>9. \E p \in E :
            RiseOf(cur[b.isin], past[b.isin])
                - Radar!Median([q \in E |-> RiseOf(cur[q.isin], past[q.isin])])
              >= Radar!NetPoints(5)
                   - (OwedOf(cur[b.isin], past[b.isin]) - OwedOf(cur[p.isin], past[p.isin]))
      <4>1. RowsSound(cur) /\ PastIs(past, rows, Radar!Isins(bonds))
        BY <2>2 DEF ScanIs
      <4>2. WideningOf(b, u, pf, rows, bonds, cur, past, E)
        BY <2>1, <2>3, <3>1, <3>3, <3>4, <4>1 DEF WideningOf
      <4> QED
        BY <2>3, <4>2, WideningIsOfYields
    <3>10. [q \in E |-> RiseOf(cur[q.isin], past[q.isin])]
             = [q \in E |-> RiseOf(cur[q.isin], before[q.isin])]
      BY <3>4, <3>6, <3>7
    <3>11. past[b.isin] = before[b.isin] /\ \A p \in E : past[p.isin] = before[p.isin]
      BY <2>6, <3>4, <3>6, <3>7
    <3> QED
      BY <3>8, <3>9, <3>10, <3>11
  <2>8. Radar!Raised("spread_widening") = RaisedIn(alerts, "spread_widening") /\ alerts.now = cur
    BY <2>2 DEF Radar!Raised, RaisedIn, ScanIs
  <2>9. /\ \A c, p : Radar!Net(c.ytm - p.ytm, Radar!Rates(OwnerTax)) = RiseOf(c, p)
        /\ \A c, p : Radar!Owed(c) - Radar!Owed(p) = OwedOf(c, p)
    BY DEF Radar!Net, Radar!Rates, RiseOf, OwedOf, Taxed
  <2>10. PICK Rise, Owe : /\ Rise = [b \in u |-> RiseOf(cur[b.isin], before[b.isin])]
                          /\ Owe = [b \in u |-> OwedOf(cur[b.isin], before[b.isin])]
    OBVIOUS
  <2>11. /\ \A b \in known : /\ Rise[b] = Radar!Net(cur[b.isin].ytm - before[b.isin].ytm,
                                                   Radar!Rates(OwnerTax))
                            /\ Owe[b] = Radar!Owed(cur[b.isin]) - Radar!Owed(before[b.isin])
         /\ known \subseteq u
    BY <2>6, <2>9, <2>10
  <2>12. ASSUME NEW b \in known, b.isin \in RaisedIn(alerts, "spread_widening")
         PROVE  \E p \in Radar!PeerGroup(b, u) \cap known :
                  Rise[b] - Radar!Median([q \in Radar!PeerGroup(b, u) \cap known |-> Rise[q]])
                    >= Radar!NetPoints(5) - (Owe[b] - Owe[p])
    <3>1. PICK p \in Radar!PeerGroup(b, u) \cap known :
            RiseOf(cur[b.isin], before[b.isin])
                - Radar!Median([q \in Radar!PeerGroup(b, u) \cap known |->
                                  RiseOf(cur[q.isin], before[q.isin])])
              >= Radar!NetPoints(5)
                   - (OwedOf(cur[b.isin], before[b.isin]) - OwedOf(cur[p.isin], before[p.isin]))
      BY <2>7, <2>12
    <3>2. [q \in Radar!PeerGroup(b, u) \cap known |-> RiseOf(cur[q.isin], before[q.isin])]
            = [q \in Radar!PeerGroup(b, u) \cap known |-> Rise[q]]
      BY <2>10, <2>11
    <3>3. /\ Rise[b] = RiseOf(cur[b.isin], before[b.isin])
          /\ Owe[b] = OwedOf(cur[b.isin], before[b.isin])
          /\ Owe[p] = OwedOf(cur[p.isin], before[p.isin])
      BY <2>10, <2>11
    <3> QED
      BY <3>1, <3>2, <3>3
  <2>13. ASSUME NEW b \in known
         PROVE  [q \in Radar!PeerGroup(b, u) \cap known |-> Rise[q]]
                  = [q \in Radar!PeerGroup(b, u) \cap known |->
                       Radar!Net(cur[q.isin].ytm - before[q.isin].ytm, Radar!Rates(OwnerTax))]
    BY <2>11
  <2>14. ASSUME NEW b \in known, b.isin \in Radar!Raised("spread_widening")
         PROVE  \E p \in Radar!PeerGroup(b, u) \cap known :
                  Radar!Net(cur[b.isin].ytm - before[b.isin].ytm, Radar!Rates(OwnerTax))
                      - Radar!Median([q \in Radar!PeerGroup(b, u) \cap known |->
                          Radar!Net(cur[q.isin].ytm - before[q.isin].ytm, Radar!Rates(OwnerTax))])
                    >= Radar!NetPoints(5)
                         - (Radar!Owed(cur[b.isin]) - Radar!Owed(before[b.isin])
                              - (Radar!Owed(cur[p.isin]) - Radar!Owed(before[p.isin])))
    BY <2>8, <2>11, <2>12, <2>13, <2>14
  <2>15. /\ alerts.universe = u /\ alerts.now = cur
         /\ Radar!Listed(alerts.day - Lag, Radar!Isins(alerts.universe)) = before
    BY <2>1, <2>4, <2>8
  <2>16. AllWiden(u, cur, before)
    BY <2>6, <2>14 DEF AllWiden
  <2>17. AllWiden(alerts.universe, alerts.now,
                  Radar!Listed(alerts.day - Lag, Radar!Isins(alerts.universe)))
    BY <2>15, <2>16
  <2> QED
    BY ONLY alerts # None, <2>17 DEF AllWiden, WideningIsReal, Radar!WideningIsReal
<1> QED
  BY <1>1, RadarInvariant, PTL

-----------------------------------------------------------------------------
(* The two readings of one market.                                         *)

\* Of the bonds with isins in Is both readings have the same price today and the same
\* row of the past, if any.
AreAlike(Is, cur, past, rows, before) ==
  \A i \in Is : /\ i \in DOMAIN cur /\ i \in DOMAIN rows /\ cur[i].price = rows[i].price
                /\ i \in DOMAIN past <=> i \in DOMAIN before
                /\ i \in DOMAIN past => past[i] = before[i]

LEMMA AlikeMoveAlike ==
  ASSUME NEW Is, NEW cur, NEW past, NEW rows, NEW before, AreAlike(Is, cur, past, rows, before),
         NEW i \in Is
  PROVE  /\ Radar!Priced(i, cur, past) <=> Radar!Priced(i, rows, before)
         /\ Radar!Priced(i, cur, past) => Radar!Change(i, cur, past) = Radar!Change(i, rows, before)
BY DEF AreAlike, Radar!Priced, Radar!Change

LEMMA SectorsMoveAlike ==
  ASSUME NEW b, NEW cur, NEW past, NEW rows, NEW before, NEW bonds, NEW liquid, NEW Is,
         AreAlike(Is, cur, past, rows, before),
         Radar!Isins(Radar!PeerGroup(b, bonds)) = Radar!Isins(Radar!PeerGroup(b, liquid)),
         Radar!Isins(Radar!PeerGroup(b, bonds)) \subseteq Is
  PROVE  Radar!SectorChange(b, bonds, cur, past) = Radar!SectorChange(b, liquid, rows, before)
<1>1. PICK P : P = Radar!Isins(Radar!PeerGroup(b, bonds))
  OBVIOUS
<1>2. PICK J : J = {j \in P : Radar!Priced(j, cur, past)}
  OBVIOUS
<1>3. J = {j \in P : Radar!Priced(j, rows, before)}
  BY <1>1, <1>2, AlikeMoveAlike
<1>4. \A j \in J : Radar!Change(j, cur, past) = Radar!Change(j, rows, before)
  BY <1>1, <1>2, AlikeMoveAlike
<1>5. Radar!Changes(P, cur, past) = [j \in J |-> Radar!Change(j, cur, past)]
  BY <1>2 DEF Radar!Changes
<1>6. Radar!Changes(P, rows, before) = [j \in J |-> Radar!Change(j, rows, before)]
  BY <1>3 DEF Radar!Changes
<1>7. Radar!Changes(P, cur, past) = Radar!Changes(P, rows, before)
  BY <1>4, <1>5, <1>6
<1> QED
  BY <1>1, <1>7 DEF Radar!SectorChange

\* The change of a sector is a number.
LEMMA SectorChangeIsNumber ==
  ASSUME RadarNumbers, NEW b, NEW u, IsMarket(u), NEW rows, RowsSound(rows), NEW past, RowsSound(past)
  PROVE  Radar!SectorChange(b, u, rows, past) \in Int
<1>1. PICK P : P = Radar!Isins(Radar!PeerGroup(b, u))
  OBVIOUS
<1>2. PICK J : J = {j \in P : Radar!Priced(j, rows, past)}
  OBVIOUS
<1>3. IsFiniteSet(J)
  <2>1. PICK G : G = Radar!PeerGroup(b, u)
    OBVIOUS
  <2>2. PICK f : f = [p \in G |-> p.isin]
    OBVIOUS
  <2>3. IsFiniteSet(G)
    BY <2>1, PeersHaveYields
  <2>4. P = {f[p] : p \in G}
    BY <1>1, <2>1, <2>2 DEF Radar!Isins
  <2>5. IsFiniteSet(P)
    BY <2>3, <2>4, ImageIsFinite
  <2> QED
    BY <1>2, <2>5, FS_Subset
<1>4. ASSUME NEW j \in J PROVE Radar!Change(j, rows, past) \in Int
  <2>1. /\ rows[j].price \in Int /\ past[j].price \in Int /\ past[j].price > 0
    BY <1>2 DEF Radar!Priced, RowsSound, RowSound
  <2>2. PICK x \in Int, y \in Int : x = rows[j].price /\ y = past[j].price /\ y > 0
    BY <2>1
  <2>3. PICK z \in Int : z = (x - y) * 200
    OBVIOUS
  <2>4. z \div y \in Int
    BY <2>2
  <2> QED
    BY <2>2, <2>3, <2>4 DEF Radar!Change, Radar!Points
<1>5. PICK f : f = [j \in J |-> Radar!Change(j, rows, past)]
  OBVIOUS
<1>6. f \in [J -> Int]
  BY <1>4, <1>5
<1>7. Radar!Changes(P, rows, past) = f
  BY <1>2, <1>5 DEF Radar!Changes
<1>8. Radar!Median(f) \in Int
  BY <1>3, <1>6, MedianIs
<1> QED
  BY <1>1, <1>7, <1>8 DEF Radar!SectorChange

\* A holding whose peers are all liquid, as both readings see it.
BothSee(b, u, pf, liquid, bonds, cur, past, before, was) ==
  /\ IsMarket(u) /\ liquid = Radar!FilterRadarUniverse(u) /\ bonds = Looked(pf, u)
  /\ b \in HeldOf(pf, u) /\ b \in liquid /\ Radar!PeerGroup(b, u) \subseteq liquid
  /\ RowsSound(was)
  /\ \A p \in Radar!PeerGroup(b, u) \cup {b} :
       p.isin \in DOMAIN cur /\ cur[p.isin].price = p.price
  /\ PastIs(past, was, Radar!Isins(bonds)) /\ PastIs(before, was, Radar!Isins(liquid))
  /\ \A i \in Radar!Isins(Radar!PeerGroup(b, u)) \cup {b.isin} :
       i \in DOMAIN past <=> i \in DOMAIN before

\* It is a dip of the radar where the market's side of a turbo entry holds.
LEMMA DipIsEntry ==
  ASSUME RadarNumbers, NEW b, NEW u, NEW pf, NEW liquid, NEW bonds, NEW cur, NEW past, NEW before,
         NEW was, BothSee(b, u, pf, liquid, bonds, cur, past, before, was),
         NEW rates, IsRates(rates),
         NEW rows, rows = Radar!Written(Radar!NoRows, liquid, rates, {})
  PROVE  Enters(pf, b, bonds, cur, past)
           <=> /\ b \in Radar!Dips(liquid, rows, before)
               /\ pf.turbo /\ b.fits
               /\ pf.baselines[b.isin] # None /\ ~Radar!Escalates(b, pf.baselines)
<1> USE DEF BothSee
<1>1. PICK P : P = Radar!PeerGroup(b, u)
  OBVIOUS
<1>2. PICK Is : Is = Radar!Isins(P) \cup {b.isin}
  OBVIOUS
<1>3. /\ liquid \subseteq u /\ IsMarket(liquid) /\ b.sector # None
      /\ \A p \in liquid : p.ytm # None
  BY LiquidIsMarket
<1>4. /\ Radar!PeerGroup(b, bonds) = P /\ P \subseteq bonds /\ b \in bonds
  BY <1>1, PeersAreLooked
<1>5. P \subseteq liquid /\ Radar!PeerGroup(b, liquid) = P
  <2>1. P \subseteq liquid
    BY <1>1
  <2> QED
    BY <1>1, <1>3, <2>1 DEF Radar!PeerGroup
<1>6. Holds(rows, liquid, rates, {}) /\ RowsSound(rows)
  <2>1. RowsSound(Radar!NoRows)
    BY DEF RowsSound, Radar!NoRows
  <2> QED
    BY <1>3, <2>1, WrittenHolds
<1>7. ASSUME NEW p \in P \cup {b}
      PROVE  /\ p.isin \in DOMAIN cur /\ p.isin \in DOMAIN rows
             /\ cur[p.isin].price = rows[p.isin].price
  <2>1. p \in liquid /\ p.ytm # None
    BY <1>3, <1>5
  <2>2. p.isin \in DOMAIN rows /\ rows[p.isin] = RowOf(p, rates)
    BY <1>6, <2>1 DEF Holds
  <2>3. p.isin \in DOMAIN cur /\ cur[p.isin].price = p.price
    BY <1>1
  <2> QED
    BY <2>2, <2>3 DEF RowOf
<1>8. AreAlike(Is, cur, past, rows, before)
  <2> SUFFICES ASSUME NEW i \in Is
               PROVE  /\ i \in DOMAIN cur /\ i \in DOMAIN rows /\ cur[i].price = rows[i].price
                      /\ i \in DOMAIN past <=> i \in DOMAIN before
                      /\ i \in DOMAIN past => past[i] = before[i]
    BY DEF AreAlike
  <2>1. PICK p \in P \cup {b} : i = p.isin
    BY <1>2 DEF Radar!Isins
  <2>2. i \in DOMAIN past <=> i \in DOMAIN before
    BY <1>1, <1>2
  <2>3. i \in DOMAIN past => past[i] = before[i]
    BY <2>2 DEF PastIs
  <2> QED
    BY <1>7, <2>1, <2>2, <2>3
<1>9. /\ Radar!Priced(b.isin, cur, past) <=> Radar!Priced(b.isin, rows, before)
      /\ Radar!Priced(b.isin, cur, past) =>
           Radar!Change(b.isin, cur, past) = Radar!Change(b.isin, rows, before)
  <2>1. b.isin \in Is
    BY <1>2
  <2> QED
    BY <1>8, <2>1, AlikeMoveAlike
<1>10. Radar!SectorChange(b, bonds, cur, past) = Radar!SectorChange(b, liquid, rows, before)
  <2>1. Radar!Isins(Radar!PeerGroup(b, bonds)) = Radar!Isins(Radar!PeerGroup(b, liquid))
    BY <1>4, <1>5
  <2>2. Radar!Isins(Radar!PeerGroup(b, bonds)) \subseteq Is
    BY <1>2, <1>4
  <2> QED
    BY <1>8, <2>1, <2>2, SectorsMoveAlike
<1>11. RowsSound(before)
  BY DEF RowsSound, PastIs
<1>12. PICK s \in Int : s = Radar!SectorChange(b, liquid, rows, before)
  BY <1>3, <1>6, <1>11, SectorChangeIsNumber
<1>13. PICK d : d = Radar!Change(b.isin, rows, before)
  OBVIOUS
<1>14. s < -Radar!Points(15) => Radar!BuildAttribution(d, s) # "idiosyncratic_drop"
  <2>1. s < -30 => ~(Radar!Abs(s) < 6)
    BY <1>12 DEF Radar!Abs
  <2> QED
    BY <2>1 DEF Radar!BuildAttribution, Radar!Points
<1>15. Radar!IsDip(d, s) <=> s < -Radar!Points(15) /\ d < s - Radar!Points(5)
  BY <1>14 DEF Radar!IsDip
<1>16. b \in Radar!Dips(liquid, rows, before)
         <=> Radar!Priced(b.isin, rows, before) /\ Radar!IsDip(d, s)
  BY <1>12, <1>13 DEF Radar!Dips
<1>17. Enters(pf, b, bonds, cur, past)
         <=> /\ Radar!Priced(b.isin, rows, before) /\ pf.turbo /\ b.fits
             /\ s < -Radar!Points(15) /\ d < s - Radar!Points(5)
             /\ pf.baselines[b.isin] # None /\ ~Radar!Escalates(b, pf.baselines)
  BY <1>3, <1>9, <1>10, <1>12, <1>13 DEF Enters
<1> QED
  BY <1>15, <1>16, <1>17

\* A dip that is not kept has given way to as many as the radar keeps.
LEMMA KeptIsFull ==
  ASSUME RadarNumbers, NEW liquid, IsMarket(liquid), NEW rows, NEW past,
         NEW kept \in Radar!DipIdeas(liquid, rows, past, MaxDips),
         NEW b \in Radar!Dips(liquid, rows, past), b \notin kept
  PROVE  Cardinality(Radar!Isins(kept)) = MaxDips
<1>1. PICK D : D = Radar!Dips(liquid, rows, past)
  OBVIOUS
<1>2. D \subseteq liquid /\ kept \subseteq D /\ IsFiniteSet(D) /\ IsFiniteSet(kept)
  <2>1. D \subseteq liquid /\ kept \subseteq D
    BY <1>1 DEF Radar!Dips, Radar!DipIdeas
  <2>2. IsFiniteSet(D)
    BY <2>1, FS_Subset DEF IsMarket
  <2> QED
    BY <2>1, <2>2, FS_Subset
<1>3. /\ Cardinality(D) <= MaxDips => kept = D
      /\ Cardinality(D) > MaxDips => Cardinality(kept) = MaxDips
  BY <1>1, RadarCardinality DEF Radar!DipIdeas
<1>4. Cardinality(D) \in Nat /\ MaxDips \in Nat
  BY <1>2, FS_CardinalityType DEF RadarNumbers
<1>5. Cardinality(kept) = MaxDips
  BY <1>1, <1>3, <1>4
<1>6. PICK h : h = [c \in kept |-> c.isin]
  OBVIOUS
<1>7. h \in Surjection(kept, Radar!Isins(kept)) /\ h \in Injection(kept, Radar!Isins(kept))
  <2>1. Radar!Isins(kept) = {c.isin : c \in kept}
    BY DEF Radar!Isins
  <2>2. \A c, e \in kept : c.isin = e.isin => c = e
    BY <1>2 DEF IsMarket
  <2> QED
    BY <1>6, <2>1, <2>2 DEF Surjection, Injection, IsInjective
<1> QED
  BY <1>2, <1>5, <1>7, FS_Surjection

\* For any taxes, key rates, lags, limits and markets the scan and the radar say the same
\* of a holding, but where one of them lost a row (turboEntryCandidates, RankDipIdeas).
THEOREM ReadingsNeverDiffer == Radar!Spec => []ReadingsAgree
<1>1. RadarInv => ReadingsAgree
  <2> SUFFICES ASSUME RadarInv, Radar!SameReading PROVE ReadingsAgree
    BY DEF ReadingsAgree, Radar!ReadingsAgree
  <2>1. PICK u, day, was, pf, bonds, liquid :
          /\ u = run.universe /\ u = alerts.universe /\ day = alerts.day /\ day = run.day
          /\ was = Before(day) /\ pf = alerts.portfolio /\ bonds = Looked(pf, u)
          /\ liquid = Radar!FilterRadarUniverse(u)
    BY DEF Radar!SameReading
  <2>2. alerts # None /\ run # None
    BY DEF Radar!SameReading
  <2>3. PICK cur, past : ScanIs(alerts, pf, was, bonds, cur, past)
    BY <2>1, <2>2 DEF RadarInv, ScanSound
  <2>4. PICK before, kept : RunIs(run, was, liquid, before, kept)
    BY <2>1, <2>2 DEF RadarInv, RunSound
  <2>5. /\ IsMarket(u) /\ RadarNumbers /\ RowsSound(was)
        /\ \A b \in HeldOf(pf, u) : pf.baselines[b.isin] # None
    <3>1. /\ u \in Markets /\ day \in 0 .. today /\ RadarTyped
          /\ \A b \in HeldOf(pf, u) : pf.baselines[b.isin] # None
      BY <2>1, <2>2 DEF RadarInv, ScanSound
    <3> QED
      BY <2>1, <3>1, RadarAssumed, BeforeIsSound
  <2>6. liquid \subseteq u /\ IsMarket(liquid)
    BY <2>1, <2>5, LiquidIsMarket
  <2>7. PICK rates, rows : /\ IsRates(rates) /\ rows = Radar!Written(Radar!NoRows, liquid, rates, {})
                           /\ kept \in Radar!DipIdeas(liquid, rows, before, MaxDips)
    BY <2>4 DEF RunIs
  <2>8. /\ run.past = DOMAIN before /\ run.radar.dips = Radar!Isins(kept)
        /\ alerts.past = DOMAIN past /\ alerts.now = cur
    BY <2>3, <2>4 DEF ScanIs, RunIs
  <2>9. PICK ideas : ideas = Radar!GetRadar({}).dips
    OBVIOUS
  <2>10. ideas = Radar!Isins(kept)
    BY <2>2, <2>8, <2>9 DEF Radar!GetRadar
  <2>11. Radar!Raised("turbo_entry") = {b.isin : b \in {c \in HeldOf(pf, bonds) : Enters(pf, c, bonds, cur, past)}}
    BY <2>3 DEF ScanIs, Radar!Raised, RaisedIn
  <2>12. HeldOf(pf, bonds) = HeldOf(pf, u)
    BY <2>1, <2>5, LookedIsMarket
  <2>13. ASSUME NEW b \in HeldOf(pf, liquid), Radar!PeerGroup(b, u) \subseteq liquid,
                \A i \in Radar!Isins(Radar!PeerGroup(b, u)) \cup {b.isin} :
                  i \in DOMAIN past <=> i \in DOMAIN before,
                \A p \in Radar!PeerGroup(b, u) \cup {b} :
                  p.isin \in DOMAIN cur /\ cur[p.isin].price = p.price
         PROVE  /\ b.isin \in Radar!Raised("turbo_entry") =>
                     b.isin \in ideas \/ Radar!Cardinality(ideas) = MaxDips
                /\ (/\ b.isin \in ideas /\ pf.turbo /\ b.fits
                    /\ ~Radar!Escalates(b, pf.baselines)) => b.isin \in Radar!Raised("turbo_entry")
    <3>1. b \in HeldOf(pf, u) /\ b \in liquid
      BY <2>6 DEF HeldOf
    <3>2. BothSee(b, u, pf, liquid, bonds, cur, past, before, was)
      BY <2>1, <2>3, <2>4, <2>5, <2>13, <3>1 DEF BothSee, ScanIs, RunIs
    <3>3. Enters(pf, b, bonds, cur, past)
            <=> /\ b \in Radar!Dips(liquid, rows, before)
                /\ pf.turbo /\ b.fits
                /\ pf.baselines[b.isin] # None /\ ~Radar!Escalates(b, pf.baselines)
      BY <2>5, <2>7, <3>2, DipIsEntry
    <3>4. b.isin \in Radar!Raised("turbo_entry") <=> Enters(pf, b, bonds, cur, past)
      <4>1. \A c \in HeldOf(pf, u) : c.isin = b.isin => c = b
        BY <2>5, <3>1 DEF HeldOf, IsMarket
      <4> QED
        BY <2>11, <2>12, <3>1, <4>1
    <3>5. b.isin \in ideas <=> b \in kept
      <4>1. kept \subseteq u
        BY <2>6, <2>7 DEF Radar!DipIdeas, Radar!Dips
      <4>2. \A c \in u : c.isin = b.isin => c = b
        BY <2>5, <3>1 DEF HeldOf, IsMarket
      <4> QED
        BY <2>10, <4>1, <4>2 DEF Radar!Isins
    <3>6. kept \subseteq Radar!Dips(liquid, rows, before)
      BY <2>7 DEF Radar!DipIdeas
    <3>7. CASE b \in kept
      BY <2>5, <3>1, <3>3, <3>4, <3>5, <3>6, <3>7
    <3>8. CASE b \notin kept
      <4>1. b \in Radar!Dips(liquid, rows, before) => Cardinality(ideas) = MaxDips
        BY <2>5, <2>6, <2>7, <2>10, <3>8, KeptIsFull
      <4> QED
        BY <3>3, <3>4, <3>5, <3>8, <4>1, RadarCardinality
    <3> QED
      BY <3>7, <3>8
  <2>14. ASSUME NEW b \in liquid, pf.lots[b.isin] > 0, Radar!PeerGroup(b, u) \subseteq liquid,
                NEW seen, seen = Radar!PeerGroup(b, liquid) \cup {b},
                Radar!Isins(seen) \cap alerts.past = Radar!Isins(seen) \cap run.past,
                \A p \in seen : p.isin \in DOMAIN alerts.now /\ alerts.now[p.isin].price = p.price
         PROVE  /\ b \in HeldOf(pf, liquid)
                /\ \A i \in Radar!Isins(Radar!PeerGroup(b, u)) \cup {b.isin} :
                     i \in DOMAIN past <=> i \in DOMAIN before
                /\ \A p \in Radar!PeerGroup(b, u) \cup {b} :
                     p.isin \in DOMAIN cur /\ cur[p.isin].price = p.price
    <3>1. b \in HeldOf(pf, liquid)
      BY <2>14 DEF HeldOf
    <3>2. Radar!PeerGroup(b, liquid) = Radar!PeerGroup(b, u)
      BY <2>6, <2>14 DEF Radar!PeerGroup
    <3>3. seen = Radar!PeerGroup(b, u) \cup {b}
      BY <2>14, <3>2
    <3>4. Radar!Isins(seen) = Radar!Isins(Radar!PeerGroup(b, u)) \cup {b.isin}
      BY <3>3 DEF Radar!Isins
    <3> QED
      BY <2>8, <2>14, <3>1, <3>3, <3>4
  <2> QED
    BY <2>1, <2>9, <2>13, <2>14 DEF ReadingsAgree, Radar!ReadingsAgree
<1> QED
  BY <1>1, RadarInvariant, PTL
=============================================================================
