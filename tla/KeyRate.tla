------------------------------ MODULE KeyRate ------------------------------
(***************************************************************************)
(* KeyRateService: the central bank's key rate, cached in each process     *)
(* (API and notifier) and in two rows of the settings table that the       *)
(* processes share and that are read and written one row at a time.        *)
(*                                                                         *)
(* A rate is the number of its publication; 0 is the configured fallback.  *)
(***************************************************************************)
EXTENDS Naturals

CONSTANTS
  Procs,      \* processes with a KeyRateService of their own
  RateTTL,    \* DefaultKeyRateTTL
  MaxRate,    \* bound on publications
  MaxTime,    \* bound on the clock
  MaxFaults,  \* bound on failing fetches and settings queries
  Idle, None

VARIABLES
  now,
  cbr,        \* the rate in force
  until,      \* when each earlier rate was replaced
  setting,    \* [rate, at]: the rows key_rate and key_rate_fetched_at
  mem,        \* per process: [rate, at, has], guarded by the service's mutex
  frame,      \* per process: the call of Current that holds the mutex
  answer,     \* per process: the last rate returned, when, and how it came
  told,       \* per process: the rate OnChange last announced
  faults,
  damaged     \* a settings query failed, or rate and time were read torn

vars == <<now, cbr, until, setting, mem, frame, answer, told, faults, damaged>>

Fallback == 0
Rates == 0 .. MaxRate

\* A call is where it is, the effective rate when it began, whether it loads a second
\* time after a failed fetch, and the pair its first query saw.
Calls == [step : {"rate", "time", "fetch", "saveRate", "saveTime"}, prev : Rates,
          again : BOOLEAN, seen : (Rates \cup {None}) \X (Nat \cup {None})]

Answers == [rate : Rates, at : Nat, how : {"fetched", "failed"}]

Init ==
  /\ now = 0 /\ cbr = 1
  /\ until = [r \in Rates |-> None]
  /\ setting = [rate |-> None, at |-> None]
  /\ mem = [p \in Procs |-> [rate |-> Fallback, at |-> None, has |-> FALSE]]
  /\ frame = [p \in Procs |-> Idle]
  /\ answer = [p \in Procs |-> None]
  /\ told = [p \in Procs |-> Fallback]
  /\ faults = 0 /\ damaged = FALSE

-----------------------------------------------------------------------------
Fresh(at) == at # None /\ now - at < RateTTL

Call(ok) == IF ok THEN faults' = faults
            ELSE faults < MaxFaults /\ faults' = faults + 1

Effective(p) == IF mem[p].has THEN mem[p].rate ELSE Fallback

\* Returning releases the mutex.  how = "failed": the fetch of this call failed.
Return(p, rate, how) ==
  /\ answer' = [answer EXCEPT ![p] = [rate |-> rate, at |-> now, how |-> how]]
  /\ frame' = [frame EXCEPT ![p] = Idle]

\* mutant: a rate taken from the settings is not announced
AnnounceFetched(p, rate) ==
  told' = IF frame[p].prev # rate /\ frame[p].step = "saveTime"
          THEN [told EXCEPT ![p] = rate] ELSE told

\* notifyChange: OnChange drops the bonds scored with the previous rate.
Notify(p, rate) ==
  told' = IF frame[p].prev # rate THEN [told EXCEPT ![p] = rate] ELSE told

Goto(p, step) == frame' = [frame EXCEPT ![p].step = step] /\ UNCHANGED <<answer, told>>

How(p) == IF frame[p].again THEN "failed" ELSE "fetched"

\* Current, fast path under the read lock, or the wait for the write lock.
CurrentBegin(p) ==
  /\ frame[p] = Idle
  /\ IF mem[p].has /\ Fresh(mem[p].at)
     THEN Return(p, mem[p].rate, "fetched")
     ELSE /\ frame' = [frame EXCEPT ![p] =
                         [step |-> "rate", prev |-> Effective(p), again |-> FALSE,
                          seen |-> <<None, None>>]]
          /\ UNCHANGED answer
  /\ UNCHANGED <<now, cbr, until, setting, mem, told, faults, damaged>>

\* No usable rate in the settings: fetch, or the fallback after a failed fetch.
NotLoaded(p) ==
  IF frame[p].again
  THEN /\ mem' = [mem EXCEPT ![p] = [rate |-> Fallback, at |-> now, has |-> TRUE]]
       /\ Return(p, Fallback, "failed")
       /\ Notify(p, Fallback)
  ELSE Goto(p, "fetch") /\ UNCHANGED mem

\* loadPersistedLocked, first query: the stored rate replaces the cached one.
LoadRate(p) ==
  /\ frame[p] # Idle /\ frame[p].step = "rate"
  /\ \E ok \in BOOLEAN :
       /\ Call(ok)
       /\ damaged' = (damaged \/ ~ok)
       /\ IF ok /\ setting.rate # None
          THEN /\ mem' = [mem EXCEPT ![p].rate = setting.rate, ![p].has = TRUE]
               /\ frame' = [frame EXCEPT ![p].step = "time",
                                         ![p].seen = <<setting.rate, setting.at>>]
               /\ UNCHANGED <<answer, told>>
          ELSE NotLoaded(p)
  /\ UNCHANGED <<now, cbr, until, setting>>

\* Second query; a missing time leaves the old one, and no time at all is now.
\* The pair is torn when the other process wrote between the two queries.
LoadTime(p) ==
  /\ frame[p] # Idle /\ frame[p].step = "time"
  /\ \E ok \in BOOLEAN :
       LET stored == IF ok THEN setting.at ELSE None
           at == IF stored # None THEN stored
                 ELSE IF mem[p].at # None THEN mem[p].at ELSE now
       IN /\ Call(ok)
          /\ damaged' = (damaged \/ ~ok \/ stored = None
                          \/ frame[p].seen # <<setting.rate, setting.at>>)
          /\ mem' = [mem EXCEPT ![p].at = at]
          /\ IF frame[p].again \/ Fresh(at)
             THEN Return(p, mem[p].rate, How(p)) /\ Notify(p, mem[p].rate)
             ELSE Goto(p, "fetch")
  /\ UNCHANGED <<now, cbr, until, setting>>

\* mutant: a failed fetch gives the cached rate another TTL
Prolonged(m) == [m EXCEPT !.at = now]

AfterFailure(m) == m

\* FetchLatestKeyRate.  After a failure any cached rate is returned, however old,
\* also one this call loaded and nobody was told of; its time is left alone.
\* Without a cached rate the settings are tried again.
Fetch(p) ==
  /\ frame[p] # Idle /\ frame[p].step = "fetch"
  /\ \/ /\ Call(TRUE)
        /\ mem' = [mem EXCEPT ![p] = [rate |-> cbr, at |-> now, has |-> TRUE]]
        /\ Goto(p, "saveRate")
     \/ /\ Call(FALSE) /\ mem[p].has
        /\ Return(p, mem[p].rate, "failed")
        /\ mem' = [mem EXCEPT ![p] = AfterFailure(@)]
        /\ UNCHANGED told
     \/ /\ Call(FALSE) /\ ~mem[p].has
        /\ frame' = [frame EXCEPT ![p].step = "rate", ![p].again = TRUE]
        /\ UNCHANGED <<mem, answer, told>>
  /\ UNCHANGED <<now, cbr, until, setting, damaged>>

\* persistLocked: two writes whose errors are dropped.
SaveRate(p) ==
  /\ frame[p] # Idle /\ frame[p].step = "saveRate"
  /\ \E ok \in BOOLEAN :
       /\ Call(ok)
       /\ damaged' = (damaged \/ ~ok)
       /\ setting' = IF ok THEN [setting EXCEPT !.rate = mem[p].rate] ELSE setting
  /\ Goto(p, "saveTime")
  /\ UNCHANGED <<now, cbr, until, mem>>

SaveTime(p) ==
  /\ frame[p] # Idle /\ frame[p].step = "saveTime"
  /\ \E ok \in BOOLEAN :
       /\ Call(ok)
       /\ damaged' = (damaged \/ ~ok \/ setting.rate # mem[p].rate)
       /\ setting' = IF ok THEN [setting EXCEPT !.at = mem[p].at] ELSE setting
  /\ Return(p, mem[p].rate, "fetched")
  /\ Notify(p, mem[p].rate)
  /\ UNCHANGED <<now, cbr, until, mem>>

\* A process restarts: its memory is lost, the settings stay.
Restart(p) ==
  /\ mem' = [mem EXCEPT ![p] = [rate |-> Fallback, at |-> None, has |-> FALSE]]
  /\ frame' = [frame EXCEPT ![p] = Idle]
  /\ answer' = [answer EXCEPT ![p] = None]
  /\ told' = [told EXCEPT ![p] = Fallback]
  /\ damaged' = (damaged \/ (frame[p] # Idle /\ frame[p].step = "saveTime"))
  /\ UNCHANGED <<now, cbr, until, setting, faults>>

Publish ==
  /\ cbr < MaxRate
  /\ cbr' = cbr + 1
  /\ until' = [until EXCEPT ![cbr] = now]
  /\ UNCHANGED <<now, setting, mem, frame, answer, told, faults, damaged>>

\* Calls are short against the clock (20 s against a day): none spans a tick.
Tick ==
  /\ now < MaxTime
  /\ \A p \in Procs : frame[p] = Idle
  /\ now' = now + 1
  /\ UNCHANGED <<cbr, until, setting, mem, frame, answer, told, faults, damaged>>

Next ==
  \/ \E p \in Procs : \/ CurrentBegin(p) \/ LoadRate(p) \/ LoadTime(p) \/ Fetch(p)
                      \/ SaveRate(p) \/ SaveTime(p) \/ Restart(p)
  \/ Publish \/ Tick

Spec == Init /\ [][Next]_vars

-----------------------------------------------------------------------------
\* A rate that Current returns was in force less than a TTL ago, through memory,
\* settings, the other process and restarts, unless the fetch of this very call
\* failed or the settings have been damaged (a failed query, a torn pair).  The
\* fallback is served, for a whole TTL, only after a fetch that failed.
RateIsRecent ==
  damaged \/
  \A p \in Procs :
    LET a == answer[p] IN
    a # None /\ a.how # "failed" =>
      CASE a.rate = Fallback -> faults > 0
        [] a.rate = cbr      -> TRUE
        [] OTHER             -> until[a.rate] # None /\ a.at - until[a.rate] < RateTTL

\* Whoever caches bonds scored with the key rate has been told of every change:
\* the rate in memory is the one OnChange last announced, unless a call failed
\* (a stored rate that replaces the cached one before the fetch fails is served
\* and never announced).
ChangesAreTold ==
  \A p \in Procs : frame[p] = Idle /\ faults = 0 => told[p] = Effective(p)
=============================================================================
