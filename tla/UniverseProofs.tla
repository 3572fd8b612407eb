--------------------------- MODULE UniverseProofs ---------------------------
(***************************************************************************)
(* What holds of the bond universe for any number of goroutines, any times *)
(* to live and any number of loads, failures, refreshes and clears.        *)
(*                                                                         *)
(* A load carries data from the file into memory, and other loads rename   *)
(* the file and requests clear both meanwhile, so the invariant says of    *)
(* every load in flight how old its data can be, that no completed refresh *)
(* or clear is newer unless the load is marked late, and that it still has *)
(* the offers of the file unless the file has changed.                     *)
(***************************************************************************)
EXTENDS BondUniverse, TLAPS

UniverseTypeOK ==
  /\ now \in Times
  /\ ram \in Entry \cup {None} /\ file \in File \cup {None} /\ tmp \subseteq Threads
  /\ brokerRam \in Fetched \cup {None} /\ brokerFile \in Times \cup {None}
  /\ flags \in [data : Times \cup {None}, local : Times \cup {None}]
  /\ ratings \in Refreshes /\ refreshed \in Refreshes /\ cleared \in Times
  /\ job \in [Threads -> Job \cup {Idle}]
  /\ admin \in Admin \cup {Idle}

Loaded == {"open", "rename", "broker", "flags", "ratings", "put"}

\* A load is no longer than the clients' timeouts, its data no older than the file
\* can be, and newer than every clear unless it, or the file, is marked.
GoodJob(j) ==
  /\ j.began <= now /\ now - j.began <= MaxLoad
  /\ j.step \in Loaded =>
       /\ j.data \in Times /\ j.data <= now
       /\ j.began - j.data < DiskTTL + MaxLoad
       /\ j.late \/ j.carried \/ j.data >= cleared
  /\ j.step \in {"open", "rename"} => j.began <= j.data /\ (j.late \/ j.data >= cleared)
  /\ j.step = "put" => j.late \/ j.ratings >= refreshed
  /\ j.step \in {"fetch", "open", "rename"} /\ StaleOffers(file) => j.overlap \/ j.offers
  /\ admin # Idle => j.late

Good(t) == job[t] # Idle => GoodJob(job[t])

\* The file was written by a load that had fetched its data.
FileInv ==
  file # None =>
    /\ file.data <= file.at /\ file.at <= now /\ file.at - file.data <= MaxLoad
    /\ file.late \/ file.data >= cleared

\* Whoever has the shared temporary file open is about to rename it.
TmpInv == \A t \in tmp : At(t, "rename")

RamInv ==
  /\ ram # None =>
       /\ ram.at - ram.data < DiskTTL + 2 * MaxLoad
       /\ ram.late \/ (ram.ratings >= refreshed /\ (ram.carried \/ ram.data >= cleared))
  /\ admin # Idle /\ admin.op = "clear" => ram = None \/ ram.late

BrokerInv ==
  /\ brokerFile # None => brokerFile <= now
  /\ brokerRam # None => /\ brokerRam.data <= brokerRam.at /\ brokerRam.at <= now
                         /\ brokerRam.at - brokerRam.data < BrokerTTL

FlagsInv ==
  /\ flags.data # None => flags.data <= now
  /\ flags.local # None => flags.data # None /\ flags.local <= flags.data

RequestInv ==
  /\ cleared <= now /\ refreshed <= ratings
  /\ admin # Idle => IF admin.op = "refresh" THEN admin.ratings <= ratings ELSE admin.at <= now

UniverseInv ==
  /\ UniverseTypeOK
  /\ \A t \in Threads : Good(t)
  /\ FileInv /\ TmpInv /\ RamInv /\ BrokerInv /\ FlagsInv /\ RequestInv

-----------------------------------------------------------------------------

LEMMA UniverseInit == Init => UniverseInv
<1> SUFFICES ASSUME Init PROVE UniverseInv
  OBVIOUS
<1> USE UniverseAssumption DEF Init
<1>1. 0 \in Times /\ 0 \in Refreshes
  BY DEF Times, Refreshes
<1>2. UniverseTypeOK
  BY <1>1 DEF UniverseTypeOK
<1>3. ASSUME NEW t \in Threads PROVE Good(t)
  BY DEF Good
<1>4. FileInv /\ TmpInv /\ RamInv /\ FlagsInv
  BY DEF FileInv, TmpInv, RamInv, FlagsInv
<1>5. BrokerInv /\ RequestInv
  BY <1>1 DEF BrokerInv, RequestInv, Times, Refreshes
<1> QED
  BY <1>2, <1>3, <1>4, <1>5 DEF UniverseInv

\* One load moves.
LEMMA JobMoves ==
  ASSUME UniverseTypeOK, NEW t \in Threads, NEW j \in Job \cup {Idle},
         job' = [job EXCEPT ![t] = j]
  PROVE  /\ job' \in [Threads -> Job \cup {Idle}] /\ job'[t] = j
         /\ \A u \in Threads \ {t} : job'[u] = job[u]
BY DEF UniverseTypeOK

LEMMA GotoMoves ==
  ASSUME UniverseTypeOK, NEW t \in Threads, job[t] \in Job,
         NEW step \in Loaded, Goto(t, step)
  PROVE  /\ job' \in [Threads -> Job \cup {Idle}]
         /\ job'[t] = [job[t] EXCEPT !.step = step] /\ job'[t] \in Job
         /\ \A u \in Threads \ {t} : job'[u] = job[u]
<1> DEFINE j == [job[t] EXCEPT !.step = step]
<1>1. j \in Job
  BY DEF Job, Loaded
<1>2. job' = [job EXCEPT ![t] = j]
  BY DEF Goto
<1> HIDE DEF j
<1>3. /\ job' \in [Threads -> Job \cup {Idle}] /\ job'[t] = j
      /\ \A u \in Threads \ {t} : job'[u] = job[u]
  BY <1>1, <1>2, JobMoves
<1> QED
  BY <1>1, <1>3 DEF j

\* What the steps of a load leave alone.
LEMMA LoadStep ==
  ASSUME UniverseInv, NEW t \in Threads,
         UNCHANGED <<now, file, ratings, admin, refreshed, cleared>>,
         job' \in [Threads -> Job \cup {Idle}],
         \A u \in Threads \ {t} : job'[u] = job[u],
         ram' \in Entry \cup {None}, tmp' \subseteq Threads,
         brokerRam' \in Fetched \cup {None}, brokerFile' \in Times \cup {None},
         flags' \in [data : Times \cup {None}, local : Times \cup {None}],
         Good(t)', TmpInv', RamInv', BrokerInv', FlagsInv'
  PROVE  UniverseInv'
<1>1. UniverseTypeOK'
  BY DEF UniverseInv, UniverseTypeOK, Times, Refreshes, Entry, File, Job, Admin, Fetched
<1>2. ASSUME NEW u \in Threads PROVE Good(u)'
  <2>1. CASE u = t
    BY <2>1
  <2>2. CASE u # t
    <3>1. job'[u] = job[u] /\ Good(u)
      BY <2>2 DEF UniverseInv
    <3> QED
      BY <3>1 DEF Good, GoodJob, StaleOffers
  <2> QED
    BY <2>1, <2>2
<1>3. FileInv' /\ RequestInv'
  BY DEF UniverseInv, FileInv, RequestInv
<1> QED
  BY <1>1, <1>2, <1>3 DEF UniverseInv

\* The caches when a step leaves them alone.
LEMMA CachesStay ==
  ASSUME UniverseInv, UNCHANGED <<now, admin, refreshed, cleared>>
  PROVE  /\ ram' = ram => RamInv' /\ ram' \in Entry \cup {None}
         /\ UNCHANGED <<brokerRam, brokerFile>> =>
              /\ BrokerInv' /\ brokerRam' \in Fetched \cup {None}
              /\ brokerFile' \in Times \cup {None}
         /\ flags' = flags =>
              /\ FlagsInv'
              /\ flags' \in [data : Times \cup {None}, local : Times \cup {None}]
<1>1. ram' = ram => RamInv' /\ ram' \in Entry \cup {None}
  BY DEF UniverseInv, UniverseTypeOK, RamInv
<1>2. UNCHANGED <<brokerRam, brokerFile>> =>
        /\ BrokerInv' /\ brokerRam' \in Fetched \cup {None}
        /\ brokerFile' \in Times \cup {None}
  BY DEF UniverseInv, UniverseTypeOK, BrokerInv
<1>3. flags' = flags =>
        /\ FlagsInv'
        /\ flags' \in [data : Times \cup {None}, local : Times \cup {None}]
  BY DEF UniverseInv, UniverseTypeOK, FlagsInv
<1> QED
  BY <1>1, <1>2, <1>3

LEMMA TmpStays ==
  ASSUME UniverseInv, NEW t \in Threads, ~At(t, "rename"), tmp' = tmp,
         \A u \in Threads \ {t} : job'[u] = job[u]
  PROVE  tmp' \subseteq Threads /\ TmpInv'
BY DEF UniverseInv, UniverseTypeOK, TmpInv, At

\* What is known of a load that is at a step.
LEMMA AtStep ==
  ASSUME UniverseInv, NEW t \in Threads, NEW step, At(t, step)
  PROVE  /\ UniverseTypeOK /\ job[t] \in Job /\ job[t] # Idle /\ job[t].step = step
         /\ GoodJob(job[t])
         /\ \A other \in {"rename"} \ {step} : ~At(t, other)
BY DEF UniverseInv, UniverseTypeOK, At, Good

-----------------------------------------------------------------------------
(* The steps of a load. *)

LEMMA BeginLoadKeeps ==
  ASSUME UniverseInv, NEW t \in Threads, NEW loadAll \in BOOLEAN, BeginLoad(t, loadAll)
  PROVE  UniverseInv'
<1> USE UniverseAssumption
<1> DEFINE j == [step |-> "disk", universe |-> loadAll, began |-> now, data |-> None,
                 offers |-> FALSE, ratings |-> 0, overlap |-> FALSE, late |-> admin # Idle,
                 carried |-> FALSE]
<1>1. /\ UNCHANGED <<now, file, ratings, admin, refreshed, cleared>>
      /\ UNCHANGED <<now, admin, refreshed, cleared>>
      /\ UNCHANGED <<brokerRam, brokerFile>> /\ ram' = ram /\ flags' = flags /\ tmp' = tmp
      /\ job[t] = Idle /\ job' = [job EXCEPT ![t] = j] /\ UniverseTypeOK
  BY DEF BeginLoad, UniverseInv
<1>2. j \in Job
  BY <1>1 DEF Job, UniverseTypeOK, Times, Refreshes
<1>3. /\ j.step = "disk" /\ j.began = now
      /\ admin # Idle => j.late
  OBVIOUS
<1> HIDE DEF j
<1>4. /\ job' \in [Threads -> Job \cup {Idle}] /\ job'[t] = j
      /\ \A u \in Threads \ {t} : job'[u] = job[u]
  BY <1>1, <1>2, JobMoves
<1>5. Good(t)'
  <2>1. now \in Nat /\ MaxLoad \in Nat
    BY <1>1 DEF UniverseTypeOK, Times
  <2> QED
    BY <1>1, <1>3, <1>4, <2>1 DEF Good, GoodJob, Loaded
<1>6. tmp' \subseteq Threads /\ TmpInv'
  BY <1>1, <1>4, TmpStays DEF At
<1> QED
  BY <1>1, <1>4, <1>5, <1>6, LoadStep, CachesStay

LEMMA ReadFileKeeps ==
  ASSUME UniverseInv, NEW t \in Threads, ReadFile(t)
  PROVE  UniverseInv'
<1> USE UniverseAssumption
<1>1. /\ UNCHANGED <<now, file, ratings, admin, refreshed, cleared>>
      /\ UNCHANGED <<now, admin, refreshed, cleared>>
      /\ UNCHANGED <<brokerRam, brokerFile>> /\ ram' = ram /\ flags' = flags /\ tmp' = tmp
      /\ At(t, "disk")
  BY DEF ReadFile
<1>2. /\ UniverseTypeOK /\ job[t] \in Job /\ job[t] # Idle /\ job[t].step = "disk"
      /\ GoodJob(job[t]) /\ ~At(t, "rename")
  BY <1>1, AtStep
<1>3. CASE Usable(file)
  <2> DEFINE j == [job[t] EXCEPT !.step = "broker", !.data = file.data,
                                 !.offers = file.offers, !.carried = file.late]
  <2>1. /\ file # None /\ file \in File /\ now - file.at < DiskTTL
        /\ file.data <= file.at /\ file.at <= now /\ file.at - file.data <= MaxLoad
        /\ file.late \/ file.data >= cleared
    BY <1>2, <1>3 DEF Usable, Fresh, UniverseTypeOK, UniverseInv, FileInv
  <2>2. /\ j \in Job /\ j.step = "broker" /\ j.data = file.data /\ j.carried = file.late
        /\ j.began = job[t].began /\ j.late = job[t].late
    BY <1>2, <2>1 DEF Job, File
  <2>3. job' = [job EXCEPT ![t] = j]
    BY <1>3 DEF ReadFile
  <2> HIDE DEF j
  <2>4. /\ job' \in [Threads -> Job \cup {Idle}] /\ job'[t] = j
        /\ \A u \in Threads \ {t} : job'[u] = job[u]
    BY <1>2, <2>2, <2>3, JobMoves
  <2>5. Good(t)'
    <3>1. /\ now \in Nat /\ job[t].began \in Nat /\ file.data \in Times /\ file.data \in Nat
          /\ file.at \in Nat /\ DiskTTL \in Nat /\ MaxLoad \in Nat
      BY <1>2, <2>1 DEF UniverseTypeOK, Times, Job, File
    <3>2. j.began - j.data < DiskTTL + MaxLoad /\ j.data <= now
      BY <1>2, <2>1, <2>2, <3>1 DEF GoodJob
    <3> QED
      BY <1>1, <1>2, <2>1, <2>2, <2>4, <3>1, <3>2 DEF Good, GoodJob, Times
  <2>6. tmp' \subseteq Threads /\ TmpInv'
    BY <1>1, <1>2, <2>4, TmpStays
  <2> QED
    BY <1>1, <2>4, <2>5, <2>6, LoadStep, CachesStay
<1>4. CASE ~Usable(file)
  <2> DEFINE j == [job[t] EXCEPT !.step = "fetch", !.offers = StaleOffers(file)]
  <2>1. StaleOffers(file) \in BOOLEAN
    BY DEF StaleOffers
  <2>2. /\ j \in Job /\ j.step = "fetch" /\ j.offers = StaleOffers(file)
        /\ j.began = job[t].began /\ j.late = job[t].late
    BY <1>2, <2>1 DEF Job
  <2>3. job' = [job EXCEPT ![t] = j]
    BY <1>4 DEF ReadFile
  <2> HIDE DEF j
  <2>4. /\ job' \in [Threads -> Job \cup {Idle}] /\ job'[t] = j
        /\ \A u \in Threads \ {t} : job'[u] = job[u]
    BY <1>2, <2>2, <2>3, JobMoves
  <2>5. Good(t)'
    BY <1>1, <1>2, <2>2, <2>4 DEF Good, GoodJob, Loaded, StaleOffers
  <2>6. tmp' \subseteq Threads /\ TmpInv'
    BY <1>1, <1>2, <2>4, TmpStays
  <2> QED
    BY <1>1, <2>4, <2>5, <2>6, LoadStep, CachesStay
<1> QED
  BY <1>3, <1>4

LEMMA FetchBondsKeeps ==
  ASSUME UniverseInv, NEW t \in Threads, FetchBonds(t)
  PROVE  UniverseInv'
<1> USE UniverseAssumption
<1>1. /\ UNCHANGED <<now, file, ratings, admin, refreshed, cleared>>
      /\ UNCHANGED <<now, admin, refreshed, cleared>>
      /\ UNCHANGED <<brokerRam, brokerFile>> /\ ram' = ram /\ flags' = flags /\ tmp' = tmp
      /\ At(t, "fetch")
  BY DEF FetchBonds
<1>2. /\ UniverseTypeOK /\ job[t] \in Job /\ job[t] # Idle /\ job[t].step = "fetch"
      /\ GoodJob(job[t]) /\ ~At(t, "rename")
  BY <1>1, AtStep
<1>3. ASSUME NEW j \in Job, job' = [job EXCEPT ![t] = j], j.step = "open", j.data = now,
             j.began = job[t].began, j.late = job[t].late, j.overlap = job[t].overlap,
             j.offers = TRUE \/ j.offers = job[t].offers
      PROVE  UniverseInv'
  <2>1. /\ job' \in [Threads -> Job \cup {Idle}] /\ job'[t] = j
        /\ \A u \in Threads \ {t} : job'[u] = job[u]
    BY <1>2, <1>3, JobMoves
  <2>2. /\ now \in Nat /\ now \in Times /\ j.began \in Nat /\ j.began <= now /\ cleared <= now
        /\ now - j.began <= MaxLoad /\ MaxLoad \in Nat /\ DiskTTL \in Nat \ {0}
    BY <1>2, <1>3 DEF UniverseTypeOK, UniverseInv, RequestInv, Times, Job, GoodJob
  <2>3. /\ j.step \in {"fetch", "open", "rename"} /\ StaleOffers(file) => j.overlap \/ j.offers
        /\ admin # Idle => j.late
    BY <1>2, <1>3 DEF GoodJob
  <2>4. Good(t)'
    BY <1>1, <1>3, <2>1, <2>2, <2>3 DEF Good, GoodJob, Loaded, StaleOffers
  <2>5. tmp' \subseteq Threads /\ TmpInv'
    BY <1>1, <1>2, <2>1, TmpStays
  <2> QED
    BY <1>1, <2>1, <2>4, <2>5, LoadStep, CachesStay
<1>4. CASE job' = [job EXCEPT ![t].step = "open", ![t].data = now, ![t].offers = TRUE]
  <2> DEFINE j == [job[t] EXCEPT !.step = "open", !.data = now, !.offers = TRUE]
  <2>1. /\ j \in Job /\ j.step = "open" /\ j.data = now /\ j.began = job[t].began
        /\ j.late = job[t].late /\ j.overlap = job[t].overlap /\ j.offers = TRUE
    BY <1>2 DEF Job, UniverseTypeOK
  <2>2. job' = [job EXCEPT ![t] = j]
    BY <1>4
  <2> HIDE DEF j
  <2> QED
    BY <1>3, <2>1, <2>2
<1>5. CASE job' = [job EXCEPT ![t].step = "open", ![t].data = now]
  <2> DEFINE j == [job[t] EXCEPT !.step = "open", !.data = now]
  <2>1. /\ j \in Job /\ j.step = "open" /\ j.data = now /\ j.began = job[t].began
        /\ j.late = job[t].late /\ j.overlap = job[t].overlap /\ j.offers = job[t].offers
    BY <1>2 DEF Job, UniverseTypeOK
  <2>2. job' = [job EXCEPT ![t] = j]
    BY <1>5
  <2> HIDE DEF j
  <2> QED
    BY <1>3, <2>1, <2>2
<1>6. CASE Finish(t)
  <2>1. /\ job' \in [Threads -> Job \cup {Idle}] /\ job'[t] = Idle
        /\ \A u \in Threads \ {t} : job'[u] = job[u]
    BY <1>2, <1>6, JobMoves DEF Finish
  <2>2. Good(t)'
    BY <2>1 DEF Good
  <2>3. tmp' \subseteq Threads /\ TmpInv'
    BY <1>1, <1>2, <2>1, TmpStays
  <2> QED
    BY <1>1, <2>1, <2>2, <2>3, LoadStep, CachesStay
<1> QED
  BY <1>4, <1>5, <1>6 DEF FetchBonds

LEMMA OpenTmpKeeps ==
  ASSUME UniverseInv, NEW t \in Threads, OpenTmp(t)
  PROVE  UniverseInv'
<1> USE UniverseAssumption
<1>1. /\ UNCHANGED <<now, file, ratings, admin, refreshed, cleared>>
      /\ UNCHANGED <<now, admin, refreshed, cleared>>
      /\ UNCHANGED <<brokerRam, brokerFile>> /\ ram' = ram /\ flags' = flags
      /\ At(t, "open")
  BY DEF OpenTmp
<1>2. /\ UniverseTypeOK /\ job[t] \in Job /\ job[t] # Idle /\ job[t].step = "open"
      /\ GoodJob(job[t]) /\ ~At(t, "rename")
  BY <1>1, AtStep
<1>3. CASE tmp' = tmp \cup {t} /\ Goto(t, "rename")
  <2>1. /\ job' \in [Threads -> Job \cup {Idle}]
        /\ job'[t] = [job[t] EXCEPT !.step = "rename"] /\ job'[t] \in Job
        /\ \A u \in Threads \ {t} : job'[u] = job[u]
    BY <1>2, <1>3, GotoMoves DEF Loaded
  <2> DEFINE j == [job[t] EXCEPT !.step = "rename"]
  <2>2. /\ j.step = "rename" /\ j.data = job[t].data /\ j.began = job[t].began
        /\ j.late = job[t].late /\ j.overlap = job[t].overlap /\ j.offers = job[t].offers
        /\ j.carried = job[t].carried
    BY <1>2 DEF Job
  <2>3. job'[t] = j
    BY <2>1
  <2> HIDE DEF j
  <2>4. Good(t)'
    BY <1>1, <1>2, <2>2, <2>3 DEF Good, GoodJob, Loaded, StaleOffers
  <2>5. At(t, "rename")'
    BY <2>1, <2>2, <2>3, UniverseAssumption DEF At
  <2>6. tmp' \subseteq Threads /\ TmpInv'
    <3>1. tmp' = tmp \cup {t} /\ tmp \subseteq Threads
      BY <1>2, <1>3 DEF UniverseTypeOK
    <3>2. \A u \in tmp : At(u, "rename")
      BY DEF UniverseInv, TmpInv
    <3>3. ASSUME NEW u \in tmp, u # t PROVE At(u, "rename")'
      <4>1. job'[u] = job[u]
        BY <2>1, <3>1, <3>3
      <4> QED
        BY <3>2, <3>3, <4>1 DEF At
    <3>4. \A u \in tmp' : At(u, "rename")'
      BY <2>5, <3>1, <3>3
    <3> QED
      BY <3>1, <3>4 DEF TmpInv
  <2> QED
    BY <1>1, <2>1, <2>4, <2>6, LoadStep, CachesStay
<1>4. CASE Finish(t) /\ UNCHANGED tmp
  <2>1. /\ job' \in [Threads -> Job \cup {Idle}] /\ job'[t] = Idle
        /\ \A u \in Threads \ {t} : job'[u] = job[u]
    BY <1>2, <1>4, JobMoves DEF Finish
  <2>2. Good(t)'
    BY <2>1 DEF Good
  <2>3. tmp' \subseteq Threads /\ TmpInv'
    BY <1>2, <1>4, <2>1, TmpStays
  <2> QED
    BY <1>1, <2>1, <2>2, <2>3, LoadStep, CachesStay
<1> QED
  BY <1>3, <1>4 DEF OpenTmp

\* A load goes on to a step that changes nothing of it.
LEMMA GotoKeeps ==
  ASSUME UniverseInv, NEW t \in Threads, NEW step \in {"flags", "ratings"},
         At(t, "broker") \/ At(t, "flags"), Goto(t, step),
         UNCHANGED <<now, file, ratings, admin, refreshed, cleared>>, tmp' = tmp
  PROVE  /\ job' \in [Threads -> Job \cup {Idle}]
         /\ \A u \in Threads \ {t} : job'[u] = job[u]
         /\ Good(t)' /\ tmp' \subseteq Threads /\ TmpInv'
<1> USE UniverseAssumption
<1>1. /\ UniverseTypeOK /\ job[t] \in Job /\ job[t] # Idle
      /\ job[t].step \in {"broker", "flags"} /\ GoodJob(job[t]) /\ ~At(t, "rename")
  BY AtStep
<1> DEFINE j == [job[t] EXCEPT !.step = step]
<1>2. /\ job' \in [Threads -> Job \cup {Idle}] /\ job'[t] = j
      /\ \A u \in Threads \ {t} : job'[u] = job[u]
  BY <1>1, GotoMoves DEF Loaded
<1>3. /\ j.step = step /\ j.data = job[t].data /\ j.began = job[t].began
      /\ j.late = job[t].late /\ j.carried = job[t].carried
  BY <1>1 DEF Job
<1> HIDE DEF j
<1>4. Good(t)'
  BY <1>1, <1>2, <1>3 DEF Good, GoodJob, Loaded
<1>5. tmp' \subseteq Threads /\ TmpInv'
  BY <1>1, <1>2, TmpStays
<1> QED
  BY <1>2, <1>4, <1>5

\* A copy read from disk is younger than a BrokerTTL when it counts as new in memory.
LEMMA EnrichBrokerKeeps ==
  ASSUME UniverseInv, NEW t \in Threads, EnrichBroker(t)
  PROVE  UniverseInv'
<1> USE UniverseAssumption
<1>1. /\ UNCHANGED <<now, file, ratings, admin, refreshed, cleared>>
      /\ UNCHANGED <<now, admin, refreshed, cleared>>
      /\ ram' = ram /\ flags' = flags /\ tmp' = tmp
      /\ At(t, "broker") /\ Goto(t, "flags") /\ UniverseTypeOK /\ BrokerInv
  BY DEF EnrichBroker, UniverseInv
<1>2. /\ job' \in [Threads -> Job \cup {Idle}]
      /\ \A u \in Threads \ {t} : job'[u] = job[u]
      /\ Good(t)' /\ tmp' \subseteq Threads /\ TmpInv'
  BY <1>1, GotoKeeps
<1>3. now \in Times /\ now \in Nat /\ now # None /\ BrokerTTL \in Nat \ {0}
  BY <1>1 DEF UniverseTypeOK, Times
<1>4. BrokerInv' /\ brokerRam' \in Fetched \cup {None} /\ brokerFile' \in Times \cup {None}
  <2>1. CASE UNCHANGED <<brokerRam, brokerFile>>
    BY <1>1, <2>1, CachesStay
  <2>2. CASE /\ Fresh(brokerFile, BrokerTTL) /\ brokerRam' = [data |-> brokerFile, at |-> now]
             /\ UNCHANGED brokerFile
    <3>1. brokerFile \in Times /\ brokerFile \in Nat /\ now - brokerFile < BrokerTTL
      BY <1>1, <2>2 DEF Fresh, UniverseTypeOK, Times
    <3>2. brokerRam' \in Fetched
      BY <1>3, <2>2, <3>1 DEF Fetched
    <3>3. brokerRam'.data = brokerFile /\ brokerRam'.at = now
      BY <2>2
    <3>4. BrokerInv'
      BY <1>1, <1>3, <2>2, <3>1, <3>3 DEF BrokerInv
    <3> QED
      BY <1>1, <2>2, <3>2, <3>4 DEF UniverseTypeOK
  <2>3. CASE brokerRam' = [data |-> now, at |-> now] /\ brokerFile' = now
    <3>1. brokerRam' \in Fetched
      BY <1>3, <2>3 DEF Fetched
    <3>2. brokerRam'.data = now /\ brokerRam'.at = now
      BY <2>3
    <3>3. BrokerInv'
      BY <1>1, <1>3, <2>3, <3>2 DEF BrokerInv
    <3> QED
      BY <1>3, <2>3, <3>1, <3>3
  <2> QED
    BY <2>1, <2>2, <2>3 DEF EnrichBroker
<1> QED
  BY <1>1, <1>2, <1>4, LoadStep, CachesStay

\* refreshAt is the table's time or an older one.
LEMMA RefreshFlagsKeeps ==
  ASSUME UniverseInv, NEW t \in Threads, RefreshFlags(t)
  PROVE  UniverseInv'
<1> USE UniverseAssumption
<1>1. /\ UNCHANGED <<now, file, ratings, admin, refreshed, cleared>>
      /\ UNCHANGED <<now, admin, refreshed, cleared>>
      /\ UNCHANGED <<brokerRam, brokerFile>> /\ ram' = ram /\ tmp' = tmp
      /\ At(t, "flags") /\ Goto(t, "ratings") /\ UniverseTypeOK /\ FlagsInv
  BY DEF RefreshFlags, UniverseInv
<1>2. /\ job' \in [Threads -> Job \cup {Idle}]
      /\ \A u \in Threads \ {t} : job'[u] = job[u]
      /\ Good(t)' /\ tmp' \subseteq Threads /\ TmpInv'
  BY <1>1, GotoKeeps
<1>3. now \in Times /\ now \in Nat /\ now # None
  BY <1>1 DEF UniverseTypeOK, Times
<1>4. FlagsInv' /\ flags' \in [data : Times \cup {None}, local : Times \cup {None}]
  <2>1. CASE flags' = [data |-> now, local |-> now]
    BY <1>1, <1>3, <2>1 DEF FlagsInv
  <2>2. CASE flags.data # None /\ flags' = [flags EXCEPT !.local = flags.data]
    <3>1. /\ flags' \in [data : Times \cup {None}, local : Times \cup {None}]
          /\ flags'.data = flags.data /\ flags'.local = flags.data /\ flags.data \in Nat
      BY <1>1, <2>2 DEF UniverseTypeOK, Times
    <3> QED
      BY <1>1, <2>2, <3>1 DEF FlagsInv
  <2>3. CASE flags' = flags
    BY <1>1, <2>3, CachesStay
  <2> QED
    BY <2>1, <2>2, <2>3 DEF RefreshFlags
<1> QED
  BY <1>1, <1>2, <1>4, LoadStep, CachesStay

LEMMA ApplyRatingsKeeps ==
  ASSUME UniverseInv, NEW t \in Threads, ApplyRatings(t)
  PROVE  UniverseInv'
<1> USE UniverseAssumption
<1>1. /\ UNCHANGED <<now, file, ratings, admin, refreshed, cleared>>
      /\ UNCHANGED <<now, admin, refreshed, cleared>>
      /\ UNCHANGED <<brokerRam, brokerFile>> /\ ram' = ram /\ flags' = flags /\ tmp' = tmp
      /\ At(t, "ratings")
  BY DEF ApplyRatings
<1>2. /\ UniverseTypeOK /\ job[t] \in Job /\ job[t] # Idle /\ job[t].step = "ratings"
      /\ GoodJob(job[t]) /\ ~At(t, "rename")
  BY <1>1, AtStep
<1>3. CASE job' = [job EXCEPT ![t].step = "put", ![t].ratings = ratings]
  <2> DEFINE j == [job[t] EXCEPT !.step = "put", !.ratings = ratings]
  <2>1. /\ j \in Job /\ j.step = "put" /\ j.ratings = ratings /\ j.data = job[t].data
        /\ j.began = job[t].began /\ j.late = job[t].late /\ j.carried = job[t].carried
    BY <1>2 DEF Job, UniverseTypeOK
  <2>2. job' = [job EXCEPT ![t] = j]
    BY <1>3
  <2> HIDE DEF j
  <2>3. /\ job' \in [Threads -> Job \cup {Idle}] /\ job'[t] = j
        /\ \A u \in Threads \ {t} : job'[u] = job[u]
    BY <1>2, <2>1, <2>2, JobMoves
  <2>4. ratings >= refreshed
    BY <1>2 DEF UniverseInv, RequestInv, UniverseTypeOK, Refreshes
  <2>5. Good(t)'
    BY <1>1, <1>2, <2>1, <2>3, <2>4 DEF Good, GoodJob, Loaded
  <2>6. tmp' \subseteq Threads /\ TmpInv'
    BY <1>1, <1>2, <2>3, TmpStays
  <2> QED
    BY <1>1, <2>3, <2>5, <2>6, LoadStep, CachesStay
<1>4. CASE Finish(t)
  <2>1. /\ job' \in [Threads -> Job \cup {Idle}] /\ job'[t] = Idle
        /\ \A u \in Threads \ {t} : job'[u] = job[u]
    BY <1>2, <1>4, JobMoves DEF Finish
  <2>2. Good(t)'
    BY <2>1 DEF Good
  <2>3. tmp' \subseteq Threads /\ TmpInv'
    BY <1>1, <1>2, <2>1, TmpStays
  <2> QED
    BY <1>1, <2>1, <2>2, <2>3, LoadStep, CachesStay
<1> QED
  BY <1>3, <1>4 DEF ApplyRatings

LEMMA PutKeeps ==
  ASSUME UniverseInv, NEW t \in Threads, Put(t)
  PROVE  UniverseInv'
<1> USE UniverseAssumption
<1>1. /\ UNCHANGED <<now, file, ratings, admin, refreshed, cleared>>
      /\ UNCHANGED <<now, admin, refreshed, cleared>>
      /\ UNCHANGED <<brokerRam, brokerFile>> /\ flags' = flags /\ tmp' = tmp
      /\ At(t, "put") /\ Finish(t)
  BY DEF Put
<1>2. /\ UniverseTypeOK /\ job[t] \in Job /\ job[t] # Idle /\ job[t].step = "put"
      /\ GoodJob(job[t]) /\ ~At(t, "rename")
  BY <1>1, AtStep
<1>3. /\ job' \in [Threads -> Job \cup {Idle}] /\ job'[t] = Idle
      /\ \A u \in Threads \ {t} : job'[u] = job[u]
  BY <1>1, <1>2, JobMoves DEF Finish
<1>4. Good(t)'
  BY <1>3 DEF Good
<1>5. tmp' \subseteq Threads /\ TmpInv'
  BY <1>1, <1>2, <1>3, TmpStays
<1>6. /\ now \in Times /\ now \in Nat /\ job[t].began \in Nat /\ job[t].data \in Times
      /\ job[t].data \in Nat /\ DiskTTL \in Nat /\ MaxLoad \in Nat
      /\ job[t].began <= now /\ now - job[t].began <= MaxLoad
      /\ job[t].began - job[t].data < DiskTTL + MaxLoad
      /\ job[t].late \/ job[t].carried \/ job[t].data >= cleared
      /\ job[t].late \/ job[t].ratings >= refreshed
      /\ admin # Idle => job[t].late
      /\ job[t].late \in BOOLEAN /\ job[t].carried \in BOOLEAN
      /\ job[t].ratings \in Refreshes
  BY <1>2 DEF UniverseTypeOK, Times, Job, GoodJob, Loaded
<1>7. /\ ram' = [data |-> job[t].data, ratings |-> job[t].ratings, at |-> now,
                 late |-> job[t].late, carried |-> job[t].carried]
  BY DEF Put
<1>8. ram' \in Entry
  BY <1>6, <1>7 DEF Entry
<1>9. RamInv'
  <2>1. now - job[t].data < DiskTTL + 2 * MaxLoad
    BY <1>6
  <2>2. /\ ram'.at = now /\ ram'.data = job[t].data /\ ram'.late = job[t].late
        /\ ram'.carried = job[t].carried /\ ram'.ratings = job[t].ratings
    BY <1>7
  <2> QED
    BY <1>1, <1>6, <2>1, <2>2 DEF RamInv
<1> QED
  BY <1>1, <1>3, <1>4, <1>5, <1>8, <1>9, LoadStep, CachesStay

\* What a set of writers leaves: a bundle of one of them, or a mixture.
LEMMA WrittenIsSound ==
  ASSUME UniverseInv, NEW writers \in SUBSET Threads, \A u \in writers : At(u, "rename"),
         NEW f \in Written(writers)
  PROVE  /\ f \in File /\ f.data <= f.at /\ f.at = now /\ f.at - f.data <= MaxLoad
         /\ f.late \/ f.data >= cleared
         /\ f.readable => \E u \in writers : f.offers = job[u].offers
<1> USE UniverseAssumption
<1>1. now \in Times /\ now \in Nat /\ cleared \in Nat /\ MaxLoad \in Nat
  BY DEF UniverseInv, UniverseTypeOK, Times
<1>2. ASSUME NEW u \in writers,
             f = [data |-> job[u].data, offers |-> job[u].offers, at |-> now,
                  readable |-> TRUE, late |-> job[u].late]
      PROVE  /\ f \in File /\ f.data <= f.at /\ f.at = now /\ f.at - f.data <= MaxLoad
             /\ f.late \/ f.data >= cleared
             /\ f.offers = job[u].offers
  <2>1. job[u] \in Job /\ job[u].step = "rename" /\ GoodJob(job[u])
    BY <1>2, AtStep
  <2>2. /\ job[u].data \in Times /\ job[u].data \in Nat /\ job[u].began \in Nat
        /\ job[u].began <= job[u].data /\ job[u].data <= now
        /\ now - job[u].began <= MaxLoad
        /\ job[u].late \/ job[u].data >= cleared
        /\ job[u].late \in BOOLEAN /\ job[u].offers \in BOOLEAN
    BY <2>1 DEF GoodJob, Loaded, Job, Times
  <2>3. now - job[u].data <= MaxLoad
    BY <1>1, <2>2
  <2>4. f \in File
    BY <1>1, <1>2, <2>2 DEF File
  <2>5. f.data = job[u].data /\ f.at = now /\ f.late = job[u].late /\ f.offers = job[u].offers
    BY <1>2
  <2> QED
    BY <2>2, <2>3, <2>4, <2>5
<1>3. CASE f = [data |-> now, offers |-> FALSE, at |-> now, readable |-> FALSE, late |-> TRUE]
  BY <1>1, <1>3 DEF File
<1> QED
  BY <1>2, <1>3 DEF Written

\* The bundle published is a writer's, or what the file was.
LEMMA RenamePublishes ==
  ASSUME UniverseInv, NEW t \in Threads, RenameTmp(t)
  PROVE  \/ /\ file' # None /\ file' \in File
            /\ file'.data <= file'.at /\ file'.at = now /\ file'.at - file'.data <= MaxLoad
            /\ file'.late \/ file'.data >= cleared
            /\ file'.readable => \E u \in Threads : /\ At(u, "rename")
                                                    /\ file'.offers = job[u].offers
         \/ file # None /\ file' = [file EXCEPT !.readable = FALSE]
         \/ file' = file
<1> USE UniverseAssumption
<1>1. At(t, "rename") /\ tmp \subseteq Threads /\ \A u \in tmp : At(u, "rename")
  BY DEF RenameTmp, UniverseInv, UniverseTypeOK, TmpInv
<1>2. ASSUME NEW writers \in SUBSET Threads, \A u \in writers : At(u, "rename"),
             file' \in Written(writers)
      PROVE  /\ file' # None /\ file' \in File
             /\ file'.data <= file'.at /\ file'.at = now /\ file'.at - file'.data <= MaxLoad
             /\ file'.late \/ file'.data >= cleared
             /\ file'.readable => \E u \in Threads : /\ At(u, "rename")
                                                     /\ file'.offers = job[u].offers
  <2> DEFINE f == file'
  <2>1. f \in Written(writers)
    BY <1>2
  <2> HIDE DEF f
  <2>2. /\ f \in File /\ f.data <= f.at /\ f.at = now /\ f.at - f.data <= MaxLoad
        /\ f.late \/ f.data >= cleared
        /\ f.readable => \E u \in writers : f.offers = job[u].offers
    BY <1>2, <2>1, WrittenIsSound
  <2>3. f.readable => \E u \in Threads : At(u, "rename") /\ f.offers = job[u].offers
    BY <1>2, <2>2
  <2> QED
    BY <2>2, <2>3 DEF f
<1>3. CASE tmp # {}
  <2>1. file' \in Written(tmp \cup {t})
    BY <1>3 DEF RenameTmp
  <2>2. tmp \cup {t} \in SUBSET Threads /\ \A u \in tmp \cup {t} : At(u, "rename")
    BY <1>1
  <2> QED
    BY <1>2, <2>1, <2>2
<1>4. CASE tmp = {}
  <2>1. file' \in Written({t}) \cup {[file EXCEPT !.readable = FALSE] : f \in {file} \ {None}}
                   \cup {file}
    BY <1>4 DEF RenameTmp
  <2>2. CASE file' \in Written({t})
    BY <1>1, <1>2, <2>2
  <2> QED
    BY <2>1, <2>2
<1> QED
  BY <1>3, <1>4

LEMMA RenameTmpKeeps ==
  ASSUME UniverseInv, NEW t \in Threads, RenameTmp(t)
  PROVE  UniverseInv'
<1> USE UniverseAssumption
<1>1. /\ UNCHANGED <<now, ram, brokerRam, brokerFile, flags, ratings, admin,
                     refreshed, cleared>>
      /\ UNCHANGED <<now, admin, refreshed, cleared>>
      /\ UNCHANGED <<brokerRam, brokerFile>> /\ ram' = ram /\ flags' = flags /\ tmp' = {}
      /\ At(t, "rename") /\ UniverseTypeOK /\ FileInv /\ RequestInv
  BY DEF RenameTmp, UniverseInv
<1>2. file' \in File \cup {None} /\ FileInv'
  <2>1. CASE /\ file' # None /\ file' \in File
             /\ file'.data <= file'.at /\ file'.at = now /\ file'.at - file'.data <= MaxLoad
             /\ file'.late \/ file'.data >= cleared
    <3>1. now \in Nat /\ now <= now
      BY <1>1 DEF UniverseTypeOK, Times
    <3> QED
      BY <1>1, <2>1, <3>1 DEF FileInv
  <2>2. CASE file # None /\ file' = [file EXCEPT !.readable = FALSE]
    <3>1. /\ file' \in File /\ file'.data = file.data /\ file'.at = file.at
          /\ file'.late = file.late
      BY <1>1, <2>2 DEF UniverseTypeOK, File
    <3> QED
      BY <1>1, <2>2, <3>1 DEF FileInv
  <2>3. CASE file' = file
    BY <1>1, <2>3 DEF FileInv, UniverseTypeOK
  <2> QED
    BY <2>1, <2>2, <2>3, RenamePublishes
<1>3. job' = [u \in Threads |->
        IF u = t THEN [job[t] EXCEPT !.step = "broker", !.overlap = FALSE]
        ELSE IF InSave(u) THEN [job[u] EXCEPT !.overlap = TRUE]
        ELSE job[u]]
  BY DEF RenameTmp
<1>4. ASSUME NEW u \in Threads PROVE job'[u] \in Job \cup {Idle} /\ Good(u)'
  <2>1. CASE u = t
    <3>1. job[t] \in Job /\ job[t].step = "rename" /\ GoodJob(job[t])
      BY <1>1, AtStep
    <3>2. /\ job'[t] \in Job /\ job'[t].step = "broker" /\ job'[t].began = job[t].began
          /\ job'[t].data = job[t].data /\ job'[t].late = job[t].late
      BY <1>3, <3>1 DEF Job
    <3> QED
      BY <1>1, <2>1, <3>1, <3>2 DEF Good, GoodJob, Loaded
  <2>2. CASE u # t /\ InSave(u)
    <3>1. job[u] \in Job /\ job[u] # Idle /\ GoodJob(job[u])
      BY <1>1, <2>2 DEF UniverseInv, UniverseTypeOK, Good, InSave
    <3>2. job'[u] = [job[u] EXCEPT !.overlap = TRUE]
      BY <1>3, <2>2
    <3>3. /\ job'[u] \in Job /\ job'[u].step = job[u].step /\ job'[u].began = job[u].began
          /\ job'[u].data = job[u].data /\ job'[u].late = job[u].late
          /\ job'[u].carried = job[u].carried /\ job'[u].overlap
          /\ job'[u].ratings = job[u].ratings
      BY <3>1, <3>2 DEF Job
    <3> QED
      BY <1>1, <3>1, <3>3 DEF Good, GoodJob
  <2>3. CASE u # t /\ ~InSave(u)
    <3>1. job'[u] = job[u] /\ job[u] \in Job \cup {Idle} /\ Good(u)
      BY <1>1, <1>3, <2>3 DEF UniverseInv, UniverseTypeOK
    <3> QED
      BY <1>1, <2>3, <3>1 DEF Good, GoodJob, InSave
  <2> QED
    BY <2>1, <2>2, <2>3
<1>5. job' \in [Threads -> Job \cup {Idle}]
  <2>1. job' = [u \in Threads |-> job'[u]]
    BY <1>3
  <2> QED
    BY <1>4, <2>1
<1>6. TmpInv' /\ RequestInv'
  BY <1>1 DEF TmpInv, RequestInv
<1>7. /\ ram' \in Entry \cup {None} /\ RamInv'
      /\ BrokerInv' /\ brokerRam' \in Fetched \cup {None} /\ brokerFile' \in Times \cup {None}
      /\ FlagsInv' /\ flags' \in [data : Times \cup {None}, local : Times \cup {None}]
  BY <1>1, CachesStay
<1>8. UniverseTypeOK'
  BY <1>1, <1>2, <1>5, <1>7
     DEF UniverseTypeOK, Times, Refreshes, Entry, File, Job, Admin, Fetched
<1> QED
  BY <1>2, <1>4, <1>6, <1>7, <1>8 DEF UniverseInv

-----------------------------------------------------------------------------
(* Refreshes, clears and the clock. *)

\* A request marks every load in flight; a clear takes the file away as well.
LEMMA LateMoves ==
  ASSUME UniverseInv, job' = Late(job) \/ job' = Overlap(Late(job)),
         now' = now, file' = file \/ file' = None, tmp' = tmp
  PROVE  /\ job' \in [Threads -> Job \cup {Idle}]
         /\ \A t \in Threads : Good(t)'
         /\ TmpInv'
<1> USE UniverseAssumption
<1>1. UniverseTypeOK
  BY DEF UniverseInv
<1>2. ASSUME NEW t \in Threads, job[t] = Idle PROVE job'[t] = Idle
  BY <1>2 DEF Late, Overlap, InSave
<1>3. ASSUME NEW t \in Threads, job[t] # Idle
      PROVE  /\ job[t] \in Job /\ GoodJob(job[t])
             /\ job'[t] \in Job /\ job'[t].step = job[t].step /\ job'[t].began = job[t].began
             /\ job'[t].data = job[t].data /\ job'[t].offers = job[t].offers
             /\ job'[t].carried = job[t].carried /\ job'[t].late
             /\ job[t].overlap => job'[t].overlap
  <2>1. job[t] \in Job /\ GoodJob(job[t])
    BY <1>1, <1>3 DEF UniverseTypeOK, UniverseInv, Good
  <2> DEFINE j == [job[t] EXCEPT !.late = TRUE]
             k == [j EXCEPT !.overlap = TRUE]
  <2>2. /\ j \in Job /\ j.step = job[t].step /\ j.began = job[t].began /\ j.data = job[t].data
        /\ j.offers = job[t].offers /\ j.carried = job[t].carried /\ j.late
        /\ j.overlap = job[t].overlap
    BY <2>1 DEF Job
  <2>3. Late(job)[t] = j
    BY <1>3 DEF Late
  <2> HIDE DEF j
  <2>4. /\ k \in Job /\ k.step = j.step /\ k.began = j.began /\ k.data = j.data
        /\ k.offers = j.offers /\ k.carried = j.carried /\ k.late = j.late
        /\ k.overlap
    BY <2>2 DEF Job
  <2>5. job'[t] = j \/ job'[t] = k
    BY <2>3 DEF Overlap
  <2> HIDE DEF k
  <2> QED
    BY <2>1, <2>2, <2>4, <2>5
<1>4. ASSUME NEW t \in Threads PROVE job'[t] \in Job \cup {Idle} /\ Good(t)'
  <2>1. CASE job[t] = Idle
    BY <1>2, <2>1 DEF Good
  <2>2. CASE job[t] # Idle
    <3>1. StaleOffers(file') => StaleOffers(file)
      BY DEF StaleOffers
    <3>2. GoodJob(job[t])'
      BY <1>3, <2>2, <3>1 DEF GoodJob, Loaded
    <3> QED
      BY <1>3, <2>2, <3>2 DEF Good
  <2> QED
    BY <2>1, <2>2
<1>5. job' \in [Threads -> Job \cup {Idle}]
  <2>1. job' = [t \in Threads |-> job'[t]]
    BY DEF Late, Overlap
  <2> QED
    BY <1>4, <2>1
<1>6. TmpInv'
  <2>1. ASSUME NEW t \in tmp PROVE At(t, "rename")'
    <3>1. t \in Threads /\ job[t] # Idle /\ job[t].step = "rename"
      BY <1>1, <2>1 DEF UniverseInv, UniverseTypeOK, TmpInv, At
    <3> QED
      BY <1>3, <3>1 DEF At
  <2> QED
    BY <2>1 DEF TmpInv
<1> QED
  BY <1>4, <1>5, <1>6

LEMMA BeginRefreshKeeps == UniverseInv /\ BeginRefresh => UniverseInv'
<1> USE UniverseAssumption
<1> SUFFICES ASSUME UniverseInv, BeginRefresh PROVE UniverseInv'
  OBVIOUS
<1>1. UniverseTypeOK
  BY DEF UniverseInv
<1>2. /\ UNCHANGED <<now, ram, file, tmp, brokerRam, brokerFile, flags, refreshed, cleared>>
      /\ job' = Late(job) /\ ratings < MaxRefreshes /\ ratings' = ratings + 1
      /\ admin' = [op |-> "refresh", ratings |-> ratings + 1] /\ ratings \in Nat
  BY <1>1 DEF BeginRefresh, UniverseTypeOK, Refreshes
<1>3. ratings' \in Refreshes /\ admin' \in Admin /\ admin'.op = "refresh" /\ admin'.ratings = ratings'
  BY <1>2 DEF Refreshes, Admin
<1>4. /\ job' \in [Threads -> Job \cup {Idle}] /\ \A t \in Threads : Good(t)'
      /\ TmpInv'
  BY <1>2, LateMoves
<1>5. UniverseTypeOK'
  BY <1>1, <1>2, <1>3, <1>4 DEF UniverseTypeOK, Times, Refreshes, Entry, File, Fetched
<1>6. FileInv' /\ RamInv' /\ BrokerInv' /\ FlagsInv'
  BY <1>2, <1>3 DEF UniverseInv, FileInv, RamInv, BrokerInv, FlagsInv
<1>7. RequestInv'
  <2>1. refreshed <= ratings' /\ ratings' <= ratings'
    BY <1>1, <1>2 DEF UniverseInv, RequestInv, UniverseTypeOK, Refreshes
  <2> QED
    BY <1>2, <1>3, <2>1 DEF UniverseInv, RequestInv
<1> QED
  BY <1>4, <1>5, <1>6, <1>7 DEF UniverseInv

LEMMA EndRefreshKeeps == UniverseInv /\ EndRefresh => UniverseInv'
<1> USE UniverseAssumption
<1> SUFFICES ASSUME UniverseInv, EndRefresh PROVE UniverseInv'
  OBVIOUS
<1>1. UniverseTypeOK
  BY DEF UniverseInv
<1>2. /\ UNCHANGED <<now, file, tmp, brokerRam, brokerFile, flags, ratings, cleared>>
      /\ job' = Late(job) /\ ram' = None /\ admin # Idle /\ admin.op = "refresh"
      /\ admin' = Idle /\ refreshed' = admin.ratings
  BY DEF EndRefresh, InvalidateAll
<1>3. admin.ratings \in Refreshes /\ admin.ratings <= ratings
  BY <1>1, <1>2 DEF UniverseInv, UniverseTypeOK, RequestInv, Admin
<1>4. /\ job' \in [Threads -> Job \cup {Idle}] /\ \A t \in Threads : Good(t)'
      /\ TmpInv'
  BY <1>2, LateMoves
<1>5. UniverseTypeOK'
  BY <1>1, <1>2, <1>3, <1>4 DEF UniverseTypeOK, Times, Refreshes, Entry, File, Fetched
<1>6. FileInv' /\ RamInv' /\ BrokerInv' /\ FlagsInv' /\ RequestInv'
  BY <1>2, <1>3 DEF UniverseInv, FileInv, RamInv, BrokerInv, FlagsInv, RequestInv
<1> QED
  BY <1>4, <1>5, <1>6 DEF UniverseInv

LEMMA BackgroundRefreshKeeps == UniverseInv /\ BackgroundRefresh => UniverseInv'
<1> USE UniverseAssumption
<1> SUFFICES ASSUME UniverseInv, BackgroundRefresh PROVE UniverseInv'
  OBVIOUS
<1>1. UniverseTypeOK
  BY DEF UniverseInv
<1>2. /\ UNCHANGED <<now, ram, file, tmp, brokerRam, brokerFile, flags, job, admin,
                     refreshed, cleared>>
      /\ ratings < MaxRefreshes /\ ratings' = ratings + 1 /\ ratings \in Nat /\ refreshed \in Nat
  BY <1>1 DEF BackgroundRefresh, UniverseTypeOK, Refreshes
<1>3. ratings' \in Refreshes /\ \A r \in Nat : r <= ratings => r <= ratings'
  BY <1>2 DEF Refreshes
<1>4. ASSUME NEW t \in Threads PROVE Good(t)'
  BY <1>2, <1>4 DEF UniverseInv, Good, GoodJob, StaleOffers
<1>5. UniverseTypeOK'
  BY <1>1, <1>2, <1>3 DEF UniverseTypeOK, Times, Refreshes, Entry, File, Fetched, Job, Admin
<1>6. FileInv' /\ TmpInv' /\ RamInv' /\ BrokerInv' /\ FlagsInv'
  BY <1>2 DEF UniverseInv, FileInv, TmpInv, At, RamInv, BrokerInv, FlagsInv
<1>7. RequestInv'
  <2>1. admin # Idle /\ admin.op = "refresh" => admin.ratings \in Nat
    BY <1>1 DEF UniverseTypeOK, Admin, Refreshes
  <2> QED
    BY <1>2, <1>3, <2>1 DEF UniverseInv, RequestInv
<1> QED
  BY <1>4, <1>5, <1>6, <1>7 DEF UniverseInv

LEMMA InvalidationKeeps == UniverseInv /\ InvalidateAllBondCaches => UniverseInv'
<1> USE UniverseAssumption
<1> SUFFICES ASSUME UniverseInv, InvalidateAllBondCaches PROVE UniverseInv'
  OBVIOUS
<1>1. /\ UNCHANGED <<now, file, tmp, brokerRam, brokerFile, flags, ratings, job, admin,
                     refreshed, cleared>>
      /\ ram' = None
  BY DEF InvalidateAllBondCaches, InvalidateAll
<1>2. ASSUME NEW t \in Threads PROVE Good(t)'
  BY <1>1, <1>2 DEF UniverseInv, Good, GoodJob, StaleOffers
<1>3. UniverseTypeOK'
  BY <1>1 DEF UniverseInv, UniverseTypeOK, Times, Refreshes, Entry, File, Fetched, Job, Admin
<1>4. FileInv' /\ TmpInv' /\ RamInv' /\ BrokerInv' /\ FlagsInv' /\ RequestInv'
  BY <1>1 DEF UniverseInv, FileInv, TmpInv, At, RamInv, BrokerInv, FlagsInv, RequestInv
<1> QED
  BY <1>2, <1>3, <1>4 DEF UniverseInv

LEMMA BeginClearKeeps == UniverseInv /\ BeginClear => UniverseInv'
<1> USE UniverseAssumption
<1> SUFFICES ASSUME UniverseInv, BeginClear PROVE UniverseInv'
  OBVIOUS
<1>1. UniverseTypeOK
  BY DEF UniverseInv
<1>2. /\ UNCHANGED <<now, file, tmp, brokerRam, brokerFile, flags, ratings, refreshed, cleared>>
      /\ job' = Late(job) /\ ram' = None /\ admin' = [op |-> "clear", at |-> now]
  BY DEF BeginClear, InvalidateAll
<1>3. admin' \in Admin /\ admin'.op = "clear" /\ admin'.at = now /\ now <= now
  BY <1>1, <1>2 DEF Admin, UniverseTypeOK, Times
<1>4. /\ job' \in [Threads -> Job \cup {Idle}] /\ \A t \in Threads : Good(t)'
      /\ TmpInv'
  BY <1>2, LateMoves
<1>5. UniverseTypeOK'
  BY <1>1, <1>2, <1>3, <1>4 DEF UniverseTypeOK, Times, Refreshes, Entry, File, Fetched
<1>6. FileInv' /\ RamInv' /\ BrokerInv' /\ FlagsInv' /\ RequestInv'
  BY <1>2, <1>3 DEF UniverseInv, FileInv, RamInv, BrokerInv, FlagsInv, RequestInv
<1> QED
  BY <1>4, <1>5, <1>6 DEF UniverseInv

\* What was put in memory during the clear was put there by a marked load.
LEMMA EndClearKeeps == UniverseInv /\ EndClear => UniverseInv'
<1> USE UniverseAssumption
<1> SUFFICES ASSUME UniverseInv, EndClear PROVE UniverseInv'
  OBVIOUS
<1>1. UniverseTypeOK
  BY DEF UniverseInv
<1>2. /\ UNCHANGED <<now, ram, tmp, brokerRam, ratings, refreshed>>
      /\ job' = Overlap(Late(job)) /\ file' = None /\ brokerFile' = None
      /\ flags' = [flags EXCEPT !.local = None] /\ admin # Idle /\ admin.op = "clear"
      /\ admin' = Idle /\ cleared' = admin.at
  BY DEF EndClear
<1>3. admin.at \in Times /\ admin.at <= now
  BY <1>1, <1>2 DEF UniverseInv, UniverseTypeOK, RequestInv, Admin
<1>4. /\ job' \in [Threads -> Job \cup {Idle}] /\ \A t \in Threads : Good(t)'
      /\ TmpInv'
  BY <1>2, LateMoves
<1>5. /\ flags' \in [data : Times \cup {None}, local : Times \cup {None}]
      /\ flags'.data = flags.data /\ flags'.local = None
  BY <1>1, <1>2 DEF UniverseTypeOK
<1>6. UniverseTypeOK'
  BY <1>1, <1>2, <1>3, <1>4, <1>5 DEF UniverseTypeOK, Times, Refreshes, Entry, File, Fetched
<1>7. ram = None \/ ram.late
  BY <1>2 DEF UniverseInv, RamInv
<1>8. RamInv'
  BY <1>2, <1>7 DEF UniverseInv, RamInv
<1>9. FileInv' /\ BrokerInv' /\ FlagsInv' /\ RequestInv'
  BY <1>2, <1>3, <1>5 DEF UniverseInv, FileInv, BrokerInv, FlagsInv, RequestInv
<1> QED
  BY <1>4, <1>6, <1>8, <1>9 DEF UniverseInv

LEMMA TickKeeps == UniverseInv /\ Tick => UniverseInv'
<1> USE UniverseAssumption
<1> SUFFICES ASSUME UniverseInv, Tick PROVE UniverseInv'
  OBVIOUS
<1>1. UniverseTypeOK
  BY DEF UniverseInv
<1>2. /\ UNCHANGED <<file, tmp, ratings, job, admin, refreshed, cleared>>
      /\ now < MaxTime /\ now' = now + 1 /\ now \in Nat /\ admin = Idle
      /\ \A t \in Threads : job[t] # Idle => now - job[t].began < MaxLoad
  BY <1>1 DEF Tick, UniverseTypeOK, Times
<1>3. now' \in Times
  BY <1>2 DEF Times
<1>4. ram' = ram \/ ram' = None
  BY DEF Tick
<1>5. /\ brokerRam' = brokerRam \/ brokerRam' = None
      /\ brokerFile' = brokerFile \/ brokerFile' = None
  BY DEF Tick
<1>6. /\ flags' \in [data : Times \cup {None}, local : Times \cup {None}]
      /\ flags'.data = IF StillFresh(flags.data, FlagsTTL) THEN flags.data ELSE None
      /\ flags'.local = IF StillFresh(flags.local, FlagsTTL) THEN flags.local ELSE None
  <2>1. /\ DOMAIN flags = {"data", "local"}
        /\ flags.data \in Times \cup {None} /\ flags.local \in Times \cup {None}
    BY <1>1 DEF UniverseTypeOK
  <2>2. flags' = [part \in {"data", "local"} |->
                    IF StillFresh(flags[part], FlagsTTL) THEN flags[part] ELSE None]
    BY <2>1 DEF Tick
  <2>3. flags' = [data |-> IF StillFresh(flags.data, FlagsTTL) THEN flags.data ELSE None,
                  local |-> IF StillFresh(flags.local, FlagsTTL) THEN flags.local ELSE None]
    BY <2>2
  <2> QED
    BY <2>1, <2>3
<1>7. UniverseTypeOK'
  BY <1>1, <1>2, <1>3, <1>4, <1>5, <1>6
     DEF UniverseTypeOK, Times, Refreshes, Entry, File, Job, Fetched
<1>8. ASSUME NEW t \in Threads PROVE Good(t)'
  <2>1. CASE job[t] = Idle
    BY <1>2, <2>1 DEF Good
  <2>2. CASE job[t] # Idle
    <3>1. job[t] \in Job /\ GoodJob(job[t]) /\ job[t].began \in Nat
      BY <1>1, <2>2 DEF UniverseInv, UniverseTypeOK, Good, Job, Times
    <3>2. job[t].began <= now' /\ now' - job[t].began <= MaxLoad
      BY <1>2, <2>2, <3>1 DEF GoodJob
    <3>3. job[t].data \in Times /\ job[t].data <= now => job[t].data <= now'
      BY <1>2 DEF Times
    <3> QED
      BY <1>2, <3>1, <3>2, <3>3 DEF Good, GoodJob, StaleOffers
  <2> QED
    BY <2>1, <2>2
<1>9. FileInv'
  <2>1. file # None => file.at \in Nat
    BY <1>1 DEF UniverseTypeOK, File, Times
  <2> QED
    BY <1>2, <2>1 DEF UniverseInv, FileInv
<1>10. TmpInv' /\ RamInv'
  BY <1>2, <1>4 DEF UniverseInv, TmpInv, At, RamInv
<1>11. BrokerInv'
  <2>1. /\ brokerRam # None => brokerRam.at \in Nat
        /\ brokerFile # None => brokerFile \in Nat
    BY <1>1 DEF UniverseTypeOK, Fetched, Times
  <2>2. /\ brokerRam # None => brokerRam.at <= now'
        /\ brokerFile # None => brokerFile <= now'
    BY <1>2, <2>1 DEF UniverseInv, BrokerInv
  <2> QED
    BY <1>5, <2>2 DEF UniverseInv, BrokerInv
<1>12. FlagsInv'
  <2>1. /\ flags.data # None => flags.data \in Nat
        /\ flags.local # None => flags.local \in Nat
    BY <1>1 DEF UniverseTypeOK, Times
  <2>2. FlagsTTL \in Nat /\ FlagsInv
    BY DEF UniverseInv
  <2> QED
    BY <1>2, <1>6, <2>1, <2>2 DEF FlagsInv, StillFresh
<1>13. RequestInv'
  BY <1>1, <1>2 DEF UniverseInv, RequestInv, UniverseTypeOK, Times
<1> QED
  BY <1>7, <1>8, <1>9, <1>10, <1>11, <1>12, <1>13 DEF UniverseInv

-----------------------------------------------------------------------------
LEMMA UniverseStep == UniverseInv /\ [Next]_vars => UniverseInv'
<1> SUFFICES ASSUME UniverseInv, [Next]_vars PROVE UniverseInv'
  OBVIOUS
<1>1. CASE Next
  BY <1>1, BeginLoadKeeps, ReadFileKeeps, FetchBondsKeeps, OpenTmpKeeps, RenameTmpKeeps,
     EnrichBrokerKeeps, RefreshFlagsKeeps, ApplyRatingsKeeps, PutKeeps, BeginRefreshKeeps,
     EndRefreshKeeps, BackgroundRefreshKeeps, InvalidationKeeps, BeginClearKeeps,
     EndClearKeeps, TickKeeps DEF Next
<1>2. CASE UNCHANGED vars
  BY <1>2 DEF vars, UniverseInv, UniverseTypeOK, Good, GoodJob, StaleOffers, FileInv, TmpInv,
     At, RamInv, BrokerInv, FlagsInv, RequestInv
<1> QED
  BY <1>1, <1>2

\* The bound on every age, and the mark on every load that a request overlapped, are
\* kept by every step; see the top.
THEOREM UniverseInvariant == Spec => []UniverseInv
BY UniverseInit, UniverseStep, PTL DEF Spec

\* However the four layers of cache are filled and cleared, what is in memory was
\* fetched less than DiskTTL and two loads before, broker data that counts as fresh
\* less than two BrokerTTLs, and refreshAt hides no old table of default flags.
THEOREM AgesAddUp == Spec => []UniverseAgeBounded
<1>1. UniverseInv => UniverseAgeBounded
  <2> SUFFICES ASSUME UniverseInv PROVE UniverseAgeBounded
    OBVIOUS
  <2> USE UniverseAssumption
  <2>1. UniverseTypeOK /\ RamInv /\ BrokerInv /\ FlagsInv
    BY DEF UniverseInv
  <2>2. ram # None => ram.at - ram.data < DiskTTL + 2 * MaxLoad
    BY <2>1 DEF RamInv
  <2>3. ASSUME brokerRam # None, Fresh(brokerRam.at, BrokerTTL)
        PROVE  now - brokerRam.data < 2 * BrokerTTL - 1
    <3>1. /\ brokerRam.at \in Nat /\ brokerRam.data \in Nat /\ now \in Nat /\ BrokerTTL \in Nat
      BY <2>1, <2>3 DEF UniverseTypeOK, Fetched, Times
    <3>2. brokerRam.at - brokerRam.data < BrokerTTL /\ now - brokerRam.at < BrokerTTL
      BY <2>1, <2>3 DEF BrokerInv, Fresh
    <3> QED
      BY <3>1, <3>2
  <2>4. ASSUME Fresh(flags.local, FlagsTTL) PROVE Fresh(flags.data, FlagsTTL)
    <3>1. /\ flags.local # None /\ flags.data # None /\ flags.local <= flags.data
          /\ flags.local \in Nat /\ flags.data \in Nat /\ now \in Nat /\ FlagsTTL \in Nat
      BY <2>1, <2>4 DEF FlagsInv, Fresh, UniverseTypeOK, Times
    <3> QED
      BY <2>4, <3>1 DEF Fresh
  <2> QED
    BY <2>2, <2>3, <2>4 DEF UniverseAgeBounded
<1> QED
  BY <1>1, UniverseInvariant, PTL

\* After a completed refresh or clear (RefreshRatings, InvalidateCaches), memory holds
\* nothing older, unless a load that overlapped it put it there or wrote its file.
THEOREM InvalidationHolds == Spec => []InvalidationIsSeen
<1>1. UniverseInv => InvalidationIsSeen
  BY DEF UniverseInv, RamInv, InvalidationIsSeen
<1> QED
  BY <1>1, UniverseInvariant, PTL

\* saveDiskCache loses the offers on disk to an outage of their feed only when the file
\* changed after the load had read its stale copy, or a mixed write destroyed it.
THEOREM OffersSurvive == Spec => OffersKept
<1> DEFINE Lost == /\ file # None /\ file.offers /\ file' # None /\ ~file'.offers
           Excused == \/ ~file'.readable
                      \/ ~file.readable
                      \/ \E t \in Threads : At(t, "rename") /\ job[t].overlap
<1>1. UniverseInv /\ [Next]_vars =>
        [file # None /\ file.offers /\ file' # None /\ ~file'.offers =>
           \/ ~file'.readable
           \/ ~file.readable
           \/ \E t \in Threads : /\ At(t, "rename")
                                 /\ job[t].overlap]_vars
  <2> SUFFICES ASSUME UniverseInv, Next, Lost PROVE Excused
    OBVIOUS
  <2>1. CASE file' = file
    BY <2>1
  <2>2. ASSUME NEW t \in Threads, RenameTmp(t) PROVE Excused
    <3>1. CASE file' = [file EXCEPT !.readable = FALSE]
      <4>1. file \in File
        BY DEF UniverseInv, UniverseTypeOK
      <4> QED
        BY <3>1, <4>1 DEF File
    <3>2. ASSUME file'.readable => \E u \in Threads : /\ At(u, "rename")
                                                      /\ file'.offers = job[u].offers
          PROVE  Excused
      <4> SUFFICES ASSUME file'.readable, file.readable PROVE Excused
        OBVIOUS
      <4>1. PICK u \in Threads : At(u, "rename") /\ file'.offers = job[u].offers
        BY <3>2
      <4>2. GoodJob(job[u]) /\ job[u].step = "rename" /\ job[u] \in Job
        BY <4>1, AtStep
      <4>3. job[u].overlap \/ job[u].offers
        BY <4>2 DEF GoodJob, StaleOffers
      <4> QED
        BY <4>1, <4>3
    <3> QED
      BY <2>1, <2>2, <3>1, <3>2, RenamePublishes
  <2>3. CASE EndClear
    BY <2>3 DEF EndClear
  <2> QED
    BY <2>1, <2>2, <2>3 DEF Next, BeginLoad, ReadFile, FetchBonds, OpenTmp, EnrichBroker,
       RefreshFlags, ApplyRatings, Put, BeginRefresh, EndRefresh, BackgroundRefresh,
       InvalidateAllBondCaches, BeginClear, Tick
<1> QED
  BY <1>1, UniverseInvariant, PTL DEF Spec, OffersKept
=============================================================================
