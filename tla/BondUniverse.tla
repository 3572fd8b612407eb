---------------------------- MODULE BondUniverse ----------------------------
(***************************************************************************)
(* The enriched bond universe: goroutines that load it through four layers *)
(* of cache, and the calls that refresh or clear them.                     *)
(*                                                                         *)
(*   ram     scored universe, universe_cache.go, RamTTL                    *)
(*   file    MOEX bundle on disk, moex/client.go, DiskTTL                  *)
(*   broker  T-Invest GetBonds, RAM and disk, enrichment.go, BrokerTTL     *)
(*   flags, ratings   tables, refreshed from MOEX and smart-lab            *)
(*                                                                         *)
(* The layers share no lock: every step below is one access to one layer.  *)
(* Data is the time it was fetched; ratings are numbered by refresh.       *)
(***************************************************************************)
EXTENDS Naturals, FiniteSets

CONSTANTS
  Threads,
  RamTTL, DiskTTL, BrokerTTL, FlagsTTL,
  MaxLoad,       \* longest load, in ticks: the HTTP clients' timeouts
  MaxTime, MaxLoads, MaxFaults, MaxRefreshes,   \* bounds
  Idle, None

VARIABLES
  now,
  ram,        \* the universe in memory
  file,       \* moex_bonds.gob
  tmp,        \* loads that opened moex_bonds.gob.tmp since it was created
  brokerRam,  \* bondsDataCache: [data, at]
  brokerFile, \* tinvest_bonds.json: when it was fetched
  flags,      \* bond_default_flags: [data, local], local = refreshAt in memory
  ratings,    \* number of the last stored smart-lab refresh
  job,        \* the load each goroutine runs
  admin,      \* the refresh or clear request under way
  refreshed,  \* ratings refresh completed by a user
  cleared,    \* when the last completed clear began
  loads, faults

vars == <<now, ram, file, tmp, brokerRam, brokerFile, flags, ratings, job, admin,
          refreshed, cleared, loads, faults>>

Times == 0 .. MaxTime
Refreshes == 0 .. MaxRefreshes

File == [data : Times, offers : BOOLEAN, at : Times, readable : BOOLEAN, late : BOOLEAN]
Entry == [data : Times, ratings : Refreshes, at : Times,
          late : BOOLEAN, carried : BOOLEAN]

Job == [step : {"disk", "fetch", "open", "rename",
                "broker", "flags", "ratings", "put"},
        universe : BOOLEAN,             \* LoadUniverse, else LoadByISINs
        began : Times,
        data : Times \cup {None},
        offers : BOOLEAN,
        ratings : Refreshes,
        overlap : BOOLEAN,              \* the file changed since it was read
        late : BOOLEAN,                 \* a refresh or clear overlapped it
        carried : BOOLEAN]              \* its file was written by a late load

Admin == [op : {"refresh"}, ratings : Refreshes] \cup [op : {"clear"}, at : Times]

Fetched == [data : Times, at : Times]

\* Every layer keeps what it stores for a while, and nothing is taken for Idle or
\* None that is neither.
ASSUME UniverseAssumption ==
  /\ {RamTTL, DiskTTL, BrokerTTL, FlagsTTL} \subseteq Nat \ {0}
  /\ {MaxLoad, MaxTime, MaxRefreshes} \subseteq Nat
  /\ Idle \notin Job /\ Idle \notin Admin
  /\ None \notin Nat /\ None \notin File /\ None \notin Entry /\ None \notin Fetched

Init ==
  /\ now = 0
  /\ ram = None /\ file = None /\ tmp = {}
  /\ brokerRam = None /\ brokerFile \in {None, 0}   \* left by an earlier process
  /\ flags = [data |-> None, local |-> None]
  /\ ratings = 0
  /\ job = [t \in Threads |-> Idle]
  /\ admin = Idle
  /\ refreshed = 0 /\ cleared = 0
  /\ loads = 0 /\ faults = 0

-----------------------------------------------------------------------------
Fresh(at, ttl) == at # None /\ now - at < ttl

Call(ok) == IF ok THEN faults' = faults
            ELSE faults < MaxFaults /\ faults' = faults + 1

At(t, step) == job[t] # Idle /\ job[t].step = step

Goto(t, step) == job' = [job EXCEPT ![t].step = step]

Finish(t) == job' = [job EXCEPT ![t] = Idle]

\* The loads in flight, outdated by a refresh or clear, or by a change of the file.
Late(jobs) == [t \in Threads |->
                 IF jobs[t] = Idle THEN Idle ELSE [jobs[t] EXCEPT !.late = TRUE]]
InSave(t) == job[t] # Idle /\ job[t].step \in {"fetch", "open", "rename"}

Overlap(jobs) == [t \in Threads |->
                    IF InSave(t) THEN [jobs[t] EXCEPT !.overlap = TRUE] ELSE jobs[t]]

-----------------------------------------------------------------------------
(***************************************************************************)
(* A load.                                                                 *)
(***************************************************************************)
\* LoadUniverse whose Get misses (a hit changes nothing), or LoadByISINs and
\* LoadBySecid for bonds outside the universe, which skip the RAM cache.
BeginLoad(t, universe) ==
  /\ loads < MaxLoads /\ loads' = loads + 1
  /\ job[t] = Idle
  /\ universe => ~(ram # None /\ Fresh(ram.at, RamTTL))
  /\ job' = [job EXCEPT ![t] =
       [step |-> "disk", universe |-> universe, began |-> now, data |-> None,
        offers |-> FALSE, ratings |-> 0, overlap |-> FALSE, late |-> admin # Idle,
        carried |-> FALSE]]
  /\ UNCHANGED <<now, ram, file, tmp, brokerRam, brokerFile, flags, ratings, admin,
                 refreshed, cleared, faults>>

\* mutant: the age of the file is not looked at
Decodes(f) == f # None /\ f.readable

Usable(f) == f # None /\ f.readable /\ Fresh(f.at, DiskTTL)

\* mutant: an outage leaves the offers empty
NoOffers(f) == FALSE

StaleOffers(f) == f # None /\ f.readable /\ f.offers

\* readDiskCache(false) and, when the file is old or unreadable, at once
\* readDiskCache(true), kept for its offers.
ReadFile(t) ==
  /\ At(t, "disk")
  /\ job' = [job EXCEPT ![t] =
       IF Usable(file)
       THEN [@ EXCEPT !.step = "broker", !.data = file.data, !.offers = file.offers,
                      !.carried = file.late]
       ELSE [@ EXCEPT !.step = "fetch", !.offers = StaleOffers(file)]]
  /\ UNCHANGED <<now, ram, file, tmp, brokerRam, brokerFile, flags, ratings, admin,
                 refreshed, cleared, loads, faults>>

\* fetchFromMOEX, whose failure is an empty universe that is not cached, then
\* fetchUpcomingOffers, after whose failure the stale bundle's offers stay.
FetchBonds(t) ==
  /\ At(t, "fetch")
  /\ \/ Call(TRUE) /\ job' = [job EXCEPT ![t].step = "open", ![t].data = now,
                                         ![t].offers = TRUE]
     \/ Call(FALSE) /\ job' = [job EXCEPT ![t].step = "open", ![t].data = now]
     \/ Call(FALSE) /\ Finish(t)
  /\ UNCHANGED <<now, ram, file, tmp, brokerRam, brokerFile, flags, ratings, admin,
                 refreshed, cleared, loads>>

\* saveDiskCache creates the tmp file, whose name all loads share.  An error here
\* discards the bundle that was fetched.
OpenTmp(t) ==
  /\ At(t, "open")
  /\ \/ Call(TRUE) /\ tmp' = tmp \cup {t} /\ Goto(t, "rename")
     \/ Call(FALSE) /\ Finish(t) /\ UNCHANGED tmp
  /\ UNCHANGED <<now, ram, file, brokerRam, brokerFile, flags, ratings, admin,
                 refreshed, cleared, loads>>

\* The file a set of writers may leave: one's bundle or, of several, a mixture
\* that gob does not decode.
Written(writers) ==
  {[data |-> job[u].data, offers |-> job[u].offers, at |-> now, readable |-> TRUE,
    late |-> job[u].late] : u \in writers}
  \cup {[data |-> now, offers |-> FALSE, at |-> now, readable |-> FALSE, late |-> TRUE]
          : w \in {w \in writers : Cardinality(writers) > 1}}

\* The rename publishes whatever tmp holds.  A load whose tmp another one renamed
\* has been writing into the published file; its own rename error is dropped.
RenameTmp(t) ==
  /\ At(t, "rename")
  /\ file' \in IF tmp # {} THEN Written(tmp \cup {t})
               ELSE Written({t}) \cup {[file EXCEPT !.readable = FALSE] : f \in {file} \ {None}}
                      \cup {file}
  /\ tmp' = {}
  /\ job' = [u \in Threads |->
       IF u = t THEN [job[t] EXCEPT !.step = "broker", !.overlap = FALSE]
       ELSE IF InSave(u) THEN [job[u] EXCEPT !.overlap = TRUE]
       ELSE job[u]]
  /\ UNCHANGED <<now, ram, brokerRam, brokerFile, flags, ratings, admin,
                 refreshed, cleared, loads, faults>>

\* bondsDataCache.get, under its mutex: RAM, disk, API.  Data read from disk
\* counts as new in RAM; after an error the bonds keep fallback trade flags.
EnrichBroker(t) ==
  /\ At(t, "broker")
  /\ IF brokerRam # None /\ Fresh(brokerRam.at, BrokerTTL)
     THEN Call(TRUE) /\ UNCHANGED <<brokerRam, brokerFile>>
     ELSE IF Fresh(brokerFile, BrokerTTL)
     THEN /\ Call(TRUE)
          /\ brokerRam' = [data |-> brokerFile, at |-> now]
          /\ UNCHANGED brokerFile
     ELSE \/ /\ Call(TRUE)
             /\ brokerRam' = [data |-> now, at |-> now]
             /\ brokerFile' = now
          \/ Call(FALSE) /\ UNCHANGED <<brokerRam, brokerFile>>
  /\ Goto(t, "flags")
  /\ UNCHANGED <<now, ram, file, tmp, flags, ratings, admin, refreshed, cleared, loads>>

\* RefreshIfStale, whose error is dropped, then Apply.  needsRefresh asks the
\* table when its own time is missing or old, and takes the table's over.
RefreshFlags(t) ==
  /\ At(t, "flags")
  /\ LET ask == ~Fresh(flags.local, FlagsTTL)
         old == ask /\ ~Fresh(flags.data, FlagsTTL)
     IN \/ old /\ Call(TRUE) /\ flags' = [data |-> now, local |-> now]
        \/ /\ Call(~old)
           /\ flags' = IF ask /\ flags.data # None
                       THEN [flags EXCEPT !.local = flags.data] ELSE flags
  /\ Goto(t, "ratings")
  /\ UNCHANGED <<now, ram, file, tmp, brokerRam, brokerFile, ratings, admin,
                 refreshed, cleared, loads>>

\* ApplyRatings and the scores; LoadByISINs returns here.
ApplyRatings(t) ==
  /\ At(t, "ratings")
  /\ IF job[t].universe
     THEN job' = [job EXCEPT ![t].step = "put", ![t].ratings = ratings]
     ELSE Finish(t)
  /\ UNCHANGED <<now, ram, file, tmp, brokerRam, brokerFile, flags, ratings, admin,
                 refreshed, cleared, loads, faults>>

Put(t) ==
  /\ At(t, "put")
  /\ ram' = [data |-> job[t].data, ratings |-> job[t].ratings, at |-> now,
             late |-> job[t].late, carried |-> job[t].carried]
  /\ Finish(t)
  /\ UNCHANGED <<now, file, tmp, brokerRam, brokerFile, flags, ratings, admin,
                 refreshed, cleared, loads, faults>>

-----------------------------------------------------------------------------
(***************************************************************************)
(* Refreshes and clears.                                                   *)
(***************************************************************************)
\* mutant: the refreshed ratings wait for the TTL
Expire == UNCHANGED ram

InvalidateAll == ram' = None

\* RefreshRatings, first half: the scraped ratings are stored.
BeginRefresh ==
  /\ admin = Idle
  /\ ratings < MaxRefreshes
  /\ ratings' = ratings + 1
  /\ admin' = [op |-> "refresh", ratings |-> ratings + 1]
  /\ job' = Late(job)
  /\ UNCHANGED <<now, ram, file, tmp, brokerRam, brokerFile, flags, refreshed, cleared,
                 loads, faults>>

\* Second half: InvalidateAll.
EndRefresh ==
  /\ admin # Idle /\ admin.op = "refresh"
  /\ InvalidateAll
  /\ refreshed' = admin.ratings
  /\ admin' = Idle
  /\ job' = Late(job)
  /\ UNCHANGED <<now, file, tmp, brokerRam, brokerFile, flags, ratings, cleared,
                 loads, faults>>

\* MaybeRefreshStale, in a goroutine of its own, invalidates nothing.
BackgroundRefresh ==
  /\ ratings < MaxRefreshes
  /\ ratings' = ratings + 1
  /\ UNCHANGED <<now, ram, file, tmp, brokerRam, brokerFile, flags, job, admin,
                 refreshed, cleared, loads, faults>>

\* The key rate changed: OnChange drops the scored universe.
InvalidateAllBondCaches ==
  /\ ram # None
  /\ InvalidateAll
  /\ UNCHANGED <<now, file, tmp, brokerRam, brokerFile, flags, ratings, job, admin,
                 refreshed, cleared, loads, faults>>

\* InvalidateCaches: first the universe, then the files and refreshAt.  The
\* T-Invest data in RAM, and the flags' own table, stay.
BeginClear ==
  /\ admin = Idle
  /\ InvalidateAll
  /\ admin' = [op |-> "clear", at |-> now]
  /\ job' = Late(job)
  /\ UNCHANGED <<now, file, tmp, brokerRam, brokerFile, flags, ratings,
                 refreshed, cleared, loads, faults>>

EndClear ==
  /\ admin # Idle /\ admin.op = "clear"
  /\ file' = None /\ brokerFile' = None
  /\ flags' = [flags EXCEPT !.local = None]
  /\ cleared' = admin.at
  /\ admin' = Idle
  /\ job' = Overlap(Late(job))
  /\ UNCHANGED <<now, ram, tmp, brokerRam, ratings, refreshed, loads, faults>>

StillFresh(at, ttl) == at # None /\ now' - at < ttl

\* No load outlives MaxLoad, and a clear is shorter than a tick.  What is past its
\* time is never used again, so none is kept of it here; only the file still
\* has its offers.
Tick ==
  /\ now < MaxTime
  /\ admin = Idle
  /\ \A t \in Threads : job[t] # Idle => now - job[t].began < MaxLoad
  /\ now' = now + 1
  /\ ram' = IF ram # None /\ StillFresh(ram.at, RamTTL) THEN ram ELSE None
  /\ brokerRam' =
       IF brokerRam # None /\ StillFresh(brokerRam.at, BrokerTTL) THEN brokerRam ELSE None
  /\ brokerFile' = IF StillFresh(brokerFile, BrokerTTL) THEN brokerFile ELSE None
  /\ flags' = [part \in DOMAIN flags |->
                 IF StillFresh(flags[part], FlagsTTL) THEN flags[part] ELSE None]
  /\ UNCHANGED <<file, tmp, ratings, job, admin, refreshed, cleared, loads, faults>>

Next ==
  \/ \E t \in Threads :
       \/ \E universe \in BOOLEAN : BeginLoad(t, universe)
       \/ ReadFile(t) \/ FetchBonds(t)
       \/ OpenTmp(t) \/ RenameTmp(t)
       \/ EnrichBroker(t) \/ RefreshFlags(t) \/ ApplyRatings(t) \/ Put(t)
  \/ BeginRefresh \/ EndRefresh \/ BackgroundRefresh
  \/ InvalidateAllBondCaches \/ BeginClear \/ EndClear
  \/ Tick

Spec == Init /\ [][Next]_vars

-----------------------------------------------------------------------------
(***************************************************************************)
(* Properties.                                                             *)
(***************************************************************************)
\* The ages of the layers add up and no further: prices put in memory are younger
\* than DiskTTL plus two loads; T-Invest flags in memory that count as fresh are
\* younger than two BrokerTTLs (a disk copy counts as new in RAM); and refreshAt
\* never keeps default flags alive that the table knows to be old.
UniverseAgeBounded ==
  /\ ram # None => ram.at - ram.data < DiskTTL + 2 * MaxLoad
  /\ brokerRam # None /\ Fresh(brokerRam.at, BrokerTTL) =>
       now - brokerRam.data < 2 * BrokerTTL - 1
  /\ Fresh(flags.local, FlagsTTL) => Fresh(flags.data, FlagsTTL)

\* After a completed refresh or clear, memory holds only what was loaded with the
\* new ratings, or fetched since the clear began, unless the load that put it
\* there, or that wrote the file it was read from, overlapped the request (nothing
\* stops such a load from putting the old data back).
InvalidationIsSeen ==
  ram # None /\ ~ram.late /\ admin = Idle =>
    ram.ratings >= refreshed /\ (ram.carried \/ ram.data >= cleared)

\* Offers on disk are lost to an outage of the offers feed only when the file
\* changed after the load had read its stale copy, or a mixed write destroyed it.
OffersKept ==
  [][file # None /\ file.offers /\ file' # None /\ ~file'.offers =>
       \/ ~file'.readable
       \/ ~file.readable
       \/ \E t \in Threads : /\ At(t, "rename")
                             /\ job[t].overlap]_vars
=============================================================================
