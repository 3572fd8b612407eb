--------------------------- MODULE AccountsProofs ---------------------------
(***************************************************************************)
(* What holds of what a portfolio shares with others, for any number of    *)
(* portfolios, accounts, bonds, handlers, requests, tokens, writes,        *)
(* failures and times to live.                                             *)
(*                                                                         *)
(* Accounts.  None of the properties is inductive: a write is only as good *)
(* as what the goroutine read.  IInv adds what a copy in flight still      *)
(* knows: a copy is coherent, and while its goroutine is not stale the row *)
(* is what was copied, and the links of its account are what its check     *)
(* found.                                                                  *)
(*                                                                         *)
(* Credentials.  A row is sealed for the id its writer read or drew, so    *)
(* the invariant says that a lone writer still finds the row it read; and  *)
(* a copy is as old as the row it was opened from, which a handler held    *)
(* while others replaced it.                                               *)
(*                                                                         *)
(* Risk baselines.  What a scan and a request know of a row that both      *)
(* write back whole, last.                                                 *)
(***************************************************************************)
EXTENDS MCPortfolio, FunctionTheorems, FiniteSetTheorems, TLAPS

Busy(t) == job[t] # Idle

\* What the operation of a request says of its other fields.
WellFormed(j) ==
  /\ j.op \in Edits => j.step = "save" /\ j.bond \in Bonds
  /\ j.op = "attach" => j.step # "find"
  /\ j.op \in Edits \cup {"attach"} =>
       /\ j.copy \in Row /\ Coherent(j.copy)
       /\ j.portfolio \in ids
  /\ j.op \in {"attach", "drop", "empty"} => j.account \in Accounts
  /\ j.op \in {"drop", "empty"} => j.copy = NoRow
  /\ j.op = "drop" /\ j.step = "delete" => j.portfolio \in Portfolios

JobsWellFormed == \A t \in Threads : Busy(t) => WellFormed(job[t])

RowsHaveIds == \A p \in Portfolios : row[p] # NoRow => p \in ids

RemovedAreClosed == \A a \in removed : acct[a] = "closed"

\* Only one portfolio trades on an account, without its Cardinality.
LinkIsUnique(a) == \A p, q \in LinkedTo(a, None) : p = q

LinksAreUnique == raced \/ blind \/ \A a \in Accounts : LinkIsUnique(a)

\* What a goroutine that is not stale may still rely on.
Current(j) ==
  /\ j.op \in Edits => row[j.portfolio] = j.copy
  /\ j.op = "attach" => row[j.portfolio] # NoRow
  /\ j.op = "attach" /\ j.step # "check" =>
       blind \/ LinkedTo(j.account, j.portfolio) = {}
  /\ j.op = "attach" /\ j.step \notin {"check", "snapshot"} => j.account \notin removed
  /\ j.op = "drop" /\ j.step = "delete" =>
       raced \/ blind \/ LinkedTo(j.account, None) \subseteq {j.portfolio}
  /\ j.op = "drop" /\ j.step = "close" =>
       raced \/ blind \/ LinkedTo(j.account, None) = {}

FreshIsCurrent == \A t \in Threads : Busy(t) /\ ~job[t].stale => Current(job[t])

IInv ==
  /\ TypeOK
  /\ JobsWellFormed
  /\ RowsHaveIds
  /\ ForecastIsOfAccount
  /\ RemovedAreClosed
  /\ LinksAreUnique
  /\ ClosedIsUnlinked
  /\ FreshIsCurrent

-----------------------------------------------------------------------------
LEMMA InitIInv == Init => IInv
<1> SUFFICES ASSUME Init PROVE IInv
  OBVIOUS
<1>1. TypeOK
  <2>1. raced \in BOOLEAN /\ blind \in BOOLEAN
    BY Zenon DEF Init
  <2> QED
    BY <2>1, Bounds DEF Init, TypeOK
<1>2. \A a, x : LinkedTo(a, x) = {}
  BY DEF Init, LinkedTo, Linked
<1> QED
  BY <1>1, <1>2 DEF Init, IInv, JobsWellFormed, RowsHaveIds, ForecastIsOfAccount,
       RemovedAreClosed, LinksAreUnique, LinkIsUnique, ClosedIsUnlinked, FreshIsCurrent, Busy

LEMMA CreateStep == ASSUME IInv, NEW p \in Portfolios, CreatePortfolio(p) PROVE IInv'
<1> DEFINE new == [mode |-> "simulation", account |-> None, forecast |-> None,
                   held |-> {}, confirmed |-> {}]
<1> USE DEF CreatePortfolio, Request, NewId
<1>0. new \in Row
  BY DEF Row
<1>1. TypeOK'
  BY <1>0, Bounds DEF IInv, TypeOK
<1>2. JobsWellFormed'
  BY DEF IInv, JobsWellFormed, WellFormed, Busy
<1>3. RowsHaveIds' /\ ForecastIsOfAccount'
  BY DEF IInv, TypeOK, RowsHaveIds, ForecastIsOfAccount, Coherent
<1>4. \A q \in Portfolios, a \in Accounts : Linked(a, q)' => Linked(a, q)
  BY DistinctNone DEF IInv, TypeOK, Linked
<1>5. \A q : q \in ids => row'[q] = row[q]
  BY DEF IInv, TypeOK
<1>6. RemovedAreClosed' /\ LinksAreUnique' /\ ClosedIsUnlinked'
  BY <1>4 DEF IInv, TypeOK, RemovedAreClosed, LinksAreUnique, LinkIsUnique, ClosedIsUnlinked, LinkedTo
<1>7. FreshIsCurrent'
  BY <1>4, <1>5 DEF IInv, TypeOK, FreshIsCurrent, Current, JobsWellFormed, WellFormed, Busy, LinkedTo
<1> QED
  BY <1>1, <1>2, <1>3, <1>6, <1>7 DEF IInv

\* A step that writes no row and closes no account for good.
ReadOnly == UNCHANGED <<row, ids, raced, removed>> /\ (blind => blind')

LEMMA ReadOnlyKeeps ==
  ASSUME IInv, ReadOnly,
         \A a \in Accounts : acct[a] = "closed" => acct'[a] = "closed"
  PROVE  /\ RowsHaveIds' /\ ForecastIsOfAccount' /\ RemovedAreClosed'
         /\ LinksAreUnique' /\ ClosedIsUnlinked'
<1>1. \A a, x : LinkedTo(a, x)' = LinkedTo(a, x)
  BY DEF ReadOnly, LinkedTo, Linked
<1>2. RowsHaveIds' /\ ForecastIsOfAccount'
  BY DEF ReadOnly, IInv, RowsHaveIds, ForecastIsOfAccount, Coherent
<1>3. RemovedAreClosed'
  BY DEF ReadOnly, IInv, TypeOK, RemovedAreClosed
<1>4. LinksAreUnique' /\ ClosedIsUnlinked'
  BY <1>1 DEF ReadOnly, IInv, LinksAreUnique, LinkIsUnique, ClosedIsUnlinked
<1> QED
  BY <1>2, <1>3, <1>4

\* The goroutines that do nothing in it know what they knew.
LEMMA ReadOnlyOthers ==
  ASSUME IInv, ReadOnly, NEW u \in Threads, Busy(u), job'[u] = job[u]
  PROVE  WellFormed(job[u])' /\ (~job'[u].stale => Current(job[u])')
<1>1. \A a, x : LinkedTo(a, x)' = LinkedTo(a, x)
  BY DEF ReadOnly, LinkedTo, Linked
<1>2. WellFormed(job[u])'
  BY DEF ReadOnly, IInv, JobsWellFormed, WellFormed, Coherent
<1>3. ~job'[u].stale => Current(job[u])'
  BY <1>1 DEF ReadOnly, IInv, FreshIsCurrent, Current
<1> QED
  BY <1>2, <1>3

\* Where the types of a step's new job, rows and flags come from.
LEMMA JobType ==
  ASSUME TypeOK, NEW t \in Threads, Busy(t)
  PROVE  job[t] \in Job
BY DEF TypeOK, Busy

LEMMA BeginEditStep ==
  ASSUME IInv, NEW t \in Threads, NEW p \in Portfolios, NEW op \in Edits, NEW b \in Bonds,
         BeginEdit(t, op, p, b)
  PROVE  IInv'
<1> DEFINE new == [op |-> op, step |-> "save", portfolio |-> p, account |-> None,
                   bond |-> b, copy |-> row[p], stale |-> FALSE]
<1>1. row[p] \in Row /\ Coherent(row[p]) /\ p \in ids
  BY DEF BeginEdit, IInv, TypeOK, ForecastIsOfAccount, RowsHaveIds
<1>2. new \in Job
  BY <1>1 DEF Job
<1>3. TypeOK'
  BY <1>2, Bounds DEF BeginEdit, Request, IInv, TypeOK
<1>4. ReadOnly /\ acct' = acct
  BY DEF BeginEdit, ReadOnly
<1>5. ASSUME NEW u \in Threads, Busy(u)'
      PROVE  WellFormed(job[u])' /\ (~job'[u].stale => Current(job[u])')
  <2>1. CASE u = t
    <3>1. job'[u] = new
      BY <2>1 DEF BeginEdit, IInv, TypeOK
    <3>2. op \notin {"attach", "drop", "empty"}
      BY DEF Edits
    <3> QED
      BY <3>1, <3>2, <1>1, <1>4 DEF WellFormed, Current, ReadOnly, Coherent
  <2>2. CASE u # t
    <3>1. job'[u] = job[u] /\ Busy(u)
      BY <2>2, <1>5 DEF BeginEdit, IInv, TypeOK, Busy
    <3> QED
      BY <3>1, <1>4, ReadOnlyOthers
  <2> QED
    BY <2>1, <2>2
<1> QED
  BY <1>3, <1>4, <1>5, ReadOnlyKeeps DEF IInv, JobsWellFormed, FreshIsCurrent

LEMMA BeginAttachStep ==
  ASSUME IInv, NEW t \in Threads, NEW p \in Portfolios, NEW a \in Accounts,
         BeginAttach(t, p, a)
  PROVE  IInv'
<1> DEFINE new == [op |-> "attach", step |-> "check", portfolio |-> p, account |-> a,
                   bond |-> None, copy |-> row[p], stale |-> FALSE]
<1>1. row[p] \in Row /\ Coherent(row[p]) /\ p \in ids
  BY DEF BeginAttach, IInv, TypeOK, ForecastIsOfAccount, RowsHaveIds
<1>2. new \in Job
  BY <1>1 DEF Job
<1>3. TypeOK'
  BY <1>2, Bounds DEF BeginAttach, Request, IInv, TypeOK
<1>4. ReadOnly /\ acct' = acct
  BY DEF BeginAttach, ReadOnly
<1>5. ASSUME NEW u \in Threads, Busy(u)'
      PROVE  WellFormed(job[u])' /\ (~job'[u].stale => Current(job[u])')
  <2>1. CASE u = t
    <3>1. job'[u] = new
      BY <2>1 DEF BeginAttach, IInv, TypeOK
    <3>2. "attach" \notin Edits
      BY DEF Edits
    <3> QED
      BY <3>1, <3>2, <1>1, <1>4, NoRowIsNone DEF WellFormed, Current, ReadOnly, Coherent
  <2>2. CASE u # t
    <3>1. job'[u] = job[u] /\ Busy(u)
      BY <2>2, <1>5 DEF BeginAttach, IInv, TypeOK, Busy
    <3> QED
      BY <3>1, <1>4, ReadOnlyOthers
  <2> QED
    BY <2>1, <2>2
<1> QED
  BY <1>3, <1>4, <1>5, ReadOnlyKeeps DEF IInv, JobsWellFormed, FreshIsCurrent

LEMMA BeginDropStep ==
  ASSUME IInv, NEW t \in Threads, NEW a \in Accounts, BeginDrop(t, a)
  PROVE  IInv'
<1> DEFINE new == [op |-> "drop", step |-> "find", portfolio |-> None, account |-> a,
                   bond |-> None, copy |-> NoRow, stale |-> FALSE]
<1>2. new \in Job
  BY DEF Job
<1>3. TypeOK'
  BY <1>2, Bounds DEF BeginDrop, Request, IInv, TypeOK
<1>4. ReadOnly /\ acct' = acct
  BY DEF BeginDrop, ReadOnly
<1>5. ASSUME NEW u \in Threads, Busy(u)'
      PROVE  WellFormed(job[u])' /\ (~job'[u].stale => Current(job[u])')
  <2>1. CASE u = t
    <3>1. job'[u] = new
      BY <2>1 DEF BeginDrop, IInv, TypeOK
    <3>2. "drop" \notin Edits
      BY DEF Edits
    <3> QED
      BY <3>1, <3>2 DEF WellFormed, Current
  <2>2. CASE u # t
    <3>1. job'[u] = job[u] /\ Busy(u)
      BY <2>2, <1>5 DEF BeginDrop, IInv, TypeOK, Busy
    <3> QED
      BY <3>1, <1>4, ReadOnlyOthers
  <2> QED
    BY <2>1, <2>2
<1> QED
  BY <1>3, <1>4, <1>5, ReadOnlyKeeps DEF IInv, JobsWellFormed, FreshIsCurrent

LEMMA BeginClearStep ==
  ASSUME IInv, NEW t \in Threads, NEW p \in Portfolios, NEW a \in Accounts,
         BeginClear(t, p, a)
  PROVE  IInv'
<1> DEFINE new == [op |-> "empty", step |-> "close", portfolio |-> p, account |-> a,
                   bond |-> None, copy |-> NoRow, stale |-> FALSE]
<1>2. new \in Job
  BY DEF Job
<1>3. TypeOK'
  BY <1>2, Bounds DEF BeginClear, Request, IInv, TypeOK
<1>4. ReadOnly /\ acct' = acct
  BY DEF BeginClear, ReadOnly
<1>5. ASSUME NEW u \in Threads, Busy(u)'
      PROVE  WellFormed(job[u])' /\ (~job'[u].stale => Current(job[u])')
  <2>1. CASE u = t
    <3>1. job'[u] = new
      BY <2>1 DEF BeginClear, IInv, TypeOK
    <3>2. "empty" \notin Edits
      BY DEF Edits
    <3> QED
      BY <3>1, <3>2 DEF WellFormed, Current
  <2>2. CASE u # t
    <3>1. job'[u] = job[u] /\ Busy(u)
      BY <2>2, <1>5 DEF BeginClear, IInv, TypeOK, Busy
    <3> QED
      BY <3>1, <1>4, ReadOnlyOthers
  <2> QED
    BY <2>1, <2>2
<1> QED
  BY <1>3, <1>4, <1>5, ReadOnlyKeeps DEF IInv, JobsWellFormed, FreshIsCurrent

\* A query finds nobody on the account, or it fails and blind says so.
LEMMA AttachCheckStep ==
  ASSUME IInv, NEW t \in Threads, AttachCheck(t)
  PROVE  IInv'
<1> DEFINE j == job[t]
           new == [j EXCEPT !.step = "snapshot"]
<1>1. j \in Job /\ WellFormed(j) /\ j.op = "attach" /\ j.account \in Accounts
  BY JobType DEF AttachCheck, IInv, Busy, JobsWellFormed, WellFormed
<1>2. new \in Job
  BY <1>1 DEF Job
<1>3. PICK ok \in BOOLEAN :
        /\ Call(ok) /\ blind' = (blind \/ ~ok)
        /\ IF ok => Free(j.account, j.portfolio) THEN Continue(t, "snapshot") ELSE Fail(t)
  BY DEF AttachCheck
<1>4. TypeOK'
  <2>1. blind' \in BOOLEAN
    BY <1>3, Zenon DEF IInv, TypeOK
  <2>2. faults' \in 0 .. MaxFaults
    BY <1>3, Bounds DEF Call, IInv, TypeOK
  <2>3. job' \in [Threads -> Job \cup {Idle}]
    BY <1>3, <1>2 DEF Continue, Fail, IInv, TypeOK
  <2> QED
    BY <2>1, <2>2, <2>3 DEF AttachCheck, IInv, TypeOK
<1>5. ReadOnly /\ acct' = acct
  BY <1>3 DEF AttachCheck, ReadOnly
<1>6. ASSUME NEW u \in Threads, Busy(u)'
      PROVE  WellFormed(job[u])' /\ (~job'[u].stale => Current(job[u])')
  <2>1. CASE u = t
    <3>1. job'[u] = new /\ Continue(t, "snapshot")
      BY <2>1, <1>3, <1>6 DEF Continue, Fail, Busy, IInv, TypeOK
    <3>2. new.op = "attach" /\ new.step = "snapshot" /\ new.portfolio = j.portfolio
            /\ new.account = j.account /\ new.copy = j.copy /\ new.stale = j.stale
      BY <1>1 DEF Job
    <3>3. blind' \/ LinkedTo(j.account, j.portfolio) = {}
      BY <3>1, <1>3, <2>1, <1>6 DEF Free, Fail, Busy, IInv, TypeOK
    <3>4. \A a, x : LinkedTo(a, x)' = LinkedTo(a, x)
      BY <1>5 DEF ReadOnly, LinkedTo, Linked
    <3>5. "attach" \notin Edits /\ (~j.stale => row[j.portfolio] # NoRow)
      BY <1>1 DEF Edits, IInv, FreshIsCurrent, Current, Busy, AttachCheck
    <3> QED
      BY <3>1, <3>2, <3>3, <3>4, <3>5, <1>1, <1>5
         DEF WellFormed, Current, ReadOnly, Coherent
  <2>2. CASE u # t
    <3>1. job'[u] = job[u] /\ Busy(u)
      BY <2>2, <1>3, <1>6 DEF Continue, Fail, IInv, TypeOK, Busy
    <3> QED
      BY <3>1, <1>5, ReadOnlyOthers
  <2> QED
    BY <2>1, <2>2
<1> QED
  BY <1>4, <1>5, <1>6, ReadOnlyKeeps DEF IInv, JobsWellFormed, FreshIsCurrent

\* An account that answers a snapshot is open, so it was not removed.
LEMMA AttachSnapshotStep ==
  ASSUME IInv, NEW t \in Threads, AttachSnapshot(t)
  PROVE  IInv'
<1> DEFINE j == job[t]
           new == [j EXCEPT !.step = "baseline"]
<1>1. j \in Job /\ WellFormed(j) /\ j.op = "attach" /\ j.account \in Accounts
  BY JobType DEF AttachSnapshot, IInv, Busy, JobsWellFormed, WellFormed
<1>2. new \in Job
  BY <1>1 DEF Job
<1>3. PICK ok \in BOOLEAN :
        /\ Call(ok)
        /\ IF ok /\ acct[j.account] = "open" THEN Continue(t, "baseline") ELSE Fail(t)
  BY DEF AttachSnapshot
<1>4. TypeOK'
  <2>1. faults' \in 0 .. MaxFaults
    BY <1>3, Bounds DEF Call, IInv, TypeOK
  <2>2. job' \in [Threads -> Job \cup {Idle}]
    BY <1>3, <1>2 DEF Continue, Fail, IInv, TypeOK
  <2> QED
    BY <2>1, <2>2 DEF AttachSnapshot, IInv, TypeOK
<1>5. ReadOnly /\ acct' = acct /\ blind' = blind
  BY DEF AttachSnapshot, ReadOnly
<1>6. ASSUME NEW u \in Threads, Busy(u)'
      PROVE  WellFormed(job[u])' /\ (~job'[u].stale => Current(job[u])')
  <2>1. CASE u = t
    <3>1. job'[u] = new /\ acct[j.account] = "open"
      BY <2>1, <1>3, <1>6 DEF Continue, Fail, Busy, IInv, TypeOK
    <3>2. new.op = "attach" /\ new.step = "baseline" /\ new.portfolio = j.portfolio
            /\ new.account = j.account /\ new.copy = j.copy /\ new.stale = j.stale
      BY <1>1 DEF Job
    <3>3. ~j.stale => /\ row[j.portfolio] # NoRow
                      /\ blind \/ LinkedTo(j.account, j.portfolio) = {}
      BY DEF AttachSnapshot, IInv, FreshIsCurrent, Current, Busy
    <3>4. \A a, x : LinkedTo(a, x)' = LinkedTo(a, x)
      BY <1>5 DEF ReadOnly, LinkedTo, Linked
    <3>5. "attach" \notin Edits /\ j.account \notin removed
      BY <3>1 DEF Edits, IInv, RemovedAreClosed
    <3> QED
      BY <3>1, <3>2, <3>3, <3>4, <3>5, <1>1, <1>5
         DEF WellFormed, Current, ReadOnly, Coherent
  <2>2. CASE u # t
    <3>1. job'[u] = job[u] /\ Busy(u)
      BY <2>2, <1>3, <1>6 DEF Continue, Fail, IInv, TypeOK, Busy
    <3> QED
      BY <3>1, <1>5, ReadOnlyOthers
  <2> QED
    BY <2>1, <2>2
<1> QED
  BY <1>4, <1>5, <1>6, ReadOnlyKeeps DEF IInv, JobsWellFormed, FreshIsCurrent

\* The portfolio found on an account is the only one, or there is none.
LEMMA DropFindStep ==
  ASSUME IInv, NEW t \in Threads, DropFind(t)
  PROVE  IInv'
<1> DEFINE j == job[t]
<1>1. j \in Job /\ WellFormed(j) /\ j.op = "drop" /\ j.account \in Accounts
  BY JobType DEF DropFind, IInv, Busy, JobsWellFormed, WellFormed
<1>2. PICK ok \in BOOLEAN :
        /\ Call(ok) /\ blind' = (blind \/ ~ok)
        /\ IF ok /\ Victims(j.account) # {}
           THEN \E p \in Victims(j.account) :
                  job' = [job EXCEPT ![t].step = "delete", ![t].portfolio = p]
           ELSE Continue(t, "close")
  BY DEF DropFind
<1>3. \A a, x : LinkedTo(a, x)' = LinkedTo(a, x)
  BY DEF DropFind, LinkedTo, Linked
<1>4. "drop" \notin Edits
  BY DEF Edits
<1>5. PICK new \in Job :
        /\ job' = [job EXCEPT ![t] = new]
        /\ new.op = "drop" /\ new.account = j.account /\ new.copy = NoRow
        /\ \/ /\ new.step = "delete" /\ new.portfolio \in Portfolios
              /\ raced \/ blind \/ LinkedTo(j.account, None) \subseteq {new.portfolio}
           \/ new.step = "close" /\ (blind' \/ LinkedTo(j.account, None) = {})
  <2>1. CASE ok /\ Victims(j.account) # {}
    <3>1. PICK p \in Victims(j.account) :
            job' = [job EXCEPT ![t].step = "delete", ![t].portfolio = p]
      BY <1>2, <2>1
    <3> DEFINE new == [j EXCEPT !.step = "delete", !.portfolio = p]
    <3>2. p \in Portfolios /\ job' = [job EXCEPT ![t] = new]
      BY <3>1, DistinctNone DEF Victims, LinkedTo, IInv, TypeOK
    <3>3. new \in Job /\ new.op = "drop" /\ new.account = j.account /\ new.copy = NoRow
            /\ new.step = "delete" /\ new.portfolio = p
      BY <3>2, <1>1 DEF Job, WellFormed
    <3>4. raced \/ blind \/ LinkedTo(j.account, None) \subseteq {p}
      BY <3>1, <1>1 DEF Victims, IInv, LinksAreUnique, LinkIsUnique
    <3> QED
      BY <3>2, <3>3, <3>4
  <2>2. CASE ~(ok /\ Victims(j.account) # {})
    <3> DEFINE new == [j EXCEPT !.step = "close"]
    <3>1. new \in Job /\ new.op = "drop" /\ new.account = j.account /\ new.copy = NoRow
            /\ new.step = "close"
      BY <1>1 DEF Job, WellFormed
    <3>2. job' = [job EXCEPT ![t] = new]
      BY <1>2, <2>2 DEF Continue, IInv, TypeOK
    <3>3. blind' \/ LinkedTo(j.account, None) = {}
      BY <1>2, <2>2 DEF Victims
    <3> QED
      BY <3>1, <3>2, <3>3
  <2> QED
    BY <2>1, <2>2
<1>6. TypeOK'
  <2>1. blind' \in BOOLEAN
    BY <1>2, Zenon DEF IInv, TypeOK
  <2>2. faults' \in 0 .. MaxFaults
    BY <1>2, Bounds DEF Call, IInv, TypeOK
  <2> QED
    BY <2>1, <2>2, <1>5 DEF DropFind, IInv, TypeOK
<1>7. ReadOnly /\ acct' = acct
  BY <1>2 DEF DropFind, ReadOnly
<1>8. ASSUME NEW u \in Threads, Busy(u)'
      PROVE  WellFormed(job[u])' /\ (~job'[u].stale => Current(job[u])')
  <2>1. CASE u = t
    <3>1. job'[u] = new
      BY <2>1, <1>5 DEF IInv, TypeOK
    <3> QED
      BY <3>1, <1>1, <1>3, <1>4, <1>5, <1>7 DEF WellFormed, Current, ReadOnly
  <2>2. CASE u # t
    <3>1. job'[u] = job[u] /\ Busy(u)
      BY <2>2, <1>5, <1>8 DEF IInv, TypeOK, Busy
    <3> QED
      BY <3>1, <1>7, ReadOnlyOthers
  <2> QED
    BY <2>1, <2>2
<1> QED
  BY <1>6, <1>7, <1>8, ReadOnlyKeeps DEF IInv, JobsWellFormed, FreshIsCurrent

LEMMA CreateSandboxStep ==
  ASSUME IInv, NEW a \in Accounts, CreateSandboxAccount(a)
  PROVE  IInv'
<1>1. TypeOK'
  BY Bounds DEF CreateSandboxAccount, Request, Opened, IInv, TypeOK
<1>2. ReadOnly /\ job' = job
  BY DEF CreateSandboxAccount, ReadOnly
<1>3. \A b \in Accounts : acct[b] = "closed" => acct'[b] = "closed"
  BY DEF CreateSandboxAccount, IInv, TypeOK
<1>4. \A u \in Threads : Busy(u)' =>
        WellFormed(job[u])' /\ (~job'[u].stale => Current(job[u])')
  BY <1>2, ReadOnlyOthers DEF Busy
<1> QED
  BY <1>1, <1>2, <1>3, <1>4, ReadOnlyKeeps DEF IInv, JobsWellFormed, FreshIsCurrent

LEMMA ClearCloseStep ==
  ASSUME IInv, NEW t \in Threads, ClearClose(t)
  PROVE  IInv'
<1> DEFINE j == job[t]
           new == [j EXCEPT !.step = "open"]
<1>1. j \in Job /\ WellFormed(j) /\ j.op = "empty" /\ j.account \in Accounts
  BY JobType DEF ClearClose, IInv, Busy, JobsWellFormed, WellFormed
<1>2. new \in Job /\ new.op = "empty" /\ new.account = j.account /\ new.copy = NoRow
  BY <1>1 DEF Job, WellFormed
<1>3. PICK ok \in BOOLEAN :
        /\ Call(ok)
        /\ acct' = IF ok /\ acct[j.account] = "open"
                   THEN [acct EXCEPT ![j.account] = "closed"] ELSE acct
        /\ Continue(t, "open")
  BY DEF ClearClose
<1>4. job' = [job EXCEPT ![t] = new]
  BY <1>3 DEF Continue
<1>5. TypeOK'
  <2>1. faults' \in 0 .. MaxFaults
    BY <1>3, Bounds DEF Call, IInv, TypeOK
  <2>2. acct' \in [Accounts -> {"unused", "open", "closed"}]
    BY <1>1, <1>3 DEF IInv, TypeOK
  <2> QED
    BY <2>1, <2>2, <1>2, <1>4 DEF ClearClose, IInv, TypeOK
<1>6. ReadOnly /\ \A a \in Accounts : acct[a] = "closed" => acct'[a] = "closed"
  BY <1>1, <1>3 DEF ClearClose, ReadOnly, IInv, TypeOK
<1>7. ASSUME NEW u \in Threads, Busy(u)'
      PROVE  WellFormed(job[u])' /\ (~job'[u].stale => Current(job[u])')
  <2>1. CASE u = t
    <3>1. job'[u] = new /\ "empty" \notin Edits
      BY <2>1, <1>4 DEF IInv, TypeOK, Edits
    <3> QED
      BY <3>1, <1>1, <1>2 DEF WellFormed, Current
  <2>2. CASE u # t
    <3>1. job'[u] = job[u] /\ Busy(u)
      BY <2>2, <1>4, <1>7 DEF IInv, TypeOK, Busy
    <3> QED
      BY <3>1, <1>6, ReadOnlyOthers
  <2> QED
    BY <2>1, <2>2
<1> QED
  BY <1>5, <1>6, <1>7, ReadOnlyKeeps DEF IInv, JobsWellFormed, FreshIsCurrent

LEMMA ClearOpenStep ==
  ASSUME IInv, NEW t \in Threads, ClearOpen(t)
  PROVE  IInv'
<1>1. TypeOK'
  <2>1. faults' \in 0 .. MaxFaults
    BY Bounds DEF ClearOpen, Call, IInv, TypeOK
  <2>2. acct' \in [Accounts -> {"unused", "open", "closed"}]
    BY DEF ClearOpen, Opened, IInv, TypeOK
  <2> QED
    BY <2>1, <2>2 DEF ClearOpen, Fail, IInv, TypeOK
<1>2. ReadOnly /\ \A a \in Accounts : acct[a] = "closed" => acct'[a] = "closed"
  BY DEF ClearOpen, Opened, ReadOnly, IInv, TypeOK
<1>3. ASSUME NEW u \in Threads, Busy(u)'
      PROVE  WellFormed(job[u])' /\ (~job'[u].stale => Current(job[u])')
  <2>1. job'[u] = job[u] /\ Busy(u)
    BY <1>3 DEF ClearOpen, Fail, IInv, TypeOK, Busy
  <2> QED
    BY <2>1, <1>2, ReadOnlyOthers
<1> QED
  BY <1>1, <1>2, <1>3, ReadOnlyKeeps DEF IInv, JobsWellFormed, FreshIsCurrent

-----------------------------------------------------------------------------
\* A write of row p or of account a, as the other goroutines see it.  The links of
\* other accounts can only become fewer, as a portfolio is on one account.
WritesOnly(p, a) ==
  /\ \A q \in Portfolios : q # p => row'[q] = row[q]
  /\ \A b \in Accounts, q \in Portfolios : b # a /\ Linked(b, q)' => Linked(b, q)
  /\ removed' \subseteq removed \cup {a}
  /\ ids' = ids /\ blind' = blind /\ (raced => raced')

Noticed(u, p, a) ==
  IF Outdated(u, p, a) THEN [job[u] EXCEPT !.stale = TRUE] ELSE job[u]

LEMMA NoticedIsJob ==
  ASSUME TypeOK, NEW u \in Threads, NEW p, NEW a
  PROVE  Noticed(u, p, a) \in Job \cup {Idle}
<1>1. job[u] \in Job \cup {Idle}
  BY DEF TypeOK
<1>2. CASE Outdated(u, p, a)
  <2>1. job[u] \in Job
    BY <1>1, <1>2 DEF Outdated
  <2>2. [job[u] EXCEPT !.stale = TRUE] \in Job
    BY <2>1 DEF Job
  <2> QED
    BY <1>2, <2>2 DEF Noticed
<1> QED
  BY <1>1, <1>2 DEF Noticed

\* Whoever relied on what is written is stale from then on.
LEMMA WriteOthers ==
  ASSUME IInv, NEW p, NEW a, WritesOnly(p, a),
         NEW u \in Threads, Busy(u), job'[u] = Noticed(u, p, a)
  PROVE  /\ job'[u] \in Job
         /\ WellFormed(job[u])' /\ (~job'[u].stale => Current(job[u])')
<1> DEFINE j == job[u]
<1>1. j \in Job /\ WellFormed(j)
  BY JobType DEF IInv, JobsWellFormed
<1>2. /\ job'[u] \in Job
      /\ job'[u].op = j.op /\ job'[u].step = j.step /\ job'[u].portfolio = j.portfolio
      /\ job'[u].account = j.account /\ job'[u].copy = j.copy /\ job'[u].bond = j.bond
  BY <1>1 DEF Noticed, Job
<1>3. WellFormed(job[u])'
  BY <1>1, <1>2 DEF WritesOnly, WellFormed, Coherent
<1>4. ASSUME ~job'[u].stale
      PROVE  Current(job[u])'
  <2>1. ~Outdated(u, p, a) /\ ~j.stale /\ Current(j)
    BY <1>1, <1>4 DEF Noticed, Job, IInv, FreshIsCurrent
  <2>2. CASE j.op \in Edits
    <3>1. j.portfolio \in Portfolios /\ j.portfolio # p
      BY <1>1, <2>1, <2>2, NoRowIsNone DEF Outdated, Busy, WellFormed, IInv, TypeOK
    <3>2. j.op \notin {"attach", "drop"}
      BY <2>2 DEF Edits
    <3> QED
      BY <2>1, <2>2, <3>1, <3>2, <1>2 DEF Current, WritesOnly
  <2>3. CASE j.op = "attach"
    <3>0. j.account \in Accounts /\ j.account # None /\ j.copy # NoRow /\ j.portfolio \in ids
            /\ j.step # "find"
      BY <1>1, <2>3, NoRowIsNone, DistinctNone DEF WellFormed
    <3>1. /\ j.portfolio \in Portfolios /\ j.portfolio # p /\ j.account \in Accounts
          /\ j.step # "check" => j.account # a
      BY <3>0, <2>1, <2>3 DEF Outdated, Busy, IInv, TypeOK
    <3>2. "attach" \notin Edits
      BY DEF Edits
    <3>3. j.step # "check" /\ LinkedTo(j.account, j.portfolio) = {} =>
            LinkedTo(job[u].account, job[u].portfolio)' = {}
      BY <3>1, <1>2 DEF WritesOnly, LinkedTo
    <3> QED
      BY <2>1, <2>3, <3>1, <3>2, <3>3, <1>2 DEF Current, WritesOnly
  <2>4. CASE j.op = "drop" /\ j.step \in {"delete", "close"}
    <3>1. j.account \in Accounts /\ j.account # a
      BY <1>1, <2>1, <2>4, DistinctNone DEF Outdated, Busy, WellFormed
    <3>2. "drop" \notin Edits
      BY DEF Edits
    <3>3. LinkedTo(job[u].account, None)' \subseteq LinkedTo(j.account, None)
      BY <3>1, <1>2 DEF WritesOnly, LinkedTo
    <3> QED
      BY <2>1, <2>4, <3>1, <3>2, <3>3, <1>2 DEF Current, WritesOnly
  <2> QED
    BY <2>2, <2>3, <2>4, <1>2 DEF Current
<1> QED
  BY <1>2, <1>3, <1>4

\* The types after a Mark.
LEMMA MarkType ==
  ASSUME TypeOK, NEW t \in Threads, NEW next \in Job \cup {Idle}, NEW p, NEW a,
         Mark(t, next, p, a)
  PROVE  /\ job' \in [Threads -> Job \cup {Idle}]
         /\ job'[t] = next
         /\ \A u \in Threads \ {t} : job'[u] = Noticed(u, p, a)
<1>1. \A u \in Threads : Noticed(u, p, a) \in Job \cup {Idle}
  BY NoticedIsJob
<1> QED
  BY <1>1 DEF Mark, Noticed

LEMMA DeleteStep ==
  ASSUME IInv, NEW p \in Portfolios, DeletePortfolio(p)
  PROVE  IInv'
<1> DEFINE a == row[p].account
<1>1. row[p] \in Row
  BY DEF DeletePortfolio, IInv, TypeOK
<1>2. row' = [row EXCEPT ![p] = NoRow] /\ row'[p] = NoRow
  BY DEF DeletePortfolio, IInv, TypeOK
<1>3. \A b, q : q \in Portfolios /\ Linked(b, q)' => Linked(b, q)
  BY <1>2 DEF Linked, IInv, TypeOK
<1>4. WritesOnly(p, a)
  BY <1>2, <1>3 DEF WritesOnly, DeletePortfolio, IInv, TypeOK
<1>5. \A u \in Threads : job'[u] = Noticed(u, p, a)
  BY DEF DeletePortfolio, Noticed
<1>6. ASSUME NEW u \in Threads, Busy(u)'
      PROVE  WellFormed(job[u])' /\ (~job'[u].stale => Current(job[u])')
  <2>1. Busy(u)
    BY <1>5, <1>6 DEF Busy, Noticed, Outdated
  <2> QED
    BY <2>1, <1>4, <1>5, WriteOthers
<1>7. TypeOK'
  <2>1. \A u \in Threads : Noticed(u, p, a) \in Job \cup {Idle}
    BY NoticedIsJob DEF IInv
  <2>2. job' \in [Threads -> Job \cup {Idle}]
    BY <2>1 DEF DeletePortfolio, Noticed
  <2> QED
    BY <2>2, <1>2, Bounds DEF DeletePortfolio, Request, IInv, TypeOK
<1>8. RowsHaveIds' /\ ForecastIsOfAccount' /\ RemovedAreClosed'
  BY <1>2 DEF DeletePortfolio, IInv, TypeOK, RowsHaveIds, ForecastIsOfAccount, Coherent,
              RemovedAreClosed
<1>9. LinksAreUnique' /\ ClosedIsUnlinked'
  BY <1>3 DEF DeletePortfolio, IInv, LinksAreUnique, LinkIsUnique, ClosedIsUnlinked, LinkedTo
<1> QED
  BY <1>6, <1>7, <1>8, <1>9 DEF IInv, JobsWellFormed, FreshIsCurrent

\* Every edit keeps the account, or gives it up together with the forecast.
LEMMA EditedIsCoherent ==
  ASSUME NEW op \in Edits, NEW c \in Row, Coherent(c), NEW b \in Bonds,
         NEW d \in Edited(op, c, b)
  PROVE  /\ d \in Row /\ Coherent(d)
         /\ d.mode = "trading" => c.mode = "trading" /\ d.account = c.account
<1>1. CASE op = "detach"
  <2>1. d = [c EXCEPT !.mode = "simulation", !.account = None, !.forecast = None]
    BY <1>1 DEF Edited, Detached
  <2> QED
    BY <2>1 DEF Row, Coherent
<1>2. CASE op \in {"add", "remove", "compose"}
  <2>1. PICK S \in SUBSET Bonds : d = [c EXCEPT !.held = S]
    <3>1. CASE op = "add"
      BY <3>1 DEF Edited, Row
    <3>2. CASE op = "remove"
      BY <3>2 DEF Edited, Row
    <3>3. CASE op = "compose"
      BY <3>3 DEF Edited
    <3> QED
      BY <1>2, <3>1, <3>2, <3>3
  <2> QED
    BY <2>1 DEF Row, Coherent
<1>3. CASE op = "clear"
  <2>1. d = [c EXCEPT !.held = {}, !.confirmed = {}]
    BY <1>3 DEF Edited
  <2> QED
    BY <2>1 DEF Row, Coherent
<1>4. CASE op \in {"override", "reset", "plan"}
  <2>1. PICK S \in SUBSET Bonds : d = [c EXCEPT !.confirmed = S]
    <3>1. CASE op = "override"
      BY <3>1 DEF Edited, Row
    <3>2. CASE op = "reset"
      BY <3>2 DEF Edited
    <3>3. CASE op = "plan"
      BY <3>3 DEF Edited, Row
    <3> QED
      BY <1>4, <3>1, <3>2, <3>3
  <2> QED
    BY <2>1 DEF Row, Coherent
<1>5. CASE op \in {"fields", "acknowledge"}
  BY <1>5 DEF Edited
<1> QED
  BY <1>1, <1>2, <1>3, <1>4, <1>5 DEF Edits

LEMMA SaveEditStep ==
  ASSUME IInv, NEW t \in Threads, SaveEdit(t)
  PROVE  IInv'
<1> DEFINE j == job[t]
           p == j.portfolio
           a == j.copy.account
<1>1. /\ j \in Job /\ WellFormed(j) /\ j.op \in Edits /\ j.copy \in Row
      /\ Coherent(j.copy) /\ p \in ids /\ p \in Portfolios
  BY JobType DEF SaveEdit, IInv, TypeOK, Busy, JobsWellFormed, WellFormed
<1>2. PICK ok \in BOOLEAN :
        /\ Call(ok)
        /\ IF ok /\ ~(j.op = "reset" /\ j.copy.confirmed = {})
           THEN /\ \E c \in Edited(j.op, j.copy, j.bond) : row' = [row EXCEPT ![p] = c]
                /\ raced' = (raced \/ j.stale)
                /\ Mark(t, Idle, p, a)
           ELSE Fail(t) /\ UNCHANGED <<row, raced>>
  BY DEF SaveEdit
<1>3. faults' \in 0 .. MaxFaults
  BY <1>2, Bounds DEF Call, IInv, TypeOK
<1>4. CASE ~(ok /\ ~(j.op = "reset" /\ j.copy.confirmed = {}))
  <2>1. ReadOnly /\ acct' = acct /\ job' = [job EXCEPT ![t] = Idle]
    BY <1>2, <1>4 DEF SaveEdit, Fail, ReadOnly
  <2>2. TypeOK'
    BY <2>1, <1>3 DEF SaveEdit, ReadOnly, IInv, TypeOK
  <2>3. \A u \in Threads : Busy(u)' =>
          WellFormed(job[u])' /\ (~job'[u].stale => Current(job[u])')
    BY <2>1, ReadOnlyOthers DEF Busy, IInv, TypeOK
  <2> QED
    BY <2>1, <2>2, <2>3, ReadOnlyKeeps DEF IInv, JobsWellFormed, FreshIsCurrent
<1>5. CASE ok /\ ~(j.op = "reset" /\ j.copy.confirmed = {})
  <2>1. PICK c \in Edited(j.op, j.copy, j.bond) : row' = [row EXCEPT ![p] = c]
    BY <1>2, <1>5
  <2>2. Mark(t, Idle, p, a) /\ raced' = (raced \/ j.stale)
    BY <1>2, <1>5
  <2>3. /\ c \in Row /\ Coherent(c)
        /\ c.mode = "trading" => j.copy.mode = "trading" /\ c.account = a
    BY <1>1, <2>1, EditedIsCoherent DEF Job, WellFormed
  <2>4. row'[p] = c /\ c # NoRow /\ \A q \in Portfolios : q # p => row'[q] = row[q]
    BY <1>1, <2>1, <2>3, NoRowIsNone DEF IInv, TypeOK
  <2>5. WritesOnly(p, a)
    BY <2>2, <2>3, <2>4 DEF WritesOnly, SaveEdit, Linked
  <2>6. /\ job' \in [Threads -> Job \cup {Idle}] /\ job'[t] = Idle
        /\ \A u \in Threads \ {t} : job'[u] = Noticed(u, p, a)
    BY <2>2, MarkType DEF IInv
  <2>7. ASSUME NEW u \in Threads, Busy(u)'
        PROVE  WellFormed(job[u])' /\ (~job'[u].stale => Current(job[u])')
    <3>1. u # t /\ Busy(u)
      BY <2>6, <2>7 DEF Busy, Noticed, Outdated
    <3> QED
      BY <3>1, <2>5, <2>6, WriteOthers
  <2>8. TypeOK'
    <3>1. raced' \in BOOLEAN
      BY <2>2, <1>1, Zenon DEF IInv, TypeOK, Job
    <3> QED
      BY <3>1, <1>3, <2>1, <2>3, <2>6 DEF SaveEdit, IInv, TypeOK
  <2>9. RowsHaveIds' /\ ForecastIsOfAccount' /\ RemovedAreClosed'
    BY <1>1, <2>3, <2>4 DEF SaveEdit, IInv, RowsHaveIds, ForecastIsOfAccount, Coherent,
                            RemovedAreClosed
  <2>10. ~raced' => \A b, q : q \in Portfolios /\ Linked(b, q)' => Linked(b, q)
    <3>1. ~j.stale => row[p] = j.copy /\ j.copy # NoRow
      BY <1>1, NoRowIsNone DEF SaveEdit, IInv, FreshIsCurrent, Current, Busy
    <3> QED
      BY <3>1, <2>2, <2>3, <2>4 DEF Linked
  <2>11. LinksAreUnique' /\ ClosedIsUnlinked'
    BY <2>2, <2>10 DEF SaveEdit, IInv, LinksAreUnique, LinkIsUnique, ClosedIsUnlinked, LinkedTo
  <2> QED
    BY <2>7, <2>8, <2>9, <2>11 DEF IInv, JobsWellFormed, FreshIsCurrent
<1> QED
  BY <1>4, <1>5

\* The write of an attach, with the goroutine's job as a value.  The portfolio is
\* the only one on the account, or the goroutine was stale and raced says so.
LEMMA AttachWrite ==
  ASSUME IInv, NEW t \in Threads, NEW j \in Job, j = job[t], WellFormed(j),
         j.op = "attach", j.step \in {"baseline", "save"},
         NEW p \in Portfolios, p = j.portfolio, NEW a \in Accounts, a = j.account,
         ~j.stale => /\ row[p] # NoRow /\ a \notin removed
                     /\ blind \/ LinkedTo(a, p) = {},
         row' = [row EXCEPT ![p] = Attached(j)], raced' = (raced \/ j.stale),
         Mark(t, IF j.step = "baseline" THEN [j EXCEPT !.step = "save"] ELSE Idle, p, a),
         UNCHANGED <<ids, acct, requests, blind, removed>>, faults' \in 0 .. MaxFaults
  PROVE  IInv'
<1> DEFINE c == Attached(j)
           saved == [j EXCEPT !.step = "save"]
           next == IF j.step = "baseline" THEN saved ELSE Idle
<1>1. /\ saved \in Job /\ saved.op = "attach" /\ saved.step = "save" /\ saved.portfolio = p
      /\ saved.account = a /\ saved.copy = j.copy /\ saved.stale = j.stale
      /\ "attach" \notin Edits /\ j.copy \in Row /\ p \in ids /\ a # None
  BY DistinctNone DEF Job, Edits, WellFormed
<1>2. c \in Row /\ Coherent(c) /\ c.mode = "trading" /\ c.account = a
  BY <1>1 DEF Attached, Row, Coherent
<1>3. row'[p] = c /\ c # NoRow /\ \A q \in Portfolios : q # p => row'[q] = row[q]
  BY <1>2, NoRowIsNone DEF IInv, TypeOK
<1>4. WritesOnly(p, a)
  BY <1>2, <1>3 DEF WritesOnly, Linked
<1>5. /\ job' \in [Threads -> Job \cup {Idle}] /\ job'[t] = next
      /\ \A u \in Threads \ {t} : job'[u] = Noticed(u, p, a)
  BY <1>1, MarkType DEF IInv
<1>6. LinkedTo(a, p)' = LinkedTo(a, p)
  BY <1>3 DEF LinkedTo, Linked
<1>7. ASSUME NEW u \in Threads, Busy(u)'
      PROVE  WellFormed(job[u])' /\ (~job'[u].stale => Current(job[u])')
  <2>1. CASE u = t
    <3>1. job'[u] = saved
      BY <1>5, <1>7, <2>1 DEF Busy
    <3> QED
      BY <3>1, <1>1, <1>2, <1>3, <1>6 DEF WellFormed, Current, Coherent
  <2>2. CASE u # t
    <3>1. Busy(u)
      BY <1>5, <1>7, <2>2 DEF Busy, Noticed, Outdated
    <3> QED
      BY <3>1, <2>2, <1>4, <1>5, WriteOthers
  <2> QED
    BY <2>1, <2>2
<1>8. TypeOK'
  <2>1. raced' \in BOOLEAN
    BY Zenon DEF IInv, TypeOK, Job
  <2> QED
    BY <2>1, <1>2, <1>5 DEF IInv, TypeOK
<1>9. RowsHaveIds' /\ ForecastIsOfAccount' /\ RemovedAreClosed'
  BY <1>1, <1>2, <1>3 DEF IInv, RowsHaveIds, ForecastIsOfAccount, Coherent, RemovedAreClosed
<1>10. ASSUME ~raced', ~blind'
       PROVE  /\ \A b \in Accounts : LinkIsUnique(b)'
              /\ \A b \in removed' : LinkedTo(b, None)' = {}
  <2>1. /\ LinkedTo(a, p) = {} /\ a \notin removed
        /\ \A b \in Accounts : LinkIsUnique(b)
        /\ \A b \in removed : LinkedTo(b, None) = {}
    BY <1>10 DEF IInv, LinksAreUnique, ClosedIsUnlinked
  <2>2. LinkedTo(a, None)' \subseteq {p}
    BY <1>6, <2>1 DEF LinkedTo
  <2>3. \A b \in Accounts : b # a => LinkedTo(b, None)' \subseteq LinkedTo(b, None)
    BY <1>4 DEF WritesOnly, LinkedTo
  <2>4. removed \subseteq Accounts
    BY DEF IInv, TypeOK
  <2> QED
    BY <2>1, <2>2, <2>3, <2>4 DEF LinkIsUnique
<1>11. LinksAreUnique' /\ ClosedIsUnlinked'
  BY <1>10 DEF LinksAreUnique, ClosedIsUnlinked
<1> QED
  BY <1>7, <1>8, <1>9, <1>11 DEF IInv, JobsWellFormed, FreshIsCurrent

LEMMA AttachSaveStep ==
  ASSUME IInv, NEW t \in Threads, AttachSave(t)
  PROVE  IInv'
<1> DEFINE j == job[t]
           p == j.portfolio
           a == j.account
           c == Attached(j)
           saved == [j EXCEPT !.step = "save"]
<1>1. /\ j \in Job /\ WellFormed(j) /\ j.op = "attach" /\ j.step \in {"baseline", "save"}
      /\ j.copy \in Row /\ p \in ids /\ p \in Portfolios /\ a \in Accounts /\ a # None
  BY JobType, DistinctNone DEF AttachSave, IInv, TypeOK, Busy, JobsWellFormed, WellFormed
<1>2. /\ saved \in Job /\ saved.op = "attach" /\ saved.step = "save" /\ saved.portfolio = p
      /\ saved.account = a /\ saved.copy = j.copy /\ saved.stale = j.stale
      /\ "attach" \notin Edits
  BY <1>1 DEF Job, Edits
<1>3. ~j.stale => /\ row[p] # NoRow /\ a \notin removed
                  /\ blind \/ LinkedTo(a, p) = {}
  BY <1>1 DEF AttachSave, IInv, FreshIsCurrent, Current, Busy
<1>4. PICK ok \in BOOLEAN, changed \in BOOLEAN :
        /\ changed \/ j.step = "baseline"
        /\ Call(ok)
        /\ IF ~changed THEN ok /\ Continue(t, "save") /\ UNCHANGED <<row, raced>>
           ELSE IF ok
           THEN /\ row' = [row EXCEPT ![p] = c]
                /\ raced' = (raced \/ j.stale)
                /\ Mark(t, IF j.step = "baseline" THEN saved ELSE Idle, p, a)
           ELSE Fail(t) /\ UNCHANGED <<row, raced>>
  BY DEF AttachSave
<1>5. faults' \in 0 .. MaxFaults
  BY <1>4, Bounds DEF Call, IInv, TypeOK
<1>6. CASE ~changed \/ ~ok
  <2>1. ReadOnly /\ acct' = acct
    BY <1>4, <1>6 DEF AttachSave, ReadOnly
  <2>2. \/ ~changed /\ job' = [job EXCEPT ![t] = saved]
        \/ job' = [job EXCEPT ![t] = Idle]
    BY <1>4, <1>6 DEF Continue, Fail
  <2>3. TypeOK'
    BY <2>1, <2>2, <1>2, <1>5 DEF AttachSave, ReadOnly, IInv, TypeOK
  <2>4. ASSUME NEW u \in Threads, Busy(u)'
        PROVE  WellFormed(job[u])' /\ (~job'[u].stale => Current(job[u])')
    <3>1. CASE u = t
      <4>1. job'[u] = saved
        BY <2>2, <2>4, <3>1 DEF Busy, IInv, TypeOK
      <4>2. \A b, x : LinkedTo(b, x)' = LinkedTo(b, x)
        BY <2>1 DEF ReadOnly, LinkedTo, Linked
      <4> QED
        BY <4>1, <4>2, <2>1, <1>1, <1>2, <1>3 DEF WellFormed, Current, ReadOnly, Coherent
    <3>2. CASE u # t
      <4>1. job'[u] = job[u] /\ Busy(u)
        BY <2>2, <2>4, <3>2 DEF Busy, IInv, TypeOK
      <4> QED
        BY <4>1, <2>1, ReadOnlyOthers
    <3> QED
      BY <3>1, <3>2
  <2> QED
    BY <2>1, <2>3, <2>4, ReadOnlyKeeps DEF IInv, JobsWellFormed, FreshIsCurrent
<1>7. CASE changed /\ ok
  <2>1. /\ row' = [row EXCEPT ![p] = c] /\ raced' = (raced \/ j.stale)
        /\ Mark(t, IF j.step = "baseline" THEN saved ELSE Idle, p, a)
    BY <1>4, <1>7
  <2> HIDE DEF j
  <2>2. UNCHANGED <<ids, acct, requests, blind, removed>>
    BY DEF AttachSave
  <2> QED
    BY <2>1, <2>2, <1>1, <1>3, <1>5, AttachWrite DEF j
<1> QED
  BY <1>4, <1>6, <1>7

\* The row found on the account goes, and with it the last link.
LEMMA DropWrite ==
  ASSUME IInv, NEW t \in Threads, Busy(t), NEW j \in Job, j = job[t], WellFormed(j),
         j.op = "drop", j.step = "delete",
         NEW p \in Portfolios, p = j.portfolio, NEW a \in Accounts, a = j.account,
         row' = [row EXCEPT ![p] = NoRow],
         Mark(t, [j EXCEPT !.step = "close"], p, a),
         UNCHANGED <<ids, acct, requests, raced, blind, removed>>, faults' \in 0 .. MaxFaults
  PROVE  IInv'
<1> DEFINE next == [j EXCEPT !.step = "close"]
<1>1. /\ next \in Job /\ next.op = "drop" /\ next.step = "close" /\ next.account = a
      /\ next.copy = j.copy /\ next.stale = j.stale /\ "drop" \notin Edits
  BY DEF Job, Edits
<1>2. row'[p] = NoRow /\ \A q \in Portfolios : q # p => row'[q] = row[q]
  BY DEF IInv, TypeOK
<1>3. \A b, q : q \in Portfolios /\ Linked(b, q)' => Linked(b, q) /\ q # p
  BY <1>2 DEF Linked
<1>4. WritesOnly(p, a)
  BY <1>2, <1>3 DEF WritesOnly
<1>5. /\ job' \in [Threads -> Job \cup {Idle}] /\ job'[t] = next
      /\ \A u \in Threads \ {t} : job'[u] = Noticed(u, p, a)
  BY <1>1, MarkType DEF IInv
<1>6. ~j.stale => raced \/ blind \/ LinkedTo(a, None)' = {}
  <2>1. ~j.stale => raced \/ blind \/ LinkedTo(a, None) \subseteq {p}
    BY DEF IInv, FreshIsCurrent, Current
  <2> QED
    BY <2>1, <1>3 DEF LinkedTo
<1>7. ASSUME NEW u \in Threads, Busy(u)'
      PROVE  WellFormed(job[u])' /\ (~job'[u].stale => Current(job[u])')
  <2>1. CASE u = t
    BY <1>1, <1>5, <1>6, <2>1 DEF WellFormed, Current
  <2>2. CASE u # t
    <3>1. Busy(u)
      BY <1>5, <1>7, <2>2 DEF Busy, Noticed, Outdated
    <3> QED
      BY <3>1, <2>2, <1>4, <1>5, WriteOthers
  <2> QED
    BY <2>1, <2>2
<1>8. TypeOK'
  BY <1>5 DEF IInv, TypeOK
<1>9. RowsHaveIds' /\ ForecastIsOfAccount' /\ RemovedAreClosed'
  BY <1>2 DEF IInv, RowsHaveIds, ForecastIsOfAccount, Coherent, RemovedAreClosed
<1>10. LinksAreUnique' /\ ClosedIsUnlinked'
  BY <1>3 DEF IInv, LinksAreUnique, LinkIsUnique, ClosedIsUnlinked, LinkedTo
<1> QED
  BY <1>7, <1>8, <1>9, <1>10 DEF IInv, JobsWellFormed, FreshIsCurrent

\* The account is closed once nobody trades on it, or raced or blind says why not.
LEMMA CloseWrite ==
  ASSUME IInv, NEW t \in Threads, Busy(t), NEW j \in Job, j = job[t],
         j.op = "drop", j.step = "close", NEW a \in Accounts, a = j.account,
         acct' = [acct EXCEPT ![a] = "closed"], removed' = removed \cup {a},
         raced' = (raced \/ j.stale), Mark(t, Idle, None, a),
         UNCHANGED <<row, ids, requests, blind>>, faults' \in 0 .. MaxFaults
  PROVE  IInv'
<1>1. \A b, x : LinkedTo(b, x)' = LinkedTo(b, x)
  BY DEF LinkedTo, Linked
<1>2. WritesOnly(None, a)
  BY DEF WritesOnly, Linked
<1>3. /\ job' \in [Threads -> Job \cup {Idle}] /\ job'[t] = Idle
      /\ \A u \in Threads \ {t} : job'[u] = Noticed(u, None, a)
  <2>1. TypeOK /\ Mark(t, Idle, None, a) /\ Idle \in Job \cup {Idle}
    BY DEF IInv
  <2> QED
    BY <2>1, MarkType
<1>4. ~j.stale => raced \/ blind \/ LinkedTo(a, None) = {}
  BY DEF IInv, FreshIsCurrent, Current
<1>5. ASSUME NEW u \in Threads, Busy(u)'
      PROVE  WellFormed(job[u])' /\ (~job'[u].stale => Current(job[u])')
  <2>1. u # t /\ Busy(u)
    BY <1>3, <1>5 DEF Busy, Noticed, Outdated
  <2> QED
    BY <2>1, <1>2, <1>3, WriteOthers
<1>6. TypeOK'
  <2>1. raced' \in BOOLEAN
    BY Zenon DEF IInv, TypeOK, Job
  <2> QED
    BY <2>1, <1>3 DEF IInv, TypeOK
<1>7. RowsHaveIds' /\ ForecastIsOfAccount' /\ RemovedAreClosed'
  BY DEF IInv, TypeOK, RowsHaveIds, ForecastIsOfAccount, Coherent, RemovedAreClosed
<1>8. LinksAreUnique' /\ ClosedIsUnlinked'
  BY <1>1, <1>4 DEF IInv, LinksAreUnique, LinkIsUnique, ClosedIsUnlinked
<1> QED
  BY <1>5, <1>6, <1>7, <1>8 DEF IInv, JobsWellFormed, FreshIsCurrent

\* A goroutine that gives up takes only its own job with it.
LEMMA FailKeeps ==
  ASSUME IInv, NEW t \in Threads, Fail(t), UNCHANGED <<row, ids, acct, requests, raced, blind, removed>>,
         faults' \in 0 .. MaxFaults
  PROVE  IInv'
<1>1. ReadOnly /\ acct' = acct
  BY DEF ReadOnly
<1>2. TypeOK'
  BY DEF Fail, IInv, TypeOK
<1>3. \A u \in Threads : Busy(u)' => job'[u] = job[u] /\ Busy(u)
  BY DEF Fail, IInv, TypeOK, Busy
<1> QED
  BY <1>1, <1>2, <1>3, ReadOnlyKeeps, ReadOnlyOthers DEF IInv, JobsWellFormed, FreshIsCurrent

LEMMA DropDeleteStep ==
  ASSUME IInv, NEW t \in Threads, DropDelete(t)
  PROVE  IInv'
<1>1. /\ Busy(t) /\ job[t] \in Job /\ WellFormed(job[t])
      /\ job[t].op = "drop" /\ job[t].step = "delete"
      /\ job[t].portfolio \in Portfolios /\ job[t].account \in Accounts
  BY JobType DEF DropDelete, IInv, Busy, JobsWellFormed, WellFormed
<1>2. PICK ok \in BOOLEAN :
        /\ Call(ok)
        /\ IF ok
           THEN /\ row' = [row EXCEPT ![job[t].portfolio] = NoRow]
                /\ Mark(t, [job[t] EXCEPT !.step = "close"], job[t].portfolio, job[t].account)
           ELSE Fail(t) /\ UNCHANGED row
  BY DEF DropDelete
<1>3. faults' \in 0 .. MaxFaults
  BY <1>2, Bounds DEF Call, IInv, TypeOK
<1>4. UNCHANGED <<ids, acct, requests, raced, blind, removed>>
  BY DEF DropDelete
<1>5. CASE ok
  BY <1>1, <1>2, <1>3, <1>4, <1>5, DropWrite
<1>6. CASE ~ok
  BY <1>2, <1>3, <1>4, <1>6, FailKeeps
<1> QED
  BY <1>5, <1>6

LEMMA DropCloseStep ==
  ASSUME IInv, NEW t \in Threads, DropClose(t)
  PROVE  IInv'
<1>1. /\ Busy(t) /\ job[t] \in Job /\ job[t].op = "drop" /\ job[t].step = "close"
      /\ job[t].account \in Accounts
  BY JobType DEF DropClose, IInv, Busy, JobsWellFormed, WellFormed
<1>2. PICK ok \in BOOLEAN :
        /\ Call(ok)
        /\ IF ok /\ acct[job[t].account] = "open"
           THEN /\ acct' = [acct EXCEPT ![job[t].account] = "closed"]
                /\ removed' = removed \cup {job[t].account}
                /\ raced' = (raced \/ job[t].stale)
                /\ Mark(t, Idle, None, job[t].account)
           ELSE Fail(t) /\ UNCHANGED <<acct, removed, raced>>
  BY DEF DropClose
<1>3. faults' \in 0 .. MaxFaults
  BY <1>2, Bounds DEF Call, IInv, TypeOK
<1>4. UNCHANGED <<row, ids, requests, blind>>
  BY DEF DropClose
<1>5. CASE ok /\ acct[job[t].account] = "open"
  BY <1>1, <1>2, <1>3, <1>4, <1>5, CloseWrite
<1>6. CASE ~(ok /\ acct[job[t].account] = "open")
  BY <1>2, <1>3, <1>4, <1>6, FailKeeps
<1> QED
  BY <1>5, <1>6

LEMMA StutterStep == ASSUME IInv, UNCHANGED vars PROVE IInv'
<1>1. ReadOnly /\ acct' = acct /\ job' = job
  BY DEF vars, ReadOnly
<1>2. TypeOK'
  BY DEF vars, IInv, TypeOK
<1> QED
  BY <1>1, <1>2, ReadOnlyKeeps, ReadOnlyOthers DEF IInv, JobsWellFormed, FreshIsCurrent, Busy

LEMMA NextStep == ASSUME IInv, [Next]_vars PROVE IInv'
<1>1. CASE UNCHANGED vars
  BY <1>1, StutterStep
<1>2. ASSUME NEW p \in Portfolios, CreatePortfolio(p) \/ DeletePortfolio(p) PROVE IInv'
  BY <1>2, CreateStep, DeleteStep
<1>3. ASSUME NEW a \in Accounts, CreateSandboxAccount(a) PROVE IInv'
  BY <1>3, CreateSandboxStep
<1>4. ASSUME NEW t \in Threads,
             \/ \E p \in Portfolios, op \in Edits, b \in Bonds : BeginEdit(t, op, p, b)
             \/ SaveEdit(t)
      PROVE  IInv'
  BY <1>4, BeginEditStep, SaveEditStep
<1>5. ASSUME NEW t \in Threads,
             \/ \E p \in Portfolios, a \in Accounts : BeginAttach(t, p, a) \/ BeginClear(t, p, a)
             \/ AttachCheck(t) \/ AttachSnapshot(t) \/ AttachSave(t)
      PROVE  IInv'
  BY <1>5, BeginAttachStep, BeginClearStep, AttachCheckStep, AttachSnapshotStep, AttachSaveStep
<1>6. ASSUME NEW t \in Threads,
             \/ \E a \in Accounts : BeginDrop(t, a)
             \/ DropFind(t) \/ DropDelete(t) \/ DropClose(t)
             \/ ClearClose(t) \/ ClearOpen(t)
      PROVE  IInv'
  BY <1>6, BeginDropStep, DropFindStep, DropDeleteStep, DropCloseStep, ClearCloseStep, ClearOpenStep
<1> QED
  BY <1>1, <1>2, <1>3, <1>4, <1>5, <1>6 DEF Next

-----------------------------------------------------------------------------
\* IInv is an invariant: what fresh copies know survives every interleaving of
\* loads, checks, broker calls and saves.
THEOREM AccountsInvariant == Spec => []IInv
<1>1. Init => IInv
  BY InitIInv
<1>2. IInv /\ [Next]_vars => IInv'
  BY NextStep
<1> QED
  BY <1>1, <1>2, PTL DEF Spec

\* Rows, jobs, accounts and counters stay of their types.
THEOREM AccountsTyped == Spec => []TypeOK
<1>1. IInv => TypeOK
  BY DEF IInv
<1> QED
  BY <1>1, AccountsInvariant, PTL

\* Attach, detach and the saves of older copies never leave a frozen forecast of
\* one account on a portfolio that trades on another or on none.
THEOREM ForecastFollowsAccount == Spec => []ForecastIsOfAccount
<1>1. IInv => ForecastIsOfAccount
  BY DEF IInv
<1> QED
  BY <1>1, AccountsInvariant, PTL

\* AttachAccount and DeleteSandboxAccount check before they save; two portfolios
\* end on one account only when a save crossed another write or a query failed.
THEOREM OnePortfolioPerAccount == Spec => []AccountLinkedOnce
<1>1. ASSUME NEW S, \A p, q \in S : p = q PROVE Cardinality(S) <= 1
  <2>1. CASE S = {}
    BY <2>1, FS_EmptySet
  <2>2. CASE S # {}
    <3>1. PICK p : S = {p}
      BY <2>2, <1>1
    <3>2. Cardinality({p}) = 1
      BY FS_Singleton
    <3> QED
      BY <3>1, <3>2
  <2> QED
    BY <2>1, <2>2
<1>2. IInv => AccountLinkedOnce
  BY <1>1 DEF IInv, LinksAreUnique, LinkIsUnique, AccountLinkedOnce
<1> QED
  BY <1>2, AccountsInvariant, PTL

\* DeleteSandboxAccount removes the portfolio before it closes the account, so no
\* portfolio is left trading on a closed one, under the same two exceptions.
THEOREM ClosedAccountsAreFree == Spec => []ClosedIsUnlinked
<1>1. IInv => ClosedIsUnlinked
  BY DEF IInv
<1> QED
  BY <1>1, AccountsInvariant, PTL

\* Save is an upsert, so a save can bring a deleted row back; only one that was
\* based on an outdated copy does.
THEOREM OnlyRacesResurrect == Spec => DeletedStaysDeleted
<1> DEFINE Stays == \A p \in ids : row[p] = NoRow => row'[p] = NoRow \/ raced'
<1>1. ASSUME IInv, NEW t \in Threads, SaveEdit(t), NEW p \in ids, row[p] = NoRow
      PROVE  row'[p] = NoRow \/ raced'
  <2>1. Busy(t) /\ WellFormed(job[t]) /\ job[t].op \in Edits
    BY <1>1 DEF SaveEdit, IInv, JobsWellFormed, Busy
  <2>2. ~job[t].stale => row[job[t].portfolio] # NoRow
    BY <1>1, <2>1, NoRowIsNone DEF IInv, FreshIsCurrent, Current, WellFormed
  <2> QED
    BY <1>1, <2>2 DEF SaveEdit, IInv, TypeOK
<1>2. ASSUME IInv, NEW t \in Threads, AttachSave(t), NEW p \in ids, row[p] = NoRow
      PROVE  row'[p] = NoRow \/ raced'
  <2>1. ~job[t].stale => row[job[t].portfolio] # NoRow
    BY <1>2 DEF AttachSave, IInv, FreshIsCurrent, Current, Busy
  <2> QED
    BY <1>2, <2>1 DEF AttachSave, IInv, TypeOK
<1>3. ASSUME IInv, NEW q \in Portfolios, CreatePortfolio(q) \/ DeletePortfolio(q),
             NEW p \in ids, row[p] = NoRow
      PROVE  row'[p] = NoRow
  BY <1>3 DEF CreatePortfolio, NewId, DeletePortfolio, IInv, TypeOK
<1>4. ASSUME IInv, NEW t \in Threads, DropDelete(t), NEW p \in ids, row[p] = NoRow
      PROVE  row'[p] = NoRow
  BY <1>4 DEF DropDelete, IInv, TypeOK
<1>5. IInv /\ [Next]_vars => Stays
  <2>1. ASSUME NEW t \in Threads,
               \/ \E p \in Portfolios, op \in Edits, b \in Bonds : BeginEdit(t, op, p, b)
               \/ \E p \in Portfolios, a \in Accounts : BeginAttach(t, p, a) \/ BeginClear(t, p, a)
               \/ AttachCheck(t) \/ AttachSnapshot(t) \/ \E a \in Accounts : BeginDrop(t, a)
               \/ DropFind(t) \/ DropClose(t) \/ ClearClose(t) \/ ClearOpen(t)
        PROVE  row' = row
    BY <2>1 DEF BeginEdit, BeginAttach, BeginClear, AttachCheck, AttachSnapshot, BeginDrop,
                DropFind, DropClose, ClearClose, ClearOpen
  <2>2. ASSUME NEW a \in Accounts, CreateSandboxAccount(a) PROVE row' = row
    BY <2>2 DEF CreateSandboxAccount
  <2>3. UNCHANGED vars => row' = row
    BY DEF vars
  <2>4. [Next]_vars => \/ row' = row
                       \/ \E t \in Threads : SaveEdit(t) \/ AttachSave(t) \/ DropDelete(t)
                       \/ \E q \in Portfolios : CreatePortfolio(q) \/ DeletePortfolio(q)
    BY <2>1, <2>2, <2>3 DEF Next
  <2> QED
    BY <1>1, <1>2, <1>3, <1>4, <2>4
<1>6. IInv /\ [Next]_vars => [Stays]_vars
  BY <1>5
<1> QED
  BY <1>6, AccountsInvariant, PTL DEF Spec, DeletedStaysDeleted

-----------------------------------------------------------------------------
TokenTypeOK ==
  /\ now \in Nat /\ credential \in Token!Row \cup {None} /\ drawn \in Nat
  /\ plain \in [Token!Procs -> Token!Copies \cup {None}]
  /\ call \in [Token!Users -> Token!Calls \cup {Idle}]
  /\ stored \in [Tokens -> Nat]
  /\ overlapped \in BOOLEAN /\ unread \in BOOLEAN

\* A call is no longer than MaxGet, and a row it read was there when it began.
GoodCall(t) ==
  call[t] # Idle =>
    /\ call[t].began <= now /\ now - call[t].began <= MaxGet
    /\ call[t].op \in {"put", "delete"} => t \in Threads
    /\ call[t].pc = "write" => /\ call[t].op = "put" /\ call[t].id \in Nat
                               /\ call[t].token \in Tokens
    /\ call[t].pc = "open" =>
         call[t].row # None /\ call[t].began <= stored[call[t].row.token]

\* A copy is dated from the row it was opened from.
GoodCopy(p) ==
  plain[p] # None => plain[p].until <= stored[plain[p].token] + MaxGet + TTL

StoredInv ==
  /\ \A k \in Tokens : stored[k] <= now
  /\ credential # None => stored[credential.token] = now

\* While no write has overlapped another, one writes at a time, and finds the row as
\* it was when it chose the id to seal for.
SealInv ==
  ~overlapped /\ ~unread =>
    /\ \A t, u \in Threads : Token!Writing(t) /\ Token!Writing(u) => t = u
    /\ \A t \in Threads :
         call[t] # Idle /\ call[t].pc = "write" =>
           credential = None \/ call[t].id = credential.id
    /\ credential # None => Token!Opens(credential)

TokenInv ==
  /\ TokenTypeOK
  /\ \A t \in Token!Users : GoodCall(t)
  /\ \A p \in Token!Procs : GoodCopy(p)
  /\ StoredInv /\ SealInv
  /\ ServedIsRecent

-----------------------------------------------------------------------------

(* The broker token. *)

LEMMA TokenInit == Token!Init => TokenInv
<1> SUFFICES ASSUME Token!Init PROVE TokenInv
  OBVIOUS
<1> USE TokenAssumption DEF Token!Init
<1>1. credential = None \/ /\ credential \in Token!Row /\ credential.id = 0
                           /\ credential.sealed = 0 /\ credential.token \in Tokens
  <2> SUFFICES ASSUME NEW r \in [id : {0}, sealed : {0}, token : Tokens, trade : {FALSE},
                                checked : {FALSE}]
               PROVE  /\ r \in Token!Row /\ r.id = 0
                      /\ r.sealed = 0 /\ r.token \in Tokens
    OBVIOUS
  <2>1. /\ r = [id |-> r.id, sealed |-> r.sealed, token |-> r.token, trade |-> r.trade,
                checked |-> r.checked]
        /\ r.id = 0 /\ r.sealed = 0 /\ r.token \in Tokens
    OBVIOUS
  <2>2. r.trade \in {FALSE} /\ r.checked \in {FALSE}
    OBVIOUS
  <2>3. r.trade \in BOOLEAN /\ r.checked \in BOOLEAN
    BY <2>2
  <2> QED
    BY <2>1, <2>3 DEF Token!Row
<1>2. TokenTypeOK
  <2>1. now \in Nat /\ drawn \in Nat /\ credential \in Token!Row \cup {None}
    BY <1>1
  <2>2. /\ plain \in [Token!Procs -> Token!Copies \cup {None}]
        /\ call \in [Token!Users -> Token!Calls \cup {Idle}] /\ stored \in [Tokens -> Nat]
    OBVIOUS
  <2>3. overlapped \in BOOLEAN /\ unread \in BOOLEAN
    OBVIOUS
  <2> QED
    BY <2>1, <2>2, <2>3 DEF TokenTypeOK
<1>3. \A t \in Token!Users : GoodCall(t)
  BY DEF GoodCall
<1>4. \A p \in Token!Procs : GoodCopy(p)
  BY DEF GoodCopy
<1>5. StoredInv
  BY <1>1 DEF StoredInv
<1>6. SealInv
  BY <1>1 DEF SealInv, Token!Writing, Token!Opens, Token!Users
<1>7. ServedIsRecent
  BY DEF ServedIsRecent, Token!ServedIsRecent
<1> QED
  BY <1>2, <1>3, <1>4, <1>5, <1>6, <1>7 DEF TokenInv

LEMMA CallMoves ==
  ASSUME TokenTypeOK, NEW t \in Token!Users, NEW c \in Token!Calls \cup {Idle},
         call' = [call EXCEPT ![t] = c]
  PROVE  /\ call' \in [Token!Users -> Token!Calls \cup {Idle}] /\ call'[t] = c
         /\ \A u \in Token!Users \ {t} : call'[u] = call[u]
BY DEF TokenTypeOK

\* A step of one goroutine leaves the calls of the others as they are.
LEMMA TokenStepOf ==
  ASSUME TokenInv, NEW t \in Token!Users, UNCHANGED now, drawn' \in Nat,
         stored' \in [Tokens -> Nat], \A k \in Tokens : stored'[k] >= stored[k],
         credential' \in Token!Row \cup {None},
         plain' \in [Token!Procs -> Token!Copies \cup {None}],
         call' \in [Token!Users -> Token!Calls \cup {Idle}],
         \A u \in Token!Users \ {t} : call'[u] = call[u],
         overlapped' \in BOOLEAN, unread' \in BOOLEAN,
         GoodCall(t)', \A p \in Token!Procs : GoodCopy(p)',
         StoredInv', SealInv', ServedIsRecent'
  PROVE  TokenInv'
<1>1. TokenTypeOK'
  BY DEF TokenInv, TokenTypeOK, Token!Row, Token!Procs, Token!Users, Token!Calls, Token!Copies
<1>2. ASSUME NEW u \in Token!Users PROVE GoodCall(u)'
  <2>1. CASE u = t
    BY <2>1
  <2>2. CASE u # t
    <3>1. call'[u] = call[u] /\ GoodCall(u)
      BY <2>2 DEF TokenInv
    <3>2. ASSUME call[u] # Idle, call[u].pc = "open"
          PROVE  call[u].row # None /\ call[u].began <= stored'[call[u].row.token]
      <4>1. /\ call[u].row # None /\ call[u].began <= stored[call[u].row.token]
            /\ call[u].row \in Token!Row /\ call[u].began \in Nat
        BY <3>1, <3>2 DEF TokenInv, TokenTypeOK, GoodCall, Token!Calls
      <4>2. call[u].row.token \in Tokens
        BY <4>1 DEF Token!Row
      <4>3. stored[call[u].row.token] \in Nat /\ stored'[call[u].row.token] \in Nat
        BY <4>2 DEF TokenInv, TokenTypeOK
      <4> QED
        BY <4>1, <4>2, <4>3
    <3> QED
      BY <3>1, <3>2 DEF GoodCall
  <2> QED
    BY <2>1, <2>2
<1>3. \A p \in Token!Procs : GoodCopy(p)'
  OBVIOUS
<1> QED
  BY <1>1, <1>2, <1>3 DEF TokenInv, Token!Users, Token!Procs

\* What a step leaves alone keeps its part of the invariant.
LEMMA TokenRest ==
  ASSUME TokenInv, UNCHANGED <<now, stored>>
  PROVE  /\ plain' = plain => /\ plain' \in [Token!Procs -> Token!Copies \cup {None}]
                              /\ \A p \in Token!Procs : GoodCopy(p)'
         /\ credential' = credential => /\ credential' \in Token!Row \cup {None}
                                        /\ StoredInv'
         /\ drawn' = drawn => drawn' \in Nat
         /\ overlapped' = overlapped => overlapped' \in BOOLEAN
         /\ unread' = unread => unread' \in BOOLEAN
         /\ served' = 0 => ServedIsRecent'
         /\ stored' \in [Tokens -> Nat] /\ \A k \in Tokens : stored'[k] >= stored[k]
<1>1. plain' = plain => /\ plain' \in [Token!Procs -> Token!Copies \cup {None}]
                        /\ \A p \in Token!Procs : GoodCopy(p)'
  BY DEF TokenInv, TokenTypeOK, GoodCopy
<1>2. credential' = credential => /\ credential' \in Token!Row \cup {None}
                                  /\ StoredInv'
  BY DEF TokenInv, TokenTypeOK, StoredInv
<1>3. /\ drawn' = drawn => drawn' \in Nat
      /\ overlapped' = overlapped => overlapped' \in BOOLEAN
      /\ unread' = unread => unread' \in BOOLEAN
  BY DEF TokenInv, TokenTypeOK
<1>4. served' = 0 => ServedIsRecent'
  BY TokenAssumption DEF ServedIsRecent, Token!ServedIsRecent
<1>5. stored' \in [Tokens -> Nat] /\ \A k \in Tokens : stored'[k] >= stored[k]
  BY DEF TokenInv, TokenTypeOK
<1> QED
  BY <1>1, <1>2, <1>3, <1>4, <1>5

\* Calls that do not write leave the seal alone.
LEMMA SealStays ==
  ASSUME TokenInv, NEW t \in Token!Users, UNCHANGED <<overlapped, unread>>,
         \A u \in Token!Users \ {t} : call'[u] = call[u],
         call'[t] = Idle \/ (call'[t].op \notin {"put", "delete"} /\ call'[t].pc # "write"),
         \/ credential' = credential
         \/ /\ credential # None /\ credential' # None
            /\ credential'.id = credential.id /\ credential'.sealed = credential.sealed
  PROVE  SealInv'
<1> SUFFICES ASSUME ~overlapped, ~unread
             PROVE  /\ \A u, v \in Threads :
                         Token!Writing(u)' /\ Token!Writing(v)' => u = v
                    /\ \A u \in Threads :
                         call'[u] # Idle /\ call'[u].pc = "write" =>
                           credential' = None \/ call'[u].id = credential'.id
                    /\ credential' # None => Token!Opens(credential')
  BY DEF SealInv, Token!Opens
<1>1. /\ \A u, v \in Threads : Token!Writing(u) /\ Token!Writing(v) => u = v
      /\ \A u \in Threads :
           call[u] # Idle /\ call[u].pc = "write" =>
             credential = None \/ call[u].id = credential.id
      /\ credential # None => Token!Opens(credential)
  BY DEF TokenInv, SealInv
<1>2. ASSUME NEW u \in Threads, Token!Writing(u)'
      PROVE  u # t /\ call'[u] = call[u] /\ Token!Writing(u)
  BY <1>2 DEF Token!Writing, Token!Users
<1>3. \A u, v \in Threads : Token!Writing(u)' /\ Token!Writing(v)' => u = v
  BY <1>1, <1>2
<1>4. ASSUME NEW u \in Threads, call'[u] # Idle, call'[u].pc = "write"
      PROVE  credential' = None \/ call'[u].id = credential'.id
  <2>1. call'[u] = call[u]
    BY <1>4 DEF Token!Users
  <2> QED
    BY <1>1, <1>4, <2>1
<1>5. credential' # None => Token!Opens(credential')
  BY <1>1 DEF Token!Opens
<1> QED
  BY <1>3, <1>4, <1>5

-----------------------------------------------------------------------------
(* The steps of a Put or Delete. *)

LEMMA PutBeginKeeps ==
  ASSUME TokenInv, NEW t \in Token!Users, Token!PutBegin(t)
  PROVE  TokenInv'
<1> USE TokenAssumption
<1>0. TokenTypeOK /\ t \in Threads /\ call[t] = Idle
  BY DEF TokenInv, Token!PutBegin
<1>1. /\ UNCHANGED <<now, stored>> /\ credential' = credential /\ plain' = plain
      /\ drawn' = drawn + 1 /\ served' = 0
      /\ overlapped' = (overlapped \/ \E u \in Threads : Token!Writing(u))
  BY DEF Token!PutBegin
<1>a. PICK token \in Tokens :
        \E answer \in Token!Answers(token) : \E existing \in {credential, None} :
          /\ IF existing = credential THEN UNCHANGED <<unread, faults>>
             ELSE unread' = TRUE /\ Token!Fail
          /\ call' = [call EXCEPT ![t] =
                        [op |-> "put", pc |-> "write", token |-> token, row |-> None,
                         trade |-> Token!TokenCanTrade(answer),
                         id |-> Token!CredentialId(existing), began |-> now]]
  BY DEF Token!PutBegin
<1>2. PICK answer \in Token!Answers(token), existing \in {credential, None} :
        /\ IF existing = credential THEN UNCHANGED <<unread, faults>>
           ELSE unread' = TRUE /\ Token!Fail
        /\ call' = [call EXCEPT ![t] =
                      [op |-> "put", pc |-> "write", token |-> token, row |-> None,
                       trade |-> Token!TokenCanTrade(answer),
                       id |-> Token!CredentialId(existing), began |-> now]]
  BY <1>a
<1> DEFINE c == [op |-> "put", pc |-> "write", token |-> token, row |-> None,
                 trade |-> Token!TokenCanTrade(answer),
                 id |-> Token!CredentialId(existing), began |-> now]
<1>3. Token!CredentialId(existing) \in Nat /\ Token!TokenCanTrade(answer) \in BOOLEAN
  BY <1>0 DEF Token!CredentialId, Token!TokenCanTrade, TokenTypeOK, Token!Row
<1>4. /\ c \in Token!Calls /\ c.op = "put" /\ c.pc = "write" /\ c.began = now
      /\ c.id = Token!CredentialId(existing) /\ c.token = token
      /\ c.id \in Nat
  BY <1>0, <1>3 DEF Token!Calls, TokenTypeOK
<1>5. call' = [call EXCEPT ![t] = c]
  BY <1>2
<1> HIDE DEF c
<1>6. /\ call' \in [Token!Users -> Token!Calls \cup {Idle}] /\ call'[t] = c
      /\ \A u \in Token!Users \ {t} : call'[u] = call[u]
  BY <1>0, <1>4, <1>5, CallMoves
<1>7. drawn' \in Nat /\ overlapped' \in BOOLEAN /\ unread' \in BOOLEAN
  <2>1. unread' = unread \/ unread' = TRUE
    BY <1>2
  <2>2. unread' \in BOOLEAN
    BY <1>0, <2>1 DEF TokenTypeOK
  <2>3. overlapped' \in BOOLEAN
    BY <1>1
  <2> QED
    BY <1>0, <1>1, <2>2, <2>3 DEF TokenTypeOK
<1>8. GoodCall(t)'
  BY <1>0, <1>1, <1>4, <1>6 DEF GoodCall, TokenTypeOK
<1>9. SealInv'
  <2> SUFFICES ASSUME ~overlapped', ~unread' PROVE SealInv'
    BY DEF SealInv
  <2>1. existing = credential /\ ~overlapped /\ ~unread /\ \A u \in Threads : ~Token!Writing(u)
    BY <1>1, <1>2
  <2>2. \A u \in Threads \ {t} : call'[u] = call[u] /\ ~Token!Writing(u)'
    BY <1>6, <2>1 DEF Token!Writing, Token!Users
  <2>3. \A u, v \in Threads : Token!Writing(u)' /\ Token!Writing(v)' => u = v
    BY <2>2
  <2>4. ASSUME NEW u \in Threads, call'[u] # Idle, call'[u].pc = "write"
        PROVE  credential' = None \/ call'[u].id = credential'.id
    <3>1. CASE u = t
      BY <1>1, <1>4, <1>6, <2>1, <3>1 DEF Token!CredentialId
    <3>2. CASE u # t
      BY <1>1, <2>1, <2>2, <2>4, <3>2 DEF TokenInv, SealInv
    <3> QED
      BY <3>1, <3>2
  <2>5. credential' # None => Token!Opens(credential)'
    BY <1>1, <2>1 DEF TokenInv, SealInv, Token!Opens
  <2> QED
    BY <2>3, <2>4, <2>5 DEF SealInv
<1> QED
  BY <1>1, <1>6, <1>7, <1>8, <1>9, TokenStepOf, TokenRest

LEMMA PutWriteKeeps ==
  ASSUME TokenInv, NEW t \in Token!Users, Token!PutWrite(t)
  PROVE  TokenInv'
<1> USE TokenAssumption
<1>0. /\ TokenTypeOK /\ call[t] # Idle /\ call[t] \in Token!Calls /\ GoodCall(t)
      /\ call[t].op = "put" /\ call[t].pc = "write" /\ t \in Threads
      /\ call[t].id \in Nat /\ call[t].token \in Tokens
  BY DEF TokenInv, TokenTypeOK, GoodCall, Token!PutWrite
<1> DEFINE r == [id |-> IF credential = None THEN call[t].id ELSE credential.id,
                 sealed |-> call[t].id, token |-> call[t].token,
                 trade |-> call[t].trade, checked |-> TRUE]
           c == [call[t] EXCEPT !.pc = "invalidate"]
<1>1. /\ UNCHANGED <<now, drawn, plain, overlapped, unread>>
      /\ credential' = r /\ stored' = [stored EXCEPT ![call[t].token] = now]
      /\ call' = [call EXCEPT ![t] = c] /\ served' = 0
  BY DEF Token!PutWrite
<1>2. /\ r \in Token!Row /\ r.token = call[t].token /\ r.sealed = call[t].id
      /\ r.id = IF credential = None THEN call[t].id ELSE credential.id
  <2>1. call[t].trade \in BOOLEAN
    BY <1>0 DEF Token!Calls
  <2>2. (IF credential = None THEN call[t].id ELSE credential.id) \in Nat
    BY <1>0 DEF TokenTypeOK, Token!Row
  <2> QED
    BY <1>0, <2>1, <2>2 DEF Token!Row
<1>3. /\ c \in Token!Calls /\ c.pc = "invalidate" /\ c.op = "put" /\ c.began = call[t].began
  BY <1>0 DEF Token!Calls
<1> HIDE DEF r, c
<1>4. /\ call' \in [Token!Users -> Token!Calls \cup {Idle}] /\ call'[t] = c
      /\ \A u \in Token!Users \ {t} : call'[u] = call[u]
  BY <1>0, <1>1, <1>3, CallMoves
<1>5. /\ stored' \in [Tokens -> Nat] /\ \A k \in Tokens : stored'[k] >= stored[k]
      /\ stored'[call[t].token] = now
      /\ \A k \in Tokens : stored'[k] <= now
      /\ now \in Nat
  BY <1>0, <1>1 DEF TokenInv, TokenTypeOK, StoredInv
<1>6. GoodCall(t)'
  BY <1>0, <1>1, <1>3, <1>4 DEF GoodCall
<1>7. ASSUME NEW p \in Token!Procs PROVE GoodCopy(p)'
  <2> SUFFICES ASSUME plain[p] # None
               PROVE  plain[p].until <= stored'[plain[p].token] + MaxGet + TTL
    BY <1>1 DEF GoodCopy
  <2>1. /\ plain[p] \in Token!Copies
        /\ plain[p].until <= stored[plain[p].token] + MaxGet + TTL
    BY DEF TokenInv, TokenTypeOK, GoodCopy
  <2>2. plain[p].token \in Tokens /\ plain[p].until \in Nat
    BY <2>1 DEF Token!Copies
  <2>3. /\ stored[plain[p].token] \in Nat /\ stored'[plain[p].token] \in Nat
        /\ stored'[plain[p].token] >= stored[plain[p].token]
    BY <1>5, <2>2 DEF TokenInv, TokenTypeOK
  <2> QED
    BY <2>1, <2>2, <2>3
<1>8. StoredInv'
  BY <1>1, <1>2, <1>5 DEF StoredInv
<1>9. SealInv'
  <2> SUFFICES ASSUME ~overlapped, ~unread PROVE SealInv'
    BY <1>1 DEF SealInv
  <2>1. /\ \A u, v \in Threads : Token!Writing(u) /\ Token!Writing(v) => u = v
        /\ credential = None \/ call[t].id = credential.id
    BY <1>0 DEF TokenInv, SealInv
  <2>2. Token!Writing(t)
    BY <1>0 DEF Token!Writing
  <2>3. \A u \in Threads \ {t} : call'[u] = call[u] /\ ~Token!Writing(u) /\ ~Token!Writing(u)'
    BY <1>0, <1>4, <2>1, <2>2 DEF Token!Writing, Token!Users
  <2>4. \A u, v \in Threads : Token!Writing(u)' /\ Token!Writing(v)' => u = v
    BY <2>3
  <2>5. ASSUME NEW u \in Threads, call'[u] # Idle, call'[u].pc = "write" PROVE FALSE
    <3>1. u # t
      BY <1>3, <1>4, <2>5
    <3>2. call[u].op = "put"
      BY <2>3, <2>5, <3>1 DEF TokenInv, GoodCall, Token!Users
    <3> QED
      BY <2>3, <2>5, <3>1, <3>2 DEF Token!Writing
  <2>6. Token!Opens(credential)'
    BY <1>1, <1>2, <2>1 DEF Token!Opens
  <2> QED
    BY <2>4, <2>5, <2>6 DEF SealInv
<1>10. /\ credential' \in Token!Row \cup {None} /\ drawn' \in Nat
       /\ plain' \in [Token!Procs -> Token!Copies \cup {None}]
       /\ overlapped' \in BOOLEAN /\ unread' \in BOOLEAN /\ UNCHANGED now
  BY <1>0, <1>1, <1>2 DEF TokenTypeOK
<1>11. ServedIsRecent'
  BY <1>1 DEF ServedIsRecent, Token!ServedIsRecent
<1> QED
  BY <1>4, <1>5, <1>6, <1>7, <1>8, <1>9, <1>10, <1>11, TokenStepOf

\* A call ends.
LEMMA CallEnds ==
  ASSUME TokenInv, NEW t \in Token!Users, call' = [call EXCEPT ![t] = Idle],
         UNCHANGED <<now, stored, overlapped, unread>>,
         \/ credential' = credential
         \/ /\ credential # None /\ credential' # None
            /\ credential'.id = credential.id /\ credential'.sealed = credential.sealed
  PROVE  /\ call' \in [Token!Users -> Token!Calls \cup {Idle}]
         /\ \A u \in Token!Users \ {t} : call'[u] = call[u]
         /\ GoodCall(t)' /\ SealInv' /\ overlapped' \in BOOLEAN /\ unread' \in BOOLEAN
<1>1. /\ call' \in [Token!Users -> Token!Calls \cup {Idle}] /\ call'[t] = Idle
      /\ \A u \in Token!Users \ {t} : call'[u] = call[u]
  BY CallMoves DEF TokenInv
<1>2. SealInv'
  BY <1>1, SealStays
<1>3. GoodCall(t)'
  BY <1>1 DEF GoodCall
<1>4. overlapped' \in BOOLEAN /\ unread' \in BOOLEAN
  BY DEF TokenInv, TokenTypeOK
<1> QED
  BY <1>1, <1>2, <1>3, <1>4

LEMMA PutFailsKeeps ==
  ASSUME TokenInv, NEW t \in Token!Users, Token!PutFails(t)
  PROVE  TokenInv'
<1>1. /\ UNCHANGED <<now, stored, overlapped, unread>> /\ UNCHANGED <<now, stored>>
      /\ UNCHANGED now /\ credential' = credential /\ plain' = plain /\ drawn' = drawn
      /\ call' = [call EXCEPT ![t] = Idle] /\ served' = 0
  BY DEF Token!PutFails
<1>2. /\ call' \in [Token!Users -> Token!Calls \cup {Idle}]
      /\ \A u \in Token!Users \ {t} : call'[u] = call[u]
      /\ GoodCall(t)' /\ SealInv' /\ overlapped' \in BOOLEAN /\ unread' \in BOOLEAN
  BY <1>1, CallEnds
<1> QED
  BY <1>1, <1>2, TokenStepOf, TokenRest

LEMMA DeleteRowKeeps ==
  ASSUME TokenInv, NEW t \in Token!Users, Token!DeleteRow(t)
  PROVE  TokenInv'
<1> USE TokenAssumption
<1>0. TokenTypeOK /\ t \in Threads /\ call[t] = Idle
  BY DEF TokenInv, Token!DeleteRow
<1> DEFINE c == [op |-> "delete", pc |-> "invalidate", token |-> None, row |-> None,
                 trade |-> FALSE, id |-> None, began |-> now]
<1>1. /\ UNCHANGED <<now, stored>> /\ UNCHANGED now /\ plain' = plain /\ drawn' = drawn
      /\ credential' = None /\ served' = 0 /\ call' = [call EXCEPT ![t] = c]
      /\ overlapped' = (overlapped \/ \E u \in Threads : Token!Writing(u))
      /\ unread' = unread
  BY DEF Token!DeleteRow
<1>2. c \in Token!Calls /\ c.op = "delete" /\ c.pc = "invalidate" /\ c.began = now
  BY <1>0 DEF Token!Calls, TokenTypeOK
<1> HIDE DEF c
<1>3. /\ call' \in [Token!Users -> Token!Calls \cup {Idle}] /\ call'[t] = c
      /\ \A u \in Token!Users \ {t} : call'[u] = call[u]
  BY <1>0, <1>1, <1>2, CallMoves
<1>4. GoodCall(t)'
  BY <1>0, <1>1, <1>2, <1>3 DEF GoodCall, TokenTypeOK
<1>5. credential' \in Token!Row \cup {None} /\ StoredInv'
  BY <1>1 DEF TokenInv, StoredInv
<1>6. SealInv'
  <2> SUFFICES ASSUME ~overlapped', ~unread' PROVE SealInv'
    BY DEF SealInv
  <2>1. ~overlapped /\ \A u \in Threads : ~Token!Writing(u)
    BY <1>1
  <2>2. \A u \in Threads \ {t} : ~Token!Writing(u)'
    BY <1>3, <2>1 DEF Token!Writing, Token!Users
  <2> QED
    BY <1>1, <2>2 DEF SealInv
<1>7. overlapped' \in BOOLEAN /\ unread' \in BOOLEAN
  <2>1. overlapped' \in BOOLEAN
    BY <1>1
  <2> QED
    BY <1>0, <1>1, <2>1 DEF TokenTypeOK
<1> QED
  BY <1>1, <1>3, <1>4, <1>5, <1>6, <1>7, TokenStepOf, TokenRest

LEMMA InvalidateKeeps ==
  ASSUME TokenInv, NEW t \in Token!Users, Token!Invalidate(t)
  PROVE  TokenInv'
<1>1. /\ UNCHANGED <<now, stored, overlapped, unread>> /\ UNCHANGED <<now, stored>>
      /\ UNCHANGED now /\ credential' = credential /\ drawn' = drawn
      /\ plain' = [plain EXCEPT !["api"] = None]
      /\ call' = [call EXCEPT ![t] = Idle] /\ served' = 0
  BY DEF Token!Invalidate
<1>2. /\ call' \in [Token!Users -> Token!Calls \cup {Idle}]
      /\ \A u \in Token!Users \ {t} : call'[u] = call[u]
      /\ GoodCall(t)' /\ SealInv' /\ overlapped' \in BOOLEAN /\ unread' \in BOOLEAN
  BY <1>1, CallEnds
<1>3. /\ plain' \in [Token!Procs -> Token!Copies \cup {None}]
      /\ \A p \in Token!Procs : plain'[p] = None \/ plain'[p] = plain[p]
  BY <1>1 DEF TokenInv, TokenTypeOK
<1>4. \A p \in Token!Procs : GoodCopy(p)'
  BY <1>1, <1>3 DEF TokenInv, GoodCopy
<1> QED
  BY <1>1, <1>2, <1>3, <1>4, TokenStepOf, TokenRest

-----------------------------------------------------------------------------
(* The steps of GetPlaintext, and of a probe. *)

\* The token goes to the broker, or to the probe.
LEMMA GivenKeeps ==
  ASSUME TokenInv, NEW t \in Token!Users, NEW op, NEW token \in Tokens,
         Token!Given(t, op, token), UNCHANGED <<now, credential, drawn, stored, overlapped, unread>>,
         plain' \in [Token!Procs -> Token!Copies \cup {None}],
         \A p \in Token!Procs : GoodCopy(p)',
         now - stored[token] < TTL + MaxGet
  PROVE  TokenInv'
<1> USE TokenAssumption
<1>1. /\ UNCHANGED <<now, stored, overlapped, unread>> /\ UNCHANGED <<now, stored>>
      /\ UNCHANGED now /\ credential' = credential /\ drawn' = drawn /\ TokenTypeOK
      /\ UNCHANGED <<overlapped, unread>>
  BY DEF TokenInv
<1>2. CASE op = "probe"
  <2> DEFINE c == [op |-> "probe", pc |-> "list", token |-> token, row |-> None,
                   trade |-> FALSE, id |-> None, began |-> now]
  <2>1. call' = [call EXCEPT ![t] = c] /\ served' = 0
    BY <1>2 DEF Token!Given
  <2>2. c \in Token!Calls /\ c.op = "probe" /\ c.pc = "list" /\ c.began = now
    BY <1>1 DEF Token!Calls, TokenTypeOK
  <2> HIDE DEF c
  <2>3. /\ call' \in [Token!Users -> Token!Calls \cup {Idle}] /\ call'[t] = c
        /\ \A u \in Token!Users \ {t} : call'[u] = call[u]
    BY <1>1, <2>1, <2>2, CallMoves
  <2>4. GoodCall(t)'
    BY <1>1, <2>2, <2>3 DEF GoodCall, TokenTypeOK
  <2>5. call'[t] = Idle \/ (call'[t].op \notin {"put", "delete"} /\ call'[t].pc # "write")
    BY <2>2, <2>3
  <2>6. SealInv'
    BY <1>1, <2>3, <2>5, SealStays
  <2>7. overlapped' \in BOOLEAN /\ unread' \in BOOLEAN
    BY <1>1 DEF TokenTypeOK
  <2> QED
    BY <1>1, <2>1, <2>3, <2>4, <2>6, <2>7, TokenStepOf, TokenRest
<1>3. CASE op # "probe"
  <2>1. call' = [call EXCEPT ![t] = Idle] /\ served' = now - stored[token]
    BY <1>3 DEF Token!Given
  <2>2. /\ call' \in [Token!Users -> Token!Calls \cup {Idle}]
        /\ \A u \in Token!Users \ {t} : call'[u] = call[u]
        /\ GoodCall(t)' /\ SealInv' /\ overlapped' \in BOOLEAN /\ unread' \in BOOLEAN
    BY <1>1, <2>1, CallEnds
  <2>3. ServedIsRecent'
    BY <2>1 DEF ServedIsRecent, Token!ServedIsRecent
  <2> QED
    BY <1>1, <2>2, <2>3, TokenStepOf, TokenRest
<1> QED
  BY <1>2, <1>3

LEMMA GetHitKeeps ==
  ASSUME TokenInv, NEW t \in Token!Users, Token!GetHit(t)
  PROVE  TokenInv'
<1> USE TokenAssumption
<1> DEFINE p == Token!ProcOf(t)
<1>1. /\ UNCHANGED <<now, credential, drawn, stored, overlapped, unread>>
      /\ UNCHANGED <<now, stored>> /\ plain' = plain /\ TokenTypeOK
      /\ plain[p] # None /\ now < plain[p].until
  BY DEF Token!GetHit, Token!Fresh, TokenInv
<1>2. p \in Token!Procs
  BY DEF Token!ProcOf, Token!Procs
<1> HIDE DEF p
<1>3. /\ plain[p] \in Token!Copies /\ plain[p].token \in Tokens /\ plain[p].until \in Nat
      /\ plain[p].until <= stored[plain[p].token] + MaxGet + TTL
  BY <1>1, <1>2 DEF TokenInv, TokenTypeOK, GoodCopy, Token!Copies
<1>4. now - stored[plain[p].token] < TTL + MaxGet
  BY <1>1, <1>3 DEF TokenTypeOK
<1>5. /\ plain' \in [Token!Procs -> Token!Copies \cup {None}]
      /\ \A q \in Token!Procs : GoodCopy(q)'
  BY <1>1, TokenRest
<1>6. \E op \in Token!Asked(t) : Token!Given(t, op, plain[p].token)
  BY DEF Token!GetHit, p
<1> QED
  BY <1>1, <1>3, <1>4, <1>5, <1>6, GivenKeeps

LEMMA GetReadKeeps ==
  ASSUME TokenInv, NEW t \in Token!Users, Token!GetRead(t)
  PROVE  TokenInv'
<1> USE TokenAssumption
<1>1. /\ UNCHANGED <<now, stored>> /\ UNCHANGED now /\ credential' = credential
      /\ plain' = plain /\ drawn' = drawn /\ UNCHANGED <<overlapped, unread>> /\ served' = 0
      /\ credential # None /\ TokenTypeOK
      /\ overlapped' = overlapped /\ unread' = unread
  BY DEF Token!GetRead, TokenInv
<1>2. PICK op \in Token!Asked(t) :
        call' = [call EXCEPT ![t] =
                   [op |-> op, pc |-> "open", token |-> None, row |-> credential,
                    trade |-> FALSE, id |-> None, began |-> now]]
  BY DEF Token!GetRead
<1> DEFINE c == [op |-> op, pc |-> "open", token |-> None, row |-> credential,
                 trade |-> FALSE, id |-> None, began |-> now]
<1>3. op \in {"get", "probe"}
  BY DEF Token!Asked
<1>4. /\ c \in Token!Calls /\ c.op = op /\ c.pc = "open" /\ c.row = credential /\ c.began = now
  BY <1>1, <1>3 DEF Token!Calls, TokenTypeOK
<1>5. call' = [call EXCEPT ![t] = c]
  BY <1>2
<1> HIDE DEF c
<1>6. /\ call' \in [Token!Users -> Token!Calls \cup {Idle}] /\ call'[t] = c
      /\ \A u \in Token!Users \ {t} : call'[u] = call[u]
  BY <1>1, <1>4, <1>5, CallMoves
<1>7. GoodCall(t)'
  <2>1. now <= stored[credential.token] /\ now \in Nat
    BY <1>1 DEF TokenInv, TokenTypeOK, StoredInv
  <2> QED
    BY <1>1, <1>3, <1>4, <1>6, <2>1 DEF GoodCall
<1>8. call'[t] = Idle \/ (call'[t].op \notin {"put", "delete"} /\ call'[t].pc # "write")
  BY <1>3, <1>4, <1>6
<1>9. SealInv'
  BY <1>1, <1>6, <1>8, SealStays
<1> QED
  BY <1>1, <1>6, <1>7, <1>9, TokenStepOf, TokenRest

LEMMA GetOpenKeeps ==
  ASSUME TokenInv, NEW t \in Token!Users, Token!GetOpen(t)
  PROVE  TokenInv'
<1> USE TokenAssumption
<1>1. /\ UNCHANGED <<now, credential, drawn, stored, overlapped, unread>>
      /\ UNCHANGED <<now, stored, overlapped, unread>> /\ UNCHANGED <<now, stored>>
      /\ UNCHANGED now /\ credential' = credential /\ drawn' = drawn
      /\ TokenTypeOK /\ call[t] # Idle /\ call[t].pc = "open"
  BY DEF Token!GetOpen, TokenInv
<1>2. /\ call[t] \in Token!Calls /\ call[t].row \in Token!Row /\ call[t].began \in Nat
      /\ now - call[t].began <= MaxGet /\ call[t].began <= stored[call[t].row.token]
  BY <1>1 DEF TokenInv, TokenTypeOK, GoodCall, Token!Calls
<1> DEFINE token == call[t].row.token
           p == Token!ProcOf(t)
<1>3. /\ token \in Tokens /\ p \in Token!Procs /\ now \in Nat /\ stored[token] \in Nat
      /\ now - stored[token] <= MaxGet
  <2>1. token \in Tokens
    BY <1>2 DEF Token!Row
  <2>2. now \in Nat /\ stored[token] \in Nat
    BY <1>1, <2>1 DEF TokenTypeOK
  <2>3. p \in Token!Procs
    BY DEF Token!ProcOf, Token!Procs
  <2> QED
    BY <1>2, <2>1, <2>2, <2>3
<1>4. CASE Token!Opens(call[t].row)
  <2> DEFINE k == Token!Cached(token)
  <2>1. plain' = [plain EXCEPT ![p] = k] /\ Token!Given(t, call[t].op, token)
    BY <1>4 DEF Token!GetOpen
  <2>2. k \in Token!Copies /\ k.token = token /\ k.until = now + TTL
    BY <1>3 DEF Token!Cached, Token!Copies
  <2> HIDE DEF k, p, token
  <2>3. /\ plain' \in [Token!Procs -> Token!Copies \cup {None}] /\ plain'[p] = k
        /\ \A q \in Token!Procs \ {p} : plain'[q] = plain[q]
    BY <1>1, <1>3, <2>1, <2>2 DEF TokenTypeOK
  <2>4. ASSUME NEW q \in Token!Procs PROVE GoodCopy(q)'
    <3>1. CASE q = p
      <4>1. now + TTL <= stored[token] + MaxGet + TTL
        BY <1>3
      <4> QED
        BY <1>1, <2>2, <2>3, <3>1, <4>1 DEF GoodCopy
    <3>2. CASE q # p
      BY <1>1, <2>3, <3>2 DEF TokenInv, GoodCopy
    <3> QED
      BY <3>1, <3>2
  <2>5. now - stored[token] < TTL + MaxGet
    BY <1>3
  <2> QED
    BY <1>1, <1>3, <2>1, <2>3, <2>4, <2>5, GivenKeeps
<1>5. CASE ~Token!Opens(call[t].row)
  <2>1. call' = [call EXCEPT ![t] = Idle] /\ plain' = plain /\ served' = 0
    BY <1>5 DEF Token!GetOpen
  <2>2. /\ call' \in [Token!Users -> Token!Calls \cup {Idle}]
        /\ \A u \in Token!Users \ {t} : call'[u] = call[u]
        /\ GoodCall(t)' /\ SealInv' /\ overlapped' \in BOOLEAN /\ unread' \in BOOLEAN
    BY <1>1, <2>1, CallEnds
  <2> QED
    BY <1>1, <2>1, <2>2, TokenStepOf, TokenRest
<1> QED
  BY <1>4, <1>5

\* The probe marks whatever row there is; it seals nothing.
LEMMA ProbeKeeps ==
  ASSUME TokenInv, NEW t \in Token!Users, Token!Probe(t)
  PROVE  TokenInv'
<1>1. /\ UNCHANGED <<now, stored, overlapped, unread>> /\ UNCHANGED <<now, stored>>
      /\ UNCHANGED now /\ plain' = plain /\ drawn' = drawn
      /\ call' = [call EXCEPT ![t] = Idle] /\ served' = 0 /\ TokenTypeOK /\ StoredInv
  BY DEF Token!Probe, TokenInv
<1>2. PICK answer \in Token!Answers(call[t].token) :
        credential' = IF credential = None \/ answer = "none" THEN credential
                      ELSE [credential EXCEPT !.trade = Token!TokenCanTrade(answer),
                                              !.checked = TRUE]
  BY DEF Token!Probe
<1>3. \/ credential' = credential
      \/ /\ credential # None /\ credential' # None /\ credential' \in Token!Row
         /\ credential'.id = credential.id /\ credential'.sealed = credential.sealed
         /\ credential'.token = credential.token
  <2> DEFINE r == [credential EXCEPT !.trade = Token!TokenCanTrade(answer), !.checked = TRUE]
  <2>1. ASSUME credential # None
        PROVE  /\ r \in Token!Row /\ r.id = credential.id /\ r.sealed = credential.sealed
               /\ r.token = credential.token
    <3>1. credential \in Token!Row /\ Token!TokenCanTrade(answer) \in BOOLEAN
      BY <1>1, <2>1 DEF TokenTypeOK, Token!TokenCanTrade
    <3> QED
      BY <3>1 DEF Token!Row
  <2>2. credential' = credential \/ (credential # None /\ credential' = r)
    BY <1>2
  <2> HIDE DEF r
  <2> QED
    BY <2>1, <2>2, TokenAssumption
<1>4. /\ call' \in [Token!Users -> Token!Calls \cup {Idle}]
      /\ \A u \in Token!Users \ {t} : call'[u] = call[u]
      /\ GoodCall(t)' /\ SealInv' /\ overlapped' \in BOOLEAN /\ unread' \in BOOLEAN
  <2>1. \/ credential' = credential
        \/ /\ credential # None /\ credential' # None
           /\ credential'.id = credential.id /\ credential'.sealed = credential.sealed
    BY <1>3
  <2> QED
    BY <1>1, <2>1, CallEnds
<1>5. credential' \in Token!Row \cup {None} /\ StoredInv'
  BY <1>1, <1>3 DEF TokenTypeOK, StoredInv
<1> QED
  BY <1>1, <1>4, <1>5, TokenStepOf, TokenRest

LEMMA TokenTickKeeps == TokenInv /\ Token!Tick => TokenInv'
<1> USE TokenAssumption
<1> SUFFICES ASSUME TokenInv, Token!Tick PROVE TokenInv'
  OBVIOUS
<1>1. /\ UNCHANGED <<credential, drawn, call, overlapped, unread>>
      /\ now' = now + 1 /\ now \in Nat /\ served' = 0 /\ TokenTypeOK /\ StoredInv
      /\ \A t \in Token!Users : call[t] # Idle => now - call[t].began < MaxGet
  BY DEF Token!Tick, TokenInv, TokenTypeOK
<1>2. stored' = [k \in Tokens |->
                   IF credential # None /\ credential.token = k THEN now' ELSE stored[k]]
  BY DEF Token!Tick
<1>3. /\ stored' \in [Tokens -> Nat] /\ \A k \in Tokens : stored'[k] >= stored[k]
      /\ \A k \in Tokens : stored'[k] <= now'
      /\ credential # None => stored'[credential.token] = now'
  <2>1. /\ stored \in [Tokens -> Nat] /\ \A k \in Tokens : stored[k] <= now
        /\ credential # None => credential.token \in Tokens
    BY <1>1 DEF TokenTypeOK, StoredInv, Token!Row
  <2>2. stored' \in [Tokens -> Nat]
    BY <1>1, <1>2, <2>1
  <2>3. ASSUME NEW k \in Tokens PROVE stored'[k] >= stored[k] /\ stored'[k] <= now'
    <3>1. stored[k] \in Nat /\ stored[k] <= now
      BY <2>1
    <3>2. stored'[k] = IF credential # None /\ credential.token = k THEN now' ELSE stored[k]
      BY <1>2
    <3> QED
      BY <1>1, <3>1, <3>2
  <2>4. credential # None => stored'[credential.token] = now'
    BY <1>2, <2>1
  <2> QED
    BY <2>2, <2>3, <2>4
<1>4. plain' = [p \in Token!Procs |->
                  IF plain[p] # None /\ now' < plain[p].until THEN plain[p] ELSE None]
  BY DEF Token!Tick
<1>5. /\ plain' \in [Token!Procs -> Token!Copies \cup {None}]
      /\ \A p \in Token!Procs : plain'[p] = plain[p] \/ plain'[p] = None
  BY <1>1, <1>4 DEF TokenTypeOK
<1>6. TokenTypeOK'
  BY <1>1, <1>3, <1>5 DEF TokenTypeOK
<1>7. ASSUME NEW t \in Token!Users PROVE GoodCall(t)'
  <2> SUFFICES ASSUME call[t] # Idle PROVE GoodCall(t)'
    BY <1>1 DEF GoodCall
  <2>1. call[t] \in Token!Calls /\ call[t].began \in Nat /\ GoodCall(t)
    BY <1>1 DEF TokenTypeOK, TokenInv, Token!Calls
  <2>2. call[t].began <= now' /\ now' - call[t].began <= MaxGet
    BY <1>1, <2>1 DEF GoodCall
  <2>3. ASSUME call[t].pc = "open"
        PROVE  call[t].row # None /\ call[t].began <= stored'[call[t].row.token]
    <3>1. /\ call[t].row # None /\ call[t].began <= stored[call[t].row.token]
          /\ call[t].row \in Token!Row
      BY <2>1, <2>3 DEF GoodCall, Token!Calls
    <3>2. call[t].row.token \in Tokens
      BY <3>1 DEF Token!Row
    <3>3. stored[call[t].row.token] \in Nat /\ stored'[call[t].row.token] \in Nat
      BY <1>1, <1>3, <3>2 DEF TokenTypeOK
    <3> QED
      BY <1>3, <2>1, <3>1, <3>2, <3>3
  <2> QED
    BY <1>1, <2>1, <2>2, <2>3 DEF GoodCall
<1>8. ASSUME NEW p \in Token!Procs PROVE GoodCopy(p)'
  <2> SUFFICES ASSUME plain[p] # None, plain'[p] = plain[p]
               PROVE  plain[p].until <= stored'[plain[p].token] + MaxGet + TTL
    BY <1>5 DEF GoodCopy
  <2>1. /\ plain[p] \in Token!Copies
        /\ plain[p].until <= stored[plain[p].token] + MaxGet + TTL
    BY <1>1 DEF TokenInv, TokenTypeOK, GoodCopy
  <2>2. plain[p].token \in Tokens /\ plain[p].until \in Nat
    BY <2>1 DEF Token!Copies
  <2>3. /\ stored[plain[p].token] \in Nat /\ stored'[plain[p].token] \in Nat
        /\ stored'[plain[p].token] >= stored[plain[p].token]
    BY <1>1, <1>3, <2>2 DEF TokenTypeOK
  <2> QED
    BY <2>1, <2>2, <2>3
<1>9. StoredInv'
  BY <1>1, <1>3 DEF StoredInv
<1>10. SealInv'
  BY <1>1 DEF TokenInv, SealInv, Token!Writing, Token!Opens
<1>11. ServedIsRecent'
  BY <1>1 DEF ServedIsRecent, Token!ServedIsRecent
<1> QED
  BY <1>6, <1>7, <1>8, <1>9, <1>10, <1>11 DEF TokenInv, Token!Users, Token!Procs

LEMMA TokenStep ==
  TokenInv /\ [Token!Next]_<<now, faults, Token!credentialVars>> => TokenInv'
<1> SUFFICES ASSUME TokenInv, [Token!Next]_<<now, faults, Token!credentialVars>>
             PROVE  TokenInv'
  OBVIOUS
<1>1. CASE Token!Next
  BY <1>1, TokenTickKeeps, PutBeginKeeps, PutWriteKeeps, PutFailsKeeps, DeleteRowKeeps,
     InvalidateKeeps, GetHitKeeps, GetReadKeeps, GetOpenKeeps, ProbeKeeps
     DEF Token!Next, Token!Write, Token!Get
<1>2. CASE UNCHANGED <<now, faults, Token!credentialVars>>
  BY <1>2 DEF Token!credentialVars, TokenInv, TokenTypeOK, GoodCall, GoodCopy, StoredInv,
     SealInv, Token!Writing, Token!Opens, ServedIsRecent, Token!ServedIsRecent,
     Token!Users, Token!Procs
<1> QED
  BY <1>1, <1>2

\* The ages of rows, copies and calls, and the seal of a lone writer; see the top.
THEOREM TokenInvariant == Token!Spec => []TokenInv
BY TokenInit, TokenStep, PTL DEF Token!Spec

\* However often the token was replaced and deleted, its row is sealed for its own id,
\* unless a Put overlapped another write or its read failed (Put, CredentialAAD).
THEOREM TokenOpens == Token!Spec => []StoredOpens
<1>1. TokenInv => StoredOpens
  BY DEF TokenInv, SealInv, StoredOpens, Token!StoredOpens
<1> QED
  BY <1>1, TokenInvariant, PTL

\* A replaced or deleted token is given out by no process longer than a copy lives and
\* a handler takes (GetPlaintext), for any number of handlers in the API.
THEOREM TokenIsRecent == Token!Spec => []ServedIsRecent
<1>1. TokenInv => ServedIsRecent
  BY DEF TokenInv
<1> QED
  BY <1>1, TokenInvariant, PTL

-----------------------------------------------------------------------------
(* The watch over issuers.  A scan and a request each hold a copy of the   *)
(* row, and a stale copy that is written back takes baselines with it, or  *)
(* brings them back, which lost and left remember.  Of the held bonds the  *)
(* row keeps what the owner holds them at but for lost, and of the others  *)
(* nothing but for left.                                                   *)

RiskTypeOK ==
  /\ risk \in [Watched -> Risks] /\ held \in SUBSET Watched
  /\ baselines \in Monitor!Baselines /\ accepted \in Monitor!Baselines
  /\ reported \in Monitor!Baselines
  /\ scan \in Monitor!Scans \cup {Idle} /\ request \in Monitor!Requests \cup {Idle}

\* The scan holds a copy of the row that it will write back.
ScanReads == scan # Idle /\ scan.pc = "market"

\* The row keeps what the owner holds a bond at.
BaselinesStand ==
  \A b \in Watched \ lost : accepted[b] # None => baselines[b] = accepted[b]

\* The row keeps nothing of a bond that is not held.
NothingElse ==
  \A b \in Watched \ left : accepted[b] = None => baselines[b] = None

\* Nor does the copy, which agrees with the row on what is held.
ScanCopyStands ==
  ScanReads => \A b \in Watched :
    /\ accepted[b] = None /\ b \notin left => scan.copy[b] = None
    /\ accepted[b] # None /\ b \notin lost /\ b \notin scan.voided =>
         scan.copy[b] = baselines[b]

\* A worse state is in the inbox or among what the scan is going to deliver.
Gravest(b, r) == <<b, Head(Monitor!DetectRiskEscalations(accepted[b], r))>>
IsWorse(b, r) ==
  accepted[b] # None /\ r # None /\ Monitor!DetectRiskEscalations(accepted[b], r) # <<>>

OnItsWay ==
  scan # Idle /\ scan.pc = "deliver" =>
    \A b \in Watched :
      b \notin lost /\ b \notin scan.voided /\ IsWorse(b, scan.seen[b]) =>
        \/ Gravest(b, scan.seen[b]) \in inbox
        \/ \E i \in DOMAIN scan.alerts : scan.alerts[i] = Gravest(b, scan.seen[b])

RiskInv ==
  /\ RiskTypeOK
  /\ BaselinesStand
  /\ NothingElse
  /\ ScanCopyStands
  /\ OnItsWay
  /\ WorseningIsTold

\* SetToSeq lists every element of a finite set.
LEMMA SequenceHasAll ==
  ASSUME NEW S, IsFiniteSet(S)
  PROVE  /\ Monitor!SetToSeq(S) \in Seq(S)
         /\ \A x \in S : \E i \in DOMAIN Monitor!SetToSeq(S) : Monitor!SetToSeq(S)[i] = x
<1> DEFINE n == Cardinality(S)
           f == Monitor!SetToSeq(S)
<1>1. n \in Nat /\ ExistsBijection(1 .. n, S)
  BY FS_CardinalityType
<1>2. Monitor!Cardinality(S) = n
  BY DEF Monitor!Cardinality, Cardinality
<1>3. PICK g : g \in Bijection(1 .. n, S)
  BY <1>1 DEF ExistsBijection
<1>4. f \in [1 .. n -> S] /\ Monitor!IsInjective(f)
  <2>1. g \in [1 .. n -> S] /\ Monitor!IsInjective(g)
    BY <1>3 DEF Bijection, Injection, IsInjective, Monitor!IsInjective
  <2> QED
    BY <1>2, <2>1 DEF Monitor!SetToSeq
<1>5. f \in Injection(1 .. n, S)
  BY <1>4 DEF Injection, IsInjective, Monitor!IsInjective
<1>6. Cardinality(1 .. n) = n
  BY <1>1, FS_Interval
<1>7. f \in Surjection(1 .. n, S)
  BY <1>5, <1>6, FS_Injection
<1>8. f \in Seq(S) /\ DOMAIN f = 1 .. n
  BY <1>1, <1>4
<1> QED
  BY <1>7, <1>8 DEF Surjection

LEMMA KindsOnly ==
  ASSUME NEW x, NEW y
  PROVE  Monitor!DetectRiskEscalations(x, y) \in Seq(Monitor!Kinds)
<1> DEFINE K == Monitor!Kinds
<1>1. <<>> \in Seq(K) /\ \A k \in K : <<k>> \in Seq(K)
  OBVIOUS
<1>2. \A k \in {"default", "technical_default", "distress_rating", "ig_exit", "major_downgrade"} : k \in K
  BY DEF Monitor!Kinds
<1> HIDE DEF K
<1>3. Monitor!RatingEscalation(x, y) \in Seq(K)
  BY <1>1, <1>2, Zenon DEF Monitor!RatingEscalation
<1>4. (IF ~x.default /\ y.default THEN <<"default">> ELSE <<>>) \in Seq(K)
  BY <1>1, <1>2, Zenon
<1>5. (IF ~x.technical /\ y.technical THEN <<"technical_default">> ELSE <<>>) \in Seq(K)
  BY <1>1, <1>2, Zenon
<1>6. \A p, q, r \in Seq(K) : p \o q \o r \in Seq(K)
  OBVIOUS
<1> QED
  BY <1>3, <1>4, <1>5, <1>6, Zenon DEF Monitor!DetectRiskEscalations, K

LEMMA RiskInit ==
  ASSUME Monitor!Init
  PROVE  RiskInv
<1> USE RiskAssumption DEF Monitor!Init
<1>1. Monitor!Nothing \in Monitor!Baselines /\ \A b \in Watched : Monitor!Nothing[b] = None
  BY DEF Monitor!Nothing, Monitor!Baselines
<1>2. risk \in [Watched -> Risks]
  OBVIOUS
<1>3. RiskTypeOK
  BY <1>1, <1>2 DEF RiskTypeOK
<1>4. \A b \in Watched : accepted[b] = None
  BY <1>1
<1> QED
  BY <1>3, <1>4 DEF RiskInv, BaselinesStand, NothingElse, ScanCopyStands, OnItsWay, WorseningIsTold,
                    Monitor!WorseningIsTold, ScanReads, Monitor!Nothing

\* A step that leaves the baselines, and what the owner holds them for, alone.
LEMMA RiskQuiet ==
  ASSUME RiskInv, RiskTypeOK', UNCHANGED <<baselines, accepted, lost, left>>,
         inbox \subseteq inbox',
         \/ reported' = reported
         \/ \A b \in Watched \ lost : IsWorse(b, reported'[b]) => Gravest(b, reported'[b]) \in inbox',
         ScanReads' => (ScanReads /\ scan' = scan) \/ scan'.copy = baselines,
         OnItsWay'
  PROVE  RiskInv'
<1>1. BaselinesStand' /\ NothingElse'
  BY DEF RiskInv, BaselinesStand, NothingElse
<1>2. ScanReads' => scan'.copy = baselines \/ (ScanReads /\ scan' = scan)
  OBVIOUS
<1>3. ScanCopyStands'
  BY <1>2 DEF RiskInv, ScanCopyStands, NothingElse
<1>4. WorseningIsTold'
  BY DEF RiskInv, WorseningIsTold, Monitor!WorseningIsTold, IsWorse, Gravest
<1> QED
  BY <1>1, <1>3, <1>4 DEF RiskInv

LEMMA MoveRisk ==
  ASSUME RiskInv, Monitor!Move
  PROVE  RiskInv'
<1>1. UNCHANGED <<baselines, accepted, lost, left, inbox, reported, scan, request>>
  BY DEF Monitor!Move
<1>2. risk' \in [Watched -> Risks] /\ held' \in SUBSET Watched
  BY DEF Monitor!Move, Monitor!Issuer, Monitor!Listing, Monitor!Trade, RiskInv, RiskTypeOK
<1>3. RiskTypeOK'
  BY <1>1, <1>2 DEF RiskInv, RiskTypeOK
<1>4. OnItsWay'
  BY <1>1 DEF RiskInv, OnItsWay, IsWorse, Gravest
<1>5. ScanReads' <=> ScanReads
  BY <1>1 DEF ScanReads
<1> QED
  BY <1>1, <1>3, <1>4, <1>5, RiskQuiet

LEMMA ScanBegins ==
  ASSUME RiskInv, Monitor!ScanRead
  PROVE  RiskInv'
<1> DEFINE s == [pc |-> "market", copy |-> baselines, seen |-> Monitor!Nothing,
                 alerts |-> <<>>, voided |-> {}]
<1>1. /\ scan' = s
      /\ UNCHANGED <<baselines, accepted, lost, left, inbox, reported, request, risk, held>>
  BY DEF Monitor!ScanRead, Monitor!market
<1>2. s \in Monitor!Scans
  BY DEF Monitor!Scans, Monitor!Nothing, Monitor!Baselines, RiskInv, RiskTypeOK
<1>3. s.pc = "market" /\ s.copy = baselines
  OBVIOUS
<1> HIDE DEF s
<1>4. RiskTypeOK'
  BY <1>1, <1>2 DEF RiskInv, RiskTypeOK
<1>5. OnItsWay'
  BY <1>1, <1>3 DEF OnItsWay
<1> QED
  BY <1>1, <1>3, <1>4, <1>5, RiskQuiet

\* A scan that is given up.
LEMMA ScanGivenUp ==
  ASSUME RiskInv, scan' = Idle,
         UNCHANGED <<baselines, accepted, lost, left, inbox, reported, request, risk, held>>
  PROVE  RiskInv'
<1>1. RiskTypeOK' /\ OnItsWay' /\ ~ScanReads'
  BY DEF RiskInv, RiskTypeOK, OnItsWay, ScanReads
<1> QED
  BY <1>1, RiskQuiet

LEMMA HeadOrTail ==
  ASSUME NEW S, NEW q \in Seq(S), q # <<>>
  PROVE  /\ Tail(q) \in Seq(S)
         /\ \A i \in DOMAIN q :
              q[i] = Head(q) \/ \E j \in DOMAIN Tail(q) : Tail(q)[j] = q[i]
<1>1. Tail(q) \in Seq(S) /\ Len(Tail(q)) = Len(q) - 1
  OBVIOUS
<1>2. \A i \in DOMAIN q \ {1} : i - 1 \in DOMAIN Tail(q) /\ Tail(q)[i - 1] = q[i]
  OBVIOUS
<1> QED
  BY <1>1, <1>2

LEMMA DeliverRisk ==
  ASSUME RiskInv, Monitor!Deliver
  PROVE  RiskInv'
<1> DEFINE q == scan.alerts
           s == [scan EXCEPT !.alerts = Tail(q)]
<1>0. /\ scan # Idle /\ scan.pc = "deliver" /\ q # <<>> /\ scan \in Monitor!Scans
      /\ UNCHANGED <<baselines, accepted, lost, left, reported, request, risk, held>>
  BY DEF Monitor!Deliver, Monitor!market, RiskInv, RiskTypeOK
<1>1. CASE scan' = Idle /\ UNCHANGED inbox
  BY <1>0, <1>1, ScanGivenUp
<1>2. CASE inbox' = inbox \cup {Head(q)} /\ scan' = s
  <2>1. q \in Seq(Watched \X Monitor!Kinds)
    BY <1>0 DEF Monitor!Scans
  <2> HIDE DEF q
  <2>2. /\ Tail(q) \in Seq(Watched \X Monitor!Kinds)
        /\ \A i \in DOMAIN q : q[i] = Head(q) \/ \E j \in DOMAIN Tail(q) : Tail(q)[j] = q[i]
    BY <1>0, <2>1, HeadOrTail
  <2>3. /\ s \in Monitor!Scans /\ s.pc = "deliver" /\ s.alerts = Tail(q)
        /\ s.seen = scan.seen /\ s.voided = scan.voided
    BY <1>0, <2>2 DEF Monitor!Scans
  <2> HIDE DEF s
  <2>4. RiskTypeOK'
    BY <1>0, <1>2, <2>3 DEF RiskInv, RiskTypeOK
  <2>5. OnItsWay'
    <3> SUFFICES ASSUME NEW b \in Watched, b \notin lost, b \notin scan.voided,
                        IsWorse(b, scan.seen[b])
                 PROVE  \/ Gravest(b, scan.seen[b]) \in inbox'
                        \/ \E i \in DOMAIN Tail(q) : Tail(q)[i] = Gravest(b, scan.seen[b])
      BY <1>0, <1>2, <2>3 DEF OnItsWay, IsWorse, Gravest
    <3>1. \/ Gravest(b, scan.seen[b]) \in inbox
          \/ \E i \in DOMAIN q : q[i] = Gravest(b, scan.seen[b])
      BY <1>0 DEF RiskInv, OnItsWay, q
    <3> QED
      BY <1>2, <2>2, <3>1
  <2>6. ~ScanReads'
    BY <1>0, <1>2, <2>3, RiskAssumption DEF ScanReads
  <2> QED
    BY <1>0, <1>2, <2>4, <2>5, <2>6, RiskQuiet
<1> QED
  BY <1>1, <1>2 DEF Monitor!Deliver

LEMMA ScanEnds ==
  ASSUME RiskInv, Monitor!ScanEnd
  PROVE  RiskInv'
<1> DEFINE r == [b \in Watched |-> IF b \in scan.voided THEN None ELSE scan.seen[b]]
<1>0. /\ scan # Idle /\ scan.pc = "deliver" /\ scan.alerts = <<>> /\ scan \in Monitor!Scans
      /\ scan' = Idle /\ reported' = r
      /\ UNCHANGED <<baselines, accepted, lost, left, inbox, request, risk, held>>
  BY DEF Monitor!ScanEnd, Monitor!market, RiskInv, RiskTypeOK
<1>1. r \in Monitor!Baselines
  BY <1>0 DEF Monitor!Scans, Monitor!Baselines
<1>2. \A b \in Watched : r[b] = IF b \in scan.voided THEN None ELSE scan.seen[b]
  OBVIOUS
<1> HIDE DEF r
<1>3. RiskTypeOK' /\ OnItsWay' /\ ~ScanReads'
  BY <1>0, <1>1 DEF RiskInv, RiskTypeOK, OnItsWay, ScanReads
<1>4. \A b \in Watched \ lost : IsWorse(b, reported'[b]) => Gravest(b, reported'[b]) \in inbox'
  BY <1>0, <1>2 DEF RiskInv, OnItsWay, IsWorse
<1> QED
  BY <1>0, <1>3, <1>4, RiskQuiet

\* A scan that finds no bond leaves the row alone.
LEMMA FindNothingRisk ==
  ASSUME RiskInv, Monitor!FindNothing, UNCHANGED <<inbox, request, risk, held>>
  PROVE  RiskInv'
<1> DEFINE reference == Monitor!Accepted(<<>>)
<1>1. /\ scan' = Idle /\ accepted' = reference /\ lost' = Monitor!Kept(lost, reference)
      /\ left' = {b \in Watched : reference[b] = None /\ baselines[b] # None}
      /\ UNCHANGED <<baselines, reported>>
  BY DEF Monitor!FindNothing
<1>2. /\ reference \in Monitor!Baselines
      /\ \A b \in Watched : reference[b] = IF b \notin held THEN None ELSE accepted[b]
  BY DEF Monitor!Accepted, Monitor!Baselines, RiskInv, RiskTypeOK
<1> HIDE DEF reference
<1>3. \A b \in Watched : accepted'[b] # None /\ b \notin lost' =>
        b \notin lost /\ accepted'[b] = accepted[b]
  BY <1>1, <1>2 DEF Monitor!Kept
<1>4. RiskTypeOK' /\ OnItsWay' /\ ~ScanReads'
  BY <1>1, <1>2 DEF RiskInv, RiskTypeOK, OnItsWay, ScanReads
<1>5. BaselinesStand' /\ NothingElse'
  BY <1>1, <1>3 DEF RiskInv, BaselinesStand, NothingElse
<1>6. WorseningIsTold'
  BY <1>1, <1>3 DEF RiskInv, WorseningIsTold, Monitor!WorseningIsTold
<1> QED
  BY <1>4, <1>5, <1>6 DEF RiskInv, ScanCopyStands

LEMMA ScanMarketRisk ==
  ASSUME RiskInv, NEW first \in SUBSET Watched, NEW again \in SUBSET Watched,
         NEW fails \in BOOLEAN, Monitor!ScanMarket(first, again, fails)
  PROVE  RiskInv'
<1> DEFINE holding == Monitor!Resolved(first)
           seen == [b \in holding \ (again \ listed) |-> risk[b]]
           synced == Monitor!SyncRiskBaselines(scan.copy, holding, seen)
           saved == IF synced = scan.copy \/ fails THEN baselines ELSE synced
           dropped == {b \in held \ holding : ~fails /\ scan.copy[b] # None}
           unsaved == {b \in DOMAIN seen : fails /\ synced[b] # scan.copy[b]}
           stale == {b \in left : accepted[b] = None}
           remain == IF fails THEN Watched
                     ELSE left \cup {b \in Watched : baselines[b] # scan.copy[b]}
           reference == Monitor!Accepted(seen)
           alerts == Monitor!RiskEscalationRule(synced, seen)
           s == [scan EXCEPT !.pc = "deliver",
                   !.seen = [b \in Watched |-> IF b \in DOMAIN seen THEN seen[b] ELSE None],
                   !.alerts = Monitor!SetToSeq(alerts)]
<1>0. RiskTypeOK /\ BaselinesStand /\ NothingElse /\ ScanCopyStands
  BY DEF RiskInv
<1>1. /\ scan # Idle /\ scan.pc = "market" /\ scan \in Monitor!Scans /\ scan.copy \in Monitor!Baselines
      /\ scan.voided \in SUBSET Watched
      /\ UNCHANGED <<inbox, request, risk, held>>
  BY <1>0 DEF Monitor!ScanMarket, Monitor!market, RiskTypeOK, Monitor!Scans
<1>2. CASE holding = {}
  <2>1. Monitor!FindNothing
    BY <1>2 DEF Monitor!ScanMarket
  <2> QED
    BY <1>1, <2>1, FindNothingRisk
<1>3. CASE holding # {}
  <2>0. Monitor!SaveBaselines(holding, seen, fails)
    BY <1>3 DEF Monitor!ScanMarket
  <2>1. /\ baselines' = saved /\ accepted' = reference /\ scan' = s
        /\ lost' = Monitor!Kept(lost \cup dropped \cup unsaved \cup stale
                                 \cup Monitor!Overwritten(scan.copy, saved), reference)
        /\ left' = {b \in remain : reference[b] = None /\ saved[b] # None}
        /\ reported' = [b \in Watched |-> IF accepted[b] = None THEN None ELSE reported[b]]
    BY <2>0 DEF Monitor!SaveBaselines
  <2>2. /\ holding \subseteq held /\ held \subseteq Watched
        /\ DOMAIN seen \subseteq holding /\ \A b \in DOMAIN seen : seen[b] \in Risks /\ seen[b] # None
    BY <1>0, RiskAssumption DEF Monitor!Resolved, RiskTypeOK
  <2> HIDE DEF holding, seen
  <2>3. /\ synced \in Monitor!Baselines
        /\ \A b \in Watched :
             synced[b] = IF b \notin holding THEN None
                         ELSE IF scan.copy[b] # None \/ b \notin DOMAIN seen THEN scan.copy[b]
                         ELSE seen[b]
    BY <1>1, <2>2 DEF Monitor!SyncRiskBaselines, Monitor!Baselines
  <2> HIDE DEF synced
  <2>4. \/ saved = synced
        \/ saved = baselines /\ synced = scan.copy
        \/ saved = baselines /\ fails
    OBVIOUS
  <2>5. saved \in Monitor!Baselines
    BY <1>0, <2>3, <2>4 DEF RiskTypeOK
  <2> HIDE DEF saved
  <2>6. /\ reference \in Monitor!Baselines
        /\ \A b \in Watched :
             reference[b] = IF b \notin held THEN None
                            ELSE IF accepted[b] = None /\ b \in DOMAIN seen THEN seen[b]
                            ELSE accepted[b]
    BY <1>0, <2>2 DEF Monitor!Accepted, Monitor!Baselines, RiskTypeOK
  <2>7. \A b \in Watched : b \notin lost' /\ accepted'[b] # None =>
          /\ b \notin lost /\ b \in held
          /\ b \in holding \/ fails \/ scan.copy[b] = None
          /\ fails /\ b \in DOMAIN seen => synced[b] = scan.copy[b]
          /\ accepted[b] = None => b \notin left
          /\ baselines[b] = scan.copy[b] \/ saved[b] = baselines[b]
    BY <2>1, <2>6 DEF Monitor!Kept, Monitor!Overwritten
  <2> HIDE DEF reference, dropped, unsaved, stale
  \* What a held and kept bond is compared with is what the owner holds it at.
  <2>9. ASSUME NEW b \in Watched, b \notin lost', b \notin scan.voided, accepted'[b] # None,
               b \in DOMAIN seen
        PROVE  synced[b] = accepted'[b]
    <3>1. CASE accepted[b] = None
      <4>1. scan.copy[b] = None /\ b \in held
        BY <1>0, <1>1, <2>7, <2>9, <3>1 DEF ScanCopyStands, ScanReads
      <4> QED
        BY <2>1, <2>2, <2>3, <2>6, <2>9, <3>1, <4>1
    <3>2. CASE accepted[b] # None
      <4>1. b \notin lost /\ b \in held /\ accepted'[b] = accepted[b]
        BY <2>1, <2>6, <2>7, <2>9, <3>2
      <4>2. scan.copy[b] = accepted[b]
        BY <1>0, <1>1, <2>9, <3>2, <4>1 DEF ScanCopyStands, ScanReads, BaselinesStand
      <4> QED
        BY <2>2, <2>3, <2>9, <3>2, <4>1, <4>2
    <3> QED
      BY <3>1, <3>2
  <2>8. BaselinesStand'
    <3> SUFFICES ASSUME NEW b \in Watched, b \notin lost', accepted'[b] # None
                 PROVE  saved[b] = accepted'[b]
      BY <2>1 DEF BaselinesStand
    <3>1. b \in held /\ b \notin lost
      BY <2>7
    <3>2. CASE accepted[b] = None
      <4>1. accepted'[b] = seen[b] /\ b \in DOMAIN seen
        BY <2>1, <2>6, <3>1, <3>2
      <4>2. scan.copy[b] = None
        BY <1>0, <1>1, <2>7, <3>2 DEF ScanCopyStands, ScanReads
      <4>3. synced[b] = seen[b] /\ synced[b] # scan.copy[b]
        BY <2>2, <2>3, <4>1, <4>2
      <4> QED
        BY <2>4, <2>7, <4>1, <4>3
    <3>3. CASE accepted[b] # None
      <4>1. accepted'[b] = accepted[b] /\ baselines[b] = accepted[b]
        BY <1>0, <2>1, <2>6, <3>1, <3>3 DEF BaselinesStand
      <4>2. CASE saved[b] = baselines[b]
        BY <4>1, <4>2
      <4>3. CASE baselines[b] = scan.copy[b] /\ saved = synced /\ ~fails
        BY <2>3, <2>7, <3>3, <4>1, <4>3
      <4>4. saved = baselines \/ (saved = synced /\ ~fails)
        BY DEF saved
      <4> QED
        BY <2>7, <4>2, <4>3, <4>4
    <3> QED
      BY <3>2, <3>3
  <2>10. /\ Monitor!SetToSeq(alerts) \in Seq(Watched \X Monitor!Kinds)
         /\ \A x \in alerts : \E i \in DOMAIN Monitor!SetToSeq(alerts) :
              Monitor!SetToSeq(alerts)[i] = x
         /\ \A b \in DOMAIN seen :
              synced[b] # None /\ Monitor!DetectRiskEscalations(synced[b], seen[b]) # <<>> =>
                <<b, Head(Monitor!DetectRiskEscalations(synced[b], seen[b]))>> \in alerts
    <3> DEFINE worse == {b \in DOMAIN seen :
                 synced[b] # None /\ Monitor!DetectRiskEscalations(synced[b], seen[b]) # <<>>}
               told(b) == <<b, Head(Monitor!DetectRiskEscalations(synced[b], seen[b]))>>
    <3>1. alerts = {told(b) : b \in worse}
      BY DEF Monitor!RiskEscalationRule
    <3>2. IsFiniteSet(worse) /\ worse \subseteq Watched
      BY <2>2, RiskAssumption, FS_Subset
    <3> DEFINE f == [b \in worse |-> told(b)]
    <3>3. f \in Surjection(worse, alerts)
      BY <3>1 DEF Surjection
    <3>4. IsFiniteSet(alerts)
      BY <3>2, <3>3, FS_Surjection
    <3>5. \A b \in worse : told(b) \in Watched \X Monitor!Kinds
      <4> SUFFICES ASSUME NEW b \in worse
                   PROVE  Head(Monitor!DetectRiskEscalations(synced[b], seen[b])) \in Monitor!Kinds
        BY <3>2
      <4> QED
        BY KindsOnly
    <3>6. alerts \subseteq Watched \X Monitor!Kinds
      BY <3>1, <3>5
    <3>7. \A b \in worse : told(b) \in alerts
      BY <3>1
    <3>8. Seq(alerts) \subseteq Seq(Watched \X Monitor!Kinds)
      BY <3>6
    <3> HIDE DEF alerts, f
    <3> QED
      BY <3>4, <3>7, <3>8, SequenceHasAll
  <2> HIDE DEF alerts
  <2>11. /\ s \in Monitor!Scans /\ s.pc = "deliver" /\ s.voided = scan.voided
         /\ s.alerts = Monitor!SetToSeq(alerts)
         /\ \A b \in Watched : s.seen[b] = IF b \in DOMAIN seen THEN seen[b] ELSE None
    <3>1. [b \in Watched |-> IF b \in DOMAIN seen THEN seen[b] ELSE None] \in Monitor!Baselines
      BY <2>2 DEF Monitor!Baselines
    <3> QED
      BY <1>1, <2>10, <3>1 DEF Monitor!Scans
  <2> HIDE DEF s
  <2>12. RiskTypeOK'
    <3>1. reported' \in Monitor!Baselines
      BY <1>0, <2>1 DEF RiskTypeOK, Monitor!Baselines
    <3> QED
      BY <1>0, <1>1, <2>1, <2>5, <2>6, <2>11, <3>1 DEF RiskTypeOK
  <2>13. ~ScanReads'
    BY <2>1, <2>11 DEF ScanReads
  <2>14. NothingElse'
    <3> SUFFICES ASSUME NEW b \in Watched, accepted'[b] = None, b \notin left', saved[b] # None
                 PROVE  FALSE
      BY <2>1 DEF NothingElse
    <3>1. b \notin left /\ baselines[b] = scan.copy[b] /\ ~fails
      BY <2>1 DEF remain
    <3>2. saved = synced \/ (saved = baselines /\ synced = scan.copy)
      BY <3>1 DEF saved
    <3>3. CASE b \notin held
      BY <2>2, <2>3, <3>1, <3>2, <3>3
    <3>4. CASE b \in held
      <4>1. accepted[b] = None /\ b \notin DOMAIN seen
        BY <2>1, <2>2, <2>6, <3>4
      <4>2. scan.copy[b] = None
        BY <1>0, <1>1, <3>1, <4>1 DEF ScanCopyStands, ScanReads
      <4> QED
        BY <2>3, <3>1, <3>2, <4>1, <4>2
    <3> QED
      BY <3>3, <3>4
  <2>15. OnItsWay'
    <3> SUFFICES ASSUME NEW b \in Watched, b \notin lost', b \notin scan.voided,
                        accepted'[b] # None, s.seen[b] # None,
                        Monitor!DetectRiskEscalations(accepted'[b], s.seen[b]) # <<>>
                 PROVE  \E i \in DOMAIN s.alerts :
                          s.alerts[i] = <<b, Head(Monitor!DetectRiskEscalations(accepted'[b], s.seen[b]))>>
      BY <2>1, <2>11 DEF OnItsWay, IsWorse, Gravest
    <3>1. b \in DOMAIN seen /\ s.seen[b] = seen[b]
      BY <2>11
    <3>2. synced[b] = accepted'[b]
      BY <2>9, <3>1
    <3> QED
      BY <2>10, <2>11, <3>1, <3>2
  <2>16. WorseningIsTold'
    <3> SUFFICES ASSUME NEW b \in Watched, b \notin lost', accepted'[b] # None, reported'[b] # None,
                        Monitor!DetectRiskEscalations(accepted'[b], reported'[b]) # <<>>
                 PROVE  <<b, Head(Monitor!DetectRiskEscalations(accepted'[b], reported'[b]))>> \in inbox'
      BY DEF WorseningIsTold, Monitor!WorseningIsTold
    <3>1. accepted[b] # None /\ reported'[b] = reported[b]
      BY <2>1
    <3>2. accepted'[b] = accepted[b] /\ b \notin lost
      BY <2>1, <2>6, <2>7, <3>1
    <3> QED
      BY <1>1, <3>1, <3>2 DEF RiskInv, WorseningIsTold, Monitor!WorseningIsTold
  <2> QED
    BY <2>8, <2>12, <2>13, <2>14, <2>15, <2>16 DEF RiskInv, ScanCopyStands
<1> QED
  BY <1>2, <1>3

LEMMA RequestBegins ==
  ASSUME RiskInv, Monitor!Begin \/ Monitor!GetTradingPortfolio
  PROVE  RiskInv'
<1>1. UNCHANGED <<risk, held, baselines, scan, inbox, accepted, lost, left, reported>>
  BY DEF Monitor!Begin, Monitor!GetTradingPortfolio, Monitor!market
<1>2. /\ request' \in Monitor!Requests
      /\ request'.copy = None \/ request'.copy = baselines
  <2> USE DEF RiskInv, RiskTypeOK
  <2>1. ASSUME NEW b \in Watched, Monitor!BeginAcknowledge(b)
        PROVE  request' \in Monitor!Requests /\ request'.copy = None
    BY <2>1 DEF Monitor!BeginAcknowledge, Monitor!Requests
  <2>2. CASE Monitor!BeginEdit
    BY <2>2 DEF Monitor!BeginEdit, Monitor!Requests
  <2>3. CASE Monitor!GetTradingPortfolio
    <3>1. /\ request \in Monitor!Requests /\ request.copy = None
          /\ request' = [request EXCEPT !.copy = baselines]
      BY <2>3 DEF Monitor!GetTradingPortfolio
    <3>2. request \in [bond : Watched, seen : Risks, copy : Monitor!Baselines \cup {None}]
      BY <3>1, RiskAssumption DEF Monitor!Requests
    <3> QED
      BY <3>1, <3>2 DEF Monitor!Requests
  <2> QED
    BY <2>1, <2>2, <2>3 DEF Monitor!Begin
<1>3. RiskTypeOK'
  BY <1>1, <1>2 DEF RiskInv, RiskTypeOK
<1>4. OnItsWay' /\ (ScanReads' <=> ScanReads)
  BY <1>1 DEF RiskInv, OnItsWay, IsWorse, Gravest, ScanReads
<1> QED
  BY <1>1, <1>3, <1>4, RiskQuiet

LEMMA SaveRisk ==
  ASSUME RiskInv, Monitor!SaveRequest
  PROVE  RiskInv'
<1> DEFINE a == request.bond
           saved == IF a = None THEN request.copy
                    ELSE Monitor!Acknowledged(request.copy, a, request.seen)
           taken == Monitor!Overwritten(request.copy, saved)
<1>0. RiskTypeOK /\ BaselinesStand /\ NothingElse /\ ScanCopyStands
  BY DEF RiskInv
<1>1. /\ request \in Monitor!Requests /\ request.copy \in Monitor!Baselines
      /\ request' = Idle /\ baselines' = saved /\ UNCHANGED <<risk, held, inbox>>
      /\ a = None \/ (a \in Watched /\ request.seen \in Risks /\ request.seen # None)
  BY <1>0, RiskAssumption
     DEF Monitor!SaveRequest, RiskTypeOK, Monitor!Requests, Monitor!market
<1>2. /\ saved \in Monitor!Baselines
      /\ \A b \in Watched : saved[b] = IF b = a THEN request.seen ELSE request.copy[b]
  BY <1>1, RiskAssumption DEF Monitor!Acknowledged, Monitor!Baselines
<1>3. /\ \A b \in Watched : accepted'[b] = IF b = a THEN request.seen ELSE accepted[b]
      /\ accepted' \in Monitor!Baselines
      /\ \A b \in Watched : reported'[b] = IF b = a THEN None ELSE reported[b]
      /\ reported' \in Monitor!Baselines
  BY <1>0, <1>1, RiskAssumption DEF Monitor!SaveRequest, RiskTypeOK, Monitor!Baselines
<1>4. \A b \in Watched : b # a /\ accepted[b] # None /\ b \notin lost' =>
        b \notin lost /\ saved[b] = baselines[b]
  <2> SUFFICES ASSUME NEW b \in Watched, b # a, accepted[b] # None, b \notin lost'
               PROVE  b \notin lost /\ saved[b] = baselines[b]
    OBVIOUS
  <2>1. b \notin lost /\ b \notin taken
    BY DEF Monitor!SaveRequest, Monitor!Kept
  <2>2. baselines[b] = request.copy[b] \/ saved[b] = baselines[b]
    BY <2>1 DEF Monitor!Overwritten
  <2> QED
    BY <1>2, <2>1, <2>2
<1>a. \A b \in Watched : b # a /\ accepted[b] = None /\ b \notin left' =>
        b \notin left /\ b \notin taken
  <2>1. CASE a = None
    <3>1. left' = {c \in left \cup taken : accepted[c] = None}
      BY <2>1 DEF Monitor!SaveRequest
    <3> QED
      BY <3>1
  <2>2. CASE a # None
    <3>1. left' = {c \in left \cup taken : accepted[c] = None} \ {a}
      BY <2>2 DEF Monitor!SaveRequest
    <3> QED
      BY <3>1
  <2> QED
    BY <2>1, <2>2
<1>5. \/ scan' = Idle /\ scan = Idle
      \/ /\ scan \in Monitor!Scans /\ scan # Idle /\ scan' \in Monitor!Scans
         /\ scan'.pc = scan.pc /\ scan'.copy = scan.copy /\ scan'.seen = scan.seen
         /\ scan'.alerts = scan.alerts
         /\ scan'.voided = scan.voided \cup (IF a = None THEN {} ELSE {a})
  <2>1. CASE scan = Idle
    BY <2>1 DEF Monitor!SaveRequest
  <2>2. CASE scan # Idle /\ a = None
    BY <1>0, <2>2 DEF Monitor!SaveRequest, RiskTypeOK
  <2>3. CASE scan # Idle /\ a # None
    <3>1. scan \in Monitor!Scans /\ scan' = [scan EXCEPT !.voided = @ \cup {a}]
      BY <1>0, <2>3 DEF Monitor!SaveRequest, RiskTypeOK
    <3> QED
      BY <1>1, <2>3, <3>1 DEF Monitor!Scans
  <2> QED
    BY <2>1, <2>2, <2>3
<1> HIDE DEF a, saved, taken
<1>6. RiskTypeOK'
  BY <1>0, <1>1, <1>2, <1>3, <1>5 DEF RiskTypeOK
<1>7. BaselinesStand'
  BY <1>0, <1>1, <1>2, <1>3, <1>4 DEF BaselinesStand
<1>8. NothingElse'
  <2> SUFFICES ASSUME NEW b \in Watched, accepted'[b] = None, b \notin left'
               PROVE  saved[b] = None
    BY <1>1 DEF NothingElse
  <2>1. b # a /\ accepted[b] = None
    BY <1>1, <1>3, RiskAssumption
  <2>2. b \notin left /\ b \notin taken
    BY <1>a, <2>1
  <2>3. baselines[b] = None
    BY <1>0, <2>1, <2>2 DEF NothingElse
  <2>4. baselines[b] = request.copy[b] \/ saved[b] = baselines[b]
    BY <2>2 DEF Monitor!Overwritten, taken
  <2> QED
    BY <1>2, <2>1, <2>3, <2>4
<1>9. ScanCopyStands'
  <2> SUFFICES ASSUME ScanReads, scan'.copy = scan.copy, NEW b \in Watched
               PROVE  /\ accepted'[b] = None /\ b \notin left' => scan.copy[b] = None
                      /\ accepted'[b] # None /\ b \notin lost' /\ b \notin scan'.voided =>
                           scan.copy[b] = saved[b]
    BY <1>1, <1>5 DEF ScanCopyStands, ScanReads
  <2>1. CASE accepted'[b] = None /\ b \notin left'
    <3>1. b # a /\ accepted[b] = None
      BY <1>1, <1>3, <2>1, RiskAssumption
    <3>2. b \notin left
      BY <1>a, <2>1, <3>1
    <3> QED
      BY <1>0, <2>1, <3>1, <3>2 DEF ScanCopyStands
  <2>2. CASE accepted'[b] # None /\ b \notin lost' /\ b \notin scan'.voided
    <3>1. b # a /\ b \notin scan.voided
      BY <1>1, <1>5, <2>2 DEF ScanReads
    <3> QED
      BY <1>0, <1>3, <1>4, <2>2, <3>1 DEF ScanCopyStands
  <2> QED
    BY <2>1, <2>2
<1>10. OnItsWay'
  <2> SUFFICES ASSUME scan # Idle, scan.pc = "deliver", scan'.seen = scan.seen,
                      scan'.alerts = scan.alerts,
                      NEW b \in Watched, b \notin lost', b \notin scan'.voided,
                      accepted'[b] # None, scan.seen[b] # None,
                      Monitor!DetectRiskEscalations(accepted'[b], scan.seen[b]) # <<>>
               PROVE  \/ <<b, Head(Monitor!DetectRiskEscalations(accepted'[b], scan.seen[b]))>> \in inbox
                      \/ \E i \in DOMAIN scan.alerts : scan.alerts[i] =
                           <<b, Head(Monitor!DetectRiskEscalations(accepted'[b], scan.seen[b]))>>
    BY <1>1, <1>5 DEF OnItsWay, IsWorse, Gravest
  <2>1. b # a /\ b \notin scan.voided
    BY <1>1, <1>5
  <2>2. accepted'[b] = accepted[b] /\ b \notin lost
    BY <1>3, <1>4, <2>1
  <2> QED
    BY <2>1, <2>2 DEF RiskInv, OnItsWay, IsWorse, Gravest
<1>11. WorseningIsTold'
  <2> SUFFICES ASSUME NEW b \in Watched, b \notin lost', accepted'[b] # None, reported'[b] # None,
                      Monitor!DetectRiskEscalations(accepted'[b], reported'[b]) # <<>>
               PROVE  <<b, Head(Monitor!DetectRiskEscalations(accepted'[b], reported'[b]))>> \in inbox'
    BY DEF WorseningIsTold, Monitor!WorseningIsTold
  <2>1. b # a /\ accepted'[b] = accepted[b] /\ reported'[b] = reported[b] /\ b \notin lost
    BY <1>3, <1>4
  <2> QED
    BY <1>1, <2>1 DEF RiskInv, WorseningIsTold, Monitor!WorseningIsTold
<1> QED
  BY <1>6, <1>7, <1>8, <1>9, <1>10, <1>11 DEF RiskInv

LEMMA RiskStep == RiskInv /\ [Monitor!Next]_(Monitor!riskVars) => RiskInv'
<1> SUFFICES ASSUME RiskInv, [Monitor!Next]_(Monitor!riskVars)
             PROVE  RiskInv'
  OBVIOUS
<1>1. CASE Monitor!Next
  <2>1. CASE Monitor!ScanSkip
    BY <2>1, ScanGivenUp DEF Monitor!ScanSkip, Monitor!market
  <2> QED
    BY <1>1, <2>1, MoveRisk, ScanBegins, ScanMarketRisk, DeliverRisk, ScanEnds, RequestBegins,
       SaveRisk DEF Monitor!Next, Monitor!Scan, Monitor!Owner
<1>2. CASE UNCHANGED Monitor!riskVars
  BY <1>2 DEF Monitor!riskVars, Monitor!market, RiskInv, RiskTypeOK, BaselinesStand, NothingElse,
     ScanCopyStands, OnItsWay, IsWorse, Gravest, WorseningIsTold, Monitor!WorseningIsTold, ScanReads
<1> QED
  BY <1>1, <1>2

\* The rows, copies and alerts on their way; see the top.
THEOREM RiskInvariant == Monitor!Spec => []RiskInv
BY RiskInit, RiskStep, PTL DEF Monitor!Spec

\* However long the market moves, the owner trades, acknowledges and edits, and fetches
\* and deliveries fail: a worsening that a scan has seen to its end is in the inbox,
\* unless one of the four losses the property names took its baseline.
THEOREM WorseningReachesInbox == Monitor!Spec => []WorseningIsTold
<1>1. RiskInv => WorseningIsTold
  BY DEF RiskInv
<1> QED
  BY <1>1, RiskInvariant, PTL
=============================================================================
