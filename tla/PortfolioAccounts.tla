------------------------- MODULE PortfolioAccounts -------------------------
(***************************************************************************)
(* Portfolios of one owner and the broker accounts they trade on.          *)
(*                                                                         *)
(* PortfolioRepository.Save writes the whole row (an upsert), and every    *)
(* operation is a load, an edit of the loaded copy and a save: no          *)
(* transaction, no version column, no unique index on the account.  Each   *)
(* request is a goroutine (Threads) whose load, link check, broker calls   *)
(* and save are separate steps, so copies of a row can overlap.            *)
(*                                                                         *)
(* A row keeps its mode, its account, the account its frozen forecast was  *)
(* made for, the bonds held and the bonds whose reinvestment slot has a    *)
(* manual replacement.  Names, amounts and dates are left out.             *)
(***************************************************************************)
EXTENDS Naturals, FiniteSets

CONSTANTS
  Portfolios,     \* portfolio ids; an id is never drawn twice
  Accounts,       \* sandbox account ids the broker may issue
  Bonds,          \* ISINs
  Threads,        \* request goroutines
  MaxRequests,    \* bound on the requests of a behaviour
  MaxFaults,      \* bound on failing broker and database calls
  NoRow, Idle, None

ASSUME DistinctNone ==
  None \notin Accounts /\ None \notin Portfolios /\ None \notin Bonds

ASSUME Bounds == MaxRequests \in Nat /\ MaxFaults \in Nat

VARIABLES
  row,        \* the portfolios table
  ids,        \* ids drawn so far
  acct,       \* the broker's accounts: "unused", "open" or "closed"
  job,        \* the request each goroutine serves
  requests, faults,
  raced,      \* a save overwrote, or a link ignored, a write made after its read
  blind,      \* a link check whose query failed was read as "not linked"
  removed     \* accounts closed by DeleteSandboxAccount

vars == <<row, ids, acct, job, requests, faults, raced, blind, removed>>

(***************************************************************************)
(* Rows and jobs.                                                          *)
(***************************************************************************)
Row == [mode : {"simulation", "trading"},
        account : Accounts \cup {None},
        forecast : Accounts \cup {None},
        held : SUBSET Bonds,
        confirmed : SUBSET Bonds]

ASSUME NoRowIsNone == NoRow \notin Row

Edits == {"fields", "add", "remove", "clear", "compose",
          "override", "reset", "plan", "acknowledge", "detach"}

Job == [op : Edits \cup {"attach", "drop", "empty"},
        step : {"save", "check", "snapshot", "baseline",
                "find", "delete", "close", "open"},
        portfolio : Portfolios \cup {None},
        account : Accounts \cup {None},
        bond : Bonds \cup {None},
        copy : Row \cup {NoRow},
        stale : BOOLEAN]

Linked(a, p) == /\ row[p] # NoRow
                /\ row[p].mode = "trading"
                /\ row[p].account = a

\* FindLinkedPortfolio: the owner's trading portfolios on the account.
LinkedTo(a, exclude) == {p \in Portfolios \ {exclude} : Linked(a, p)}

Init ==
  /\ row = [p \in Portfolios |-> NoRow]
  /\ ids = {}
  /\ acct = [a \in Accounts |-> "unused"]
  /\ job = [t \in Threads |-> Idle]
  /\ requests = 0 /\ faults = 0
  /\ raced = FALSE /\ blind = FALSE /\ removed = {}

-----------------------------------------------------------------------------
Request == requests < MaxRequests /\ requests' = requests + 1

\* A broker or database call either succeeds or spends a fault.
Call(ok) == IF ok THEN faults' = faults
            ELSE faults < MaxFaults /\ faults' = faults + 1

\* A write to portfolio p or to the links of account a outdates what the other
\* goroutines read before it.
Outdated(u, p, a) ==
  /\ job[u] # Idle
  /\ \/ job[u].copy # NoRow /\ job[u].portfolio = p
     \/ job[u].account = a /\ a # None /\ job[u].step \notin {"check", "find"}

Mark(t, next, p, a) ==
  job' = [u \in Threads |->
            IF u = t THEN next
            ELSE IF Outdated(u, p, a) THEN [job[u] EXCEPT !.stale = TRUE]
            ELSE job[u]]

Continue(t, step) == job' = [job EXCEPT ![t].step = step]

Fail(t) == job' = [job EXCEPT ![t] = Idle]

-----------------------------------------------------------------------------
(***************************************************************************)
(* CRUD: create, delete and the edits.                                     *)
(***************************************************************************)
\* mutant: ids come from the rows that exist, so one can return
UnusedId(p) == row[p] = NoRow

NewId(p) == p \notin ids

CreatePortfolio(p) ==
  /\ Request
  /\ NewId(p)
  /\ ids' = ids \cup {p}
  /\ row' = [row EXCEPT ![p] =
               [mode |-> "simulation", account |-> None, forecast |-> None,
                held |-> {}, confirmed |-> {}]]
  /\ UNCHANGED <<acct, job, faults, raced, blind, removed>>

DeletePortfolio(p) ==
  /\ Request
  /\ row[p] # NoRow
  /\ row' = [row EXCEPT ![p] = NoRow]
  /\ job' = [u \in Threads |->
               IF Outdated(u, p, row[p].account)
               THEN [job[u] EXCEPT !.stale = TRUE] ELSE job[u]]
  /\ UNCHANGED <<ids, acct, faults, raced, blind, removed>>

\* loadOwned, GetByID or GetTradingPortfolio: an edit begins with a copy.
BeginEdit(t, op, p, b) ==
  /\ Request
  /\ job[t] = Idle
  /\ row[p] # NoRow
  /\ op = "acknowledge" => row[p].mode = "trading" /\ row[p].account # None
  /\ op = "remove" => b \in row[p].held
  /\ job' = [job EXCEPT ![t] =
               [op |-> op, step |-> "save", portfolio |-> p, account |-> None,
                bond |-> b, copy |-> row[p], stale |-> FALSE]]
  /\ UNCHANGED <<row, ids, acct, faults, raced, blind, removed>>

\* mutant: the frozen forecast survives the detach
DetachedFromBroker(c) == [c EXCEPT !.mode = "simulation", !.account = None]

Detached(c) == [c EXCEPT !.mode = "simulation", !.account = None, !.forecast = None]

\* The rows an edit may leave in the copy it saves.  Building a plan only
\* prunes overrides whose slot the plan no longer has.
Edited(op, c, b) ==
  CASE op = "add"      -> {[c EXCEPT !.held = @ \cup {b}]}
    [] op = "remove"   -> {[c EXCEPT !.held = @ \ {b}]}
    [] op = "clear"    -> {[c EXCEPT !.held = {}, !.confirmed = {}]}
    [] op = "compose"  -> {[c EXCEPT !.held = S] : S \in SUBSET Bonds}
    [] op = "override" -> {[c EXCEPT !.confirmed = (@ \cap S) \cup {b}] : S \in SUBSET Bonds}
                            \cup {[c EXCEPT !.confirmed = (@ \cap S) \ {b}] : S \in SUBSET Bonds}
    [] op = "reset"    -> {[c EXCEPT !.confirmed = {}]}
    [] op = "plan"     -> {[c EXCEPT !.confirmed = @ \cap S] : S \in SUBSET Bonds}
    [] op = "detach"   -> {Detached(c)}
    [] OTHER           -> {c}

\* repo.Save: the upsert writes every column of the copy, also when the row was
\* deleted meanwhile.  ResetAllSlotOverrides saves only a change; plans and
\* overrides of a trading portfolio first need the broker, which may fail.
SaveEdit(t) ==
  LET j == job[t] IN
  /\ j # Idle
  /\ j.op \in Edits /\ j.step = "save"
  /\ \E ok \in BOOLEAN :
       /\ Call(ok)
       /\ IF ok /\ ~(j.op = "reset" /\ j.copy.confirmed = {})
          THEN /\ \E c \in Edited(j.op, j.copy, j.bond) :
                    row' = [row EXCEPT ![j.portfolio] = c]
               /\ raced' = (raced \/ j.stale)
               /\ Mark(t, Idle, j.portfolio, j.copy.account)
          ELSE /\ Fail(t)
               /\ UNCHANGED <<row, raced>>
  /\ UNCHANGED <<ids, acct, requests, blind, removed>>

-----------------------------------------------------------------------------
(***************************************************************************)
(* Attaching an account.                                                   *)
(***************************************************************************)
BeginAttach(t, p, a) ==
  /\ Request
  /\ job[t] = Idle
  /\ row[p] # NoRow
  /\ job' = [job EXCEPT ![t] =
               [op |-> "attach", step |-> "check", portfolio |-> p,
                account |-> a, bond |-> None, copy |-> row[p], stale |-> FALSE]]
  /\ UNCHANGED <<row, ids, acct, faults, raced, blind, removed>>

\* mutant: only the wizard looks for a linked portfolio
FreeForAll(a, p) == TRUE

Free(a, p) == LinkedTo(a, p) = {}

\* The error of FindLinkedPortfolio is dropped: a failed query is "not linked".
AttachCheck(t) ==
  LET j == job[t] IN
  /\ j # Idle
  /\ j.op = "attach" /\ j.step = "check"
  /\ \E ok \in BOOLEAN :
       /\ Call(ok)
       /\ blind' = (blind \/ ~ok)
       /\ IF ok => Free(j.account, j.portfolio)
          THEN Continue(t, "snapshot")
          ELSE Fail(t)
  /\ UNCHANGED <<row, ids, acct, requests, raced, removed>>

\* The snapshot and the operations of the account, then the frozen forecast.
AttachSnapshot(t) ==
  LET j == job[t] IN
  /\ j # Idle
  /\ j.op = "attach" /\ j.step = "snapshot"
  /\ \E ok \in BOOLEAN :
       /\ Call(ok)
       /\ IF ok /\ acct[j.account] = "open"
          THEN Continue(t, "baseline")
          ELSE Fail(t)
  /\ UNCHANGED <<row, ids, acct, requests, raced, blind, removed>>

Attached(j) == [j.copy EXCEPT !.mode = "trading", !.account = j.account,
                              !.forecast = j.account]

\* PrepareTradingRiskMonitoring saves the attached row when a baseline changed,
\* and AttachAccount saves it again; a failing save ends the request either way.
AttachSave(t) ==
  LET j == job[t] IN
  /\ j # Idle
  /\ j.op = "attach" /\ j.step \in {"baseline", "save"}
  /\ \E ok \in BOOLEAN, changed \in BOOLEAN :
       /\ changed \/ j.step = "baseline"
       /\ Call(ok)
       /\ IF ~changed
          THEN ok /\ Continue(t, "save") /\ UNCHANGED <<row, raced>>
          ELSE IF ok
          THEN /\ row' = [row EXCEPT ![j.portfolio] = Attached(j)]
               /\ raced' = (raced \/ j.stale)
               /\ Mark(t, IF j.step = "baseline" THEN [j EXCEPT !.step = "save"] ELSE Idle,
                       j.portfolio, j.account)
          ELSE Fail(t) /\ UNCHANGED <<row, raced>>
  /\ UNCHANGED <<ids, acct, requests, blind, removed>>

-----------------------------------------------------------------------------
(***************************************************************************)
(* Sandbox accounts.                                                       *)
(***************************************************************************)
Opened == "open"

\* CreateSandboxAccount: a failed pay-in leaves the account open all the same.
CreateSandboxAccount(a) ==
  /\ Request
  /\ acct[a] = "unused"
  /\ acct' = [acct EXCEPT ![a] = Opened]
  /\ UNCHANGED <<row, ids, job, faults, raced, blind, removed>>

BeginDrop(t, a) ==
  /\ Request
  /\ job[t] = Idle
  /\ acct[a] = "open"
  /\ job' = [job EXCEPT ![t] =
               [op |-> "drop", step |-> "find", portfolio |-> None,
                account |-> a, bond |-> None, copy |-> NoRow, stale |-> FALSE]]
  /\ UNCHANGED <<row, ids, acct, faults, raced, blind, removed>>

\* mutant: the account is closed and its portfolio stays
NoVictims(a) == {}

Victims(a) == LinkedTo(a, None)

\* DeleteSandboxAccount: the linked portfolio goes first, found by a query
\* whose error is dropped; the first match is deleted, then the account closed.
DropFind(t) ==
  LET j == job[t] IN
  /\ j # Idle
  /\ j.op = "drop" /\ j.step = "find"
  /\ \E ok \in BOOLEAN :
       /\ Call(ok)
       /\ blind' = (blind \/ ~ok)
       /\ IF ok /\ Victims(j.account) # {}
          THEN \E p \in Victims(j.account) :
                 job' = [job EXCEPT ![t].step = "delete", ![t].portfolio = p]
          ELSE Continue(t, "close")
  /\ UNCHANGED <<row, ids, acct, requests, raced, removed>>

DropDelete(t) ==
  LET j == job[t] IN
  /\ j # Idle
  /\ j.op = "drop" /\ j.step = "delete"
  /\ \E ok \in BOOLEAN :
       /\ Call(ok)
       /\ IF ok
          THEN /\ row' = [row EXCEPT ![j.portfolio] = NoRow]
               /\ Mark(t, [j EXCEPT !.step = "close"], j.portfolio, j.account)
          ELSE Fail(t) /\ UNCHANGED row
  /\ UNCHANGED <<ids, acct, requests, raced, blind, removed>>

DropClose(t) ==
  LET j == job[t] IN
  /\ j # Idle
  /\ j.op = "drop" /\ j.step = "close"
  /\ \E ok \in BOOLEAN :
       /\ Call(ok)
       /\ IF ok /\ acct[j.account] = "open"
          THEN /\ acct' = [acct EXCEPT ![j.account] = "closed"]
               /\ removed' = removed \cup {j.account}
               /\ raced' = (raced \/ j.stale)
               /\ Mark(t, Idle, None, j.account)
          ELSE Fail(t) /\ UNCHANGED <<acct, removed, raced>>
  /\ UNCHANGED <<row, ids, requests, blind>>

\* ClearAccountForAttach: an account that holds instruments is closed, whoever
\* trades on it, and replaced; the close's error is dropped.
BeginClear(t, p, a) ==
  /\ Request
  /\ job[t] = Idle
  /\ row[p] # NoRow
  /\ acct[a] = "open"
  /\ job' = [job EXCEPT ![t] =
               [op |-> "empty", step |-> "close", portfolio |-> p,
                account |-> a, bond |-> None, copy |-> NoRow, stale |-> FALSE]]
  /\ UNCHANGED <<row, ids, acct, faults, raced, blind, removed>>

ClearClose(t) ==
  LET j == job[t] IN
  /\ j # Idle
  /\ j.op = "empty" /\ j.step = "close"
  /\ \E ok \in BOOLEAN :
       /\ Call(ok)
       /\ acct' = IF ok /\ acct[j.account] = "open"
                  THEN [acct EXCEPT ![j.account] = "closed"] ELSE acct
       /\ Continue(t, "open")
  /\ UNCHANGED <<row, ids, requests, raced, blind, removed>>

ClearOpen(t) ==
  LET j == job[t] IN
  /\ j # Idle
  /\ j.op = "empty" /\ j.step = "open"
  /\ \/ /\ Call(TRUE)
        /\ \E a \in Accounts : /\ acct[a] = "unused"
                               /\ acct' = [acct EXCEPT ![a] = Opened]
     \/ Call(FALSE) /\ UNCHANGED acct
     \/ Call(TRUE) /\ UNCHANGED acct /\ \A a \in Accounts : acct[a] # "unused"
  /\ Fail(t)
  /\ UNCHANGED <<row, ids, requests, raced, blind, removed>>

-----------------------------------------------------------------------------
Next ==
  \/ \E p \in Portfolios : CreatePortfolio(p) \/ DeletePortfolio(p)
  \/ \E a \in Accounts : CreateSandboxAccount(a)
  \/ \E t \in Threads :
       \/ \E p \in Portfolios, op \in Edits, b \in Bonds : BeginEdit(t, op, p, b)
       \/ SaveEdit(t)
       \/ \E p \in Portfolios, a \in Accounts : BeginAttach(t, p, a) \/ BeginClear(t, p, a)
       \/ AttachCheck(t) \/ AttachSnapshot(t) \/ AttachSave(t)
       \/ \E a \in Accounts : BeginDrop(t, a)
       \/ DropFind(t) \/ DropDelete(t) \/ DropClose(t)
       \/ ClearClose(t) \/ ClearOpen(t)

Spec == Init /\ [][Next]_vars

-----------------------------------------------------------------------------
(***************************************************************************)
(* Properties.                                                             *)
(***************************************************************************)
TypeOK ==
  /\ row \in [Portfolios -> Row \cup {NoRow}]
  /\ ids \subseteq Portfolios
  /\ acct \in [Accounts -> {"unused", "open", "closed"}]
  /\ job \in [Threads -> Job \cup {Idle}]
  /\ requests \in 0 .. MaxRequests
  /\ faults \in 0 .. MaxFaults
  /\ raced \in BOOLEAN /\ blind \in BOOLEAN
  /\ removed \subseteq Accounts

\* A row, or a copy on its way to one, trades exactly when it has an account,
\* and its frozen forecast was made for that account: detaching, attaching
\* elsewhere and whole-row saves of older copies never leave a forecast of one
\* account on a portfolio that trades on another or on none.
Coherent(c) == /\ c.mode = "trading" <=> c.account # None
               /\ c.forecast = c.account

ForecastIsOfAccount ==
  \A p \in Portfolios : row[p] # NoRow => Coherent(row[p])

\* Two portfolios trade on one account only if a save was based on a read that
\* another write had outdated, or a link query failed and was read as "free".
AccountLinkedOnce ==
  raced \/ blind \/
  \A a \in Accounts : Cardinality(LinkedTo(a, None)) <= 1

\* No portfolio trades on an account that DeleteSandboxAccount has closed,
\* under the same two exceptions.
ClosedIsUnlinked ==
  raced \/ blind \/ \A a \in removed : LinkedTo(a, None) = {}

\* A deleted portfolio comes back only through the save of an outdated copy.
DeletedStaysDeleted ==
  [][\A p \in ids : row[p] = NoRow => row'[p] = NoRow \/ raced']_vars
=============================================================================
