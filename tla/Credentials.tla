---------------------------- MODULE Credentials ----------------------------
(***************************************************************************)
(* The broker token of one owner and account kind: a row that keeps it     *)
(* sealed, and a plaintext copy with a time to live in each process.  API  *)
(* handlers replace it, delete it, use it and, for a row of an older       *)
(* release, probe what it may do; the notifier only uses it, and hears of  *)
(* no change.                                                              *)
(*                                                                         *)
(* A token is sealed for the id of its row (CredentialAAD) and opens only  *)
(* under it.                                                               *)
(***************************************************************************)
EXTENDS Integers

CONSTANTS
  Tokens,
  Trading,       \* the tokens with an account they may trade on
  Threads,       \* API handlers
  Watcher,       \* the notifier's goroutine
  TTL,           \* of a plaintext copy
  MaxGet,        \* longest a handler takes, in ticks
  MaxTime, MaxWrites, MaxFaults,
  Idle, None

Users == Threads \cup {Watcher}
Procs == {"api", "notifier"}
ProcOf(t) == IF t = Watcher THEN "notifier" ELSE "api"

VARIABLES
  now,
  credential,    \* the row, or None
  ids,           \* ids drawn so far
  plain,         \* process -> the copy it keeps: [token, until]
  call,          \* the call each goroutine serves
  served,        \* the token the last step gave out had not been stored so long
  stored,        \* token -> when the row last had it
  overlapped,    \* a Put or Delete ran beside another
  blind,         \* a Put took a failed read for no row
  writes, faults

credentialVars == <<credential, ids, plain, call, served, stored, overlapped, blind, writes>>

Row == [id : Nat, sealed : Nat, token : Tokens, trade : BOOLEAN, checked : BOOLEAN]

\* What a goroutine has in hand: a write, a row it read, or a token to probe.
Calls == [op : {"put", "delete", "get", "probe"}, pc : {"write", "invalidate", "open", "list"},
          token : Tokens \cup {None}, row : Row \cup {None}, trade : BOOLEAN,
          id : Nat \cup {None}, began : Nat]

Copies == [token : Tokens, until : Nat]

Init ==
  /\ now = 0
  \* Columns added by EnsureBrokerCredentialsTradeSchema: not checked yet.
  /\ credential \in {None} \cup
       [id : {0}, sealed : {0}, token : Tokens, trade : {FALSE}, checked : {FALSE}]
  /\ ids = 1
  /\ plain = [p \in Procs |-> None]
  /\ call = [t \in Users |-> Idle]
  /\ served = 0
  /\ stored = [k \in Tokens |-> 0]
  /\ overlapped = FALSE
  /\ blind = FALSE
  /\ writes = 0
  /\ faults = 0

Writing(t) == call[t] # Idle /\ call[t].op \in {"put", "delete"}

\* What ListAccounts may say of a token: it trades, it does not, or there is no
\* account yet.
Answers(token) == {IF token \in Trading THEN "trade" ELSE "read", "none"}

TokenCanTrade(answer) == answer = "trade"

Fail == faults < MaxFaults /\ faults' = faults + 1

-----------------------------------------------------------------------------
(* Put: list the accounts, read the row for its id, seal and upsert.       *)

\* A plausible slip: every Put draws an id.
FreshId(existing) == ids

CredentialId(existing) == IF existing = None THEN ids ELSE existing.id

PutBegin(t) ==
  /\ t \in Threads /\ call[t] = Idle /\ writes < MaxWrites
  /\ writes' = writes + 1
  /\ \E token \in Tokens : \E answer \in Answers(token) :
       \E existing \in {credential, None} :
         /\ IF existing = credential THEN UNCHANGED <<blind, faults>>
            ELSE blind' = TRUE /\ Fail
         /\ call' = [call EXCEPT ![t] =
                       [op |-> "put", pc |-> "write", token |-> token, row |-> None,
                        trade |-> TokenCanTrade(answer), id |-> CredentialId(existing),
                        began |-> now]]
  /\ ids' = ids + 1
  /\ overlapped' = (overlapped \/ \E u \in Threads : Writing(u))
  /\ served' = 0
  /\ UNCHANGED <<now, credential, plain, stored>>

PutWrite(t) ==
  /\ call[t] # Idle /\ call[t].op = "put" /\ call[t].pc = "write"
  /\ credential' = [id |-> IF credential = None THEN call[t].id ELSE credential.id,
                    sealed |-> call[t].id, token |-> call[t].token,
                    trade |-> call[t].trade, checked |-> TRUE]
  /\ stored' = [stored EXCEPT ![call[t].token] = now]
  /\ call' = [call EXCEPT ![t].pc = "invalidate"]
  /\ served' = 0
  /\ UNCHANGED <<now, ids, plain, overlapped, blind, writes, faults>>

\* An error of the upsert: nothing is invalidated.
PutFails(t) ==
  /\ call[t] # Idle /\ call[t].op = "put" /\ call[t].pc = "write"
  /\ Fail
  /\ call' = [call EXCEPT ![t] = Idle]
  /\ served' = 0
  /\ UNCHANGED <<now, credential, ids, plain, stored, overlapped, blind, writes>>

DeleteRow(t) ==
  /\ t \in Threads /\ call[t] = Idle /\ writes < MaxWrites
  /\ writes' = writes + 1
  /\ credential' = None
  /\ call' = [call EXCEPT ![t] =
                [op |-> "delete", pc |-> "invalidate", token |-> None, row |-> None,
                 trade |-> FALSE, id |-> None, began |-> now]]
  /\ overlapped' = (overlapped \/ \E u \in Threads : Writing(u))
  /\ served' = 0
  /\ UNCHANGED <<now, ids, plain, stored, blind, faults>>

\* The copy of this process only.
Invalidate(t) ==
  /\ call[t] # Idle /\ call[t].pc = "invalidate"
  /\ plain' = [plain EXCEPT !["api"] = None]
  /\ call' = [call EXCEPT ![t] = Idle]
  /\ served' = 0
  /\ UNCHANGED <<now, credential, ids, stored, overlapped, blind, writes, faults>>

-----------------------------------------------------------------------------
(* GetPlaintext, for a broker call or for a probe.                         *)

Fresh(entry) == entry # None /\ now < entry.until

\* A plausible slip: the copy is kept until it is invalidated.
CachedForGood(token) == [token |-> token, until |-> MaxTime + 1]

Cached(token) == [token |-> token, until |-> now + TTL]

Opens(row) == row.sealed = row.id

\* AuthMe probes the rows nobody has checked.
Asked(t) == IF t \in Threads /\ credential # None /\ ~credential.checked
            THEN {"get", "probe"} ELSE {"get"}

\* The token in hand goes to the broker, or the probe goes on with it.
Given(t, op, token) ==
  IF op = "probe"
  THEN /\ call' = [call EXCEPT ![t] =
                     [op |-> "probe", pc |-> "list", token |-> token, row |-> None,
                      trade |-> FALSE, id |-> None, began |-> now]]
       /\ served' = 0
  ELSE /\ call' = [call EXCEPT ![t] = Idle]
       /\ served' = now - stored[token]

GetHit(t) ==
  /\ call[t] = Idle /\ Fresh(plain[ProcOf(t)])
  /\ \E op \in Asked(t) : Given(t, op, plain[ProcOf(t)].token)
  /\ UNCHANGED <<now, credential, ids, plain, stored, overlapped, blind, writes, faults>>

\* No row, or an error: ErrBrokerCredentialsRequired or the error, no token.
GetRead(t) ==
  /\ call[t] = Idle /\ ~Fresh(plain[ProcOf(t)]) /\ credential # None
  /\ \E op \in Asked(t) :
       call' = [call EXCEPT ![t] =
                  [op |-> op, pc |-> "open", token |-> None, row |-> credential,
                   trade |-> FALSE, id |-> None, began |-> now]]
  /\ served' = 0
  /\ UNCHANGED <<now, credential, ids, plain, stored, overlapped, blind, writes, faults>>

\* Decrypt, then keep the copy.
GetOpen(t) ==
  /\ call[t] # Idle /\ call[t].pc = "open"
  /\ IF Opens(call[t].row)
     THEN /\ plain' = [plain EXCEPT ![ProcOf(t)] = Cached(call[t].row.token)]
          /\ Given(t, call[t].op, call[t].row.token)
     ELSE call' = [call EXCEPT ![t] = Idle] /\ UNCHANGED plain /\ served' = 0
  /\ UNCHANGED <<now, credential, ids, stored, overlapped, blind, writes, faults>>

\* probeCredentialTradeCapability: an error or an empty list decides nothing;
\* SetTradeCapability updates the row there is.
Probe(t) ==
  /\ call[t] # Idle /\ call[t].pc = "list"
  /\ \E answer \in Answers(call[t].token) :
       credential' = IF credential = None \/ answer = "none" THEN credential
                     ELSE [credential EXCEPT !.trade = TokenCanTrade(answer),
                                             !.checked = TRUE]
  /\ call' = [call EXCEPT ![t] = Idle]
  /\ served' = 0
  /\ UNCHANGED <<now, ids, plain, stored, overlapped, blind, writes, faults>>

-----------------------------------------------------------------------------
\* A copy past its time is never used again: none is kept of it here.
Tick ==
  /\ now < MaxTime
  /\ \A t \in Users : call[t] # Idle => now - call[t].began < MaxGet
  /\ now' = now + 1
  /\ stored' = [k \in Tokens |->
                  IF credential # None /\ credential.token = k THEN now' ELSE stored[k]]
  /\ plain' = [p \in Procs |->
                 IF plain[p] # None /\ now' < plain[p].until THEN plain[p] ELSE None]
  /\ served' = 0
  /\ UNCHANGED <<credential, ids, call, overlapped, blind, writes, faults>>

Write(t) == PutBegin(t) \/ PutWrite(t) \/ PutFails(t) \/ DeleteRow(t) \/ Invalidate(t)

Get(t) == GetHit(t) \/ GetRead(t) \/ GetOpen(t) \/ Probe(t)

Next == Tick \/ \E t \in Users : Write(t) \/ Get(t)

Spec == Init /\ [][Next]_<<now, faults, credentialVars>>

-----------------------------------------------------------------------------
(* Properties.                                                             *)

\* A stored token can be opened: however often it was replaced and deleted, the
\* row is sealed for its own id.  Excepted are Puts that overlap another write,
\* each of which may draw an id of its own, and a Put whose read failed.
StoredOpens == (credential # None /\ ~overlapped /\ ~blind) => Opens(credential)

\* A token that was replaced or deleted is given out by neither process longer
\* than a copy lives and a handler takes, although the notifier hears of nothing
\* and a handler under way may bring the old copy back.
ServedIsRecent == served < TTL + MaxGet
=============================================================================
