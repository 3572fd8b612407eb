--------------------------- MODULE DeploySessions ---------------------------
(***************************************************************************)
(* Purchase plans ("deploy sessions") of one trading portfolio and the     *)
(* broker orders placed from them.                                         *)
(*                                                                         *)
(* A session freezes a list of items to buy.  The user creates, refreshes  *)
(* or cancels it, skips an item or orders it; every request for advice     *)
(* compares the session with the broker's open orders and writes it back.  *)
(* Requests run in goroutines of the API.  Each reads the whole row of the *)
(* session, works on its copy and upserts the whole row: there is neither  *)
(* a transaction nor a version column, and broker calls lie in between.    *)
(*                                                                         *)
(* An item is identified by its session and its bond, as its id is the     *)
(* hash of both: a refreshed session has items with the ids it had before. *)
(***************************************************************************)
EXTENDS Naturals

CONSTANTS
  Bonds,       \* what a plan may propose to buy
  SessionIds,  \* bound on the sessions created
  OrderIds,    \* bound on the orders posted
  Threads,     \* API goroutines
  MaxStamp,    \* bound on created_at, in the seconds it is stored in
  MaxRequests, \* bound on the requests that change something
  None

VARIABLES
  rows,      \* table deploy_sessions, by id
  orders,    \* the broker's orders, by id
  call,      \* the frame of each goroutine
  requests,  \* how many of the MaxRequests have been made
  disturbed  \* history: what has happened that a lone, lucky user never meets

vars == <<rows, orders, call, requests, disturbed>>

\* "expired" is declared in the code and never assigned.
SessionStatuses == {"active", "completed", "cancelled"}

ItemStatuses == {"pending", "placed", "filled", "skipped", "stale"}

\* PARTIALLYFILL is as open as NEW, REJECTED as final as CANCELLED.
OrderStatuses == {"new", "pending_cancel", "fill", "cancelled"}

Item == [status : ItemStatuses, order : OrderIds \cup {None}]

Plans == UNION {[B -> Item] : B \in (SUBSET Bonds) \ {{}}}

Session == [status : SessionStatuses, items : Plans, created : Nat]

Order == [status : OrderStatuses, session : SessionIds, bond : Bonds]

ASSUME SessionAssumption ==
  /\ MaxStamp \in Nat /\ MaxRequests \in Nat
  /\ None \notin Bonds \cup SessionIds \cup OrderIds \cup Session \cup Order

OrderLists == UNION {[S -> OrderStatuses] : S \in SUBSET OrderIds}

\* pc names the next call another goroutine can notice:
\*   close, insert  CreateSession, about to close the old and to save the new
\*   rebuild        RefreshSession, about to save new items
\*   mark           PlaceOrder, has posted the order, about to read the session
\*   session        GetAdvice, has the open orders, about to read the session
\*   advise         GetAdvice, about to save the session for the first time
\*   save           any handler, about to save the session for the last time
Frame ==
  [pc : {"idle", "close", "insert", "rebuild", "mark", "session", "advise", "save"},
   session : SessionIds \cup {None},
   bond : Bonds \cup {None},
   order : OrderIds \cup {None},
   listed : OrderLists,          \* what GetActiveOrders answered
   row : Session \cup {None},    \* the copy to be written
   stamp : Nat]                  \* CreatedAt of the session being built

Idle ==
  [pc |-> "idle", session |-> None, bond |-> None, order |-> None,
   listed |-> [o \in {} |-> "new"], row |-> None, stamp |-> 0]

TypeOK ==
  /\ rows \in [SessionIds -> Session \cup {None}]
  /\ orders \in [OrderIds -> Order \cup {None}]
  /\ call \in [Threads -> Frame]
  /\ requests \in Nat
  /\ disturbed \subseteq {"overlap", "abort", "refresh"}

Init ==
  /\ rows = [s \in SessionIds |-> None]
  /\ orders = [o \in OrderIds |-> None]
  /\ call = [t \in Threads |-> Idle]
  /\ requests = 0
  /\ disturbed = {}

-----------------------------------------------------------------------------
(* The rules of domain/trading/deploy_session.go. *)

PendingItems(row) == {b \in DOMAIN row.items : row.items[b].status = "pending"}

SessionHasPendingItems(row) == PendingItems(row) # {}

IsSessionActive(row) == row.status = "active"

\* mutant: complete as soon as one item is not pending
CompleteIfSomeDone(row) ==
  IF IsSessionActive(row) /\ PendingItems(row) # DOMAIN row.items
    THEN [row EXCEPT !.status = "completed"] ELSE row

CompleteSessionIfNoPending(row) ==
  IF IsSessionActive(row) /\ ~SessionHasPendingItems(row)
    THEN [row EXCEPT !.status = "completed"] ELSE row

WithItem(row, b, item) == [row EXCEPT !.items[b] = item]

MarkItemPlaced(row, b, o) ==
  CompleteSessionIfNoPending(WithItem(row, b, [status |-> "placed", order |-> o]))

MarkItemSkipped(row, b) ==
  CompleteSessionIfNoPending(WithItem(row, b, [row.items[b] EXCEPT !.status = "skipped"]))

TerminalOrderStatuses == {"fill", "cancelled"}

\* mutant: an order being cancelled gives its item back at once
ReopenedItem(item, listed) ==
  IF item.status = "placed" /\ item.order \in DOMAIN listed
     /\ listed[item.order] = "pending_cancel"
    THEN [status |-> "pending", order |-> None]
    ELSE IF item.status = "placed" /\ item.order # None /\ item.order \notin DOMAIN listed
           THEN [item EXCEPT !.status = "filled"] ELSE item

SyncedItem(item, listed) ==
  IF item.status # "placed" \/ item.order = None THEN item
  ELSE IF item.order \notin DOMAIN listed THEN [item EXCEPT !.status = "filled"]
  ELSE IF listed[item.order] = "fill" THEN [item EXCEPT !.status = "filled"]
  ELSE IF listed[item.order] \in TerminalOrderStatuses
    THEN [status |-> "pending", order |-> None]
  ELSE item

SyncSessionWithOrders(row, listed) ==
  CompleteSessionIfNoPending(
    [row EXCEPT !.items = [b \in DOMAIN row.items |-> SyncedItem(row.items[b], listed)]])

\* aged: the items whose price has drifted, whose bond is gone or whose due date
\* is not now.  Only pending ones are touched, and the session is not completed.
ApplySessionStaleness(row, aged) ==
  [row EXCEPT !.items =
     [b \in DOMAIN row.items |->
        IF b \in aged \cap PendingItems(row)
          THEN [row.items[b] EXCEPT !.status = "stale"] ELSE row.items[b]]]

FrozenItems(picked) == [b \in picked |-> [status |-> "pending", order |-> None]]

\* What the broker client lets through of the broker's list.
ActiveOrderStatuses == {"new", "pending_cancel"}

ActiveOrders ==
  LET open == {o \in OrderIds : orders[o] # None /\ orders[o].status \in ActiveOrderStatuses}
  IN  [o \in open |-> orders[o].status]

-----------------------------------------------------------------------------
(* The repository and the frames. *)

Saved == {s \in SessionIds : rows[s] # None}

\* GetActive: ORDER BY created_at DESC LIMIT 1, any of those of the same second.
IsLatestActive(s) ==
  /\ s \in Saved /\ IsSessionActive(rows[s])
  /\ \A u \in Saved : IsSessionActive(rows[u]) => rows[u].created <= rows[s].created

NoActive == \A s \in Saved : ~IsSessionActive(rows[s])

Begin(t, frame) ==
  /\ call[t] = Idle
  /\ call' = [call EXCEPT ![t] = frame]
  /\ disturbed' = IF \E u \in Threads \ {t} : call[u] # Idle
                    THEN disturbed \cup {"overlap"} ELSE disturbed

\* A request that changes something; asking for advice is free.
Request(t, frame) ==
  /\ requests < MaxRequests /\ requests' = requests + 1
  /\ Begin(t, frame)

Become(t, frame) == call' = [call EXCEPT ![t] = frame]

AboutToSave(s, row) == [Idle EXCEPT !.pc = "save", !.session = s, !.row = row]

\* The upsert leaves created_at alone; every copy has that of its row.
Write(s, row) == rows' = [rows EXCEPT ![s] = row]

\* Losing a frame: a crash, a closed request, an error of the broker or the
\* database.  Rejections before the first write are frames lost, too.
Abort(t) ==
  /\ call[t] # Idle
  /\ Become(t, Idle)
  /\ disturbed' = disturbed \cup {"abort"}
  /\ UNCHANGED <<rows, orders, requests>>

-----------------------------------------------------------------------------
(* CreateSession. *)

\* mutant: a session blocks a new one only while it is untouched
BlockedIfUntouched(row) == PendingItems(row) = DOMAIN row.items

BlocksCreation(row) == SessionHasPendingItems(row)

\* A session left active without pending items is closed first.
Opening(s, n) ==
  LET completed == CompleteSessionIfNoPending(rows[s])
  IN  IF completed.status = "completed"
        THEN [Idle EXCEPT !.pc = "close", !.session = s, !.row = completed, !.stamp = n]
        ELSE [Idle EXCEPT !.pc = "insert", !.stamp = n]

\* GetActive; the conflict of a session with pending items changes nothing.
CreateRead(t) ==
  /\ \E n \in 1 .. MaxStamp :
       /\ \A s \in Saved : rows[s].created <= n
       /\ \/ NoActive /\ Request(t, [Idle EXCEPT !.pc = "insert", !.stamp = n])
          \/ \E s \in SessionIds :
               /\ IsLatestActive(s)
               /\ ~BlocksCreation(rows[s])
               /\ Request(t, Opening(s, n))
  /\ UNCHANGED <<rows, orders>>

CreateClose(t) ==
  /\ call[t].pc = "close"
  /\ Write(call[t].session, call[t].row)
  /\ Become(t, [Idle EXCEPT !.pc = "insert", !.stamp = call[t].stamp])
  /\ UNCHANGED <<orders, requests, disturbed>>

\* buildAndSave under a random id; an empty plan is an error.
Insert(t) ==
  /\ call[t].pc = "insert"
  /\ \E s \in SessionIds \ Saved, picked \in (SUBSET Bonds) \ {{}} :
       Write(s, [status |-> "active", items |-> FrozenItems(picked),
                 created |-> call[t].stamp])
  /\ Become(t, Idle)
  /\ UNCHANGED <<orders, requests, disturbed>>

-----------------------------------------------------------------------------
(* RefreshSession, CancelSession, SkipItem. *)

CanBeRefreshed(row) == IsSessionActive(row)

RefreshRead(t) ==
  /\ \E s \in Saved :
       /\ CanBeRefreshed(rows[s])
       /\ Request(t, [Idle EXCEPT !.pc = "rebuild", !.session = s, !.row = rows[s]])
  /\ UNCHANGED <<rows, orders>>

\* buildAndSave under the same id, and then once more without its warnings.
Rebuild(t) ==
  /\ call[t].pc = "rebuild"
  /\ \E picked \in (SUBSET Bonds) \ {{}} :
       LET row == [call[t].row EXCEPT !.status = "active", !.items = FrozenItems(picked)]
       IN  /\ Write(call[t].session, row)
           /\ Become(t, AboutToSave(call[t].session, row))
  /\ disturbed' = disturbed \cup {"refresh"}
  /\ UNCHANGED <<orders, requests>>

CancelRead(t) ==
  /\ \E s \in Saved :
       Request(t, AboutToSave(s, [rows[s] EXCEPT !.status = "cancelled"]))
  /\ UNCHANGED <<rows, orders>>

SkipRead(t) ==
  /\ \E s \in Saved : \E b \in DOMAIN rows[s].items :
       /\ IsSessionActive(rows[s])
       /\ Request(t, AboutToSave(s, MarkItemSkipped(rows[s], b)))
  /\ UNCHANGED <<rows, orders>>

\* The last write of every handler that has read a session.
Save(t) ==
  /\ call[t].pc = "save"
  /\ Write(call[t].session, call[t].row)
  /\ Become(t, Idle)
  /\ UNCHANGED <<orders, requests, disturbed>>

-----------------------------------------------------------------------------
(* PlaceOrder and the broker. *)

\* PostLimitOrder with an item's id, which the caller gives: the item's status is not
\* looked at, and a page older than a refresh may name one the session has lost.  The
\* request id holds the second: two requests for an item in one second are one.
PlacePost(t) ==
  /\ \E s \in Saved, b \in Bonds, o \in OrderIds :
       /\ \/ /\ orders[o] = None
             /\ orders' = [orders EXCEPT ![o] = [status |-> "new", session |-> s, bond |-> b]]
          \/ /\ \E u \in Threads : /\ call[u].pc = "mark" /\ call[u].order = o
                                   /\ call[u].session = s /\ call[u].bond = b
             /\ UNCHANGED orders
       /\ Request(t, [Idle EXCEPT !.pc = "mark", !.session = s, !.bond = b, !.order = o])
  /\ UNCHANGED rows

\* mutant: the item is looked up by its bond alone
FoundByBond(s, row, suggestion) == suggestion.bond \in DOMAIN row.items

FindSessionItem(s, row, suggestion) ==
  suggestion.session = s /\ suggestion.bond \in DOMAIN row.items

\* GetActive; the item is marked only if it belongs to the active session.
PlaceRead(t) ==
  /\ call[t].pc = "mark"
  /\ \/ NoActive /\ Become(t, Idle)
     \/ \E s \in SessionIds :
          /\ IsLatestActive(s)
          /\ Become(t, IF FindSessionItem(s, rows[s], call[t])
                         THEN AboutToSave(s, MarkItemPlaced(rows[s], call[t].bond, call[t].order))
                         ELSE Idle)
  /\ UNCHANGED <<rows, orders, requests, disturbed>>

\* CancelOrder by the user, or the broker at the end of the day.
CancelOrder(o) ==
  /\ orders[o] # None /\ orders[o].status \in ActiveOrderStatuses
  /\ \E status \in {"pending_cancel", "cancelled"} :
       orders' = [orders EXCEPT ![o].status = status]
  /\ UNCHANGED <<rows, call, requests, disturbed>>

Execute(o) ==
  /\ orders[o] # None /\ orders[o].status \in ActiveOrderStatuses
  /\ orders' = [orders EXCEPT ![o].status = "fill"]
  /\ UNCHANGED <<rows, call, requests, disturbed>>

-----------------------------------------------------------------------------
(* GetAdvice and GetTradingState: the list of orders is older than the session. *)

AdviseOrders(t) ==
  /\ Begin(t, [Idle EXCEPT !.pc = "session", !.listed = ActiveOrders])
  /\ UNCHANGED <<rows, orders, requests>>

\* SyncActiveSession up to its Save.
AdviseRead(t) ==
  /\ call[t].pc = "session"
  /\ \/ NoActive /\ Become(t, Idle)
     \/ \E s \in SessionIds, aged \in SUBSET Bonds :
          /\ IsLatestActive(s)
          /\ Become(t, [Idle EXCEPT !.pc = "advise", !.session = s,
               !.row = ApplySessionStaleness(
                         SyncSessionWithOrders(rows[s], call[t].listed), aged)])
  /\ UNCHANGED <<rows, orders, requests, disturbed>>

\* Its Save.  Advise then synchronises the result again with the same orders: the
\* items no longer change, but a session whose last items went stale completes,
\* and only one that stays active is saved a second time.
AdviseSave(t) ==
  /\ call[t].pc = "advise"
  /\ Write(call[t].session, call[t].row)
  /\ Become(t, IF IsSessionActive(CompleteSessionIfNoPending(call[t].row))
                 THEN AboutToSave(call[t].session, call[t].row) ELSE Idle)
  /\ UNCHANGED <<orders, requests, disturbed>>

-----------------------------------------------------------------------------
Step(t) ==
  \/ CreateRead(t) \/ CreateClose(t) \/ Insert(t)
  \/ RefreshRead(t) \/ Rebuild(t) \/ CancelRead(t) \/ SkipRead(t)
  \/ PlacePost(t) \/ PlaceRead(t)
  \/ AdviseOrders(t) \/ AdviseRead(t) \/ AdviseSave(t)
  \/ Save(t) \/ Abort(t)

Next ==
  \/ \E t \in Threads : Step(t)
  \/ \E o \in OrderIds : CancelOrder(o) \/ Execute(o)

Spec == Init /\ [][Next]_vars

-----------------------------------------------------------------------------
(* Properties of every interleaving. *)

\* The order an item carries was posted for that very item: neither a stale write,
\* nor a new session with the same bond, nor two requests at once let an item
\* follow an order of another (ids of deploy_session.go:133, PlaceOrder's lookup).
HasOwnOrder(s, b, item) ==
  /\ item.status \in {"placed", "filled"} => item.order # None
  /\ item.order # None => /\ orders[item.order] # None
                          /\ orders[item.order].session = s
                          /\ orders[item.order].bond = b

ItemOrderIsItsOwn ==
  \A s \in Saved : \A b \in DOMAIN rows[s].items : HasOwnOrder(s, b, rows[s].items[b])

\* A completed session offers nothing: whoever writes last, a row that says
\* completed was completed together with the items it holds.
CompletedHasNoPending ==
  \A s \in Saved : rows[s].status = "completed" => ~SessionHasPendingItems(rows[s])

-----------------------------------------------------------------------------
(* Properties of requests made one after the other.                        *)
(* Each says which disturbances it does not survive.                       *)

\* The conflict check leaves at most one active session, even if a creation was
\* lost between closing the old session and saving the new one.
SingleActiveSession ==
  "overlap" \notin disturbed =>
    \A s, u \in Saved : IsSessionActive(rows[s]) /\ IsSessionActive(rows[u]) => s = u

\* Nothing is bought twice: between requests, an item offered to the user has no
\* order that is still open at the broker.  A lost frame (order posted, item not
\* marked) and a refresh (orders forgotten) are the ways out.
OfferedIsUnordered ==
  disturbed = {} /\ (\A t \in Threads : call[t] = Idle) =>
    \A s \in Saved, o \in OrderIds :
      IsSessionActive(rows[s]) /\ orders[o] # None
        /\ orders[o].status \in ActiveOrderStatuses /\ orders[o].session = s =>
          orders[o].bond \notin PendingItems(rows[s])

\* "updates placed items from broker order statuses": a filled item was bought.
FilledIsExecuted ==
  \A s \in Saved : \A b \in DOMAIN rows[s].items :
    rows[s].items[b].status = "filled" => orders[rows[s].items[b].order].status = "fill"
=============================================================================
