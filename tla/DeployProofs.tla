---------------------------- MODULE DeployProofs ----------------------------
(***************************************************************************)
(* Proofs about DeploySessions, for any number of bonds, sessions, orders, *)
(* goroutines and requests.                                                *)
(***************************************************************************)
EXTENDS DeploySessions, TLAPS

\* Item b of session s carries no order but its own, among the broker's orders ords.
Owns(ords, s, b, item) ==
  /\ item.status \in {"placed", "filled"} => item.order # None
  /\ item.order # None => /\ ords[item.order] # None
                          /\ ords[item.order].session = s /\ ords[item.order].bond = b

\* A row, or a copy of it, that may be written under id s.
GoodRow(ords, s, row) ==
  /\ \A b \in DOMAIN row.items : Owns(ords, s, b, row.items[b])
  /\ row.status = "completed" => PendingItems(row) = {}

\* The order a frame has posted and not yet marked.
Posted(ords, c) ==
  /\ c.session \in SessionIds /\ c.bond \in Bonds /\ c.order \in OrderIds
  /\ ords[c.order] # None
  /\ ords[c.order].session = c.session /\ ords[c.order].bond = c.bond

Writing == {"close", "rebuild", "advise", "save"}

FrameInv(ords, c) ==
  /\ c.pc \in Writing =>
       c.session \in SessionIds /\ c.row \in Session /\ GoodRow(ords, c.session, c.row)
  /\ c.pc = "mark" => Posted(ords, c)

RowsInv == \A s \in SessionIds : rows[s] # None => GoodRow(orders, s, rows[s])

Inv == TypeOK /\ RowsInv /\ \A t \in Threads : FrameInv(orders, call[t])

-----------------------------------------------------------------------------
(* Plans are unions of function sets: into and out of them. *)

LEMMA PlanType ==
  ASSUME NEW B \in (SUBSET Bonds) \ {{}}, NEW items \in [B -> Item]
  PROVE  items \in Plans
BY DEF Plans

LEMMA PlanItems ==
  ASSUME NEW items \in Plans
  PROVE  /\ DOMAIN items \in (SUBSET Bonds) \ {{}}
         /\ items \in [DOMAIN items -> Item]
<1>1. PICK B \in (SUBSET Bonds) \ {{}} : items \in [B -> Item]
  BY DEF Plans
<1> QED
  BY <1>1

LEMMA RowType ==
  ASSUME NEW row \in Session
  PROVE  /\ row.items \in Plans /\ row.status \in SessionStatuses /\ row.created \in Nat
         /\ DOMAIN row.items \in (SUBSET Bonds) \ {{}}
         /\ \A b \in DOMAIN row.items : row.items[b] \in Item
         /\ row # None
<1>1. row.items \in Plans /\ row.status \in SessionStatuses /\ row.created \in Nat
  BY DEF Session
<1> QED
  BY <1>1, PlanItems, SessionAssumption

LEMMA IdleType == Idle \in Frame
<1>1. [o \in {} |-> "new"] \in [{} -> OrderStatuses]
  OBVIOUS
<1>2. [o \in {} |-> "new"] \in OrderLists
  BY <1>1 DEF OrderLists
<1> QED
  BY <1>2 DEF Idle, Frame

-----------------------------------------------------------------------------
(* What the rules do to a good row. *)

LEMMA CompleteGood ==
  ASSUME NEW ords, NEW s, NEW row \in Session, GoodRow(ords, s, row)
  PROVE  /\ CompleteSessionIfNoPending(row) \in Session
         /\ GoodRow(ords, s, CompleteSessionIfNoPending(row))
<1>1. CASE IsSessionActive(row) /\ ~SessionHasPendingItems(row)
  <2> DEFINE done == [row EXCEPT !.status = "completed"]
  <2>1. CompleteSessionIfNoPending(row) = done
    BY <1>1 DEF CompleteSessionIfNoPending
  <2>2. done \in Session /\ done.items = row.items
    BY DEF Session, SessionStatuses
  <2>3. PendingItems(done) = {}
    BY <1>1, <2>2 DEF SessionHasPendingItems, PendingItems
  <2> QED
    BY <2>1, <2>2, <2>3 DEF GoodRow
<1>2. CASE ~(IsSessionActive(row) /\ ~SessionHasPendingItems(row))
  BY <1>2 DEF CompleteSessionIfNoPending
<1> QED
  BY <1>1, <1>2

\* Replacing the items of an active session keeps it good if each is its own.
LEMMA ItemsGood ==
  ASSUME NEW ords, NEW s, NEW row \in Session, NEW items,
         items = [b \in DOMAIN row.items |-> items[b]],
         \A b \in DOMAIN row.items : items[b] \in Item /\ Owns(ords, s, b, items[b]),
         row.status = "completed" =>
           \A b \in DOMAIN row.items : items[b].status # "pending"
  PROVE  /\ [row EXCEPT !.items = items] \in Session
         /\ GoodRow(ords, s, [row EXCEPT !.items = items])
<1>1. DOMAIN items = DOMAIN row.items
  OBVIOUS
<1>2. items \in [DOMAIN row.items -> Item]
  OBVIOUS
<1>3. items \in Plans
  BY <1>2, RowType, PlanType
<1>4. /\ [row EXCEPT !.items = items] \in Session
      /\ [row EXCEPT !.items = items].items = items
      /\ [row EXCEPT !.items = items].status = row.status
  BY <1>3 DEF Session
<1> QED
  BY <1>1, <1>4 DEF GoodRow, PendingItems

LEMMA SyncedItemGood ==
  ASSUME NEW ords, NEW s, NEW b, NEW item \in Item, NEW listed, Owns(ords, s, b, item)
  PROVE  /\ SyncedItem(item, listed) \in Item
         /\ Owns(ords, s, b, SyncedItem(item, listed))
         /\ SyncedItem(item, listed).status = "pending" => item.status \in {"pending", "placed"}
BY DEF SyncedItem, Item, ItemStatuses, Owns

LEMMA StalenessGood ==
  ASSUME NEW ords, NEW s, NEW row \in Session, NEW aged, GoodRow(ords, s, row)
  PROVE  /\ ApplySessionStaleness(row, aged) \in Session
         /\ GoodRow(ords, s, ApplySessionStaleness(row, aged))
<1> DEFINE items == [b \in DOMAIN row.items |->
                       IF b \in aged \cap PendingItems(row)
                         THEN [row.items[b] EXCEPT !.status = "stale"] ELSE row.items[b]]
<1>1. ASSUME NEW b \in DOMAIN row.items
      PROVE  /\ items[b] \in Item /\ Owns(ords, s, b, items[b])
             /\ items[b].status = "pending" => row.items[b].status = "pending"
  <2>1. row.items[b] \in Item /\ Owns(ords, s, b, row.items[b])
    BY RowType DEF GoodRow
  <2> QED
    BY <2>1 DEF Item, ItemStatuses, Owns
<1>2. row.status = "completed" => \A b \in DOMAIN row.items : items[b].status # "pending"
  BY <1>1 DEF GoodRow, PendingItems
<1>3. items = [b \in DOMAIN row.items |-> items[b]]
  OBVIOUS
<1> HIDE DEF items
<1>4. [row EXCEPT !.items = items] \in Session /\ GoodRow(ords, s, [row EXCEPT !.items = items])
  BY <1>1, <1>2, <1>3, ItemsGood
<1> QED
  BY <1>4 DEF ApplySessionStaleness, items

LEMMA SyncGood ==
  ASSUME NEW ords, NEW s, NEW row \in Session, NEW listed, GoodRow(ords, s, row), IsSessionActive(row)
  PROVE  /\ SyncSessionWithOrders(row, listed) \in Session
         /\ GoodRow(ords, s, SyncSessionWithOrders(row, listed))
<1> DEFINE items == [b \in DOMAIN row.items |-> SyncedItem(row.items[b], listed)]
<1>1. \A b \in DOMAIN row.items : items[b] \in Item /\ Owns(ords, s, b, items[b])
  BY RowType, SyncedItemGood DEF GoodRow
<1>2. items = [b \in DOMAIN row.items |-> items[b]]
  OBVIOUS
<1>3. row.status # "completed"
  BY DEF IsSessionActive
<1> HIDE DEF items
<1>4. [row EXCEPT !.items = items] \in Session /\ GoodRow(ords, s, [row EXCEPT !.items = items])
  BY <1>1, <1>2, <1>3, ItemsGood
<1> QED
  BY <1>4, CompleteGood DEF SyncSessionWithOrders, items

\* Marking or skipping one item of an active session.
LEMMA MarkGood ==
  ASSUME NEW ords, NEW s, NEW row \in Session, GoodRow(ords, s, row), IsSessionActive(row),
         NEW b \in DOMAIN row.items, NEW item \in Item, Owns(ords, s, b, item)
  PROVE  /\ CompleteSessionIfNoPending(WithItem(row, b, item)) \in Session
         /\ GoodRow(ords, s, CompleteSessionIfNoPending(WithItem(row, b, item)))
<1> DEFINE items == [row.items EXCEPT ![b] = item]
<1>0. row.items \in [DOMAIN row.items -> Item]
  BY RowType, PlanItems
<1>1. /\ DOMAIN items = DOMAIN row.items
      /\ \A d \in DOMAIN row.items : items[d] = IF d = b THEN item ELSE row.items[d]
  BY <1>0
<1>2. \A d \in DOMAIN row.items : items[d] \in Item /\ Owns(ords, s, d, items[d])
  BY <1>0, <1>1 DEF GoodRow
<1>3. items = [d \in DOMAIN row.items |-> items[d]]
  BY <1>0
<1>4. row.status # "completed"
  BY DEF IsSessionActive
<1> HIDE DEF items
<1>5. [row EXCEPT !.items = items] \in Session /\ GoodRow(ords, s, [row EXCEPT !.items = items])
  BY <1>2, <1>3, <1>4, ItemsGood
<1>6. WithItem(row, b, item) = [row EXCEPT !.items = items]
  BY DEF WithItem, items, Session
<1> QED
  BY <1>5, <1>6, CompleteGood

LEMMA FrozenGood ==
  ASSUME NEW ords, NEW picked \in (SUBSET Bonds) \ {{}}, NEW s, NEW n \in Nat
  PROVE  LET row == [status |-> "active", items |-> FrozenItems(picked), created |-> n]
         IN  row \in Session /\ GoodRow(ords, s, row)
<1>1. FrozenItems(picked) \in [picked -> Item]
  BY DEF FrozenItems, Item, ItemStatuses
<1>2. FrozenItems(picked) \in Plans
  BY <1>1, PlanType
<1>3. \A b \in picked : Owns(ords, s, b, FrozenItems(picked)[b])
  BY DEF FrozenItems, Owns
<1> QED
  BY <1>1, <1>2, <1>3 DEF Session, SessionStatuses, GoodRow

LEMMA RebuiltGood ==
  ASSUME NEW ords, NEW picked \in (SUBSET Bonds) \ {{}}, NEW s, NEW row \in Session
  PROVE  LET built == [row EXCEPT !.status = "active", !.items = FrozenItems(picked)]
         IN  built \in Session /\ GoodRow(ords, s, built)
<1> DEFINE built == [row EXCEPT !.status = "active", !.items = FrozenItems(picked)]
<1>1. FrozenItems(picked) \in [picked -> Item]
  BY DEF FrozenItems, Item, ItemStatuses
<1>2. FrozenItems(picked) \in Plans
  BY <1>1, PlanType
<1>3. \A b \in picked : Owns(ords, s, b, FrozenItems(picked)[b])
  BY DEF FrozenItems, Owns
<1>4. built \in Session /\ built.status = "active" /\ built.items = FrozenItems(picked)
  BY <1>2 DEF Session, SessionStatuses
<1> HIDE DEF built
<1>5. GoodRow(ords, s, built)
  BY <1>1, <1>3, <1>4 DEF GoodRow
<1> QED
  BY <1>4, <1>5 DEF built

LEMMA CancelGood ==
  ASSUME NEW ords, NEW s, NEW row \in Session, GoodRow(ords, s, row)
  PROVE  /\ [row EXCEPT !.status = "cancelled"] \in Session
         /\ GoodRow(ords, s, [row EXCEPT !.status = "cancelled"])
BY DEF Session, SessionStatuses, GoodRow

-----------------------------------------------------------------------------
(* Orders keep the item they were posted for. *)

OrdersEvolve ==
  \A o \in OrderIds : orders[o] # None =>
    /\ orders'[o] # None
    /\ orders'[o].session = orders[o].session /\ orders'[o].bond = orders[o].bond

LEMMA GoodStays ==
  ASSUME NEW s, NEW row \in Session, OrdersEvolve, GoodRow(orders, s, row)
  PROVE  GoodRow(orders', s, row)
<1>1. ASSUME NEW b \in DOMAIN row.items
      PROVE  Owns(orders', s, b, row.items[b])
  <2>1. Owns(orders, s, b, row.items[b]) /\ row.items[b] \in Item
    BY RowType DEF GoodRow
  <2> QED
    BY <2>1 DEF Owns, OrdersEvolve, Item
<1> QED
  BY <1>1 DEF GoodRow

LEMMA FrameStays ==
  ASSUME NEW c \in Frame, OrdersEvolve, FrameInv(orders, c)
  PROVE  FrameInv(orders', c)
<1>1. c.pc \in Writing => GoodRow(orders', c.session, c.row)
  BY GoodStays DEF FrameInv
<1>2. c.pc = "mark" => Posted(orders', c)
  BY DEF FrameInv, Posted, OrdersEvolve
<1> QED
  BY <1>1, <1>2 DEF FrameInv

\* A step of goroutine t to frame c that writes at most one row, a good one.
LEMMA StepInv ==
  ASSUME Inv, OrdersEvolve, NEW t \in Threads, NEW c \in Frame, FrameInv(orders', c),
         call' = [call EXCEPT ![t] = c],
         orders' \in [OrderIds -> Order \cup {None}],
         \/ rows' = rows
         \/ \E s \in SessionIds, row \in Session :
              rows' = [rows EXCEPT ![s] = row] /\ GoodRow(orders', s, row),
         requests' \in Nat,
         disturbed' \subseteq {"overlap", "abort", "refresh"}
  PROVE  Inv'
<1>1. call \in [Threads -> Frame] /\ rows \in [SessionIds -> Session \cup {None}]
  BY DEF Inv, TypeOK
<1>2. ASSUME NEW u \in Threads PROVE call'[u] \in Frame /\ FrameInv(orders', call'[u])
  <2>1. CASE u = t
    BY <1>1, <2>1
  <2>2. CASE u # t
    BY <1>1, <2>2, FrameStays DEF Inv
  <2> QED
    BY <2>1, <2>2
<1>3. ASSUME NEW s \in SessionIds
      PROVE  /\ rows'[s] \in Session \cup {None}
             /\ rows'[s] # None => GoodRow(orders', s, rows'[s])
  <2>1. CASE rows'[s] = rows[s]
    BY <1>1, <2>1, GoodStays DEF Inv, RowsInv
  <2>2. CASE rows'[s] # rows[s]
    BY <1>1, <2>2
  <2> QED
    BY <2>1, <2>2
<1>4. rows' \in [SessionIds -> Session \cup {None}] /\ call' \in [Threads -> Frame]
  BY <1>1, <1>2, <1>3
<1> QED
  BY <1>2, <1>3, <1>4 DEF Inv, TypeOK, RowsInv

-----------------------------------------------------------------------------
(* The frames the handlers leave behind. *)

LEMMA RowFrame ==
  ASSUME NEW ords, NEW pc \in Writing, NEW s \in SessionIds, NEW row \in Session,
         GoodRow(ords, s, row)
  PROVE  LET c == [Idle EXCEPT !.pc = pc, !.session = s, !.row = row]
         IN  c \in Frame /\ FrameInv(ords, c)
<1> DEFINE c == [Idle EXCEPT !.pc = pc, !.session = s, !.row = row]
<1>1. c \in Frame
  BY IdleType DEF Frame, Writing
<1>2. c.pc = pc /\ c.session = s /\ c.row = row
  BY DEF Idle
<1> HIDE DEF c
<1>3. FrameInv(ords, c)
  BY <1>2 DEF FrameInv, Writing
<1> QED
  BY <1>1, <1>3 DEF c

LEMMA SaveFrame ==
  ASSUME NEW ords, NEW s \in SessionIds, NEW row \in Session, GoodRow(ords, s, row)
  PROVE  AboutToSave(s, row) \in Frame /\ FrameInv(ords, AboutToSave(s, row))
<1>1. "save" \in Writing
  BY DEF Writing
<1> QED
  BY <1>1, RowFrame DEF AboutToSave

LEMMA IdleFrame ==
  ASSUME NEW ords
  PROVE  Idle \in Frame /\ FrameInv(ords, Idle)
<1>1. Idle.pc = "idle"
  BY DEF Idle
<1> QED
  BY <1>1, IdleType DEF FrameInv, Writing

LEMMA InsertFrame ==
  ASSUME NEW ords, NEW n \in Nat
  PROVE  LET c == [Idle EXCEPT !.pc = "insert", !.stamp = n]
         IN  c \in Frame /\ FrameInv(ords, c)
<1> DEFINE c == [Idle EXCEPT !.pc = "insert", !.stamp = n]
<1>1. c \in Frame
  BY IdleType DEF Frame
<1>2. c.pc = "insert"
  BY DEF Idle
<1> HIDE DEF c
<1>3. FrameInv(ords, c)
  BY <1>2 DEF FrameInv, Writing
<1> QED
  BY <1>1, <1>3 DEF c

\* The first step of a handler.
LEMMA StartInv ==
  ASSUME Inv, NEW t \in Threads, NEW c \in Frame, FrameInv(orders', c), OrdersEvolve,
         orders' \in [OrderIds -> Order \cup {None}], UNCHANGED rows,
         Request(t, c) \/ (Begin(t, c) /\ UNCHANGED requests)
  PROVE  Inv'
<1>1. requests \in Nat /\ disturbed \subseteq {"overlap", "abort", "refresh"}
  BY DEF Inv, TypeOK
<1>2. requests' \in Nat /\ call' = [call EXCEPT ![t] = c]
  BY <1>1 DEF Request, Begin
<1>3. disturbed' \subseteq {"overlap", "abort", "refresh"}
  BY <1>1 DEF Request, Begin
<1> QED
  BY <1>2, <1>3, StepInv

\* A later step of a handler, which writes at most one row.
LEMMA MoveInv ==
  ASSUME Inv, NEW t \in Threads, NEW c \in Frame, FrameInv(orders, c), Become(t, c),
         UNCHANGED <<orders, requests>>,
         \/ rows' = rows
         \/ \E s \in SessionIds, row \in Session :
              Write(s, row) /\ GoodRow(orders, s, row),
         disturbed' \subseteq {"overlap", "abort", "refresh"}
  PROVE  Inv'
<1>1. OrdersEvolve /\ FrameInv(orders', c) /\ call' = [call EXCEPT ![t] = c]
  BY DEF OrdersEvolve, Become
<1>2. orders' \in [OrderIds -> Order \cup {None}] /\ requests' \in Nat
  BY DEF Inv, TypeOK
<1>3. \/ rows' = rows
      \/ \E s \in SessionIds, row \in Session :
           rows' = [rows EXCEPT ![s] = row] /\ GoodRow(orders', s, row)
  BY DEF Write
<1> QED
  BY <1>1, <1>2, <1>3, StepInv

-----------------------------------------------------------------------------
(* The handlers, one lemma per step. *)

\* What the invariant says of the rows a handler may read.
LEMMA ReadRow ==
  ASSUME Inv, NEW s \in SessionIds, s \in Saved
  PROVE  rows[s] \in Session /\ GoodRow(orders, s, rows[s])
BY DEF Inv, TypeOK, RowsInv, Saved

\* What it says of a frame about to write.
LEMMA ReadFrame ==
  ASSUME Inv, NEW t \in Threads
  PROVE  /\ call[t] \in Frame
         /\ call[t].pc \in Writing =>
              /\ call[t].session \in SessionIds /\ call[t].row \in Session
              /\ GoodRow(orders, call[t].session, call[t].row)
         /\ call[t].pc = "mark" => Posted(orders, call[t])
BY DEF Inv, TypeOK, FrameInv

\* Orders that do not change evolve, and have their type.
LEMMA OrdersStay ==
  ASSUME Inv, UNCHANGED orders
  PROVE  OrdersEvolve /\ orders' \in [OrderIds -> Order \cup {None}]
BY DEF Inv, TypeOK, OrdersEvolve

LEMMA DisturbedStays ==
  ASSUME Inv, UNCHANGED disturbed
  PROVE  disturbed' \subseteq {"overlap", "abort", "refresh"}
BY DEF Inv, TypeOK

LEMMA OpeningFrame ==
  ASSUME Inv, NEW s \in SessionIds, IsLatestActive(s), NEW n \in Nat
  PROVE  Opening(s, n) \in Frame /\ FrameInv(orders, Opening(s, n))
<1> DEFINE completed == CompleteSessionIfNoPending(rows[s])
           c == [Idle EXCEPT !.pc = "close", !.session = s, !.row = completed, !.stamp = n]
<1>1. completed \in Session /\ GoodRow(orders, s, completed)
  BY ReadRow, CompleteGood DEF IsLatestActive
<1>2. Opening(s, n) = IF completed.status = "completed"
                        THEN c ELSE [Idle EXCEPT !.pc = "insert", !.stamp = n]
  BY DEF Opening
<1> HIDE DEF completed
<1>3. c \in Frame
  BY <1>1, IdleType DEF Frame
<1>4. c.pc = "close" /\ c.session = s /\ c.row = completed
  BY DEF Idle
<1> HIDE DEF c
<1>5. FrameInv(orders, c)
  BY <1>1, <1>4 DEF FrameInv
<1> QED
  BY <1>2, <1>3, <1>5, InsertFrame

LEMMA CreateReadInv ==
  ASSUME Inv, NEW t \in Threads, CreateRead(t)
  PROVE  Inv'
<1>1. PICK n \in 1 .. MaxStamp :
        \/ Request(t, [Idle EXCEPT !.pc = "insert", !.stamp = n])
        \/ \E s \in SessionIds : IsLatestActive(s) /\ Request(t, Opening(s, n))
  BY DEF CreateRead
<1>2. n \in Nat /\ OrdersEvolve /\ orders' \in [OrderIds -> Order \cup {None}]
      /\ UNCHANGED <<rows, orders>>
  BY SessionAssumption, OrdersStay DEF CreateRead
<1>3. CASE Request(t, [Idle EXCEPT !.pc = "insert", !.stamp = n])
  BY <1>2, <1>3, InsertFrame, StartInv
<1>4. ASSUME NEW s \in SessionIds, IsLatestActive(s), Request(t, Opening(s, n))
      PROVE  Inv'
  <2> DEFINE c == Opening(s, n)
  <2>1. c \in Frame /\ FrameInv(orders', c) /\ Request(t, c)
    BY <1>2, <1>4, OpeningFrame
  <2> HIDE DEF c
  <2> QED
    BY <1>2, <2>1, StartInv
<1> QED
  BY <1>1, <1>3, <1>4

LEMMA CreateCloseInv ==
  ASSUME Inv, NEW t \in Threads, CreateClose(t)
  PROVE  Inv'
<1>1. /\ call[t].session \in SessionIds /\ call[t].row \in Session
      /\ GoodRow(orders, call[t].session, call[t].row)
      /\ call[t].stamp \in Nat
  BY ReadFrame DEF CreateClose, Writing, Frame
<1> QED
  BY <1>1, InsertFrame, DisturbedStays, MoveInv DEF CreateClose

LEMMA InsertInv ==
  ASSUME Inv, NEW t \in Threads, Insert(t)
  PROVE  Inv'
<1>1. PICK s \in SessionIds, picked \in (SUBSET Bonds) \ {{}} :
        Write(s, [status |-> "active", items |-> FrozenItems(picked),
                  created |-> call[t].stamp])
  BY DEF Insert
<1>2. call[t].stamp \in Nat
  BY ReadFrame DEF Frame
<1> DEFINE row == [status |-> "active", items |-> FrozenItems(picked),
                   created |-> call[t].stamp]
<1>3. row \in Session /\ GoodRow(orders, s, row)
  BY <1>2, FrozenGood
<1>4. Write(s, row)
  BY <1>1
<1> HIDE DEF row
<1> QED
  BY <1>3, <1>4, IdleFrame, DisturbedStays, MoveInv DEF Insert

LEMMA RefreshReadInv ==
  ASSUME Inv, NEW t \in Threads, RefreshRead(t)
  PROVE  Inv'
<1>1. PICK s \in SessionIds :
        s \in Saved /\ Request(t, [Idle EXCEPT !.pc = "rebuild", !.session = s, !.row = rows[s]])
  BY DEF RefreshRead, Saved
<1>2. rows[s] \in Session /\ GoodRow(orders', s, rows[s])
  BY <1>1, ReadRow DEF RefreshRead
<1>3. "rebuild" \in Writing
  BY DEF Writing
<1> QED
  BY <1>1, <1>2, <1>3, RowFrame, OrdersStay, StartInv DEF RefreshRead

LEMMA RebuildInv ==
  ASSUME Inv, NEW t \in Threads, Rebuild(t)
  PROVE  Inv'
<1>1. PICK picked \in (SUBSET Bonds) \ {{}} :
        LET row == [call[t].row EXCEPT !.status = "active", !.items = FrozenItems(picked)]
        IN  /\ Write(call[t].session, row)
            /\ Become(t, AboutToSave(call[t].session, row))
  BY DEF Rebuild
<1>2. call[t].session \in SessionIds /\ call[t].row \in Session
  BY ReadFrame DEF Rebuild, Writing
<1> DEFINE row == [call[t].row EXCEPT !.status = "active", !.items = FrozenItems(picked)]
<1>4. row \in Session /\ GoodRow(orders, call[t].session, row)
  BY <1>2, RebuiltGood
<1>5. Write(call[t].session, row) /\ Become(t, AboutToSave(call[t].session, row))
  BY <1>1
<1> HIDE DEF row
<1>6. disturbed' \subseteq {"overlap", "abort", "refresh"}
  BY DEF Rebuild, Inv, TypeOK
<1> QED
  BY <1>2, <1>4, <1>5, <1>6, SaveFrame, MoveInv DEF Rebuild

LEMMA CancelReadInv ==
  ASSUME Inv, NEW t \in Threads, CancelRead(t)
  PROVE  Inv'
<1>1. PICK s \in SessionIds :
        s \in Saved /\ Request(t, AboutToSave(s, [rows[s] EXCEPT !.status = "cancelled"]))
  BY DEF CancelRead, Saved
<1>2. /\ [rows[s] EXCEPT !.status = "cancelled"] \in Session
      /\ GoodRow(orders', s, [rows[s] EXCEPT !.status = "cancelled"])
  BY <1>1, ReadRow, CancelGood DEF CancelRead
<1> QED
  BY <1>1, <1>2, SaveFrame, OrdersStay, StartInv DEF CancelRead

LEMMA SkipReadInv ==
  ASSUME Inv, NEW t \in Threads, SkipRead(t)
  PROVE  Inv'
<1>1. PICK s \in SessionIds : s \in Saved /\ \E b \in DOMAIN rows[s].items :
        IsSessionActive(rows[s]) /\ Request(t, AboutToSave(s, MarkItemSkipped(rows[s], b)))
  BY DEF SkipRead, Saved
<1>2. PICK b \in DOMAIN rows[s].items :
        IsSessionActive(rows[s]) /\ Request(t, AboutToSave(s, MarkItemSkipped(rows[s], b)))
  BY <1>1
<1>3. rows[s] \in Session /\ GoodRow(orders, s, rows[s])
  BY <1>1, ReadRow
<1> DEFINE item == [rows[s].items[b] EXCEPT !.status = "skipped"]
<1>4. item \in Item /\ Owns(orders, s, b, item)
  <2>1. rows[s].items[b] \in Item /\ Owns(orders, s, b, rows[s].items[b])
    BY <1>3, RowType DEF GoodRow
  <2> QED
    BY <2>1 DEF Item, ItemStatuses, Owns
<1>5. MarkItemSkipped(rows[s], b) = CompleteSessionIfNoPending(WithItem(rows[s], b, item))
  BY DEF MarkItemSkipped
<1> HIDE DEF item
<1>6. /\ MarkItemSkipped(rows[s], b) \in Session
      /\ GoodRow(orders', s, MarkItemSkipped(rows[s], b))
  BY <1>2, <1>3, <1>4, <1>5, MarkGood DEF SkipRead
<1> QED
  BY <1>2, <1>6, SaveFrame, OrdersStay, StartInv DEF SkipRead

LEMMA SaveInv ==
  ASSUME Inv, NEW t \in Threads, Save(t)
  PROVE  Inv'
<1>1. /\ call[t].session \in SessionIds /\ call[t].row \in Session
      /\ GoodRow(orders, call[t].session, call[t].row)
  BY ReadFrame DEF Save, Writing
<1> QED
  BY <1>1, IdleFrame, DisturbedStays, MoveInv DEF Save

LEMMA PlacePostInv ==
  ASSUME Inv, NEW t \in Threads, PlacePost(t)
  PROVE  Inv'
<1>1. PICK s \in SessionIds, b \in Bonds, o \in OrderIds :
        /\ \/ /\ orders[o] = None
              /\ orders' = [orders EXCEPT ![o] = [status |-> "new", session |-> s, bond |-> b]]
           \/ /\ \E u \in Threads : /\ call[u].pc = "mark" /\ call[u].order = o
                                    /\ call[u].session = s /\ call[u].bond = b
              /\ UNCHANGED orders
        /\ Request(t, [Idle EXCEPT !.pc = "mark", !.session = s, !.bond = b, !.order = o])
  BY DEF PlacePost, Saved
<1>4. orders \in [OrderIds -> Order \cup {None}]
  BY DEF Inv, TypeOK
<1> DEFINE posted == [status |-> "new", session |-> s, bond |-> b]
<1>5. posted \in Order /\ posted # None
  BY SessionAssumption DEF Order, OrderStatuses
<1>6. /\ orders' \in [OrderIds -> Order \cup {None}] /\ OrdersEvolve
      /\ orders'[o] # None /\ orders'[o].session = s /\ orders'[o].bond = b
  <2>1. CASE orders[o] = None /\ orders' = [orders EXCEPT ![o] = posted]
    <3>1. orders'[o] = posted /\ posted.session = s /\ posted.bond = b
      BY <1>4, <2>1
    <3> HIDE DEF posted
    <3>2. \A p \in OrderIds : p # o => orders'[p] = orders[p]
      BY <1>4, <2>1
    <3> QED
      BY <1>4, <1>5, <2>1, <3>1, <3>2 DEF OrdersEvolve
  <2>2. CASE /\ \E u \in Threads : /\ call[u].pc = "mark" /\ call[u].order = o
                                   /\ call[u].session = s /\ call[u].bond = b
             /\ UNCHANGED orders
    BY <2>2, OrdersStay, ReadFrame DEF Posted
  <2> QED
    BY <1>1, <2>1, <2>2
<1> DEFINE c == [Idle EXCEPT !.pc = "mark", !.session = s, !.bond = b, !.order = o]
<1>7. c \in Frame
  BY IdleType DEF Frame
<1>8. c.pc = "mark" /\ c.session = s /\ c.bond = b /\ c.order = o
  BY DEF Idle
<1>9. Request(t, c)
  BY <1>1
<1> HIDE DEF c
<1>10. FrameInv(orders', c)
  BY <1>6, <1>8 DEF FrameInv, Posted, Writing
<1> QED
  BY <1>6, <1>7, <1>9, <1>10, StartInv DEF PlacePost

LEMMA PlaceReadInv ==
  ASSUME Inv, NEW t \in Threads, PlaceRead(t)
  PROVE  Inv'
<1>1. CASE Become(t, Idle)
  BY <1>1, IdleFrame, DisturbedStays, MoveInv DEF PlaceRead
<1>2. ASSUME NEW s \in SessionIds, IsLatestActive(s), FindSessionItem(s, rows[s], call[t]),
             Become(t, AboutToSave(s, MarkItemPlaced(rows[s], call[t].bond, call[t].order)))
      PROVE  Inv'
  <2>1. rows[s] \in Session /\ GoodRow(orders, s, rows[s]) /\ IsSessionActive(rows[s])
    BY <1>2, ReadRow DEF IsLatestActive
  <2>2. /\ Posted(orders, call[t]) /\ call[t].session = s
        /\ call[t].bond \in DOMAIN rows[s].items
    BY <1>2, ReadFrame DEF PlaceRead, FindSessionItem
  <2> DEFINE item == [status |-> "placed", order |-> call[t].order]
  <2>3. item \in Item /\ Owns(orders, s, call[t].bond, item)
    BY <2>2, SessionAssumption DEF Item, ItemStatuses, Owns, Posted
  <2>4. MarkItemPlaced(rows[s], call[t].bond, call[t].order)
          = CompleteSessionIfNoPending(WithItem(rows[s], call[t].bond, item))
    BY DEF MarkItemPlaced
  <2> HIDE DEF item
  <2> DEFINE row == MarkItemPlaced(rows[s], call[t].bond, call[t].order)
  <2>5. row \in Session /\ GoodRow(orders, s, row)
    BY <2>1, <2>2, <2>3, <2>4, MarkGood
  <2>6. Become(t, AboutToSave(s, row))
    BY <1>2
  <2> HIDE DEF row
  <2> QED
    BY <2>5, <2>6, SaveFrame, DisturbedStays, MoveInv DEF PlaceRead
<1> QED
  BY <1>1, <1>2 DEF PlaceRead

LEMMA AdviseOrdersInv ==
  ASSUME Inv, NEW t \in Threads, AdviseOrders(t)
  PROVE  Inv'
<1>1. ActiveOrders \in OrderLists
  <2> DEFINE open == {o \in OrderIds : orders[o] # None /\ orders[o].status \in ActiveOrderStatuses}
  <2>1. [o \in open |-> orders[o].status] \in [open -> OrderStatuses]
    BY DEF Inv, TypeOK, Order
  <2> QED
    BY <2>1 DEF ActiveOrders, OrderLists
<1> DEFINE c == [Idle EXCEPT !.pc = "session", !.listed = ActiveOrders]
<1>2. c \in Frame
  BY <1>1, IdleType DEF Frame
<1>3. c.pc = "session"
  BY DEF Idle
<1>4. Begin(t, c)
  BY DEF AdviseOrders
<1> HIDE DEF c
<1>5. FrameInv(orders', c)
  BY <1>3 DEF FrameInv, Writing
<1> QED
  BY <1>2, <1>4, <1>5, OrdersStay, StartInv DEF AdviseOrders

LEMMA AdviseReadInv ==
  ASSUME Inv, NEW t \in Threads, AdviseRead(t)
  PROVE  Inv'
<1>1. CASE Become(t, Idle)
  BY <1>1, IdleFrame, DisturbedStays, MoveInv DEF AdviseRead
<1>2. ASSUME NEW s \in SessionIds, NEW aged \in SUBSET Bonds, IsLatestActive(s),
             Become(t, [Idle EXCEPT !.pc = "advise", !.session = s,
               !.row = ApplySessionStaleness(
                         SyncSessionWithOrders(rows[s], call[t].listed), aged)])
      PROVE  Inv'
  <2> DEFINE synced == SyncSessionWithOrders(rows[s], call[t].listed)
             row == ApplySessionStaleness(synced, aged)
  <2>1. rows[s] \in Session /\ GoodRow(orders, s, rows[s]) /\ IsSessionActive(rows[s])
    BY <1>2, ReadRow DEF IsLatestActive
  <2>2. synced \in Session /\ GoodRow(orders, s, synced)
    BY <2>1, SyncGood
  <2> HIDE DEF synced
  <2>3. row \in Session /\ GoodRow(orders, s, row)
    BY <2>2, StalenessGood
  <2>4. Become(t, [Idle EXCEPT !.pc = "advise", !.session = s, !.row = row])
    BY <1>2 DEF synced
  <2> HIDE DEF row
  <2>5. "advise" \in Writing
    BY DEF Writing
  <2> QED
    BY <2>3, <2>4, <2>5, RowFrame, DisturbedStays, MoveInv DEF AdviseRead
<1> QED
  BY <1>1, <1>2 DEF AdviseRead

LEMMA AdviseSaveInv ==
  ASSUME Inv, NEW t \in Threads, AdviseSave(t)
  PROVE  Inv'
<1>1. /\ call[t].session \in SessionIds /\ call[t].row \in Session
      /\ GoodRow(orders, call[t].session, call[t].row)
  BY ReadFrame DEF AdviseSave, Writing
<1> DEFINE c == IF IsSessionActive(CompleteSessionIfNoPending(call[t].row))
                  THEN AboutToSave(call[t].session, call[t].row) ELSE Idle
<1>2. c \in Frame /\ FrameInv(orders, c)
  BY <1>1, IdleFrame, SaveFrame
<1>3. Become(t, c) /\ Write(call[t].session, call[t].row)
  BY DEF AdviseSave
<1> HIDE DEF c
<1> QED
  BY <1>1, <1>2, <1>3, DisturbedStays, MoveInv DEF AdviseSave

LEMMA AbortInv ==
  ASSUME Inv, NEW t \in Threads, Abort(t)
  PROVE  Inv'
<1>1. disturbed' \subseteq {"overlap", "abort", "refresh"}
  BY DEF Abort, Inv, TypeOK
<1> QED
  BY <1>1, IdleFrame, MoveInv DEF Abort

\* The broker moves an order on: a step outside the goroutines.
LEMMA BrokerInv ==
  ASSUME Inv, NEW o \in OrderIds, CancelOrder(o) \/ Execute(o)
  PROVE  Inv'
<1>1. orders \in [OrderIds -> Order \cup {None}] /\ orders[o] # None
  BY DEF CancelOrder, Execute, Inv, TypeOK
<1>2. PICK status \in OrderStatuses : orders' = [orders EXCEPT ![o].status = status]
  BY DEF CancelOrder, Execute, OrderStatuses
<1>3. orders[o] \in Order
  BY <1>1
<1> DEFINE moved == [orders[o] EXCEPT !.status = status]
<1>4. /\ moved \in Order /\ moved # None
      /\ moved.session = orders[o].session /\ moved.bond = orders[o].bond
  BY <1>3, SessionAssumption DEF Order
<1>5. orders' = [orders EXCEPT ![o] = moved]
  BY <1>2
<1> HIDE DEF moved
<1>6. orders' \in [OrderIds -> Order \cup {None}] /\ OrdersEvolve
  BY <1>1, <1>4, <1>5 DEF OrdersEvolve
<1>7. UNCHANGED <<rows, call, requests, disturbed>>
  BY DEF CancelOrder, Execute
<1>8. TypeOK'
  BY <1>6, <1>7 DEF Inv, TypeOK
<1>9. RowsInv'
  BY <1>6, <1>7, GoodStays DEF Inv, TypeOK, RowsInv
<1>10. \A t \in Threads : FrameInv(orders', call'[t])
  BY <1>6, <1>7, FrameStays DEF Inv, TypeOK
<1> QED
  BY <1>8, <1>9, <1>10 DEF Inv

-----------------------------------------------------------------------------
LEMMA InitInv == Init => Inv
<1> SUFFICES ASSUME Init PROVE Inv
  OBVIOUS
<1>1. TypeOK
  BY IdleType DEF Init, TypeOK
<1>2. RowsInv
  BY DEF Init, RowsInv
<1>3. \A t \in Threads : FrameInv(orders, call[t])
  BY IdleFrame DEF Init
<1> QED
  BY <1>1, <1>2, <1>3 DEF Inv

LEMMA StutterInv ==
  ASSUME Inv, UNCHANGED vars
  PROVE  Inv'
<1>1. /\ rows' = rows /\ orders' = orders /\ call' = call /\ requests' = requests
      /\ disturbed' = disturbed
  BY DEF vars
<1>2. TypeOK'
  BY <1>1 DEF Inv, TypeOK
<1>3. RowsInv'
  BY <1>1 DEF Inv, RowsInv
<1>4. \A t \in Threads : FrameInv(orders', call'[t])
  BY <1>1 DEF Inv
<1> QED
  BY <1>2, <1>3, <1>4 DEF Inv

LEMMA NextInv ==
  ASSUME Inv, [Next]_vars
  PROVE  Inv'
<1>1. ASSUME NEW t \in Threads, Step(t)
      PROVE  Inv'
  BY <1>1, CreateReadInv, CreateCloseInv, InsertInv, RefreshReadInv, RebuildInv,
     CancelReadInv, SkipReadInv, PlacePostInv, PlaceReadInv, AdviseOrdersInv,
     AdviseReadInv, AdviseSaveInv, SaveInv, AbortInv DEF Step
<1> QED
  BY <1>1, BrokerInv, StutterInv DEF Next

LEMMA InvHolds == Spec => []Inv
<1>1. Init => Inv
  BY InitInv
<1>2. Inv /\ [Next]_vars => Inv'
  BY NextInv
<1> QED
  BY <1>1, <1>2, PTL DEF Spec

\* Every row, order and frame stays within its type: no handler writes a status
\* or a plan the domain of trading/deploy_session.go does not know.
THEOREM TypeCorrect == Spec => []TypeOK
<1>1. Inv => TypeOK
  BY DEF Inv
<1> QED
  BY <1>1, InvHolds, PTL

\* For any number of goroutines, whatever overlaps or is lost: an item carries the
\* order posted for that very item, or none.
THEOREM OrdersAreOwn == Spec => []ItemOrderIsItsOwn
<1>1. Inv => ItemOrderIsItsOwn
  BY ReadRow DEF ItemOrderIsItsOwn, Saved, HasOwnOrder, GoodRow, Owns
<1> QED
  BY <1>1, InvHolds, PTL

\* For any number of goroutines: a completed session holds no pending item,
\* although rows are written from copies read long before.
THEOREM CompletedIsDone == Spec => []CompletedHasNoPending
<1>1. Inv => CompletedHasNoPending
  BY ReadRow DEF CompletedHasNoPending, Saved, GoodRow, SessionHasPendingItems
<1> QED
  BY <1>1, InvHolds, PTL

-----------------------------------------------------------------------------
(***************************************************************************)
(* Requests made one after the other.  As long as none has overlapped      *)
(* another, at most one goroutine is at work, so what it has read is still *)
(* true when it writes; a lost frame leaves nothing to be written.         *)
(***************************************************************************)

\* The active sessions among the rows rws.
Live(rws) == {s \in SessionIds : rws[s] # None /\ IsSessionActive(rws[s])}

Single(rws) == \A s, u \in Live(rws) : s = u

\* c will leave its session active, or counts on it being the active one.
Claims(c) ==
  \/ c.pc \in {"close", "rebuild"}
  \/ c.pc \in Writing /\ IsSessionActive(c.row)

SerialFrame(rws, c) ==
  /\ Claims(c) => Live(rws) \subseteq {c.session}
  /\ c.pc = "close" => ~IsSessionActive(c.row)
  /\ c.pc = "insert" => Live(rws) = {}

Lone == \A t, u \in Threads : call[t] # Idle /\ call[u] # Idle => t = u

SerialInv ==
  "overlap" \notin disturbed =>
    /\ Lone
    /\ Single(rows)
    /\ \A t \in Threads : SerialFrame(rows, call[t])

\* No order among ords was posted for an item that row would offer.
Clean(ords, s, row) ==
  \A o \in OrderIds :
    ords[o] # None /\ ords[o].session = s => ords[o].bond \notin PendingItems(row)

\* The item of order o is about to be marked by c.
Marks(ords, c, o) ==
  \/ c.pc = "mark" /\ c.order = o
  \/ c.pc = "save" /\ c.session = ords[o].session

\* Order o was posted for an item that its row still offers.
Offered(ords, rws, o) ==
  /\ ords[o] # None /\ IsSessionActive(rws[ords[o].session])
  /\ ords[o].bond \in PendingItems(rws[ords[o].session])

ListsOpen(c) ==
  c.pc = "session" => \A o \in DOMAIN c.listed : c.listed[o] \in ActiveOrderStatuses

CleanFrame(ords, c) ==
  c.pc \in Writing /\ IsSessionActive(c.row) => Clean(ords, c.session, c.row)

OfferInv ==
  /\ \A o \in OrderIds : orders[o] # None => rows[orders[o].session] # None
  /\ \A t \in Threads : ListsOpen(call[t])
  /\ disturbed = {} =>
       /\ \A t \in Threads : CleanFrame(orders, call[t])
       /\ \A o \in OrderIds : Offered(orders, rows, o) => \E t \in Threads : Marks(orders, call[t], o)

IInv == Inv /\ SerialInv /\ OfferInv

-----------------------------------------------------------------------------
(* What a lone goroutine may rely on. *)

LEMMA IdleClaims ==
  ASSUME NEW rws, NEW ords
  PROVE  /\ SerialFrame(rws, Idle) /\ CleanFrame(ords, Idle) /\ ListsOpen(Idle)
         /\ \A o \in OrderIds : ~Marks(ords, Idle, o)
BY DEF SerialFrame, Claims, CleanFrame, ListsOpen, Marks, Writing, Idle

\* A goroutine at a call has begun.
LEMMA BusyFrame ==
  ASSUME NEW t \in Threads, call[t].pc # "idle"
  PROVE  call[t] # Idle
BY DEF Idle

\* Goroutine t goes on to frame c, as the first or a later step of a request.
Moves(t, c) ==
  \/ Begin(t, c)
  \/ call[t] # Idle /\ Become(t, c) /\ disturbed \subseteq disturbed'

\* If its step is not an overlap, every other goroutine rests.
LEMMA Alone ==
  ASSUME Inv, SerialInv, NEW t \in Threads, NEW c, Moves(t, c), "overlap" \notin disturbed'
  PROVE  /\ "overlap" \notin disturbed /\ call'[t] = c
         /\ \A u \in Threads : u # t => call[u] = Idle /\ call'[u] = Idle
         /\ Single(rows) /\ SerialFrame(rows, call[t])
<1>1. call \in [Threads -> Frame] /\ call' = [call EXCEPT ![t] = c]
  BY DEF Inv, TypeOK, Moves, Begin, Become
<1>2. "overlap" \notin disturbed
  BY DEF Moves, Begin
<1>3. ASSUME NEW u \in Threads, u # t
      PROVE  call[u] = Idle /\ call'[u] = call[u]
  BY <1>1, <1>2, <1>3 DEF Moves, Begin, SerialInv, Lone
<1> QED
  BY <1>1, <1>2, <1>3 DEF SerialInv

LEMMA SerialStep ==
  ASSUME Inv, SerialInv, NEW t \in Threads, NEW c, Moves(t, c),
         "overlap" \notin disturbed' => Single(rows') /\ SerialFrame(rows', c)
  PROVE  SerialInv'
<1> SUFFICES ASSUME "overlap" \notin disturbed'
             PROVE  Lone' /\ \A u \in Threads : SerialFrame(rows', call'[u])
  BY DEF SerialInv
<1>1. call'[t] = c /\ \A u \in Threads : u # t => call'[u] = Idle
  BY Alone
<1>2. Lone'
  BY <1>1 DEF Lone
<1> QED
  BY <1>1, <1>2, IdleClaims

LEMMA LiveAfter ==
  ASSUME Inv, NEW s \in SessionIds, NEW row \in Session, Write(s, row)
  PROVE  Live(rows') = IF IsSessionActive(row) THEN Live(rows) \cup {s} ELSE Live(rows) \ {s}
<1>1. rows \in [SessionIds -> Session \cup {None}] /\ row # None
  BY RowType DEF Inv, TypeOK
<1>2. /\ rows'[s] = row
      /\ \A u \in SessionIds : u # s => rows'[u] = rows[u]
  BY <1>1 DEF Write
<1> QED
  BY <1>1, <1>2 DEF Live

LEMMA LatestIsLive ==
  ASSUME NEW s, IsLatestActive(s), Single(rows)
  PROVE  s \in Live(rows) /\ Live(rows) \subseteq {s}
BY DEF IsLatestActive, Saved, Live, Single

LEMMA NoneIsLive == NoActive => Live(rows) = {}
BY DEF NoActive, Saved, Live

\* The frame of a goroutine that holds a copy of session s, the active one if any.
LEMMA HolderSerial ==
  ASSUME NEW rws, NEW pc \in Writing, NEW s, NEW row,
         pc = "rebuild" \/ IsSessionActive(row) => Live(rws) \subseteq {s}, pc # "close"
  PROVE  SerialFrame(rws, [Idle EXCEPT !.pc = pc, !.session = s, !.row = row])
<1> DEFINE c == [Idle EXCEPT !.pc = pc, !.session = s, !.row = row]
<1>1. c.pc = pc /\ c.session = s /\ c.row = row
  BY DEF Idle
<1> HIDE DEF c
<1>2. SerialFrame(rws, c)
  BY <1>1 DEF SerialFrame, Claims, Writing
<1> QED
  BY <1>2 DEF c

LEMMA SaverSerial ==
  ASSUME NEW rws, NEW s, NEW row, IsSessionActive(row) => Live(rws) \subseteq {s}
  PROVE  SerialFrame(rws, AboutToSave(s, row))
<1>1. "save" \in Writing /\ "save" # "rebuild" /\ "save" # "close"
  BY DEF Writing
<1> QED
  BY <1>1, HolderSerial DEF AboutToSave

-----------------------------------------------------------------------------
(* At most one session is active: one lemma per step. *)

\* The first steps read, and change no row.
LEMMA BeginSerial ==
  ASSUME Inv, SerialInv, NEW t \in Threads, NEW c, Begin(t, c), UNCHANGED rows,
         Single(rows) => SerialFrame(rows, c)
  PROVE  SerialInv'
<1>1. Moves(t, c)
  BY DEF Moves
<1>2. "overlap" \notin disturbed' => Single(rows') /\ SerialFrame(rows', c)
  BY <1>1, Alone
<1> QED
  BY <1>1, <1>2, SerialStep

\* The others that write nothing.
LEMMA QuietSerial ==
  ASSUME Inv, SerialInv, NEW t \in Threads, NEW c, call[t] # Idle, Become(t, c),
         UNCHANGED rows, disturbed \subseteq disturbed',
         Single(rows) => SerialFrame(rows, c)
  PROVE  SerialInv'
<1>1. Moves(t, c)
  BY DEF Moves
<1>2. "overlap" \notin disturbed' => Single(rows') /\ SerialFrame(rows', c)
  BY <1>1, Alone
<1> QED
  BY <1>1, <1>2, SerialStep

LEMMA InsertReadSerial ==
  ASSUME NEW n, NEW rws, Live(rws) = {}
  PROVE  SerialFrame(rws, [Idle EXCEPT !.pc = "insert", !.stamp = n])
<1> DEFINE c == [Idle EXCEPT !.pc = "insert", !.stamp = n]
<1>1. c.pc = "insert"
  BY DEF Idle
<1> HIDE DEF c
<1>2. SerialFrame(rws, c)
  BY <1>1 DEF SerialFrame, Claims, Writing
<1> QED
  BY <1>2 DEF c

LEMMA OpeningSerial ==
  ASSUME Inv, Single(rows), NEW s \in SessionIds, IsLatestActive(s),
         ~BlocksCreation(rows[s]), NEW n
  PROVE  SerialFrame(rows, Opening(s, n))
<1> DEFINE completed == CompleteSessionIfNoPending(rows[s])
           c == [Idle EXCEPT !.pc = "close", !.session = s, !.row = completed, !.stamp = n]
<1>1. rows[s] \in Session /\ IsSessionActive(rows[s]) /\ ~SessionHasPendingItems(rows[s])
  BY ReadRow DEF IsLatestActive, BlocksCreation
<1>2. completed.status = "completed"
  BY <1>1 DEF CompleteSessionIfNoPending, Session
<1>3. Opening(s, n) = c
  BY <1>2 DEF Opening
<1>4. ~IsSessionActive(completed)
  BY <1>2 DEF IsSessionActive
<1> HIDE DEF completed
<1>5. c.pc = "close" /\ c.session = s /\ c.row = completed
  BY DEF Idle
<1> HIDE DEF c
<1>6. Live(rows) \subseteq {s}
  BY LatestIsLive
<1> QED
  BY <1>3, <1>4, <1>5, <1>6 DEF SerialFrame

LEMMA CreateReadSerial ==
  ASSUME Inv, SerialInv, NEW t \in Threads, CreateRead(t)
  PROVE  SerialInv'
<1>1. PICK n \in 1 .. MaxStamp :
        \/ NoActive /\ Request(t, [Idle EXCEPT !.pc = "insert", !.stamp = n])
        \/ \E s \in SessionIds : /\ IsLatestActive(s) /\ ~BlocksCreation(rows[s])
                                 /\ Request(t, Opening(s, n))
  BY DEF CreateRead
<1>2. UNCHANGED rows
  BY DEF CreateRead
<1>3. CASE NoActive /\ Request(t, [Idle EXCEPT !.pc = "insert", !.stamp = n])
  <2> DEFINE c == [Idle EXCEPT !.pc = "insert", !.stamp = n]
  <2>1. Begin(t, c) /\ SerialFrame(rows, c)
    BY <1>3, NoneIsLive, InsertReadSerial DEF Request
  <2> HIDE DEF c
  <2> QED
    BY <1>2, <2>1, BeginSerial
<1>4. ASSUME NEW s \in SessionIds, IsLatestActive(s), ~BlocksCreation(rows[s]),
             Request(t, Opening(s, n))
      PROVE  SerialInv'
  <2> DEFINE c == Opening(s, n)
  <2>1. Begin(t, c) /\ (Single(rows) => SerialFrame(rows, c))
    BY <1>4, OpeningSerial DEF Request
  <2> HIDE DEF c
  <2> QED
    BY <1>2, <2>1, BeginSerial
<1> QED
  BY <1>1, <1>3, <1>4

\* A step that writes a copy of session s and goes on to frame c.
LEMMA WriteSerial ==
  ASSUME Inv, SerialInv, NEW t \in Threads, NEW c, call[t] # Idle, Become(t, c),
         disturbed \subseteq disturbed', NEW s \in SessionIds, NEW row \in Session, Write(s, row),
         SerialFrame(rows, call[t]) => (IsSessionActive(row) => Live(rows) \subseteq {s}),
         SerialFrame(rows, call[t]) => SerialFrame(rows', c)
  PROVE  SerialInv'
<1>1. Moves(t, c)
  BY DEF Moves
<1>2. ASSUME "overlap" \notin disturbed'
      PROVE  Single(rows') /\ SerialFrame(rows', c)
  <2>1. Single(rows) /\ SerialFrame(rows, call[t])
    BY <1>1, <1>2, Alone
  <2> QED
    BY <2>1, LiveAfter DEF Single
<1> QED
  BY <1>1, <1>2, SerialStep

LEMMA CreateCloseSerial ==
  ASSUME Inv, SerialInv, NEW t \in Threads, CreateClose(t)
  PROVE  SerialInv'
<1> DEFINE c == [Idle EXCEPT !.pc = "insert", !.stamp = call[t].stamp]
           s == call[t].session
           row == call[t].row
<1>1. s \in SessionIds /\ row \in Session
  BY ReadFrame DEF CreateClose, Writing
<1>2. call[t].pc = "close" /\ Write(s, row) /\ Become(t, c) /\ UNCHANGED disturbed
  BY DEF CreateClose
<1>3. call[t] # Idle
  BY <1>2, BusyFrame
<1>4. ASSUME SerialFrame(rows, call[t])
      PROVE  ~IsSessionActive(row) /\ Live(rows') = {}
  BY <1>1, <1>2, <1>4, LiveAfter DEF SerialFrame, Claims
<1>5. SerialFrame(rows, call[t]) => SerialFrame(rows', c)
  BY <1>4, InsertReadSerial
<1> HIDE DEF c, s, row
<1> QED
  BY <1>1, <1>2, <1>3, <1>4, <1>5, WriteSerial

LEMMA InsertSerial ==
  ASSUME Inv, SerialInv, NEW t \in Threads, Insert(t)
  PROVE  SerialInv'
<1>1. PICK s \in SessionIds, picked \in (SUBSET Bonds) \ {{}} :
        Write(s, [status |-> "active", items |-> FrozenItems(picked),
                  created |-> call[t].stamp])
  BY DEF Insert
<1> DEFINE row == [status |-> "active", items |-> FrozenItems(picked),
                   created |-> call[t].stamp]
<1>2. row \in Session
  BY ReadFrame, FrozenGood DEF Frame
<1>3. Write(s, row)
  BY <1>1
<1> HIDE DEF row
<1>4. call[t].pc = "insert" /\ Become(t, Idle) /\ UNCHANGED disturbed
  BY DEF Insert
<1>5. call[t] # Idle
  BY <1>4, BusyFrame
<1>6. SerialFrame(rows, call[t]) => Live(rows) = {}
  BY <1>4 DEF SerialFrame
<1> QED
  BY <1>2, <1>3, <1>4, <1>5, <1>6, IdleClaims, WriteSerial

LEMMA RefreshReadSerial ==
  ASSUME Inv, SerialInv, NEW t \in Threads, RefreshRead(t)
  PROVE  SerialInv'
<1>1. PICK s \in SessionIds :
        /\ s \in Saved /\ IsSessionActive(rows[s])
        /\ Request(t, [Idle EXCEPT !.pc = "rebuild", !.session = s, !.row = rows[s]])
  BY DEF RefreshRead, Saved, CanBeRefreshed
<1> DEFINE c == [Idle EXCEPT !.pc = "rebuild", !.session = s, !.row = rows[s]]
<1>2. Single(rows) => Live(rows) \subseteq {s}
  BY <1>1 DEF Single, Live, Saved
<1>3. "rebuild" \in Writing /\ "rebuild" # "close"
  BY DEF Writing
<1>4. Single(rows) => SerialFrame(rows, c)
  BY <1>2, <1>3, HolderSerial
<1>5. Begin(t, c) /\ UNCHANGED rows
  BY <1>1 DEF Request, RefreshRead
<1> HIDE DEF c
<1> QED
  BY <1>4, <1>5, BeginSerial

LEMMA RebuildSerial ==
  ASSUME Inv, SerialInv, NEW t \in Threads, Rebuild(t)
  PROVE  SerialInv'
<1>1. PICK picked \in (SUBSET Bonds) \ {{}} :
        LET row == [call[t].row EXCEPT !.status = "active", !.items = FrozenItems(picked)]
        IN  /\ Write(call[t].session, row)
            /\ Become(t, AboutToSave(call[t].session, row))
  BY DEF Rebuild
<1> DEFINE s == call[t].session
           row == [call[t].row EXCEPT !.status = "active", !.items = FrozenItems(picked)]
           c == AboutToSave(s, row)
<1>2. s \in SessionIds /\ row \in Session
  BY ReadFrame, RebuiltGood DEF Rebuild, Writing
<1>3. Write(s, row) /\ Become(t, c)
  BY <1>1
<1> HIDE DEF row, s
<1>4. call[t].pc = "rebuild" /\ disturbed \subseteq disturbed'
  BY DEF Rebuild
<1>5. call[t] # Idle
  BY <1>4, BusyFrame
<1>6. SerialFrame(rows, call[t]) => Live(rows) \subseteq {s}
  BY <1>4 DEF SerialFrame, Claims, s
<1>7. SerialFrame(rows, call[t]) => SerialFrame(rows', c)
  BY <1>2, <1>3, <1>6, LiveAfter, SaverSerial
<1> HIDE DEF c
<1> QED
  BY <1>2, <1>3, <1>4, <1>5, <1>6, <1>7, WriteSerial

LEMMA CancelReadSerial ==
  ASSUME Inv, SerialInv, NEW t \in Threads, CancelRead(t)
  PROVE  SerialInv'
<1>1. PICK s \in Saved : Request(t, AboutToSave(s, [rows[s] EXCEPT !.status = "cancelled"]))
  BY DEF CancelRead
<1> DEFINE row == [rows[s] EXCEPT !.status = "cancelled"]
<1>2. ~IsSessionActive(row)
  <2>1. rows[s] \in Session
    BY ReadRow DEF Saved
  <2> QED
    BY <2>1 DEF IsSessionActive, Session
<1>3. Begin(t, AboutToSave(s, row)) /\ UNCHANGED rows
  BY <1>1 DEF Request, CancelRead
<1> HIDE DEF row
<1> QED
  BY <1>2, <1>3, SaverSerial, BeginSerial

LEMMA SkipReadSerial ==
  ASSUME Inv, SerialInv, NEW t \in Threads, SkipRead(t)
  PROVE  SerialInv'
<1>1. PICK s \in Saved : \E b \in DOMAIN rows[s].items :
        IsSessionActive(rows[s]) /\ Request(t, AboutToSave(s, MarkItemSkipped(rows[s], b)))
  BY DEF SkipRead
<1>2. PICK b \in DOMAIN rows[s].items :
        IsSessionActive(rows[s]) /\ Request(t, AboutToSave(s, MarkItemSkipped(rows[s], b)))
  BY <1>1
<1>3. Single(rows) => Live(rows) \subseteq {s}
  BY <1>2 DEF Single, Live, Saved
<1> DEFINE c == AboutToSave(s, MarkItemSkipped(rows[s], b))
<1>4. Single(rows) => SerialFrame(rows, c)
  BY <1>3, SaverSerial
<1>5. Begin(t, c) /\ UNCHANGED rows
  BY <1>2 DEF Request, SkipRead
<1> HIDE DEF c
<1> QED
  BY <1>4, <1>5, BeginSerial

LEMMA SaveSerial ==
  ASSUME Inv, SerialInv, NEW t \in Threads, Save(t)
  PROVE  SerialInv'
<1> DEFINE s == call[t].session
           row == call[t].row
<1>1. s \in SessionIds /\ row \in Session
  BY ReadFrame DEF Save, Writing
<1>2. call[t].pc = "save" /\ Write(s, row) /\ Become(t, Idle) /\ UNCHANGED disturbed
  BY DEF Save
<1>3. call[t] # Idle
  BY <1>2, BusyFrame
<1>4. SerialFrame(rows, call[t]) => (IsSessionActive(row) => Live(rows) \subseteq {s})
  BY <1>2 DEF SerialFrame, Claims, Writing
<1> HIDE DEF s, row
<1> QED
  BY <1>1, <1>2, <1>3, <1>4, IdleClaims, WriteSerial

LEMMA PlacePostSerial ==
  ASSUME Inv, SerialInv, NEW t \in Threads, PlacePost(t)
  PROVE  SerialInv'
<1>1. PICK s \in SessionIds, b \in Bonds, o \in OrderIds :
        Request(t, [Idle EXCEPT !.pc = "mark", !.session = s, !.bond = b, !.order = o])
  BY DEF PlacePost, Saved
<1> DEFINE c == [Idle EXCEPT !.pc = "mark", !.session = s, !.bond = b, !.order = o]
<1>2. c.pc = "mark"
  BY DEF Idle
<1>3. Begin(t, c) /\ UNCHANGED rows
  BY <1>1 DEF Request, PlacePost
<1> HIDE DEF c
<1>4. SerialFrame(rows, c)
  BY <1>2 DEF SerialFrame, Claims, Writing
<1> QED
  BY <1>3, <1>4, BeginSerial

LEMMA PlaceReadSerial ==
  ASSUME Inv, SerialInv, NEW t \in Threads, PlaceRead(t)
  PROVE  SerialInv'
<1>1. call[t] # Idle /\ UNCHANGED <<rows, disturbed>>
  BY BusyFrame DEF PlaceRead
<1>2. CASE Become(t, Idle)
  BY <1>1, <1>2, IdleClaims, QuietSerial
<1>3. ASSUME NEW s \in SessionIds, IsLatestActive(s),
             Become(t, AboutToSave(s, MarkItemPlaced(rows[s], call[t].bond, call[t].order)))
      PROVE  SerialInv'
  <2> DEFINE c == AboutToSave(s, MarkItemPlaced(rows[s], call[t].bond, call[t].order))
  <2>1. Single(rows) => SerialFrame(rows, c)
    BY <1>3, LatestIsLive, SaverSerial
  <2>2. Become(t, c)
    BY <1>3
  <2> HIDE DEF c
  <2> QED
    BY <1>1, <2>1, <2>2, QuietSerial
<1> QED
  BY <1>2, <1>3 DEF PlaceRead

LEMMA AdviseOrdersSerial ==
  ASSUME Inv, SerialInv, NEW t \in Threads, AdviseOrders(t)
  PROVE  SerialInv'
<1> DEFINE c == [Idle EXCEPT !.pc = "session", !.listed = ActiveOrders]
<1>1. c.pc = "session"
  BY DEF Idle
<1>2. Begin(t, c) /\ UNCHANGED rows
  BY DEF AdviseOrders
<1> HIDE DEF c
<1>3. SerialFrame(rows, c)
  BY <1>1 DEF SerialFrame, Claims, Writing
<1> QED
  BY <1>2, <1>3, BeginSerial

LEMMA AdviseReadSerial ==
  ASSUME Inv, SerialInv, NEW t \in Threads, AdviseRead(t)
  PROVE  SerialInv'
<1>1. call[t] # Idle /\ UNCHANGED <<rows, disturbed>>
  BY BusyFrame DEF AdviseRead
<1>2. CASE Become(t, Idle)
  BY <1>1, <1>2, IdleClaims, QuietSerial
<1>3. ASSUME NEW s \in SessionIds, NEW aged \in SUBSET Bonds, IsLatestActive(s),
             Become(t, [Idle EXCEPT !.pc = "advise", !.session = s,
               !.row = ApplySessionStaleness(
                         SyncSessionWithOrders(rows[s], call[t].listed), aged)])
      PROVE  SerialInv'
  <2> DEFINE row == ApplySessionStaleness(SyncSessionWithOrders(rows[s], call[t].listed), aged)
             c == [Idle EXCEPT !.pc = "advise", !.session = s, !.row = row]
  <2>1. Become(t, c)
    BY <1>3
  <2> HIDE DEF row
  <2>2. "advise" \in Writing /\ "advise" # "close" /\ "advise" # "rebuild"
    BY DEF Writing
  <2>3. Single(rows) => SerialFrame(rows, c)
    BY <1>3, <2>2, LatestIsLive, HolderSerial
  <2> HIDE DEF c
  <2> QED
    BY <1>1, <2>1, <2>3, QuietSerial
<1> QED
  BY <1>2, <1>3 DEF AdviseRead

LEMMA AdviseSaveSerial ==
  ASSUME Inv, SerialInv, NEW t \in Threads, AdviseSave(t)
  PROVE  SerialInv'
<1> DEFINE s == call[t].session
           row == call[t].row
           c == IF IsSessionActive(CompleteSessionIfNoPending(row))
                  THEN AboutToSave(s, row) ELSE Idle
<1>1. s \in SessionIds /\ row \in Session
  BY ReadFrame DEF AdviseSave, Writing
<1>2. call[t].pc = "advise" /\ Write(s, row) /\ Become(t, c) /\ UNCHANGED disturbed
  BY DEF AdviseSave
<1>3. call[t] # Idle
  BY <1>2, BusyFrame
<1>4. SerialFrame(rows, call[t]) => (IsSessionActive(row) => Live(rows) \subseteq {s})
  BY <1>2 DEF SerialFrame, Claims, Writing
<1> HIDE DEF s, row
<1>5. ASSUME SerialFrame(rows, call[t])
      PROVE  SerialFrame(rows', c)
  <2>1. IsSessionActive(row) => Live(rows') \subseteq {s}
    BY <1>1, <1>2, <1>4, <1>5, LiveAfter
  <2> QED
    BY <2>1, SaverSerial, IdleClaims
<1> HIDE DEF c
<1> QED
  BY <1>1, <1>2, <1>3, <1>4, <1>5, WriteSerial

LEMMA AbortSerial ==
  ASSUME Inv, SerialInv, NEW t \in Threads, Abort(t)
  PROVE  SerialInv'
BY IdleClaims, QuietSerial DEF Abort

LEMMA SerialNext ==
  ASSUME Inv, SerialInv, [Next]_vars
  PROVE  SerialInv'
<1>1. ASSUME NEW t \in Threads, Step(t)
      PROVE  SerialInv'
  BY <1>1, CreateReadSerial, CreateCloseSerial, InsertSerial, RefreshReadSerial,
     RebuildSerial, CancelReadSerial, SkipReadSerial, PlacePostSerial, PlaceReadSerial,
     AdviseOrdersSerial, AdviseReadSerial, AdviseSaveSerial, SaveSerial, AbortSerial
     DEF Step
<1>2. CASE UNCHANGED <<rows, call, disturbed>>
  BY <1>2 DEF SerialInv, Lone
<1> QED
  BY <1>1, <1>2 DEF Next, CancelOrder, Execute, vars

LEMMA SerialInit == Init => SerialInv
<1> SUFFICES ASSUME Init PROVE SerialInv
  OBVIOUS
<1>1. Live(rows) = {}
  BY DEF Init, Live
<1> QED
  BY <1>1, IdleClaims DEF Init, SerialInv, Lone, Single

LEMMA SerialHolds == Spec => []SerialInv
<1>1. Init => SerialInv
  BY SerialInit
<1>2. Inv /\ SerialInv /\ [Next]_vars => SerialInv'
  BY SerialNext
<1> QED
  BY <1>1, <1>2, InvHolds, PTL DEF Spec

\* For any number of goroutines and sessions: as long as no two requests overlap, the
\* conflict check of CreateSession leaves at most one active session, also when a
\* creation dies between closing the old session and saving the new one.
THEOREM OneActiveSession == Spec => []SingleActiveSession
<1>1. SerialInv => SingleActiveSession
  BY DEF SerialInv, Single, Live, SingleActiveSession, Saved
<1> QED
  BY <1>1, SerialHolds, PTL

-----------------------------------------------------------------------------
(* Nothing ordered is offered: what the rules do to the pending items. *)

LEMMA CompleteKeepsPending ==
  ASSUME NEW row \in Session
  PROVE  PendingItems(CompleteSessionIfNoPending(row)) = PendingItems(row)
<1>1. [row EXCEPT !.status = "completed"].items = row.items
  BY DEF Session
<1> QED
  BY <1>1 DEF CompleteSessionIfNoPending, PendingItems

LEMMA WithItemPending ==
  ASSUME NEW row \in Session, NEW b \in DOMAIN row.items, NEW item \in Item,
         item.status # "pending"
  PROVE  PendingItems(CompleteSessionIfNoPending(WithItem(row, b, item)))
           \subseteq PendingItems(row) \ {b}
<1> DEFINE items == [row.items EXCEPT ![b] = item]
<1>1. row.items \in [DOMAIN row.items -> Item]
  BY RowType, PlanItems
<1>2. items \in [DOMAIN row.items -> Item]
  BY <1>1
<1>3. items \in Plans
  BY <1>2, RowType, PlanType
<1>4. /\ DOMAIN items = DOMAIN row.items /\ items[b] = item
      /\ \A d \in DOMAIN row.items : d # b => items[d] = row.items[d]
  BY <1>1
<1> HIDE DEF items
<1>5. /\ [row EXCEPT !.items = items] \in Session
      /\ [row EXCEPT !.items = items].items = items
  BY <1>3 DEF Session
<1>6. WithItem(row, b, item) = [row EXCEPT !.items = items]
  BY DEF WithItem, items, Session
<1>7. PendingItems(WithItem(row, b, item)) \subseteq PendingItems(row) \ {b}
  BY <1>4, <1>5, <1>6 DEF PendingItems
<1> QED
  BY <1>5, <1>6, <1>7, CompleteKeepsPending

\* ActiveOrders reports open orders only, so a synchronisation reopens no item.
LEMMA SyncPending ==
  ASSUME NEW row \in Session, NEW ords, NEW s, GoodRow(ords, s, row),
         NEW listed, \A o \in DOMAIN listed : listed[o] \in ActiveOrderStatuses
  PROVE  PendingItems(SyncSessionWithOrders(row, listed)) \subseteq PendingItems(row)
<1> DEFINE items == [b \in DOMAIN row.items |-> SyncedItem(row.items[b], listed)]
<1>1. ASSUME NEW b \in DOMAIN row.items
      PROVE  /\ items[b] \in Item
             /\ items[b].status = "pending" => row.items[b].status = "pending"
  <2>1. row.items[b] \in Item /\ Owns(ords, s, b, row.items[b])
    BY RowType DEF GoodRow
  <2>2. SyncedItem(row.items[b], listed) \in Item
    BY <2>1, SyncedItemGood
  <2> QED
    BY <2>1, <2>2 DEF SyncedItem, Item, ItemStatuses, ActiveOrderStatuses, TerminalOrderStatuses
<1>2. DOMAIN items = DOMAIN row.items /\ items \in [DOMAIN row.items -> Item]
  BY <1>1
<1>3. items \in Plans
  BY <1>2, RowType, PlanType
<1> HIDE DEF items
<1>4. /\ [row EXCEPT !.items = items] \in Session
      /\ [row EXCEPT !.items = items].items = items
  BY <1>3 DEF Session
<1>5. PendingItems([row EXCEPT !.items = items]) \subseteq PendingItems(row)
  BY <1>1, <1>2, <1>4 DEF PendingItems
<1> QED
  BY <1>4, <1>5, CompleteKeepsPending DEF SyncSessionWithOrders, items

LEMMA StalenessPending ==
  ASSUME NEW row \in Session, NEW aged
  PROVE  PendingItems(ApplySessionStaleness(row, aged)) \subseteq PendingItems(row)
<1> DEFINE items == [b \in DOMAIN row.items |->
                       IF b \in aged \cap PendingItems(row)
                         THEN [row.items[b] EXCEPT !.status = "stale"] ELSE row.items[b]]
<1>1. ApplySessionStaleness(row, aged).items = items
  BY DEF ApplySessionStaleness, Session
<1>2. ASSUME NEW b \in DOMAIN row.items, items[b].status = "pending"
      PROVE  row.items[b].status = "pending"
  BY <1>2, RowType DEF Item
<1>3. DOMAIN items = DOMAIN row.items
  OBVIOUS
<1> HIDE DEF items
<1> QED
  BY <1>1, <1>2, <1>3 DEF PendingItems

LEMMA CleanShrinks ==
  ASSUME NEW ords, NEW s, NEW row, NEW less, Clean(ords, s, row),
         PendingItems(less) \subseteq PendingItems(row)
  PROVE  Clean(ords, s, less)
BY DEF Clean

LEMMA HolderClean ==
  ASSUME NEW ords, NEW pc \in Writing, NEW s, NEW row,
         IsSessionActive(row) => Clean(ords, s, row)
  PROVE  LET c == [Idle EXCEPT !.pc = pc, !.session = s, !.row = row]
         IN  CleanFrame(ords, c) /\ ListsOpen(c)
<1> DEFINE c == [Idle EXCEPT !.pc = pc, !.session = s, !.row = row]
<1>1. c.pc = pc /\ c.session = s /\ c.row = row
  BY DEF Idle
<1> HIDE DEF c
<1>2. CleanFrame(ords, c) /\ ListsOpen(c)
  BY <1>1 DEF CleanFrame, ListsOpen, Writing
<1> QED
  BY <1>2 DEF c

LEMMA SaverClean ==
  ASSUME NEW ords, NEW s, NEW row, IsSessionActive(row) => Clean(ords, s, row)
  PROVE  CleanFrame(ords, AboutToSave(s, row)) /\ ListsOpen(AboutToSave(s, row))
<1>1. "save" \in Writing
  BY DEF Writing
<1> QED
  BY <1>1, HolderClean DEF AboutToSave

LEMMA InsertClean ==
  ASSUME NEW ords, NEW n
  PROVE  LET c == [Idle EXCEPT !.pc = "insert", !.stamp = n]
         IN  CleanFrame(ords, c) /\ ListsOpen(c)
<1> DEFINE c == [Idle EXCEPT !.pc = "insert", !.stamp = n]
<1>1. c.pc = "insert"
  BY DEF Idle
<1> HIDE DEF c
<1>2. CleanFrame(ords, c) /\ ListsOpen(c)
  BY <1>1 DEF CleanFrame, ListsOpen, Writing
<1> QED
  BY <1>2 DEF c

-----------------------------------------------------------------------------
(* Nothing ordered is offered: the steps. *)

Serial == Inv /\ SerialInv /\ OfferInv

\* What an undisturbed step finds: only its own goroutine may have ordered an item
\* that is still offered.
LEMMA Undisturbed ==
  ASSUME Serial, NEW t \in Threads, NEW c, Moves(t, c), disturbed' = {}
  PROVE  /\ Single(rows) /\ SerialFrame(rows, call[t]) /\ CleanFrame(orders, call[t])
         /\ \A o \in OrderIds : Offered(orders, rows, o) => Marks(orders, call[t], o)
<1>1. disturbed = {}
  BY DEF Moves, Begin
<1>2. /\ \A u \in Threads : u # t => call[u] = Idle
      /\ Single(rows) /\ SerialFrame(rows, call[t])
  BY Alone DEF Serial
<1> QED
  BY <1>1, <1>2, IdleClaims DEF Serial, OfferInv

LEMMA OfferStep ==
  ASSUME Serial, NEW t \in Threads, NEW c, Moves(t, c), ListsOpen(c),
         \A o \in OrderIds : orders'[o] # None => rows'[orders'[o].session] # None,
         disturbed' = {} =>
           /\ CleanFrame(orders', c)
           /\ \A o \in OrderIds : Offered(orders', rows', o) => Marks(orders', c, o)
  PROVE  OfferInv'
<1>1. call \in [Threads -> Frame] /\ call' = [call EXCEPT ![t] = c]
  BY DEF Serial, Inv, TypeOK, Moves, Begin, Become
<1>2. \A u \in Threads : ListsOpen(call'[u])
  BY <1>1 DEF Serial, OfferInv
<1>3. ASSUME disturbed' = {}
      PROVE  /\ \A u \in Threads : CleanFrame(orders', call'[u])
             /\ \A o \in OrderIds : Offered(orders', rows', o) =>
                  \E u \in Threads : Marks(orders', call'[u], o)
  <2>1. call'[t] = c /\ \A u \in Threads : u # t => call'[u] = Idle
    BY <1>3, Alone DEF Serial
  <2> QED
    BY <1>3, <2>1, IdleClaims
<1> QED
  BY <1>2, <1>3 DEF OfferInv

\* Orders and rows that do not change.
LEMMA OrderedStay ==
  ASSUME Serial, UNCHANGED orders,
         \/ UNCHANGED rows
         \/ \E s \in SessionIds, row \in Session : Write(s, row)
  PROVE  \A o \in OrderIds : orders'[o] # None => rows'[orders'[o].session] # None
<1>1. /\ \A o \in OrderIds : orders[o] # None => rows[orders[o].session] # None
      /\ orders \in [OrderIds -> Order \cup {None}]
      /\ rows \in [SessionIds -> Session \cup {None}]
  BY DEF Serial, OfferInv, Inv, TypeOK
<1>2. \A s \in SessionIds : rows[s] # None => rows'[s] # None
  BY <1>1, RowType DEF Write
<1> QED
  BY <1>1, <1>2 DEF Order

\* A first step that reads rows and orders: nothing that was ordered is offered.
LEMMA BeginOffer ==
  ASSUME Serial, NEW t \in Threads, NEW c, Begin(t, c), UNCHANGED <<rows, orders>>,
         ListsOpen(c),
         (\A o \in OrderIds : ~Offered(orders, rows, o)) => CleanFrame(orders, c)
  PROVE  OfferInv'
<1>1. Moves(t, c)
  BY DEF Moves
<1>2. disturbed' = {} => \A o \in OrderIds : ~Offered(orders, rows, o)
  BY <1>1, Undisturbed, IdleClaims DEF Begin
<1> QED
  BY <1>1, <1>2, OrderedStay, OfferStep

\* A later step of a frame that marks nothing, and writes nothing.
LEMMA QuietOffer ==
  ASSUME Serial, NEW t \in Threads, NEW c, call[t] # Idle, Become(t, c),
         UNCHANGED <<rows, orders, disturbed>>, ListsOpen(c),
         CleanFrame(orders, call[t]) /\ Single(rows) /\
           (\A o \in OrderIds : Offered(orders, rows, o) => Marks(orders, call[t], o)) =>
             /\ CleanFrame(orders, c)
             /\ \A o \in OrderIds : Offered(orders, rows, o) => Marks(orders, c, o)
  PROVE  OfferInv'
<1>1. Moves(t, c)
  BY DEF Moves
<1> QED
  BY <1>1, Undisturbed, OrderedStay, OfferStep

\* Reading a row while nothing ordered is offered.
LEMMA ReadClean ==
  ASSUME Serial, NEW s \in Saved, IsSessionActive(rows[s]),
         \A o \in OrderIds : ~Offered(orders, rows, o)
  PROVE  Clean(orders, s, rows[s])
BY DEF Clean, Offered

\* A step that writes a copy its frame holds, which is not about to be marked.
LEMMA WriteOffer ==
  ASSUME Serial, NEW t \in Threads, NEW c, call[t] # Idle, Become(t, c),
         UNCHANGED <<orders, disturbed>>, ListsOpen(c),
         NEW s \in SessionIds, NEW row \in Session, Write(s, row),
         \A o \in OrderIds : Marks(orders, call[t], o) => orders[o].session = s,
         CleanFrame(orders, call[t]) => (IsSessionActive(row) => Clean(orders, s, row)),
         CleanFrame(orders, call[t]) => CleanFrame(orders, c)
  PROVE  OfferInv'
<1>1. Moves(t, c)
  BY DEF Moves
<1>2. rows \in [SessionIds -> Session \cup {None}] /\ orders \in [OrderIds -> Order \cup {None}]
  BY DEF Serial, Inv, TypeOK
<1>3. rows'[s] = row /\ \A u \in SessionIds : u # s => rows'[u] = rows[u]
  BY <1>2 DEF Write
<1>4. ASSUME disturbed' = {}
      PROVE  /\ CleanFrame(orders, c)
             /\ \A o \in OrderIds : ~Offered(orders, rows', o)
  <2>1. /\ CleanFrame(orders, call[t])
        /\ \A o \in OrderIds : Offered(orders, rows, o) => Marks(orders, call[t], o)
    BY <1>1, <1>4, Undisturbed
  <2>2. ASSUME NEW o \in OrderIds, Offered(orders, rows', o)
        PROVE  FALSE
    <3>1. orders[o].session \in SessionIds
      BY <1>2, <2>2 DEF Offered, Order
    <3>2. CASE orders[o].session = s
      BY <1>3, <2>1, <2>2, <3>2 DEF Offered, Clean
    <3>3. CASE orders[o].session # s
      BY <1>3, <2>1, <2>2, <3>1, <3>3 DEF Offered
    <3> QED
      BY <3>2, <3>3
  <2> QED
    BY <2>1, <2>2
<1> QED
  BY <1>1, <1>4, OrderedStay, OfferStep

LEMMA CreateReadOffer ==
  ASSUME Serial, NEW t \in Threads, CreateRead(t)
  PROVE  OfferInv'
<1>1. PICK n \in 1 .. MaxStamp :
        \/ Request(t, [Idle EXCEPT !.pc = "insert", !.stamp = n])
        \/ \E s \in SessionIds : /\ IsLatestActive(s) /\ ~BlocksCreation(rows[s])
                                 /\ Request(t, Opening(s, n))
  BY DEF CreateRead
<1>2. UNCHANGED <<rows, orders>>
  BY DEF CreateRead
<1>3. CASE Request(t, [Idle EXCEPT !.pc = "insert", !.stamp = n])
  <2> DEFINE c == [Idle EXCEPT !.pc = "insert", !.stamp = n]
  <2>1. Begin(t, c) /\ CleanFrame(orders, c) /\ ListsOpen(c)
    BY <1>3, InsertClean DEF Request
  <2> HIDE DEF c
  <2> QED
    BY <1>2, <2>1, BeginOffer
<1>4. ASSUME NEW s \in SessionIds, IsLatestActive(s), ~BlocksCreation(rows[s]),
             Request(t, Opening(s, n))
      PROVE  OfferInv'
  <2> DEFINE completed == CompleteSessionIfNoPending(rows[s])
             c == [Idle EXCEPT !.pc = "close", !.session = s, !.row = completed, !.stamp = n]
  <2>1. rows[s] \in Session /\ IsSessionActive(rows[s]) /\ ~SessionHasPendingItems(rows[s])
    BY <1>4, ReadRow DEF IsLatestActive, BlocksCreation, Serial
  <2>2. completed.status = "completed"
    BY <2>1 DEF CompleteSessionIfNoPending, Session
  <2>3. Opening(s, n) = c /\ ~IsSessionActive(completed)
    BY <2>2 DEF Opening, IsSessionActive
  <2> HIDE DEF completed
  <2>4. c.pc = "close" /\ c.row = completed
    BY DEF Idle
  <2>5. Begin(t, c)
    BY <1>4, <2>3 DEF Request
  <2> HIDE DEF c
  <2>6. CleanFrame(orders, c) /\ ListsOpen(c)
    BY <2>3, <2>4 DEF CleanFrame, ListsOpen
  <2> QED
    BY <1>2, <2>5, <2>6, BeginOffer
<1> QED
  BY <1>1, <1>3, <1>4

LEMMA CreateCloseOffer ==
  ASSUME Serial, NEW t \in Threads, CreateClose(t)
  PROVE  OfferInv'
<1> DEFINE c == [Idle EXCEPT !.pc = "insert", !.stamp = call[t].stamp]
           s == call[t].session
           row == call[t].row
<1>1. s \in SessionIds /\ row \in Session
  BY ReadFrame DEF CreateClose, Writing, Serial
<1>2. /\ call[t].pc = "close" /\ Write(s, row) /\ Become(t, c)
      /\ UNCHANGED <<orders, disturbed>>
  BY DEF CreateClose
<1>3. call[t] # Idle
  BY <1>2, BusyFrame
<1>4. CleanFrame(orders, c) /\ ListsOpen(c)
  BY InsertClean
<1>5. CleanFrame(orders, call[t]) => (IsSessionActive(row) => Clean(orders, s, row))
  BY <1>2 DEF CleanFrame, Writing
<1>6. \A o \in OrderIds : ~Marks(orders, call[t], o)
  BY <1>2 DEF Marks
<1> HIDE DEF c, s, row
<1> QED
  BY <1>1, <1>2, <1>3, <1>4, <1>5, <1>6, WriteOffer

\* A new session has no orders yet: orders name sessions that were saved.
LEMMA InsertOffer ==
  ASSUME Serial, NEW t \in Threads, Insert(t)
  PROVE  OfferInv'
<1>1. PICK s \in SessionIds \ Saved, picked \in (SUBSET Bonds) \ {{}} :
        Write(s, [status |-> "active", items |-> FrozenItems(picked),
                  created |-> call[t].stamp])
  BY DEF Insert
<1> DEFINE row == [status |-> "active", items |-> FrozenItems(picked),
                   created |-> call[t].stamp]
<1>2. row \in Session
  BY ReadFrame, FrozenGood DEF Frame, Serial
<1>3. Write(s, row)
  BY <1>1
<1> HIDE DEF row
<1>4. call[t].pc = "insert" /\ Become(t, Idle) /\ UNCHANGED <<orders, disturbed>>
  BY DEF Insert
<1>5. call[t] # Idle
  BY <1>4, BusyFrame
<1>6. Clean(orders, s, row)
  BY <1>1 DEF Clean, Serial, OfferInv, Saved
<1>7. \A o \in OrderIds : ~Marks(orders, call[t], o)
  BY <1>4 DEF Marks
<1> QED
  BY <1>2, <1>3, <1>4, <1>5, <1>6, <1>7, IdleClaims, WriteOffer

LEMMA RefreshReadOffer ==
  ASSUME Serial, NEW t \in Threads, RefreshRead(t)
  PROVE  OfferInv'
<1>1. PICK s \in Saved :
        Request(t, [Idle EXCEPT !.pc = "rebuild", !.session = s, !.row = rows[s]])
  BY DEF RefreshRead
<1> DEFINE c == [Idle EXCEPT !.pc = "rebuild", !.session = s, !.row = rows[s]]
<1>2. "rebuild" \in Writing
  BY DEF Writing
<1>3. ASSUME \A o \in OrderIds : ~Offered(orders, rows, o)
      PROVE  CleanFrame(orders, c)
  BY <1>2, <1>3, ReadClean, HolderClean
<1>4. c.pc = "rebuild"
  BY DEF Idle
<1>5. Begin(t, c) /\ UNCHANGED <<rows, orders>>
  BY <1>1 DEF Request, RefreshRead
<1> HIDE DEF c
<1>6. ListsOpen(c)
  BY <1>4 DEF ListsOpen
<1> QED
  BY <1>3, <1>5, <1>6, BeginOffer

\* A refresh is a disturbance: it forgets which items were ordered.
LEMMA RebuildOffer ==
  ASSUME Serial, NEW t \in Threads, Rebuild(t)
  PROVE  OfferInv'
<1>1. PICK picked \in (SUBSET Bonds) \ {{}} :
        LET row == [call[t].row EXCEPT !.status = "active", !.items = FrozenItems(picked)]
        IN  /\ Write(call[t].session, row)
            /\ Become(t, AboutToSave(call[t].session, row))
  BY DEF Rebuild
<1> DEFINE s == call[t].session
           row == [call[t].row EXCEPT !.status = "active", !.items = FrozenItems(picked)]
           c == AboutToSave(s, row)
<1>2. s \in SessionIds /\ row \in Session
  BY ReadFrame, RebuiltGood DEF Rebuild, Writing, Serial
<1>3. Write(s, row) /\ Become(t, c)
  BY <1>1
<1> HIDE DEF row, s
<1>4. c.pc = "save"
  BY DEF AboutToSave, Idle
<1> HIDE DEF c
<1>5. call[t] # Idle /\ UNCHANGED orders /\ disturbed' # {} /\ disturbed \subseteq disturbed'
  BY BusyFrame DEF Rebuild
<1>6. ListsOpen(c) /\ Moves(t, c)
  BY <1>3, <1>4, <1>5 DEF ListsOpen, Moves
<1> QED
  BY <1>2, <1>3, <1>5, <1>6, OrderedStay, OfferStep

LEMMA CancelReadOffer ==
  ASSUME Serial, NEW t \in Threads, CancelRead(t)
  PROVE  OfferInv'
<1>1. PICK s \in Saved : Request(t, AboutToSave(s, [rows[s] EXCEPT !.status = "cancelled"]))
  BY DEF CancelRead
<1> DEFINE row == [rows[s] EXCEPT !.status = "cancelled"]
<1>2. ~IsSessionActive(row)
  <2>1. rows[s] \in Session
    BY ReadRow DEF Saved, Serial
  <2> QED
    BY <2>1 DEF IsSessionActive, Session
<1>3. Begin(t, AboutToSave(s, row)) /\ UNCHANGED <<rows, orders>>
  BY <1>1 DEF Request, CancelRead
<1> HIDE DEF row
<1> QED
  BY <1>2, <1>3, SaverClean, BeginOffer

LEMMA SkipReadOffer ==
  ASSUME Serial, NEW t \in Threads, SkipRead(t)
  PROVE  OfferInv'
<1>1. PICK s \in Saved : \E b \in DOMAIN rows[s].items :
        IsSessionActive(rows[s]) /\ Request(t, AboutToSave(s, MarkItemSkipped(rows[s], b)))
  BY DEF SkipRead
<1>2. PICK b \in DOMAIN rows[s].items :
        IsSessionActive(rows[s]) /\ Request(t, AboutToSave(s, MarkItemSkipped(rows[s], b)))
  BY <1>1
<1> DEFINE row == MarkItemSkipped(rows[s], b)
           item == [rows[s].items[b] EXCEPT !.status = "skipped"]
<1>3. rows[s] \in Session
  BY ReadRow DEF Serial, Saved
<1>4. item \in Item /\ item.status # "pending"
  BY <1>3, RowType DEF Item, ItemStatuses
<1>5. row = CompleteSessionIfNoPending(WithItem(rows[s], b, item))
  BY DEF MarkItemSkipped
<1> HIDE DEF item
<1>6. PendingItems(row) \subseteq PendingItems(rows[s])
  BY <1>3, <1>4, <1>5, WithItemPending
<1>7. Begin(t, AboutToSave(s, row)) /\ UNCHANGED <<rows, orders>>
  BY <1>2 DEF Request, SkipRead
<1> HIDE DEF row
<1>8. ASSUME \A o \in OrderIds : ~Offered(orders, rows, o)
      PROVE  Clean(orders, s, row)
  BY <1>2, <1>6, <1>8, ReadClean, CleanShrinks
<1>9. Clean(orders, s, row) => CleanFrame(orders, AboutToSave(s, row))
  BY SaverClean
<1>10. ListsOpen(AboutToSave(s, row))
  BY DEF ListsOpen, AboutToSave, Idle
<1> QED
  BY <1>7, <1>8, <1>9, <1>10, BeginOffer

LEMMA SaveOffer ==
  ASSUME Serial, NEW t \in Threads, Save(t)
  PROVE  OfferInv'
<1> DEFINE s == call[t].session
           row == call[t].row
<1>1. s \in SessionIds /\ row \in Session
  BY ReadFrame DEF Save, Writing, Serial
<1>2. /\ call[t].pc = "save" /\ Write(s, row) /\ Become(t, Idle)
      /\ UNCHANGED <<orders, disturbed>>
  BY DEF Save
<1>3. call[t] # Idle
  BY <1>2, BusyFrame
<1>4. CleanFrame(orders, call[t]) => (IsSessionActive(row) => Clean(orders, s, row))
  BY <1>2 DEF CleanFrame, Writing
<1>5. \A o \in OrderIds : Marks(orders, call[t], o) => orders[o].session = s
  BY <1>2 DEF Marks
<1> HIDE DEF s, row
<1> QED
  BY <1>1, <1>2, <1>3, <1>4, <1>5, IdleClaims, WriteOffer

\* The order is posted: the frame that will mark its item vouches for it.
LEMMA PlacePostOffer ==
  ASSUME Serial, NEW t \in Threads, PlacePost(t)
  PROVE  OfferInv'
<1>1. PICK s \in Saved, b \in Bonds, o \in OrderIds :
        /\ \/ orders' = [orders EXCEPT ![o] = [status |-> "new", session |-> s, bond |-> b]]
           \/ UNCHANGED orders
        /\ Request(t, [Idle EXCEPT !.pc = "mark", !.session = s, !.bond = b, !.order = o])
  BY DEF PlacePost
<1> DEFINE posted == [status |-> "new", session |-> s, bond |-> b]
           c == [Idle EXCEPT !.pc = "mark", !.session = s, !.bond = b, !.order = o]
<1>2. orders \in [OrderIds -> Order \cup {None}] /\ UNCHANGED rows
  BY DEF Serial, Inv, TypeOK, PlacePost
<1>3. posted.session = s /\ c.pc = "mark" /\ c.order = o
  BY DEF Idle
<1>4. /\ \A p \in OrderIds : p # o => orders'[p] = orders[p]
      /\ orders'[o] = orders[o] \/ orders'[o] = posted
      /\ Begin(t, c)
  BY <1>1, <1>2 DEF Request
<1> HIDE DEF posted, c
<1>5. Moves(t, c) /\ ListsOpen(c) /\ CleanFrame(orders', c) /\ Marks(orders', c, o)
  BY <1>3, <1>4 DEF Moves, ListsOpen, CleanFrame, Marks, Writing
<1>6. \A p \in OrderIds : orders'[p] # None => rows'[orders'[p].session] # None
  BY <1>2, <1>3, <1>4 DEF Serial, OfferInv, Saved
<1>7. ASSUME disturbed' = {}, NEW p \in OrderIds, Offered(orders', rows', p)
      PROVE  Marks(orders', c, p)
  <2>1. \A q \in OrderIds : ~Offered(orders, rows, q)
    BY <1>4, <1>5, <1>7, Undisturbed, IdleClaims DEF Begin
  <2>2. p = o
    BY <1>2, <1>4, <1>7, <2>1 DEF Offered
  <2> QED
    BY <1>5, <2>2
<1> QED
  BY <1>5, <1>6, <1>7, OfferStep

LEMMA PlaceReadOffer ==
  ASSUME Serial, NEW t \in Threads, PlaceRead(t)
  PROVE  OfferInv'
<1>1. /\ call[t] # Idle /\ call[t].pc = "mark" /\ UNCHANGED <<rows, orders, disturbed>>
      /\ Posted(orders, call[t])
      /\ orders \in [OrderIds -> Order \cup {None}]
  BY BusyFrame, ReadFrame DEF PlaceRead, Serial, Inv, TypeOK
<1>2. \A o \in OrderIds : Marks(orders, call[t], o) => o = call[t].order
  BY <1>1 DEF Marks
<1>3. ASSUME NEW o \in OrderIds, Offered(orders, rows, o)
      PROVE  orders[o].session \in Live(rows)
  BY <1>1, <1>3 DEF Offered, Live, Order, Serial, OfferInv
<1>4. CASE NoActive /\ Become(t, Idle)
  <2>1. \A o \in OrderIds : ~Offered(orders, rows, o)
    BY <1>3, <1>4, NoneIsLive
  <2> QED
    BY <1>1, <1>4, <2>1, IdleClaims, QuietOffer
<1>5. ASSUME NEW s \in SessionIds, IsLatestActive(s), ~FindSessionItem(s, rows[s], call[t]),
             Become(t, Idle)
      PROVE  OfferInv'
  <2>1. ASSUME Single(rows), NEW o \in OrderIds, Offered(orders, rows, o),
               Marks(orders, call[t], o)
        PROVE  FALSE
    <3>1. o = call[t].order /\ orders[o].session = s
      BY <1>2, <1>3, <1>5, <2>1, LatestIsLive
    <3>2. orders[o].session = call[t].session /\ orders[o].bond = call[t].bond
      BY <1>1, <3>1 DEF Posted
    <3> QED
      BY <1>5, <2>1, <3>1, <3>2 DEF Offered, PendingItems, FindSessionItem
  <2> QED
    BY <1>1, <1>5, <2>1, IdleClaims, QuietOffer
<1>6. ASSUME NEW s \in SessionIds, IsLatestActive(s), FindSessionItem(s, rows[s], call[t]),
             Become(t, AboutToSave(s, MarkItemPlaced(rows[s], call[t].bond, call[t].order)))
      PROVE  OfferInv'
  <2> DEFINE row == MarkItemPlaced(rows[s], call[t].bond, call[t].order)
             item == [status |-> "placed", order |-> call[t].order]
             c == AboutToSave(s, row)
  <2>1. /\ rows[s] \in Session /\ IsSessionActive(rows[s])
        /\ call[t].session = s /\ call[t].bond \in DOMAIN rows[s].items
    BY <1>6, ReadRow DEF IsLatestActive, FindSessionItem, Serial
  <2>2. item \in Item /\ item.status # "pending"
    BY <1>1 DEF Item, ItemStatuses, Posted
  <2>3. row = CompleteSessionIfNoPending(WithItem(rows[s], call[t].bond, item))
    BY DEF MarkItemPlaced
  <2> HIDE DEF item
  <2>4. PendingItems(row) \subseteq PendingItems(rows[s]) \ {call[t].bond}
    BY <2>1, <2>2, <2>3, WithItemPending
  <2>5. c.pc = "save" /\ c.session = s /\ Become(t, c)
    BY <1>6 DEF AboutToSave, Idle
  <2> HIDE DEF row
  <2>6. ASSUME \A o \in OrderIds : Offered(orders, rows, o) => Marks(orders, call[t], o)
        PROVE  /\ Clean(orders, s, row)
               /\ \A o \in OrderIds : Offered(orders, rows, o) => Marks(orders, c, o)
    <3>1. \A o \in OrderIds : Offered(orders, rows, o) =>
            orders[o].session = s /\ orders[o].bond = call[t].bond
      BY <1>1, <1>2, <2>1, <2>6 DEF Posted
    <3>2. Clean(orders, s, row)
      BY <2>1, <2>4, <3>1 DEF Clean, Offered
    <3> QED
      BY <2>5, <3>1, <3>2 DEF Marks
  <2>7. ListsOpen(c) /\ (Clean(orders, s, row) => CleanFrame(orders, c))
    <3>1. ListsOpen(c)
      BY <2>5 DEF ListsOpen
    <3> QED
      BY <3>1, SaverClean
  <2> HIDE DEF c
  <2> QED
    BY <1>1, <2>5, <2>6, <2>7, QuietOffer
<1> QED
  BY <1>4, <1>5, <1>6 DEF PlaceRead

LEMMA AdviseOrdersOffer ==
  ASSUME Serial, NEW t \in Threads, AdviseOrders(t)
  PROVE  OfferInv'
<1> DEFINE c == [Idle EXCEPT !.pc = "session", !.listed = ActiveOrders]
<1>1. c.pc = "session" /\ c.listed = ActiveOrders
  BY DEF Idle
<1>2. Begin(t, c) /\ UNCHANGED <<rows, orders>>
  BY DEF AdviseOrders
<1> HIDE DEF c
<1>3. ListsOpen(c)
  BY <1>1 DEF ListsOpen, ActiveOrders
<1>4. CleanFrame(orders, c)
  BY <1>1 DEF CleanFrame, Writing
<1> QED
  BY <1>2, <1>3, <1>4, BeginOffer

LEMMA AdviseReadOffer ==
  ASSUME Serial, NEW t \in Threads, AdviseRead(t)
  PROVE  OfferInv'
<1>1. /\ call[t] # Idle /\ call[t].pc = "session" /\ UNCHANGED <<rows, orders, disturbed>>
      /\ \A o \in DOMAIN call[t].listed : call[t].listed[o] \in ActiveOrderStatuses
  BY BusyFrame DEF AdviseRead, Serial, OfferInv, ListsOpen
<1>2. \A o \in OrderIds : ~Marks(orders, call[t], o)
  BY <1>1 DEF Marks
<1>3. CASE Become(t, Idle)
  BY <1>1, <1>2, <1>3, IdleClaims, QuietOffer
<1>4. ASSUME NEW s \in SessionIds, NEW aged \in SUBSET Bonds, IsLatestActive(s),
             Become(t, [Idle EXCEPT !.pc = "advise", !.session = s,
               !.row = ApplySessionStaleness(
                         SyncSessionWithOrders(rows[s], call[t].listed), aged)])
      PROVE  OfferInv'
  <2> DEFINE synced == SyncSessionWithOrders(rows[s], call[t].listed)
             row == ApplySessionStaleness(synced, aged)
             c == [Idle EXCEPT !.pc = "advise", !.session = s, !.row = row]
  <2>1. /\ rows[s] \in Session /\ GoodRow(orders, s, rows[s]) /\ IsSessionActive(rows[s])
        /\ s \in Saved
    BY <1>4, ReadRow DEF IsLatestActive, Serial
  <2>2. synced \in Session /\ PendingItems(synced) \subseteq PendingItems(rows[s])
    BY <1>1, <2>1, SyncGood, SyncPending
  <2> HIDE DEF synced
  <2>3. PendingItems(row) \subseteq PendingItems(rows[s])
    BY <2>2, StalenessPending
  <2>4. Become(t, c)
    BY <1>4 DEF synced
  <2> HIDE DEF row
  <2>5. "advise" \in Writing
    BY DEF Writing
  <2>6. ASSUME \A o \in OrderIds : ~Offered(orders, rows, o)
        PROVE  CleanFrame(orders, c)
    BY <2>1, <2>3, <2>5, <2>6, ReadClean, CleanShrinks, HolderClean
  <2>7. c.pc = "advise"
    BY DEF Idle
  <2> HIDE DEF c
  <2>8. ListsOpen(c)
    BY <2>7 DEF ListsOpen
  <2> QED
    BY <1>1, <1>2, <2>4, <2>6, <2>8, QuietOffer
<1> QED
  BY <1>3, <1>4 DEF AdviseRead

LEMMA AdviseSaveOffer ==
  ASSUME Serial, NEW t \in Threads, AdviseSave(t)
  PROVE  OfferInv'
<1> DEFINE s == call[t].session
           row == call[t].row
           c == IF IsSessionActive(CompleteSessionIfNoPending(row))
                  THEN AboutToSave(s, row) ELSE Idle
<1>1. s \in SessionIds /\ row \in Session
  BY ReadFrame DEF AdviseSave, Writing, Serial
<1>2. /\ call[t].pc = "advise" /\ Write(s, row) /\ Become(t, c)
      /\ UNCHANGED <<orders, disturbed>>
  BY DEF AdviseSave
<1>3. call[t] # Idle
  BY <1>2, BusyFrame
<1>4. CleanFrame(orders, call[t]) => (IsSessionActive(row) => Clean(orders, s, row))
  BY <1>2 DEF CleanFrame, Writing
<1>5. \A o \in OrderIds : ~Marks(orders, call[t], o)
  BY <1>2 DEF Marks
<1> HIDE DEF s, row
<1>6. CleanFrame(orders, call[t]) => CleanFrame(orders, c)
  BY <1>4, SaverClean, IdleClaims
<1>7. ListsOpen(c)
  <2>1. AboutToSave(s, row).pc = "save"
    BY DEF AboutToSave, Idle
  <2> QED
    BY <2>1, IdleClaims DEF ListsOpen
<1> HIDE DEF c
<1> QED
  BY <1>1, <1>2, <1>3, <1>4, <1>5, <1>6, <1>7, WriteOffer

LEMMA AbortOffer ==
  ASSUME Serial, NEW t \in Threads, Abort(t)
  PROVE  OfferInv'
<1>1. Moves(t, Idle) /\ disturbed' # {} /\ UNCHANGED <<rows, orders>>
  BY DEF Abort, Moves
<1> QED
  BY <1>1, IdleClaims, OrderedStay, OfferStep

\* The broker moves an order on: whose it is does not change.
LEMMA BrokerOffer ==
  ASSUME Serial, NEW o \in OrderIds, CancelOrder(o) \/ Execute(o)
  PROVE  OfferInv'
<1>1. UNCHANGED <<rows, call, disturbed>>
  BY DEF CancelOrder, Execute
<1>2. PICK status \in OrderStatuses : orders' = [orders EXCEPT ![o].status = status]
  BY DEF CancelOrder, Execute, OrderStatuses
<1>3. orders \in [OrderIds -> Order \cup {None}] /\ orders[o] # None
  BY DEF CancelOrder, Execute, Serial, Inv, TypeOK
<1> DEFINE moved == [orders[o] EXCEPT !.status = status]
<1>4. /\ moved # None
      /\ moved.session = orders[o].session /\ moved.bond = orders[o].bond
  BY <1>3, SessionAssumption DEF Order
<1>5. orders' = [orders EXCEPT ![o] = moved]
  BY <1>2
<1> HIDE DEF moved
<1>6. \A p \in OrderIds :
        /\ orders'[p] # None <=> orders[p] # None
        /\ orders'[p].session = orders[p].session /\ orders'[p].bond = orders[p].bond
  BY <1>3, <1>4, <1>5
<1>7. /\ \A p \in OrderIds : Offered(orders', rows, p) => Offered(orders, rows, p)
      /\ \A t \in Threads, p \in OrderIds :
           Marks(orders, call[t], p) => Marks(orders', call[t], p)
      /\ \A t \in Threads : CleanFrame(orders, call[t]) => CleanFrame(orders', call[t])
  BY <1>6 DEF Offered, Marks, CleanFrame, Clean
<1> QED
  BY <1>1, <1>6, <1>7 DEF Serial, OfferInv

LEMMA OfferNext ==
  ASSUME Serial, [Next]_vars
  PROVE  OfferInv'
<1>1. ASSUME NEW t \in Threads, Step(t)
      PROVE  OfferInv'
  BY <1>1, CreateReadOffer, CreateCloseOffer, InsertOffer, RefreshReadOffer,
     RebuildOffer, CancelReadOffer, SkipReadOffer, PlacePostOffer, PlaceReadOffer,
     AdviseOrdersOffer, AdviseReadOffer, AdviseSaveOffer, SaveOffer, AbortOffer
     DEF Step
<1>2. CASE UNCHANGED vars
  BY <1>2 DEF vars, Serial, OfferInv
<1> QED
  BY <1>1, <1>2, BrokerOffer DEF Next

LEMMA OfferInit == Init => OfferInv
BY IdleClaims DEF Init, OfferInv, Offered

LEMMA OfferHolds == Spec => []OfferInv
<1>1. Init => OfferInv
  BY OfferInit
<1>2. Inv /\ SerialInv /\ OfferInv /\ [Next]_vars => OfferInv'
  BY OfferNext DEF Serial
<1> QED
  BY <1>1, <1>2, InvHolds, SerialHolds, PTL DEF Spec

\* For any number of bonds, sessions and orders: while requests follow one another,
\* none is lost and no session is refreshed, no item is offered between requests
\* that an order at the broker was posted for, whatever becomes of that order.
THEOREM OrderedIsNotOffered == Spec => []OfferedIsUnordered
<1>1. OfferInv => OfferedIsUnordered
  BY IdleClaims DEF OfferInv, OfferedIsUnordered, Offered
<1> QED
  BY <1>1, OfferHolds, PTL
=============================================================================
