--------------------------- MODULE PortfolioProofs ---------------------------
(***************************************************************************)
(* What holds of the plan of a portfolio, for any portfolio, universe and  *)
(* horizon: what has become of each position and what it is still due;     *)
(* then, for any shares and minima of a position too, that a deployment    *)
(* spends no more than there is and keeps to its caps.                     *)
(***************************************************************************)
EXTENDS TradingProofs

(***************************************************************************)
(* The simulation of a plan.  Events are taken in the order of their day,  *)
(* coupons before the redemption of the same day, and each has a number    *)
(* of its own or of its position.  So a position has had its coupons when  *)
(* its redemption comes, and what it is still due is in the queue.         *)
(***************************************************************************)
IsEvent(e) ==
  /\ e.date \in Int /\ e.seq \in Nat /\ e.seq < seq
  /\ e.kind \in {"coupon", "redemption", "deploy"}
  /\ e.pos \in DOMAIN book

\* A number is of one position, and with the kind and the day of one event.
QueueInv ==
  /\ IsFiniteSet(queue) /\ seq \in Nat
  /\ \A e \in queue : IsEvent(e)
  /\ \A e, f \in queue :
       e.seq = f.seq /\ e.kind = f.kind /\ e.date = f.date => e = f
  /\ \A e, f \in queue :
       e.pos = f.pos /\ e.kind # "deploy" /\ f.kind # "deploy" => e.seq = f.seq

Redeemed == {"maturity", "put_offer"}
Booked(i, kinds) == {k \in DOMAIN journal : journal[k].pos = i /\ journal[k].kind \in kinds}
PaidOn(i) == {journal[k].date : k \in Booked(i, {"coupon"})}
Queued(i, kind) == {e \in queue : e.pos = i /\ e.kind = kind}
IsDue(d) == in.mode # "trading" \/ d >= Today

\* What has become of position i, and what is to come.
HeldOn(i) ==
  /\ ~book[i].closed /\ Booked(i, Redeemed) = {} /\ Booked(i, {"coupon"}) = {}
  /\ Queued(i, "coupon") = {} /\ Queued(i, "redemption") = {}

CouponsInv(i) ==
  LET due == {d \in Plan!CouponDates(book[i]) : IsDue(d)}
      coming == {e.date : e \in Queued(i, "coupon")}
  IN /\ coming \subseteq Plan!CouponDates(book[i])
     /\ PaidOn(i) \subseteq due /\ due \subseteq PaidOn(i) \cup coming

RedemptionInv(i) ==
  LET end == Plan!EndDate(book[i])
  IN /\ \A e \in Queued(i, "redemption") : e.date = end
     /\ IF book[i].closed
        THEN /\ Queued(i, "coupon") = {} /\ Queued(i, "redemption") = {}
             /\ IsDue(end)
             /\ \E k \in DOMAIN journal : Booked(i, Redeemed) = {k} /\ journal[k].date = end
        ELSE Booked(i, Redeemed) = {} /\ (IsDue(end) => Queued(i, "redemption") # {})

LifeInv(i) ==
  IF Plan!Held(book[i]) THEN HeldOn(i) ELSE CouponsInv(i) /\ RedemptionInv(i)

StageInv ==
  /\ pc = "seed" => frame = Idle
  /\ pc = "done" => frame = Idle /\ queue = {}
  /\ frame # Idle =>
       /\ {"event", "amount", "f"} \subseteq DOMAIN frame
       /\ frame.event.date \in Int /\ frame.event.pos \in DOMAIN book

BodyInv ==
  /\ in \in Inputs
  /\ IsSeq(book) /\ IsSeq(journal)
  /\ \A i \in DOMAIN book : IsPosition(book[i]) /\ LifeInv(i)
  /\ \A k \in DOMAIN journal : journal[k].pos \in DOMAIN book
  /\ QueueInv

PlanInv == BodyInv /\ StageInv

-----------------------------------------------------------------------------
\* Of finitely many events one comes first.
LEMMA FirstIsFirst ==
  ASSUME QueueInv, queue # {}
  PROVE  /\ Plan!First \in queue
         /\ \A f \in queue \ {Plan!First} : Plan!Sooner(Plan!First, f)
<1> DEFINE HasFirst(S) == \E e \in S : \A f \in S \ {e} : Plan!Sooner(e, f)
           Bad == {S \in SUBSET queue : S # {} /\ ~HasFirst(S)}
<1>1. \A e \in queue : /\ e.date \in Int /\ e.seq \in Nat
                       /\ Plan!Priority(e.kind) \in 0 .. 2
  BY DEF QueueInv, IsEvent, Plan!Priority
<1>2. \A e, f \in queue : e # f => Plan!Sooner(e, f) \/ Plan!Sooner(f, e)
  <2>1. \A e, f \in queue : Plan!Priority(e.kind) = Plan!Priority(f.kind) => e.kind = f.kind
    BY DEF QueueInv, IsEvent, Plan!Priority
  <2>2. \A e, f \in queue : e # f => e.seq # f.seq \/ e.kind # f.kind \/ e.date # f.date
    BY DEF QueueInv
  <2> QED
    BY <1>1, <2>1, <2>2 DEF Plan!Sooner
<1>3. \A e, f, g \in queue :
        Plan!Sooner(e, f) /\ Plan!Sooner(f, g) => Plan!Sooner(e, g)
  BY <1>1 DEF Plan!Sooner
<1>4. Bad = {}
  <2> SUFFICES ASSUME Bad # {} PROVE FALSE
    OBVIOUS
  <2>1. Bad \subseteq FiniteSubsetsOf(queue)
    BY FS_FiniteSubsetsOfFinite DEF QueueInv
  <2>2. PICK S \in Bad : \A T \in Bad : ~(<<T, S>> \in StrictSubsetOrdering(queue))
    <3>1. IsWellFoundedOn(StrictSubsetOrdering(queue), FiniteSubsetsOf(queue))
      BY FS_StrictSubsetOrderingWellFounded
    <3> HIDE DEF Bad
    <3> QED
      BY <2>1, <3>1, WFMin
  <2>3. PICK x \in S : TRUE
    OBVIOUS
  <2>4. S \ {x} \notin Bad
    BY <2>2, <2>3 DEF StrictSubsetOrdering
  <2>5. CASE S \ {x} = {}
    BY <2>3, <2>5
  <2>6. CASE HasFirst(S \ {x})
    <3>1. PICK e \in S \ {x} : \A f \in (S \ {x}) \ {e} : Plan!Sooner(e, f)
      BY <2>6
    <3>2. CASE Plan!Sooner(e, x)
      <4>1. \A f \in S \ {e} : Plan!Sooner(e, f)
        BY <3>1, <3>2
      <4> QED
        BY <3>1, <4>1
    <3>3. CASE Plan!Sooner(x, e)
      <4>1. \A f \in S \ {x} : Plan!Sooner(x, f)
        BY <1>3, <2>3, <3>1, <3>3
      <4> QED
        BY <2>3, <4>1
    <3> QED
      BY <1>2, <2>3, <3>1, <3>2, <3>3
  <2> QED
    BY <2>4, <2>5, <2>6
<1>5. \E e \in queue : \A f \in queue \ {e} : Plan!Sooner(e, f)
  BY <1>4
<1> QED
  BY <1>5 DEF Plan!First

-----------------------------------------------------------------------------
(* Positions. *)

LEMMA RulesStand ==
  ASSUME in' = in
  PROVE  \A p : /\ Plan!EndDate(p)' = Plan!EndDate(p) /\ Plan!Held(p)' = Plan!Held(p)
                /\ Plan!CouponDates(p)' = Plan!CouponDates(p)
BY DEF Plan!EndDate, Plan!Held, Plan!PlansPutExit, Plan!SubmissionClosed, Plan!CouponDates

LEMMA EndIsDate ==
  ASSUME in \in Inputs, NEW p, IsPosition(p)
  PROVE  /\ in.horizon \in Int
         /\ Plan!EndDate(p) \in Int \cup {None}
         /\ ~Plan!Held(p) => Plan!EndDate(p) \in Int
         /\ Plan!CouponDates(p) \subseteq p.from + 1 .. Plan!EndDate(p)
<1>1. in.horizon \in Int
  BY PlanAssumption
<1>2. Plan!EndDate(p) \in Int \cup {None}
  BY <1>1 DEF IsPosition, HasDates, Plan!EndDate
<1>3. Plan!CouponDates(p) \subseteq p.from + 1 .. Plan!EndDate(p)
  BY DEF Plan!CouponDates
<1> QED
  BY <1>1, <1>2, <1>3 DEF Plan!Held

\* What a redemption closes is otherwise what it was.
LEMMA ClosedIsSame ==
  ASSUME NEW p, IsPosition(p)
  PROVE  LET q == [p EXCEPT !.closed = TRUE]
         IN /\ IsPosition(q) /\ q.closed /\ Plan!EndDate(q) = Plan!EndDate(p)
            /\ Plan!Held(q) = Plan!Held(p) /\ Plan!CouponDates(q) = Plan!CouponDates(p)
<1> DEFINE q == [p EXCEPT !.closed = TRUE]
<1>1. /\ DOMAIN q = DOMAIN p /\ q.bond = p.bond /\ q.decision = p.decision /\ q.from = p.from
      /\ q.closed
  BY DEF IsPosition
<1> HIDE DEF q
<1>2. /\ IsPosition(q) /\ Plan!EndDate(q) = Plan!EndDate(p)
      /\ Plan!CouponDates(q) = Plan!CouponDates(p)
  BY <1>1 DEF IsPosition, Plan!EndDate, Plan!PlansPutExit, Plan!SubmissionClosed,
              Plan!CouponDates
<1>3. Plan!Held(q) = Plan!Held(p)
  BY <1>2 DEF Plan!Held
<1> QED
  BY <1>1, <1>2, <1>3 DEF q

LEMMA KnownBond ==
  ASSUME in \in Inputs, NEW isin, Plan!Known(in, isin)
  PROVE  HasDates(Plan!BondOf(in, isin))
<1>1. \E k \in DOMAIN in.universe : in.universe[k].isin = isin
  BY DEF Plan!Known
<1>2. PICK k \in DOMAIN in.universe : Plan!BondOf(in, isin) = in.universe[k]
  BY <1>1 DEF Plan!BondOf
<1> QED
  BY <1>2, PlanAssumption

LEMMA BoughtIsPosition ==
  ASSUME NEW b, HasDates(b), NEW lots, NEW date \in Int, NEW generation
  PROVE  /\ IsPosition(Plan!Bought(b, lots, date, generation))
         /\ ~Plan!Bought(b, lots, date, generation).closed
<1> DEFINE o == IF b.offer # None /\ b.offer.date >= date /\ ~Plan!BuyBlocked(b, date)
                THEN b.offer ELSE None
           c == [b EXCEPT !.offer = o]
           p == [bond |-> c, lots |-> lots, cost |-> b.lot, from |-> date,
                 decision |-> "pending", generation |-> generation, closed |-> FALSE]
<1>1. Plan!Bought(b, lots, date, generation) = p
  BY DEF Plan!Bought
<1>2. o = None \/ o = b.offer
  OBVIOUS
<1> HIDE DEF o
<1>3. HasDates(c)
  BY <1>2 DEF HasDates
<1> HIDE DEF c
<1>4. IsPosition(p) /\ ~p.closed
  BY <1>3 DEF IsPosition
<1> QED
  BY <1>1, <1>4

LEMMA SyncedIsPosition ==
  ASSUME in \in Inputs, NEW p, IsPosition(p), ~p.closed
  PROVE  IsPosition(Plan!Synced(p)) /\ ~Plan!Synced(p).closed
<1>1. CASE ~Plan!Known(in, p.bond.isin)
  BY <1>1 DEF Plan!Synced
<1>2. CASE Plan!Known(in, p.bond.isin)
  <2> DEFINE b == Plan!BondOf(in, p.bond.isin)
         offered == b.offer # None /\ b.offer.date >= p.from
         moved == p.bond.offer = None \/ p.bond.offer.date # b.offer.date
         co == IF b.coupon > 0 THEN b.coupon ELSE p.bond.coupon
         pe == IF b.period > 0 THEN b.period ELSE p.bond.period
         ne == IF b.next # None THEN b.next ELSE p.bond.next
         of == IF offered THEN b.offer ELSE p.bond.offer
         de == IF offered /\ moved THEN "pending" ELSE p.decision
         s == Plan!Synced(p)
  <2>1. HasDates(b)
    BY <1>2, KnownBond
  <2>2. /\ s = [p EXCEPT !.bond.coupon = co, !.bond.period = pe, !.bond.next = ne,
                         !.bond.offer = of, !.decision = de]
        /\ of = b.offer \/ of = p.bond.offer
    <3>1. s = [p EXCEPT !.bond.coupon = IF b.coupon > 0 THEN b.coupon ELSE @,
                        !.bond.period = IF b.period > 0 THEN b.period ELSE @,
                        !.bond.next = IF b.next # None THEN b.next ELSE @,
                        !.bond.offer = IF offered THEN b.offer ELSE @,
                        !.decision = IF offered /\ moved THEN "pending" ELSE @]
      BY <1>2, Zenon DEF Plan!Synced
    <3> HIDE DEF b
    <3>2. of = b.offer \/ of = p.bond.offer
      OBVIOUS
    <3> HIDE DEF offered, moved
    <3>3. s = [p EXCEPT !.bond.coupon = co, !.bond.period = pe, !.bond.next = ne,
                        !.bond.offer = of, !.decision = de]
      BY <3>1 DEF IsPosition, HasDates
    <3> QED
      BY <3>2, <3>3
  <2> HIDE DEF b, offered, moved, co, pe, ne, of, de
  <2> HIDE DEF s
  <2>3. /\ DOMAIN s = DOMAIN p /\ s.from = p.from /\ s.closed = p.closed
        /\ DOMAIN s.bond = DOMAIN p.bond /\ s.bond.maturity = p.bond.maturity
        /\ s.bond.offer = of
    BY <2>2 DEF IsPosition, HasDates
  <2>4. HasDates(s.bond)
    BY <2>1, <2>2, <2>3 DEF IsPosition, HasDates
  <2> QED
    BY <2>3, <2>4 DEF IsPosition, s
<1> QED
  BY <1>1, <1>2

\* The events of a new position.
LEMMA LifecycleEvents ==
  ASSUME in \in Inputs, NEW p, IsPosition(p), ~Plan!Held(p), NEW i, NEW n \in Nat
  PROVE  LET L == Plan!Lifecycle(i, p, n)
         IN /\ IsFiniteSet(L)
            /\ \A e \in L : /\ e.pos = i /\ e.seq = n /\ e.date \in Int
                            /\ \/ e.kind = "coupon" /\ e.date \in Plan!CouponDates(p)
                               \/ e.kind = "redemption" /\ e.date = Plan!EndDate(p)
            /\ \A d \in Plan!CouponDates(p) : \E e \in L : e.kind = "coupon" /\ e.date = d
            /\ \E e \in L : e.kind = "redemption"
            /\ \A e, f \in L : e.kind = f.kind /\ e.date = f.date => e = f
<1> DEFINE due == Plan!CouponDates(p)
           coupon == [d \in due |-> [date |-> d, kind |-> "coupon", pos |-> i, seq |-> n]]
           T == {coupon[d] : d \in due}
           r == [date |-> Plan!EndDate(p), kind |-> "redemption", pos |-> i, seq |-> n]
<1>1. Plan!Lifecycle(i, p, n) = T \cup {r}
  BY DEF Plan!Lifecycle
<1>2. Plan!EndDate(p) \in Int /\ due \subseteq Int /\ IsFiniteSet(due)
  <2>1. Plan!EndDate(p) \in Int /\ p.from + 1 \in Int /\ due \subseteq p.from + 1 .. Plan!EndDate(p)
    BY EndIsDate DEF IsPosition
  <2>2. IsFiniteSet(p.from + 1 .. Plan!EndDate(p))
    BY <2>1, FS_Interval
  <2>3. IsFiniteSet(due)
    BY <2>1, <2>2, FS_Subset
  <2> QED
    BY <2>1, <2>3
<1>3. IsFiniteSet(T \cup {r})
  <2>1. coupon \in Surjection(due, T)
    BY DEF Surjection
  <2>2. IsFiniteSet(T)
    BY <1>2, <2>1, FS_Surjection
  <2> QED
    BY <2>2, FS_AddElement
<1>4. \A d \in due : coupon[d] \in T /\ coupon[d].kind = "coupon" /\ coupon[d].date = d
                     /\ coupon[d].pos = i /\ coupon[d].seq = n
  OBVIOUS
<1>5. r.kind = "redemption" /\ r.date = Plan!EndDate(p) /\ r.pos = i /\ r.seq = n
  OBVIOUS
<1> HIDE DEF due, coupon, r
<1>6. \A e \in T \cup {r} :
        /\ e.pos = i /\ e.seq = n /\ e.date \in Int
        /\ \/ e.kind = "coupon" /\ e.date \in due
           \/ e.kind = "redemption" /\ e.date = Plan!EndDate(p)
  BY <1>2, <1>4, <1>5
<1>7. \A e, f \in T \cup {r} : e.kind = f.kind /\ e.date = f.date => e = f
  BY <1>4, <1>5
<1>8. (\A d \in due : \E e \in T \cup {r} : e.kind = "coupon" /\ e.date = d)
        /\ \E e \in T \cup {r} : e.kind = "redemption"
  BY <1>4, <1>5
<1> QED
  BY <1>1, <1>3, <1>6, <1>7, <1>8 DEF due

-----------------------------------------------------------------------------
(* What a step does to the book, the journal and the queue. *)

\* A step that has nothing to do with position i.
LEMMA LifeRests ==
  ASSUME NEW i \in DOMAIN book, LifeInv(i), in' = in, book'[i] = book[i],
         \A k \in DOMAIN journal : k \in DOMAIN journal' /\ journal'[k] = journal[k],
         \A k \in DOMAIN journal' \ DOMAIN journal :
           journal'[k].pos # i \/ journal'[k].kind \notin Redeemed \cup {"coupon"},
         \A kind \in {"coupon", "redemption"} : Queued(i, kind)' = Queued(i, kind)
  PROVE  LifeInv(i)'
<1>1. /\ Booked(i, Redeemed)' = Booked(i, Redeemed)
      /\ Booked(i, {"coupon"})' = Booked(i, {"coupon"})
  BY DEF Booked, Redeemed
<1>2. PaidOn(i)' = PaidOn(i)
  BY <1>1 DEF PaidOn, Booked
<1>3. /\ Queued(i, "coupon")' = Queued(i, "coupon")
      /\ Queued(i, "redemption")' = Queued(i, "redemption")
  OBVIOUS
<1>4. \A d : IsDue(d)' = IsDue(d)
  BY DEF IsDue
<1>5. /\ Plan!Held(book[i])' = Plan!Held(book[i])
      /\ Plan!EndDate(book[i])' = Plan!EndDate(book[i])
      /\ Plan!CouponDates(book[i])' = Plan!CouponDates(book[i])
  BY RulesStand
<1>6. HeldOn(i) => HeldOn(i)'
  BY <1>1, <1>3 DEF HeldOn
<1>7. CouponsInv(i) => CouponsInv(i)'
  BY <1>2, <1>3, <1>4, <1>5 DEF CouponsInv
<1>8. RedemptionInv(i) => RedemptionInv(i)'
  <2>1. (\E k \in DOMAIN journal : Booked(i, Redeemed) = {k} /\ journal[k].date = Plan!EndDate(book[i]))
          => \E k \in DOMAIN journal' :
               Booked(i, Redeemed)' = {k} /\ journal'[k].date = Plan!EndDate(book[i])'
    BY <1>1, <1>5
  <2> QED
    BY <1>1, <1>3, <1>4, <1>5, <2>1 DEF RedemptionInv
<1> QED
  BY <1>5, <1>6, <1>7, <1>8 DEF LifeInv

LEMMA RestKeeps ==
  ASSUME BodyInv, UNCHANGED <<in, book, queue, journal, seq>>
  PROVE  BodyInv'
<1>1. \A i \in DOMAIN book : LifeInv(i)'
  <2> SUFFICES ASSUME NEW i \in DOMAIN book PROVE LifeInv(i)'
    OBVIOUS
  <2>1. \A kind \in {"coupon", "redemption"} : Queued(i, kind)' = Queued(i, kind)
    BY DEF Queued
  <2> QED
    BY <2>1, LifeRests DEF BodyInv
<1>2. QueueInv'
  BY DEF BodyInv, QueueInv, IsEvent
<1> QED
  BY <1>1, <1>2 DEF BodyInv

\* A position is opened, with its events if it ends by the horizon.
LEMMA OpenKeeps ==
  ASSUME BodyInv, NEW p, IsPosition(p), ~p.closed, Plan!Open(p), in' = in,
         NEW n, n = Len(book) + 1, NEW x,
         journal' = journal
           \/ (journal' = Append(journal, x) /\ x.pos = n /\ x.kind = "purchase")
  PROVE  BodyInv'
<1>0. IsSeq(book) /\ IsSeq(journal) /\ QueueInv /\ in \in Inputs
  BY DEF BodyInv
<1>1. /\ IsSeq(book') /\ n \in Nat /\ DOMAIN book' = DOMAIN book \cup {n} /\ n \notin DOMAIN book
      /\ book'[n] = p /\ \A i \in DOMAIN book : book'[i] = book[i]
  BY <1>0, Appended DEF Plan!Open
<1>2. /\ IsSeq(journal')
      /\ \A k \in DOMAIN journal : k \in DOMAIN journal' /\ journal'[k] = journal[k]
      /\ \A k \in DOMAIN journal' \ DOMAIN journal :
           journal'[k].pos = n /\ journal'[k].kind = "purchase"
  <2>1. CASE journal' = journal
    BY <1>0, <2>1
  <2>2. CASE journal' = Append(journal, x) /\ x.pos = n /\ x.kind = "purchase"
    BY <1>0, <2>2, Appended
  <2> QED
    BY <2>1, <2>2
<1>3. PICK L : /\ queue' = queue \cup L
               /\ IF Plan!Held(p) THEN L = {} ELSE L = Plan!Lifecycle(n, p, seq)
  <2>1. CASE Plan!Held(p)
    <3>1. queue' = queue \cup {}
      BY <2>1 DEF Plan!Open
    <3> QED
      BY <2>1, <3>1
  <2>2. CASE ~Plan!Held(p)
    BY <2>2 DEF Plan!Open
  <2> QED
    BY <2>1, <2>2
<1>4. /\ IsFiniteSet(L)
      /\ \A e \in L : /\ e.pos = n /\ e.seq = seq /\ e.date \in Int /\ ~Plan!Held(p)
                      /\ \/ e.kind = "coupon" /\ e.date \in Plan!CouponDates(p)
                         \/ e.kind = "redemption" /\ e.date = Plan!EndDate(p)
      /\ ~Plan!Held(p) =>
           /\ \A d \in Plan!CouponDates(p) : \E e \in L : e.kind = "coupon" /\ e.date = d
           /\ \E e \in L : e.kind = "redemption"
      /\ \A e, f \in L : e.kind = f.kind /\ e.date = f.date => e = f
  <2>1. CASE Plan!Held(p)
    BY <1>3, <2>1, FS_EmptySet
  <2>2. CASE ~Plan!Held(p)
    <3>1. seq \in Nat
      BY <1>0 DEF QueueInv
    <3> QED
      BY <1>0, <1>3, <2>2, <3>1, LifecycleEvents
  <2> QED
    BY <2>1, <2>2
<1>5. seq \in Nat /\ seq' = seq + 1
  BY <1>0 DEF QueueInv, Plan!Open
<1>6. QueueInv'
  <2>1. IsFiniteSet(queue')
    BY <1>0, <1>3, <1>4, FS_Union DEF QueueInv
  <2>2. \A e \in queue : e.seq \in Nat /\ e.seq < seq /\ e.pos \in DOMAIN book
    BY <1>0 DEF QueueInv, IsEvent
  <2>3. \A e \in queue' : IsEvent(e)'
    <3>1. \A e \in queue : IsEvent(e)'
      BY <1>0, <1>1, <1>5, <2>2 DEF QueueInv, IsEvent
    <3>2. \A e \in L : IsEvent(e)'
      BY <1>1, <1>4, <1>5 DEF IsEvent
    <3> QED
      BY <1>3, <3>1, <3>2
  <2>4. \A e \in queue, f \in L : e.seq # f.seq /\ e.pos # f.pos
    BY <1>1, <1>4, <1>5, <2>2
  <2>5. \A e, f \in queue' : e.seq = f.seq /\ e.kind = f.kind /\ e.date = f.date => e = f
    BY <1>0, <1>3, <1>4, <2>4 DEF QueueInv
  <2>6. \A e, f \in queue' :
          e.pos = f.pos /\ e.kind # "deploy" /\ f.kind # "deploy" => e.seq = f.seq
    BY <1>0, <1>3, <1>4, <2>4 DEF QueueInv
  <2> QED
    BY <1>5, <2>1, <2>3, <2>5, <2>6 DEF QueueInv
<1>7. \A k \in DOMAIN journal : journal[k].pos \in DOMAIN book
  BY DEF BodyInv
<1>8. ASSUME NEW i \in DOMAIN book PROVE LifeInv(i)'
  <2>1. i # n /\ LifeInv(i)
    BY <1>1 DEF BodyInv
  <2>2. \A kind \in {"coupon", "redemption"} : Queued(i, kind)' = Queued(i, kind)
    BY <1>3, <1>4, <2>1 DEF Queued
  <2> QED
    BY <1>1, <1>2, <2>1, <2>2, LifeRests
<1>9. LifeInv(n)'
  <2>1. Booked(n, Redeemed)' = {} /\ Booked(n, {"coupon"})' = {}
    BY <1>1, <1>2, <1>7 DEF Booked, Redeemed
  <2>2. \A kind \in {"coupon", "redemption"} : Queued(n, kind)' = {e \in L : e.kind = kind}
    BY <1>0, <1>1, <1>3, <1>4 DEF Queued, QueueInv, IsEvent
  <2>3. /\ Plan!Held(p)' = Plan!Held(p) /\ Plan!EndDate(p)' = Plan!EndDate(p)
        /\ Plan!CouponDates(p)' = Plan!CouponDates(p)
    BY RulesStand
  <2>4. CASE Plan!Held(p)
    <3>1. HeldOn(n)'
      BY <1>1, <1>3, <2>1, <2>2, <2>4 DEF HeldOn
    <3> QED
      BY <1>1, <2>3, <2>4, <3>1 DEF LifeInv
  <2>5. CASE ~Plan!Held(p)
    <3>1. PaidOn(n)' = {}
      BY <2>1 DEF PaidOn
    <3>2. {e.date : e \in Queued(n, "coupon")'} = Plan!CouponDates(p)
      BY <1>4, <2>2, <2>5
    <3>3. CouponsInv(n)'
      BY <1>1, <2>3, <3>1, <3>2 DEF CouponsInv
    <3>4. RedemptionInv(n)'
      BY <1>1, <1>4, <2>1, <2>2, <2>3, <2>5 DEF RedemptionInv
    <3> QED
      BY <1>1, <2>3, <2>5, <3>3, <3>4 DEF LifeInv
  <2> QED
    BY <2>4, <2>5
<1>10. \A i \in DOMAIN book' : IsPosition(book'[i]) /\ LifeInv(i)'
  BY <1>1, <1>8, <1>9 DEF BodyInv
<1>11. \A k \in DOMAIN journal' : journal'[k].pos \in DOMAIN book'
  BY <1>1, <1>2, <1>7
<1> QED
  BY <1>0, <1>1, <1>2, <1>6, <1>10, <1>11 DEF BodyInv

LEMMA QueueShrinks ==
  ASSUME QueueInv, NEW e \in queue, queue' = queue \ {e}, seq' = seq,
         DOMAIN book' = DOMAIN book
  PROVE  QueueInv'
<1>1. IsFiniteSet(queue')
  BY FS_RemoveElement DEF QueueInv
<1> QED
  BY <1>1 DEF QueueInv, IsEvent

\* An event that pays nothing is taken: a deployment, or one of an account's past.
LEMMA DropKeeps ==
  ASSUME BodyInv, NEW e \in queue, queue' = queue \ {e},
         UNCHANGED <<in, book, journal, seq>>, e.kind = "deploy" \/ ~IsDue(e.date)
  PROVE  BodyInv'
<1>1. QueueInv'
  BY QueueShrinks DEF BodyInv
<1>2. ASSUME NEW i \in DOMAIN book PROVE LifeInv(i)'
  <2>0. LifeInv(i)
    BY DEF BodyInv
  <2>1. \A kind : Queued(i, kind)' = Queued(i, kind) \ {e}
    BY DEF Queued
  <2>2. /\ Plan!Held(book[i])' = Plan!Held(book[i])
        /\ Plan!EndDate(book[i])' = Plan!EndDate(book[i])
        /\ Plan!CouponDates(book[i])' = Plan!CouponDates(book[i])
    BY RulesStand
  <2>3. /\ Booked(i, Redeemed)' = Booked(i, Redeemed)
        /\ Booked(i, {"coupon"})' = Booked(i, {"coupon"}) /\ PaidOn(i)' = PaidOn(i)
    BY DEF Booked, Redeemed, PaidOn
  <2>4. \A d : IsDue(d)' = IsDue(d)
    BY DEF IsDue
  <2>5. CASE Plan!Held(book[i])
    <3>1. HeldOn(i)'
      BY <2>0, <2>1, <2>3, <2>5 DEF LifeInv, HeldOn
    <3> QED
      BY <2>2, <2>5, <3>1 DEF LifeInv
  <2>6. CASE ~Plan!Held(book[i])
    <3>1. \A f \in Queued(i, "coupon") : f \in Queued(i, "coupon")' \/ ~IsDue(f.date)
      BY <2>1 DEF Queued
    <3>2. CouponsInv(i)'
      BY <2>0, <2>1, <2>2, <2>3, <2>4, <2>6, <3>1 DEF LifeInv, CouponsInv
    <3>3. \A f \in Queued(i, "redemption") : f \in Queued(i, "redemption")' \/ ~IsDue(f.date)
      BY <2>1 DEF Queued
    <3>4. RedemptionInv(i)'
      BY <2>0, <2>1, <2>2, <2>3, <2>4, <2>6, <3>3 DEF LifeInv, RedemptionInv
    <3> QED
      BY <2>2, <2>6, <3>2, <3>4 DEF LifeInv
  <2> QED
    BY <2>5, <2>6
<1> QED
  BY <1>1, <1>2 DEF BodyInv

\* A coupon event of i says that i is open and ends by the horizon.
LEMMA EventOfOpen ==
  ASSUME BodyInv, NEW e \in queue, e.kind \in {"coupon", "redemption"}
  PROVE  /\ e.pos \in DOMAIN book /\ ~Plan!Held(book[e.pos]) /\ ~book[e.pos].closed
         /\ e.kind = "coupon" => e.date \in Plan!CouponDates(book[e.pos])
         /\ e.kind = "redemption" => e.date = Plan!EndDate(book[e.pos])
<1>1. e.pos \in DOMAIN book /\ LifeInv(e.pos)
  BY DEF BodyInv, QueueInv, IsEvent
<1>2. e \in Queued(e.pos, e.kind)
  BY DEF Queued
<1>3. ~Plan!Held(book[e.pos])
  BY <1>1, <1>2 DEF LifeInv, HeldOn
<1> QED
  BY <1>1, <1>2, <1>3 DEF LifeInv, CouponsInv, RedemptionInv

\* A coupon is paid on its day.
LEMMA CouponKeeps ==
  ASSUME BodyInv, NEW e \in queue, e.kind = "coupon", IsDue(e.date),
         queue' = queue \ {e}, UNCHANGED <<in, book, seq>>,
         NEW x, journal' = Append(journal, x), x.pos = e.pos, x.kind = "coupon", x.date = e.date
  PROVE  BodyInv'
<1>0. IsSeq(journal) /\ QueueInv
  BY DEF BodyInv
<1>1. PICK n : n = Len(journal) + 1
  OBVIOUS
<1>2. /\ IsSeq(journal') /\ DOMAIN journal' = DOMAIN journal \cup {n} /\ n \notin DOMAIN journal
      /\ journal'[n] = x /\ \A k \in DOMAIN journal : journal'[k] = journal[k]
  BY <1>0, <1>1, Appended
<1>3. QueueInv'
  BY <1>0, QueueShrinks
<1>4. /\ e.pos \in DOMAIN book /\ ~Plan!Held(book[e.pos]) /\ ~book[e.pos].closed
      /\ e.date \in Plan!CouponDates(book[e.pos])
  BY EventOfOpen
<1>5. ASSUME NEW i \in DOMAIN book, i # e.pos PROVE LifeInv(i)'
  <2>1. LifeInv(i) /\ \A kind : Queued(i, kind)' = Queued(i, kind)
    BY <1>5 DEF BodyInv, Queued
  <2> QED
    BY <1>2, <1>5, <2>1, LifeRests
<1>6. ASSUME NEW i, i = e.pos PROVE LifeInv(i)'
  <2>0. i \in DOMAIN book /\ CouponsInv(i) /\ RedemptionInv(i)
    BY <1>4, <1>6 DEF BodyInv, LifeInv
  <2>1. /\ Plan!Held(book[i])' = Plan!Held(book[i])
        /\ Plan!EndDate(book[i])' = Plan!EndDate(book[i])
        /\ Plan!CouponDates(book[i])' = Plan!CouponDates(book[i])
    BY RulesStand
  <2>2. \A d : IsDue(d)' = IsDue(d)
    BY DEF IsDue
  <2>3. /\ Booked(i, Redeemed)' = Booked(i, Redeemed)
        /\ Booked(i, {"coupon"})' = Booked(i, {"coupon"}) \cup {n}
    BY <1>2, <1>6 DEF Booked, Redeemed
  <2>4. PaidOn(i)' = PaidOn(i) \cup {e.date}
    BY <1>2, <2>3 DEF PaidOn, Booked
  <2>5. /\ Queued(i, "redemption")' = Queued(i, "redemption")
        /\ Queued(i, "coupon")' = Queued(i, "coupon") \ {e}
    BY DEF Queued
  <2>6. CouponsInv(i)'
    BY <1>4, <1>6, <2>0, <2>1, <2>2, <2>4, <2>5 DEF CouponsInv
  <2>7. RedemptionInv(i)'
    BY <1>4, <1>6, <2>0, <2>1, <2>2, <2>3, <2>5 DEF RedemptionInv
  <2> QED
    BY <1>4, <1>6, <2>1, <2>6, <2>7 DEF LifeInv
<1>7. \A k \in DOMAIN journal' : journal'[k].pos \in DOMAIN book
  BY <1>2, <1>4 DEF BodyInv
<1> QED
  BY <1>2, <1>3, <1>5, <1>6, <1>7 DEF BodyInv

\* A position is redeemed, after its coupons, and a deployment may be scheduled.
LEMMA RedeemKeeps ==
  ASSUME BodyInv, queue # {}, NEW e, e = Plan!First, e.kind = "redemption", IsDue(e.date),
         NEW new \in BOOLEAN, NEW event, event.kind = "deploy", event.pos = e.pos,
         event.seq = seq, event.date \in Int,
         queue' = (queue \ {e}) \cup (IF new THEN {event} ELSE {}),
         seq' = IF new THEN seq + 1 ELSE seq,
         in' = in, book' = [book EXCEPT ![e.pos].closed = TRUE],
         NEW x, journal' = Append(journal, x), x.pos = e.pos, x.kind \in Redeemed, x.date = e.date
  PROVE  BodyInv'
<1>0. IsSeq(book) /\ IsSeq(journal) /\ QueueInv /\ in \in Inputs
  BY DEF BodyInv
<1>1. PICK n : n = Len(journal) + 1
  OBVIOUS
<1>2. /\ IsSeq(journal') /\ DOMAIN journal' = DOMAIN journal \cup {n} /\ n \notin DOMAIN journal
      /\ journal'[n] = x /\ \A k \in DOMAIN journal : journal'[k] = journal[k]
  BY <1>0, <1>1, Appended
<1>3. e \in queue /\ \A f \in queue \ {e} : Plan!Sooner(e, f)
  BY <1>0, FirstIsFirst
<1>4. /\ e.pos \in DOMAIN book /\ ~Plan!Held(book[e.pos]) /\ ~book[e.pos].closed
      /\ e.date = Plan!EndDate(book[e.pos]) /\ IsPosition(book[e.pos])
  BY <1>3, EventOfOpen DEF BodyInv
<1>5. PICK q : q = [book[e.pos] EXCEPT !.closed = TRUE]
  OBVIOUS
<1>6. /\ IsPosition(q) /\ q.closed /\ Plan!EndDate(q) = Plan!EndDate(book[e.pos])
      /\ ~Plan!Held(q) /\ Plan!CouponDates(q) = Plan!CouponDates(book[e.pos])
  BY <1>4, <1>5, ClosedIsSame
<1>7. /\ DOMAIN book' = DOMAIN book /\ book'[e.pos] = q
      /\ \A i \in DOMAIN book : i # e.pos => book'[i] = book[i]
  BY <1>4, <1>5
<1>8. IsSeq(book')
  <2>1. Len(book) \in Nat /\ DOMAIN book = 1 .. Len(book)
    BY <1>0, Appended
  <2>2. book' = [i \in 1 .. Len(book) |-> book'[i]]
    BY <2>1
  <2> QED
    BY ONLY <2>1, <2>2, FunctionIsSeq
<1>9. QueueInv'
  <2>1. IsFiniteSet(queue')
    <3>1. IsFiniteSet(queue \ {e}) /\ IsFiniteSet((queue \ {e}) \cup {event})
      BY <1>0, FS_RemoveElement, FS_AddElement DEF QueueInv
    <3> QED
      BY <3>1
  <2>2. seq \in Nat /\ seq' \in Nat /\ seq' >= seq /\ (new => seq' = seq + 1)
    BY <1>0 DEF QueueInv
  <2>3. \A f \in queue : f.seq \in Nat /\ f.seq < seq
    BY <1>0 DEF QueueInv, IsEvent
  <2>4. \A f \in queue' : f \in queue \/ (f = event /\ new)
    OBVIOUS
  <2>5. \A f \in queue : f.seq # event.seq
    BY <2>2, <2>3
  <2>6. \A f \in queue' : IsEvent(f)'
    <3>1. \A f \in queue : IsEvent(f)'
      BY <1>0, <1>7, <2>2, <2>3 DEF QueueInv, IsEvent
    <3>2. new => IsEvent(event)'
      BY <1>4, <1>7, <2>2 DEF IsEvent
    <3> QED
      BY <2>4, <3>1, <3>2
  <2>7. \A f, g \in queue' : f.seq = g.seq /\ f.kind = g.kind /\ f.date = g.date => f = g
    BY <1>0, <2>4, <2>5 DEF QueueInv
  <2>8. \A f, g \in queue' :
          f.pos = g.pos /\ f.kind # "deploy" /\ g.kind # "deploy" => f.seq = g.seq
    BY <1>0, <2>4 DEF QueueInv
  <2> QED
    BY <2>1, <2>2, <2>6, <2>7, <2>8 DEF QueueInv
<1>10. \A i, kind : kind # "deploy" => Queued(i, kind)' = Queued(i, kind) \ {e}
  BY DEF Queued
<1>11. ASSUME NEW i \in DOMAIN book, i # e.pos PROVE LifeInv(i)'
  <2>1. LifeInv(i)
    BY DEF BodyInv
  <2>2. \A kind \in {"coupon", "redemption"} : Queued(i, kind)' = Queued(i, kind)
    BY <1>10, <1>11 DEF Queued
  <2> QED
    BY <1>2, <1>7, <1>11, <2>1, <2>2, LifeRests
<1>12. ASSUME NEW i, i = e.pos PROVE LifeInv(i)'
  <2>0. i \in DOMAIN book /\ CouponsInv(i) /\ RedemptionInv(i)
    BY <1>4, <1>12 DEF BodyInv, LifeInv
  <2>1. /\ Plan!Held(q)' = Plan!Held(q) /\ Plan!EndDate(q)' = Plan!EndDate(q)
        /\ Plan!CouponDates(q)' = Plan!CouponDates(q)
    BY RulesStand
  <2>2. \A d : IsDue(d)' = IsDue(d)
    BY DEF IsDue
  <2>3. /\ Booked(i, Redeemed)' = {n}
        /\ Booked(i, {"coupon"})' = Booked(i, {"coupon"})
    <3>1. Booked(i, Redeemed) = {}
      BY <1>4, <1>12, <2>0 DEF RedemptionInv
    <3> QED
      BY <1>2, <1>12, <3>1 DEF Booked, Redeemed
  <2>4. PaidOn(i)' = PaidOn(i)
    BY <1>2, <2>3 DEF PaidOn, Booked
  <2>5. Queued(i, "redemption") = {e}
    <3>1. \A f \in Queued(i, "redemption") : f = e
      BY <1>0, <1>3, <1>4, <1>12, <2>0 DEF QueueInv, Queued, RedemptionInv
    <3> QED
      BY <1>3, <1>12, <3>1 DEF Queued
  <2>6. Queued(i, "coupon") = {}
    <3> SUFFICES ASSUME NEW f \in Queued(i, "coupon") PROVE FALSE
      OBVIOUS
    <3>1. f \in queue /\ f.kind = "coupon" /\ f.date \in Plan!CouponDates(book[e.pos])
      BY <1>12, EventOfOpen DEF Queued
    <3>2. f.date <= e.date /\ f.date \in Int /\ e.date \in Int
      BY <1>0, <1>3, <1>4, <3>1, EndIsDate DEF QueueInv, IsEvent
    <3>3. Plan!Sooner(e, f)
      BY <1>3, <3>1
    <3> QED
      BY <3>1, <3>2, <3>3 DEF Plan!Sooner, Plan!Priority
  <2>7. Queued(i, "coupon")' = {} /\ Queued(i, "redemption")' = {}
    BY <1>10, <2>5, <2>6
  <2>10. /\ Plan!EndDate(book[i])' = Plan!EndDate(book[i])
         /\ Plan!CouponDates(book[i])' = Plan!CouponDates(book[i])
         /\ ~Plan!Held(book[i])' /\ book'[i].closed
    <3>1. book'[i] = q
      BY <1>7, <1>12
    <3>2. /\ Plan!EndDate(book[i])' = Plan!EndDate(q)'
          /\ Plan!CouponDates(book[i])' = Plan!CouponDates(q)'
          /\ Plan!Held(book[i])' = Plan!Held(q)'
      BY <3>1
    <3> QED
      BY <1>6, <1>12, <2>1, <3>1, <3>2
  <2>8. CouponsInv(i)'
    <3>1. /\ PaidOn(i) \subseteq {d \in Plan!CouponDates(book[i]) : IsDue(d)}
          /\ {d \in Plan!CouponDates(book[i]) : IsDue(d)} \subseteq PaidOn(i)
      BY <2>0, <2>6 DEF CouponsInv
    <3> QED
      BY <2>2, <2>4, <2>7, <2>10, <3>1 DEF CouponsInv
  <2>9. RedemptionInv(i)'
    <3>1. /\ n \in DOMAIN journal'
          /\ journal'[n].date = Plan!EndDate(book[i])'
          /\ IsDue(Plan!EndDate(book[i]))'
      BY <1>2, <1>4, <1>12, <2>10 DEF IsDue
    <3> QED
      BY <2>3, <2>7, <2>10, <3>1 DEF RedemptionInv
  <2> QED
    BY <2>8, <2>9, <2>10 DEF LifeInv
<1>13. \A k \in DOMAIN journal' : journal'[k].pos \in DOMAIN book
  BY <1>2, <1>4 DEF BodyInv
<1>14. \A i \in DOMAIN book' : IsPosition(book'[i]) /\ LifeInv(i)'
  BY <1>6, <1>7, <1>11, <1>12 DEF BodyInv
<1> QED
  BY <1>0, <1>2, <1>7, <1>8, <1>9, <1>13, <1>14 DEF BodyInv

-----------------------------------------------------------------------------
LEMMA PlanBegins == Plan!Init => PlanInv
<1> SUFFICES ASSUME Plan!Init PROVE PlanInv
  OBVIOUS
<1>1. book = <<>> /\ journal = <<>> /\ queue = {} /\ seq = 0 /\ frame = Idle /\ in \in Inputs
      /\ pc = "seed"
  BY DEF Plan!Init
<1>2. IsSeq(book) /\ IsSeq(journal) /\ DOMAIN book = {} /\ DOMAIN journal = {}
  BY <1>1 DEF IsSeq
<1>3. QueueInv
  BY <1>1, FS_EmptySet DEF QueueInv
<1> QED
  BY <1>1, <1>2, <1>3 DEF PlanInv, BodyInv, StageInv

\* The kinds of entries, as the steps of the model make them.
LEMMA EntryFields ==
  ASSUME NEW date, NEW kind, NEW pos, NEW amount, NEW x, x = Plan!Entry(date, kind, pos, amount)
  PROVE  x.date = date /\ x.kind = kind /\ x.pos = pos
BY DEF Plan!Entry

LEMMA SeedKeeps ==
  ASSUME PlanInv, Plan!Seed
  PROVE  PlanInv'
<1>0. BodyInv /\ StageInv
  BY DEF PlanInv
<1>1. PICK n : n = Len(book) + 1
  OBVIOUS
<1>2. PICK p : p = Plan!Synced(in.seeds[n])
  OBVIOUS
<1>3. n \in DOMAIN in.seeds
  <2>1. Len(book) \in Nat
    BY <1>0, Appended DEF BodyInv
  <2>2. in.seeds \in Seq({in.seeds[k] : k \in DOMAIN in.seeds})
    BY <1>0, PlanAssumption DEF BodyInv
  <2>3. Len(book) < Len(in.seeds)
    BY DEF Plan!Seed
  <2>4. Len(in.seeds) \in Nat /\ DOMAIN in.seeds = 1 .. Len(in.seeds)
    BY <2>2
  <2> QED
    BY <1>1, <2>1, <2>3, <2>4
<1>4. IsPosition(p) /\ ~p.closed
  <2>1. IsPosition(in.seeds[n]) /\ ~in.seeds[n].closed
    BY <1>0, <1>3, PlanAssumption DEF BodyInv
  <2> QED
    BY <1>0, <1>2, <2>1, SyncedIsPosition DEF BodyInv
<1>5. PICK x : x = Plan!Entry(p.from, "purchase", n, -p.lots * p.cost)
  OBVIOUS
<1>6. Plan!Open(p) /\ in' = in /\ pc' = pc /\ frame' = frame /\ pc = "seed"
      /\ (journal' = journal \/ journal' = Append(journal, x))
  BY <1>1, <1>2, <1>5 DEF Plan!Seed, Plan!Record
<1>7. BodyInv'
  BY <1>0, <1>1, <1>4, <1>5, <1>6, EntryFields, OpenKeeps
<1> QED
  BY <1>0, <1>6, <1>7 DEF PlanInv, StageInv

\* Nothing is opened, paid or ended.
LEMMA QuietKeeps ==
  ASSUME PlanInv, UNCHANGED <<in, book, queue, journal, seq>>,
         \/ pc' = pc /\ frame' = frame
         \/ Plan!Start
         \/ Plan!DeployIteration
         \/ Plan!DeployEnd
         \/ Plan!Finish
  PROVE  PlanInv'
<1>0. BodyInv /\ StageInv
  BY DEF PlanInv
<1>1. BodyInv'
  BY <1>0, RestKeeps
<1>2. book' = book /\ queue' = queue
  OBVIOUS
<1>3. CASE pc' = pc /\ frame' = frame
  BY <1>0, <1>1, <1>2, <1>3 DEF StageInv, PlanInv
<1>4. CASE Plan!Start
  <2>1. pc' = "run" /\ frame' = frame
    BY <1>4 DEF Plan!Start
  <2> QED
    BY <1>0, <1>1, <1>2, <2>1 DEF StageInv, PlanInv
<1>5. CASE Plan!DeployEnd
  <2>1. pc' = pc /\ frame' = Idle
    BY <1>5 DEF Plan!DeployEnd
  <2> QED
    BY <1>0, <1>1, <1>2, <2>1 DEF StageInv, PlanInv
<1>6. CASE Plan!Finish
  <2>1. pc' = "done" /\ frame' = frame /\ frame = Idle /\ queue = {}
    BY <1>6 DEF Plan!Finish
  <2> QED
    BY <1>1, <1>2, <2>1 DEF StageInv, PlanInv
<1>7. CASE Plan!DeployIteration
  <2>1. /\ frame # Idle /\ pc' = pc
        /\ frame' = [frame EXCEPT !.f = Plan!DeployStep(in, frame.event.date, frame.f)]
    BY <1>7 DEF Plan!DeployIteration
  <2>2. frame'.event = frame.event /\ DOMAIN frame' = DOMAIN frame
    BY <1>0, <2>1 DEF StageInv
  <2>3. frame # Idle => pc # "seed" /\ pc # "done" /\ frame.event.date \in Int
                          /\ frame.event.pos \in DOMAIN book
                          /\ {"event", "amount", "f"} \subseteq DOMAIN frame
    BY <1>0 DEF StageInv
  <2> QED
    BY <1>1, <1>2, <2>1, <2>2, <2>3 DEF StageInv, PlanInv
<1> QED
  BY <1>3, <1>4, <1>5, <1>6, <1>7

LEMMA SkipKeeps ==
  ASSUME PlanInv, Plan!SkipPast
  PROVE  PlanInv'
<1>0. BodyInv /\ StageInv
  BY DEF PlanInv
<1>1. PICK e : e = Plan!First
  OBVIOUS
<1>2. /\ queue # {} /\ queue' = queue \ {e} /\ UNCHANGED <<in, book, journal, seq>>
      /\ in.mode = "trading" /\ e.date < Today
      /\ pc' = pc /\ frame' = frame /\ pc = "run"
  BY <1>1 DEF Plan!SkipPast, Plan!Past
<1>3. e \in queue /\ e.date \in Int
  BY <1>0, <1>1, <1>2, FirstIsFirst DEF BodyInv, QueueInv, IsEvent
<1>4. ~IsDue(e.date)
  BY <1>2, <1>3, PlanAssumption DEF IsDue
<1>5. BodyInv'
  BY <1>0, <1>2, <1>3, <1>4, DropKeeps
<1> QED
  BY <1>0, <1>2, <1>5 DEF PlanInv, StageInv

\* What is taken is due: an account's past was skipped.
LEMMA TakenIsDue ==
  ASSUME PlanInv, NEW kind, Plan!Take(kind), ~Plan!Past
  PROVE  /\ queue # {} /\ Plan!First \in queue /\ Plan!First.kind = kind /\ IsDue(Plan!First.date)
         /\ Plan!First.date \in Int /\ Plan!First.pos \in DOMAIN book
         /\ in' = in /\ pc' = pc /\ pc = "run" /\ frame = Idle
<1>1. BodyInv /\ queue # {} /\ Plan!First.kind = kind
      /\ in' = in /\ pc' = pc /\ pc = "run" /\ frame = Idle
  BY DEF Plan!Take, PlanInv
<1>2. Plan!First \in queue
  BY <1>1, FirstIsFirst DEF BodyInv
<1>3. Plan!First.date \in Int /\ Plan!First.pos \in DOMAIN book
  BY <1>1, <1>2 DEF BodyInv, QueueInv, IsEvent
<1>4. IsDue(Plan!First.date)
  BY <1>3, PlanAssumption DEF IsDue, Plan!Past
<1> QED
  BY <1>1, <1>2, <1>3, <1>4

LEMMA PaysKeeps ==
  ASSUME PlanInv, Plan!PayCoupon
  PROVE  PlanInv'
<1>0. BodyInv /\ StageInv
  BY DEF PlanInv
<1>1. PICK e : e = Plan!First
  OBVIOUS
<1>2. /\ queue # {} /\ e \in queue /\ e.kind = "coupon" /\ IsDue(e.date)
      /\ in' = in /\ pc' = pc /\ pc = "run" /\ frame = Idle
  BY <1>1, TakenIsDue DEF Plan!PayCoupon
<1>3. ~book[e.pos].closed
  BY <1>0, <1>2, EventOfOpen
<1>4. PICK x : x = Plan!Entry(e.date, "coupon", e.pos, Plan!Coupon(book[e.pos]))
  OBVIOUS
<1>5. /\ queue' = queue \ {e} /\ UNCHANGED <<book, seq>> /\ journal' = Append(journal, x)
      /\ frame' = frame
  BY <1>1, <1>3, <1>4 DEF Plan!PayCoupon, Plan!Record
<1>6. x.date = e.date /\ x.kind = "coupon" /\ x.pos = e.pos
  BY <1>4, EntryFields
<1>7. BodyInv'
  BY <1>0, <1>2, <1>5, <1>6, CouponKeeps
<1> QED
  BY <1>0, <1>2, <1>5, <1>7 DEF PlanInv, StageInv

LEMMA EndsKeeps ==
  ASSUME PlanInv, Plan!Redeem
  PROVE  PlanInv'
<1>0. BodyInv /\ StageInv
  BY DEF PlanInv
<1>1. PICK e : e = Plan!First
  OBVIOUS
<1>2. /\ queue # {} /\ e \in queue /\ e.kind = "redemption" /\ IsDue(e.date)
      /\ e.date \in Int /\ e.pos \in DOMAIN book
      /\ in' = in /\ pc' = pc /\ pc = "run" /\ frame = Idle
  BY <1>1, TakenIsDue DEF Plan!Redeem
<1>3. PICK x : x = Plan!Entry(e.date, IF Plan!IsPut(book[e.pos]) THEN "put_offer" ELSE "maturity",
                              e.pos, Plan!Redemption(book[e.pos], Plan!IsPut(book[e.pos])))
  OBVIOUS
<1>4. PICK new \in BOOLEAN :
        new = (/\ e.date + ReinvestmentGapDays <= in.horizon
                    /\ book[e.pos].generation < MaxReinvestDepth
               /\ e.date + ReinvestmentGapDays \notin days)
  OBVIOUS
<1>5. PICK event : event = [date |-> e.date + ReinvestmentGapDays, kind |-> "deploy",
                            pos |-> e.pos, seq |-> seq,
                            confirmed |-> in.confirmed[book[e.pos].bond.isin]]
  OBVIOUS
<1>6. /\ queue' = (queue \ {e}) \cup (IF new THEN {event} ELSE {})
      /\ seq' = (IF new THEN seq + 1 ELSE seq)
      /\ book' = [book EXCEPT ![e.pos].closed = TRUE]
      /\ journal' = Append(journal, x) /\ frame' = frame
  BY <1>1, <1>3, <1>4, <1>5 DEF Plan!Redeem, Plan!Record
<1>7. x.date = e.date /\ x.kind \in Redeemed /\ x.pos = e.pos
  BY <1>3, EntryFields DEF Redeemed
<1>8. /\ event.kind = "deploy" /\ event.pos = e.pos /\ event.seq = seq /\ event.date \in Int
  BY <1>2, <1>5, PlanAssumption
<1>9. BodyInv'
  BY <1>0, <1>1, <1>2, <1>6, <1>7, <1>8, RedeemKeeps
<1> QED
  BY <1>0, <1>2, <1>6, <1>9 DEF PlanInv, StageInv

LEMMA BeginKeeps ==
  ASSUME PlanInv, Plan!DeployBegin
  PROVE  PlanInv'
<1>0. BodyInv /\ StageInv
  BY DEF PlanInv
<1>1. PICK e : e = Plan!First
  OBVIOUS
<1>2. /\ e \in queue /\ e.kind = "deploy" /\ e.date \in Int /\ e.pos \in DOMAIN book
      /\ in' = in /\ pc' = pc /\ pc = "run"
  BY <1>1, TakenIsDue DEF Plan!DeployBegin
<1>3. PICK f : frame' \in {Idle, [event |-> e, amount |-> cash, f |-> f]}
  BY <1>1 DEF Plan!DeployBegin
<1>4. queue' = queue \ {e} /\ UNCHANGED <<book, seq, journal>>
  BY <1>1 DEF Plan!DeployBegin
<1>5. BodyInv'
  BY <1>0, <1>2, <1>4, DropKeeps
<1>6. StageInv'
  BY <1>2, <1>3, <1>4 DEF StageInv
<1> QED
  BY <1>5, <1>6 DEF PlanInv

LEMMA BuyKeeps ==
  ASSUME PlanInv, Plan!Buy
  PROVE  PlanInv'
<1>0. BodyInv /\ StageInv
  BY DEF PlanInv
<1>1. /\ frame # Idle /\ frame' = [frame EXCEPT !.f.buys = Tail(@)]
      /\ in' = in /\ pc' = pc
  BY DEF Plan!Buy
<1>2. PICK n : n = Len(book) + 1
  OBVIOUS
<1>3. PICK a : a = Head(frame.f.buys)
  OBVIOUS
<1>4. PICK b : b = Plan!BondOf(in, a.isin)
  OBVIOUS
<1>5. PICK lots : lots = IF Plan!Known(in, a.isin) /\ b.lot > 0
                         THEN Plan!Least(a.lots, cash \div b.lot) ELSE 0
  OBVIOUS
<1>6. PICK p : p = Plan!Bought(b, lots, frame.event.date, book[frame.event.pos].generation + 1)
  OBVIOUS
<1>7. PICK x : x = Plan!Entry(frame.event.date, "purchase", n, -lots * b.lot)
  OBVIOUS
<1>8. BodyInv' /\ DOMAIN book \subseteq DOMAIN book'
  <2>1. CASE lots < 1
    <3>1. UNCHANGED <<in, journal, book, queue, seq>>
      BY <1>1, <1>3, <1>4, <1>5, <2>1 DEF Plan!Buy
    <3> QED
      BY <1>0, <3>1, RestKeeps
  <2>2. CASE ~(lots < 1)
    <3>1. Plan!Open(p) /\ journal' = Append(journal, x)
      BY <1>2, <1>3, <1>4, <1>5, <1>6, <1>7, <2>2 DEF Plan!Buy, Plan!Record
    <3>2. Plan!Known(in, a.isin)
      BY <1>5, <2>2
    <3>3. HasDates(b) /\ frame.event.date \in Int
      BY <1>0, <1>1, <1>4, <3>2, KnownBond DEF BodyInv, StageInv
    <3>4. IsPosition(p) /\ ~p.closed
      BY <1>6, <3>3, BoughtIsPosition
    <3>5. x.pos = n /\ x.kind = "purchase"
      BY <1>7, EntryFields
    <3>6. BodyInv'
      BY <1>0, <1>1, <1>2, <3>1, <3>4, <3>5, OpenKeeps
    <3>7. DOMAIN book \subseteq DOMAIN book'
      BY <1>0, <3>1, Appended DEF BodyInv, Plan!Open
    <3> QED
      BY <3>6, <3>7
  <2> QED
    BY <2>1, <2>2
<1>9. frame'.event = frame.event /\ DOMAIN frame' = DOMAIN frame
  BY <1>0, <1>1 DEF StageInv
<1>10. StageInv'
  BY <1>0, <1>1, <1>8, <1>9 DEF StageInv
<1> QED
  BY <1>8, <1>10 DEF PlanInv

LEMMA PlanStep == PlanInv /\ [Plan!Next]_(Plan!vars) => PlanInv'
<1> SUFFICES ASSUME PlanInv, [Plan!Next]_(Plan!vars)
             PROVE  PlanInv'
  OBVIOUS
<1>1. CASE Plan!Start \/ Plan!DeployIteration \/ Plan!DeployEnd \/ Plan!Finish
  <2>1. UNCHANGED <<in, book, queue, journal, seq>>
    BY <1>1 DEF Plan!Start, Plan!DeployIteration, Plan!DeployEnd, Plan!Finish
  <2> QED
    BY <1>1, <2>1, QuietKeeps
<1>2. CASE UNCHANGED Plan!vars
  BY <1>2, QuietKeeps DEF Plan!vars
<1> QED
  BY <1>1, <1>2, SeedKeeps, SkipKeeps, PaysKeeps, EndsKeeps, BeginKeeps, BuyKeeps DEF Plan!Next

\* What became of a position and what it is still due make up its life; see above.
THEOREM PlanInvariant == Plan!Spec => []PlanInv
BY PlanBegins, PlanStep, PTL DEF Plan!Spec

\* In every finished plan, of any portfolio in any universe: a position that ends by
\* the horizon was redeemed once, on its last day, with every coupon due by then.
THEOREM EveryPositionEndsOnce == Plan!Spec => []PositionsEndOnce
<1>1. PlanInv => PositionsEndOnce
  <2> SUFFICES ASSUME PlanInv, pc = "done", NEW i \in DOMAIN book
               PROVE  IF Plan!Held(book[i])
                      THEN /\ Booked(i, Redeemed) = {} /\ ~book[i].closed
                           /\ Booked(i, {"coupon"}) = {}
                      ELSE /\ {journal[k].date : k \in Booked(i, Redeemed)}
                                = {d \in {Plan!EndDate(book[i])} : IsDue(d)}
                           /\ Plan!Cardinality(Booked(i, Redeemed)) <= 1
                           /\ book[i].closed <=> Booked(i, Redeemed) # {}
                           /\ {journal[k].date : k \in Booked(i, {"coupon"})}
                                = {d \in Plan!CouponDates(book[i]) : IsDue(d)}
    BY DEF PositionsEndOnce, Plan!PositionsEndOnce, Booked, Redeemed, IsDue
  <2>1. LifeInv(i) /\ Queued(i, "coupon") = {} /\ Queued(i, "redemption") = {}
    BY DEF PlanInv, BodyInv, StageInv, Queued
  <2>2. CASE Plan!Held(book[i])
    BY <2>1, <2>2 DEF LifeInv, HeldOn
  <2>3. CASE ~Plan!Held(book[i])
    <3>1. CouponsInv(i) /\ RedemptionInv(i)
      BY <2>1, <2>3 DEF LifeInv
    <3>2. PaidOn(i) = {d \in Plan!CouponDates(book[i]) : IsDue(d)}
      BY <2>1, <3>1 DEF CouponsInv
    <3>3. \A S : Plan!Cardinality(S) = Cardinality(S)
      BY DEF Plan!Cardinality, Cardinality
    <3>4. CASE book[i].closed
      <4>1. IsDue(Plan!EndDate(book[i]))
        BY <3>1, <3>4 DEF RedemptionInv
      <4>2. PICK k \in DOMAIN journal :
              Booked(i, Redeemed) = {k} /\ journal[k].date = Plan!EndDate(book[i])
        BY <3>1, <3>4 DEF RedemptionInv
      <4>3. Cardinality({k}) = 1
        BY FS_Singleton
      <4> QED
        BY <2>3, <3>2, <3>3, <3>4, <4>1, <4>2, <4>3 DEF PaidOn
    <3>5. CASE ~book[i].closed
      <4>1. Booked(i, Redeemed) = {} /\ ~IsDue(Plan!EndDate(book[i]))
        BY <2>1, <3>1, <3>5 DEF RedemptionInv
      <4>2. Cardinality({}) = 0
        BY FS_EmptySet
      <4> QED
        BY <2>3, <3>2, <3>3, <3>5, <4>1, <4>2 DEF PaidOn
    <3> QED
      BY <3>4, <3>5
  <2> QED
    BY <2>2, <2>3
<1> QED
  BY <1>1, PlanInvariant, PTL

-----------------------------------------------------------------------------
LEMMA CostIsTotal ==
  ASSUME NEW u, NEW lots
  PROVE  Plan!Cost(u, lots)
           = Total([k \in DOMAIN u.universe |-> u.universe[k].lot * lots[u.universe[k].isin]],
                   DOMAIN u.universe)
BY ZenonT(60) DEF Plan!Cost, Plan!MapThenSumSet, Plan!MapThenFoldSet, AnyOf, Total, Adds

LEMMA ExposedIsTotal ==
  ASSUME NEW f, NEW group
  PROVE  Plan!Exposed(f, group)
           = Total([k \in group |->
                     f.seen[k].lot * (f.held[f.seen[k].isin] + f.picks[f.seen[k].isin])], group)
BY ZenonT(60) DEF Plan!Exposed, Plan!MapThenSumSet, Plan!MapThenFoldSet, AnyOf, Total, Adds

-----------------------------------------------------------------------------
(***************************************************************************)
(* A deployment.  The lots AutoCompose has picked and what is left make up *)
(* its budget, what was allocated and what is left make up the cash, so no *)
(* loop can spend what another has spent.  u is the input of a plan.       *)
(***************************************************************************)
Listed(u) == {u.universe[k] : k \in DOMAIN u.universe}
Isins(u) == {b.isin : b \in Listed(u)}
Price(u, isin) == Plan!BondOf(u, isin).lot

Worth(u, lots) == Total([i \in Isins(u) |-> lots[i] * Price(u, i)], Isins(u))
Paid(u, buys) ==
  Total([k \in DOMAIN buys |-> buys[k].lots * Price(u, buys[k].isin)], DOMAIN buys)

Distinct(s) == \A j, k \in DOMAIN s : s[j].isin = s[k].isin => j = k

\* A list of bonds of the universe.
BondList(u, s) ==
  /\ IsSeq(s) /\ Distinct(s) /\ \E n \in Nat : DOMAIN s = 1 .. n
  /\ \A k \in DOMAIN s : s[k] \in Listed(u)

BuyList(u, buys) ==
  /\ buys \in Seq([isin : Isins(u), lots : Nat])
  /\ Distinct(buys)

LEMMA ListedBond ==
  ASSUME NEW u \in Inputs
  PROVE  /\ IsFiniteSet(Isins(u)) /\ Isins(u) \subseteq ISINs
         /\ BondList(u, u.universe)
         /\ \A b \in Listed(u) : /\ b.isin \in Isins(u) /\ Plan!Known(u, b.isin)
                                 /\ Plan!BondOf(u, b.isin) = b
                                 /\ Price(u, b.isin) = b.lot /\ b.lot \in Nat
         /\ \A i \in Isins(u) : Price(u, i) \in Nat /\ Plan!Known(u, i)
         /\ \A i : Plan!Known(u, i) => i \in Isins(u) /\ Plan!BondOf(u, i) \in Listed(u)
<1> DEFINE s == u.universe
<1>1. /\ s \in Seq({s[k] : k \in DOMAIN s})
      /\ \A k \in DOMAIN s : s[k].isin \in ISINs /\ s[k].lot \in Nat
      /\ \A j, k \in DOMAIN s : s[j].isin = s[k].isin => j = k
  BY CashAssumption DEF HasPrices
<1>2. PICK n \in Nat : n = Len(s) /\ DOMAIN s = 1 .. n
  BY <1>1
<1>3. BondList(u, s)
  BY <1>1, <1>2 DEF BondList, IsSeq, Distinct, Listed
<1>4. IsFiniteSet(Isins(u))
  <2>1. IsFiniteSet(DOMAIN s)
    BY <1>2, FS_Interval
  <2>2. Isins(u) = {s[k].isin : k \in DOMAIN s}
    BY DEF Isins, Listed
  <2> DEFINE g == [k \in DOMAIN s |-> s[k].isin]
  <2>3. g \in Surjection(DOMAIN s, Isins(u))
    BY <2>2 DEF Surjection
  <2> HIDE DEF g
  <2> QED
    BY <2>1, <2>3, FS_Surjection
<1>5. \A k \in DOMAIN s : Plan!BondOf(u, s[k].isin) = s[k] /\ Plan!Known(u, s[k].isin)
  <2> SUFFICES ASSUME NEW k \in DOMAIN s
               PROVE  Plan!BondOf(u, s[k].isin) = s[k] /\ Plan!Known(u, s[k].isin)
    OBVIOUS
  <2>1. (CHOOSE i \in DOMAIN s : s[i].isin = s[k].isin) = k
    BY <1>1
  <2> QED
    BY <2>1 DEF Plan!BondOf, Plan!Known
<1>6. \A i : Plan!Known(u, i) => \E k \in DOMAIN s : s[k].isin = i
  BY DEF Plan!Known
<1>7. ASSUME NEW b \in Listed(u)
      PROVE  /\ b.isin \in Isins(u) /\ Plan!Known(u, b.isin) /\ Plan!BondOf(u, b.isin) = b
             /\ Price(u, b.isin) = b.lot /\ b.lot \in Nat /\ b.isin \in ISINs
  <2>1. PICK k \in DOMAIN s : b = s[k]
    BY DEF Listed
  <2> QED
    BY <1>1, <1>5, <2>1 DEF Isins, Price
<1>8. ASSUME NEW i \in Isins(u) PROVE i \in ISINs /\ Price(u, i) \in Nat /\ Plan!Known(u, i)
  <2>1. PICK b \in Listed(u) : i = b.isin
    BY DEF Isins
  <2> QED
    BY <1>7, <2>1
<1>9. ASSUME NEW i, Plan!Known(u, i)
      PROVE  i \in Isins(u) /\ Plan!BondOf(u, i) \in Listed(u)
  <2>1. PICK k \in DOMAIN s : s[k].isin = i
    BY <1>6, <1>9
  <2>2. s[k] \in Listed(u)
    BY DEF Listed
  <2> QED
    BY <1>5, <2>1, <2>2 DEF Isins
<1> QED
  BY <1>3, <1>4, <1>7, <1>8, <1>9

LEMMA FinitePart ==
  ASSUME NEW s, NEW n \in Nat, DOMAIN s = 1 .. n
  PROVE  IsFiniteSet(DOMAIN s)
BY FS_Interval

\* What is taken of a list is a list.
LEMMA AmongList ==
  ASSUME NEW u, NEW s, BondList(u, s), NEW places, places \subseteq DOMAIN s
  PROVE  LET r == Plan!Among(s, places)
         IN /\ BondList(u, r)
            /\ \A k \in DOMAIN r : \E i \in places : r[k] = s[i]
<1>1. PICK n \in Nat : DOMAIN s = 1 .. n
  BY DEF BondList
<1>2. PICK r : r = Plan!Among(s, places)
  OBVIOUS
<1>3. \A i \in places : i \in 1 .. n
  BY <1>1
<1>4. /\ \E m \in Nat : DOMAIN r = 1 .. m
      /\ \A k \in DOMAIN r : \E i \in places : r[k] = s[i]
      /\ \A j, k \in DOMAIN r : j # k => \E x, y \in places : x # y /\ r[j] = s[x] /\ r[k] = s[y]
      /\ IsSeq(r)
  BY <1>2, <1>3, AmongElements
<1>5. Distinct(r)
  <2> SUFFICES ASSUME NEW j \in DOMAIN r, NEW k \in DOMAIN r, j # k
               PROVE  r[j].isin # r[k].isin
    BY DEF Distinct
  <2>1. PICK x \in places, y \in places : x # y /\ r[j] = s[x] /\ r[k] = s[y]
    BY <1>4
  <2> QED
    BY <2>1 DEF BondList, Distinct
<1>6. \A k \in DOMAIN r : r[k] \in Listed(u)
  BY <1>4 DEF BondList
<1> QED
  BY <1>2, <1>4, <1>5, <1>6 DEF BondList

LEMMA SelectedList ==
  ASSUME NEW u \in Inputs, NEW date
  PROVE  /\ BondList(u, Plan!Selected(u, date))
         /\ \A k \in DOMAIN Plan!Selected(u, date) : Plan!Selected(u, date)[k].lot > 0
<1> DEFINE s == Plan!Selected(u, date)
           fit(k) == {i \in DOMAIN u.universe :
                        Plan!Eligible(u.universe[i], u, Plan!FallbackSteps(u.profile)[k], date)}
<1>1. s = <<>> \/ \E k : s = Plan!Among(u.universe, fit(k))
  BY Zenon DEF Plan!Selected
<1>2. CASE s = <<>>
  <2>1. DOMAIN s = 1 .. 0 /\ DOMAIN s = {}
    BY <1>2
  <2>2. BondList(u, s)
    BY <1>2, <2>1 DEF BondList, IsSeq, Distinct
  <2> QED
    BY <2>1, <2>2
<1>3. CASE \E k : s = Plan!Among(u.universe, fit(k))
  <2>1. PICK k : s = Plan!Among(u.universe, fit(k))
    BY <1>3
  <2>2. \A i \in fit(k) : u.universe[i].lot > 0
    BY DEF Plan!Eligible
  <2>3. fit(k) \subseteq DOMAIN u.universe
    OBVIOUS
  <2> HIDE DEF fit
  <2>4. BondList(u, s) /\ \A j \in DOMAIN s : \E i \in fit(k) : s[j] = u.universe[i]
    BY <2>1, <2>3, ListedBond, AmongList
  <2> QED
    BY <2>2, <2>4
<1> QED
  BY <1>1, <1>2, <1>3

LEMMA GuardrailList ==
  ASSUME NEW u, NEW s, BondList(u, s)
  PROVE  /\ BondList(u, Plan!DurationGuardrail(u, s))
         /\ \A k \in DOMAIN Plan!DurationGuardrail(u, s) :
              \E i \in DOMAIN s : Plan!DurationGuardrail(u, s)[k] = s[i]
<1>1. PICK places : /\ places \subseteq DOMAIN s
                    /\ Plan!DurationGuardrail(u, s) = Plan!Among(s, places)
  <2> DEFINE places == {k \in DOMAIN s : ~(u.guarded /\ s[k].long)}
  <2>1. Plan!DurationGuardrail(u, s) = Plan!Among(s, places)
    BY DEF Plan!DurationGuardrail
  <2> QED
    BY <2>1
<1>2. PICK r : r = Plan!Among(s, places)
  OBVIOUS
<1>3. BondList(u, r) /\ \A k \in DOMAIN r : \E i \in places : r[k] = s[i]
  BY <1>1, <1>2, AmongList
<1> QED
  BY <1>1, <1>2, <1>3

LEMMA RankedList ==
  ASSUME NEW u \in Inputs, NEW date
  PROVE  /\ BondList(u, Plan!Ranked(u, date))
         /\ \A k \in DOMAIN Plan!Ranked(u, date) : Plan!Ranked(u, date)[k].lot > 0
<1>1. PICK s : s = Plan!Selected(u, date)
  OBVIOUS
<1>2. BondList(u, s) /\ \A k \in DOMAIN s : s[k].lot > 0
  BY <1>1, SelectedList
<1>3. PICK r : r = Plan!DurationGuardrail(u, s)
  OBVIOUS
<1>4. BondList(u, r) /\ \A k \in DOMAIN r : \E i \in DOMAIN s : r[k] = s[i]
  BY <1>2, <1>3, GuardrailList
<1>5. r = Plan!Ranked(u, date)
  BY <1>1, <1>3 DEF Plan!Ranked
<1> QED
  BY <1>2, <1>4, <1>5

LEMMA ExistingList ==
  ASSUME NEW u \in Inputs, NEW date, NEW had
  PROVE  /\ BondList(u, Plan!RankedExisting(u, had, date))
         /\ \A k \in DOMAIN Plan!RankedExisting(u, had, date) :
              Plan!RankedExisting(u, had, date)[k].lot > 0
<1>1. PICK s : s = Plan!Selected(u, date)
  OBVIOUS
<1>2. BondList(u, s) /\ \A k \in DOMAIN s : s[k].lot > 0
  BY <1>1, SelectedList
<1>3. PICK places : places \subseteq DOMAIN s /\ Plan!RankedExisting(u, had, date) = Plan!Among(s, places)
  <2> DEFINE existing == {k \in DOMAIN s : had[s[k].isin] > 0}
             places == {k \in existing :
                          Plan!Cardinality({j \in existing : j < k}) < MaxAutoPositions}
  <2>1. Plan!RankedExisting(u, had, date) = Plan!Among(s, places)
    BY <1>1, Zenon DEF Plan!RankedExisting
  <2> QED
    BY <2>1
<1>4. PICK r : r = Plan!Among(s, places)
  OBVIOUS
<1>5. BondList(u, r) /\ \A k \in DOMAIN r : \E i \in places : r[k] = s[i]
  BY <1>2, <1>3, <1>4, AmongList
<1> QED
  BY <1>2, <1>3, <1>4, <1>5

LEMMA Products ==
  /\ \A x, y \in Nat : x * y \in Nat
  /\ \A x, y, z \in Nat : (x + y) * z = x * z + y * z
  /\ \A x, y, z \in Nat : x <= y => x * z <= y * z
<1>1. \A x, y \in Nat : x * y \in Nat
  OBVIOUS
<1>2. \A x, y, z \in Nat : (x + y) * z = x * z + y * z
  OBVIOUS
<1>3. \A x, y, z \in Nat : x <= y => x * z <= y * z
  <2> SUFFICES ASSUME NEW x \in Nat, NEW y \in Nat, NEW z \in Nat, x <= y PROVE x * z <= y * z
    OBVIOUS
  <2>1. PICK d \in Nat : y = x + d
    BY y - x \in Nat
  <2> QED
    BY <1>1, <1>2, <2>1
<1> QED
  BY <1>1, <1>2, <1>3

\* What a quotient of whole numbers pays for.
LEMMA Quotient ==
  ASSUME NEW x \in Nat, NEW y \in Nat \ {0}
  PROVE  x \div y \in Nat /\ \A n \in Nat : n <= x \div y => n * y <= x
<1>1. x \div y \in Nat /\ (x \div y) * y <= x
  OBVIOUS
<1> QED
  BY <1>1, Products

LEMMA BuyTerms ==
  ASSUME NEW u \in Inputs, NEW buys, BuyList(u, buys)
  PROVE  /\ \E n \in Nat : n = Len(buys) /\ DOMAIN buys = 1 .. n
         /\ IsFiniteSet(DOMAIN buys)
         /\ \A k \in DOMAIN buys :
              /\ buys[k] \in [isin : Isins(u), lots : Nat]
              /\ buys[k].lots * Price(u, buys[k].isin) \in Nat
         /\ Paid(u, buys) \in Nat
<1>1. PICK n \in Nat : n = Len(buys) /\ DOMAIN buys = 1 .. n
  BY DEF BuyList
<1>2. IsFiniteSet(DOMAIN buys)
  BY <1>1, FinitePart
<1>3. \A k \in DOMAIN buys : buys[k] \in [isin : Isins(u), lots : Nat]
  <2>1. PICK S : S = [isin : Isins(u), lots : Nat]
    OBVIOUS
  <2>2. buys \in Seq(S)
    BY <2>1 DEF BuyList
  <2>3. \A k \in DOMAIN buys : buys[k] \in S
    BY <2>2
  <2> QED
    BY <2>1, <2>3
<1>4. \A k \in DOMAIN buys : buys[k].lots * Price(u, buys[k].isin) \in Nat
  BY <1>3, ListedBond, Products
<1>5. Paid(u, buys) \in Nat
  <2> DEFINE w == [k \in DOMAIN buys |-> buys[k].lots * Price(u, buys[k].isin)]
  <2>1. \A k \in DOMAIN buys : w[k] \in Nat
    BY <1>4
  <2>2. Paid(u, buys) = Total(w, DOMAIN buys)
    BY DEF Paid
  <2> HIDE DEF w
  <2> QED
    BY <1>2, <2>1, <2>2, TotalWithin
<1> QED
  BY <1>1, <1>2, <1>3, <1>4, <1>5

LEMMA AppendPaid ==
  ASSUME NEW u \in Inputs, NEW buys, BuyList(u, buys), NEW i \in Isins(u), NEW n \in Nat,
         \A k \in DOMAIN buys : buys[k].isin # i,
         NEW m, m = Append(buys, [isin |-> i, lots |-> n])
  PROVE  BuyList(u, m) /\ Paid(u, m) = Paid(u, buys) + n * Price(u, i)
<1>1. PICK l \in Nat : l = Len(buys) /\ DOMAIN buys = 1 .. l
  BY BuyTerms
<1>2. PICK x : x = [isin |-> i, lots |-> n]
  OBVIOUS
<1>3. /\ m \in Seq([isin : Isins(u), lots : Nat])
      /\ DOMAIN m = DOMAIN buys \cup {l + 1} /\ l + 1 \notin DOMAIN buys
      /\ m[l + 1] = x /\ \A k \in DOMAIN buys : m[k] = buys[k]
  <2>1. x \in [isin : Isins(u), lots : Nat] /\ buys \in Seq([isin : Isins(u), lots : Nat])
        /\ m = Append(buys, x)
    BY <1>2 DEF BuyList
  <2> QED
    BY <1>1, <2>1
<1>4. BuyList(u, m)
  BY <1>2, <1>3 DEF BuyList, Distinct
<1> DEFINE w == [k \in DOMAIN buys |-> buys[k].lots * Price(u, buys[k].isin)]
           v == [k \in DOMAIN m |-> m[k].lots * Price(u, m[k].isin)]
<1>5. /\ \A k \in DOMAIN buys : w[k] = v[k] /\ v[k] \in Int
      /\ v[l + 1] = n * Price(u, i) /\ v[l + 1] \in Int
  <2>1. \A k \in DOMAIN buys : w[k] = v[k]
    BY <1>3
  <2>2. \A k \in DOMAIN buys : w[k] \in Int
    BY BuyTerms
  <2>3. v[l + 1] = n * Price(u, i)
    BY <1>2, <1>3
  <2>4. n * Price(u, i) \in Int
    BY ListedBond, Products
  <2> QED
    BY <2>1, <2>2, <2>3, <2>4
<1>6. Paid(u, buys) = Total(w, DOMAIN buys) /\ Paid(u, m) = Total(v, DOMAIN m)
  BY DEF Paid
<1> HIDE DEF w, v
<1>7. IsFiniteSet(DOMAIN buys)
  BY BuyTerms
<1>8. Total(w, DOMAIN buys) = Total(v, DOMAIN buys)
  BY <1>5, <1>7, TotalSame
<1>9. Total(v, DOMAIN buys \cup {l + 1}) = Total(v, DOMAIN buys) + v[l + 1]
  BY <1>3, <1>5, <1>7, TotalNew
<1> QED
  BY <1>3, <1>4, <1>5, <1>6, <1>8, <1>9

LEMMA MergePaid ==
  ASSUME NEW u \in Inputs, NEW buys, BuyList(u, buys), NEW i \in Isins(u), NEW n \in Nat,
         NEW m, m = Plan!Merge(buys, i, n)
  PROVE  BuyList(u, m) /\ Paid(u, m) = Paid(u, buys) + n * Price(u, i)
<1>1. CASE \A k \in DOMAIN buys : buys[k].isin # i
  <2>1. m = Append(buys, [isin |-> i, lots |-> n])
    BY <1>1 DEF Plan!Merge
  <2> QED
    BY <1>1, <2>1, AppendPaid
<1>2. CASE \E k \in DOMAIN buys : buys[k].isin = i
  <2>1. PICK j \in DOMAIN buys : buys[j].isin = i
    BY <1>2
  <2>2. m = [k \in DOMAIN buys |->
               IF buys[k].isin = i THEN [buys[k] EXCEPT !.lots = @ + n] ELSE buys[k]]
    BY <1>2 DEF Plan!Merge
  <2>3. \A k \in DOMAIN buys : buys[k] \in [isin : Isins(u), lots : Nat] /\ (k # j => buys[k].isin # i)
    BY <2>1, BuyTerms DEF BuyList, Distinct
  <2>4. /\ DOMAIN m = DOMAIN buys
        /\ \A k \in DOMAIN buys :
             /\ m[k] \in [isin : Isins(u), lots : Nat] /\ m[k].isin = buys[k].isin
             /\ m[k].lots = IF k = j THEN buys[k].lots + n ELSE buys[k].lots
    BY <2>1, <2>2, <2>3
  <2>5. BuyList(u, m)
    <3>1. PICK l \in Nat : DOMAIN buys = 1 .. l
      BY BuyTerms
    <3>2. m \in Seq([isin : Isins(u), lots : Nat])
      <4>1. PICK S : S = [isin : Isins(u), lots : Nat]
        OBVIOUS
      <4>2. m \in [1 .. l -> S]
        BY <2>2, <2>4, <3>1, <4>1
      <4>3. m \in Seq(S)
        BY <4>2
      <4> QED
        BY <4>1, <4>3
    <3> QED
      BY <2>4, <3>2 DEF BuyList, Distinct
  <2> DEFINE w == [k \in DOMAIN buys |-> buys[k].lots * Price(u, buys[k].isin)]
             v == [k \in DOMAIN m |-> m[k].lots * Price(u, m[k].isin)]
  <2>6. /\ \A k \in DOMAIN buys : w[k] \in Int /\ v[k] \in Int
        /\ \A k \in DOMAIN buys \ {j} : w[k] = v[k]
    <3>1. \A k \in DOMAIN buys : w[k] \in Int
      BY BuyTerms
    <3>2. \A k \in DOMAIN m : m[k].lots * Price(u, m[k].isin) \in Nat
      BY <2>5, BuyTerms
    <3> QED
      BY <2>4, <3>1, <3>2
  <2>7. v[j] = w[j] + n * Price(u, i)
    <3>1. w[j] = buys[j].lots * Price(u, i) /\ v[j] = (buys[j].lots + n) * Price(u, i)
      BY <2>1, <2>4
    <3>2. buys[j].lots \in Nat /\ Price(u, i) \in Nat
      BY <2>3, ListedBond
    <3> QED
      BY <3>1, <3>2, Products
  <2>8. Paid(u, buys) = Total(w, DOMAIN buys) /\ Paid(u, m) = Total(v, DOMAIN buys)
    BY <2>4 DEF Paid
  <2> HIDE DEF w, v
  <2>9. IsFiniteSet(DOMAIN buys)
    BY BuyTerms
  <2>10. Total(v, DOMAIN buys) = Total(w, DOMAIN buys) - w[j] + v[j]
    BY <2>6, <2>9, TotalChanged
  <2>11. Total(w, DOMAIN buys) \in Int /\ n * Price(u, i) \in Int /\ w[j] \in Int
    BY <2>6, <2>9, TotalAdds, ListedBond, Products
  <2> QED
    BY <2>5, <2>7, <2>8, <2>10, <2>11
<1> QED
  BY <1>1, <1>2

LEMMA TailPaid ==
  ASSUME NEW u \in Inputs, NEW buys, BuyList(u, buys), buys # <<>>, NEW m, m = Tail(buys)
  PROVE  /\ Head(buys) \in [isin : Isins(u), lots : Nat]
         /\ BuyList(u, m)
         /\ Paid(u, m) = Paid(u, buys) - Head(buys).lots * Price(u, Head(buys).isin)
<1>1. PICK l \in Nat : l = Len(buys) /\ DOMAIN buys = 1 .. l
  BY BuyTerms
<1>2. l # 0
  BY <1>1 DEF BuyList
<1>3. PICK n \in Nat : l = n + 1
  BY <1>2, l - 1 \in Nat
<1>4. /\ m \in Seq([isin : Isins(u), lots : Nat]) /\ DOMAIN m = 1 .. n
      /\ \A k \in 1 .. n : m[k] = buys[k + 1]
      /\ Head(buys) = buys[1]
  BY <1>1, <1>3 DEF BuyList
<1>5. BuyList(u, m)
  <2>1. \A j, k \in 1 .. n : m[j].isin = m[k].isin => j = k
    <3> SUFFICES ASSUME NEW j \in 1 .. n, NEW k \in 1 .. n, m[j].isin = m[k].isin
                 PROVE  j = k
      OBVIOUS
    <3>1. j + 1 \in DOMAIN buys /\ k + 1 \in DOMAIN buys
      BY <1>1, <1>3
    <3>2. j + 1 = k + 1
      BY <1>4, <3>1 DEF BuyList, Distinct
    <3> QED
      BY <3>2
  <2> QED
    BY <1>4, <2>1 DEF BuyList, Distinct
<1> DEFINE w == [k \in DOMAIN buys |-> buys[k].lots * Price(u, buys[k].isin)]
           v == [k \in DOMAIN m |-> m[k].lots * Price(u, m[k].isin)]
<1>6. /\ \A k \in DOMAIN buys : w[k] \in Int
      /\ \A k \in 1 .. n : v[k] = w[k + 1] /\ v[k] \in Int
      /\ w[1] = Head(buys).lots * Price(u, Head(buys).isin)
      /\ 1 \in DOMAIN buys
  <2>1. \A k \in DOMAIN buys : w[k] \in Int
    BY BuyTerms
  <2>2. \A k \in 1 .. n : k + 1 \in DOMAIN buys
    BY <1>1, <1>3
  <2>3. \A k \in 1 .. n : v[k] = w[k + 1]
    BY <1>4, <2>2
  <2>4. 1 \in DOMAIN buys
    BY <1>1, <1>3
  <2> QED
    BY <1>4, <2>1, <2>2, <2>3, <2>4
<1>7. Paid(u, buys) = Total(w, DOMAIN buys) /\ Paid(u, m) = Total(v, 1 .. n)
  BY <1>4 DEF Paid
<1> HIDE DEF w, v
<1>8. Total(v, 1 .. n) = Total(w, 2 .. n + 1)
  BY <1>6, TotalShifts
<1>9. IsFiniteSet(DOMAIN buys)
  BY BuyTerms
<1>10. DOMAIN buys \ {1} = 2 .. n + 1
  BY <1>1, <1>3
<1>11. /\ Total(w, DOMAIN buys) = w[1] + Total(w, 2 .. n + 1)
       /\ Total(w, DOMAIN buys) \in Int
  <2>1. PICK Q : Q = DOMAIN buys
    OBVIOUS
  <2>2. IsFiniteSet(Q) /\ (\A k \in Q : w[k] \in Int) /\ 1 \in Q
    BY <1>6, <1>9, <2>1
  <2>3. Total(w, Q) \in Int /\ Total(w, Q) = w[1] + Total(w, Q \ {1})
    BY <2>2, TotalAdds
  <2> QED
    BY <1>10, <2>1, <2>3
<1>12. Total(w, 2 .. n + 1) \in Int
  <2>1. IsFiniteSet(1 .. n)
    BY FS_Interval
  <2> QED
    BY <1>6, <1>8, <2>1, TotalAdds
<1>13. Head(buys) \in [isin : Isins(u), lots : Nat]
  BY <1>4, <1>6, BuyTerms
<1> QED
  BY <1>5, <1>6, <1>7, <1>8, <1>11, <1>12, <1>13

\* What lots are worth.
LEMMA WorthTerms ==
  ASSUME NEW u \in Inputs, NEW lots \in [ISINs -> Nat]
  PROVE  /\ Worth(u, lots) \in Nat
         /\ \A i \in Isins(u) : i \in ISINs /\ lots[i] * Price(u, i) \in Nat
<1>1. \A i \in Isins(u) : i \in ISINs /\ lots[i] * Price(u, i) \in Nat
  BY ListedBond, Products
<1> DEFINE w == [i \in Isins(u) |-> lots[i] * Price(u, i)]
<1>2. (\A i \in Isins(u) : w[i] \in Nat) /\ IsFiniteSet(Isins(u))
  BY <1>1, ListedBond
<1>3. Worth(u, lots) = Total(w, Isins(u))
  BY DEF Worth
<1> HIDE DEF w
<1>4. Worth(u, lots) \in Nat
  BY <1>2, <1>3, TotalWithin
<1> QED
  BY <1>1, <1>4

LEMMA WorthNothing ==
  ASSUME NEW u \in Inputs
  PROVE  Plan!NoLots \in [ISINs -> Nat] /\ Worth(u, Plan!NoLots) = 0
<1>1. Plan!NoLots \in [ISINs -> Nat] /\ \A i \in ISINs : Plan!NoLots[i] = 0
  BY DEF Plan!NoLots
<1> DEFINE w == [i \in Isins(u) |-> Plan!NoLots[i] * Price(u, i)]
<1>2. (\A i \in Isins(u) : w[i] = 0) /\ IsFiniteSet(Isins(u))
  BY <1>1, ListedBond
<1>3. Worth(u, Plan!NoLots) = Total(w, Isins(u))
  BY DEF Worth
<1> HIDE DEF w
<1>4. Total(w, Isins(u)) = 0
  BY <1>2, TotalOfNone
<1> QED
  BY <1>1, <1>3, <1>4

LEMMA WorthAdds ==
  ASSUME NEW u \in Inputs, NEW lots \in [ISINs -> Nat], NEW i \in Isins(u), NEW n \in Nat
  PROVE  /\ [lots EXCEPT ![i] = @ + n] \in [ISINs -> Nat]
         /\ Worth(u, [lots EXCEPT ![i] = @ + n]) = Worth(u, lots) + n * Price(u, i)
<1>1. PICK more : more = [lots EXCEPT ![i] = @ + n]
  OBVIOUS
<1>2. /\ more \in [ISINs -> Nat] /\ i \in ISINs /\ more[i] = lots[i] + n
      /\ \A j \in ISINs \ {i} : more[j] = lots[j]
  BY <1>1, WorthTerms
<1> DEFINE w == [j \in Isins(u) |-> lots[j] * Price(u, j)]
           v == [j \in Isins(u) |-> more[j] * Price(u, j)]
<1>3. /\ \A j \in Isins(u) : w[j] \in Int /\ v[j] \in Int
      /\ \A j \in Isins(u) \ {i} : w[j] = v[j]
      /\ v[i] = w[i] + n * Price(u, i)
  <2>1. \A j \in Isins(u) : j \in ISINs /\ w[j] \in Int /\ v[j] \in Int
    BY <1>2, WorthTerms
  <2>2. w[i] = lots[i] * Price(u, i) /\ v[i] = (lots[i] + n) * Price(u, i)
    BY <1>2
  <2>3. lots[i] \in Nat /\ Price(u, i) \in Nat
    BY <1>2, ListedBond
  <2> QED
    BY <1>2, <2>1, <2>2, <2>3, Products
<1>4. Worth(u, lots) = Total(w, Isins(u)) /\ Worth(u, more) = Total(v, Isins(u))
  BY DEF Worth
<1> HIDE DEF w, v
<1>5. IsFiniteSet(Isins(u))
  BY ListedBond
<1>6. Total(v, Isins(u)) = Total(w, Isins(u)) - w[i] + v[i] /\ Total(w, Isins(u)) \in Int
  BY <1>3, <1>5, TotalChanged, TotalAdds
<1>7. n * Price(u, i) \in Int
  BY ListedBond, Products
<1> QED
  BY <1>1, <1>2, <1>3, <1>4, <1>6, <1>7

-----------------------------------------------------------------------------
FrameFields == {"phase", "cash", "spent", "held", "full", "budget", "seen", "left", "pool",
                "picks", "order", "at", "again", "bought", "buys"}

FrameTypeOK(u, f) ==
  /\ DOMAIN f = FrameFields
  /\ f.phase \in {"open", "topup", "fill", "target", "sweep", "buy"}
  /\ f.cash \in Nat /\ f.spent \in Nat /\ f.left \in Nat /\ f.budget \in Nat
  /\ f.at \in Nat \ {0}
  /\ f.held \in [ISINs -> Nat] /\ f.picks \in [ISINs -> Nat] /\ f.bought \in [ISINs -> Nat]

\* What AutoCompose buys is priced, and among what it counts.
ListsOK(u, f) ==
  /\ BondList(u, f.seen) /\ BondList(u, f.pool) /\ BuyList(u, f.buys)
  /\ \A k \in DOMAIN f.pool : /\ f.pool[k].lot > 0
                              /\ \E j \in DOMAIN f.seen : f.pool[k] = f.seen[j]

\* What it has picked, once each.
OrderOK(u, f) ==
  /\ IsSeq(f.order) /\ \E n \in Nat : DOMAIN f.order = 1 .. n
  /\ \A k \in DOMAIN f.order : /\ f.order[k] \in Isins(u) /\ Price(u, f.order[k]) > 0
                                /\ f.picks[f.order[k]] > 0
  /\ \A j, k \in DOMAIN f.order : f.order[j] = f.order[k] => j = k

Terms(u, lots) == [i \in Isins(u) |-> lots[i] * Price(u, i)]
Passed(f) == {f.order[k] : k \in {j \in DOMAIN f.order : j < f.at}}

\* c is the cash of the simulation.
MoneyOK(u, f, c) ==
  /\ f.left + Worth(u, f.picks) = f.budget
  /\ f.full \/ f.budget = f.cash
  /\ f.spent <= f.cash
  /\ IF f.phase = "buy" THEN Paid(u, f.buys) <= c
     ELSE Paid(u, f.buys) + f.cash = c + f.spent
  /\ f.phase \in {"open", "topup", "fill"} => f.spent = 0
  /\ f.phase = "target" /\ ~f.full => f.spent = Total(Terms(u, f.picks), Passed(f))

Capped(f, b) ==
  /\ 100 * f.picks[b.isin] * b.lot <= Plan!MaxPosition(f)
  /\ b.sector # None => 100 * Plan!SectorSpent(f, b.sector) <= MaxSectorShare * f.budget
  /\ b.issuer # None => 100 * Plan!IssuerSpent(f, b.issuer) <= MaxIssuerShare * f.budget

CapsOK(f) ==
  /\ \A k \in DOMAIN f.pool : f.picks[f.pool[k].isin] > 0 => Capped(f, f.pool[k])
  /\ f.phase = "open" =>
       \A k \in DOMAIN f.pool : k >= f.at => f.picks[f.pool[k].isin] = 0

FrameInv(u, f, c) ==
  FrameTypeOK(u, f) /\ ListsOK(u, f) /\ OrderOK(u, f) /\ MoneyOK(u, f, c) /\ CapsOK(f)

LEMMA CostIsWorth ==
  ASSUME NEW u \in Inputs, NEW lots \in [ISINs -> Nat]
  PROVE  Plan!Cost(u, lots) \in Nat
<1> DEFINE w == [k \in DOMAIN u.universe |-> u.universe[k].lot * lots[u.universe[k].isin]]
<1>1. BondList(u, u.universe)
  BY ListedBond
<1>2. IsFiniteSet(DOMAIN u.universe)
  BY <1>1, FinitePart DEF BondList
<1>3. \A k \in DOMAIN u.universe : w[k] \in Nat
  <2>1. \A k \in DOMAIN u.universe :
          u.universe[k].lot \in Nat /\ u.universe[k].isin \in ISINs
    BY <1>1, ListedBond DEF BondList
  <2> QED
    BY <2>1, Products
<1>4. Plan!Cost(u, lots) = Total(w, DOMAIN u.universe)
  BY CostIsTotal
<1> HIDE DEF w
<1> QED
  BY <1>2, <1>3, <1>4, TotalWithin

LEMMA ComposeBegins ==
  ASSUME NEW u \in Inputs, NEW date, NEW cash0 \in Nat, NEW had \in [ISINs -> Nat],
         NEW buys, BuyList(u, buys), NEW c \in Nat, Paid(u, buys) + cash0 = c,
         NEW f, \/ f = Plan!Compose(u, date, cash0, had, buys)
                \/ f = [Plan!Compose(u, date, cash0, had, buys) EXCEPT !.phase = "buy"]
  PROVE  FrameInv(u, f, c)
<1>1. PICK full : full = (Plan!Holdings(had) >= MaxAutoPositions)
  OBVIOUS
<1>2. PICK budget : budget = IF full THEN Plan!Cost(u, had) + cash0 ELSE cash0
  OBVIOUS
<1>3. PICK seen : seen = IF full THEN Plan!RankedExisting(u, had, date) ELSE u.universe
  OBVIOUS
<1>4. PICK pool : pool = IF full THEN Plan!DurationGuardrail(u, seen) ELSE Plan!Ranked(u, date)
  OBVIOUS
<1>5. PICK none : none = Plan!NoLots
  OBVIOUS
<1>6. PICK phase \in {"open", "buy"} :
        f = [phase |-> phase, cash |-> cash0, spent |-> 0, held |-> had, full |-> full,
             budget |-> budget, seen |-> seen, left |-> budget, pool |-> pool,
             picks |-> none, order |-> <<>>, at |-> 1, again |-> FALSE,
             bought |-> none, buys |-> buys]
  <2>1. Plan!Compose(u, date, cash0, had, buys)
          = [phase |-> "open", cash |-> cash0, spent |-> 0, held |-> had, full |-> full,
             budget |-> budget, seen |-> seen, left |-> budget, pool |-> pool,
             picks |-> none, order |-> <<>>, at |-> 1, again |-> FALSE,
             bought |-> none, buys |-> buys]
    BY <1>1, <1>2, <1>3, <1>4, <1>5, Zenon DEF Plan!Compose
  <2> QED
    BY <2>1
<1>7. budget \in Nat
  BY <1>2, CostIsWorth
<1>8. none \in [ISINs -> Nat] /\ Worth(u, none) = 0 /\ \A i \in ISINs : none[i] = 0
  BY <1>5, WorthNothing DEF Plan!NoLots
<1>9. /\ BondList(u, seen) /\ BondList(u, pool)
      /\ \A k \in DOMAIN pool : pool[k].lot > 0 /\ \E j \in DOMAIN seen : pool[k] = seen[j]
  <2>1. CASE full
    <3>1. BondList(u, seen) /\ \A k \in DOMAIN seen : seen[k].lot > 0
      BY <1>3, <2>1, ExistingList
    <3>2. BondList(u, pool) /\ \A k \in DOMAIN pool : \E j \in DOMAIN seen : pool[k] = seen[j]
      BY <1>4, <2>1, <3>1, GuardrailList
    <3> QED
      BY <3>1, <3>2
  <2>2. CASE ~full
    <3>1. BondList(u, pool) /\ \A k \in DOMAIN pool : pool[k].lot > 0
      BY <1>4, <2>2, RankedList
    <3>2. BondList(u, seen) /\ seen = u.universe
      BY <1>3, <2>2, ListedBond
    <3>3. \A k \in DOMAIN pool : \E j \in DOMAIN seen : pool[k] = seen[j]
      BY <3>1, <3>2 DEF BondList, Listed
    <3> QED
      BY <3>1, <3>2, <3>3
  <2> QED
    BY <2>1, <2>2
<1>10. FrameTypeOK(u, f)
  BY <1>6, <1>7, <1>8 DEF FrameTypeOK, FrameFields
<1>11. ListsOK(u, f)
  BY <1>6, <1>9 DEF ListsOK
<1>12. f.order = <<>> /\ DOMAIN f.order = {} /\ DOMAIN f.order = 1 .. 0
  BY <1>6
<1>13. OrderOK(u, f)
  <2>1. IsSeq(f.order)
    BY <1>12 DEF IsSeq
  <2> QED
    BY <1>12, <2>1 DEF OrderOK
<1>14. MoneyOK(u, f, c)
  <2>1. Paid(u, buys) \in Nat
    BY BuyTerms
  <2>2. /\ f.left = budget /\ f.budget = budget /\ f.picks = none /\ f.full = full
        /\ f.cash = cash0 /\ f.spent = 0 /\ f.phase \in {"open", "buy"} /\ f.buys = buys
    BY <1>6
  <2>3. full \/ budget = cash0
    BY <1>2
  <2> QED
    BY <1>7, <1>8, <2>1, <2>2, <2>3 DEF MoneyOK
<1>15. CapsOK(f)
  <2>1. \A k \in DOMAIN f.pool : f.picks[f.pool[k].isin] = 0
    <3>1. \A k \in DOMAIN pool : pool[k].isin \in ISINs
      BY <1>9, ListedBond DEF BondList
    <3> QED
      BY <1>6, <1>8, <3>1
  <2> QED
    BY <2>1 DEF CapsOK
<1> QED
  BY <1>10, <1>11, <1>13, <1>14, <1>15 DEF FrameInv

LEMMA DeployBegins ==
  ASSUME NEW u \in Inputs, NEW date, NEW c \in Nat, NEW had \in [ISINs -> Nat], NEW confirmed
  PROVE  FrameInv(u, Plan!Deploy(u, date, c, had, confirmed), c)
<1>3. PICK g : g = Plan!Deploy(u, date, c, had, confirmed)
  OBVIOUS
<1>4. PICK none : none = <<>>
  OBVIOUS
<1>0. BuyList(u, none) /\ Paid(u, none) = 0
  <2>1. DOMAIN none = {} /\ none \in Seq([isin : Isins(u), lots : Nat])
    BY <1>4
  <2>2. BuyList(u, none)
    BY <2>1 DEF BuyList, Distinct
  <2>3. Paid(u, none) = 0
    BY <2>1, FS_EmptySet, TotalOfNone DEF Paid
  <2> QED
    BY <2>2, <2>3
<1>1. CASE confirmed = None
  <2>1. g = Plan!Compose(u, date, c, had, none)
    BY <1>1, <1>3, <1>4 DEF Plan!Deploy
  <2>2. Paid(u, none) + c = c
    BY <1>0
  <2>3. FrameInv(u, g, c)
    BY <1>0, <2>1, <2>2, ComposeBegins
  <2> QED
    BY <1>3, <2>3
<1>2. CASE confirmed # None
  <2>1. PICK lot : lot = IF Plan!Known(u, confirmed) THEN Plan!BondOf(u, confirmed).lot ELSE 0
    OBVIOUS
  <2>2. PICK lots : lots = IF lot = 0 THEN 0 ELSE c \div lot
    OBVIOUS
  <2>3. PICK buys : buys = <<[isin |-> confirmed, lots |-> lots]>>
    OBVIOUS
  <2>4. g = IF lots = 0 THEN [Plan!Compose(u, date, c, had, none) EXCEPT !.phase = "buy"]
            ELSE IF c - lots * lot = 0
            THEN [Plan!Compose(u, date, 0, had, buys) EXCEPT !.phase = "buy"]
            ELSE Plan!Compose(u, date, c - lots * lot,
                              [had EXCEPT ![confirmed] = @ + lots], buys)
    BY <1>3, <1>4, <1>2, <2>1, <2>2, <2>3, Zenon DEF Plan!Deploy
  <2>5. CASE lots = 0
    <3>1. Paid(u, none) + c = c
      BY <1>0
    <3>2. FrameInv(u, g, c)
      BY <1>0, <2>4, <2>5, <3>1, ComposeBegins
    <3> QED
      BY <1>3, <3>2
  <2>6. CASE lots # 0
    <3>1. lot # 0 /\ Plan!Known(u, confirmed)
      BY <2>1, <2>2, <2>6
    <3>2. confirmed \in Isins(u) /\ confirmed \in ISINs /\ lot \in Nat \ {0}
          /\ lot = Price(u, confirmed)
      BY <2>1, <3>1, ListedBond DEF Price
    <3>3. lots \in Nat /\ lots * lot <= c /\ lots * lot \in Nat
      BY <2>2, <3>1, <3>2, Quotient, Products
    <3>4. BuyList(u, buys) /\ Paid(u, buys) = lots * lot
      <4>1. buys = Append(none, [isin |-> confirmed, lots |-> lots])
        BY <1>4, <2>3
      <4>2. DOMAIN none = {} /\ \A k \in DOMAIN none : none[k].isin # confirmed
        BY <1>4
      <4>3. BuyList(u, buys) /\ Paid(u, buys) = Paid(u, none) + lots * Price(u, confirmed)
        <5>1. BuyList(u, none) /\ confirmed \in Isins(u) /\ lots \in Nat
          BY <1>0, <3>2, <3>3
        <5> QED
          BY ONLY u \in Inputs, <4>1, <4>2, <5>1, AppendPaid, ZenonT(60)
      <4> QED
        BY <1>0, <3>2, <3>3, <4>3
    <3>5. PICK rest \in Nat : rest = c - lots * lot
      BY <3>3
    <3>6. Paid(u, buys) + rest = c /\ rest = c - lots * lot
      BY <3>3, <3>4, <3>5
    <3>7. [had EXCEPT ![confirmed] = @ + lots] \in [ISINs -> Nat]
      BY <3>2, <3>3
    <3>8. \/ g = [Plan!Compose(u, date, rest, had, buys) EXCEPT !.phase = "buy"]
          \/ g = Plan!Compose(u, date, rest, [had EXCEPT ![confirmed] = @ + lots], buys)
      BY <2>4, <2>6, <3>5
    <3>9. FrameInv(u, g, c)
      BY <3>4, <3>6, <3>7, <3>8, ComposeBegins
    <3> QED
      BY <1>3, <3>9
  <2> QED
    BY <2>5, <2>6
<1> QED
  BY <1>1, <1>2

-----------------------------------------------------------------------------
\* What AutoCompose keeps in all its loops.
BuildInv(u, f, c) ==
  /\ FrameTypeOK(u, f) /\ ListsOK(u, f) /\ OrderOK(u, f)
  /\ f.left + Worth(u, f.picks) = f.budget
  /\ f.full \/ f.budget = f.cash
  /\ f.spent = 0 /\ Paid(u, f.buys) + f.cash = c
  /\ \A k \in DOMAIN f.pool : f.picks[f.pool[k].isin] > 0 => Capped(f, f.pool[k])

Building == {"open", "topup", "fill"}

LEMMA Built ==
  ASSUME NEW u \in Inputs, NEW f, NEW c \in Nat, FrameInv(u, f, c), f.phase \in Building
  PROVE  BuildInv(u, f, c)
<1>1. f.phase # "buy" /\ f.phase \in {"open", "topup", "fill"}
  BY DEF Building
<1>2. f.spent = 0 /\ Paid(u, f.buys) + f.cash = c + f.spent
  BY <1>1 DEF FrameInv, MoneyOK
<1>3. Paid(u, f.buys) + f.cash = c
  BY <1>2
<1> QED
  BY <1>2, <1>3 DEF FrameInv, MoneyOK, CapsOK, BuildInv

\* h is f at another place of its loops.
Elsewhere(f, h) ==
  /\ DOMAIN h = DOMAIN f
  /\ h.phase \in Building \cup {"target", "sweep", "buy"} /\ h.at \in Nat \ {0}
  /\ \A x \in FrameFields \ {"phase", "at", "again"} : h[x] = f[x]

LEMMA ElsewhereIs ==
  ASSUME NEW u, NEW f, FrameTypeOK(u, f), NEW h, Elsewhere(f, h)
  PROVE  /\ h.cash = f.cash /\ h.spent = f.spent /\ h.held = f.held /\ h.full = f.full
         /\ h.budget = f.budget /\ h.seen = f.seen /\ h.left = f.left /\ h.pool = f.pool
         /\ h.picks = f.picks /\ h.order = f.order /\ h.bought = f.bought /\ h.buys = f.buys
         /\ FrameTypeOK(u, h)
BY DEF Elsewhere, FrameTypeOK, FrameFields, Building

\* The caps speak of the budget, of what is seen and held, and of the picks.
LEMMA CappedAlike ==
  ASSUME NEW f, NEW h, h.budget = f.budget, h.seen = f.seen, h.picks = f.picks, h.held = f.held,
         NEW b, Capped(f, b)
  PROVE  Capped(h, b)
<1>1. Plan!MaxPosition(h) = Plan!MaxPosition(f)
  BY DEF Plan!MaxPosition
<1>2. \A G : Plan!Exposed(h, G) = Plan!Exposed(f, G)
  BY ExposedIsTotal
<1>3. \A s : Plan!SectorSpent(h, s) = Plan!SectorSpent(f, s)
             /\ Plan!IssuerSpent(h, s) = Plan!IssuerSpent(f, s)
  BY <1>2 DEF Plan!SectorSpent, Plan!IssuerSpent
<1> QED
  BY <1>1, <1>3 DEF Capped

LEMMA BuiltElsewhere ==
  ASSUME NEW u, NEW f, NEW c, BuildInv(u, f, c), NEW h, Elsewhere(f, h)
  PROVE  BuildInv(u, h, c)
<1>1. FrameTypeOK(u, f)
  BY DEF BuildInv
<1>2. /\ h.cash = f.cash /\ h.spent = f.spent /\ h.held = f.held /\ h.full = f.full
      /\ h.budget = f.budget /\ h.seen = f.seen /\ h.left = f.left /\ h.pool = f.pool
      /\ h.picks = f.picks /\ h.order = f.order /\ h.bought = f.bought /\ h.buys = f.buys
      /\ FrameTypeOK(u, h)
  BY <1>1, ElsewhereIs
<1>3. ListsOK(u, h) /\ OrderOK(u, h)
  BY <1>2 DEF BuildInv, ListsOK, OrderOK
<1>4. \A k \in DOMAIN h.pool : h.picks[h.pool[k].isin] > 0 => Capped(h, h.pool[k])
  BY <1>2, CappedAlike DEF BuildInv
<1> QED
  BY <1>2, <1>3, <1>4 DEF BuildInv

LEMMA FrameOfBuilt ==
  ASSUME NEW u \in Inputs, NEW f, NEW c \in Nat, BuildInv(u, f, c),
         f.phase \in Building \cup {"target"}, f.phase = "target" => f.at = 1,
         f.phase = "open" => \A k \in DOMAIN f.pool : k >= f.at => f.picks[f.pool[k].isin] = 0
  PROVE  FrameInv(u, f, c)
<1>1. CapsOK(f)
  BY DEF BuildInv, CapsOK
<1>2. f.phase = "target" => f.spent = Total(Terms(u, f.picks), Passed(f))
  <2> SUFFICES ASSUME f.phase = "target" PROVE f.spent = Total(Terms(u, f.picks), Passed(f))
    OBVIOUS
  <2>1. Passed(f) = {}
    <3>1. PICK n \in Nat : DOMAIN f.order = 1 .. n
      BY DEF BuildInv, OrderOK
    <3>2. \A j \in DOMAIN f.order : ~(j < f.at)
      BY <3>1
    <3> QED
      BY <3>2 DEF Passed
  <2>2. Total(Terms(u, f.picks), {}) = 0
    BY FS_EmptySet, TotalStep
  <2> QED
    BY <2>1, <2>2 DEF BuildInv
<1>3. MoneyOK(u, f, c)
  <2>1. f.phase # "buy"
    BY DEF Building
  <2>2. f.spent = 0 /\ f.cash \in Nat /\ Paid(u, f.buys) + f.cash = c + f.spent /\ f.spent <= f.cash
    BY DEF BuildInv, FrameTypeOK
  <2> QED
    BY <1>2, <2>1, <2>2 DEF MoneyOK, BuildInv
<1> QED
  BY <1>1, <1>3 DEF FrameInv, BuildInv

-----------------------------------------------------------------------------
(* A pick. *)

\* The frame after n lots more of b.
LEMMA PickFields ==
  ASSUME NEW u, NEW f, FrameTypeOK(u, f), NEW b, b.isin \in ISINs, NEW n \in Nat, NEW g,
         g = Plan!Pick(f, b, n), n * b.lot \in Nat, n * b.lot <= f.left
  PROVE  /\ FrameTypeOK(u, g)
         /\ g.phase = f.phase /\ g.at = f.at /\ g.again = f.again
         /\ g.cash = f.cash /\ g.spent = f.spent /\ g.held = f.held /\ g.full = f.full
         /\ g.budget = f.budget /\ g.seen = f.seen /\ g.pool = f.pool
         /\ g.bought = f.bought /\ g.buys = f.buys
         /\ g.picks = [f.picks EXCEPT ![b.isin] = @ + n] /\ g.left = f.left - n * b.lot
         /\ g.order = IF f.picks[b.isin] = 0 THEN Append(f.order, b.isin) ELSE f.order
<1>1. g = [f EXCEPT !.picks = [f.picks EXCEPT ![b.isin] = @ + n], !.left = @ - n * b.lot,
                    !.order = IF f.picks[b.isin] = 0 THEN Append(@, b.isin) ELSE @]
  BY DEF Plan!Pick, FrameTypeOK, FrameFields
<1>2. PICK more : more = [f.picks EXCEPT ![b.isin] = @ + n]
  OBVIOUS
<1>3. more \in [ISINs -> Nat]
  BY <1>2 DEF FrameTypeOK
<1>4. PICK rest \in Nat : rest = f.left - n * b.lot
  BY DEF FrameTypeOK
<1>5. PICK o : o = IF f.picks[b.isin] = 0 THEN Append(f.order, b.isin) ELSE f.order
  OBVIOUS
<1>6. g = [f EXCEPT !.picks = more, !.left = rest, !.order = o]
  BY <1>1, <1>2, <1>4, <1>5 DEF FrameTypeOK, FrameFields
<1>7. /\ DOMAIN g = DOMAIN f
      /\ g.phase = f.phase /\ g.at = f.at /\ g.again = f.again
      /\ g.cash = f.cash /\ g.spent = f.spent /\ g.held = f.held /\ g.full = f.full
      /\ g.budget = f.budget /\ g.seen = f.seen /\ g.pool = f.pool
      /\ g.bought = f.bought /\ g.buys = f.buys
      /\ g.picks = more /\ g.left = rest /\ g.order = o
  BY <1>6 DEF FrameTypeOK, FrameFields
<1>8. FrameTypeOK(u, g)
  BY <1>3, <1>7 DEF FrameTypeOK
<1> QED
  BY <1>2, <1>4, <1>5, <1>7, <1>8

\* What is counted with b grows by its price, what is counted without it does not.
LEMMA PickExposes ==
  ASSUME NEW u \in Inputs, NEW f, FrameTypeOK(u, f), BondList(u, f.seen),
         NEW j \in DOMAIN f.seen, NEW b, b = f.seen[j], NEW n \in Nat,
         NEW g, g.seen = f.seen, g.held = f.held, g.picks = [f.picks EXCEPT ![b.isin] = @ + n],
         NEW G, G \subseteq DOMAIN f.seen
  PROVE  Plan!Exposed(g, G) = IF j \in G THEN Plan!Exposed(f, G) + n * b.lot
                              ELSE Plan!Exposed(f, G)
<1>1. \A k \in DOMAIN f.seen : /\ f.seen[k].isin \in ISINs /\ f.seen[k].lot \in Nat
                               /\ k # j => f.seen[k].isin # b.isin
  BY ListedBond DEF BondList, Distinct
<1>2. IsFiniteSet(G)
  <2>1. IsFiniteSet(DOMAIN f.seen)
    BY FinitePart DEF BondList
  <2> QED
    BY <2>1, FS_Subset
<1> DEFINE w == [k \in G |-> f.seen[k].lot * (f.held[f.seen[k].isin] + f.picks[f.seen[k].isin])]
           v == [k \in G |-> g.seen[k].lot * (g.held[g.seen[k].isin] + g.picks[g.seen[k].isin])]
<1>3. Plan!Exposed(f, G) = Total(w, G) /\ Plan!Exposed(g, G) = Total(v, G)
  BY ExposedIsTotal
<1>4. \A i \in ISINs : f.held[i] \in Nat /\ f.picks[i] \in Nat
                       /\ g.picks[i] = IF i = b.isin THEN f.picks[i] + n ELSE f.picks[i]
  BY DEF FrameTypeOK
<1>5. \A k \in G : w[k] \in Int
  BY <1>1, <1>4, Products
<1>6. \A k \in G \ {j} : v[k] = w[k]
  BY <1>1, <1>4
<1>7. j \in G => v[j] = w[j] + n * b.lot /\ v[j] \in Int /\ n * b.lot \in Nat
  <2> SUFFICES ASSUME j \in G PROVE v[j] = w[j] + n * b.lot /\ v[j] \in Int /\ n * b.lot \in Nat
    OBVIOUS
  <2>1. PICK l \in Nat, h \in Nat, p \in Nat :
          l = b.lot /\ h = f.held[b.isin] /\ p = f.picks[b.isin]
    BY <1>1, <1>4
  <2>2. w[j] = l * (h + p) /\ v[j] = l * (h + (p + n))
    BY <1>1, <1>4, <2>1
  <2>3. l * (h + (p + n)) = l * (h + p) + n * l
    OBVIOUS
  <2>4. n * l \in Nat /\ l * (h + p) \in Nat
    BY Products
  <2>5. PICK x \in Nat, y \in Nat : x = n * l /\ y = l * (h + p)
    BY <2>4
  <2>6. w[j] = y /\ v[j] = y + x /\ n * b.lot = x
    BY <2>1, <2>2, <2>3, <2>5
  <2> QED
    BY <2>6
<1> HIDE DEF w, v
<1>8. CASE j \in G
  <2>1. \A k \in G : w[k] \in Int /\ v[k] \in Int
    BY <1>5, <1>6, <1>7, <1>8
  <2>2. Total(v, G) = Total(w, G) - w[j] + v[j] /\ Total(w, G) \in Int
    BY <1>2, <1>6, <1>8, <2>1, TotalChanged, TotalAdds
  <2> QED
    BY <1>3, <1>5, <1>7, <1>8, <2>2
<1>9. CASE j \notin G
  <2>1. \A k \in G : w[k] = v[k]
    BY <1>6, <1>9
  <2>2. Total(w, G) = Total(v, G)
    BY <1>2, <2>1, TotalSame
  <2> QED
    BY <1>3, <1>9, <2>2
<1> QED
  BY <1>8, <1>9

\* A sector or an issuer is within its share after the pick, or is not touched by it.
LEMMA PickSpends ==
  ASSUME NEW u \in Inputs, NEW f, FrameTypeOK(u, f), ListsOK(u, f),
         NEW k \in DOMAIN f.pool, NEW b, b = f.pool[k], NEW n \in Nat,
         Plan!WithinCaps(f, b, n * b.lot),
         NEW g, g.seen = f.seen, g.held = f.held, g.picks = [f.picks EXCEPT ![b.isin] = @ + n]
  PROVE  /\ \A s : s # None => /\ s = b.sector => 100 * Plan!SectorSpent(g, s) <= MaxSectorShare * f.budget
                               /\ s # b.sector => Plan!SectorSpent(g, s) = Plan!SectorSpent(f, s)
         /\ \A s : s # None => /\ s = b.issuer => 100 * Plan!IssuerSpent(g, s) <= MaxIssuerShare * f.budget
                               /\ s # b.issuer => Plan!IssuerSpent(g, s) = Plan!IssuerSpent(f, s)
<1>1. PICK j \in DOMAIN f.seen : b = f.seen[j]
  BY DEF ListsOK
<1>2. BondList(u, f.seen)
  BY DEF ListsOK
<1>3. \A G : G \subseteq DOMAIN f.seen =>
        Plan!Exposed(g, G) = IF j \in G THEN Plan!Exposed(f, G) + n * b.lot
                             ELSE Plan!Exposed(f, G)
  BY <1>1, <1>2, PickExposes
<1>4. ASSUME NEW s, s # None
      PROVE  /\ s = b.sector => 100 * Plan!SectorSpent(g, s) <= MaxSectorShare * f.budget
             /\ s # b.sector => Plan!SectorSpent(g, s) = Plan!SectorSpent(f, s)
  <2>1. PICK G : G = {i \in DOMAIN f.seen : f.seen[i].sector = s}
    OBVIOUS
  <2>2. G \subseteq DOMAIN f.seen /\ (j \in G <=> s = b.sector)
    BY <1>1, <2>1
  <2>3. /\ Plan!SectorSpent(g, s) = Plan!Exposed(g, G)
        /\ Plan!SectorSpent(f, s) = Plan!Exposed(f, G)
    BY <2>1 DEF Plan!SectorSpent
  <2>4. s = b.sector => 100 * (Plan!SectorSpent(f, s) + n * b.lot) <= MaxSectorShare * f.budget
    BY <1>4 DEF Plan!WithinCaps
  <2> QED
    BY <1>3, <2>2, <2>3, <2>4
<1>5. ASSUME NEW s, s # None
      PROVE  /\ s = b.issuer => 100 * Plan!IssuerSpent(g, s) <= MaxIssuerShare * f.budget
             /\ s # b.issuer => Plan!IssuerSpent(g, s) = Plan!IssuerSpent(f, s)
  <2>1. PICK G : G = {i \in DOMAIN f.seen : f.seen[i].issuer = s}
    OBVIOUS
  <2>2. G \subseteq DOMAIN f.seen /\ (j \in G <=> s = b.issuer)
    BY <1>1, <2>1
  <2>3. /\ Plan!IssuerSpent(g, s) = Plan!Exposed(g, G)
        /\ Plan!IssuerSpent(f, s) = Plan!Exposed(f, G)
    BY <2>1 DEF Plan!IssuerSpent
  <2>4. s = b.issuer => 100 * (Plan!IssuerSpent(f, s) + n * b.lot) <= MaxIssuerShare * f.budget
    BY <1>5 DEF Plan!WithinCaps
  <2> QED
    BY <1>3, <2>2, <2>3, <2>4
<1> QED
  BY <1>4, <1>5

\* A pick that is allowed keeps what AutoCompose keeps.
LEMMA PickBuild ==
  ASSUME NEW u \in Inputs, NEW f, NEW c \in Nat, BuildInv(u, f, c),
         NEW k \in DOMAIN f.pool, NEW b, b = f.pool[k], NEW n \in Nat \ {0},
         n * b.lot <= f.left, Plan!WithinCaps(f, b, n * b.lot),
         100 * (f.picks[b.isin] + n) * b.lot <= Plan!MaxPosition(f),
         NEW g, g = Plan!Pick(f, b, n)
  PROVE  /\ BuildInv(u, g, c)
         /\ g.phase = f.phase /\ g.at = f.at /\ g.again = f.again /\ g.pool = f.pool
         /\ \A i \in ISINs \ {b.isin} : g.picks[i] = f.picks[i]
<1>1. FrameTypeOK(u, f) /\ ListsOK(u, f) /\ OrderOK(u, f)
  BY DEF BuildInv
<1>2. /\ b \in Listed(u) /\ b.isin \in Isins(u) /\ b.isin \in ISINs /\ b.lot \in Nat
      /\ Price(u, b.isin) = b.lot /\ b.lot > 0
  BY <1>1, ListedBond DEF ListsOK, BondList
<1>3. n * b.lot \in Nat
  BY <1>2, Products
<1>4. /\ FrameTypeOK(u, g)
      /\ g.phase = f.phase /\ g.at = f.at /\ g.again = f.again
      /\ g.cash = f.cash /\ g.spent = f.spent /\ g.held = f.held /\ g.full = f.full
      /\ g.budget = f.budget /\ g.seen = f.seen /\ g.pool = f.pool
      /\ g.bought = f.bought /\ g.buys = f.buys
      /\ g.picks = [f.picks EXCEPT ![b.isin] = @ + n] /\ g.left = f.left - n * b.lot
      /\ g.order = IF f.picks[b.isin] = 0 THEN Append(f.order, b.isin) ELSE f.order
  BY <1>1, <1>2, <1>3, PickFields
<1>5. /\ f.picks \in [ISINs -> Nat]
      /\ \A i \in ISINs : g.picks[i] = IF i = b.isin THEN f.picks[i] + n ELSE f.picks[i]
  BY <1>1, <1>2, <1>4 DEF FrameTypeOK
<1>6. ListsOK(u, g)
  BY <1>1, <1>4 DEF ListsOK
<1>7. OrderOK(u, g)
  <2>0. \A i \in Isins(u) : i \in ISINs /\ (f.picks[i] > 0 => g.picks[i] > 0) /\ g.picks[b.isin] > 0
    BY <1>2, <1>5, ListedBond
  <2>1. CASE f.picks[b.isin] = 0
    <3>1. PICK o : o = f.order
      OBVIOUS
    <3>2. IsSeq(o) /\ \A j \in DOMAIN o : o[j] \in Isins(u) /\ Price(u, o[j]) > 0
                                      /\ f.picks[o[j]] > 0
      BY <1>1, <3>1 DEF OrderOK
    <3>3. PICK p : p = Append(o, b.isin)
      OBVIOUS
    <3>4. g.order = p
      BY <1>4, <2>1, <3>1, <3>3
    <3>5. /\ IsSeq(p) /\ Len(o) \in Nat /\ DOMAIN o = 1 .. Len(o)
          /\ DOMAIN p = DOMAIN o \cup {Len(o) + 1} /\ Len(o) + 1 \notin DOMAIN o
          /\ p[Len(o) + 1] = b.isin
          /\ \A j \in DOMAIN o : p[j] = o[j]
      BY <3>2, <3>3, Appended
    <3>6. \A j \in DOMAIN o : o[j] # b.isin
      BY <2>1, <3>2, <1>5, <1>2
    <3>7. \A i, j \in DOMAIN o : o[i] = o[j] => i = j
      BY <1>1, <3>1 DEF OrderOK
    <3>8. \A i, j \in DOMAIN p : p[i] = p[j] => i = j
      BY <3>5, <3>6, <3>7
    <3>9. \A j \in DOMAIN p : p[j] \in Isins(u) /\ Price(u, p[j]) > 0 /\ g.picks[p[j]] > 0
      BY <1>2, <2>0, <3>2, <3>5
    <3>10. \E m \in Nat : DOMAIN p = 1 .. m
      <4>1. PICK l \in Nat : l = Len(o)
        BY <3>5
      <4>2. DOMAIN p = 1 .. l + 1
        BY <3>5, <4>1
      <4> QED
        BY <4>2
    <3> QED
      BY <3>4, <3>5, <3>8, <3>9, <3>10 DEF OrderOK
  <2>2. CASE f.picks[b.isin] # 0
    <3>1. g.order = f.order
      BY <1>4, <2>2
    <3> QED
      BY <1>1, <2>0, <3>1 DEF OrderOK
  <2> QED
    BY <2>1, <2>2
<1>8. g.left + Worth(u, g.picks) = g.budget
  <2>1. Worth(u, g.picks) = Worth(u, f.picks) + n * b.lot /\ Worth(u, f.picks) \in Nat
    BY <1>2, <1>4, <1>5, WorthAdds, WorthTerms
  <2>2. f.left + Worth(u, f.picks) = f.budget /\ f.left \in Nat
    BY <1>1 DEF BuildInv, FrameTypeOK
  <2> QED
    BY <1>3, <1>4, <2>1, <2>2
<1>9. /\ \A s : s # None => /\ s = b.sector => 100 * Plan!SectorSpent(g, s) <= MaxSectorShare * f.budget
                            /\ s # b.sector => Plan!SectorSpent(g, s) = Plan!SectorSpent(f, s)
      /\ \A s : s # None => /\ s = b.issuer => 100 * Plan!IssuerSpent(g, s) <= MaxIssuerShare * f.budget
                            /\ s # b.issuer => Plan!IssuerSpent(g, s) = Plan!IssuerSpent(f, s)
  BY <1>1, <1>4, PickSpends
<1>10. Plan!MaxPosition(g) = Plan!MaxPosition(f)
  BY <1>4 DEF Plan!MaxPosition
<1>11. ASSUME NEW q \in DOMAIN f.pool, g.picks[f.pool[q].isin] > 0
       PROVE  Capped(g, f.pool[q])
  <2>1. PICK d : d = f.pool[q]
    OBVIOUS
  <2>2. d.isin \in ISINs /\ (d.isin = b.isin => d = b)
    <3>1. d \in Listed(u)
      BY <1>1, <2>1 DEF ListsOK, BondList
    <3> QED
      BY <1>2, <3>1, ListedBond
  <2>3. CASE d.isin = b.isin
    <3>1. 100 * g.picks[d.isin] * d.lot <= Plan!MaxPosition(g)
      BY <1>5, <1>10, <2>2, <2>3
    <3> QED
      BY <1>4, <1>9, <2>1, <2>2, <2>3, <3>1 DEF Capped
  <2>4. CASE d.isin # b.isin
    <3>1. g.picks[d.isin] = f.picks[d.isin]
      BY <1>5, <2>2, <2>4
    <3>2. Capped(f, d)
      BY <1>11, <2>1, <3>1 DEF BuildInv
    <3> QED
      BY <1>4, <1>9, <1>10, <2>1, <3>1, <3>2 DEF Capped
  <2> QED
    BY <2>3, <2>4
<1>12. BuildInv(u, g, c)
  <2>1. f.full \/ f.budget = f.cash
    BY DEF BuildInv
  <2>2. f.spent = 0 /\ Paid(u, f.buys) + f.cash = c
    BY DEF BuildInv
  <2> QED
    BY <1>4, <1>6, <1>7, <1>8, <1>11, <2>1, <2>2 DEF BuildInv
<1> QED
  BY <1>4, <1>5, <1>12

LEMMA GotoIs ==
  ASSUME NEW u, NEW f, FrameTypeOK(u, f), NEW p \in Building \cup {"target", "sweep", "buy"}, NEW g,
         g = Plan!Goto(f, p)
  PROVE  Elsewhere(f, g) /\ g.phase = p /\ g.at = 1
<1>1. g = [f EXCEPT !.phase = p, !.at = 1, !.again = FALSE]
  BY DEF Plan!Goto
<1>2. DOMAIN f = FrameFields
  BY DEF FrameTypeOK
<1>3. /\ DOMAIN g = DOMAIN f /\ g.phase = p /\ g.at = 1
      /\ \A x \in FrameFields \ {"phase", "at", "again"} : g[x] = f[x]
  BY <1>1, <1>2 DEF FrameFields
<1> QED
  BY <1>3 DEF Elsewhere

LEMMA AdvanceIs ==
  ASSUME NEW u, NEW f, FrameTypeOK(u, f), f.phase \in Building \cup {"target"}, NEW g, g = Plan!Advance(f)
  PROVE  Elsewhere(f, g) /\ g.phase = f.phase /\ g.at = f.at + 1 /\ g.again = f.again
<1>1. PICK n \in Nat \ {0} : n = f.at + 1
  BY DEF FrameTypeOK
<1>2. g = [f EXCEPT !.at = n]
  BY <1>1 DEF Plan!Advance, FrameTypeOK, FrameFields
<1>3. DOMAIN f = FrameFields
  BY DEF FrameTypeOK
<1>4. /\ DOMAIN g = DOMAIN f /\ g.phase = f.phase /\ g.at = n /\ g.again = f.again
      /\ \A x \in FrameFields \ {"phase", "at", "again"} : g[x] = f[x]
  BY <1>2, <1>3 DEF FrameFields
<1> QED
  BY <1>1, <1>4 DEF Elsewhere

\* Where a loop goes when it ends, or passes a bond over.
LEMMA GotoKeeps ==
  ASSUME NEW u \in Inputs, NEW f, NEW c \in Nat, BuildInv(u, f, c),
         NEW p \in (Building \cup {"target"}) \ {"open"}, NEW g, g = Plan!Goto(f, p)
  PROVE  FrameInv(u, g, c)
<1>1. Elsewhere(f, g) /\ g.phase = p /\ g.at = 1
  BY GotoIs DEF BuildInv
<1>2. BuildInv(u, g, c)
  BY <1>1, BuiltElsewhere
<1> QED
  BY <1>1, <1>2, FrameOfBuilt DEF Building

LEMMA AdvanceKeeps ==
  ASSUME NEW u \in Inputs, NEW f, NEW c \in Nat, BuildInv(u, f, c), f.phase \in Building,
         NEW g, g = Plan!Advance(f),
         f.phase = "open" =>
           \A k \in DOMAIN f.pool : k >= f.at + 1 => f.picks[f.pool[k].isin] = 0
  PROVE  FrameInv(u, g, c)
<1>0. FrameTypeOK(u, f)
  BY DEF BuildInv
<1>1. Elsewhere(f, g) /\ g.phase = f.phase /\ g.at = f.at + 1
  BY <1>0, AdvanceIs
<1>2. BuildInv(u, g, c)
  BY <1>1, BuiltElsewhere
<1>3. g.pool = f.pool /\ g.picks = f.picks
  BY <1>0, <1>1, ElsewhereIs
<1>4. g.phase = "open" => \A k \in DOMAIN g.pool : k >= g.at => g.picks[g.pool[k].isin] = 0
  BY <1>1, <1>3
<1> QED
  BY <1>1, <1>2, <1>4, FrameOfBuilt DEF Building

\* Lots that the limit of a position and the rest both pay for.
LEMMA LotsFit ==
  ASSUME NEW lot \in Nat \ {0}, NEW most \in Nat, NEW rest \in Nat, NEW wanted \in Nat, NEW n,
         n = Plan!Least(wanted, Plan!Least(most \div (100 * lot), rest \div lot))
  PROVE  n \in Nat /\ n * lot <= rest /\ 100 * n * lot <= most
<1>1. PICK p \in Nat, q \in Nat : p = most \div (100 * lot) /\ q = rest \div lot
  BY Quotient
<1>2. n \in Nat /\ n <= p /\ n <= q
  BY <1>1 DEF Plan!Least
<1>3. n * lot <= rest
  BY <1>1, <1>2, Quotient
<1>4. n * (100 * lot) <= most
  <2>1. 100 * lot \in Nat \ {0}
    OBVIOUS
  <2> QED
    BY <1>1, <1>2, <2>1, Quotient
<1>5. n * (100 * lot) = 100 * n * lot
  BY <1>2
<1> QED
  BY <1>2, <1>3, <1>4, <1>5

LEMMA PositionLimits ==
  ASSUME NEW u, NEW f, FrameTypeOK(u, f)
  PROVE  Plan!MaxPosition(f) \in Nat /\ Plan!MinPosition(f) \in Nat
<1>1. f.budget \in Nat /\ MaxPositionShare \in Nat /\ MinPositionShare \in Nat /\ MinPositionAmount \in Nat
  BY CashAssumption DEF FrameTypeOK
<1>2. MaxPositionShare * f.budget \in Nat /\ MinPositionShare * f.budget \in Nat
      /\ 100 * MinPositionAmount \in Nat
  BY <1>1, Products
<1> QED
  BY <1>2 DEF Plan!MaxPosition, Plan!MinPosition

LEMMA TargetFits ==
  ASSUME NEW u, NEW f, FrameTypeOK(u, f), NEW b, b.lot \in Nat \ {0}, NEW n,
         n = Plan!TargetLots(f, b)
  PROVE  /\ n \in Nat
         /\ n # 0 => /\ n * b.lot <= f.left /\ 100 * n * b.lot <= Plan!MaxPosition(f)
                     /\ Plan!WithinCaps(f, b, n * b.lot)
<1>1. PICK most \in Nat, least \in Nat : most = Plan!MaxPosition(f) /\ least = Plan!MinPosition(f)
  BY PositionLimits
<1>2. PICK rounded : rounded = Plan!Most(1, (2 * f.budget + Plan!TargetCount * b.lot)
                                              \div (2 * Plan!TargetCount * b.lot))
  OBVIOUS
<1>3. PICK small : small = (100 * rounded * b.lot < least)
  OBVIOUS
<1>4. PICK wanted : wanted = IF small THEN least \div (100 * b.lot) + 1 ELSE rounded
  OBVIOUS
<1>5. PICK lots : lots = Plan!Least(wanted, Plan!Least(most \div (100 * b.lot), f.left \div b.lot))
  OBVIOUS
<1>6. n = IF (small /\ lots < wanted) \/ 100 * lots * b.lot < least
              \/ ~Plan!WithinCaps(f, b, lots * b.lot) THEN 0 ELSE lots
  BY <1>1, <1>2, <1>3, <1>4, <1>5, ZenonT(60) DEF Plan!TargetLots
<1>7. rounded \in Nat
  <2>1. PICK t \in Nat \ {0} : t = Plan!TargetCount
    <3>1. PICK x \in Nat : x = (200 + TargetPositionShare) \div (2 * TargetPositionShare)
      BY CashAssumption
    <3>2. MinAutoPositions \in Nat \ {0} /\ MaxAutoPositions \in Nat
      BY CashAssumption
    <3> QED
      BY <3>1, <3>2 DEF Plan!TargetCount, Plan!Most, Plan!Least
  <2>2. 2 * t * b.lot \in Nat \ {0} /\ 2 * f.budget + t * b.lot \in Nat
    <3>1. t * b.lot \in Nat /\ t * b.lot # 0 /\ 2 * t * b.lot = 2 * (t * b.lot) /\ f.budget \in Nat
      BY DEF FrameTypeOK
    <3> QED
      BY <3>1
  <2>3. (2 * f.budget + t * b.lot) \div (2 * t * b.lot) \in Nat
    BY <2>2, Quotient
  <2> QED
    BY <1>2, <2>1, <2>3 DEF Plan!Most
<1>8. wanted \in Nat
  <2>1. least \div (100 * b.lot) \in Nat
    <3>1. 100 * b.lot \in Nat \ {0}
      OBVIOUS
    <3> QED
      BY <3>1, Quotient
  <2> QED
    BY <1>4, <1>7, <2>1
<1>9. lots \in Nat /\ lots * b.lot <= f.left /\ 100 * lots * b.lot <= most
  <2>1. f.left \in Nat
    BY DEF FrameTypeOK
  <2> QED
    BY <1>5, <1>8, <2>1, LotsFit, ZenonT(60)
<1> QED
  BY <1>1, <1>6, <1>9

\* The bond a loop is at.
LEMMA BondAt ==
  ASSUME NEW u \in Inputs, NEW f, FrameTypeOK(u, f), ListsOK(u, f), ~(f.at > Len(f.pool))
  PROVE  /\ f.at \in DOMAIN f.pool
         /\ f.pool[f.at].isin \in ISINs /\ f.pool[f.at].lot \in Nat \ {0}
         /\ f.picks[f.pool[f.at].isin] \in Nat
<1>1. f.at \in DOMAIN f.pool
  <2>1. IsSeq(f.pool) /\ f.at \in Nat \ {0}
    BY DEF ListsOK, BondList, FrameTypeOK
  <2>2. Len(f.pool) \in Nat /\ DOMAIN f.pool = 1 .. Len(f.pool)
    BY <2>1 DEF IsSeq
  <2> QED
    BY <2>1, <2>2
<1>2. f.pool[f.at] \in Listed(u) /\ f.pool[f.at].lot > 0
  BY <1>1 DEF ListsOK, BondList
<1>3. f.pool[f.at].isin \in ISINs /\ f.pool[f.at].lot \in Nat
  BY <1>2, ListedBond
<1> QED
  BY <1>1, <1>2, <1>3 DEF FrameTypeOK

LEMMA OpensKeeps ==
  ASSUME NEW u \in Inputs, NEW f, NEW c \in Nat, FrameInv(u, f, c), f.phase = "open",
         NEW h, h = Plan!OpenStep(f)
  PROVE  FrameInv(u, h, c)
<1>1. BuildInv(u, f, c) /\ FrameTypeOK(u, f) /\ ListsOK(u, f)
  BY Built DEF Building, BuildInv
<1>2. CASE f.at > Len(f.pool) \/ 100 * f.left < Plan!MinPosition(f) \/ Plan!Len(f.order) >= Plan!TargetCount
  <2>1. PICK p : p = IF 100 * f.left >= Plan!MinPosition(f) THEN "topup" ELSE "target"
    OBVIOUS
  <2>2. p \in (Building \cup {"target"}) \ {"open"}
    BY <2>1 DEF Building
  <2>3. h = Plan!Goto(f, p)
    BY <1>2, <2>1 DEF Plan!OpenStep
  <2> QED
    BY <1>1, <2>2, <2>3, GotoKeeps
<1>3. CASE ~(f.at > Len(f.pool) \/ 100 * f.left < Plan!MinPosition(f) \/ Plan!Len(f.order) >= Plan!TargetCount)
  <2>1. PICK b : b = f.pool[f.at]
    OBVIOUS
  <2>2. PICK n : n = Plan!TargetLots(f, b)
    OBVIOUS
  <2>3. PICK g : g = IF n > 0 THEN Plan!Pick(f, b, n) ELSE f
    OBVIOUS
  <2>4. h = Plan!Advance(g)
    BY <1>3, <2>1, <2>2, <2>3 DEF Plan!OpenStep
  <2>5. /\ f.at \in DOMAIN f.pool /\ f.at \in Nat
        /\ b.isin \in ISINs /\ b.lot \in Nat \ {0}
    BY <1>1, <1>3, <2>1, BondAt DEF FrameTypeOK
  <2>6. \A k \in DOMAIN f.pool : k >= f.at => f.picks[f.pool[k].isin] = 0
    BY DEF FrameInv, CapsOK
  <2>7. f.picks[b.isin] = 0
    BY <2>1, <2>5, <2>6
  <2>8. DOMAIN f.pool \subseteq Nat
    BY <1>1 DEF ListsOK, BondList
  <2>9. /\ n \in Nat
        /\ n # 0 => /\ n * b.lot <= f.left /\ 100 * n * b.lot <= Plan!MaxPosition(f)
                    /\ Plan!WithinCaps(f, b, n * b.lot)
    BY <1>1, <2>2, <2>5, TargetFits
  <2>10. CASE n = 0
    <3>1. \A k \in DOMAIN f.pool : k >= f.at + 1 => f.picks[f.pool[k].isin] = 0
      BY <2>5, <2>6, <2>8
    <3>2. h = Plan!Advance(f)
      BY <2>3, <2>4, <2>10
    <3> QED
      BY <1>1, <3>1, <3>2, AdvanceKeeps DEF Building
  <2>11. CASE n # 0
    <3>1. 100 * (f.picks[b.isin] + n) * b.lot <= Plan!MaxPosition(f)
      BY <2>7, <2>9, <2>11
    <3>2. g = Plan!Pick(f, b, n) /\ n \in Nat \ {0}
      BY <2>3, <2>9, <2>11
    <3>3. /\ BuildInv(u, g, c)
          /\ g.phase = f.phase /\ g.at = f.at /\ g.again = f.again /\ g.pool = f.pool
          /\ \A i \in ISINs \ {b.isin} : g.picks[i] = f.picks[i]
      BY <1>1, <2>1, <2>5, <2>9, <2>11, <3>1, <3>2, PickBuild
    <3>4. \A k \in DOMAIN g.pool : k >= g.at + 1 => g.picks[g.pool[k].isin] = 0
      <4> SUFFICES ASSUME NEW k \in DOMAIN f.pool, k >= f.at + 1
                   PROVE  g.picks[f.pool[k].isin] = 0
        BY <3>3
      <4>1. k \in Nat /\ k # f.at /\ k >= f.at
        BY <2>5, <2>8
      <4>2. f.pool[k].isin # b.isin /\ f.pool[k].isin \in ISINs
        BY <1>1, <2>1, <2>5, <4>1, ListedBond DEF ListsOK, BondList, Distinct
      <4> QED
        BY <2>6, <3>3, <4>1, <4>2
    <3> QED
      BY <2>4, <3>3, <3>4, AdvanceKeeps DEF Building
  <2> QED
    BY <2>9, <2>10, <2>11
<1> QED
  BY <1>2, <1>3

LEMMA TopsUpKeeps ==
  ASSUME NEW u \in Inputs, NEW f, NEW c \in Nat, FrameInv(u, f, c), f.phase = "topup",
         NEW h, h = Plan!TopUpStep(f)
  PROVE  FrameInv(u, h, c)
<1>1. BuildInv(u, f, c) /\ FrameTypeOK(u, f) /\ ListsOK(u, f)
  BY Built DEF Building, BuildInv
<1>2. CASE f.at > Len(f.pool)
  <2>1. PICK p : p = IF f.again /\ f.left > 0 THEN "topup" ELSE "fill"
    OBVIOUS
  <2>2. p \in (Building \cup {"target"}) \ {"open"}
    BY <2>1 DEF Building
  <2>3. h = Plan!Goto(f, p)
    BY <1>2, <2>1 DEF Plan!TopUpStep
  <2> QED
    BY <1>1, <2>2, <2>3, GotoKeeps
<1>3. CASE ~(f.at > Len(f.pool))
  <2>1. PICK b : b = f.pool[f.at]
    OBVIOUS
  <2>2. /\ f.at \in DOMAIN f.pool /\ f.at \in Nat
        /\ b.isin \in ISINs /\ b.lot \in Nat \ {0} /\ f.picks[b.isin] \in Nat
    BY <1>1, <1>3, <2>1, BondAt DEF FrameTypeOK
  <2>3. CASE ~Plan!TopUpAllowed(f, b)
    <3>1. h = Plan!Advance(f)
      BY <1>3, <2>1, <2>3 DEF Plan!TopUpStep
    <3> QED
      BY <1>1, <3>1, AdvanceKeeps DEF Building
  <2>4. CASE Plan!TopUpAllowed(f, b)
    <3>1. PICK g : g = Plan!Pick(f, b, 1)
      OBVIOUS
    <3>2. PICK g2 : g2 = [g EXCEPT !.again = TRUE]
      OBVIOUS
    <3>3. h = IF g2.left < b.lot THEN [g2 EXCEPT !.at = Len(g2.pool) + 1] ELSE Plan!Advance(g2)
      BY <1>3, <2>1, <2>4, <3>1, <3>2 DEF Plan!TopUpStep
    <3>4. 1 * b.lot = b.lot /\ b.lot <= f.left /\ Plan!WithinCaps(f, b, 1 * b.lot)
          /\ 100 * (f.picks[b.isin] + 1) * b.lot <= Plan!MaxPosition(f)
      BY <2>2, <2>4 DEF Plan!TopUpAllowed
    <3>5. BuildInv(u, g, c) /\ g.phase = f.phase /\ g.pool = f.pool
      BY <1>1, <2>1, <2>2, <3>1, <3>4, PickBuild
    <3>6. FrameTypeOK(u, g)
      BY <3>5 DEF BuildInv
    <3>7. Elsewhere(g, h) /\ h.phase = g.phase
      <4>1. PICK at \in Nat \ {0} : at = IF g2.left < b.lot THEN Len(g2.pool) + 1 ELSE g.at + 1
        <5>1. IsSeq(g.pool) /\ g2.pool = g.pool
          BY <3>2, <3>5, <1>1, <3>6 DEF ListsOK, BondList, FrameTypeOK, FrameFields
        <5>2. Len(g2.pool) \in Nat
          BY <5>1 DEF IsSeq
        <5>3. g.at \in Nat \ {0}
          BY <3>6 DEF FrameTypeOK
        <5> QED
          BY <5>2, <5>3
      <4>2. g2.at = g.at
        BY <3>2, <3>6 DEF FrameTypeOK, FrameFields
      <4>3. h = [g2 EXCEPT !.at = at]
        BY <3>3, <3>2, <3>6, <4>1, <4>2 DEF Plan!Advance, FrameTypeOK, FrameFields
      <4>4. DOMAIN g = FrameFields
        BY <3>6 DEF FrameTypeOK
      <4>5. /\ DOMAIN h = DOMAIN g /\ h.phase = g.phase /\ h.at = at
            /\ \A x \in FrameFields \ {"phase", "at", "again"} : h[x] = g[x]
        BY <3>2, <4>3, <4>4 DEF FrameFields
      <4>6. h.phase \in Building
        BY <3>5, <4>5 DEF Building
      <4> QED
        BY <4>1, <4>5, <4>6 DEF Elsewhere
    <3>8. BuildInv(u, h, c)
      BY <3>5, <3>7, BuiltElsewhere
    <3> QED
      BY <3>5, <3>7, <3>8, FrameOfBuilt DEF Building
  <2> QED
    BY <2>3, <2>4
<1> QED
  BY <1>2, <1>3

LEMMA FillFits ==
  ASSUME NEW u, NEW f, FrameTypeOK(u, f), NEW b, b.lot \in Nat \ {0}, f.picks[b.isin] \in Nat,
         NEW n, n = Plan!FillLots(f, b)
  PROVE  /\ n \in Nat
         /\ n # 0 => /\ n * b.lot <= f.left /\ 100 * n * b.lot <= Plan!MaxPosition(f)
                     /\ Plan!WithinCaps(f, b, n * b.lot) /\ f.picks[b.isin] = 0
<1>1. PICK most \in Nat, least \in Nat : most = Plan!MaxPosition(f) /\ least = Plan!MinPosition(f)
  BY PositionLimits
<1>2. PICK rest \in Nat : rest = f.left
  BY DEF FrameTypeOK
<1>3. PICK lots : lots = Plan!Least(rest \div b.lot, most \div (100 * b.lot))
  OBVIOUS
<1>4. n = IF f.picks[b.isin] > 0 \/ 100 * lots * b.lot < least
              \/ ~Plan!WithinCaps(f, b, lots * b.lot) THEN 0 ELSE lots
  BY <1>1, <1>2, <1>3, Zenon DEF Plan!FillLots
<1>5. PICK p \in Nat, q \in Nat : p = most \div (100 * b.lot) /\ q = rest \div b.lot
  <2>1. 100 * b.lot \in Nat \ {0}
    OBVIOUS
  <2> QED
    BY <2>1, Quotient
<1>6. lots = Plan!Least(q, Plan!Least(p, q)) /\ q \in Nat
  BY <1>3, <1>5 DEF Plan!Least
<1>7. lots \in Nat /\ lots * b.lot <= rest /\ 100 * lots * b.lot <= most
  BY <1>5, <1>6, LotsFit, ZenonT(60)
<1> QED
  BY <1>1, <1>2, <1>4, <1>7

LEMMA FillsKeeps ==
  ASSUME NEW u \in Inputs, NEW f, NEW c \in Nat, FrameInv(u, f, c), f.phase = "fill",
         NEW h, h = Plan!FillStep(f)
  PROVE  FrameInv(u, h, c)
<1>1. BuildInv(u, f, c) /\ FrameTypeOK(u, f) /\ ListsOK(u, f)
  BY Built DEF Building, BuildInv
<1>2. PICK over : over = (f.at > Len(f.pool) \/ Plan!Len(f.order) >= MinAutoPositions
                            \/ 100 * f.left < Plan!MinPosition(f))
  OBVIOUS
<1>3. CASE over
  <2>1. h = Plan!Goto(f, "target")
    BY <1>2, <1>3 DEF Plan!FillStep
  <2>2. "target" \in (Building \cup {"target"}) \ {"open"}
    OBVIOUS
  <2> QED
    BY <1>1, <2>1, <2>2, GotoKeeps
<1>4. CASE ~over
  <2>1. PICK b : b = f.pool[f.at]
    OBVIOUS
  <2>2. PICK n : n = Plan!FillLots(f, b)
    OBVIOUS
  <2>3. PICK g : g = IF n > 0 THEN Plan!Pick(f, b, n) ELSE f
    OBVIOUS
  <2>4. h = Plan!Advance(g)
    BY <1>2, <1>4, <2>1, <2>2, <2>3 DEF Plan!FillStep
  <2>5. /\ f.at \in DOMAIN f.pool
        /\ b.isin \in ISINs /\ b.lot \in Nat \ {0} /\ f.picks[b.isin] \in Nat
    BY <1>1, <1>2, <1>4, <2>1, BondAt
  <2>6. /\ n \in Nat
        /\ n # 0 => /\ n * b.lot <= f.left /\ 100 * n * b.lot <= Plan!MaxPosition(f)
                    /\ Plan!WithinCaps(f, b, n * b.lot) /\ f.picks[b.isin] = 0
    BY <1>1, <2>2, <2>5, FillFits
  <2>7. BuildInv(u, g, c) /\ g.phase = f.phase
    <3>1. CASE n = 0
      BY <1>1, <2>3, <3>1
    <3>2. CASE n # 0
      <4>1. 100 * (f.picks[b.isin] + n) * b.lot <= Plan!MaxPosition(f)
        BY <2>6, <3>2
      <4>2. g = Plan!Pick(f, b, n) /\ n \in Nat \ {0}
        BY <2>3, <2>6, <3>2
      <4> QED
        BY <1>1, <2>1, <2>5, <2>6, <3>2, <4>1, <4>2, PickBuild
    <3> QED
      BY <3>1, <3>2
  <2> QED
    BY <2>4, <2>7, AdvanceKeeps DEF Building
<1> QED
  BY <1>3, <1>4

-----------------------------------------------------------------------------
(* The allocations. *)

LEMMA LeavesKeeps ==
  ASSUME NEW u \in Inputs, NEW f, NEW c \in Nat, FrameInv(u, f, c), f.phase \in {"target", "sweep"},
         NEW p \in {"sweep", "buy"}, NEW h, h = Plan!Goto(f, p)
  PROVE  FrameInv(u, h, c)
<1>1. FrameTypeOK(u, f)
  BY DEF FrameInv
<1>2. Elsewhere(f, h) /\ h.phase = p
  BY <1>1, GotoIs
<1>3. /\ h.cash = f.cash /\ h.spent = f.spent /\ h.held = f.held /\ h.full = f.full
      /\ h.budget = f.budget /\ h.seen = f.seen /\ h.left = f.left /\ h.pool = f.pool
      /\ h.picks = f.picks /\ h.order = f.order /\ h.bought = f.bought /\ h.buys = f.buys
      /\ FrameTypeOK(u, h)
  BY <1>1, <1>2, ElsewhereIs
<1>4. ListsOK(u, h) /\ OrderOK(u, h)
  BY <1>3 DEF FrameInv, ListsOK, OrderOK
<1>5. CapsOK(h)
  <2>1. \A k \in DOMAIN h.pool : h.picks[h.pool[k].isin] > 0 => Capped(h, h.pool[k])
    BY <1>3, CappedAlike DEF FrameInv, CapsOK
  <2>2. h.phase # "open"
    BY <1>2
  <2> QED
    BY <2>1, <2>2 DEF CapsOK
<1>6. MoneyOK(u, h, c)
  <2>1. f.phase # "buy"
    OBVIOUS
  <2>2. /\ f.left + Worth(u, f.picks) = f.budget /\ (f.full \/ f.budget = f.cash)
        /\ f.spent <= f.cash /\ Paid(u, f.buys) + f.cash = c + f.spent
    BY <2>1 DEF FrameInv, MoneyOK
  <2>3. BuyList(u, f.buys) /\ f.cash \in Nat /\ f.spent \in Nat
    BY <1>1 DEF FrameInv, ListsOK, FrameTypeOK
  <2>4. Paid(u, f.buys) \in Nat
    BY <2>3, BuyTerms
  <2>5. Paid(u, f.buys) <= c
    BY <2>2, <2>3, <2>4
  <2>6. ~(h.phase \in {"open", "topup", "fill", "target"})
    BY <1>2
  <2> QED
    BY <1>2, <1>3, <2>2, <2>5, <2>6 DEF MoneyOK
<1> QED
  BY <1>3, <1>4, <1>5, <1>6 DEF FrameInv

Allocated(f, i, n, x, y) ==
  [f EXCEPT !.spent = @ + x, !.bought[i] = y, !.buys = Plan!Merge(@, i, n)]

\* An allocation that what is left of the cash pays for.
LEMMA Allocates ==
  ASSUME NEW u \in Inputs, NEW f, NEW c \in Nat, FrameInv(u, f, c), f.phase \in {"target", "sweep"},
         NEW i \in Isins(u), NEW n \in Nat, NEW x, x = n * Price(u, i), x <= f.cash - f.spent,
         NEW y \in Nat, NEW g, g = Allocated(f, i, n, x, y)
  PROVE  /\ g.phase = f.phase /\ g.at = f.at /\ g.again = f.again /\ g.cash = f.cash
         /\ g.held = f.held /\ g.full = f.full /\ g.budget = f.budget /\ g.seen = f.seen
         /\ g.left = f.left /\ g.pool = f.pool /\ g.picks = f.picks /\ g.order = f.order
         /\ g.spent = f.spent + x
         /\ FrameTypeOK(u, g) /\ ListsOK(u, g) /\ OrderOK(u, g) /\ CapsOK(g)
         /\ g.left + Worth(u, g.picks) = g.budget /\ (g.full \/ g.budget = g.cash)
         /\ g.spent <= g.cash /\ Paid(u, g.buys) + g.cash = c + g.spent
<1>1. FrameTypeOK(u, f) /\ ListsOK(u, f) /\ OrderOK(u, f) /\ CapsOK(f) /\ BuyList(u, f.buys)
  BY DEF FrameInv, ListsOK
<1>2. i \in ISINs /\ Price(u, i) \in Nat /\ x \in Nat
  BY ListedBond, Products
<1>3. PICK s \in Nat : s = f.spent + x
  BY <1>1, <1>2 DEF FrameTypeOK
<1>4. PICK bt \in [ISINs -> Nat] : bt = [f.bought EXCEPT ![i] = y]
  BY <1>1, <1>2 DEF FrameTypeOK
<1>5. PICK m : m = Plan!Merge(f.buys, i, n)
  OBVIOUS
<1>6. BuyList(u, m) /\ Paid(u, m) = Paid(u, f.buys) + x /\ Paid(u, f.buys) \in Nat
  BY <1>1, <1>5, MergePaid, BuyTerms
<1>7. g = [f EXCEPT !.spent = s, !.bought = bt, !.buys = m]
  BY <1>1, <1>3, <1>4, <1>5 DEF Allocated, FrameTypeOK, FrameFields
<1>8. /\ DOMAIN g = DOMAIN f
      /\ g.phase = f.phase /\ g.at = f.at /\ g.again = f.again /\ g.cash = f.cash
      /\ g.held = f.held /\ g.full = f.full /\ g.budget = f.budget /\ g.seen = f.seen
      /\ g.left = f.left /\ g.pool = f.pool /\ g.picks = f.picks /\ g.order = f.order
      /\ g.spent = s /\ g.bought = bt /\ g.buys = m
  BY <1>1, <1>7 DEF FrameTypeOK, FrameFields
<1>9. FrameTypeOK(u, g)
  BY <1>1, <1>8 DEF FrameTypeOK
<1>10. ListsOK(u, g) /\ OrderOK(u, g)
  BY <1>1, <1>6, <1>8 DEF ListsOK, OrderOK
<1>11. CapsOK(g)
  <2>1. g.phase # "open"
    BY <1>8
  <2>2. \A k \in DOMAIN f.pool : f.picks[f.pool[k].isin] > 0 => Capped(f, f.pool[k])
    BY <1>1 DEF CapsOK
  <2>3. \A b : Capped(f, b) => Capped(g, b)
    BY <1>8, CappedAlike
  <2>4. \A k \in DOMAIN g.pool : g.picks[g.pool[k].isin] > 0 => Capped(g, g.pool[k])
    BY <1>8, <2>2, <2>3
  <2> QED
    BY <2>1, <2>4 DEF CapsOK
<1>12. /\ g.left + Worth(u, g.picks) = g.budget /\ (g.full \/ g.budget = g.cash)
       /\ g.spent <= g.cash /\ Paid(u, g.buys) + g.cash = c + g.spent
  <2>1. f.phase # "buy"
    OBVIOUS
  <2>2. /\ f.left + Worth(u, f.picks) = f.budget /\ (f.full \/ f.budget = f.cash)
        /\ Paid(u, f.buys) + f.cash = c + f.spent
    BY <2>1 DEF FrameInv, MoneyOK
  <2>3. f.cash \in Nat /\ f.spent \in Nat
    BY <1>1 DEF FrameTypeOK
  <2>4. PICK paid \in Nat : paid = Paid(u, f.buys)
    BY <1>6
  <2>5. s <= f.cash /\ (paid + x) + f.cash = c + s
    BY <1>2, <1>3, <2>2, <2>3, <2>4
  <2>6. Paid(u, g.buys) = paid + x
    BY <1>6, <1>8, <2>4
  <2> QED
    BY <1>8, <2>2, <2>5, <2>6
<1> QED
  BY <1>3, <1>8, <1>9, <1>10, <1>11, <1>12

\* With a bond of the order behind it, a loop has passed that bond too.
LEMMA PassesOne ==
  ASSUME NEW u \in Inputs, NEW f, FrameTypeOK(u, f), OrderOK(u, f),
         NEW at \in DOMAIN f.order, at = f.at, NEW h, h.order = f.order, h.at = f.at + 1,
         h.picks = f.picks
  PROVE  /\ f.picks[f.order[at]] * Price(u, f.order[at]) \in Nat
         /\ Total(Terms(u, h.picks), Passed(h))
              = Total(Terms(u, f.picks), Passed(f)) + f.picks[f.order[at]] * Price(u, f.order[at])
         /\ Total(Terms(u, h.picks), Passed(h)) <= Worth(u, f.picks)
<1>1. PICK o : o = f.order
  OBVIOUS
<1>2. PICK n \in Nat : DOMAIN o = 1 .. n
  BY <1>1 DEF OrderOK
<1>3. /\ \A k \in DOMAIN o : o[k] \in Isins(u)
      /\ \A j, k \in DOMAIN o : o[j] = o[k] => j = k
  BY <1>1 DEF OrderOK
<1>4. Passed(h) = Passed(f) \cup {o[at]} /\ o[at] \notin Passed(f)
      /\ Passed(h) \in SUBSET Isins(u)
  <2>1. at \in 1 .. n /\ f.at = at /\ h.at = at + 1
    BY <1>1, <1>2
  <2>2. {j \in DOMAIN o : j < at + 1} = {j \in DOMAIN o : j < at} \cup {at}
    BY <1>2, <2>1
  <2>3. /\ Passed(f) = {o[k] : k \in {j \in DOMAIN o : j < at}}
        /\ Passed(h) = {o[k] : k \in {j \in DOMAIN o : j < at + 1}}
    BY <1>1, <2>1 DEF Passed
  <2>4. Passed(h) = Passed(f) \cup {o[at]}
    BY <2>2, <2>3
  <2>5. o[at] \notin Passed(f)
    <3> SUFFICES ASSUME o[at] \in Passed(f) PROVE FALSE
      OBVIOUS
    <3>1. PICK k \in DOMAIN o : k < at /\ o[at] = o[k]
      BY <2>3
    <3>2. k = at
      BY <1>1, <1>3, <3>1
    <3> QED
      BY <2>1, <3>1, <3>2
  <2> QED
    BY <1>3, <2>3, <2>4, <2>5
<1>5. PICK w : w = Terms(u, f.picks)
  OBVIOUS
<1>6. /\ w = [i \in Isins(u) |-> f.picks[i] * Price(u, i)]
      /\ \A i \in Isins(u) : w[i] = f.picks[i] * Price(u, i) /\ w[i] \in Nat
  <2>1. \A i \in Isins(u) : f.picks[i] * Price(u, i) \in Nat
    BY WorthTerms DEF FrameTypeOK
  <2>2. w = [i \in Isins(u) |-> f.picks[i] * Price(u, i)]
    BY <1>5 DEF Terms
  <2> QED
    BY <2>1, <2>2
<1>7. IsFiniteSet(Isins(u)) /\ IsFiniteSet(Passed(f)) /\ Passed(f) \in SUBSET Isins(u)
  BY <1>4, ListedBond, FS_Subset
<1>8. o[at] \in Isins(u)
  BY <1>1, <1>3
<1>9. Total(w, Passed(f) \cup {o[at]}) = Total(w, Passed(f)) + w[o[at]]
  <2>1. \A k \in Passed(f) : w[k] \in Int
    BY <1>6, <1>7
  <2>2. w[o[at]] \in Int
    BY <1>6, <1>8
  <2> QED
    BY <1>4, <1>7, <2>1, <2>2, TotalNew
<1>10. Worth(u, f.picks) = Total(w, Isins(u))
  BY <1>6 DEF Worth
<1>11. Total(w, Passed(h)) <= Total(w, Isins(u))
  BY <1>4, <1>6, <1>7, TotalWithin
<1>12. Terms(u, h.picks) = w
  BY <1>5
<1> QED
  BY <1>1, <1>4, <1>5, <1>6, <1>8, <1>9, <1>10, <1>11, <1>12

\* MoneyOK while the allocations are composed or swept.
LEMMA MoneyOf ==
  ASSUME NEW u, NEW f, NEW c, f.phase \in {"target", "sweep"},
         f.left + Worth(u, f.picks) = f.budget, f.full \/ f.budget = f.cash,
         f.spent <= f.cash, Paid(u, f.buys) + f.cash = c + f.spent,
         f.phase = "target" /\ ~f.full => f.spent = Total(Terms(u, f.picks), Passed(f))
  PROVE  MoneyOK(u, f, c)
<1>1. ~(f.phase \in {"open", "topup", "fill"}) /\ f.phase # "buy"
  OBVIOUS
<1> QED
  BY <1>1 DEF MoneyOK

\* The frame of TargetStep after its allocation, at the next bond.
LEMMA NextTarget ==
  ASSUME NEW u \in Inputs, NEW g, NEW c \in Nat, g.phase = "target",
         FrameTypeOK(u, g), ListsOK(u, g), OrderOK(u, g), CapsOK(g),
         g.left + Worth(u, g.picks) = g.budget, g.full \/ g.budget = g.cash,
         g.spent <= g.cash, Paid(u, g.buys) + g.cash = c + g.spent,
         NEW h, h = Plan!Advance(g),
         ~g.full => g.spent = Total(Terms(u, h.picks), Passed(h))
  PROVE  FrameInv(u, h, c)
<1>1. Elsewhere(g, h) /\ h.phase = g.phase
  BY AdvanceIs
<1>2. /\ h.cash = g.cash /\ h.spent = g.spent /\ h.held = g.held /\ h.full = g.full
      /\ h.budget = g.budget /\ h.seen = g.seen /\ h.left = g.left /\ h.pool = g.pool
      /\ h.picks = g.picks /\ h.order = g.order /\ h.bought = g.bought /\ h.buys = g.buys
      /\ FrameTypeOK(u, h)
  BY <1>1, ElsewhereIs
<1>3. ListsOK(u, h) /\ OrderOK(u, h)
  BY <1>2 DEF ListsOK, OrderOK
<1>4. CapsOK(h)
  <2>1. h.phase # "open"
    BY <1>1
  <2> QED
    BY <1>2, <2>1, CappedAlike DEF CapsOK
<1>5. MoneyOK(u, h, c)
  BY <1>1, <1>2, MoneyOf
<1> QED
  BY <1>2, <1>3, <1>4, <1>5 DEF FrameInv

LEMMA TargetKeeps ==
  ASSUME NEW u \in Inputs, NEW f, NEW c \in Nat, FrameInv(u, f, c), f.phase = "target",
         NEW h, h = Plan!TargetStep(u, f)
  PROVE  FrameInv(u, h, c)
<1>1. /\ FrameTypeOK(u, f) /\ ListsOK(u, f) /\ OrderOK(u, f) /\ CapsOK(f)
      /\ f.left + Worth(u, f.picks) = f.budget /\ (f.full \/ f.budget = f.cash)
      /\ f.spent <= f.cash /\ Paid(u, f.buys) + f.cash = c + f.spent
      /\ ~f.full => f.spent = Total(Terms(u, f.picks), Passed(f))
  BY DEF FrameInv, MoneyOK
<1>2. CASE f.at > Plan!Len(f.order)
  <2>1. PICK p : p = IF f.cash > f.spent /\ (f.full \/ f.order # <<>>) THEN "sweep" ELSE "buy"
    OBVIOUS
  <2>2. p \in {"sweep", "buy"}
    BY <2>1
  <2>3. h = Plan!Goto(f, p)
    BY <1>2, <2>1 DEF Plan!TargetStep
  <2> QED
    BY <2>2, <2>3, LeavesKeeps
<1>3. CASE ~(f.at > Plan!Len(f.order))
  <2>1. PICK at : at = f.at
    OBVIOUS
  <2>2. PICK i : i = f.order[at]
    OBVIOUS
  <2>3. PICK lot : lot = Plan!BondOf(u, i).lot
    OBVIOUS
  <2>4. PICK n : n = IF f.full
                     THEN Plan!Most(0, Plan!Least(f.picks[i] - f.held[i],
                                                  (f.cash - f.spent) \div lot))
                     ELSE f.picks[i]
    OBVIOUS
  <2>5. PICK g : g = IF n = 0 THEN f
                     ELSE [f EXCEPT !.spent = @ + n * lot, !.bought[i] = n,
                                    !.buys = Plan!Merge(@, i, n)]
    OBVIOUS
  <2>6. h = Plan!Advance(g)
    BY <1>3, <2>1, <2>2, <2>3, <2>4, <2>5, Zenon DEF Plan!TargetStep
  <2>7. at \in DOMAIN f.order
    <3>1. IsSeq(f.order) /\ f.at \in Nat \ {0}
      BY <1>1 DEF OrderOK, FrameTypeOK
    <3>2. Plan!Len(f.order) \in Nat /\ DOMAIN f.order = 1 .. Plan!Len(f.order)
      BY <3>1 DEF IsSeq
    <3> QED
      BY <1>3, <2>1, <3>1, <3>2
  <2>8. /\ i \in Isins(u) /\ i \in ISINs /\ lot = Price(u, i) /\ lot \in Nat \ {0}
        /\ f.picks[i] \in Nat /\ f.picks[i] > 0 /\ f.held[i] \in Nat
    <3>1. i \in Isins(u) /\ lot = Price(u, i) /\ lot > 0 /\ f.picks[i] > 0
      BY <1>1, <2>2, <2>3, <2>7 DEF OrderOK, Price
    <3>2. i \in ISINs /\ Price(u, i) \in Nat
      BY <3>1, ListedBond
    <3> QED
      BY <1>1, <3>1, <3>2 DEF FrameTypeOK
  <2>9. f.cash \in Nat /\ f.spent \in Nat /\ f.at \in Nat
    BY <1>1 DEF FrameTypeOK
  <2>10. PICK room \in Nat : room = f.cash - f.spent
    BY <1>1, <2>9
  <2>11. n \in Nat /\ n * lot \in Nat /\ (f.full => n * lot <= room)
    <3>1. CASE f.full
      <4>1. PICK q \in Nat : q = room \div lot /\ \A k \in Nat : k <= q => k * lot <= room
        BY <2>8, Quotient
      <4>2. n = Plan!Most(0, Plan!Least(f.picks[i] - f.held[i], q))
        BY <2>4, <2>10, <3>1, <4>1
      <4>3. n \in Nat /\ n <= q
        BY <2>8, <4>2 DEF Plan!Most, Plan!Least
      <4> QED
        BY <2>8, <4>1, <4>3, Products
    <3>2. CASE ~f.full
      BY <2>4, <2>8, <3>2, Products
    <3> QED
      BY <3>1, <3>2
  <2>12. ~f.full => /\ n = f.picks[i] /\ n # 0 /\ n * lot <= room
                    /\ f.spent + n * lot
                         = Total(Terms(u, f.picks), Passed([f EXCEPT !.at = @ + 1]))
    <3> SUFFICES ASSUME ~f.full
                 PROVE  /\ n = f.picks[i] /\ n # 0 /\ n * lot <= room
                        /\ f.spent + n * lot
                             = Total(Terms(u, f.picks), Passed([f EXCEPT !.at = @ + 1]))
      OBVIOUS
    <3>1. n = f.picks[i] /\ n # 0
      BY <2>4, <2>8
    <3>2. PICK k : k = [f EXCEPT !.at = @ + 1]
      OBVIOUS
    <3>3. k.order = f.order /\ k.at = f.at + 1 /\ k.picks = f.picks
      BY <1>1, <3>2 DEF FrameTypeOK, FrameFields
    <3>4. /\ Total(Terms(u, k.picks), Passed(k)) = Total(Terms(u, f.picks), Passed(f)) + n * lot
          /\ Total(Terms(u, k.picks), Passed(k)) <= Worth(u, f.picks)
      BY <1>1, <2>1, <2>2, <2>7, <2>8, <3>1, <3>3, PassesOne
    <3>5. f.spent + n * lot = Total(Terms(u, k.picks), Passed(k))
      BY <1>1, <3>4
    <3>6. Worth(u, f.picks) \in Nat /\ f.left \in Nat /\ f.budget = f.cash
      BY <1>1, WorthTerms DEF FrameTypeOK
    <3>7. n * lot <= room
      BY <1>1, <2>9, <2>10, <2>11, <3>4, <3>5, <3>6
    <3> QED
      BY <3>1, <3>2, <3>3, <3>5, <3>7
  <2>13. /\ g.phase = "target" /\ g.at = f.at /\ g.picks = f.picks /\ g.order = f.order
         /\ g.full = f.full
         /\ FrameTypeOK(u, g) /\ ListsOK(u, g) /\ OrderOK(u, g) /\ CapsOK(g)
         /\ g.left + Worth(u, g.picks) = g.budget /\ (g.full \/ g.budget = g.cash)
         /\ g.spent <= g.cash /\ Paid(u, g.buys) + g.cash = c + g.spent
         /\ ~g.full => g.spent = f.spent + n * lot
    <3>1. CASE n = 0
      <4>1. g = f /\ f.full
        BY <2>5, <2>12, <3>1
      <4> QED
        BY <1>1, <4>1
    <3>2. CASE n # 0
      <4>1. PICK x \in Nat : x = n * lot
        BY <2>11
      <4>2. g = Allocated(f, i, n, x, n)
        BY <2>5, <3>2, <4>1 DEF Allocated
      <4>3. x = n * Price(u, i) /\ x <= f.cash - f.spent
        BY <2>8, <2>10, <2>11, <2>12, <4>1
      <4>4. i \in Isins(u) /\ n \in Nat /\ f.phase \in {"target", "sweep"}
        BY <2>8, <2>11
      <4>5. /\ g.phase = f.phase /\ g.at = f.at
            /\ g.full = f.full /\ g.picks = f.picks /\ g.order = f.order
            /\ g.spent = f.spent + x
            /\ FrameTypeOK(u, g) /\ ListsOK(u, g) /\ OrderOK(u, g) /\ CapsOK(g)
            /\ g.left + Worth(u, g.picks) = g.budget /\ (g.full \/ g.budget = g.cash)
            /\ g.spent <= g.cash /\ Paid(u, g.buys) + g.cash = c + g.spent
        BY ONLY u \in Inputs, c \in Nat, x \in Nat, FrameInv(u, f, c), <4>2, <4>3, <4>4, Allocates
      <4> QED
        BY <4>1, <4>5
    <3> QED
      BY <3>1, <3>2
  <2>14. ~g.full => g.spent = Total(Terms(u, h.picks), Passed(h))
    <3>1. Elsewhere(g, h) /\ h.at = g.at + 1
      BY <2>6, <2>13, AdvanceIs
    <3>2. h.picks = g.picks /\ h.order = g.order
      BY <2>13, <3>1, ElsewhereIs
    <3>3. PICK k : k = [f EXCEPT !.at = @ + 1]
      OBVIOUS
    <3>4. k.order = f.order /\ k.at = f.at + 1
      BY <1>1, <3>3 DEF FrameTypeOK, FrameFields
    <3>5. Passed(h) = Passed(k)
      BY <2>13, <3>1, <3>2, <3>4 DEF Passed
    <3> QED
      BY <2>12, <2>13, <3>2, <3>3, <3>5
  <2> QED
    BY <2>6, <2>13, <2>14, NextTarget
<1> QED
  BY <1>2, <1>3

LEMMA SweepsKeeps ==
  ASSUME NEW u \in Inputs, NEW date, NEW f, NEW c \in Nat, FrameInv(u, f, c), f.phase = "sweep",
         NEW h, h = Plan!SweepStep(u, date, f)
  PROVE  FrameInv(u, h, c)
<1>1. FrameTypeOK(u, f)
  BY DEF FrameInv
<1>2. PICK pool : pool = Plan!Ranked(u, date)
  OBVIOUS
<1>3. PICK fits : fits = {k \in DOMAIN pool : Plan!SweepAllowed(f, pool[k])}
  OBVIOUS
<1>4. CASE fits = {} \/ f.cash = f.spent
  <2>1. h = Plan!Goto(f, "buy")
    BY <1>2, <1>3, <1>4 DEF Plan!SweepStep
  <2> QED
    BY <2>1, LeavesKeeps
<1>5. CASE ~(fits = {} \/ f.cash = f.spent)
  <2>1. BondList(u, pool)
    BY <1>2, RankedList
  <2>2. PICK k \in fits : \A j \in fits : k <= j
    <3>1. PICK n \in Nat : DOMAIN pool = 1 .. n
      BY <2>1 DEF BondList
    <3>2. \A i \in fits : i \in 1 .. n
      BY <1>3, <3>1
    <3> QED
      BY <1>5, <3>2, SmallestNumber
  <2>3. PICK q : q = CHOOSE i \in fits : \A j \in fits : i <= j
    OBVIOUS
  <2>4. q \in fits
    BY <2>2, <2>3
  <2>5. PICK b : b = pool[q]
    OBVIOUS
  <2>6. h = [f EXCEPT !.spent = @ + b.lot, !.bought[b.isin] = @ + 1,
                      !.buys = Plan!Merge(@, b.isin, 1)]
    BY <1>2, <1>3, <1>5, <2>3, <2>5, Zenon DEF Plan!SweepStep
  <2>7. b.lot <= f.cash - f.spent
    BY <1>3, <2>4, <2>5 DEF Plan!SweepAllowed
  <2>8. /\ b.isin \in Isins(u) /\ b.isin \in ISINs /\ b.lot = Price(u, b.isin) /\ b.lot \in Nat
    <3>1. b \in Listed(u)
      BY <1>3, <2>1, <2>4, <2>5 DEF BondList
    <3> QED
      BY <3>1, ListedBond
  <2>9. PICK y \in Nat : y = f.bought[b.isin] + 1
    BY <1>1, <2>8 DEF FrameTypeOK
  <2>10. PICK i \in Isins(u), x \in Nat : i = b.isin /\ x = b.lot
    BY <2>8
  <2>11. h = Allocated(f, i, 1, x, y)
    BY <2>6, <2>9, <2>10, <1>1 DEF Allocated, FrameTypeOK, FrameFields
  <2>12. x = 1 * Price(u, i) /\ x <= f.cash - f.spent /\ f.phase \in {"target", "sweep"}
    BY <2>7, <2>8, <2>10
  <2>13. /\ h.phase = "sweep"
         /\ FrameTypeOK(u, h) /\ ListsOK(u, h) /\ OrderOK(u, h) /\ CapsOK(h)
         /\ h.left + Worth(u, h.picks) = h.budget /\ (h.full \/ h.budget = h.cash)
         /\ h.spent <= h.cash /\ Paid(u, h.buys) + h.cash = c + h.spent
    BY ONLY u \in Inputs, c \in Nat, x \in Nat, y \in Nat, i \in Isins(u), 1 \in Nat,
            FrameInv(u, f, c), f.phase = "sweep", <2>11, <2>12, Allocates
  <2>14. MoneyOK(u, h, c)
    <3>1. h.phase \in {"target", "sweep"} /\ ~(h.phase = "target" /\ ~h.full)
      BY <2>13
    <3> QED
      BY <2>13, <3>1, MoneyOf
  <2> QED
    BY <2>13, <2>14 DEF FrameInv
<1> QED
  BY <1>4, <1>5

\* No iteration spends what another has spent, or goes over a share.
LEMMA DeployStepKeeps ==
  ASSUME NEW u \in Inputs, NEW date, NEW f, NEW c \in Nat, FrameInv(u, f, c), f.phase # "buy"
  PROVE  FrameInv(u, Plan!DeployStep(u, date, f), c)
<1>1. PICK h : h = Plan!DeployStep(u, date, f)
  OBVIOUS
<1>2. f.phase \in {"open", "topup", "fill", "target", "sweep"}
  BY DEF FrameInv, FrameTypeOK
<1>3. CASE f.phase = "open"
  <2>1. h = Plan!OpenStep(f)
    BY <1>1, <1>3 DEF Plan!DeployStep
  <2> QED
    BY <1>1, <1>3, <2>1, OpensKeeps
<1>4. CASE f.phase = "topup"
  <2>1. h = Plan!TopUpStep(f)
    BY <1>1, <1>4 DEF Plan!DeployStep
  <2> QED
    BY <1>1, <1>4, <2>1, TopsUpKeeps
<1>5. CASE f.phase = "fill"
  <2>1. h = Plan!FillStep(f)
    BY <1>1, <1>5 DEF Plan!DeployStep
  <2> QED
    BY <1>1, <1>5, <2>1, FillsKeeps
<1>6. CASE f.phase = "target"
  <2>1. h = Plan!TargetStep(u, f)
    BY <1>1, <1>6 DEF Plan!DeployStep
  <2> QED
    BY <1>1, <1>6, <2>1, TargetKeeps
<1>7. CASE f.phase = "sweep"
  <2>1. h = Plan!SweepStep(u, date, f)
    BY <1>1, <1>7 DEF Plan!DeployStep
  <2> QED
    BY <1>1, <1>7, <2>1, SweepsKeeps
<1> QED
  BY <1>2, <1>3, <1>4, <1>5, <1>6, <1>7

-----------------------------------------------------------------------------
(* The deployments of a plan. *)

Counted(p) ==
  /\ {"lots", "cost"} \subseteq DOMAIN p
  /\ HasPrices(p.bond) /\ p.lots \in Nat /\ p.cost \in Int

\* A deployment counts on the cash the simulation has when it begins, and nothing
\* else is paid until it has bought.
CashInv ==
  /\ cash \in Int
  /\ \A i \in DOMAIN book : Counted(book[i])
  /\ frame # Idle => cash \in Nat /\ FrameInv(in, frame.f, cash)

LEMMA PricedBond ==
  ASSUME in \in Inputs, NEW isin, Plan!Known(in, isin)
  PROVE  HasPrices(Plan!BondOf(in, isin))
<1>1. \E k \in DOMAIN in.universe : in.universe[k].isin = isin
  BY DEF Plan!Known
<1>2. PICK k \in DOMAIN in.universe : Plan!BondOf(in, isin) = in.universe[k]
  BY <1>1 DEF Plan!BondOf
<1>3. \A i \in Inputs : \A j \in DOMAIN i.universe : HasPrices(i.universe[j])
  BY CashAssumption
<1> QED
  BY <1>2, <1>3

LEMMA BoughtIsCounted ==
  ASSUME NEW b, HasPrices(b), HasDates(b), NEW lots \in Nat, NEW date, NEW generation
  PROVE  Counted(Plan!Bought(b, lots, date, generation))
<1> DEFINE o == IF b.offer # None /\ b.offer.date >= date /\ ~Plan!BuyBlocked(b, date)
                THEN b.offer ELSE None
           c == [b EXCEPT !.offer = o]
           p == [bond |-> c, lots |-> lots, cost |-> b.lot, from |-> date,
                 decision |-> "pending", generation |-> generation, closed |-> FALSE]
<1>1. Plan!Bought(b, lots, date, generation) = p
  BY DEF Plan!Bought
<1>2. o = None \/ o = b.offer
  OBVIOUS
<1> HIDE DEF o
<1>3. /\ DOMAIN c = DOMAIN b /\ c.offer = o /\ c.lot = b.lot /\ c.face = b.face
      /\ c.clean = b.clean /\ c.coupon = b.coupon
  BY DEF HasDates, HasPrices
<1> HIDE DEF c
<1>4. HasPrices(c)
  BY <1>2, <1>3 DEF HasPrices
<1>5. /\ DOMAIN p = {"bond", "lots", "cost", "from", "decision", "generation", "closed"}
      /\ p.bond = c /\ p.lots = lots /\ p.cost = b.lot /\ b.lot \in Int
  BY DEF HasPrices
<1> HIDE DEF p
<1>6. {"lots", "cost"} \subseteq DOMAIN p
  BY <1>5
<1> QED
  BY <1>1, <1>4, <1>5, <1>6 DEF Counted

LEMMA SyncedIsCounted ==
  ASSUME in \in Inputs, NEW p, IsPosition(p), Counted(p)
  PROVE  Counted(Plan!Synced(p))
<1>1. CASE ~Plan!Known(in, p.bond.isin)
  BY <1>1 DEF Plan!Synced
<1>2. CASE Plan!Known(in, p.bond.isin)
  <2> DEFINE b == Plan!BondOf(in, p.bond.isin)
         offered == b.offer # None /\ b.offer.date >= p.from
         moved == p.bond.offer = None \/ p.bond.offer.date # b.offer.date
         co == IF b.coupon > 0 THEN b.coupon ELSE p.bond.coupon
         pe == IF b.period > 0 THEN b.period ELSE p.bond.period
         ne == IF b.next # None THEN b.next ELSE p.bond.next
         of == IF offered THEN b.offer ELSE p.bond.offer
         de == IF offered /\ moved THEN "pending" ELSE p.decision
         s == Plan!Synced(p)
  <2>1. HasPrices(b) /\ HasPrices(p.bond)
    BY <1>2, PricedBond DEF Counted
  <2>2. /\ s = [p EXCEPT !.bond.coupon = co, !.bond.period = pe, !.bond.next = ne,
                         !.bond.offer = of, !.decision = de]
        /\ of = b.offer \/ of = p.bond.offer
        /\ co = b.coupon \/ co = p.bond.coupon
    <3>1. s = [p EXCEPT !.bond.coupon = IF b.coupon > 0 THEN b.coupon ELSE @,
                        !.bond.period = IF b.period > 0 THEN b.period ELSE @,
                        !.bond.next = IF b.next # None THEN b.next ELSE @,
                        !.bond.offer = IF offered THEN b.offer ELSE @,
                        !.decision = IF offered /\ moved THEN "pending" ELSE @]
      BY <1>2, Zenon DEF Plan!Synced
    <3> HIDE DEF b
    <3>2. (of = b.offer \/ of = p.bond.offer) /\ (co = b.coupon \/ co = p.bond.coupon)
      OBVIOUS
    <3> HIDE DEF offered, moved
    <3>3. s = [p EXCEPT !.bond.coupon = co, !.bond.period = pe, !.bond.next = ne,
                        !.bond.offer = of, !.decision = de]
      BY <3>1 DEF IsPosition, HasDates
    <3> QED
      BY <3>2, <3>3
  <2> HIDE DEF b, offered, moved, co, pe, ne, of, de
  <2> HIDE DEF s
  <2>3. /\ DOMAIN s = DOMAIN p /\ s.lots = p.lots /\ s.cost = p.cost
        /\ DOMAIN s.bond = DOMAIN p.bond /\ s.bond.lot = p.bond.lot /\ s.bond.face = p.bond.face
        /\ s.bond.clean = p.bond.clean /\ s.bond.coupon = co /\ s.bond.offer = of
    BY <2>1, <2>2 DEF IsPosition, HasDates, HasPrices, Counted
  <2>4. HasPrices(s.bond)
    BY <2>1, <2>2, <2>3 DEF HasPrices
  <2> QED
    BY <2>3, <2>4 DEF Counted, s
<1> QED
  BY <1>1, <1>2

LEMMA ClosedIsCounted ==
  ASSUME NEW p, Counted(p), IsPosition(p)
  PROVE  Counted([p EXCEPT !.closed = TRUE])
<1> DEFINE q == [p EXCEPT !.closed = TRUE]
<1>1. DOMAIN q = DOMAIN p /\ q.lots = p.lots /\ q.cost = p.cost /\ q.bond = p.bond
  BY DEF Counted, IsPosition
<1> HIDE DEF q
<1>2. Counted(q)
  BY <1>1 DEF Counted
<1> QED
  BY <1>2 DEF q

\* What is paid is a whole amount.
LEMMA PaysWhole ==
  ASSUME NEW p, Counted(p)
  PROVE  /\ p.lots * p.cost \in Int
         /\ Plan!Coupon(p) \in Int
         /\ Plan!Redemption(p, Plan!IsPut(p)) \in Int
<1>1. PICK n \in Nat, cost \in Int, tax \in Int, coupon \in Int, face \in Int, clean \in Int :
        /\ n = p.lots /\ cost = p.cost /\ tax = TaxRate
        /\ coupon = p.bond.coupon /\ face = p.bond.face /\ clean = p.bond.clean
  BY CashAssumption DEF Counted, HasPrices
<1>2. /\ n * cost \in Int
      /\ (n * coupon * (100 - tax)) \div 100 \in Int
  OBVIOUS
<1>3. PICK lot : lot = IF Plan!IsPut(p) THEN p.bond.offer.price ELSE p.bond.face
  OBVIOUS
<1>4. lot \in Int
  BY <1>1, <1>3 DEF Plan!IsPut, Counted, HasPrices
<1>5. PICK gain \in Int : gain = Plan!Most(0, lot - clean)
  BY <1>4 DEF Plan!Most
<1>6. n * lot - (n * gain * tax) \div 100 \in Int
  BY <1>4
<1>7. Plan!Redemption(p, Plan!IsPut(p)) = n * lot - (n * gain * tax) \div 100
  BY <1>1, <1>3, <1>5, Zenon DEF Plan!Redemption
<1> QED
  BY <1>1, <1>2, <1>6, <1>7 DEF Plan!Coupon

LEMMA LotsAreCounted ==
  ASSUME BodyInv, CashInv
  PROVE  Plan!Lots \in [ISINs -> Nat]
<1> DEFINE S(i) == {k \in DOMAIN book : book[k].bond.isin = i /\ ~book[k].closed}
           w(i) == [k \in S(i) |-> book[k].lots]
<1>0. \A i : Plan!MapThenSumSet(LAMBDA k : book[k].lots, S(i)) = Total(w(i), S(i))
  BY ZenonT(60) DEF Plan!MapThenSumSet, Plan!MapThenFoldSet, AnyOf, Total, Adds
<1>1. /\ Plan!Lots = [i \in ISINs |-> Plan!Lots[i]]
      /\ \A i \in ISINs : Plan!Lots[i] = Total(w(i), S(i))
  BY <1>0, Zenon DEF Plan!Lots
<1>2. IsFiniteSet(DOMAIN book)
  <2>1. Len(book) \in Nat /\ DOMAIN book = 1 .. Len(book)
    BY Appended DEF BodyInv
  <2> QED
    BY <2>1, FinitePart
<1>3. ASSUME NEW i \in ISINs PROVE Total(w(i), S(i)) \in Nat
  <2>1. IsFiniteSet(S(i))
    BY <1>2, FS_Subset
  <2>2. \A k \in S(i) : w(i)[k] \in Nat
    BY DEF CashInv, Counted
  <2> HIDE DEF S, w
  <2> QED
    BY <2>1, <2>2, TotalWithin
<1> HIDE DEF S, w
<1> QED
  BY <1>1, <1>3

LEMMA CashBegins == Plan!Init => CashInv
<1> SUFFICES ASSUME Plan!Init PROVE CashInv
  OBVIOUS
<1>1. book = <<>> /\ cash = in.cash /\ frame = Idle /\ in \in Inputs
  BY DEF Plan!Init
<1>2. DOMAIN book = {}
  BY <1>1
<1>3. cash \in Int
  BY <1>1, CashAssumption
<1> QED
  BY <1>1, <1>2, <1>3 DEF CashInv

\* A position is opened and paid for, or another amount moves, with no deployment on.
LEMMA OpenCounts ==
  ASSUME BodyInv, CashInv, NEW p, Plan!Open(p), Counted(p)
  PROVE  \A i \in DOMAIN book' : Counted(book'[i])
<1>1. book' = Append(book, p)
  BY DEF Plan!Open
<1>2. /\ DOMAIN book' = DOMAIN book \cup {Len(book) + 1} /\ book'[Len(book) + 1] = p
      /\ \A k \in DOMAIN book : book'[k] = book[k]
  BY <1>1, Appended DEF BodyInv
<1> QED
  BY <1>2 DEF CashInv

LEMMA SeedCounts ==
  ASSUME PlanInv, CashInv, Plan!Seed
  PROVE  CashInv'
<1>0. BodyInv /\ StageInv
  BY DEF PlanInv
<1>1. PICK n : n = Len(book) + 1
  OBVIOUS
<1>2. PICK p : p = Plan!Synced(in.seeds[n])
  OBVIOUS
<1>3. n \in DOMAIN in.seeds
  <2>1. Len(book) \in Nat
    BY <1>0, Appended DEF BodyInv
  <2>2. in.seeds \in Seq({in.seeds[k] : k \in DOMAIN in.seeds})
    BY <1>0, PlanAssumption DEF BodyInv
  <2>3. Len(book) < Len(in.seeds)
    BY DEF Plan!Seed
  <2>4. Len(in.seeds) \in Nat /\ DOMAIN in.seeds = 1 .. Len(in.seeds)
    BY <2>2
  <2> QED
    BY <1>1, <2>1, <2>3, <2>4
<1>4. Counted(p)
  <2>1. PICK q : q = in.seeds[n]
    OBVIOUS
  <2>2. IsPosition(q)
    BY <1>0, <1>3, <2>1, PlanAssumption DEF BodyInv
  <2>3. \A i \in Inputs : \A k \in DOMAIN i.seeds : Counted(i.seeds[k])
    <3>1. \A i \in Inputs : \A k \in DOMAIN i.seeds :
            /\ {"lots", "cost"} \subseteq DOMAIN i.seeds[k]
            /\ HasPrices(i.seeds[k].bond)
            /\ i.seeds[k].lots \in Nat /\ i.seeds[k].cost \in Int
      BY CashAssumption, Zenon
    <3> QED
      BY <3>1 DEF Counted
  <2>4. Counted(q)
    BY <1>0, <1>3, <2>1, <2>3 DEF BodyInv
  <2> QED
    BY <1>0, <1>2, <2>1, <2>2, <2>4, SyncedIsCounted DEF BodyInv
<1>5. /\ Plan!Open(p) /\ frame' = frame /\ pc = "seed"
      /\ cash' = cash \/ cash' = cash + (-p.lots * p.cost)
  BY <1>1, <1>2 DEF Plan!Seed, Plan!Record
<1>6. cash' \in Int
  <2>1. PICK a \in Nat, b \in Int : a = p.lots /\ b = p.cost
    BY <1>4 DEF Counted
  <2>2. cash' = cash \/ cash' = cash + (-a * b)
    BY <1>5, <2>1
  <2>3. -a * b \in Int
    OBVIOUS
  <2> QED
    BY <2>2, <2>3 DEF CashInv
<1>7. frame' = Idle
  BY <1>0, <1>5 DEF StageInv
<1>8. \A i \in DOMAIN book' : Counted(book'[i])
  BY <1>0, <1>4, <1>5, OpenCounts
<1> QED
  BY <1>6, <1>7, <1>8 DEF CashInv

LEMMA PaysCounts ==
  ASSUME PlanInv, CashInv, Plan!PayCoupon
  PROVE  CashInv'
<1>0. BodyInv
  BY DEF PlanInv
<1>1. PICK i : i = Plan!First.pos
  OBVIOUS
<1>2. i \in DOMAIN book /\ frame = Idle
  BY <1>1, TakenIsDue DEF Plan!PayCoupon
<1>3. /\ UNCHANGED <<book, frame>>
      /\ cash' = cash \/ cash' = cash + Plan!Coupon(book[i])
  BY <1>1 DEF Plan!PayCoupon, Plan!Record
<1>4. Plan!Coupon(book[i]) \in Int
  BY <1>2, PaysWhole DEF CashInv
<1> QED
  BY <1>2, <1>3, <1>4 DEF CashInv

LEMMA EndsCounts ==
  ASSUME PlanInv, CashInv, Plan!Redeem
  PROVE  CashInv'
<1>0. BodyInv
  BY DEF PlanInv
<1>1. PICK i : i = Plan!First.pos
  OBVIOUS
<1>2. i \in DOMAIN book /\ frame = Idle
  BY <1>1, TakenIsDue DEF Plan!Redeem
<1>3. /\ frame' = frame /\ book' = [book EXCEPT ![i].closed = TRUE]
      /\ cash' = cash + Plan!Redemption(book[i], Plan!IsPut(book[i]))
  BY <1>1 DEF Plan!Redeem, Plan!Record
<1>4. Plan!Redemption(book[i], Plan!IsPut(book[i])) \in Int
  BY <1>2, PaysWhole DEF CashInv
<1>5. PICK q : q = [book[i] EXCEPT !.closed = TRUE]
  OBVIOUS
<1>6. Counted(q)
  BY <1>0, <1>2, <1>5, ClosedIsCounted DEF CashInv, BodyInv
<1>7. \A k \in DOMAIN book' : k \in DOMAIN book /\ (book'[k] = book[k] \/ book'[k] = q)
  BY <1>2, <1>3, <1>5
<1>8. cash' \in Int
  BY <1>3, <1>4 DEF CashInv
<1>9. \A k \in DOMAIN book' : Counted(book'[k])
  BY <1>6, <1>7 DEF CashInv
<1> QED
  BY <1>2, <1>3, <1>8, <1>9 DEF CashInv

LEMMA BeginCounts ==
  ASSUME PlanInv, CashInv, Plan!DeployBegin
  PROVE  CashInv'
<1>0. BodyInv
  BY DEF PlanInv
<1>1. PICK e : e = Plan!First
  OBVIOUS
<1>2. PICK confirmed :
        frame' = IF cash <= 0 THEN Idle
                 ELSE [event |-> e, amount |-> cash,
                       f |-> Plan!Deploy(in, e.date, cash, Plan!Lots, confirmed)]
  BY <1>1 DEF Plan!DeployBegin
<1>3. UNCHANGED <<in, cash, book>>
  BY DEF Plan!DeployBegin, Plan!Take
<1>4. CASE cash <= 0
  BY <1>2, <1>3, <1>4 DEF CashInv
<1>5. CASE ~(cash <= 0)
  <2>1. cash \in Nat
    BY <1>5 DEF CashInv
  <2>2. PICK f : f = Plan!Deploy(in, e.date, cash, Plan!Lots, confirmed)
    OBVIOUS
  <2>3. FrameInv(in, f, cash)
    <3>1. Plan!Lots \in [ISINs -> Nat] /\ in \in Inputs
      BY <1>0, LotsAreCounted DEF BodyInv
    <3> QED
      BY <2>1, <2>2, <3>1, DeployBegins
  <2>4. frame'.f = f
    BY <1>2, <1>5, <2>2
  <2>5. FrameInv(in', frame'.f, cash')
    BY <1>3, <2>3, <2>4
  <2> QED
    BY <1>3, <2>1, <2>5 DEF CashInv
<1> QED
  BY <1>4, <1>5

LEMMA IterationCounts ==
  ASSUME PlanInv, CashInv, Plan!DeployIteration
  PROVE  CashInv'
<1>0. BodyInv /\ StageInv
  BY DEF PlanInv
<1>1. /\ frame # Idle /\ frame.f.phase # "buy" /\ UNCHANGED <<in, cash, book>>
      /\ frame' = [frame EXCEPT !.f = Plan!DeployStep(in, frame.event.date, frame.f)]
  BY DEF Plan!DeployIteration
<1>2. "f" \in DOMAIN frame
  BY <1>0, <1>1 DEF StageInv
<1>3. PICK g : g = Plan!DeployStep(in, frame.event.date, frame.f)
  OBVIOUS
<1>4. FrameInv(in, g, cash)
  BY <1>0, <1>1, <1>3, DeployStepKeeps DEF CashInv, BodyInv
<1>5. frame'.f = g
  BY <1>1, <1>2, <1>3
<1>6. FrameInv(in', frame'.f, cash')
  BY <1>1, <1>4, <1>5
<1> QED
  BY <1>1, <1>6 DEF CashInv

\* A deployment has not allocated more than the cash.
LEMMA AllocatedWithin ==
  ASSUME NEW u \in Inputs, NEW f, NEW c \in Nat, FrameInv(u, f, c)
  PROVE  Paid(u, f.buys) \in Nat /\ Paid(u, f.buys) <= c
<1>1. f.cash \in Nat /\ f.spent \in Nat /\ BuyList(u, f.buys) /\ f.spent <= f.cash
  BY DEF FrameInv, FrameTypeOK, ListsOK, MoneyOK
<1>2. PICK paid \in Nat : paid = Paid(u, f.buys)
  BY <1>1, BuyTerms
<1>3. IF f.phase = "buy" THEN paid <= c ELSE paid + f.cash = c + f.spent
  BY <1>2 DEF FrameInv, MoneyOK
<1> QED
  BY <1>1, <1>2, <1>3

\* A purchase takes every lot that was allocated, as the cash pays for all of them.
LEMMA BuyCounts ==
  ASSUME PlanInv, CashInv, Plan!Buy
  PROVE  CashInv'
<1>0. BodyInv /\ StageInv /\ in \in Inputs
  BY DEF PlanInv, BodyInv
<1>1. /\ frame # Idle /\ frame' = [frame EXCEPT !.f.buys = Tail(@)] /\ in' = in
      /\ frame.f.phase = "buy" /\ frame.f.buys # <<>>
  BY DEF Plan!Buy
<1>2. PICK f : f = frame.f
  OBVIOUS
<1>3. FrameInv(in, f, cash) /\ cash \in Nat /\ f.phase = "buy" /\ f.buys # <<>>
  BY <1>1, <1>2 DEF CashInv
<1>4. BuyList(in, f.buys) /\ FrameTypeOK(in, f)
  BY <1>3 DEF FrameInv, ListsOK
<1>5. PICK a : a = Head(f.buys)
  OBVIOUS
<1>6. PICK b : b = Plan!BondOf(in, a.isin)
  OBVIOUS
<1>7. PICK lots : lots = IF Plan!Known(in, a.isin) /\ b.lot > 0
                         THEN Plan!Least(a.lots, cash \div b.lot) ELSE 0
  OBVIOUS
<1>8. PICK rest : rest = Tail(f.buys)
  OBVIOUS
<1>9. PICK paid \in Nat : paid = Paid(in, f.buys) /\ paid <= cash
  BY <1>0, <1>3, AllocatedWithin
<1>10. /\ a \in [isin : Isins(in), lots : Nat] /\ BuyList(in, rest)
       /\ Paid(in, rest) = paid - a.lots * Price(in, a.isin) /\ Paid(in, rest) \in Nat
  <2>1. /\ a \in [isin : Isins(in), lots : Nat] /\ BuyList(in, rest)
        /\ Paid(in, rest) = paid - a.lots * Price(in, a.isin)
    BY <1>0, <1>3, <1>4, <1>5, <1>8, <1>9, TailPaid
  <2> QED
    BY <1>0, <2>1, BuyTerms
<1>11. PICK n \in Nat, lot \in Nat : n = a.lots /\ lot = b.lot /\ lot = Price(in, a.isin)
  BY <1>0, <1>6, <1>10, ListedBond DEF Price
<1>12. Plan!Known(in, a.isin) /\ HasPrices(b) /\ HasDates(b)
  <2>1. PICK i \in Isins(in) : i = a.isin
    BY <1>10
  <2>2. Plan!Known(in, i)
    BY <1>0, ListedBond
  <2>3. HasPrices(Plan!BondOf(in, i)) /\ HasDates(Plan!BondOf(in, i))
    BY <1>0, <2>2, PricedBond, KnownBond
  <2> QED
    BY <1>6, <2>1, <2>2, <2>3
<1>13. n * lot \in Nat /\ n * lot <= cash
  <2>1. PICK tail \in Nat, x \in Nat : tail = Paid(in, rest) /\ x = n * lot
    BY <1>10, Products
  <2>2. tail = paid - x
    BY <1>10, <1>11, <2>1
  <2> QED
    BY <1>3, <1>9, <2>1, <2>2
<1>14. lots \in Nat /\ lots * lot = n * lot
  <2>1. CASE lot = 0
    <3>1. lots = 0
      BY <1>7, <1>11, <2>1
    <3> QED
      BY <2>1, <3>1
  <2>2. CASE lot # 0
    <3>1. PICK q \in Nat : q = cash \div lot
      BY <1>3, <2>2, Quotient
    <3>2. n <= q
      BY <1>3, <1>13, <2>2, <3>1
    <3>3. lots = n
      BY <1>7, <1>11, <1>12, <2>2, <3>1, <3>2 DEF Plan!Least
    <3> QED
      BY <3>3
  <2> QED
    BY <2>1, <2>2
<1>15. cash' = cash - n * lot
  <2>1. CASE lots < 1
    <3>1. cash' = cash
      BY <1>2, <1>5, <1>6, <1>7, <2>1 DEF Plan!Buy
    <3>2. lots = 0
      BY <1>14, <2>1
    <3>3. n * lot = 0
      BY <1>14, <3>2
    <3> QED
      BY <1>3, <3>1, <3>3
  <2>2. CASE ~(lots < 1)
    <3>1. cash' = cash + (-lots * b.lot)
      BY <1>2, <1>5, <1>6, <1>7, <2>2, Zenon DEF Plan!Buy, Plan!Record
    <3>2. -lots * b.lot = -(lots * lot)
      BY <1>11, <1>14
    <3> QED
      BY <1>3, <1>13, <1>14, <3>1, <3>2
  <2> QED
    BY <2>1, <2>2
<1>16. cash' \in Nat /\ Paid(in, rest) <= cash'
  <2>1. PICK tail \in Nat, x \in Nat : tail = Paid(in, rest) /\ x = n * lot
    BY <1>10, <1>13
  <2>2. tail = paid - x
    BY <1>10, <1>11, <2>1
  <2> QED
    BY <1>3, <1>9, <1>13, <1>15, <2>1, <2>2
<1>17. PICK g : g = [f EXCEPT !.buys = rest]
  OBVIOUS
<1>18. frame'.f = g
  BY <1>0, <1>1, <1>2, <1>8, <1>17 DEF StageInv
<1>19. FrameInv(in, g, cash')
  <2>1. /\ DOMAIN g = DOMAIN f /\ g.buys = rest
        /\ g.phase = f.phase /\ g.at = f.at /\ g.again = f.again
        /\ g.cash = f.cash /\ g.spent = f.spent /\ g.held = f.held /\ g.full = f.full
        /\ g.budget = f.budget /\ g.seen = f.seen /\ g.pool = f.pool
        /\ g.bought = f.bought /\ g.picks = f.picks /\ g.left = f.left /\ g.order = f.order
    BY <1>4, <1>17 DEF FrameTypeOK, FrameFields
  <2>2. FrameTypeOK(in, g)
    BY <1>4, <2>1 DEF FrameTypeOK
  <2>3. ListsOK(in, g) /\ OrderOK(in, g)
    BY <1>3, <1>10, <2>1 DEF FrameInv, ListsOK, OrderOK
  <2>4. MoneyOK(in, g, cash')
    <3>1. /\ g.phase = "buy" /\ g.left + Worth(in, g.picks) = g.budget
          /\ g.full \/ g.budget = g.cash
          /\ g.spent <= g.cash /\ Paid(in, g.buys) <= cash'
      BY <1>3, <1>16, <2>1 DEF FrameInv, MoneyOK
    <3>2. ~(g.phase \in {"open", "topup", "fill"}) /\ g.phase # "target"
      BY <3>1
    <3> QED
      BY <3>1, <3>2 DEF MoneyOK
  <2>5. CapsOK(g)
    <3>1. \A k \in DOMAIN f.pool : f.picks[f.pool[k].isin] > 0 => Capped(f, f.pool[k])
      BY <1>3 DEF FrameInv, CapsOK
    <3>2. \A x : Capped(f, x) => Capped(g, x)
      BY <2>1, CappedAlike
    <3>3. g.phase # "open"
      BY <1>3, <2>1
    <3> QED
      BY <2>1, <3>1, <3>2, <3>3 DEF CapsOK
  <2> QED
    BY <2>2, <2>3, <2>4, <2>5 DEF FrameInv
<1>20. \A i \in DOMAIN book' : Counted(book'[i])
  <2>1. CASE lots < 1
    <3>1. book' = book
      BY <1>2, <1>5, <1>6, <1>7, <2>1 DEF Plan!Buy
    <3> QED
      BY <3>1 DEF CashInv
  <2>2. CASE ~(lots < 1)
    <3>1. PICK p : p = Plan!Bought(b, lots, frame.event.date,
                                   book[frame.event.pos].generation + 1)
      OBVIOUS
    <3>2. Plan!Open(p)
      BY <1>2, <1>5, <1>6, <1>7, <2>2, <3>1, Zenon DEF Plan!Buy
    <3>3. Counted(p)
      BY <1>12, <1>14, <3>1, BoughtIsCounted
    <3> QED
      BY <1>0, <3>2, <3>3, OpenCounts
  <2> QED
    BY <2>1, <2>2
<1>21. FrameInv(in', frame'.f, cash')
  BY <1>1, <1>18, <1>19
<1> QED
  BY <1>16, <1>20, <1>21 DEF CashInv

LEMMA RestCounts ==
  ASSUME CashInv, UNCHANGED <<in, cash, book>>, frame' \in {frame, Idle}
  PROVE  CashInv'
<1>1. CASE frame' = Idle
  BY <1>1 DEF CashInv
<1>2. CASE frame' = frame
  BY <1>2 DEF CashInv
<1> QED
  BY <1>1, <1>2

LEMMA CashStep == PlanInv /\ CashInv /\ [Plan!Next]_(Plan!vars) => CashInv'
<1> SUFFICES ASSUME PlanInv, CashInv, [Plan!Next]_(Plan!vars)
             PROVE  CashInv'
  OBVIOUS
<1>1. CASE Plan!Start \/ Plan!SkipPast \/ Plan!DeployEnd \/ Plan!Finish
  <2>1. UNCHANGED <<in, cash, book>> /\ frame' \in {frame, Idle}
    BY <1>1 DEF Plan!Start, Plan!SkipPast, Plan!DeployEnd, Plan!Finish
  <2> QED
    BY <2>1, RestCounts
<1>2. CASE UNCHANGED Plan!vars
  BY <1>2, RestCounts DEF Plan!vars
<1> QED
  BY <1>1, <1>2, SeedCounts, PaysCounts, EndsCounts, BeginCounts, IterationCounts, BuyCounts
     DEF Plan!Next

\* Every loop of a deployment spends what the others have left; see above.
THEOREM CashInvariant == Plan!Spec => [](PlanInv /\ CashInv)
<1>1. Plan!Init => PlanInv /\ CashInv
  BY PlanBegins, CashBegins
<1>2. PlanInv /\ CashInv /\ [Plan!Next]_(Plan!vars) => PlanInv' /\ CashInv'
  BY PlanStep, CashStep
<1> QED
  BY <1>1, <1>2, PTL DEF Plan!Spec

\* In every deployment, of any universe, with any confirmed replacement and whatever the
\* shares and minima of a position: nothing is allocated that the cash does not pay for,
\* and no purchase overdraws it.
THEOREM SpendsNoMoreThanThereIs == Plan!Spec => []SpendsWithinCash
<1>1. PlanInv /\ CashInv => SpendsWithinCash
  <2> SUFFICES ASSUME PlanInv, CashInv, frame # Idle
               PROVE  /\ frame.f.left >= 0 /\ frame.f.spent <= frame.f.cash
                      /\ Plan!MapThenSumSet(
                           LAMBDA k : frame.f.buys[k].lots * Plan!BondOf(in, frame.f.buys[k].isin).lot,
                           DOMAIN frame.f.buys) <= cash
    BY DEF SpendsWithinCash, Plan!SpendsWithinCash
  <2>1. FrameInv(in, frame.f, cash) /\ cash \in Nat /\ in \in Inputs
    BY DEF PlanInv, BodyInv, CashInv
  <2>2. frame.f.left >= 0 /\ frame.f.spent <= frame.f.cash
    BY <2>1 DEF FrameInv, FrameTypeOK, MoneyOK
  <2>3. Plan!MapThenSumSet(
          LAMBDA k : frame.f.buys[k].lots * Plan!BondOf(in, frame.f.buys[k].isin).lot,
          DOMAIN frame.f.buys) = Paid(in, frame.f.buys)
    BY Zenon DEF Plan!MapThenSumSet, Plan!MapThenFoldSet, AnyOf, Total, Adds, Paid, Price
  <2>4. Paid(in, frame.f.buys) <= cash
    BY <2>1, AllocatedWithin
  <2> QED
    BY <2>2, <2>3, <2>4
<1> QED
  BY <1>1, CashInvariant, PTL

\* And what AutoCompose builds keeps to the shares of a position, a sector and an issuer,
\* whatever the order of its loops.
THEOREM CapsAreKept == Plan!Spec => []CapsHold
<1>1. CashInv => CapsHold
  <2> SUFFICES ASSUME CashInv, frame # Idle, NEW k \in DOMAIN frame.f.pool,
                      frame.f.picks[frame.f.pool[k].isin] > 0
               PROVE  Capped(frame.f, frame.f.pool[k])
    BY DEF CapsHold, Plan!CapsHold, Capped
  <2> QED
    BY DEF CashInv, FrameInv, CapsOK
<1> QED
  BY <1>1, CashInvariant, PTL
=============================================================================
