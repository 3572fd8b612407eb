--------------------------- MODULE BillingProofs ---------------------------
(***************************************************************************)
(* Proofs about BillingService, for any number of owners, payments, API    *)
(* goroutines, releases and faults.                                        *)
(***************************************************************************)
EXTENDS BillingService, TLAPS

-----------------------------------------------------------------------------
(* The pure rules return subscriptions. *)

LEMMA ApplyType ==
  ASSUME NEW s \in Subscription \cup {NoSub}, NEW plan \in PlanVersions,
         NEW purpose, NEW at \in Nat, NEW m \in BOOLEAN
  PROVE  ApplySuccessfulPayment(s, plan, purpose, at, m, Recurring) \in Subscription
<1> DEFINE keeps == KeepsMethod(s, m, Recurring)
<1>1. keeps \in BOOLEAN
  BY ServiceAssumption DEF KeepsMethod
<1>2. ASSUME NEW per \in Periods PROVE PeriodDuration(per) \in Nat
  BY LengthAssumption DEF PeriodDuration
<1>3. PlanPeriod[plan] \in Periods
  BY PlanAssumption
<1>4. at + PeriodDuration(PlanPeriod[plan]) \in Nat
  BY <1>2, <1>3
<1>5. CASE s # NoSub /\ purpose = "renew"
  <2>1. s \in Subscription
    BY <1>5
  <2>2. PlanPeriod[s.plan] \in Periods /\ s.plan \in PlanVersions /\ s.end \in Nat
    BY <2>1, PlanAssumption DEF Subscription
  <2>3. ExtendPeriodEnd(s.end, at, PlanPeriod[s.plan]) \in Nat
    BY <2>2, <1>2 DEF ExtendPeriodEnd
  <2> QED
    BY <1>1, <1>4, <1>5, <2>2, <2>3, ServiceAssumption
    DEF ApplySuccessfulPayment, Subscription
<1>6. CASE ~(s # NoSub /\ purpose = "renew")
  BY <1>1, <1>4, <1>6, ServiceAssumption DEF ApplySuccessfulPayment, Subscription
<1> QED
  BY <1>5, <1>6

\* A renewal keeps the version subscribed to; anything else adopts the row's.
LEMMA ApplyPlan ==
  ASSUME NEW s \in Subscription \cup {NoSub}, NEW plan \in PlanVersions,
         NEW purpose, NEW at, NEW m
  PROVE  ApplySuccessfulPayment(s, plan, purpose, at, m, Recurring).plan =
           IF s # NoSub /\ purpose = "renew" THEN s.plan ELSE plan
BY DEF ApplySuccessfulPayment

LEMMA MarkType ==
  ASSUME NEW s \in Subscription, NEW at \in Nat
  PROVE  /\ MarkCancelAtPeriodEnd(s) \in Subscription
         /\ MarkCancelAtPeriodEnd(s).plan = s.plan
         /\ MarkPastDue(s, at) \in Subscription /\ MarkPastDue(s, at).plan = s.plan
         /\ MarkExpired(s) \in Subscription /\ MarkExpired(s).plan = s.plan
BY DEF Subscription, MarkCancelAtPeriodEnd, MarkPastDue, MarkExpired

LEMMA IdleType == Idle \in Frame
BY DEF Idle, Frame, Ops, Points, NewFields, Fields, PaymentStatus

-----------------------------------------------------------------------------
(* Rows and provider payments only move forward. *)

Evolves ==
  \A p \in PayIds :
    /\ pay[p] # NoRow =>
         /\ pay'[p] # NoRow
         /\ pay'[p].owner = pay[p].owner /\ pay'[p].plan = pay[p].plan
         /\ pay'[p].amount = pay[p].amount /\ pay'[p].purpose = pay[p].purpose
    /\ prov[p].status # "none" => prov'[p].status # "none"
    /\ prov[p].status = "succeeded" => prov'[p] = prov[p]

LEMMA CapturedStays ==
  ASSUME Evolves, NEW p \in PayIds, TypeOK, Captured(p)
  PROVE  Captured(p)'
BY DEF Evolves, Captured, TypeOK, ProviderPayment

LEMMA BoughtStays ==
  ASSUME Evolves, TypeOK, NEW o, NEW v, Bought(o, v)
  PROVE  Bought(o, v)'
<1>1. PICK p \in PayIds : Captured(p) /\ pay[p].owner = o /\ pay[p].plan = v
                         /\ pay[p].purpose # "renew"
  BY DEF Bought
<1>2. Captured(p)'
  BY <1>1, CapturedStays
<1>3. pay'[p].owner = o /\ pay'[p].plan = v /\ pay'[p].purpose # "renew"
  BY <1>1 DEF Evolves, Captured
<1> QED
  BY <1>2, <1>3 DEF Bought

\* A frame that is not the one taking the step keeps its invariant.
LEMMA FrameStays ==
  ASSUME Evolves, TypeOK, NEW c \in Frame, FrameInv(c),
         c.pc = "charge" => prov'[c.p].status = "none"
  PROVE  FrameInv(c)'
<1>1. CopyIsBought(c) => CopyIsBought(c)'
  BY BoughtStays DEF CopyIsBought
<1>2. c.p \in PayIds /\ Captured(c.p) => Captured(c.p)'
  BY CapturedStays
<1>3. \A o \in Owners : c.due[o] # NoSub => Bought(o, c.due[o].plan)'
  BY BoughtStays DEF FrameInv
<1>4. \A p \in c.todo : prov'[p].status # "none"
  BY DEF FrameInv, Evolves, Frame
<1> QED
  BY <1>1, <1>2, <1>3, <1>4 DEF FrameInv, Evolves

-----------------------------------------------------------------------------
(* The invariant under each kind of step: one goroutine takes the step and *)
(* its new frame c is safe; at most one table or the provider changes.     *)

EnvType == /\ now' \in Nat /\ release' \in 1 .. Releases
           /\ acked' \in SUBSET PayIds /\ faults' \in Nat

\* Goroutine t goes on with frame c.
Proceeds(t, c) ==
  /\ Become(t, c)
  /\ t = Notifier /\ c.pc # "idle" => c.op = "renew"

LEMMA StepInv ==
  ASSUME Inv, Evolves, RowsInv', DebitOnlyCaptured', SubscriptionIsBought',
         EnvType,
         sub' \in [Owners -> Subscription \cup {NoSub}],
         pay' \in [PayIds -> PaymentRow \cup {NoRow}],
         ledger' \in [PayIds -> Nat],
         prov' \in [PayIds -> ProviderPayment],
         NEW t \in Procs, NEW c \in Frame, Proceeds(t, c), FrameInv(c)',
         \A u \in Procs \ {t} : call[u].pc = "charge" =>
            /\ prov'[call[u].p].status = "none"
            /\ c.pc = "charge" => c.p # call[u].p
  PROVE  Inv'
<1>1. TypeOK'
  BY DEF TypeOK, Inv, EnvType, Proceeds, Become
<1>2. \A u \in Procs : call'[u] = IF u = t THEN c ELSE call[u]
  BY DEF TypeOK, Inv, Proceeds, Become
<1>3. ASSUME NEW u \in Procs, NEW d \in Frame, call'[u] = d, FrameInv(d)'
      PROVE  FrameInv(call[u])'
  BY <1>3 DEF FrameInv, CopyIsBought
<1>4. \A u \in Procs : FrameInv(call[u])'
  <2> SUFFICES ASSUME NEW u \in Procs PROVE FrameInv(call[u])'
    OBVIOUS
  <2>1. CASE u = t
    BY <1>2, <1>3, <2>1
  <2>2. CASE u # t
    <3>1. PICK d \in Frame : d = call[u]
      BY DEF Inv, TypeOK
    <3>2. FrameInv(d)
      BY <3>1 DEF Inv, FrameInv, CopyIsBought
    <3>3. d.pc = "charge" => prov'[d.p].status = "none"
      BY <2>2, <3>1
    <3>4. FrameInv(d)'
      BY <3>2, <3>3, FrameStays DEF Inv
    <3> QED
      BY <1>2, <1>3, <2>2, <3>1, <3>4
  <2> QED
    BY <2>1, <2>2
<1>5. ChargeOnce'
  BY <1>2 DEF Inv, ChargeOnce
<1>6. NotifierRenews'
  BY <1>2 DEF Inv, NotifierRenews, Proceeds, Procs
<1> QED
  BY <1>1, <1>4, <1>5, <1>6 DEF Inv

-----------------------------------------------------------------------------
(* The same, for each table a step may write.                              *)

\* Goroutine t goes on with a frame that was already safe to hold.
GoesOn(t, c) ==
  /\ Proceeds(t, c)
  /\ FrameInv(c)
  /\ c.pc = "charge" => c = call[t]

LEMMA OtherCharges ==
  ASSUME Inv, NEW t \in Procs, NEW u \in Procs \ {t}, call[u].pc = "charge"
  PROVE  /\ call[u] \in Frame /\ call[u].p \in PayIds /\ pay[call[u].p] # NoRow
         /\ prov[call[u].p].status = "none"
         /\ call[t].pc = "charge" => call[t].p # call[u].p
BY DEF Inv, TypeOK, FrameInv, ChargeOnce

LEMMA RowsStay ==
  ASSUME Inv, UNCHANGED <<pay, prov>>
  PROVE  Evolves /\ RowsInv' /\ \A p \in PayIds : Captured(p)' <=> Captured(p)
<1>1. Evolves
  BY DEF Evolves
<1>2. \A p \in PayIds : Captured(p)' <=> Captured(p)
  BY DEF Captured
<1>3. RowsInv'
  BY DEF Inv, RowsInv, Bought, Captured
<1> QED
  BY <1>1, <1>2, <1>3

LEMMA BoughtKept ==
  ASSUME Inv, Evolves, UNCHANGED sub
  PROVE  SubscriptionIsBought'
BY BoughtStays DEF Inv, SubscriptionIsBought, TypeOK, Subscription

\* What every step of the service is shown to be: it keeps the invariant and is
\* a step of the payment contract, or changes nothing the contract talks about.
ContractStep == [Contract!Next]_(Contract!vars)

SafeStep == Inv' /\ ContractStep

LEMMA BarBought ==
  ASSUME NEW o, NEW v, Bought(o, v)
  PROVE  Contract!Bought(o, v)
BY DEF Bought, Captured, Contract!Bought, moneyBar

LEMMA MoneyBarStays ==
  ASSUME Inv, Evolves, UNCHANGED prov
  PROVE  UNCHANGED moneyBar
BY DEF Inv, RowsInv, Evolves, moneyBar

LEMMA PlanBarStays == ASSUME UNCHANGED sub PROVE UNCHANGED planBar
BY DEF planBar

LEMMA StutterStep ==
  ASSUME Inv, Evolves, UNCHANGED <<sub, ledger, prov>>
  PROVE  ContractStep
BY MoneyBarStays, PlanBarStays DEF ContractStep, Contract!vars

LEMMA QuietStep ==
  ASSUME Inv, UNCHANGED <<db, prov>>, EnvType,
         NEW t \in Procs, NEW c \in Frame, GoesOn(t, c)
  PROVE  SafeStep
<1>1. Evolves /\ RowsInv' /\ DebitOnlyCaptured'
  BY RowsStay DEF db, Inv, DebitOnlyCaptured, Recorded
<1>2. SubscriptionIsBought'
  BY <1>1, BoughtKept DEF db
<1>3. FrameInv(c)'
  <2>1. c.pc = "charge" => prov'[c.p].status = "none"
    BY DEF GoesOn, FrameInv
  <2> QED
    BY <1>1, <2>1, FrameStays DEF GoesOn, Inv
<1>4. \A u \in Procs \ {t} : call[u].pc = "charge" =>
         /\ prov'[call[u].p].status = "none"
         /\ c.pc = "charge" => c.p # call[u].p
  BY OtherCharges DEF GoesOn
<1>5. Inv'
  BY <1>1, <1>2, <1>3, <1>4, StepInv DEF Inv, TypeOK, GoesOn, db
<1> QED
  BY <1>1, <1>5, StutterStep DEF SafeStep, db

LEMMA SaveStep ==
  ASSUME Inv, UNCHANGED <<pay, ledger, prov>>, EnvType,
         NEW o \in Owners, NEW s \in Subscription, SaveSubscription(o, s),
         Bought(o, s.plan),
         NEW t \in Procs, NEW c \in Frame, GoesOn(t, c)
  PROVE  SafeStep
<1>1. Evolves /\ RowsInv' /\ DebitOnlyCaptured'
  BY RowsStay DEF Inv, DebitOnlyCaptured, Recorded
<1>2. SubscriptionIsBought'
  BY <1>1, BoughtStays
  DEF SaveSubscription, Inv, SubscriptionIsBought, TypeOK, Subscription
<1>3. FrameInv(c)'
  <2>1. c.pc = "charge" => prov'[c.p].status = "none"
    BY DEF GoesOn, FrameInv
  <2> QED
    BY <1>1, <2>1, FrameStays DEF GoesOn, Inv
<1>4. \A u \in Procs \ {t} : call[u].pc = "charge" =>
         /\ prov'[call[u].p].status = "none"
         /\ c.pc = "charge" => c.p # call[u].p
  BY OtherCharges DEF GoesOn
<1>5. Inv'
  BY <1>1, <1>2, <1>3, <1>4, StepInv DEF Inv, TypeOK, GoesOn, SaveSubscription
<1>6. ContractStep
  <2>1. UNCHANGED moneyBar
    BY <1>1, MoneyBarStays
  <2>2. planBar' = [planBar EXCEPT ![o] = s.plan]
    BY NoSubAssumption DEF SaveSubscription, planBar, Inv, TypeOK
  <2>3. s.plan \in PlanVersions /\ Contract!Bought(o, s.plan)
    BY BarBought DEF Subscription
  <2>4. Contract!Adopt(o)
    BY <2>1, <2>2, <2>3 DEF Contract!Adopt
  <2> QED
    BY <2>4 DEF ContractStep, Contract!Next
<1> QED
  BY <1>5, <1>6 DEF SafeStep

LEMMA DebitStep ==
  ASSUME Inv, UNCHANGED <<sub, pay, prov>>, EnvType,
         NEW p \in PayIds, AddLedgerEntry(p), Captured(p),
         NEW t \in Procs, NEW c \in Frame, GoesOn(t, c)
  PROVE  SafeStep
<1>1. Evolves /\ RowsInv'
  BY RowsStay
<1>2. DebitOnlyCaptured'
  <2>1. \A q \in PayIds : ledger'[q] > 0 \/ Recorded(q)'
                          => q = p \/ ledger[q] > 0 \/ Recorded(q)
    BY DEF AddLedgerEntry, Inv, TypeOK, Recorded
  <2> QED
    BY <2>1, RowsStay DEF Inv, DebitOnlyCaptured
<1>3. SubscriptionIsBought'
  BY <1>1, BoughtKept
<1>4. FrameInv(c)'
  <2>1. c.pc = "charge" => prov'[c.p].status = "none"
    BY DEF GoesOn, FrameInv
  <2> QED
    BY <1>1, <2>1, FrameStays DEF GoesOn, Inv
<1>5. \A u \in Procs \ {t} : call[u].pc = "charge" =>
         /\ prov'[call[u].p].status = "none"
         /\ c.pc = "charge" => c.p # call[u].p
  BY OtherCharges DEF GoesOn
<1>6. ledger' \in [PayIds -> Nat]
  BY DEF AddLedgerEntry, Inv, TypeOK
<1>7. Inv'
  BY <1>1, <1>2, <1>3, <1>4, <1>5, <1>6, StepInv DEF Inv, TypeOK, GoesOn
<1>8. ContractStep
  <2>1. UNCHANGED moneyBar /\ UNCHANGED planBar
    BY <1>1, MoneyBarStays, PlanBarStays
  <2>2. moneyBar[p] = [owner |-> pay[p].owner, plan |-> pay[p].plan,
                       kind |-> IF pay[p].purpose = "renew" THEN "renewal" ELSE "purchase",
                       state |-> "succeeded"]
    BY DEF Captured, moneyBar
  <2>3. moneyBar[p] # NoSub
    BY <2>2, NothingAssumption DEF Captured, Inv, TypeOK, PaymentRow
  <2>4. Contract!Book(p)
    BY <2>1, <2>2, <2>3 DEF Contract!Book, AddLedgerEntry
  <2> QED
    BY <2>4 DEF ContractStep, Contract!Next
<1> QED
  BY <1>7, <1>8 DEF SafeStep

LEMMA UpdateStep ==
  ASSUME Inv, UNCHANGED <<sub, ledger, prov>>, EnvType,
         NEW p \in PayIds, NEW f \in Fields, UpdatePayment(p, f), pay[p] # NoRow,
         f.yoo => prov[p].status # "none",
         f.status = "succeeded" => Captured(p),
         NEW t \in Procs, NEW c \in Frame, GoesOn(t, c)
  PROVE  SafeStep
<1>1. pay' \in [PayIds -> PaymentRow \cup {NoRow}]
  <2>1. pay \in [PayIds -> PaymentRow \cup {NoRow}]
    BY DEF Inv, TypeOK
  <2> DEFINE r == [pay[p] EXCEPT !.status = f.status, !.yoo = f.yoo]
  <2>2. r \in PaymentRow
    BY <2>1 DEF PaymentRow, Fields
  <2>3. pay' = [pay EXCEPT ![p] = r]
    BY DEF UpdatePayment
  <2> HIDE DEF r
  <2> QED
    BY <2>1, <2>2, <2>3
<1>2. \A q \in PayIds :
        /\ pay'[q] # NoRow <=> pay[q] # NoRow
        /\ pay[q] # NoRow =>
             /\ pay'[q].owner = pay[q].owner /\ pay'[q].plan = pay[q].plan
             /\ pay'[q].amount = pay[q].amount /\ pay'[q].purpose = pay[q].purpose
             /\ pay'[q].status = IF q = p THEN f.status ELSE pay[q].status
             /\ pay'[q].yoo = IF q = p THEN f.yoo ELSE pay[q].yoo
  BY NoRowAssumption DEF UpdatePayment, Inv, TypeOK, PaymentRow, Fields
<1>3. Evolves
  BY <1>2 DEF Evolves
<1>4. \A q \in PayIds : Captured(q) => Captured(q)'
  BY <1>3, CapturedStays DEF Inv
<1>5. RowsInv'
  BY <1>2, <1>3, BoughtStays DEF Inv, RowsInv
<1>6. DebitOnlyCaptured'
  BY <1>2, <1>4 DEF Inv, DebitOnlyCaptured, Recorded
<1>7. SubscriptionIsBought'
  BY <1>3, BoughtKept
<1>8. FrameInv(c)'
  <2>1. c.pc = "charge" => prov'[c.p].status = "none"
    BY DEF GoesOn, FrameInv
  <2> QED
    BY <1>3, <2>1, FrameStays DEF GoesOn, Inv
<1>9. \A u \in Procs \ {t} : call[u].pc = "charge" =>
         /\ prov'[call[u].p].status = "none"
         /\ c.pc = "charge" => c.p # call[u].p
  BY OtherCharges DEF GoesOn
<1>10. Inv'
  BY <1>1, <1>3, <1>5, <1>6, <1>7, <1>8, <1>9, StepInv DEF Inv, TypeOK, GoesOn
<1> QED
  BY <1>3, <1>10, StutterStep DEF SafeStep

LEMMA CreateStep ==
  ASSUME Inv, UNCHANGED <<sub, ledger, prov>>, EnvType,
         NEW p \in PayIds, NEW r \in PaymentRow, CreatePayment(p, r),
         r.amount = PlanAmount[r.plan], r.status = "pending", ~r.yoo,
         r.purpose = "renew" => Bought(r.owner, r.plan),
         NEW t \in Procs, NEW c \in Frame, Proceeds(t, c),
         c.pc = "charge", c.p = p, \A q \in c.todo : prov[q].status # "none",
         c.op = "renew" => CopyIsBought(c),
         \A o \in Owners : c.due[o] # NoSub => Bought(o, c.due[o].plan)
  PROVE  SafeStep
<1>1. pay' \in [PayIds -> PaymentRow \cup {NoRow}]
  BY DEF CreatePayment, Inv, TypeOK
<1>2. pay[p] = NoRow /\ \A q \in PayIds : pay'[q] = IF q = p THEN r ELSE pay[q]
  BY DEF CreatePayment, Inv, TypeOK
<1>3. Evolves
  BY <1>2 DEF Evolves
<1>4. \A q \in PayIds : Captured(q) => Captured(q)'
  BY <1>3, CapturedStays DEF Inv
<1>5. prov[p].status = "none"
  BY <1>2 DEF Inv, RowsInv
<1>6. RowsInv'
  <2>1. ASSUME NEW q \in PayIds, pay'[q] # NoRow, pay'[q].purpose = "renew"
        PROVE  Bought(pay[q].owner, pay[q].plan)'
    <3>1. PICK o, v : o = pay'[q].owner /\ v = pay'[q].plan
      OBVIOUS
    <3>2. Bought(o, v)
      BY <1>2, <2>1, <3>1 DEF Inv, RowsInv
    <3>3. Bought(o, v)'
      BY <1>3, <3>2, BoughtStays DEF Inv
    <3> QED
      BY <3>1, <3>3 DEF Bought
  <2> QED
    BY <1>2, <1>5, <2>1 DEF Inv, RowsInv
<1>7. DebitOnlyCaptured'
  BY <1>2, <1>4 DEF Inv, DebitOnlyCaptured, Recorded
<1>8. SubscriptionIsBought'
  BY <1>3, BoughtKept
<1>9. FrameInv(c)'
  <2>1. CopyIsBought(c) => CopyIsBought(c)'
    BY <1>3, BoughtStays DEF CopyIsBought, Inv
  <2>2. \A o \in Owners : c.due[o] # NoSub => Bought(o, c.due[o].plan)'
    BY <1>3, BoughtStays DEF Inv
  <2>3. r # NoRow
    BY NoRowAssumption
  <2> QED
    BY <1>2, <1>5, <2>1, <2>2, <2>3 DEF FrameInv
<1>10. \A u \in Procs \ {t} : call[u].pc = "charge" =>
         prov'[call[u].p].status = "none" /\ c.p # call[u].p
  BY <1>2, OtherCharges
<1>11. Inv'
  BY <1>1, <1>3, <1>6, <1>7, <1>8, <1>9, <1>10, StepInv DEF Inv, TypeOK
<1> QED
  BY <1>3, <1>11, StutterStep DEF SafeStep

\* The provider is asked for payment p, or changes its mind about it while open.
LEMMA ProviderEvolves ==
  ASSUME Inv, UNCHANGED <<sub, pay, ledger>>,
         NEW p \in PayIds, pay[p] # NoRow,
         NEW st \in {"pending", "succeeded", "canceled"},
         prov[p].status # "succeeded",
         prov' = [prov EXCEPT ![p] = [status |-> st, amount |-> pay[p].amount]]
  PROVE  /\ Evolves /\ RowsInv' /\ DebitOnlyCaptured' /\ SubscriptionIsBought'
         /\ prov' \in [PayIds -> ProviderPayment]
         /\ \A q \in PayIds : q # p => prov'[q] = prov[q]
         /\ prov'[p] = [status |-> st, amount |-> pay[p].amount]
<1>1. /\ prov' \in [PayIds -> ProviderPayment]
      /\ \A q \in PayIds : q # p => prov'[q] = prov[q]
      /\ prov'[p] = [status |-> st, amount |-> pay[p].amount]
  BY DEF Inv, TypeOK, ProviderPayment, PaymentRow
<1>2. Evolves
  BY <1>1 DEF Evolves
<1>3. \A q \in PayIds : Captured(q) => Captured(q)'
  BY <1>2, CapturedStays DEF Inv
<1>4. RowsInv'
  <2>1. \A q \in PayIds : pay[q] # NoRow /\ pay[q].purpose = "renew"
                          => Bought(pay[q].owner, pay[q].plan)'
    BY <1>2, BoughtStays DEF Inv, RowsInv
  <2> QED
    BY <1>1, <2>1 DEF Inv, RowsInv
<1>5. DebitOnlyCaptured'
  BY <1>3 DEF Inv, DebitOnlyCaptured, Recorded
<1>6. SubscriptionIsBought'
  BY <1>2, BoughtKept
<1> QED
  BY <1>1, <1>2, <1>4, <1>5, <1>6

LEMMA ProviderContract ==
  ASSUME Inv, UNCHANGED <<sub, pay, ledger>>,
         NEW p \in PayIds, pay[p] # NoRow,
         NEW st \in {"pending", "succeeded", "canceled"},
         prov[p].status = "none" \/ (prov[p].status = "pending" /\ st # "pending"),
         prov' = [prov EXCEPT ![p] = [status |-> st, amount |-> pay[p].amount]]
  PROVE  ContractStep
<1> DEFINE m == [owner |-> pay[p].owner, plan |-> pay[p].plan,
                 kind |-> IF pay[p].purpose = "renew" THEN "renewal" ELSE "purchase",
                 state |-> st]
<1>1. UNCHANGED planBar
  BY PlanBarStays
<1>2. moneyBar' = [moneyBar EXCEPT ![p] = m]
  <2>1. prov'[p].status = st /\ st # "none"
        /\ \A q \in PayIds : q # p => prov'[q] = prov[q]
    BY DEF Inv, TypeOK
  <2> QED
    BY <2>1 DEF moneyBar
<1>3. m \in Contract!Payment
  BY DEF Inv, TypeOK, PaymentRow, Contract!Payment
<1>4. CASE prov[p].status = "none"
  <2>1. moneyBar[p] = NoSub
    BY <1>4 DEF moneyBar
  <2>2. m.kind = "renewal" => Contract!Bought(m.owner, m.plan)
    BY BarBought DEF Inv, RowsInv
  <2>3. Contract!Ask(p)
    BY <1>1, <1>2, <1>3, <2>1, <2>2 DEF Contract!Ask
  <2> QED
    BY <2>3 DEF ContractStep, Contract!Next
<1>5. CASE prov[p].status = "pending" /\ st # "pending"
  <2>1. moneyBar[p] = [owner |-> pay[p].owner, plan |-> pay[p].plan,
                       kind |-> IF pay[p].purpose = "renew" THEN "renewal" ELSE "purchase",
                       state |-> "pending"]
    BY <1>5 DEF moneyBar
  <2>2. moneyBar[p] # NoSub
    BY <2>1, NothingAssumption DEF Inv, TypeOK, PaymentRow
  <2>3. m = [moneyBar[p] EXCEPT !.state = st]
    BY <2>1
  <2>4. moneyBar' = [moneyBar EXCEPT ![p] = [moneyBar[p] EXCEPT !.state = st]]
    BY <1>2, <2>3
  <2>5. moneyBar[p].state = "pending" /\ st \in {"succeeded", "canceled"}
    BY <1>5, <2>1
  <2>6. Contract!Decide(p)
    BY <1>1, <2>2, <2>4, <2>5 DEF Contract!Decide
  <2> QED
    BY <2>6 DEF ContractStep, Contract!Next
<1> QED
  BY <1>4, <1>5

\* Goroutine t, about to charge p, goes on and the provider has recorded p.
LEMMA AnswerStep ==
  ASSUME Inv, UNCHANGED <<sub, pay, ledger>>, EnvType,
         NEW t \in Procs, call[t].pc = "charge",
         NEW st \in {"pending", "succeeded", "canceled"},
         prov' = [prov EXCEPT ![call[t].p] =
                    [status |-> st, amount |-> pay[call[t].p].amount]],
         NEW c \in Frame, Proceeds(t, c), c.pc # "charge",
         FrameInv([c EXCEPT !.pc = "idle"]),
         c.pc \in {"idle", "update", "past_due"},
         c.pc # "idle" => c.p = call[t].p,
         c.pc = "update" => (c.row.status = "succeeded" => st = "succeeded"),
         c.pc = "past_due" => CopyIsBought(c)
  PROVE  SafeStep
<1> DEFINE p == call[t].p
<1>1. p \in PayIds /\ pay[p] # NoRow /\ prov[p].status = "none"
  BY DEF Inv, FrameInv
<1>2. /\ Evolves /\ RowsInv' /\ DebitOnlyCaptured' /\ SubscriptionIsBought'
      /\ prov' \in [PayIds -> ProviderPayment]
      /\ \A q \in PayIds : q # p => prov'[q] = prov[q]
      /\ prov'[p] = [status |-> st, amount |-> pay[p].amount]
  BY <1>1, ProviderEvolves
<1>3. FrameInv(c)'
  <2>1. CopyIsBought(c) => CopyIsBought(c)'
    BY <1>2, BoughtStays DEF CopyIsBought, Inv
  <2>2. \A o \in Owners : c.due[o] # NoSub => Bought(o, c.due[o].plan)
    BY DEF FrameInv, Frame
  <2>3. \A o \in Owners : c.due[o] # NoSub => Bought(o, c.due[o].plan)'
    BY <1>2, <2>2, BoughtStays DEF Inv
  <2>4. \A q \in c.todo : prov'[q].status # "none"
    BY <1>2 DEF FrameInv, Frame, Evolves
  <2>5. c.pc = "update" /\ c.row.status = "succeeded" => Captured(c.p)'
    BY <1>1, <1>2 DEF Captured
  <2> QED
    BY <1>1, <1>2, <2>1, <2>3, <2>4, <2>5 DEF FrameInv
<1>4. \A u \in Procs \ {t} : call[u].pc = "charge" => prov'[call[u].p].status = "none"
  BY <1>2, OtherCharges
<1>5. Inv'
  BY <1>2, <1>3, <1>4, StepInv DEF Inv, TypeOK
<1>6. ContractStep
  BY <1>1, ProviderContract
<1> QED
  BY <1>5, <1>6 DEF SafeStep

-----------------------------------------------------------------------------
(* The frame a handler goes on with after a payment. *)

LEMMA AfterPaymentSafe ==
  ASSUME Inv, NEW t \in Procs
  PROVE  /\ AfterPayment(t) \in Frame /\ FrameInv(AfterPayment(t))
         /\ AfterPayment(t).pc \in {"idle", "sync", "renew"}
         /\ t = Notifier /\ call[t].op = "renew" => AfterPayment(t).op = "renew"
<1>1. call[t] \in Frame /\ FrameInv(call[t])
  BY DEF Inv, TypeOK
<1>2. CASE call[t].op = "sync"
  <2> DEFINE n == [Idle EXCEPT !.op = "sync", !.pc = "sync", !.todo = call[t].todo]
  <2>1. call[t].todo \in SUBSET PayIds /\ \A p \in call[t].todo : prov[p].status # "none"
    BY <1>1 DEF Frame, FrameInv
  <2>2. /\ n \in Frame /\ n.op = "sync" /\ n.pc = "sync" /\ n.todo = call[t].todo
        /\ n.due = [o \in Owners |-> NoSub]
    BY <2>1, IdleType DEF Idle, Frame, Ops, Points
  <2>3. AfterPayment(t) = n
    BY <1>2 DEF AfterPayment
  <2> HIDE DEF n
  <2>4. FrameInv(n)
    BY <2>1, <2>2 DEF FrameInv
  <2> QED
    BY <1>2, <2>2, <2>3, <2>4
<1>3. CASE call[t].op = "renew"
  <2> DEFINE n == [Idle EXCEPT !.op = "renew", !.pc = "renew", !.due = call[t].due,
                               !.at = call[t].at]
  <2>1. /\ call[t].due \in [Owners -> Subscription \cup {NoSub}] /\ call[t].at \in Nat
        /\ \A o \in Owners : call[t].due[o] # NoSub => Bought(o, call[t].due[o].plan)
    BY <1>1 DEF Frame, FrameInv
  <2>2. /\ n \in Frame /\ n.op = "renew" /\ n.pc = "renew" /\ n.todo = {}
        /\ n.due = call[t].due
    BY <2>1, IdleType DEF Idle, Frame, Ops, Points
  <2>3. AfterPayment(t) = n
    BY <1>3 DEF AfterPayment
  <2> HIDE DEF n
  <2>4. FrameInv(n)
    BY <2>1, <2>2 DEF FrameInv
  <2> QED
    BY <2>2, <2>3, <2>4
<1>4. CASE call[t].op \notin {"sync", "renew"}
  <2>1. AfterPayment(t) = Idle
    BY <1>4 DEF AfterPayment
  <2> QED
    BY <1>4, <2>1, IdleType DEF Idle, FrameInv
<1> QED
  BY <1>2, <1>3, <1>4

LEMMA IdleSafe ==
  /\ Idle \in Frame /\ Idle.pc = "idle" /\ Idle.todo = {} /\ FrameInv(Idle)
  /\ Idle.p = None /\ Idle.owner = None /\ Idle.snap = NoSub
  /\ Idle.due = [o \in Owners |-> NoSub]
BY IdleType DEF Idle, FrameInv

LEMMA FrameType ==
  ASSUME Inv, NEW t \in Procs
  PROVE  call[t] \in Frame /\ FrameInv(call[t])
BY DEF Inv, TypeOK

\* The step that leaves a goroutine idle and touches no table.
LEMMA StopStep ==
  ASSUME Inv, UNCHANGED <<db, prov>>, EnvType, NEW t \in Procs, Become(t, Idle)
  PROVE  SafeStep
BY QuietStep, IdleSafe DEF GoesOn, Proceeds

LEMMA EnvStays == ASSUME Inv, UNCHANGED env PROVE EnvType
BY DEF Inv, TypeOK, EnvType, env

-----------------------------------------------------------------------------
(* One lemma per action. *)

LEMMA BeginCheckoutInv ==
  ASSUME Inv, NEW t \in Threads, NEW o \in Owners, NEW period \in Periods,
         NEW purpose \in {"checkout", "change_period"}, NEW p \in PayIds,
         BeginCheckout(t, o, period, purpose, p)
  PROVE  SafeStep
<1> DEFINE plan == CurrentPlan[release][period]
           r == [owner |-> o, plan |-> plan, amount |-> PlanAmount[plan],
                 purpose |-> purpose, status |-> "pending", yoo |-> FALSE]
           c == [Idle EXCEPT !.op = "checkout", !.pc = "charge", !.p = p, !.owner = o]
<1>1. release \in 1 .. Releases
  BY DEF Inv, TypeOK
<1>2. plan \in PlanVersions /\ PlanAmount[plan] \in Nat
  BY <1>1, ServiceAssumption, PlanAssumption
<1>3. PICK row : row = r
  OBVIOUS
<1>4. row \in PaymentRow
  BY <1>2, <1>3 DEF PaymentRow, Purposes, PaymentStatus
<1>5. row.amount = PlanAmount[row.plan] /\ row.status = "pending" /\ ~row.yoo
      /\ row.purpose # "renew"
  BY <1>3
<1>6. CreatePayment(p, row)
  BY <1>3 DEF BeginCheckout
<1>7. /\ c \in Frame /\ c.pc = "charge" /\ c.p = p /\ c.todo = {} /\ c.op = "checkout"
      /\ c.due = [x \in Owners |-> NoSub]
  BY DEF Idle, Frame, Ops, Points, NewFields, Fields, PaymentStatus
<1>8. t \in Procs /\ Proceeds(t, c)
  BY ServiceAssumption DEF BeginCheckout, Proceeds, Procs
<1>9. UNCHANGED <<sub, ledger, prov>> /\ EnvType
  BY EnvStays DEF BeginCheckout
<1> HIDE DEF c
<1> QED
  BY <1>4, <1>5, <1>6, <1>7, <1>8, <1>9, CreateStep

LEMMA CheckoutAnsweredInv ==
  ASSUME Inv, NEW t \in Threads, NEW status \in CheckoutAnswers,
         CheckoutAnswered(t, status)
  PROVE  SafeStep
<1>1. t \in Procs /\ t # Notifier
  BY ServiceAssumption DEF Procs
<1>2. PICK m \in BOOLEAN :
        Become(t, [call[t] EXCEPT
                !.pc = "update",
                !.row = [status |-> PaidIfSucceeded(status), yoo |-> TRUE],
                !.method = m])
  BY DEF CheckoutAnswered
<1>3. PICK c : c = [call[t] EXCEPT
                !.pc = "update",
                !.row = [status |-> PaidIfSucceeded(status), yoo |-> TRUE],
                !.method = m]
  OBVIOUS
<1>4. call[t] \in Frame /\ FrameInv(call[t]) /\ call[t].pc = "charge"
  BY <1>1, FrameType DEF CheckoutAnswered
<1>5. c \in Frame
  BY <1>3, <1>4 DEF Frame, Points, Fields, PaymentStatus, PaidIfSucceeded
<1>6. /\ c.pc = "update" /\ c.p = call[t].p /\ c.todo = call[t].todo
      /\ c.due = call[t].due /\ c.row.status = PaidIfSucceeded(status)
  BY <1>3, <1>4 DEF Frame
<1>7. c.row.status = "succeeded" => status = "succeeded"
  BY <1>6 DEF PaidIfSucceeded
<1>8. FrameInv([c EXCEPT !.pc = "idle"])
  BY <1>4, <1>5, <1>6 DEF FrameInv, Frame
<1>9. Proceeds(t, c)
  BY <1>1, <1>2, <1>3 DEF Proceeds
<1>10. UNCHANGED <<sub, pay, ledger>> /\ EnvType
  BY EnvStays DEF CheckoutAnswered, db
<1>11. status \in {"pending", "succeeded", "canceled"}
  BY ServiceAssumption
<1>12. prov' = [prov EXCEPT ![call[t].p] =
                  [status |-> status, amount |-> pay[call[t].p].amount]]
  BY DEF CheckoutAnswered
<1> QED
  BY <1>1, <1>4, <1>5, <1>6, <1>7, <1>8, <1>9, <1>10, <1>11, <1>12, AnswerStep

LEMMA CheckoutGatewayErrorInv ==
  ASSUME Inv, NEW t \in Threads, CheckoutGatewayError(t)
  PROVE  SafeStep
<1>1. t \in Procs /\ Become(t, Idle) /\ call[t].pc = "charge"
      /\ UNCHANGED <<sub, pay, ledger>>
  BY DEF Procs, CheckoutGatewayError, db
<1>2. EnvType
  BY DEF CheckoutGatewayError, EnvType, Inv, TypeOK
<1>3. CASE UNCHANGED prov
  BY <1>1, <1>2, <1>3, StopStep DEF db
<1>4. CASE prov' = [prov EXCEPT ![call[t].p] =
                      [status |-> "pending", amount |-> pay[call[t].p].amount]]
  <2>1. FrameInv([Idle EXCEPT !.pc = "idle"]) /\ Proceeds(t, Idle)
    BY <1>1, IdleSafe DEF Proceeds, Idle
  <2> QED
    BY <1>1, <1>2, <1>4, <2>1, IdleSafe, AnswerStep
<1> QED
  BY <1>3, <1>4 DEF CheckoutGatewayError

\* Return moves on to AfterPayment, which the invariant allows.
LEMMA ReturnGoesOn ==
  ASSUME Inv, NEW t \in Procs, Return(t), call[t].pc # "idle",
         call[t].op = "webhook" => call[t].p \in PayIds
  PROVE  /\ AfterPayment(t) \in Frame /\ GoesOn(t, AfterPayment(t))
         /\ acked' \in SUBSET PayIds
<1>1. GoesOn(t, AfterPayment(t))
  BY AfterPaymentSafe DEF GoesOn, Proceeds, Return, Inv, NotifierRenews
<1> QED
  BY <1>1, AfterPaymentSafe DEF Return, Inv, TypeOK

LEMMA UpdateInv == ASSUME Inv, NEW t \in Procs, Update(t) PROVE SafeStep
<1> DEFINE p == call[t].p
           f == call[t].row
<1>1. call[t] \in Frame /\ FrameInv(call[t]) /\ call[t].pc = "update"
  BY FrameType DEF Update
<1>2. p \in PayIds /\ pay[p] # NoRow /\ f \in Fields /\ prov[p].status # "none"
      /\ (f.status = "succeeded" => Captured(p))
  BY <1>1 DEF FrameInv, Frame
<1>3. UpdatePayment(p, f) /\ UNCHANGED <<sub, ledger, prov>>
  BY DEF Update
<1>4. CASE f.status = "succeeded"
  <2>1. PICK c : c = [call[t] EXCEPT !.pc = "apply"]
    OBVIOUS
  <2>2. c \in Frame /\ Become(t, c) /\ UNCHANGED acked
    BY <1>1, <1>4, <2>1 DEF Update, Frame, Points
  <2>3. c.pc = "apply" /\ c.op = call[t].op /\ c.p = p /\ c.todo = call[t].todo
        /\ c.due = call[t].due
    BY <1>1, <2>1 DEF Frame
  <2>4. FrameInv(c)
    BY <1>1, <1>2, <1>4, <2>3 DEF FrameInv
  <2>5. GoesOn(t, c)
    BY <1>1, <2>2, <2>3, <2>4 DEF GoesOn, Proceeds, Inv, NotifierRenews
  <2>6. EnvType
    BY <2>2 DEF Update, EnvType, Inv, TypeOK
  <2> QED
    BY <1>2, <1>3, <2>2, <2>5, <2>6, UpdateStep
<1>5. CASE f.status # "succeeded"
  <2>1. Return(t)
    BY <1>5 DEF Update
  <2>2. AfterPayment(t) \in Frame /\ GoesOn(t, AfterPayment(t)) /\ acked' \in SUBSET PayIds
    BY <1>1, <1>2, <2>1, ReturnGoesOn
  <2>3. EnvType
    BY <2>2 DEF Update, EnvType, Inv, TypeOK
  <2> QED
    BY <1>2, <1>3, <2>2, <2>3, UpdateStep
<1> QED
  BY <1>4, <1>5

LEMMA ApplyReadInv == ASSUME Inv, NEW t \in Procs, ApplyRead(t) PROVE SafeStep
<1> DEFINE r == pay[call[t].p]
           m == call[t].method \/ (call[t].op = "renew" /\ call[t].snap # NoSub
                                    /\ call[t].snap.method)
<1>1. call[t] \in Frame /\ FrameInv(call[t]) /\ call[t].pc = "apply"
  BY FrameType DEF ApplyRead
<1>2. call[t].p \in PayIds /\ r # NoRow /\ r \in PaymentRow /\ Captured(call[t].p)
  BY <1>1 DEF FrameInv, Inv, TypeOK
<1>3. r.owner \in Owners /\ r.plan \in PlanVersions
      /\ sub[r.owner] \in Subscription \cup {NoSub} /\ now \in Nat
  BY <1>2 DEF PaymentRow, Inv, TypeOK
<1>4. m \in BOOLEAN
  <2>1. call[t].method \in BOOLEAN /\ (call[t].snap # NoSub => call[t].snap.method \in BOOLEAN)
    BY <1>1 DEF Frame, Subscription
  <2> QED
    BY <2>1
<1>5. PICK s : s = ApplySuccessfulPayment(sub[r.owner], r.plan, r.purpose, now, m, Recurring)
  OBVIOUS
<1>6. s \in Subscription
  BY <1>3, <1>4, <1>5, ApplyType
<1>7. s.plan = IF sub[r.owner] # NoSub /\ r.purpose = "renew"
                 THEN sub[r.owner].plan ELSE r.plan
  BY <1>5 DEF ApplySuccessfulPayment
<1>8. Bought(r.owner, s.plan)
  <2>1. CASE sub[r.owner] # NoSub /\ r.purpose = "renew"
    BY <1>3, <1>7, <2>1 DEF Inv, SubscriptionIsBought
  <2>2. CASE sub[r.owner] = NoSub /\ r.purpose = "renew"
    BY <1>2, <1>7, <2>2 DEF Inv, RowsInv
  <2>3. CASE r.purpose # "renew"
    BY <1>2, <1>7, <2>3 DEF Bought
  <2> QED
    BY <2>1, <2>2, <2>3
<1>9. PICK c : c = [call[t] EXCEPT !.pc = "save", !.owner = r.owner, !.snap = s]
  OBVIOUS
<1>10. c \in Frame
  BY <1>1, <1>3, <1>6, <1>9 DEF Frame, Points
<1>11. /\ c.pc = "save" /\ c.op = call[t].op /\ c.p = call[t].p /\ c.todo = call[t].todo
       /\ c.due = call[t].due /\ c.owner = r.owner /\ c.snap = s
  BY <1>1, <1>9 DEF Frame
<1>12. FrameInv(c)
  BY <1>1, <1>2, <1>3, <1>6, <1>8, <1>11 DEF FrameInv, CopyIsBought
<1>13. Become(t, c)
  BY <1>5, <1>9 DEF ApplyRead
<1>14. GoesOn(t, c)
  BY <1>1, <1>11, <1>12, <1>13 DEF GoesOn, Proceeds, Inv, NotifierRenews
<1>15. UNCHANGED <<db, prov>> /\ EnvType
  BY EnvStays DEF ApplyRead
<1> QED
  BY <1>10, <1>14, <1>15, QuietStep

LEMMA ApplySaveInv == ASSUME Inv, NEW t \in Procs, ApplySave(t) PROVE SafeStep
<1>1. call[t] \in Frame /\ FrameInv(call[t]) /\ call[t].pc = "save"
  BY FrameType DEF ApplySave
<1>2. CopyIsBought(call[t]) /\ Captured(call[t].p)
  BY <1>1 DEF FrameInv
<1>3. PICK c : c = [call[t] EXCEPT !.pc = "debit"]
  OBVIOUS
<1>4. c \in Frame
  BY <1>1, <1>3 DEF Frame, Points
<1>5. c.pc = "debit" /\ c.op = call[t].op /\ c.p = call[t].p /\ c.todo = call[t].todo
      /\ c.due = call[t].due
  BY <1>1, <1>3 DEF Frame
<1>6. FrameInv(c)
  BY <1>1, <1>2, <1>5 DEF FrameInv
<1>7. GoesOn(t, c)
  BY <1>1, <1>3, <1>5, <1>6 DEF ApplySave, GoesOn, Proceeds, Inv, NotifierRenews
<1>8. UNCHANGED <<pay, ledger, prov>> /\ EnvType
  BY EnvStays DEF ApplySave
<1>9. SaveSubscription(call[t].owner, call[t].snap)
  BY DEF ApplySave
<1> QED
  BY <1>2, <1>4, <1>7, <1>8, <1>9, SaveStep DEF CopyIsBought

LEMMA ApplyDebitInv == ASSUME Inv, NEW t \in Procs, ApplyDebit(t) PROVE SafeStep
<1>1. call[t] \in Frame /\ FrameInv(call[t]) /\ call[t].pc = "debit"
  BY FrameType DEF ApplyDebit
<1>2. call[t].p \in PayIds /\ Captured(call[t].p)
  BY <1>1 DEF FrameInv
<1>3. Return(t) /\ UNCHANGED <<sub, pay, prov>> /\ AddLedgerEntry(call[t].p)
  BY DEF ApplyDebit
<1>4. AfterPayment(t) \in Frame /\ GoesOn(t, AfterPayment(t)) /\ acked' \in SUBSET PayIds
  BY <1>1, <1>2, <1>3, ReturnGoesOn
<1>5. EnvType
  BY <1>4 DEF ApplyDebit, EnvType, Inv, TypeOK
<1> QED
  BY <1>2, <1>3, <1>4, <1>5, DebitStep

LEMMA ApplyInv == ASSUME Inv, NEW t \in Procs, Apply(t) PROVE SafeStep
BY UpdateInv, ApplyReadInv, ApplySaveInv, ApplyDebitInv DEF Apply

LEMMA CancelReadInv ==
  ASSUME Inv, NEW t \in Threads, NEW o \in Owners, CancelRead(t, o)
  PROVE  SafeStep
<1>1. t \in Procs /\ t # Notifier
  BY ServiceAssumption DEF Procs
<1>2. sub[o] \in Subscription /\ Bought(o, sub[o].plan)
  BY DEF CancelRead, Inv, TypeOK, SubscriptionIsBought
<1>3. PICK s \in Subscription : s = MarkCancelAtPeriodEnd(sub[o]) /\ s.plan = sub[o].plan
  <2>1. now \in Nat
    BY DEF Inv, TypeOK
  <2> QED
    BY <1>2, <2>1, MarkType
<1>4. PICK c : c = [Idle EXCEPT !.op = "cancel", !.pc = "cancel", !.owner = o, !.snap = s]
  OBVIOUS
<1>5. c \in Frame
  BY <1>4, IdleSafe DEF Frame, Ops, Points
<1>6. c.pc = "cancel" /\ c.owner = o /\ c.snap = s /\ c.todo = {}
      /\ c.due = [x \in Owners |-> NoSub]
  BY <1>4 DEF Idle
<1>7. FrameInv(c)
  BY <1>2, <1>3, <1>6 DEF FrameInv, CopyIsBought
<1>8. GoesOn(t, c)
  BY <1>1, <1>3, <1>4, <1>6, <1>7 DEF CancelRead, GoesOn, Proceeds
<1>9. UNCHANGED <<db, prov>> /\ EnvType
  BY EnvStays DEF CancelRead
<1> QED
  BY <1>1, <1>5, <1>8, <1>9, QuietStep

LEMMA CancelSaveInv == ASSUME Inv, NEW t \in Threads, CancelSave(t) PROVE SafeStep
<1>1. t \in Procs
  BY DEF Procs
<1>2. CopyIsBought(call[t])
  BY <1>1, FrameType DEF CancelSave, FrameInv
<1>3. GoesOn(t, Idle)
  BY IdleSafe DEF CancelSave, GoesOn, Proceeds
<1>4. SaveSubscription(call[t].owner, call[t].snap)
      /\ UNCHANGED <<pay, ledger, prov>> /\ EnvType
  BY EnvStays DEF CancelSave
<1> QED
  BY <1>1, <1>2, <1>3, <1>4, IdleSafe, SaveStep DEF CopyIsBought

LEMMA WebhookDeliverInv ==
  ASSUME Inv, NEW t \in Threads, NEW p \in PayIds, WebhookDeliver(t, p)
  PROVE  SafeStep
<1>1. t \in Procs /\ t # Notifier
  BY ServiceAssumption DEF Procs
<1>2. prov[p].status # "none" /\ pay[p] # NoRow
  BY DEF WebhookDeliver, Inv, RowsInv
<1>3. PICK c : c = [Idle EXCEPT !.op = "webhook", !.pc = "fetch", !.p = p]
  OBVIOUS
<1>4. c \in Frame
  BY <1>3, IdleSafe DEF Frame, Ops, Points
<1>5. c.pc = "fetch" /\ c.p = p /\ c.todo = {} /\ c.due = [x \in Owners |-> NoSub]
  BY <1>3 DEF Idle
<1>6. FrameInv(c)
  BY <1>2, <1>5 DEF FrameInv
<1>7. GoesOn(t, c)
  BY <1>1, <1>3, <1>5, <1>6 DEF WebhookDeliver, GoesOn, Proceeds
<1>8. UNCHANGED <<db, prov>> /\ EnvType
  BY EnvStays DEF WebhookDeliver
<1> QED
  BY <1>1, <1>4, <1>7, <1>8, QuietStep

LEMMA WebhookFetchInv == ASSUME Inv, NEW t \in Threads, WebhookFetch(t) PROVE SafeStep
<1>1. t \in Procs /\ t # Notifier
  BY ServiceAssumption DEF Procs
<1>2. call[t] \in Frame /\ FrameInv(call[t]) /\ call[t].pc = "fetch"
  BY <1>1, FrameType DEF WebhookFetch
<1>3. call[t].p \in PayIds /\ pay[call[t].p] # NoRow /\ prov[call[t].p].status # "none"
  BY <1>2 DEF FrameInv
<1>4. FetchedStatus(call[t].p) \in PaymentStatus
  BY <1>3 DEF FetchedStatus, Inv, TypeOK, ProviderPayment, PaymentStatus
<1>5. PICK m \in BOOLEAN :
        Become(t, [call[t] EXCEPT !.pc = "read",
                                  !.row.status = FetchedStatus(call[t].p),
                                  !.method = m])
  BY DEF WebhookFetch
<1>6. PICK c : c = [call[t] EXCEPT !.pc = "read",
                                   !.row.status = FetchedStatus(call[t].p),
                                   !.method = m]
  OBVIOUS
<1>7. c \in Frame
  BY <1>2, <1>4, <1>6 DEF Frame, Points, Fields
<1>8. c.pc = "read" /\ c.p = call[t].p /\ c.todo = call[t].todo
      /\ c.due = call[t].due /\ c.row.status = prov[call[t].p].status
  BY <1>2, <1>6 DEF Frame, Fields, FetchedStatus
<1>9. FrameInv(c)
  BY <1>2, <1>3, <1>8 DEF FrameInv
<1>10. GoesOn(t, c)
  BY <1>1, <1>5, <1>6, <1>8, <1>9 DEF GoesOn, Proceeds
<1>11. UNCHANGED <<db, prov>> /\ EnvType
  BY EnvStays DEF WebhookFetch
<1> QED
  BY <1>1, <1>7, <1>10, <1>11, QuietStep

LEMMA WebhookReadInv == ASSUME Inv, NEW t \in Threads, WebhookRead(t) PROVE SafeStep
<1> DEFINE r == pay[call[t].p]
<1>1. t \in Procs /\ t # Notifier
  BY ServiceAssumption DEF Procs
<1>2. call[t] \in Frame /\ FrameInv(call[t]) /\ call[t].pc = "read"
  BY <1>1, FrameType DEF WebhookRead
<1>3. call[t].p \in PayIds /\ r # NoRow /\ r \in PaymentRow
      /\ prov[call[t].p].status # "none"
      /\ (call[t].row.status = "succeeded" => prov[call[t].p].status = "succeeded")
  BY <1>2 DEF FrameInv, Inv, TypeOK
<1>4. UNCHANGED <<db, prov>>
  BY DEF WebhookRead
<1>5. CASE Return(t)
  <2>1. AfterPayment(t) \in Frame /\ GoesOn(t, AfterPayment(t)) /\ acked' \in SUBSET PayIds
    BY <1>1, <1>2, <1>3, <1>5, ReturnGoesOn
  <2>2. EnvType
    BY <2>1 DEF WebhookRead, EnvType, Inv, TypeOK
  <2> QED
    BY <1>1, <1>4, <2>1, <2>2, QuietStep
<1>6. ASSUME UNCHANGED acked PROVE EnvType
  BY <1>6 DEF WebhookRead, EnvType, Inv, TypeOK
<1>7. CASE /\ call[t].row.status = "canceled" /\ UNCHANGED acked
           /\ Become(t, [call[t] EXCEPT !.pc = "void", !.row.yoo = r.yoo])
  <2>1. PICK c : c = [call[t] EXCEPT !.pc = "void", !.row.yoo = r.yoo]
    OBVIOUS
  <2>2. c \in Frame
    BY <1>2, <1>3, <2>1 DEF Frame, Points, Fields, PaymentRow
  <2>3. c.pc = "void" /\ c.p = call[t].p /\ c.todo = call[t].todo
        /\ c.due = call[t].due /\ c.row.status = "canceled"
    BY <1>2, <1>7, <2>1 DEF Frame, Fields
  <2>4. FrameInv(c)
    BY <1>2, <1>3, <2>3 DEF FrameInv
  <2>5. GoesOn(t, c)
    BY <1>1, <1>7, <2>1, <2>3, <2>4 DEF GoesOn, Proceeds
  <2> QED
    BY <1>1, <1>4, <1>6, <1>7, <2>2, <2>5, QuietStep
<1>8. CASE /\ call[t].row.status = "succeeded" /\ UNCHANGED acked
           /\ prov[call[t].p].amount = r.amount
           /\ Become(t, [call[t] EXCEPT !.pc = "update", !.row.yoo = TRUE])
  <2>1. PICK c : c = [call[t] EXCEPT !.pc = "update", !.row.yoo = TRUE]
    OBVIOUS
  <2>2. c \in Frame
    BY <1>2, <2>1 DEF Frame, Points, Fields
  <2>3. c.pc = "update" /\ c.p = call[t].p /\ c.todo = call[t].todo
        /\ c.due = call[t].due
    BY <1>2, <2>1 DEF Frame, Fields
  <2>4. Captured(call[t].p)
    BY <1>3, <1>8 DEF Captured, Inv, TypeOK, ProviderPayment
  <2>5. FrameInv(c)
    BY <1>2, <1>3, <2>3, <2>4 DEF FrameInv
  <2>6. GoesOn(t, c)
    BY <1>1, <1>8, <2>1, <2>3, <2>5 DEF GoesOn, Proceeds
  <2> QED
    BY <1>1, <1>4, <1>6, <1>8, <2>2, <2>6, QuietStep
<1> QED
  BY <1>5, <1>7, <1>8 DEF WebhookRead

LEMMA WebhookVoidInv == ASSUME Inv, NEW t \in Threads, WebhookVoid(t) PROVE SafeStep
<1>1. t \in Procs
  BY DEF Procs
<1>2. call[t] \in Frame /\ FrameInv(call[t]) /\ call[t].pc = "void"
  BY <1>1, FrameType DEF WebhookVoid
<1>3. /\ call[t].p \in PayIds /\ pay[call[t].p] # NoRow
      /\ prov[call[t].p].status # "none"
      /\ call[t].row \in Fields /\ call[t].row.status = "canceled"
  BY <1>2 DEF FrameInv, Frame
<1>4. Return(t) /\ UNCHANGED <<sub, ledger, prov>> /\ UpdatePayment(call[t].p, call[t].row)
  BY DEF WebhookVoid
<1>5. AfterPayment(t) \in Frame /\ GoesOn(t, AfterPayment(t)) /\ acked' \in SUBSET PayIds
  BY <1>1, <1>2, <1>3, <1>4, ReturnGoesOn
<1>6. EnvType
  BY <1>5 DEF WebhookVoid, EnvType, Inv, TypeOK
<1> QED
  BY <1>1, <1>3, <1>4, <1>5, <1>6, UpdateStep

LEMMA SyncListInv ==
  ASSUME Inv, NEW t \in Threads, NEW o \in Owners, SyncList(t, o)
  PROVE  SafeStep
<1>1. t \in Procs /\ t # Notifier
  BY ServiceAssumption DEF Procs
<1>2. PICK T \in SUBSET PayIds :
        /\ \A p \in T : pay[p] # NoRow /\ pay[p].yoo
        /\ Become(t, [Idle EXCEPT !.op = "sync", !.pc = "sync", !.todo = T])
  BY DEF SyncList
<1>3. PICK c : c = [Idle EXCEPT !.op = "sync", !.pc = "sync", !.todo = T]
  OBVIOUS
<1>4. c \in Frame
  BY <1>3, IdleSafe DEF Frame, Ops, Points
<1>5. c.pc = "sync" /\ c.todo = T /\ c.due = [x \in Owners |-> NoSub]
  BY <1>3 DEF Idle
<1>6. FrameInv(c)
  BY <1>2, <1>5 DEF FrameInv, Inv, RowsInv
<1>7. GoesOn(t, c)
  BY <1>1, <1>2, <1>3, <1>5, <1>6 DEF GoesOn, Proceeds
<1>8. UNCHANGED <<db, prov>> /\ EnvType
  BY EnvStays DEF SyncList
<1> QED
  BY <1>1, <1>4, <1>7, <1>8, QuietStep

LEMMA SyncNextInv ==
  ASSUME Inv, NEW t \in Threads, NEW p \in PayIds, SyncNext(t, p)
  PROVE  SafeStep
<1>1. t \in Procs /\ t # Notifier
  BY ServiceAssumption DEF Procs
<1>2. call[t] \in Frame /\ FrameInv(call[t]) /\ call[t].pc = "sync" /\ p \in call[t].todo
  BY <1>1, FrameType DEF SyncNext
<1>3. prov[p].status # "none" /\ pay[p] # NoRow
  BY <1>2 DEF FrameInv, Inv, RowsInv
<1>4. UNCHANGED <<db, prov>> /\ EnvType
  BY EnvStays DEF SyncNext
<1>5. CASE pay[p].status = "succeeded"
  <2>1. PICK c : c = [call[t] EXCEPT !.todo = @ \ {p}]
    OBVIOUS
  <2>2. c \in Frame
    BY <1>2, <2>1 DEF Frame
  <2>3. c.pc = "sync" /\ c.todo = call[t].todo \ {p} /\ c.due = call[t].due
    BY <1>2, <2>1 DEF Frame
  <2>4. FrameInv(c)
    BY <1>2, <2>3 DEF FrameInv
  <2>5. GoesOn(t, c)
    BY <1>1, <1>5, <2>1, <2>3, <2>4 DEF SyncNext, GoesOn, Proceeds
  <2> QED
    BY <1>1, <1>4, <2>2, <2>5, QuietStep
<1>6. CASE pay[p].status # "succeeded"
  <2>1. PICK c : c = [call[t] EXCEPT !.todo = @ \ {p}, !.pc = "fetch", !.p = p]
    OBVIOUS
  <2>2. c \in Frame
    BY <1>2, <2>1 DEF Frame, Points
  <2>3. c.pc = "fetch" /\ c.p = p /\ c.todo = call[t].todo \ {p} /\ c.due = call[t].due
    BY <1>2, <2>1 DEF Frame
  <2>4. FrameInv(c)
    BY <1>2, <1>3, <2>3 DEF FrameInv
  <2>5. GoesOn(t, c)
    BY <1>1, <1>6, <2>1, <2>3, <2>4 DEF SyncNext, GoesOn, Proceeds
  <2> QED
    BY <1>1, <1>4, <2>2, <2>5, QuietStep
<1> QED
  BY <1>5, <1>6

LEMMA SyncEndInv == ASSUME Inv, NEW t \in Threads, SyncEnd(t) PROVE SafeStep
BY StopStep, EnvStays DEF SyncEnd, Procs

LEMMA RenewBeginInv == ASSUME Inv, RenewBegin PROVE SafeStep
<1>1. PICK c : c = [Idle EXCEPT !.op = "renew", !.pc = "list", !.at = now]
  OBVIOUS
<1>2. c \in Frame
  BY <1>1, IdleSafe DEF Frame, Ops, Points, Inv, TypeOK
<1>3. c.pc = "list" /\ c.op = "renew" /\ c.todo = {} /\ c.due = [x \in Owners |-> NoSub]
  BY <1>1 DEF Idle
<1>4. GoesOn(Notifier, c)
  BY <1>1, <1>3 DEF RenewBegin, GoesOn, Proceeds, FrameInv
<1>5. UNCHANGED <<db, prov>> /\ EnvType /\ Notifier \in Procs
  BY EnvStays DEF RenewBegin, Procs
<1> QED
  BY <1>2, <1>4, <1>5, QuietStep

LEMMA RenewListInv == ASSUME Inv, RenewList PROVE SafeStep
<1>1. Notifier \in Procs
  BY DEF Procs
<1>2. call[Notifier] \in Frame /\ FrameInv(call[Notifier]) /\ call[Notifier].pc = "list"
      /\ call[Notifier].op = "renew"
  BY <1>1, FrameType DEF RenewList, Inv, NotifierRenews
<1>3. PICK d : d = [o \in Owners |-> IF IsDue(sub[o], call[Notifier].at)
                                       THEN sub[o] ELSE NoSub]
  OBVIOUS
<1>4. d \in [Owners -> Subscription \cup {NoSub}]
  BY <1>3 DEF Inv, TypeOK
<1>5. \A o \in Owners : d[o] # NoSub => Bought(o, d[o].plan)
  BY <1>3 DEF Inv, SubscriptionIsBought
<1>6. PICK c : c = [call[Notifier] EXCEPT !.pc = "renew", !.due = d]
  OBVIOUS
<1>7. c \in Frame
  BY <1>2, <1>4, <1>6 DEF Frame, Points
<1>8. c.pc = "renew" /\ c.op = "renew" /\ c.todo = call[Notifier].todo /\ c.due = d
  BY <1>2, <1>6 DEF Frame
<1>9. GoesOn(Notifier, c)
  BY <1>2, <1>3, <1>5, <1>6, <1>8 DEF RenewList, GoesOn, Proceeds, FrameInv
<1>10. UNCHANGED <<db, prov>> /\ EnvType
  BY EnvStays DEF RenewList
<1> QED
  BY <1>1, <1>7, <1>9, <1>10, QuietStep

\* The notifier's frame while it walks the list.
LEMMA VisitSafe ==
  ASSUME Inv, NEW o \in Owners, call[Notifier].pc = "renew",
         call[Notifier].due[o] # NoSub
  PROVE  /\ Notifier \in Procs
         /\ call[Notifier].due[o] \in Subscription
         /\ Bought(o, call[Notifier].due[o].plan)
         /\ call[Notifier].at \in Nat
         /\ Visited(o) \in Frame /\ FrameInv(Visited(o))
         /\ Visited(o).pc = "renew" /\ Visited(o).op = "renew"
         /\ Visited(o).due \in [Owners -> Subscription \cup {NoSub}]
         /\ \A x \in Owners : Visited(o).due[x] # NoSub => Bought(x, Visited(o).due[x].plan)
<1>1. Notifier \in Procs
  BY DEF Procs
<1>2. call[Notifier] \in Frame /\ FrameInv(call[Notifier]) /\ call[Notifier].op = "renew"
  BY <1>1, FrameType DEF Inv, NotifierRenews
<1>3. /\ call[Notifier].due[o] \in Subscription /\ call[Notifier].at \in Nat
      /\ Bought(o, call[Notifier].due[o].plan)
  BY <1>2 DEF Frame, FrameInv
<1>4. PICK d : d = [call[Notifier].due EXCEPT ![o] = NoSub]
  OBVIOUS
<1>5. PICK c : c = [call[Notifier] EXCEPT !.due = d]
  OBVIOUS
<1>6. c = Visited(o)
  BY <1>4, <1>5 DEF Visited
<1>7. d \in [Owners -> Subscription \cup {NoSub}]
  BY <1>2, <1>4 DEF Frame
<1>8. c \in Frame
  BY <1>2, <1>5, <1>7 DEF Frame
<1>9. c.pc = "renew" /\ c.op = "renew" /\ c.todo = call[Notifier].todo /\ c.due = d
  BY <1>2, <1>5 DEF Frame
<1>10. \A x \in Owners : d[x] # NoSub => Bought(x, d[x].plan)
  BY <1>2, <1>4 DEF FrameInv, Frame
<1>11. FrameInv(c)
  BY <1>2, <1>9, <1>10 DEF FrameInv
<1> QED
  BY <1>1, <1>3, <1>6, <1>7, <1>8, <1>9, <1>10, <1>11

\* The steps that only move on to the next subscription, or save this one.
LEMMA VisitInv ==
  ASSUME Inv, NEW o \in Owners, RenewSkip(o) \/ RenewExpire(o) \/ RenewUnpaid(o)
  PROVE  SafeStep
<1> DEFINE s == call[Notifier].due[o]
<1>1. call[Notifier].pc = "renew" /\ s # NoSub
      /\ Become(Notifier, Visited(o)) /\ UNCHANGED <<pay, ledger, prov, env>>
  BY DEF RenewSkip, RenewExpire, RenewUnpaid, RenewVisits, db
<1>2. /\ Notifier \in Procs /\ s \in Subscription /\ Bought(o, s.plan)
      /\ call[Notifier].at \in Nat /\ Visited(o) \in Frame
      /\ GoesOn(Notifier, Visited(o))
  BY <1>1, VisitSafe DEF GoesOn, Proceeds
<1>3. EnvType
  BY <1>1, EnvStays
<1>4. CASE RenewSkip(o)
  BY <1>1, <1>2, <1>3, <1>4, QuietStep DEF RenewSkip
<1>5. CASE RenewExpire(o)
  <2>1. PICK x \in Subscription : x = MarkExpired(s) /\ x.plan = s.plan
    BY <1>2, MarkType
  <2> QED
    BY <1>1, <1>2, <1>3, <1>5, <2>1, SaveStep DEF RenewExpire
<1>6. CASE RenewUnpaid(o)
  <2>1. PICK x \in Subscription : x = MarkPastDue(s, call[Notifier].at) /\ x.plan = s.plan
    BY <1>2, MarkType
  <2> QED
    BY <1>1, <1>2, <1>3, <1>6, <2>1, SaveStep DEF RenewUnpaid
<1> QED
  BY <1>4, <1>5, <1>6

LEMMA RenewChargeInv ==
  ASSUME Inv, NEW o \in Owners, NEW p \in PayIds, RenewCharge(o, p)
  PROVE  SafeStep
<1> DEFINE s == call[Notifier].due[o]
<1>1. call[Notifier].pc = "renew" /\ s # NoSub
  BY DEF RenewCharge, RenewVisits
<1>2. /\ Notifier \in Procs /\ s \in Subscription /\ Bought(o, s.plan)
      /\ Visited(o) \in Frame /\ FrameInv(Visited(o)) /\ Visited(o).op = "renew"
      /\ \A x \in Owners : Visited(o).due[x] # NoSub => Bought(x, Visited(o).due[x].plan)
  BY <1>1, VisitSafe
<1>3. s.plan \in PlanVersions /\ PlanAmount[s.plan] \in Nat
  BY <1>2, PlanAssumption DEF Subscription
<1>4. PICK r : r = [owner |-> o, plan |-> s.plan, amount |-> RenewalAmount(s),
                    purpose |-> "renew", status |-> "pending", yoo |-> FALSE]
  OBVIOUS
<1>5. r \in PaymentRow
  BY <1>3, <1>4 DEF PaymentRow, Purposes, PaymentStatus, RenewalAmount
<1>6. r.amount = PlanAmount[r.plan] /\ r.status = "pending" /\ ~r.yoo
      /\ r.owner = o /\ r.plan = s.plan
  BY <1>4 DEF RenewalAmount
<1>7. CreatePayment(p, r)
  BY <1>4 DEF RenewCharge
<1>8. PICK c : c = [Visited(o) EXCEPT !.pc = "charge", !.p = p, !.owner = o, !.snap = s]
  OBVIOUS
<1>9. c \in Frame
  BY <1>2, <1>8 DEF Frame, Points
<1>10. /\ c.pc = "charge" /\ c.p = p /\ c.owner = o /\ c.snap = s /\ c.op = "renew"
       /\ c.todo = Visited(o).todo /\ c.due = Visited(o).due
  BY <1>2, <1>8 DEF Frame
<1>11. Become(Notifier, c)
  BY <1>8 DEF RenewCharge
<1>12. CopyIsBought(c)
  BY <1>2, <1>10 DEF CopyIsBought
<1>13. UNCHANGED <<sub, ledger, prov>> /\ EnvType
  BY EnvStays DEF RenewCharge
<1>14. \A q \in c.todo : prov[q].status # "none"
  BY <1>2, <1>10 DEF FrameInv
<1> QED
  BY <1>2, <1>5, <1>6, <1>7, <1>9, <1>10, <1>11, <1>12, <1>13, <1>14, CreateStep
  DEF Proceeds

LEMMA RenewAnsweredInv ==
  ASSUME Inv, NEW status \in {"pending", "succeeded", "canceled"}, RenewAnswered(status)
  PROVE  SafeStep
<1>1. Notifier \in Procs
  BY DEF Procs
<1>2. PICK m \in BOOLEAN :
        Become(Notifier, [call[Notifier] EXCEPT
                !.pc = "update",
                !.row = [status |-> PaidIfSucceeded(status), yoo |-> TRUE],
                !.method = m])
  BY DEF RenewAnswered
<1>3. PICK c : c = [call[Notifier] EXCEPT
                !.pc = "update",
                !.row = [status |-> PaidIfSucceeded(status), yoo |-> TRUE],
                !.method = m]
  OBVIOUS
<1>4. call[Notifier] \in Frame /\ FrameInv(call[Notifier])
      /\ call[Notifier].pc = "charge" /\ call[Notifier].op = "renew"
  BY <1>1, FrameType DEF RenewAnswered, Inv, NotifierRenews
<1>5. c \in Frame
  <2>1. [status |-> PaidIfSucceeded(status), yoo |-> TRUE] \in Fields
    BY DEF Fields, PaymentStatus, PaidIfSucceeded
  <2> QED
    BY <1>3, <1>4, <2>1 DEF Frame, Points
<1>6. /\ c.pc = "update" /\ c.op = "renew" /\ c.p = call[Notifier].p
      /\ c.todo = call[Notifier].todo /\ c.due = call[Notifier].due
      /\ c.row.status = PaidIfSucceeded(status)
  BY <1>3, <1>4 DEF Frame
<1>7. c.row.status = "succeeded" => status = "succeeded"
  BY <1>6 DEF PaidIfSucceeded
<1>8. FrameInv([c EXCEPT !.pc = "idle"])
  BY <1>4, <1>5, <1>6 DEF FrameInv, Frame
<1>9. Proceeds(Notifier, c)
  BY <1>2, <1>3, <1>6 DEF Proceeds
<1>10. UNCHANGED <<sub, pay, ledger>> /\ EnvType
  BY EnvStays DEF RenewAnswered, db
<1>11. prov' = [prov EXCEPT ![call[Notifier].p] =
                  [status |-> status, amount |-> pay[call[Notifier].p].amount]]
  BY DEF RenewAnswered
<1> QED
  BY <1>1, <1>4, <1>5, <1>6, <1>7, <1>8, <1>9, <1>10, <1>11, AnswerStep

LEMMA RenewGatewayErrorInv == ASSUME Inv, RenewGatewayError PROVE SafeStep
<1>1. Notifier \in Procs
  BY DEF Procs
<1>2. call[Notifier] \in Frame /\ FrameInv(call[Notifier])
      /\ call[Notifier].pc = "charge" /\ call[Notifier].op = "renew"
  BY <1>1, FrameType DEF RenewGatewayError, Inv, NotifierRenews
<1>3. PICK c : c = [call[Notifier] EXCEPT !.pc = "past_due"]
  OBVIOUS
<1>4. c \in Frame
  BY <1>2, <1>3 DEF Frame, Points
<1>5. /\ c.pc = "past_due" /\ c.op = "renew" /\ c.p = call[Notifier].p
      /\ c.todo = call[Notifier].todo /\ c.due = call[Notifier].due
      /\ c.owner = call[Notifier].owner /\ c.snap = call[Notifier].snap
  BY <1>2, <1>3 DEF Frame
<1>6. CopyIsBought(c) /\ FrameInv(c)
  BY <1>2, <1>5 DEF FrameInv, CopyIsBought
<1>7. Proceeds(Notifier, c)
  BY <1>3, <1>5 DEF RenewGatewayError, Proceeds
<1>8. UNCHANGED <<sub, pay, ledger>>
  BY DEF RenewGatewayError, db
<1>9. EnvType
  BY DEF RenewGatewayError, EnvType, Inv, TypeOK
<1>10. CASE UNCHANGED prov
  BY <1>1, <1>4, <1>5, <1>6, <1>7, <1>8, <1>9, <1>10, QuietStep DEF GoesOn, db
<1>11. CASE prov' = [prov EXCEPT ![call[Notifier].p] =
                       [status |-> "pending", amount |-> pay[call[Notifier].p].amount]]
  <2>1. FrameInv([c EXCEPT !.pc = "idle"])
    BY <1>4, <1>6 DEF FrameInv, Frame
  <2> QED
    BY <1>1, <1>2, <1>4, <1>5, <1>6, <1>7, <1>8, <1>9, <1>11, <2>1, AnswerStep
<1> QED
  BY <1>10, <1>11 DEF RenewGatewayError

LEMMA RenewPastDueInv == ASSUME Inv, RenewPastDue PROVE SafeStep
<1>1. Notifier \in Procs
  BY DEF Procs
<1>2. call[Notifier] \in Frame /\ FrameInv(call[Notifier])
      /\ call[Notifier].pc = "past_due" /\ call[Notifier].op = "renew"
  BY <1>1, FrameType DEF RenewPastDue, Inv, NotifierRenews
<1>3. CopyIsBought(call[Notifier]) /\ call[Notifier].at \in Nat
  BY <1>2 DEF FrameInv, Frame
<1>4. PICK x \in Subscription :
        /\ x = MarkPastDue(call[Notifier].snap, call[Notifier].at)
        /\ x.plan = call[Notifier].snap.plan
  BY <1>3, MarkType DEF CopyIsBought
<1>5. PICK c : c = [call[Notifier] EXCEPT !.pc = "fail_row"]
  OBVIOUS
<1>6. c \in Frame
  BY <1>2, <1>5 DEF Frame, Points
<1>7. /\ c.pc = "fail_row" /\ c.op = "renew" /\ c.p = call[Notifier].p
      /\ c.todo = call[Notifier].todo /\ c.due = call[Notifier].due
  BY <1>2, <1>5 DEF Frame
<1>8. FrameInv(c)
  BY <1>2, <1>7 DEF FrameInv
<1>9. GoesOn(Notifier, c)
  BY <1>5, <1>7, <1>8 DEF RenewPastDue, GoesOn, Proceeds
<1>10. SaveSubscription(call[Notifier].owner, x)
  BY <1>4 DEF RenewPastDue
<1>11. UNCHANGED <<pay, ledger, prov>> /\ EnvType
  BY EnvStays DEF RenewPastDue
<1> QED
  BY <1>1, <1>3, <1>4, <1>6, <1>9, <1>10, <1>11, SaveStep DEF CopyIsBought

LEMMA RenewFailRowInv == ASSUME Inv, RenewFailRow PROVE SafeStep
<1>1. Notifier \in Procs
  BY DEF Procs
<1>2. call[Notifier] \in Frame /\ FrameInv(call[Notifier])
      /\ call[Notifier].pc = "fail_row" /\ call[Notifier].op = "renew"
  BY <1>1, FrameType DEF RenewFailRow, Inv, NotifierRenews
<1>3. call[Notifier].p \in PayIds /\ pay[call[Notifier].p] # NoRow
  BY <1>2 DEF FrameInv
<1>4. Return(Notifier) /\ UNCHANGED <<sub, ledger, prov>>
  BY DEF RenewFailRow
<1>5. /\ AfterPayment(Notifier) \in Frame /\ GoesOn(Notifier, AfterPayment(Notifier))
      /\ acked' \in SUBSET PayIds
  BY <1>1, <1>2, <1>3, <1>4, ReturnGoesOn
<1>6. EnvType
  BY <1>5 DEF RenewFailRow, EnvType, Inv, TypeOK
<1>7. PICK f \in Fields : f = [status |-> "failed", yoo |-> FALSE]
  BY DEF Fields, PaymentStatus
<1>8. UpdatePayment(call[Notifier].p, f) /\ ~f.yoo /\ f.status # "succeeded"
  BY <1>7 DEF RenewFailRow
<1> QED
  BY <1>1, <1>3, <1>4, <1>5, <1>6, <1>8, UpdateStep

LEMMA RenewLostWriteInv == ASSUME Inv, RenewLostWrite PROVE SafeStep
<1>1. Notifier \in Procs
  BY DEF Procs
<1>2. call[Notifier] \in Frame /\ FrameInv(call[Notifier])
      /\ call[Notifier].pc # "idle" /\ call[Notifier].op = "renew"
  BY <1>1, FrameType DEF RenewLostWrite, Inv, NotifierRenews
<1>3. UNCHANGED <<db, prov>>
  BY DEF RenewLostWrite
<1>4. EnvType
  BY DEF RenewLostWrite, EnvType, Inv, TypeOK
<1>5. CASE Become(Notifier, AfterPayment(Notifier))
  <2>1. GoesOn(Notifier, AfterPayment(Notifier)) /\ AfterPayment(Notifier) \in Frame
    BY <1>1, <1>2, <1>5, AfterPaymentSafe DEF GoesOn, Proceeds
  <2> QED
    BY <1>1, <1>3, <1>4, <2>1, QuietStep
<1>6. CASE call[Notifier].pc = "past_due"
           /\ Become(Notifier, [call[Notifier] EXCEPT !.pc = "fail_row"])
  <2>1. PICK c : c = [call[Notifier] EXCEPT !.pc = "fail_row"]
    OBVIOUS
  <2>2. c \in Frame
    BY <1>2, <2>1 DEF Frame, Points
  <2>3. /\ c.pc = "fail_row" /\ c.op = "renew" /\ c.p = call[Notifier].p
        /\ c.todo = call[Notifier].todo /\ c.due = call[Notifier].due
    BY <1>2, <2>1 DEF Frame
  <2>4. FrameInv(c)
    BY <1>2, <1>6, <2>3 DEF FrameInv
  <2>5. GoesOn(Notifier, c)
    BY <1>6, <2>1, <2>3, <2>4 DEF GoesOn, Proceeds
  <2> QED
    BY <1>1, <1>3, <1>4, <2>2, <2>5, QuietStep
<1> QED
  BY <1>5, <1>6 DEF RenewLostWrite

LEMMA RenewDueInv == ASSUME Inv, RenewDue PROVE SafeStep
<1>1. Notifier \in Procs
  BY DEF Procs
<1>2. CASE RenewEnd \/ \E o \in Owners : RenewInsertError(o)
  BY <1>1, <1>2, StopStep, EnvStays DEF RenewEnd, RenewInsertError
<1>3. CASE Apply(Notifier)
  BY <1>1, <1>3, ApplyInv
<1>4. CASE \E o \in Owners : \/ RenewSkip(o) \/ RenewExpire(o) \/ RenewUnpaid(o)
                             \/ \E p \in PayIds : RenewCharge(o, p)
  BY <1>4, VisitInv, RenewChargeInv
<1>5. CASE \E status \in {"pending", "succeeded", "canceled"} : RenewAnswered(status)
  BY <1>5, RenewAnsweredInv
<1> QED
  BY <1>2, <1>3, <1>4, <1>5, RenewBeginInv, RenewListInv, RenewGatewayErrorInv,
     RenewPastDueInv, RenewFailRowInv, RenewLostWriteInv
  DEF RenewDue

LEMMA ServeInv == ASSUME Inv, NEW t \in Threads, Serve(t) PROVE SafeStep
<1>1. t \in Procs
  BY DEF Procs
<1>2. CASE Checkout(t)
  BY <1>2, BeginCheckoutInv, CheckoutAnsweredInv, CheckoutGatewayErrorInv DEF Checkout
<1>3. CASE Apply(t)
  BY <1>1, <1>3, ApplyInv
<1>4. CASE Cancel(t)
  BY <1>4, CancelReadInv, CancelSaveInv DEF Cancel
<1>5. CASE HandleYooKassaWebhook(t) \/ \E p \in PayIds : WebhookDeliver(t, p)
  BY <1>5, WebhookDeliverInv, WebhookFetchInv, WebhookReadInv, WebhookVoidInv
  DEF HandleYooKassaWebhook
<1>6. CASE SyncPendingPayments(t)
  BY <1>6, SyncListInv, SyncNextInv, SyncEndInv DEF SyncPendingPayments
<1> QED
  BY <1>2, <1>3, <1>4, <1>5, <1>6 DEF Serve

\* A step in which no goroutine moves.
LEMMA NobodyMoves ==
  ASSUME Inv, EnvType, UNCHANGED call, Evolves, RowsInv',
         DebitOnlyCaptured', SubscriptionIsBought', UNCHANGED <<sub, pay, ledger>>,
         prov' \in [PayIds -> ProviderPayment],
         \A u \in Procs : call[u].pc = "charge" => prov'[call[u].p].status = "none"
  PROVE  Inv'
<1>1. Notifier \in Procs
  BY DEF Procs
<1>2. PICK c \in Frame : c = call[Notifier]
  BY <1>1, FrameType
<1>3. FrameInv(c)
  BY <1>1, <1>2, FrameType
<1>4. FrameInv(c)'
  BY <1>1, <1>2, <1>3, FrameStays DEF Inv
<1>5. Proceeds(Notifier, c)
  BY <1>1, <1>2 DEF Proceeds, Become, Inv, TypeOK, NotifierRenews
<1>6. \A u \in Procs \ {Notifier} : call[u].pc = "charge" =>
         /\ prov'[call[u].p].status = "none"
         /\ c.pc = "charge" => c.p # call[u].p
  BY <1>1, <1>2, OtherCharges
<1> QED
  BY <1>1, <1>4, <1>5, <1>6, StepInv DEF Inv, TypeOK

LEMMA ProviderSettlesInv ==
  ASSUME Inv, NEW p \in PayIds, NEW status \in {"succeeded", "canceled"},
         ProviderSettles(p, status)
  PROVE  SafeStep
<1>1. pay[p] # NoRow /\ prov[p].amount = pay[p].amount /\ prov[p].status = "pending"
  BY DEF ProviderSettles, Inv, RowsInv
<1>2. prov' = [prov EXCEPT ![p] = [status |-> status, amount |-> pay[p].amount]]
  <2>1. prov[p] \in ProviderPayment
    BY DEF Inv, TypeOK
  <2>2. [prov[p] EXCEPT !.status = status] = [status |-> status, amount |-> pay[p].amount]
    BY <1>1, <2>1 DEF ProviderPayment
  <2> QED
    BY <2>2 DEF ProviderSettles
<1>3. UNCHANGED <<sub, pay, ledger, call>> /\ EnvType
  BY EnvStays DEF ProviderSettles, db
<1>4. /\ Evolves /\ RowsInv' /\ DebitOnlyCaptured' /\ SubscriptionIsBought'
      /\ prov' \in [PayIds -> ProviderPayment]
      /\ \A q \in PayIds : q # p => prov'[q] = prov[q]
  BY <1>1, <1>2, <1>3, ProviderEvolves
<1>5. \A u \in Procs : call[u].pc = "charge" =>
         call[u].p \in PayIds /\ prov[call[u].p].status = "none"
  BY FrameType DEF FrameInv
<1>6. \A u \in Procs : call[u].pc = "charge" => prov'[call[u].p].status = "none"
  BY <1>1, <1>4, <1>5
<1>7. Inv'
  BY <1>3, <1>4, <1>6, NobodyMoves
<1>8. ContractStep
  BY <1>1, <1>2, <1>3, ProviderContract
<1> QED
  BY <1>7, <1>8 DEF SafeStep

LEMMA UnchangedInv == ASSUME Inv, UNCHANGED <<db, prov, call>>, EnvType PROVE SafeStep
<1>1. Evolves /\ RowsInv' /\ DebitOnlyCaptured'
  BY RowsStay DEF db, Inv, DebitOnlyCaptured, Recorded
<1>2. SubscriptionIsBought'
  BY <1>1, BoughtKept DEF db
<1>3. \A u \in Procs : call[u].pc = "charge" => prov'[call[u].p].status = "none"
  BY FrameType DEF FrameInv
<1>4. Inv'
  BY <1>1, <1>2, <1>3, NobodyMoves DEF db, Inv, TypeOK
<1> QED
  BY <1>1, <1>4, StutterStep DEF SafeStep, db

LEMMA RedeployInv == ASSUME Inv, Redeploy PROVE SafeStep
<1>1. UNCHANGED <<sub, pay, ledger, prov>> /\ call' = [t \in Procs |-> Idle]
  BY DEF Redeploy, db
<1>2. TypeOK'
  BY <1>1, IdleSafe, ServiceAssumption DEF Redeploy, Inv, TypeOK
<1>3. RowsInv' /\ DebitOnlyCaptured' /\ Evolves
  BY <1>1, RowsStay DEF Inv, DebitOnlyCaptured, Recorded
<1>4. SubscriptionIsBought'
  BY <1>1, <1>3, BoughtKept
<1>5. \A u \in Procs : FrameInv(call[u])'
  BY <1>1, IdleSafe DEF FrameInv, Idle
<1>6. ChargeOnce' /\ NotifierRenews'
  BY <1>1, IdleSafe DEF ChargeOnce, NotifierRenews, Procs
<1>7. Inv'
  BY <1>2, <1>3, <1>4, <1>5, <1>6 DEF Inv
<1> QED
  BY <1>1, <1>3, <1>7, StutterStep DEF SafeStep

LEMMA EnvironmentInv == ASSUME Inv, Environment PROVE SafeStep
<1>1. ASSUME NEW t \in Procs, Abort(t) PROVE SafeStep
  <2>1. EnvType
    BY <1>1 DEF Abort, EnvType, Inv, TypeOK
  <2> QED
    BY <1>1, <2>1, StopStep DEF Abort
<1>2. CASE Tick
  <2>1. EnvType
    BY <1>2 DEF Tick, EnvType, Inv, TypeOK
  <2> QED
    BY <1>2, <2>1, UnchangedInv DEF Tick
<1> QED
  BY <1>1, <1>2, ProviderSettlesInv, RedeployInv DEF Environment

-----------------------------------------------------------------------------
(* The invariant holds initially and every step keeps it. *)

LEMMA InitInv == Init => Inv
<1> SUFFICES ASSUME Init PROVE Inv
  OBVIOUS
<1>1. TypeOK
  BY IdleSafe, ServiceAssumption DEF Init, TypeOK, Unsent, ProviderPayment
<1>2. RowsInv /\ DebitOnlyCaptured /\ SubscriptionIsBought
  BY DEF Init, RowsInv, DebitOnlyCaptured, SubscriptionIsBought, Recorded, Unsent
<1>3. (\A t \in Procs : FrameInv(call[t])) /\ ChargeOnce /\ NotifierRenews
  BY IdleSafe DEF Init, ChargeOnce, NotifierRenews, Procs
<1> QED
  BY <1>1, <1>2, <1>3 DEF Inv

LEMMA NextInv == Inv /\ [Next]_vars => SafeStep
<1> SUFFICES ASSUME Inv, [Next]_vars PROVE SafeStep
  OBVIOUS
<1>1. CASE Next
  BY <1>1, ServeInv, RenewDueInv, EnvironmentInv DEF Next
<1>2. CASE UNCHANGED vars
  BY <1>2, EnvStays, UnchangedInv DEF vars, env, db
<1> QED
  BY <1>1, <1>2

\* The inductive invariant: every state the service can reach satisfies it, for
\* any number of owners, payments, goroutines, releases and faults.
THEOREM InvHolds == Spec => []Inv
<1>1. Init => Inv
  BY InitInv
<1>2. Inv /\ [Next]_vars => Inv'
  BY NextInv DEF SafeStep
<1> QED
  BY <1>1, <1>2, PTL DEF Spec

\* Rows, frames and provider payments keep their shapes.
THEOREM TypeCorrect == Spec => []TypeOK
<1>1. Inv => TypeOK
  BY DEF Inv
<1> QED
  BY <1>1, InvHolds, PTL

\* A row says succeeded, or a debit is booked, only for money the provider
\* captured in the row's amount.
THEOREM MoneyIsCaptured == Spec => []DebitOnlyCaptured
<1>1. Inv => DebitOnlyCaptured
  BY DEF Inv
<1> QED
  BY <1>1, InvHolds, PTL

\* Nobody is ever subscribed to a plan version that was not bought.
THEOREM PlanIsBought == Spec => []SubscriptionIsBought
<1>1. Inv => SubscriptionIsBought
  BY DEF Inv
<1> QED
  BY <1>1, InvHolds, PTL

\* Grandfathering: a renewal costs what the version its owner bought costs,
\* whatever price list is current.
THEOREM RenewalIsGrandfathered == Spec => []RenewalAtBoughtPrice
<1>1. Inv => RenewalAtBoughtPrice
  <2> SUFFICES ASSUME Inv, NEW p \in PayIds, pay[p] # NoRow, pay[p].purpose = "renew"
               PROVE  \E v \in PlanVersions :
                        /\ Bought(pay[p].owner, v)
                        /\ pay[p].amount = PlanAmount[v]
                        /\ prov[p].status # "none" => prov[p].amount = PlanAmount[v]
    BY DEF RenewalAtBoughtPrice
  <2>1. pay[p].plan \in PlanVersions
    BY DEF Inv, TypeOK, PaymentRow
  <2> QED
    BY <2>1 DEF Inv, RowsInv
<1> QED
  BY <1>1, InvHolds, PTL

\* The service implements the payment contract: it starts in an initial state of
\* it, and each of its steps is a step of it or leaves it alone.
THEOREM ContractIsImplemented == Spec => ImplementsContract
<1>1. Init => Contract!Init
  BY DEF Init, Contract!Init, moneyBar, planBar, Unsent
<1>2. Inv /\ [Next]_vars => [Contract!Next]_(Contract!vars)
  BY NextInv DEF SafeStep, ContractStep
<1> QED
  BY <1>1, <1>2, InvHolds, PTL DEF Spec, ImplementsContract, Contract!Spec

-----------------------------------------------------------------------------
(***************************************************************************)
(* How often a payment is booked.  UpdatePayment comes first and the debit *)
(* last, so a row that says succeeded has been booked, or the frame that   *)
(* wrote it is on its way.                                                 *)
(***************************************************************************)

\* Frames that apply a payment they have recorded.
Applies == {"apply", "save", "debit"}

\* Frames that found their payment not yet recorded, and will write its row.
Decides == {"charge", "update", "void", "past_due", "fail_row"}

RecordedIn(py, p) == py[p] # NoRow /\ py[p].status = "succeeded"

BookedFrame(py, lg, c) ==
  /\ c.pc \in Decides => ~RecordedIn(py, c.p)
  /\ c.pc \in Applies => RecordedIn(py, c.p) /\ lg[c.p] = 0

Booked ==
  /\ \A p \in PayIds : ledger[p] <= 1 /\ (ledger[p] > 0 => RecordedIn(pay, p))
  /\ \A t \in Procs : BookedFrame(pay, ledger, call[t])

\* No two goroutines handle the same payment at the same time.
OneHandler == \A t, u \in Procs : call[t].p = call[u].p /\ call[t].p # None => t = u

\* Frame c is going to book payment p.
WillBook(c, p) == c.pc \in Applies /\ c.p = p

Applied ==
  faults = 0 /\ release = 1 =>
    \A p \in PayIds :
      RecordedIn(pay, p) /\ ledger[p] = 0 => \E t \in Procs : WillBook(call[t], p)

\* What a step does to both.
BookStep == (Booked /\ OneHandler => Booked') /\ (Applied => Applied')

LEMMA OnTheirWay ==
  ASSUME Inv, NEW t \in Procs
  PROVE  /\ call[t] \in Frame
         /\ call[t].pc \in Applies \cup Decides => call[t].p \in PayIds /\ pay[call[t].p] # NoRow
         /\ call[t].p # None => call[t].p \in PayIds
BY DEF Inv, TypeOK, FrameInv, Applies, Decides, Frame

\* Goroutine t goes on with frame c and touches no payment but its own, or a new one.
LEMMA BookMove ==
  ASSUME Inv, NEW t \in Procs, NEW c, Become(t, c), UNCHANGED release, faults <= faults',
         \A q \in PayIds : q # call[t].p =>
           /\ pay[q] # NoRow => pay'[q] = pay[q]
           /\ pay[q] = NoRow => ~RecordedIn(pay', q)
           /\ ledger'[q] = ledger[q],
         Booked =>
           /\ BookedFrame(pay', ledger', c)
           /\ call[t].p \in PayIds =>
                ledger'[call[t].p] <= 1 /\ (ledger'[call[t].p] > 0 => RecordedIn(pay', call[t].p)),
         faults' = faults =>
           \A q \in PayIds :
             /\ WillBook(call[t], q) => WillBook(c, q) \/ ledger'[q] # 0
             /\ q = call[t].p /\ RecordedIn(pay', q) /\ ledger'[q] = 0 =>
                  WillBook(c, q) \/ (RecordedIn(pay, q) /\ ledger[q] = 0)
  PROVE  BookStep
<1>1. \A u \in Procs : call'[u] = IF u = t THEN c ELSE call[u]
  BY DEF Become, Inv, TypeOK
<1>2. ledger \in [PayIds -> Nat]
  BY DEF Inv, TypeOK
<1>3. ASSUME Booked, OneHandler
      PROVE  Booked'
  <2>1. ASSUME NEW u \in Procs PROVE BookedFrame(pay', ledger', call'[u])
    <3>1. CASE u = t
      BY <1>1, <1>3, <3>1
    <3>2. CASE u # t
      <4>1. BookedFrame(pay, ledger, call[u]) /\ call'[u] = call[u]
        BY <1>1, <1>3, <3>2 DEF Booked
      <4>2. call[u].pc \in Applies \cup Decides =>
              /\ call[u].p \in PayIds /\ pay[call[u].p] # NoRow
              /\ call[u].p # call[t].p
        BY <1>3, <3>2, OnTheirWay, ServiceAssumption DEF OneHandler
      <4>3. call[u].pc \in Applies \cup Decides =>
              pay'[call[u].p] = pay[call[u].p] /\ ledger'[call[u].p] = ledger[call[u].p]
        BY <4>2
      <4> QED
        BY <4>1, <4>3 DEF BookedFrame, RecordedIn
    <3> QED
      BY <3>1, <3>2
  <2>2. ASSUME NEW q \in PayIds
        PROVE  ledger'[q] <= 1 /\ (ledger'[q] > 0 => RecordedIn(pay', q))
    <3>1. CASE q = call[t].p
      BY <1>3, <3>1
    <3>2. CASE q # call[t].p
      BY <1>2, <1>3, <3>2 DEF Booked, RecordedIn
    <3> QED
      BY <3>1, <3>2
  <2> QED
    BY <2>1, <2>2 DEF Booked
<1>4. ASSUME Applied
      PROVE  Applied'
  <2> SUFFICES ASSUME faults' = 0, release' = 1, NEW q \in PayIds,
                      RecordedIn(pay', q), ledger'[q] = 0
               PROVE  \E u \in Procs : WillBook(call'[u], q)
    BY DEF Applied
  <2>1. faults' = faults /\ faults = 0 /\ release = 1
    BY DEF Inv, TypeOK
  <2>2. CASE WillBook(c, q)
    BY <1>1, <2>2
  <2>3. CASE ~WillBook(c, q)
    <3>1. RecordedIn(pay, q) /\ ledger[q] = 0
      BY <2>1, <2>3 DEF RecordedIn
    <3>2. PICK u \in Procs : WillBook(call[u], q)
      BY <1>4, <2>1, <3>1 DEF Applied
    <3>3. u # t
      BY <2>1, <2>3, <3>2
    <3> QED
      BY <1>1, <3>2, <3>3
  <2> QED
    BY <2>2, <2>3
<1> QED
  BY <1>3, <1>4 DEF BookStep

\* Most steps write neither payments nor debits.
LEMMA BookQuiet ==
  ASSUME Inv, NEW t \in Procs, NEW c, Become(t, c), UNCHANGED <<pay, ledger, release>>,
         faults <= faults',
         BookedFrame(pay, ledger, call[t]) => BookedFrame(pay, ledger, c),
         faults' = faults => \A q \in PayIds : WillBook(call[t], q) => WillBook(c, q)
  PROVE  BookStep
<1>1. \A q \in PayIds : pay[q] = NoRow => ~RecordedIn(pay', q)
  BY DEF RecordedIn
<1>2. Booked => BookedFrame(pay', ledger', c)
  BY DEF Booked
<1>3. Booked /\ call[t].p \in PayIds =>
        ledger'[call[t].p] <= 1 /\ (ledger'[call[t].p] > 0 => RecordedIn(pay', call[t].p))
  BY DEF Booked
<1> QED
  BY <1>1, <1>2, <1>3, BookMove

\* A frame that neither decides on a payment nor applies one.
LEMMA RestFrame ==
  ASSUME NEW c, c.pc \notin Applies \cup Decides
  PROVE  BookedFrame(pay, ledger, c) /\ BookedFrame(pay', ledger', c) /\ \A q : ~WillBook(c, q)
BY DEF BookedFrame, WillBook

\* Steps from and to such frames.
LEMMA BookRest ==
  ASSUME Inv, NEW t \in Procs, NEW c, Become(t, c), UNCHANGED <<pay, ledger, release>>,
         faults <= faults', c.pc \notin Applies \cup Decides,
         call[t].pc \notin Applies \/ faults' # faults
  PROVE  BookStep
<1>1. faults' = faults => \A q \in PayIds : WillBook(call[t], q) => WillBook(c, q)
  BY DEF WillBook
<1> QED
  BY <1>1, RestFrame, BookQuiet

\* What a handler goes on with when it is done with a payment.
LEMMA AfterRests ==
  ASSUME NEW t
  PROVE  /\ AfterPayment(t).pc \notin Applies \cup Decides
         /\ Idle.pc \notin Applies \cup Decides
BY DEF AfterPayment, Idle, Applies, Decides

\* A deciding frame that will not record the payment, and one that applies, go on.
LEMMA BookKeeps ==
  ASSUME Inv, NEW t \in Procs, NEW c, Become(t, c), UNCHANGED <<pay, ledger, release>>,
         faults <= faults', c.p = call[t].p,
         \/ c.pc \in Decides /\ call[t].pc \in Decides
         \/ c.pc \in Applies /\ call[t].pc \in Applies
  PROVE  BookStep
<1>1. Decides \cap Applies = {}
  BY DEF Decides, Applies
<1>2. BookedFrame(pay, ledger, call[t]) => BookedFrame(pay, ledger, c)
  BY <1>1 DEF BookedFrame
<1>3. \A q \in PayIds : WillBook(call[t], q) => WillBook(c, q)
  BY <1>1 DEF WillBook
<1> QED
  BY <1>2, <1>3, BookQuiet

\* A new row is pending, and nobody has booked it.
LEMMA BookNew ==
  ASSUME Inv, NEW t \in Procs, NEW c, Become(t, c), UNCHANGED <<ledger, release, faults>>,
         NEW p \in PayIds, NEW r, CreatePayment(p, r), r.status = "pending",
         c.pc = "charge", c.p = p, call[t].pc \notin Applies
  PROVE  BookStep
<1>1. pay[p] = NoRow /\ \A q \in PayIds : pay'[q] = IF q = p THEN r ELSE pay[q]
  BY DEF CreatePayment, Inv, TypeOK
<1>2. \A q \in PayIds : (pay[q] # NoRow => pay'[q] = pay[q]) /\ (pay[q] = NoRow => ~RecordedIn(pay', q))
  BY <1>1 DEF RecordedIn
<1>3. BookedFrame(pay', ledger', c)
  BY <1>1 DEF BookedFrame, RecordedIn, Applies
<1>4. \A q \in PayIds : ~WillBook(call[t], q)
  BY DEF WillBook
<1>5. faults \in Nat /\ ledger \in [PayIds -> Nat]
  BY DEF Inv, TypeOK
<1>6. \A q \in PayIds : RecordedIn(pay', q) <=> RecordedIn(pay, q)
  BY <1>1 DEF RecordedIn
<1>7. Booked => \A q \in PayIds : ledger'[q] <= 1 /\ (ledger'[q] > 0 => RecordedIn(pay', q))
  BY <1>6 DEF Booked
<1> QED
  BY <1>2, <1>3, <1>4, <1>5, <1>6, <1>7, BookMove

\* A row that its frame knows not to be recorded gets a status.
LEMMA BookRow ==
  ASSUME Inv, NEW t \in Procs, NEW c, Become(t, c), UNCHANGED <<ledger, release, faults>>,
         NEW f \in Fields, UpdatePayment(call[t].p, f), call[t].pc \in Decides,
         f.status = "succeeded" => c.pc = "apply" /\ c.p = call[t].p,
         f.status # "succeeded" => c.pc \notin Applies \cup Decides
  PROVE  BookStep
<1> DEFINE p == call[t].p
<1>1. p \in PayIds /\ pay[p] # NoRow /\ faults \in Nat
  BY OnTheirWay DEF Inv, TypeOK
<1>2. /\ \A q \in PayIds : q # p => pay'[q] = pay[q]
      /\ pay'[p] # NoRow /\ pay'[p].status = f.status
  BY <1>1, NoRowAssumption DEF UpdatePayment, Inv, TypeOK, PaymentRow, Fields
<1>3. ledger \in [PayIds -> Nat]
  BY DEF Inv, TypeOK
<1>4. Booked => ledger[p] = 0
  BY <1>1, <1>3 DEF Booked, BookedFrame
<1>5. Booked => BookedFrame(pay', ledger', c)
  BY <1>2, <1>4 DEF BookedFrame, RecordedIn, Applies, Decides
<1>6. \A q \in PayIds : ~WillBook(call[t], q)
  BY DEF WillBook, Applies, Decides
<1>7. RecordedIn(pay', p) => WillBook(c, p)
  BY <1>2 DEF RecordedIn, WillBook, Applies
<1>8. \A q \in PayIds : q # p /\ pay[q] = NoRow => ~RecordedIn(pay', q)
  BY <1>2 DEF RecordedIn
<1> HIDE DEF p
<1> QED
  BY <1>1, <1>2, <1>4, <1>5, <1>6, <1>7, <1>8, BookMove DEF p

-----------------------------------------------------------------------------
(* The steps of the service. *)

LEMMA FaultsStay ==
  ASSUME Inv, UNCHANGED env
  PROVE  UNCHANGED release /\ UNCHANGED faults /\ faults <= faults'
BY DEF env, Inv, TypeOK

LEMMA CheckoutBook ==
  ASSUME Inv, NEW t \in Threads, Checkout(t)
  PROVE  BookStep
<1>0. t \in Procs /\ call[t] \in Frame
  BY FrameType DEF Procs
<1>1. ASSUME NEW o \in Owners, NEW period \in Periods, NEW purpose, NEW p \in PayIds,
             BeginCheckout(t, o, period, purpose, p)
      PROVE  BookStep
  <2> DEFINE r == [owner |-> o, plan |-> CurrentPlan[release][period],
                   amount |-> PlanAmount[CurrentPlan[release][period]],
                   purpose |-> purpose, status |-> "pending", yoo |-> FALSE]
             c == [Idle EXCEPT !.op = "checkout", !.pc = "charge", !.p = p, !.owner = o]
  <2>1. r.status = "pending" /\ c.pc = "charge" /\ c.p = p
    BY DEF Idle
  <2>2. CreatePayment(p, r) /\ Become(t, c) /\ UNCHANGED ledger /\ call[t].pc = "idle"
    BY <1>1 DEF BeginCheckout
  <2>3. UNCHANGED <<release, faults>>
    BY <1>1, FaultsStay DEF BeginCheckout
  <2>4. call[t].pc \notin Applies
    BY <2>2 DEF Applies
  <2> HIDE DEF r, c
  <2> QED
    BY <1>0, <2>1, <2>2, <2>3, <2>4, BookNew
<1>2. ASSUME NEW status \in CheckoutAnswers, CheckoutAnswered(t, status)
      PROVE  BookStep
  <2>1. PICK m \in BOOLEAN :
          Become(t, [call[t] EXCEPT
                  !.pc = "update",
                  !.row = [status |-> PaidIfSucceeded(status), yoo |-> TRUE],
                  !.method = m])
    BY <1>2 DEF CheckoutAnswered
  <2> DEFINE c == [call[t] EXCEPT
                    !.pc = "update",
                    !.row = [status |-> PaidIfSucceeded(status), yoo |-> TRUE],
                    !.method = m]
  <2>2. c.pc = "update" /\ c.p = call[t].p /\ call[t].pc = "charge"
    BY <1>0, <1>2 DEF Frame, CheckoutAnswered
  <2>3. UNCHANGED <<pay, ledger, release>> /\ faults <= faults'
    BY <1>2, FaultsStay DEF CheckoutAnswered, db
  <2>4. Become(t, c)
    BY <2>1
  <2>5. c.pc \in Decides /\ call[t].pc \in Decides
    BY <2>2 DEF Decides
  <2> HIDE DEF c
  <2> QED
    BY <1>0, <2>2, <2>3, <2>4, <2>5, BookKeeps
<1>3. CASE CheckoutGatewayError(t)
  <2>1. Become(t, Idle) /\ call[t].pc \notin Applies /\ UNCHANGED <<pay, ledger, release>>
    BY <1>3 DEF CheckoutGatewayError, db, Applies
  <2>2. faults <= faults'
    BY <1>3 DEF CheckoutGatewayError, Inv, TypeOK
  <2> QED
    BY <1>0, <2>1, <2>2, AfterRests, BookRest
<1> QED
  BY <1>1, <1>2, <1>3 DEF Checkout

LEMMA ApplyBook ==
  ASSUME Inv, NEW t \in Procs, Apply(t)
  PROVE  BookStep
<1>0. call[t] \in Frame /\ faults \in Nat
  BY FrameType DEF Inv, TypeOK
<1>1. CASE Update(t)
  <2>1. /\ call[t].pc \in Decides /\ call[t].row \in Fields
        /\ UpdatePayment(call[t].p, call[t].row) /\ UNCHANGED <<ledger, release, faults>>
    BY <1>0, <1>1 DEF Update, Decides, Frame
  <2>2. CASE call[t].row.status = "succeeded"
    <3> DEFINE c == [call[t] EXCEPT !.pc = "apply"]
    <3>1. Become(t, c)
      BY <1>1, <2>2 DEF Update
    <3>2. c.pc = "apply" /\ c.p = call[t].p
      BY <1>0 DEF Frame
    <3> HIDE DEF c
    <3> QED
      BY <2>1, <2>2, <3>1, <3>2, BookRow
  <2>3. CASE call[t].row.status # "succeeded"
    <3>1. Become(t, AfterPayment(t))
      BY <1>1, <2>3 DEF Update, Return
    <3> QED
      BY <2>1, <2>3, <3>1, AfterRests, BookRow
  <2> QED
    BY <2>2, <2>3
<1>2. CASE ApplyRead(t)
  <2> DEFINE r == pay[call[t].p]
             m == call[t].method \/ (call[t].op = "renew" /\ call[t].snap # NoSub
                                      /\ call[t].snap.method)
             s == ApplySuccessfulPayment(sub[r.owner], r.plan, r.purpose, now, m, Recurring)
             c == [call[t] EXCEPT !.pc = "save", !.owner = r.owner, !.snap = s]
  <2>1. Become(t, c) /\ call[t].pc = "apply"
    BY <1>2 DEF ApplyRead
  <2> HIDE DEF s
  <2>2. c.pc = "save" /\ c.p = call[t].p
    BY <1>0 DEF Frame
  <2> HIDE DEF c
  <2>3. UNCHANGED <<pay, ledger, release>> /\ faults <= faults'
    BY <1>2, FaultsStay DEF ApplyRead, db
  <2> QED
    BY <2>1, <2>2, <2>3, BookKeeps DEF Applies
<1>3. CASE ApplySave(t)
  <2> DEFINE c == [call[t] EXCEPT !.pc = "debit"]
  <2>1. Become(t, c) /\ call[t].pc = "save"
    BY <1>3 DEF ApplySave
  <2>2. c.pc = "debit" /\ c.p = call[t].p
    BY <1>0 DEF Frame
  <2> HIDE DEF c
  <2>3. UNCHANGED <<pay, ledger, release>> /\ faults <= faults'
    BY <1>3, FaultsStay DEF ApplySave
  <2> QED
    BY <2>1, <2>2, <2>3, BookKeeps DEF Applies
<1>4. CASE ApplyDebit(t)
  <2> DEFINE p == call[t].p
             c == AfterPayment(t)
  <2>1. /\ call[t].pc = "debit" /\ Become(t, c) /\ UNCHANGED <<pay, release, faults>>
        /\ AddLedgerEntry(p)
    BY <1>4 DEF ApplyDebit, Return
  <2>2. p \in PayIds /\ ledger \in [PayIds -> Nat]
    BY <2>1, OnTheirWay DEF Applies, Inv, TypeOK
  <2>3. ledger'[p] = ledger[p] + 1 /\ \A q \in PayIds : q # p => ledger'[q] = ledger[q]
    BY <2>1, <2>2 DEF AddLedgerEntry
  <2>4. Booked => RecordedIn(pay, p) /\ ledger[p] = 0
    BY <2>1 DEF Booked, BookedFrame, Applies
  <2>5. \A q \in PayIds : pay[q] = NoRow => ~RecordedIn(pay', q)
    BY <2>1 DEF RecordedIn
  <2>6. BookedFrame(pay', ledger', c)
    BY AfterRests, RestFrame
  <2>7. Booked => ledger'[p] <= 1 /\ RecordedIn(pay', p)
    BY <2>1, <2>3, <2>4
  <2>8. ledger'[p] # 0 /\ \A q \in PayIds : WillBook(call[t], q) => q = p
    BY <2>2, <2>3 DEF WillBook
  <2> HIDE DEF p, c
  <2> QED
    BY <1>0, <2>1, <2>2, <2>3, <2>5, <2>6, <2>7, <2>8, BookMove DEF p
<1> QED
  BY <1>1, <1>2, <1>3, <1>4 DEF Apply

LEMMA CancelBook ==
  ASSUME Inv, NEW t \in Threads, Cancel(t)
  PROVE  BookStep
<1>0. t \in Procs
  BY DEF Procs
<1>1. ASSUME NEW o \in Owners, CancelRead(t, o)
      PROVE  BookStep
  <2> DEFINE s == MarkCancelAtPeriodEnd(sub[o])
             c == [Idle EXCEPT !.op = "cancel", !.pc = "cancel", !.owner = o, !.snap = s]
  <2>1. Become(t, c) /\ call[t].pc = "idle"
    BY <1>1 DEF CancelRead
  <2>2. c.pc = "cancel"
    BY DEF Idle
  <2> HIDE DEF c
  <2>3. UNCHANGED <<pay, ledger, release>> /\ faults <= faults'
    BY <1>1, FaultsStay DEF CancelRead, db
  <2> QED
    BY <1>0, <2>1, <2>2, <2>3, BookRest DEF Applies, Decides
<1>2. CASE CancelSave(t)
  <2>1. Become(t, Idle) /\ call[t].pc \notin Applies
    BY <1>2 DEF CancelSave, Applies
  <2>2. UNCHANGED <<pay, ledger, release>> /\ faults <= faults'
    BY <1>2, FaultsStay DEF CancelSave
  <2> QED
    BY <1>0, <2>1, <2>2, AfterRests, BookRest
<1> QED
  BY <1>1, <1>2 DEF Cancel

LEMMA WebhookBook ==
  ASSUME Inv, NEW t \in Threads,
         (\E p \in PayIds : WebhookDeliver(t, p)) \/ HandleYooKassaWebhook(t)
  PROVE  BookStep
<1>0. t \in Procs /\ call[t] \in Frame /\ faults \in Nat
  BY FrameType DEF Procs, Inv, TypeOK
<1>1. ASSUME NEW p \in PayIds, WebhookDeliver(t, p)
      PROVE  BookStep
  <2> DEFINE c == [Idle EXCEPT !.op = "webhook", !.pc = "fetch", !.p = p]
  <2>1. Become(t, c) /\ call[t].pc = "idle"
    BY <1>1 DEF WebhookDeliver
  <2>2. c.pc = "fetch"
    BY DEF Idle
  <2> HIDE DEF c
  <2>3. UNCHANGED <<pay, ledger, release>> /\ faults <= faults'
    BY <1>1, FaultsStay DEF WebhookDeliver, db
  <2> QED
    BY <1>0, <2>1, <2>2, <2>3, BookRest DEF Applies, Decides
<1>2. CASE WebhookFetch(t)
  <2>1. PICK m \in BOOLEAN :
          Become(t, [call[t] EXCEPT
                  !.pc = "read",
                  !.row.status = FetchedStatus(call[t].p),
                  !.method = m])
    BY <1>2 DEF WebhookFetch
  <2> DEFINE c == [call[t] EXCEPT
                    !.pc = "read",
                    !.row.status = FetchedStatus(call[t].p),
                    !.method = m]
  <2>2. Become(t, c) /\ call[t].pc = "fetch"
    BY <1>2, <2>1 DEF WebhookFetch
  <2>3. c.pc = "read"
    BY <1>0 DEF Frame
  <2> HIDE DEF c
  <2>4. UNCHANGED <<pay, ledger, release>> /\ faults <= faults'
    BY <1>2, FaultsStay DEF WebhookFetch, db
  <2> QED
    BY <1>0, <2>2, <2>3, <2>4, BookRest DEF Applies, Decides
<1>3. CASE WebhookRead(t)
  <2>1. call[t].pc = "read" /\ UNCHANGED <<pay, ledger, release>> /\ faults <= faults'
    BY <1>0, <1>3 DEF WebhookRead, db
  <2>2. CASE Return(t)
    BY <1>0, <2>1, <2>2, AfterRests, BookRest DEF Return, Applies
  <2>3. ASSUME NEW c, Become(t, c), c.pc \in {"void", "update"}, c.p = call[t].p,
               ~AlreadyHandled(pay[call[t].p])
        PROVE  BookStep
    <3>1. ~RecordedIn(pay, c.p)
      BY <2>3 DEF RecordedIn, AlreadyHandled
    <3>2. BookedFrame(pay, ledger, c)
      BY <2>3, <3>1 DEF BookedFrame, Applies
    <3>3. \A q \in PayIds : ~WillBook(call[t], q)
      BY <2>1 DEF WillBook, Applies
    <3> QED
      BY <1>0, <2>1, <2>3, <3>2, <3>3, BookQuiet
  <2>4. CASE /\ ~AlreadyHandled(pay[call[t].p])
             /\ Become(t, [call[t] EXCEPT !.pc = "void", !.row.yoo = pay[call[t].p].yoo])
    <3> DEFINE c == [call[t] EXCEPT !.pc = "void", !.row.yoo = pay[call[t].p].yoo]
    <3>1. c.pc = "void" /\ c.p = call[t].p
      BY <1>0 DEF Frame
    <3>2. Become(t, c)
      BY <2>4
    <3> HIDE DEF c
    <3> QED
      BY <2>3, <2>4, <3>1, <3>2
  <2>5. CASE /\ ~AlreadyHandled(pay[call[t].p])
             /\ Become(t, [call[t] EXCEPT !.pc = "update", !.row.yoo = TRUE])
    <3> DEFINE c == [call[t] EXCEPT !.pc = "update", !.row.yoo = TRUE]
    <3>1. c.pc = "update" /\ c.p = call[t].p
      BY <1>0 DEF Frame
    <3>2. Become(t, c)
      BY <2>5
    <3> HIDE DEF c
    <3> QED
      BY <2>3, <2>5, <3>1, <3>2
  <2> QED
    BY <1>3, <2>2, <2>4, <2>5 DEF WebhookRead
<1>4. CASE WebhookVoid(t)
  <2>1. /\ call[t].pc = "void" /\ call[t].row \in Fields
        /\ UpdatePayment(call[t].p, call[t].row) /\ Become(t, AfterPayment(t))
        /\ UNCHANGED <<ledger, release, faults>>
    BY <1>0, <1>4 DEF WebhookVoid, Return, Frame
  <2>2. call[t].row.status # "succeeded"
    BY <1>0, <2>1 DEF Inv, FrameInv
  <2> QED
    BY <1>0, <2>1, <2>2, AfterRests, BookRow DEF Decides
<1> QED
  BY <1>1, <1>2, <1>3, <1>4 DEF HandleYooKassaWebhook

LEMMA SyncBook ==
  ASSUME Inv, NEW t \in Threads, SyncPendingPayments(t)
  PROVE  BookStep
<1>0. t \in Procs /\ call[t] \in Frame
  BY FrameType DEF Procs
<1>1. UNCHANGED <<pay, ledger, release>> /\ faults <= faults'
  BY FaultsStay DEF SyncPendingPayments, SyncList, SyncNext, SyncEnd, db
<1>2. call[t].pc \notin Applies
  BY DEF SyncPendingPayments, SyncList, SyncNext, SyncEnd, Applies
<1>3. ASSUME NEW c, Become(t, c), c.pc \in {"idle", "sync", "fetch"}
      PROVE  BookStep
  BY <1>0, <1>1, <1>2, <1>3, BookRest DEF Applies, Decides
<1>4. ASSUME NEW o \in Owners, SyncList(t, o)
      PROVE  BookStep
  <2>1. PICK pending : Become(t, [Idle EXCEPT !.op = "sync", !.pc = "sync", !.todo = pending])
    BY <1>4 DEF SyncList
  <2> DEFINE c == [Idle EXCEPT !.op = "sync", !.pc = "sync", !.todo = pending]
  <2>2. c.pc = "sync" /\ Become(t, c)
    BY <2>1 DEF Idle
  <2> HIDE DEF c
  <2> QED
    BY <1>3, <2>2
<1>5. ASSUME NEW p \in PayIds, SyncNext(t, p)
      PROVE  BookStep
  <2> DEFINE c == IF pay[p].status = "succeeded"
                    THEN [call[t] EXCEPT !.todo = @ \ {p}]
                    ELSE [call[t] EXCEPT !.todo = @ \ {p}, !.pc = "fetch", !.p = p]
  <2>1. Become(t, c) /\ call[t].pc = "sync"
    BY <1>5 DEF SyncNext
  <2>2. c.pc \in {"sync", "fetch"}
    BY <1>0, <2>1 DEF Frame
  <2> HIDE DEF c
  <2> QED
    BY <1>3, <2>1, <2>2
<1>6. CASE SyncEnd(t)
  BY <1>3, <1>6 DEF SyncEnd, Idle
<1> QED
  BY <1>4, <1>5, <1>6 DEF SyncPendingPayments

LEMMA RenewBook ==
  ASSUME Inv, RenewDue
  PROVE  BookStep
<1> DEFINE n == call[Notifier]
<1>0. Notifier \in Procs /\ n \in Frame /\ faults \in Nat
  BY FrameType DEF Procs, Inv, TypeOK
<1>1. ASSUME NEW c, Become(Notifier, c), UNCHANGED <<pay, ledger, env>>,
             n.pc \notin Applies, c.pc \notin Applies \cup Decides
      PROVE  BookStep
  <2>1. UNCHANGED release /\ faults <= faults'
    BY <1>1, FaultsStay
  <2> QED
    BY <1>0, <1>1, <2>1, BookRest
<1>2. ASSUME NEW c, Become(Notifier, c), UNCHANGED <<pay, ledger, release>>, faults <= faults',
             n.pc \in Decides, c.pc \in Decides, c.p = n.p
      PROVE  BookStep
  BY <1>0, <1>2, BookKeeps
<1>3. CASE RenewBegin
  <2> DEFINE c == [Idle EXCEPT !.op = "renew", !.pc = "list", !.at = now]
  <2>1. c.pc = "list"
    BY DEF Idle
  <2>2. Become(Notifier, c) /\ n.pc = "idle" /\ UNCHANGED <<pay, ledger, env>>
    BY <1>3 DEF RenewBegin, db
  <2> HIDE DEF c
  <2> QED
    BY <1>1, <2>1, <2>2 DEF Applies, Decides
<1>4. CASE RenewList
  <2> DEFINE d == [o \in Owners |-> IF IsDue(sub[o], n.at) THEN sub[o] ELSE NoSub]
             c == [n EXCEPT !.pc = "renew", !.due = d]
  <2>1. Become(Notifier, c) /\ n.pc = "list" /\ UNCHANGED <<pay, ledger, env>>
    BY <1>4 DEF RenewList, db
  <2> HIDE DEF d
  <2>2. c.pc = "renew"
    BY <1>0 DEF Frame
  <2> HIDE DEF c
  <2> QED
    BY <1>1, <2>1, <2>2 DEF Applies, Decides
<1>5. CASE RenewEnd
  <2>1. Become(Notifier, Idle) /\ n.pc = "renew" /\ UNCHANGED <<pay, ledger, env>>
    BY <1>5 DEF RenewEnd, db
  <2> QED
    BY <1>1, <2>1, AfterRests DEF Applies
<1>6. ASSUME NEW o \in Owners, RenewSkip(o) \/ RenewExpire(o) \/ RenewUnpaid(o)
      PROVE  BookStep
  <2>1. Become(Notifier, Visited(o)) /\ n.pc = "renew" /\ UNCHANGED <<pay, ledger, env>>
    BY <1>6 DEF RenewSkip, RenewExpire, RenewUnpaid, RenewVisits, db
  <2>2. Visited(o).pc = "renew"
    BY <1>0, <2>1 DEF Visited, Frame
  <2> QED
    BY <1>1, <2>1, <2>2 DEF Applies, Decides
<1>7. ASSUME NEW o \in Owners, RenewInsertError(o)
      PROVE  BookStep
  <2>1. Become(Notifier, Idle) /\ n.pc = "renew" /\ UNCHANGED <<pay, ledger, env>>
    BY <1>7 DEF RenewInsertError, RenewVisits, db
  <2> QED
    BY <1>1, <2>1, AfterRests DEF Applies
<1>8. ASSUME NEW o \in Owners, NEW p \in PayIds, RenewCharge(o, p)
      PROVE  BookStep
  <2> DEFINE s == n.due[o]
             r == [owner |-> o, plan |-> s.plan, amount |-> RenewalAmount(s),
                   purpose |-> "renew", status |-> "pending", yoo |-> FALSE]
             c == [Visited(o) EXCEPT !.pc = "charge", !.p = p, !.owner = o, !.snap = s]
  <2>1. CreatePayment(p, r) /\ Become(Notifier, c) /\ UNCHANGED <<ledger, env>> /\ n.pc = "renew"
    BY <1>8 DEF RenewCharge, RenewVisits
  <2>2. r.status = "pending" /\ c.pc = "charge" /\ c.p = p
    BY <1>0 DEF Visited, Frame
  <2> HIDE DEF r, c
  <2> QED
    BY <1>0, <2>1, <2>2, FaultsStay, BookNew DEF Applies
<1>9. ASSUME NEW status, RenewAnswered(status)
      PROVE  BookStep
  <2>1. PICK m \in BOOLEAN :
          Become(Notifier, [n EXCEPT
            !.pc = "update",
            !.row = [status |-> PaidIfSucceeded(status), yoo |-> TRUE],
            !.method = m])
    BY <1>9 DEF RenewAnswered
  <2> DEFINE c == [n EXCEPT
                    !.pc = "update",
                    !.row = [status |-> PaidIfSucceeded(status), yoo |-> TRUE],
                    !.method = m]
  <2>2. c.pc = "update" /\ c.p = n.p /\ Become(Notifier, c)
    BY <1>0, <2>1 DEF Frame
  <2>3. n.pc = "charge" /\ UNCHANGED <<pay, ledger, release>> /\ faults <= faults'
    BY <1>9, FaultsStay DEF RenewAnswered, db
  <2> HIDE DEF c
  <2> QED
    BY <1>2, <2>2, <2>3 DEF Decides
<1>10. CASE RenewGatewayError
  <2> DEFINE c == [n EXCEPT !.pc = "past_due"]
  <2>1. c.pc = "past_due" /\ c.p = n.p
    BY <1>0 DEF Frame
  <2>2. /\ Become(Notifier, c) /\ n.pc = "charge"
        /\ UNCHANGED <<pay, ledger, release>> /\ faults <= faults'
    BY <1>0, <1>10 DEF RenewGatewayError, db
  <2> HIDE DEF c
  <2> QED
    BY <1>2, <2>1, <2>2 DEF Decides
<1>11. CASE RenewPastDue
  <2> DEFINE c == [n EXCEPT !.pc = "fail_row"]
  <2>1. c.pc = "fail_row" /\ c.p = n.p
    BY <1>0 DEF Frame
  <2>2. /\ Become(Notifier, c) /\ n.pc = "past_due"
        /\ UNCHANGED <<pay, ledger, release>> /\ faults <= faults'
    BY <1>11, FaultsStay DEF RenewPastDue
  <2> HIDE DEF c
  <2> QED
    BY <1>2, <2>1, <2>2 DEF Decides
<1>12. CASE RenewFailRow
  <2> DEFINE f == [status |-> "failed", yoo |-> FALSE]
  <2>1. /\ n.pc = "fail_row" /\ UpdatePayment(n.p, f) /\ Become(Notifier, AfterPayment(Notifier))
        /\ UNCHANGED <<ledger, release, faults>>
    BY <1>12 DEF RenewFailRow, Return
  <2>2. f \in Fields /\ f.status # "succeeded"
    BY DEF Fields, PaymentStatus
  <2> HIDE DEF f
  <2> QED
    BY <1>0, <2>1, <2>2, AfterRests, BookRow DEF Decides
<1>13. CASE RenewLostWrite
  <2>1. UNCHANGED <<pay, ledger, release>> /\ faults <= faults'
    BY <1>0, <1>13 DEF RenewLostWrite, db
  <2>2. CASE n.pc = "past_due" /\ Become(Notifier, [n EXCEPT !.pc = "fail_row"])
    <3> DEFINE c == [n EXCEPT !.pc = "fail_row"]
    <3>1. c.pc = "fail_row" /\ c.p = n.p /\ Become(Notifier, c)
      BY <1>0, <2>2 DEF Frame
    <3> HIDE DEF c
    <3> QED
      BY <1>2, <2>1, <2>2, <3>1 DEF Decides
  <2>3. CASE n.pc \in {"fail_row", "update"} /\ Become(Notifier, AfterPayment(Notifier))
    BY <1>0, <2>1, <2>3, AfterRests, BookRest DEF Applies
  <2> QED
    BY <1>13, <2>2, <2>3 DEF RenewLostWrite
<1>14. CASE Apply(Notifier)
  BY <1>0, <1>14, ApplyBook
<1> QED
  BY <1>3, <1>4, <1>5, <1>6, <1>7, <1>8, <1>9, <1>10, <1>11, <1>12, <1>13, <1>14
     DEF RenewDue

LEMMA AroundBook ==
  ASSUME Inv, Environment
  PROVE  BookStep
<1>1. ASSUME UNCHANGED <<pay, ledger, call, release, faults>>
      PROVE  BookStep
  BY <1>1 DEF BookStep, Booked, BookedFrame, Applied, WillBook, RecordedIn
<1>2. ASSUME NEW t \in Procs, Abort(t)
      PROVE  BookStep
  <2>1. /\ Become(t, Idle) /\ UNCHANGED <<pay, ledger, release>>
        /\ faults <= faults' /\ faults' # faults
    BY <1>2 DEF Abort, db, Inv, TypeOK
  <2> QED
    BY <2>1, AfterRests, BookRest
<1>3. CASE Redeploy
  <2>1. release' # 1 /\ UNCHANGED <<pay, ledger>> /\ \A t \in Procs : call'[t] = Idle
    BY <1>3 DEF Redeploy, db, Inv, TypeOK
  <2>2. \A t \in Procs : BookedFrame(pay', ledger', call'[t])
    BY <2>1, AfterRests, RestFrame
  <2>3. Booked => Booked'
    BY <2>1, <2>2 DEF Booked, RecordedIn
  <2> QED
    BY <2>1, <2>3 DEF BookStep, Applied
<1>4. ASSUME NEW p \in PayIds, NEW status, ProviderSettles(p, status)
      PROVE  BookStep
  BY <1>1, <1>4 DEF ProviderSettles, db, env
<1>5. CASE Tick
  BY <1>1, <1>5 DEF Tick, db
<1> QED
  BY <1>2, <1>3, <1>4, <1>5 DEF Environment

\* While no payment has two handlers it is booked at most once, and without a
\* fault or a new release a recorded payment is booked or about to be.
LEMMA BookNext ==
  ASSUME Inv, [Next]_vars
  PROVE  BookStep
<1>1. CASE UNCHANGED vars
  BY <1>1 DEF vars, BookStep, Booked, BookedFrame, Applied, WillBook, RecordedIn
<1>2. ASSUME NEW t \in Threads, Serve(t)
      PROVE  BookStep
  BY <1>2, CheckoutBook, ApplyBook, CancelBook, WebhookBook, SyncBook DEF Serve, Procs
<1>3. CASE RenewDue
  BY <1>3, RenewBook
<1>4. CASE Environment
  BY <1>4, AroundBook
<1> QED
  BY <1>1, <1>2, <1>3, <1>4 DEF Next

LEMMA BookInit ==
  ASSUME Init
  PROVE  Booked /\ Applied
<1>1. \A t \in Procs : call[t].pc = "idle"
  BY DEF Init, Idle
<1> QED
  BY <1>1 DEF Init, Booked, BookedFrame, Applied, RecordedIn, Applies, Decides

-----------------------------------------------------------------------------
\* AppliedAtMostOnce for every number of owners, goroutines and payments: while
\* no two goroutines handle the same payment at the same time, webhooks, syncs,
\* renewals, repeats, aborted handlers and redeployments never book it twice
\* (HandleYooKassaWebhook returns early on a succeeded row).
THEOREM BookedOnce == Spec /\ []OneHandler => []AppliedAtMostOnce
<1>1. Init => Booked
  BY BookInit
<1>2. Inv /\ Booked /\ OneHandler /\ [Next]_vars => Booked'
  BY BookNext DEF BookStep
<1>3. Booked => AppliedAtMostOnce
  BY DEF Booked, AppliedAtMostOnce
<1>4. Spec => []Inv
  BY InvHolds
<1> QED
  BY <1>1, <1>2, <1>3, <1>4, PTL DEF Spec

\* SucceededIsApplied without a fault or a new release, however many goroutines
\* overlap on a payment: UpdatePayment comes before applyVerifiedPayment, and the
\* frame that has updated the row goes on to book it.
THEOREM RecordedIsApplied == Spec => []SucceededIsApplied
<1>1. Init => Applied
  BY BookInit
<1>2. Inv /\ Applied /\ [Next]_vars => Applied'
  BY BookNext DEF BookStep
<1>3. Inv /\ Applied => SucceededIsApplied
  BY DEF Inv, TypeOK, Applied, SucceededIsApplied, Recorded, RecordedIn, InFlight, WillBook,
         Applies
<1>4. Spec => []Inv
  BY InvHolds
<1> QED
  BY <1>1, <1>2, <1>3, <1>4, PTL DEF Spec
=============================================================================
