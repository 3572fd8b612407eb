--------------------------- MODULE DeliveryProofs ---------------------------
(***************************************************************************)
(* What holds of NotificationDelivery for any set of alerts and            *)
(* portfolios, any cooldown and batch size, and any number of faults.      *)
(*                                                                         *)
(* The ledger, the stream, the table and the pushes are written one at a   *)
(* time, so each property is paid for in the frame that lies between two   *)
(* writes: a frame about to mark an alert has written it (WrittenFirst),   *)
(* a payload restored from the ledger needs a row that some fault left     *)
(* behind (FullWithoutFault), and a push that was not marked is a repeat   *)
(* still to come, which a fault has paid for (RepeatsPaid).  The bot's     *)
(* inbox follows, with a preface of its own.                               *)
(***************************************************************************)
EXTENDS MCNotifier, FiniteSetTheorems, TLAPS

Loops == {"none", "scan", "bus", "telegram"}
Steps == {"idle", "next", "publish", "direct", "mark", "push", "confirm"}

\* The step a for statement of the notifier can be in.
StepsOf(loop) ==
  CASE loop = "none"     -> {"idle"}
    [] loop = "scan"     -> Steps \ {"idle"}
    [] loop = "bus"      -> {"next", "publish", "direct", "mark"}
    [] loop = "telegram" -> {"next", "push", "confirm"}

Frame == [loop : Loops, pc : Steps, listed : SUBSET Portfolios, left : SUBSET Portfolios,
          todo : SUBSET Alerts, alert : Alerts \cup {NoAlert}, bus : BOOLEAN]

FrameOK ==
  /\ notifier \in Frame
  /\ notifier.pc \in StepsOf(notifier.loop)
  /\ notifier.pc \notin {"idle", "next"} => notifier.alert \in Alerts

LedgerRow == [known : BOOLEAN, bus : BOOLEAN, tg : Nat \cup {NoTime}]
InboxRow  == [shown : BOOLEAN, full : BOOLEAN, read : BOOLEAN, dismissed : BOOLEAN]
Message   == [alert : Alerts, full : BOOLEAN]

Stored ==
  /\ ledger \in [Alerts -> LedgerRow]
  /\ stream \in Seq(Message)
  /\ inbox \in [Alerts -> InboxRow]

\* The entries the consumer holds are entries of the stream.
ConsumerOK ==
  /\ group \in [last : 0 .. Len(stream), pending : SUBSET Nat]
  /\ api \in [running : BOOLEAN, batch : Seq(1 .. Len(stream))]

Counted ==
  /\ now \in Nat /\ repeats \in Nat /\ faults \in Nat
  /\ pushed \in [Alerts -> Nat \cup {NoTime}]

TypeOK ==
  /\ active \subseteq Alerts /\ attached \subseteq Portfolios
  /\ FrameOK /\ Stored /\ ConsumerOK /\ Counted

\* The alert is in the stream or in the table: neither ever gives it back.
Arrived(a) == inbox[a].shown \/ \E i \in 1 .. Len(stream) : stream[i].alert = a

WrittenFirst ==
  /\ \A a \in Alerts : ledger[a].bus => Arrived(a)
  /\ notifier.pc = "mark" => Arrived(notifier.alert)

\* As long as nothing has failed, an unpublished row belongs to the alert at hand,
\* so the loop over unpublished rows finds none.
Publishing(a) ==
  /\ notifier.loop = "scan" /\ notifier.pc \in {"publish", "direct", "mark"}
  /\ notifier.alert = a

FullWithoutFault ==
  faults = 0 =>
    /\ \A a \in Alerts : PendingBus(ledger[a]) => Publishing(a)
    /\ notifier.loop = "bus" => notifier.pc = "next" /\ notifier.todo = {}
    /\ \A i \in 1 .. Len(stream) : stream[i].full
    /\ \A a \in Alerts : inbox[a].shown => inbox[a].full

\* Alerts whose last push the ledger does not know of: the next push of them may
\* come within the cooldown.
Confirming(a) == notifier.pc = "confirm" /\ notifier.alert = a

Unmarked ==
  {a \in Alerts : /\ pushed[a] # NoTime
                  /\ ledger[a].tg = NoTime \/ ledger[a].tg < pushed[a]
                  /\ ~Confirming(a)}

RepeatsPaid ==
  /\ \A a \in Alerts : pushed[a] # NoTime => pushed[a] <= now
  /\ IsFiniteSet(Unmarked)
  /\ repeats + Cardinality(Unmarked) <= faults

IInv == TypeOK /\ WrittenFirst /\ FullWithoutFault /\ RepeatsPaid

-----------------------------------------------------------------------------
LEMMA InitIInv == Init => IInv
<1> SUFFICES ASSUME Init PROVE IInv
  OBVIOUS
<1> USE DeliveryAssumption
<1>1. FrameOK
  <2>1. PICK bus \in BOOLEAN : notifier = Asleep(bus)
    BY DEF Init
  <2> QED
    BY <2>1 DEF FrameOK, Frame, Loops, Steps, StepsOf, Asleep
<1>2. Stored /\ ConsumerOK /\ Counted /\ active \subseteq Alerts /\ attached \subseteq Portfolios
  <2>1. Stored /\ Counted /\ active \subseteq Alerts /\ attached \subseteq Portfolios
    BY DEF Init, Stored, LedgerRow, InboxRow, Counted
  <2>2. ConsumerOK
    BY DEF Init, ConsumerOK
  <2> QED
    BY <2>1, <2>2
<1>3. WrittenFirst /\ FullWithoutFault
  BY DEF Init, Asleep, WrittenFirst, FullWithoutFault, PendingBus
<1>4. Unmarked = {}
  BY DEF Init, Unmarked
<1>5. RepeatsPaid
  BY <1>4, FS_EmptySet DEF Init, RepeatsPaid
<1> QED
  BY <1>1, <1>2, <1>3, <1>5 DEF IInv, TypeOK

-----------------------------------------------------------------------------
(* Types. *)

LEMMA FrameMoves ==
  ASSUME FrameOK
  PROVE  /\ NextAlert(notifier) \in Frame /\ NextAlert(notifier).pc = "next"
         /\ AfterFailedWrite(notifier) \in Frame /\ AfterFailedWrite(notifier).pc = "next"
         /\ AfterWrite(notifier) \in Frame /\ AfterWrite(notifier).pc = "mark"
         /\ AfterPublish(notifier) \in Frame
         /\ AfterPublish(notifier).pc = IF notifier.loop = "scan" THEN "push" ELSE "next"
         /\ \A n \in {NextAlert(notifier), AfterFailedWrite(notifier), AfterWrite(notifier),
                       AfterPublish(notifier)} : n.loop = notifier.loop
         /\ AfterWrite(notifier).alert = notifier.alert
         /\ notifier.loop = "scan" => AfterPublish(notifier).alert = notifier.alert
BY DEF FrameOK, Frame, Steps, NextAlert, AfterFailedWrite, AfterWrite, AfterPublish

LEMMA StreamGrows ==
  ASSUME Stored, NEW a \in Alerts, NEW full \in BOOLEAN
  PROVE  LET added == Append(stream, [alert |-> a, full |-> full])
         IN  /\ added \in Seq(Message)
             /\ Len(added) = Len(stream) + 1
             /\ added[Len(added)] = [alert |-> a, full |-> full]
             /\ \A i \in 1 .. Len(stream) : added[i] = stream[i]
BY DEF Stored, Message

\* The writes of the ledger and of the table.
LEMMA RowsKeepType ==
  ASSUME Stored, NEW a \in Alerts
  PROVE  /\ [ledger EXCEPT ![a].known = TRUE] \in [Alerts -> LedgerRow]
         /\ [ledger EXCEPT ![a].bus = TRUE] \in [Alerts -> LedgerRow]
         /\ now \in Nat => [ledger EXCEPT ![a] = TelegramSent(@)] \in [Alerts -> LedgerRow]
         /\ \A full \in BOOLEAN :
              [inbox EXCEPT ![a] = UpsertedRow(@, full)] \in [Alerts -> InboxRow]
         /\ [inbox EXCEPT ![a].read = TRUE] \in [Alerts -> InboxRow]
         /\ [inbox EXCEPT ![a].dismissed = TRUE] \in [Alerts -> InboxRow]
<1> USE DEF Stored
<1>1. ledger[a] \in LedgerRow /\ inbox[a] \in InboxRow
  OBVIOUS
<1>2. /\ [ledger[a] EXCEPT !.known = TRUE] \in LedgerRow
      /\ [ledger[a] EXCEPT !.bus = TRUE] \in LedgerRow
      /\ now \in Nat => TelegramSent(ledger[a]) \in LedgerRow
  BY <1>1 DEF LedgerRow, TelegramSent
<1>3. /\ \A full \in BOOLEAN : UpsertedRow(inbox[a], full) \in InboxRow
      /\ [inbox[a] EXCEPT !.read = TRUE] \in InboxRow
      /\ [inbox[a] EXCEPT !.dismissed = TRUE] \in InboxRow
  BY <1>1 DEF InboxRow, UpsertedRow
<1> QED
  BY <1>2, <1>3

\* publishBus begins: the frame is n, an alert in hand.
LEMMA HeadKeepsType ==
  ASSUME NEW n, n \in Frame, n.loop \in {"scan", "bus"}, n.alert \in Alerts,
         notifier' = AfterPublish(n) \/ notifier' = [n EXCEPT !.pc = "publish"]
  PROVE  FrameOK'
<1>s. /\ {"push", "publish"} \subseteq StepsOf("scan")
      /\ {"next", "publish"} \subseteq StepsOf("bus")
  BY DEF StepsOf, Steps
<1>1. CASE n.loop = "scan" /\ notifier' = AfterPublish(n)
  <2>1. notifier' = [n EXCEPT !.pc = "push"]
    BY <1>1 DEF AfterPublish
  <2>2. notifier' \in Frame /\ notifier'.pc = "push" /\ notifier'.loop = "scan"
        /\ notifier'.alert = n.alert
    BY <1>1, <2>1 DEF Frame, Steps
  <2> QED
    BY <1>s, <2>2 DEF FrameOK
<1>2. CASE n.loop # "scan" /\ notifier' = AfterPublish(n)
  <2>1. notifier' = [n EXCEPT !.pc = "next", !.alert = NoAlert]
    BY <1>2 DEF AfterPublish, NextAlert
  <2>2. notifier' \in Frame /\ notifier'.pc = "next" /\ notifier'.loop = "bus"
    BY <1>2, <2>1 DEF Frame, Steps
  <2> QED
    BY <1>s, <2>2 DEF FrameOK
<1>3. CASE notifier' = [n EXCEPT !.pc = "publish"]
  <2>1. notifier' \in Frame /\ notifier'.pc = "publish" /\ notifier'.loop = n.loop
        /\ notifier'.alert = n.alert
    BY <1>3 DEF Frame, Steps
  <2> QED
    BY <1>s, <2>1 DEF FrameOK
<1> QED
  BY <1>1, <1>2, <1>3

LEMMA TypeStep == TypeOK /\ [Next]_vars => TypeOK'
<1> SUFFICES ASSUME TypeOK, [Next]_vars PROVE TypeOK'
  OBVIOUS
<1> USE DeliveryAssumption
<1>0. FrameOK /\ Stored /\ ConsumerOK /\ Counted /\ active \subseteq Alerts
        /\ attached \subseteq Portfolios
  BY DEF TypeOK
<1>u. ASSUME UNCHANGED user PROVE active' \subseteq Alerts /\ attached' \subseteq Portfolios
  BY <1>u, <1>0 DEF user
<1>1. CASE ScanBegin
  <2>1. FrameOK'
    BY <1>0, <1>1 DEF ScanBegin, FrameOK, Frame, Loops, Steps, StepsOf
  <2> QED
    BY <2>1, <1>0, <1>1, <1>u DEF ScanBegin, stores, TypeOK, Stored, ConsumerOK, Counted
<1>2. ASSUME NEW p \in Portfolios, ScanPortfolio(p) PROVE TypeOK'
  <2>1. PICK found \in SUBSET Alerts :
          notifier' = [notifier EXCEPT !.left = @ \ {p}, !.todo = found]
    BY <1>0, <1>2 DEF ScanPortfolio
  <2>2. FrameOK'
    BY <1>0, <1>2, <2>1 DEF ScanPortfolio, FrameOK, Frame, StepsOf
  <2> QED
    BY <2>2, <1>0, <1>2, <1>u DEF ScanPortfolio, stores, TypeOK, Stored, ConsumerOK, Counted
<1>3. ASSUME NEW a \in Alerts, Detect(a) PROVE TypeOK'
  <2>1. FrameOK'
    <3>1. CASE PublishUnlessDone([notifier EXCEPT !.alert = a, !.todo = @ \ {a}])
      <4> DEFINE n == [notifier EXCEPT !.alert = a, !.todo = @ \ {a}]
      <4>1. n \in Frame /\ n.loop \in {"scan", "bus"} /\ n.alert \in Alerts
        BY <1>0, <1>3 DEF Detect, FrameOK, Frame
      <4>2. notifier' = AfterPublish(n) \/ notifier' = [n EXCEPT !.pc = "publish"]
        BY <3>1 DEF PublishUnlessDone
      <4> QED
        BY <4>1, <4>2, HeadKeepsType
    <3>2. CASE notifier' = AfterFailedWrite(notifier)
      BY <1>0, <1>3, <3>2, FrameMoves DEF Detect, FrameOK, StepsOf
    <3> QED
      BY <1>3, <3>1, <3>2 DEF Detect
  <2>2. Stored'
    <3>1. ledger' = ledger \/ ledger' = [ledger EXCEPT ![a].known = TRUE]
      BY <1>3 DEF Detect
    <3>a. [ledger EXCEPT ![a].known = TRUE] \in [Alerts -> LedgerRow]
      BY <1>0, RowsKeepType
    <3>2. ledger' \in [Alerts -> LedgerRow]
      BY <1>0, <3>1, <3>a DEF Stored
    <3> QED
      BY <1>0, <1>3, <3>2 DEF Detect, Stored
  <2>3. Counted'
    BY <1>0, <1>3 DEF Detect, PublishUnlessDone, Fault, Counted
  <2> QED
    BY <2>1, <2>2, <2>3, <1>0, <1>3, <1>u DEF Detect, TypeOK, ConsumerOK
<1>4. CASE PublishBus
  <2>1. notifier.alert \in Alerts /\ FullPayload(notifier) \in BOOLEAN
    BY <1>0, <1>4 DEF PublishBus, FrameOK, FullPayload
  <2> DEFINE added == Append(stream, [alert |-> notifier.alert, full |-> FullPayload(notifier)])
  <2>2. stream' = stream \/ stream' = added
    BY <1>4 DEF PublishBus
  <2>3. notifier' = AfterWrite(notifier) \/ notifier' = [notifier EXCEPT !.pc = "direct"]
    BY <1>4 DEF PublishBus
  <2>4. FrameOK'
    BY <1>0, <1>4, <2>1, <2>3 DEF PublishBus, AfterWrite, FrameOK, Frame, Steps, Loops, StepsOf
  <2>5. stream' \in Seq(Message) /\ Len(stream') \in Nat /\ Len(stream') >= Len(stream)
    <3>1. added \in Seq(Message) /\ Len(added) = Len(stream) + 1
      BY <1>0, <2>1, StreamGrows
    <3> QED
      BY <1>0, <2>2, <3>1 DEF Stored
  <2>6. Stored' /\ ConsumerOK'
    BY <1>0, <1>4, <2>5 DEF PublishBus, Stored, ConsumerOK
  <2>7. Counted'
    BY <1>0, <1>4 DEF PublishBus, Fault, Counted
  <2> QED
    BY <2>4, <2>6, <2>7, <1>4, <1>u DEF PublishBus, TypeOK
<1>5. CASE PublishDirect
  <2>1. notifier.alert \in Alerts /\ FullPayload(notifier) \in BOOLEAN
    BY <1>0, <1>5 DEF PublishDirect, FrameOK, FullPayload
  <2>2. notifier' = AfterWrite(notifier) \/ notifier' = AfterFailedWrite(notifier)
    BY <1>5 DEF PublishDirect
  <2>3. FrameOK'
    BY <1>0, <1>5, <2>1, <2>2, FrameMoves DEF PublishDirect, FrameOK, Frame, Loops, Steps, StepsOf
  <2>4. Stored'
    <3>1. \/ inbox' = inbox
          \/ inbox' = [inbox EXCEPT ![notifier.alert] = UpsertedRow(@, FullPayload(notifier))]
      BY <1>5 DEF PublishDirect, UpsertFromBus
    <3>a. [inbox EXCEPT ![notifier.alert] = UpsertedRow(@, FullPayload(notifier))]
            \in [Alerts -> InboxRow]
      BY <1>0, <2>1, RowsKeepType
    <3>2. inbox' \in [Alerts -> InboxRow]
      BY <1>0, <3>1, <3>a DEF Stored
    <3> QED
      BY <1>0, <1>5, <3>2 DEF PublishDirect, Stored
  <2>5. Counted'
    BY <1>0, <1>5 DEF PublishDirect, Fault, Counted
  <2> QED
    BY <2>3, <2>4, <2>5, <1>0, <1>5, <1>u DEF PublishDirect, TypeOK, ConsumerOK
<1>6. CASE MarkBusPublished
  <2>1. FrameOK'
    BY <1>0, <1>6, FrameMoves DEF MarkBusPublished, FrameOK, Frame, Loops, StepsOf, Steps
  <2>a. notifier.alert \in Alerts
    BY <1>0, <1>6 DEF MarkBusPublished, FrameOK
  <2>2. Stored'
    <3>1. ledger' = ledger \/ ledger' = [ledger EXCEPT ![notifier.alert].bus = TRUE]
      BY <1>6 DEF MarkBusPublished
    <3>a. [ledger EXCEPT ![notifier.alert].bus = TRUE] \in [Alerts -> LedgerRow]
      BY <1>0, <2>a, RowsKeepType
    <3>2. ledger' \in [Alerts -> LedgerRow]
      BY <1>0, <3>1, <3>a DEF Stored
    <3> QED
      BY <1>0, <1>6, <3>2 DEF MarkBusPublished, Stored
  <2>3. Counted'
    BY <1>0, <1>6 DEF MarkBusPublished, Fault, Counted
  <2> QED
    BY <2>1, <2>2, <2>3, <1>0, <1>6, <1>u DEF MarkBusPublished, TypeOK, ConsumerOK
<1>7. CASE PushSkip
  <2>1. FrameOK'
    BY <1>0, <1>7, FrameMoves DEF PushSkip, FrameOK, Frame, Loops, StepsOf, Steps
  <2> QED
    BY <2>1, <1>0, <1>7, <1>u DEF PushSkip, stores, TypeOK, Stored, ConsumerOK, Counted
<1>8. CASE Push
  <2>1. notifier.alert \in Alerts
    BY <1>0, <1>8 DEF Push, FrameOK
  <2>2. notifier' = NextAlert(notifier) \/ notifier' = [notifier EXCEPT !.pc = "confirm"]
    BY <1>8 DEF Push
  <2>3. FrameOK'
    BY <1>0, <1>8, <2>1, <2>2, FrameMoves DEF Push, FrameOK, Frame, Loops, Steps, StepsOf
  <2>4. /\ pushed' = pushed \/ pushed' = [pushed EXCEPT ![notifier.alert] = now]
        /\ repeats' = repeats \/ repeats' = repeats + 1 \/ repeats' = repeats + 0
        /\ faults' = faults \/ faults' = faults + 1
    BY <1>8 DEF Push, Deliver, Fault
  <2>5. Counted'
    BY <1>0, <1>8, <2>4 DEF Push, Counted
  <2> QED
    BY <2>3, <2>5, <1>0, <1>8, <1>u DEF Push, stores, TypeOK, Stored, ConsumerOK
<1>9. CASE MarkTelegramSent
  <2>1. FrameOK'
    BY <1>0, <1>9, FrameMoves DEF MarkTelegramSent, FrameOK, Frame, Loops, StepsOf, Steps
  <2>a. notifier.alert \in Alerts /\ now \in Nat
    BY <1>0, <1>9 DEF MarkTelegramSent, FrameOK, Counted
  <2>2. Stored'
    <3>1. ledger' = ledger \/ ledger' = [ledger EXCEPT ![notifier.alert] = TelegramSent(@)]
      BY <1>9 DEF MarkTelegramSent
    <3>a. [ledger EXCEPT ![notifier.alert] = TelegramSent(@)] \in [Alerts -> LedgerRow]
      BY <1>0, <2>a, RowsKeepType
    <3>2. ledger' \in [Alerts -> LedgerRow]
      BY <1>0, <3>1, <3>a DEF Stored
    <3> QED
      BY <1>0, <1>9, <3>2 DEF MarkTelegramSent, Stored
  <2>3. Counted'
    BY <1>0, <1>9 DEF MarkTelegramSent, Fault, Counted
  <2> QED
    BY <2>1, <2>2, <2>3, <1>0, <1>9, <1>u DEF MarkTelegramSent, TypeOK, ConsumerOK
<1>10. CASE RetryList
  <2>1. ASSUME NEW l \in {"bus", "telegram"}, NEW S \in SUBSET Alerts,
               notifier' = [notifier EXCEPT !.loop = l, !.todo = S]
        PROVE  FrameOK'
    BY <1>0, <1>10, <2>1 DEF RetryList, FrameOK, Frame, Loops, StepsOf
  <2>2. ASSUME notifier' = Asleep(notifier.bus) PROVE FrameOK'
    BY <1>0, <2>2 DEF Asleep, FrameOK, Frame, Loops, StepsOf, Steps
  <2>3. FrameOK'
    <3> DEFINE B == {a \in Alerts : PendingBus(ledger[a])}
               T == {a \in Alerts : PendingTelegram(ledger[a])}
    <3>1. B \in SUBSET Alerts /\ T \in SUBSET Alerts
      OBVIOUS
    <3>2. \/ notifier' = [notifier EXCEPT !.loop = "bus", !.todo = B]
          \/ notifier' = [notifier EXCEPT !.loop = "telegram", !.todo = T]
          \/ notifier' = Asleep(notifier.bus)
      BY <1>10 DEF RetryList
    <3> HIDE DEF B, T
    <3> QED
      BY <2>1, <2>2, <3>1, <3>2
  <2> QED
    BY <2>3, <1>0, <1>10, <1>u DEF RetryList, stores, TypeOK, Stored, ConsumerOK, Counted
<1>11. ASSUME NEW a \in Alerts, RetryBus(a) PROVE TypeOK'
  <2>1. FrameOK'
    <3> DEFINE n == [notifier EXCEPT !.alert = a, !.todo = @ \ {a}]
    <3>1. n \in Frame /\ n.loop \in {"scan", "bus"} /\ n.alert \in Alerts
      BY <1>0, <1>11 DEF RetryBus, FrameOK, Frame
    <3>2. notifier' = AfterPublish(n) \/ notifier' = [n EXCEPT !.pc = "publish"]
      BY <1>11 DEF RetryBus, PublishUnlessDone
    <3> QED
      BY <3>1, <3>2, HeadKeepsType
  <2>2. Counted'
    BY <1>0, <1>11 DEF RetryBus, PublishUnlessDone, Fault, Counted
  <2> QED
    BY <2>1, <2>2, <1>0, <1>11, <1>u DEF RetryBus, stores, TypeOK, Stored, ConsumerOK
<1>12. ASSUME NEW a \in Alerts, RetryTelegram(a) PROVE TypeOK'
  <2>1. FrameOK'
    BY <1>0, <1>12 DEF RetryTelegram, FrameOK, Frame, Loops, StepsOf, Steps
  <2> QED
    BY <2>1, <1>0, <1>12, <1>u DEF RetryTelegram, stores, TypeOK, Stored, ConsumerOK, Counted
<1>13. CASE NotifierRestart
  <2>1. FrameOK'
    BY <1>0, <1>13 DEF NotifierRestart, Asleep, FrameOK, Frame, Loops, StepsOf, Steps
  <2>2. Counted'
    BY <1>0, <1>13 DEF NotifierRestart, Fault, Counted
  <2> QED
    BY <2>1, <2>2, <1>0, <1>13, <1>u DEF NotifierRestart, stores, TypeOK, Stored, ConsumerOK
<1>14. CASE ReadGroup
  <2> DEFINE end == IF group.last + BatchSize < Len(stream) THEN group.last + BatchSize
                                                            ELSE Len(stream)
  <2>1. end \in group.last .. Len(stream)
    BY <1>0, <1>14 DEF ReadGroup, ConsumerOK, Stored
  <2>3. Len(stream) \in Nat /\ group.last \in 0 .. Len(stream) /\ group.pending \subseteq Nat
    BY <1>0 DEF ConsumerOK, Stored
  <2>4. group' \in [last : 0 .. Len(stream), pending : SUBSET Nat]
    BY <1>14, <2>1, <2>3 DEF ReadGroup
  <2>5. [i \in 1 .. end - group.last |-> group.last + i] \in Seq(1 .. Len(stream))
    <3>1. end - group.last \in Nat
      BY <2>1, <2>3
    <3>2. \A i \in 1 .. end - group.last : group.last + i \in 1 .. Len(stream)
      BY <2>1, <2>3
    <3> QED
      BY <3>1, <3>2
  <2>6. api' \in [running : BOOLEAN, batch : Seq(1 .. Len(stream))]
    BY <1>0, <1>14, <2>5 DEF ReadGroup, ConsumerOK
  <2>7. ConsumerOK'
    BY <1>14, <2>4, <2>6 DEF ReadGroup, stores, ConsumerOK
  <2> QED
    BY <2>7, <1>0, <1>14, <1>u DEF ReadGroup, stores, TypeOK, FrameOK, Stored, Counted
<1>15. CASE Consume
  <2> DEFINE i == Head(api.batch)
  <2>1. i \in 1 .. Len(stream) /\ Tail(api.batch) \in Seq(1 .. Len(stream))
    BY <1>0, <1>15 DEF Consume, ConsumerOK
  <2>2. stream[i].alert \in Alerts /\ stream[i].full \in BOOLEAN
    <3>1. stream[i] \in Message
      BY <1>0, <2>1 DEF Stored
    <3> QED
      BY <3>1 DEF Message
  <2>3. inbox' = inbox \/ inbox' = [inbox EXCEPT ![stream[i].alert] =
                                      UpsertedRow(@, stream[i].full)]
    BY <1>15 DEF Consume, UpsertFromBus
  <2>4. Stored'
    <3>a. [inbox EXCEPT ![stream[i].alert] = UpsertedRow(@, stream[i].full)]
            \in [Alerts -> InboxRow]
      BY <1>0, <2>2, RowsKeepType
    <3>1. inbox' \in [Alerts -> InboxRow]
      BY <1>0, <2>3, <3>a DEF Stored
    <3> QED
      BY <1>0, <1>15, <3>1 DEF Consume, Stored
  <2>5. /\ group' \in [last : 0 .. Len(stream), pending : SUBSET Nat]
        /\ api' \in [running : BOOLEAN, batch : Seq(1 .. Len(stream))]
    BY <1>0, <1>15, <2>1 DEF Consume, ConsumerOK
  <2>6. ConsumerOK'
    BY <1>15, <2>5 DEF Consume, ConsumerOK
  <2> QED
    BY <2>4, <2>6, <1>0, <1>15, <1>u DEF Consume, TypeOK, FrameOK, Counted
<1>16. CASE ApiRestart
  <2>1. api'.batch = <<>>
    BY <1>16 DEF ApiRestart
  <2>2. ConsumerOK'
    BY <1>0, <1>16, <2>1 DEF ApiRestart, stores, ConsumerOK
  <2> QED
    BY <2>2, <1>0, <1>16, <1>u DEF ApiRestart, stores, TypeOK, FrameOK, Stored, Counted
<1>17. ASSUME NEW a \in Alerts, MarkRead(a) \/ Dismiss(a) PROVE TypeOK'
  <2>1. Stored'
    <3>1. \/ inbox' = [inbox EXCEPT ![a].read = TRUE]
          \/ inbox' = [inbox EXCEPT ![a].dismissed = TRUE]
      BY <1>17 DEF MarkRead, Dismiss
    <3>a. /\ [inbox EXCEPT ![a].read = TRUE] \in [Alerts -> InboxRow]
          /\ [inbox EXCEPT ![a].dismissed = TRUE] \in [Alerts -> InboxRow]
      BY <1>0, RowsKeepType
    <3>2. inbox' \in [Alerts -> InboxRow]
      BY <3>1, <3>a
    <3> QED
      BY <1>0, <1>17, <3>2 DEF MarkRead, Dismiss, Stored
  <2> QED
    BY <2>1, <1>0, <1>17, <1>u DEF MarkRead, Dismiss, TypeOK, FrameOK, ConsumerOK, Counted
<1>18. CASE \/ \E a \in Alerts : AlertComesOrGoes(a)
            \/ \E p \in Portfolios : AttachOrDetach(p)
            \/ SubscribeOrLapse \/ Tick
  BY <1>0, <1>18 DEF AlertComesOrGoes, AttachOrDetach, SubscribeOrLapse, Tick, user, stores,
       TypeOK, FrameOK, Stored, ConsumerOK, Counted
<1>19. CASE UNCHANGED vars
  BY <1>0, <1>19 DEF vars, user, stores, TypeOK, FrameOK, Stored, ConsumerOK, Counted
<1> QED
  BY <1>1, <1>2, <1>3, <1>4, <1>5, <1>6, <1>7, <1>8, <1>9, <1>10, <1>11, <1>12, <1>13,
     <1>14, <1>15, <1>16, <1>17, <1>18, <1>19 DEF Next, Run, Consumer, World

-----------------------------------------------------------------------------
(* What a step can change, store by store. *)

LEMMA LedgerMoves ==
  ASSUME TypeOK, [Next]_vars, NEW a \in Alerts
  PROVE  /\ ledger'[a].known = ledger[a].known \/ Detect(a)
         /\ \/ ledger'[a].bus = ledger[a].bus
            \/ MarkBusPublished /\ a = notifier.alert
         /\ \/ ledger'[a].tg = ledger[a].tg
            \/ MarkTelegramSent /\ a = notifier.alert /\ ledger'[a].tg = now
<1>0. ledger \in [Alerts -> LedgerRow] /\ FrameOK
  BY DEF TypeOK, Stored
<1>1. \A b \in Alerts : ledger[b] \in LedgerRow
  BY <1>0
<1>2. CASE UNCHANGED ledger
  BY <1>2
<1>3. ASSUME NEW b \in Alerts, Detect(b) PROVE
        /\ ledger'[a].known = ledger[a].known \/ a = b
        /\ ledger'[a].bus = ledger[a].bus /\ ledger'[a].tg = ledger[a].tg
  <2>1. ledger' = ledger \/ ledger' = [ledger EXCEPT ![b].known = TRUE]
    BY <1>3 DEF Detect
  <2> QED
    BY <2>1, <1>0, <1>1 DEF LedgerRow
<1>4. CASE MarkBusPublished
  <2>1. ledger' = ledger \/ ledger' = [ledger EXCEPT ![notifier.alert].bus = TRUE]
    BY <1>4 DEF MarkBusPublished
  <2>2. notifier.alert \in Alerts
    BY <1>0, <1>4 DEF MarkBusPublished, FrameOK
  <2> QED
    BY <2>1, <2>2, <1>0, <1>1, <1>4 DEF LedgerRow
<1>5. CASE MarkTelegramSent
  <2>1. ledger' = ledger \/ ledger' = [ledger EXCEPT ![notifier.alert] = TelegramSent(@)]
    BY <1>5 DEF MarkTelegramSent
  <2>2. notifier.alert \in Alerts
    BY <1>0, <1>5 DEF MarkTelegramSent, FrameOK
  <2> QED
    BY <2>1, <2>2, <1>0, <1>1, <1>5 DEF LedgerRow, TelegramSent
<1>6. UNCHANGED ledger \/ (\E b \in Alerts : Detect(b)) \/ MarkBusPublished \/ MarkTelegramSent
  BY DEF Next, Run, Consumer, World, vars, stores, ScanBegin, ScanPortfolio, PublishBus,
     PublishDirect, PushSkip, Push, RetryList, RetryBus, RetryTelegram, NotifierRestart,
     ReadGroup, Consume, ApiRestart, MarkRead, Dismiss, AlertComesOrGoes, AttachOrDetach,
     SubscribeOrLapse, Tick
<1> QED
  BY <1>2, <1>3, <1>4, <1>5, <1>6

\* The table: a row once shown stays shown, and only UpsertFromBus writes a payload.
LEMMA InboxMoves ==
  ASSUME TypeOK, [Next]_vars, NEW a \in Alerts
  PROVE  /\ inbox[a].shown => inbox'[a].shown
         /\ \/ inbox'[a].shown = inbox[a].shown /\ inbox'[a].full = inbox[a].full
            \/ PublishDirect /\ a = notifier.alert /\ inbox'[a].full = FullPayload(notifier)
            \/ /\ Consume
               /\ \E i \in 1 .. Len(stream) : inbox'[a].full = stream[i].full
<1>0. inbox \in [Alerts -> InboxRow] /\ FrameOK /\ ConsumerOK /\ stream \in Seq(Message)
  BY DEF TypeOK, Stored
<1>1. \A b \in Alerts : inbox[b] \in InboxRow
  BY <1>0
<1>2. CASE UNCHANGED inbox
  BY <1>2
<1>3. ASSUME NEW b \in Alerts, NEW full, inbox' = [inbox EXCEPT ![b] = UpsertedRow(@, full)]
      PROVE  /\ inbox[a].shown => inbox'[a].shown
             /\ a # b => inbox'[a] = inbox[a]
             /\ a = b => inbox'[a].full = full
  BY <1>0, <1>1, <1>3 DEF InboxRow, UpsertedRow
<1>4. CASE PublishDirect
  <2>1. notifier.alert \in Alerts
    BY <1>0, <1>4 DEF PublishDirect, FrameOK
  <2>2. \/ UNCHANGED inbox
        \/ inbox' = [inbox EXCEPT ![notifier.alert] = UpsertedRow(@, FullPayload(notifier))]
    BY <1>4 DEF PublishDirect, UpsertFromBus
  <2> QED
    BY <1>2, <1>3, <1>4, <2>1, <2>2
<1>5. CASE Consume
  <2> DEFINE i == Head(api.batch)
  <2>1. i \in 1 .. Len(stream)
    BY <1>0, <1>5 DEF Consume, ConsumerOK
  <2>2. stream[i].alert \in Alerts
    <3>1. stream[i] \in Message
      BY <1>0, <2>1
    <3> QED
      BY <3>1 DEF Message
  <2>3. UNCHANGED inbox \/ inbox' = [inbox EXCEPT ![stream[i].alert] =
                                      UpsertedRow(@, stream[i].full)]
    BY <1>5 DEF Consume, UpsertFromBus
  <2>4. UNCHANGED inbox
        \/ \E full : \E b \in Alerts : inbox' = [inbox EXCEPT ![b] = UpsertedRow(@, full)]
                                    /\ b = stream[i].alert /\ full = stream[i].full
    BY <2>2, <2>3
  <2> HIDE DEF i
  <2>5. ASSUME NEW b \in Alerts, NEW full, inbox' = [inbox EXCEPT ![b] = UpsertedRow(@, full)],
               b = stream[i].alert, full = stream[i].full
        PROVE  /\ inbox[a].shown => inbox'[a].shown
               /\ a # b => inbox'[a] = inbox[a]
               /\ a = b => inbox'[a].full = full
    BY <1>3, <2>5
  <2> QED
    BY <1>2, <1>5, <2>1, <2>4, <2>5
<1>6. ASSUME NEW b \in Alerts, MarkRead(b) \/ Dismiss(b)
      PROVE  inbox'[a].shown = inbox[a].shown /\ inbox'[a].full = inbox[a].full
  <2>1. \/ inbox' = [inbox EXCEPT ![b].read = TRUE]
        \/ inbox' = [inbox EXCEPT ![b].dismissed = TRUE]
    BY <1>6 DEF MarkRead, Dismiss
  <2> QED
    BY <2>1, <1>0, <1>1 DEF InboxRow
<1>7. UNCHANGED inbox \/ PublishDirect \/ Consume \/ \E b \in Alerts : MarkRead(b) \/ Dismiss(b)
  BY DEF Next, Run, Consumer, World, vars, stores, ScanBegin, ScanPortfolio, PublishBus,
     Detect, MarkBusPublished, PushSkip, Push, MarkTelegramSent, RetryList, RetryBus,
     RetryTelegram, NotifierRestart, ReadGroup, ApiRestart, AlertComesOrGoes, AttachOrDetach,
     SubscribeOrLapse, Tick
<1> QED
  BY <1>2, <1>4, <1>5, <1>6, <1>7

\* The stream only grows, by the payload at hand.
LEMMA StreamMoves ==
  ASSUME TypeOK, [Next]_vars
  PROVE  \/ UNCHANGED stream
         \/ /\ PublishBus
            /\ stream' = Append(stream, [alert |-> notifier.alert,
                                         full |-> FullPayload(notifier)])
BY DEF Next, Run, Consumer, World, vars, stores, ScanBegin, ScanPortfolio, PublishBus,
   PublishDirect, Detect, MarkBusPublished, PushSkip, Push, MarkTelegramSent, RetryList,
   RetryBus, RetryTelegram, NotifierRestart, ReadGroup, Consume, ApiRestart, MarkRead, Dismiss,
   AlertComesOrGoes, AttachOrDetach, SubscribeOrLapse, Tick

LEMMA ArrivedStays ==
  ASSUME TypeOK, [Next]_vars, NEW a \in Alerts, Arrived(a)
  PROVE  Arrived(a)'
<1>1. CASE inbox[a].shown
  BY <1>1, InboxMoves DEF Arrived
<1>2. ASSUME NEW i \in 1 .. Len(stream), stream[i].alert = a PROVE Arrived(a)'
  <2>1. CASE UNCHANGED stream
    BY <1>2, <2>1 DEF Arrived
  <2>2. CASE PublishBus /\ stream' = Append(stream, [alert |-> notifier.alert,
                                                     full |-> FullPayload(notifier)])
    <3>1. notifier.alert \in Alerts /\ FullPayload(notifier) \in BOOLEAN
      BY <2>2 DEF TypeOK, FrameOK, PublishBus, FullPayload
    <3>2. Len(stream') = Len(stream) + 1 /\ stream'[i] = stream[i] /\ Len(stream) \in Nat
      BY <2>2, <3>1, StreamGrows DEF TypeOK, Stored
    <3> QED
      BY <1>2, <3>2 DEF Arrived
  <2> QED
    BY <2>1, <2>2, StreamMoves
<1> QED
  BY <1>1, <1>2 DEF Arrived

\* Where the notifier's frame goes, and which step takes it there.
LEMMA FrameSteps ==
  ASSUME TypeOK, [Next]_vars
  PROVE  \/ UNCHANGED notifier
         \/ notifier'.pc \in {"idle", "next", "push"}
         \/ /\ notifier'.pc = "publish"
            /\ \E a \in Alerts : Detect(a) \/ RetryBus(a)
         \/ PublishBus \/ PublishDirect
         \/ Push /\ notifier'.pc = "confirm"
<1>0. FrameOK /\ notifier \in Frame
  BY DEF TypeOK, FrameOK
<1>1. ASSUME ScanBegin \/ RetryList \/ NotifierRestart
      PROVE  notifier'.pc \in {"idle", "next", "push"}
  <2>1. CASE ScanBegin
    BY <1>0, <2>1 DEF ScanBegin, Frame
  <2>3. \A bus : Asleep(bus).pc = "idle"
    BY DEF Asleep
  <2>4. CASE NotifierRestart
    BY <2>3, <2>4 DEF NotifierRestart
  <2>2. CASE RetryList
    <3> DEFINE B == {a \in Alerts : PendingBus(ledger[a])}
               T == {a \in Alerts : PendingTelegram(ledger[a])}
    <3>1. /\ notifier.pc = "next"
          /\ \/ notifier' = [notifier EXCEPT !.loop = "bus", !.todo = B]
             \/ notifier' = [notifier EXCEPT !.loop = "telegram", !.todo = T]
             \/ notifier' = Asleep(notifier.bus)
      BY <2>2 DEF RetryList
    <3> HIDE DEF B, T
    <3>2. /\ [notifier EXCEPT !.loop = "bus", !.todo = B].pc = notifier.pc
          /\ [notifier EXCEPT !.loop = "telegram", !.todo = T].pc = notifier.pc
      BY <1>0 DEF Frame
    <3> QED
      BY <2>3, <3>1, <3>2
  <2> QED
    BY <1>1, <2>1, <2>2, <2>4
<1>2. CASE \E p \in Portfolios : ScanPortfolio(p)
  BY <1>0, <1>2 DEF ScanPortfolio, Frame
<1>3. ASSUME NEW a \in Alerts, Detect(a) \/ RetryBus(a)
      PROVE  notifier'.pc \in {"next", "push", "publish"}
  <2> DEFINE n == [notifier EXCEPT !.alert = a, !.todo = @ \ {a}]
  <2>1. \/ notifier' = AfterPublish(n) \/ notifier' = [n EXCEPT !.pc = "publish"]
        \/ notifier' = AfterFailedWrite(notifier)
    BY <1>3 DEF Detect, RetryBus, PublishUnlessDone
  <2>2. n \in [loop : Loops, pc : Steps, listed : SUBSET Portfolios, left : SUBSET Portfolios,
               todo : SUBSET Alerts, alert : Alerts \cup {NoAlert}, bus : BOOLEAN]
    BY <1>0 DEF Frame
  <2>3. AfterPublish(n).pc \in {"next", "push"} /\ [n EXCEPT !.pc = "publish"].pc = "publish"
    BY <2>2 DEF AfterPublish, NextAlert
  <2>4. AfterFailedWrite(notifier).pc = "next"
    BY <1>0, FrameMoves
  <2> HIDE DEF n
  <2> QED
    BY <2>1, <2>3, <2>4
<1>4. CASE MarkBusPublished \/ PushSkip \/ MarkTelegramSent
  BY <1>0, <1>4, FrameMoves DEF MarkBusPublished, PushSkip, MarkTelegramSent
<1>5. CASE Push
  BY <1>0, <1>5, FrameMoves DEF Push, Frame
<1>6. CASE \E a \in Alerts : RetryTelegram(a)
  BY <1>0, <1>6 DEF RetryTelegram, Frame
<1>7. CASE \/ Consumer \/ UNCHANGED vars
           \/ \E a \in Alerts : MarkRead(a) \/ Dismiss(a) \/ AlertComesOrGoes(a)
           \/ \E p \in Portfolios : AttachOrDetach(p)
           \/ SubscribeOrLapse \/ Tick \/ ApiRestart
  BY <1>7 DEF Consumer, vars, ReadGroup, Consume, MarkRead, Dismiss, AlertComesOrGoes,
     AttachOrDetach, SubscribeOrLapse, Tick, ApiRestart
<1> QED
  BY <1>1, <1>2, <1>3, <1>4, <1>5, <1>6, <1>7 DEF Next, Run, World

-----------------------------------------------------------------------------
(* The mark never overtakes the write. *)

LEMMA WrittenStep == TypeOK /\ WrittenFirst /\ [Next]_vars => WrittenFirst'
<1> SUFFICES ASSUME TypeOK, WrittenFirst, [Next]_vars PROVE WrittenFirst'
  OBVIOUS
<1>0. FrameOK /\ Stored
  BY DEF TypeOK
<1>1. ASSUME NEW a \in Alerts, ledger'[a].bus PROVE Arrived(a)'
  <2>1. ledger[a].bus \/ (notifier.pc = "mark" /\ a = notifier.alert)
    BY <1>1, LedgerMoves DEF MarkBusPublished
  <2>2. Arrived(a)
    BY <2>1 DEF WrittenFirst
  <2> QED
    BY <2>2, ArrivedStays
<1>2. ASSUME notifier'.pc = "mark" PROVE Arrived(notifier.alert)'
  <2>1. CASE UNCHANGED notifier
    <3>1. notifier.alert \in Alerts /\ Arrived(notifier.alert)
      BY <1>0, <1>2, <2>1 DEF FrameOK, WrittenFirst
    <3>2. \A a \in Alerts : Arrived(a) => Arrived(a)'
      BY ArrivedStays
    <3> QED
      BY <2>1, <3>1, <3>2 DEF Arrived
  <2>2. CASE PublishBus
    <3>1. notifier.alert \in Alerts /\ FullPayload(notifier) \in BOOLEAN
      BY <1>0, <2>2 DEF FrameOK, PublishBus, FullPayload
    <3> DEFINE added == Append(stream, [alert |-> notifier.alert,
                                        full |-> FullPayload(notifier)])
    <3>2. notifier'.alert = notifier.alert /\ stream' = added
      <4>1. [notifier EXCEPT !.pc = "direct"].pc = "direct"
        BY <1>0 DEF FrameOK, Frame
      <4>2. \/ notifier' = AfterWrite(notifier) /\ stream' = added
            \/ notifier' = [notifier EXCEPT !.pc = "direct"]
        BY <2>2 DEF PublishBus
      <4>3. AfterWrite(notifier).alert = notifier.alert
        BY <1>0, FrameMoves
      <4> QED
        BY <1>2, <4>1, <4>2, <4>3
    <3>3. Len(added) \in 1 .. Len(added) /\ added[Len(added)].alert = notifier.alert
      BY <1>0, <3>1, StreamGrows DEF Stored
    <3> QED
      BY <3>2, <3>3 DEF Arrived
  <2>3. CASE PublishDirect
    <3>1. notifier.alert \in Alerts /\ inbox[notifier.alert] \in InboxRow
      BY <1>0, <2>3 DEF FrameOK, PublishDirect, Stored
    <3>2. /\ notifier' = AfterWrite(notifier)
          /\ inbox' = [inbox EXCEPT ![notifier.alert] = UpsertedRow(@, FullPayload(notifier))]
      BY <1>0, <1>2, <2>3, FrameMoves DEF PublishDirect, UpsertFromBus
    <3>3. inbox'[notifier.alert].shown
      BY <1>0, <3>1, <3>2 DEF Stored, InboxRow, UpsertedRow
    <3>4. notifier'.alert = notifier.alert
      BY <1>0, <3>2, FrameMoves
    <3> QED
      BY <3>3, <3>4 DEF Arrived
  <2> QED
    BY <1>2, <2>1, <2>2, <2>3, FrameSteps
<1> QED
  BY <1>1, <1>2 DEF WrittenFirst

-----------------------------------------------------------------------------
(* Without a fault, what is shown is the full payload. *)

\* The alert of Publishing is in hand until it is marked, and nothing else leaves a
\* row unpublished.
LEMMA PendingStep ==
  ASSUME TypeOK, FullWithoutFault, [Next]_vars, faults' = 0,
         NEW a \in Alerts, PendingBus(ledger'[a])
  PROVE  Publishing(a)'
<1>0. FrameOK /\ Stored /\ Counted /\ faults = 0
  <2>1. faults' = faults \/ faults' = faults + 1
    BY DEF Next, Run, Consumer, World, vars, Fault, PublishUnlessDone, ScanBegin,
       ScanPortfolio, PublishBus, PublishDirect, Detect, MarkBusPublished, PushSkip, Push,
       MarkTelegramSent, RetryList, RetryBus, RetryTelegram, NotifierRestart, ReadGroup,
       Consume, ApiRestart, MarkRead, Dismiss, AlertComesOrGoes, AttachOrDetach,
       SubscribeOrLapse, Tick
  <2> QED
    BY <2>1 DEF TypeOK, Counted
<1>f. ~Fault
  BY <1>0 DEF Fault
<1>1. CASE Detect(a)
  <2> DEFINE n == [notifier EXCEPT !.alert = a, !.todo = @ \ {a}]
  <2>1. n \in Frame /\ n.loop = "scan" /\ n.alert = a
    BY <1>0, <1>1 DEF Detect, FrameOK, Frame
  <2>2. /\ ledger' = [ledger EXCEPT ![a].known = TRUE]
        /\ notifier' = IF AlreadyPublished(ledger[a]) THEN AfterPublish(n)
                                                      ELSE [n EXCEPT !.pc = "publish"]
    BY <1>1, <1>f, <2>1 DEF Detect, PublishUnlessDone
  <2>3. ~AlreadyPublished(ledger[a])
    BY <1>1, LedgerMoves DEF PendingBus, AlreadyPublished, Detect, MarkBusPublished
  <2>4. notifier' = [n EXCEPT !.pc = "publish"]
    BY <2>2, <2>3
  <2> HIDE DEF n
  <2> QED
    BY <2>1, <2>4 DEF Publishing, Frame
<1>2. CASE ~Detect(a)
  <2>1. Publishing(a) /\ ~ledger'[a].bus
    <3>1. ledger'[a].known = ledger[a].known
      BY <1>2, LedgerMoves
    <3>2. CASE ledger'[a].bus = ledger[a].bus
      BY <1>0, <3>1, <3>2 DEF FullWithoutFault, PendingBus
    <3>3. CASE MarkBusPublished /\ a = notifier.alert
      <4>1. ledger' = [ledger EXCEPT ![a].bus = TRUE]
        BY <1>f, <3>3 DEF MarkBusPublished
      <4>2. ledger[a] \in LedgerRow
        BY <1>0 DEF Stored
      <4>3. ledger'[a].bus
        BY <1>0, <4>1, <4>2 DEF Stored, LedgerRow
      <4> QED
        BY <4>3 DEF PendingBus
    <3> QED
      BY <3>2, <3>3, LedgerMoves DEF PendingBus
  <2>2. CASE UNCHANGED notifier
    BY <2>1, <2>2 DEF Publishing
  <2>3. CASE PublishBus
    BY <1>0, <2>1, <2>3, FrameMoves DEF PublishBus, Publishing, FrameOK, Frame
  <2>4. CASE PublishDirect
    BY <1>0, <1>f, <2>1, <2>4, FrameMoves DEF PublishDirect, Publishing
  <2>5. ~MarkBusPublished
    <3> SUFFICES ASSUME MarkBusPublished PROVE FALSE
      OBVIOUS
    <3>1. ledger' = [ledger EXCEPT ![notifier.alert].bus = TRUE] /\ notifier.alert = a
      BY <1>f, <2>1 DEF MarkBusPublished, Publishing
    <3>2. ledger[a] \in LedgerRow
      BY <1>0 DEF Stored
    <3>3. ledger'[a].bus
      BY <1>0, <3>1, <3>2 DEF Stored, LedgerRow
    <3> QED
      BY <2>1, <3>3
  <2>6. UNCHANGED notifier \/ PublishBus \/ PublishDirect
    BY <1>f, <2>1, <2>5 DEF Publishing, Next, Run, Consumer, World, vars, ScanBegin,
       ScanPortfolio, Detect, PushSkip, Push, MarkTelegramSent, RetryList, RetryBus,
       RetryTelegram, NotifierRestart, ReadGroup, Consume, ApiRestart, MarkRead, Dismiss,
       AlertComesOrGoes, AttachOrDetach, SubscribeOrLapse, Tick
  <2> QED
    BY <2>2, <2>3, <2>4, <2>6
<1> QED
  BY <1>1, <1>2

\* Only RetryPending enters the loop over unpublished rows.
LEMMA BusLoopStarts ==
  ASSUME TypeOK, [Next]_vars, notifier.loop # "bus", notifier'.loop = "bus"
  PROVE  RetryList
<1>0. notifier \in Frame
  BY DEF TypeOK, FrameOK
<1>1. ASSUME NEW a \in Alerts, Detect(a) PROVE FALSE
  <2> DEFINE n == [notifier EXCEPT !.alert = a, !.todo = @ \ {a}]
  <2>1. \/ notifier' = AfterPublish(n) \/ notifier' = [n EXCEPT !.pc = "publish"]
        \/ notifier' = AfterFailedWrite(notifier)
    BY <1>1 DEF Detect, PublishUnlessDone
  <2>2. n \in Frame /\ n.loop = notifier.loop
    BY <1>0, <1>1 DEF Detect, Frame
  <2>3. AfterPublish(n).loop = n.loop /\ [n EXCEPT !.pc = "publish"].loop = n.loop
    BY <2>2 DEF AfterPublish, NextAlert, Frame
  <2>4. AfterFailedWrite(notifier).loop = notifier.loop
    BY FrameMoves DEF TypeOK
  <2> HIDE DEF n
  <2> QED
    BY <2>1, <2>2, <2>3, <2>4
<1>2. ~ScanBegin /\ ~(\E p \in Portfolios : ScanPortfolio(p))
        /\ ~(\E a \in Alerts : RetryTelegram(a))
  BY <1>0 DEF ScanBegin, ScanPortfolio, RetryTelegram, Frame
<1>3. /\ ~PublishBus /\ ~PublishDirect /\ ~MarkBusPublished
      /\ ~PushSkip /\ ~Push /\ ~MarkTelegramSent
  <2>1. \A pc \in Steps : [notifier EXCEPT !.pc = pc].loop = notifier.loop
    BY <1>0 DEF Frame
  <2> QED
    BY <2>1, FrameMoves DEF TypeOK, Steps, PublishBus, PublishDirect, MarkBusPublished,
       PushSkip, Push, MarkTelegramSent
<1>4. ~NotifierRestart
  BY DEF NotifierRestart, Asleep
<1> QED
  BY <1>1, <1>2, <1>3, <1>4 DEF Next, Run, Consumer, World, vars, RetryBus, ReadGroup,
     Consume, ApiRestart, MarkRead, Dismiss, AlertComesOrGoes, AttachOrDetach,
     SubscribeOrLapse, Tick

LEMMA FullStep == TypeOK /\ FullWithoutFault /\ [Next]_vars => FullWithoutFault'
<1> SUFFICES ASSUME TypeOK, FullWithoutFault, [Next]_vars, faults' = 0
             PROVE  /\ \A a \in Alerts : PendingBus(ledger'[a]) => Publishing(a)'
                    /\ notifier'.loop = "bus" => notifier'.pc = "next" /\ notifier'.todo = {}
                    /\ \A i \in 1 .. Len(stream') : stream'[i].full
                    /\ \A a \in Alerts : inbox'[a].shown => inbox'[a].full
  BY DEF FullWithoutFault
<1>0. FrameOK /\ Stored /\ Counted /\ faults = 0
  <2>1. faults' = faults \/ faults' = faults + 1
    BY DEF Next, Run, Consumer, World, vars, Fault, PublishUnlessDone, ScanBegin,
       ScanPortfolio, PublishBus, PublishDirect, Detect, MarkBusPublished, PushSkip, Push,
       MarkTelegramSent, RetryList, RetryBus, RetryTelegram, NotifierRestart, ReadGroup,
       Consume, ApiRestart, MarkRead, Dismiss, AlertComesOrGoes, AttachOrDetach,
       SubscribeOrLapse, Tick
  <2> QED
    BY <2>1 DEF TypeOK, Counted
<1>1. \A a \in Alerts : PendingBus(ledger'[a]) => Publishing(a)'
  BY PendingStep
<1>s. notifier.pc \in {"publish", "direct"} => notifier.loop = "scan"
  BY <1>0 DEF FullWithoutFault, FrameOK, Frame, Loops, StepsOf
<1>2. ASSUME notifier'.loop = "bus"
      PROVE  notifier'.pc = "next" /\ notifier'.todo = {}
  <2>1. CASE notifier.loop = "bus"
    <3>1. notifier.pc = "next" /\ notifier.todo = {}
      BY <1>0, <2>1 DEF FullWithoutFault
    <3>2. CASE UNCHANGED notifier
      BY <3>1, <3>2
    <3>3. CASE RetryList
      <4> DEFINE T == {a \in Alerts : PendingTelegram(ledger[a])}
      <4>1. notifier' = [notifier EXCEPT !.loop = "telegram", !.todo = T]
        BY <2>1, <3>3 DEF RetryList
      <4> HIDE DEF T
      <4> QED
        BY <1>0, <1>2, <4>1 DEF FrameOK, Frame
    <3>4. CASE NotifierRestart
      BY <1>0, <3>4 DEF NotifierRestart, Fault
    <3> QED
      BY <2>1, <3>1, <3>2, <3>3, <3>4 DEF Next, Run, Consumer, World, vars, ScanBegin,
         ScanPortfolio, PublishBus, PublishDirect, Detect, MarkBusPublished, PushSkip, Push,
         MarkTelegramSent, RetryBus, RetryTelegram, ReadGroup, Consume, ApiRestart, MarkRead,
         Dismiss, AlertComesOrGoes, AttachOrDetach, SubscribeOrLapse, Tick
  <2>2. CASE notifier.loop # "bus"
    <3> DEFINE B == {a \in Alerts : PendingBus(ledger[a])}
    <3>1. RetryList /\ notifier.loop = "scan"
      <4>1. ASSUME NEW l, NEW S, notifier' = [notifier EXCEPT !.loop = l, !.todo = S]
            PROVE  l = "bus"
        BY <1>0, <1>2, <4>1 DEF FrameOK, Frame
      <4>2. notifier' # Asleep(notifier.bus)
        BY <1>2 DEF Asleep
      <4>3. RetryList
        BY <1>2, <2>2, BusLoopStarts
      <4> QED
        BY <2>2, <4>1, <4>2, <4>3 DEF RetryList
    <3>2. notifier' = [notifier EXCEPT !.loop = "bus", !.todo = B]
      BY <3>1 DEF RetryList
    <3>3. B = {}
      BY <1>0, <3>1 DEF RetryList, FullWithoutFault, Publishing
    <3> HIDE DEF B
    <3> QED
      BY <1>0, <3>1, <3>2, <3>3 DEF RetryList, FrameOK, Frame
  <2> QED
    BY <2>1, <2>2
<1>3. ASSUME NEW i \in 1 .. Len(stream') PROVE stream'[i].full
  <2>1. CASE UNCHANGED stream
    BY <1>0, <2>1 DEF FullWithoutFault
  <2>2. CASE PublishBus /\ stream' = Append(stream, [alert |-> notifier.alert,
                                                     full |-> FullPayload(notifier)])
    <3> DEFINE added == Append(stream, [alert |-> notifier.alert,
                                        full |-> FullPayload(notifier)])
    <3>1. notifier.alert \in Alerts /\ FullPayload(notifier) = TRUE
      BY <1>0, <1>s, <2>2 DEF FrameOK, PublishBus, FullPayload
    <3>2. /\ Len(added) = Len(stream) + 1 /\ Len(stream) \in Nat
          /\ added[Len(added)] = [alert |-> notifier.alert, full |-> TRUE]
          /\ \A k \in 1 .. Len(stream) : added[k] = stream[k]
      BY <1>0, <3>1, StreamGrows DEF Stored
    <3>3. \A k \in 1 .. Len(stream) : stream[k].full
      BY <1>0 DEF FullWithoutFault
    <3>4. stream' = added
      BY <2>2
    <3> HIDE DEF added
    <3>5. CASE i = Len(added)
      BY <3>2, <3>4, <3>5
    <3>6. CASE i # Len(added)
      <4>1. i \in 1 .. Len(stream)
        BY <3>2, <3>4, <3>6
      <4> QED
        BY <3>2, <3>3, <3>4, <4>1
    <3> QED
      BY <3>5, <3>6
  <2> QED
    BY <2>1, <2>2, StreamMoves
<1>4. ASSUME NEW a \in Alerts, inbox'[a].shown PROVE inbox'[a].full
  <2>1. CASE inbox'[a].shown = inbox[a].shown /\ inbox'[a].full = inbox[a].full
    BY <1>0, <1>4, <2>1 DEF FullWithoutFault
  <2>2. CASE PublishDirect /\ inbox'[a].full = FullPayload(notifier)
    BY <1>0, <1>s, <2>2 DEF FullPayload, PublishDirect
  <2>3. CASE \E i \in 1 .. Len(stream) : inbox'[a].full = stream[i].full
    BY <1>0, <2>3 DEF FullWithoutFault
  <2> QED
    BY <2>1, <2>2, <2>3, InboxMoves
<1> QED
  BY <1>1, <1>2, <1>3, <1>4

-----------------------------------------------------------------------------
(* Every repetition has been paid for by a fault. *)

LEMMA CardinalityStep ==
  ASSUME NEW S, IsFiniteSet(S), NEW T, NEW x
  PROVE  /\ Cardinality(S) \in Nat
         /\ T \subseteq S => IsFiniteSet(T) /\ Cardinality(T) \in Nat
                               /\ Cardinality(T) <= Cardinality(S)
         /\ T \subseteq S \cup {x} => IsFiniteSet(T) /\ Cardinality(T) \in Nat
                                        /\ Cardinality(T) <= Cardinality(S) + 1
         /\ T \subseteq S \ {x} /\ x \in S => Cardinality(T) + 1 <= Cardinality(S)
<1>1. Cardinality(S) \in Nat
  BY FS_CardinalityType
<1>2. ASSUME T \subseteq S
      PROVE  IsFiniteSet(T) /\ Cardinality(T) \in Nat /\ Cardinality(T) <= Cardinality(S)
  <2>1. IsFiniteSet(T) /\ Cardinality(T) <= Cardinality(S)
    BY <1>2, FS_Subset
  <2> QED
    BY <2>1, FS_CardinalityType
<1>3. ASSUME T \subseteq S \cup {x}
      PROVE  /\ IsFiniteSet(T) /\ Cardinality(T) \in Nat
             /\ Cardinality(T) <= Cardinality(S) + 1
  <2>1. /\ IsFiniteSet(S \cup {x})
        /\ Cardinality(S \cup {x}) = Cardinality(S) \/ Cardinality(S \cup {x}) = Cardinality(S) + 1
    BY FS_AddElement
  <2>2. IsFiniteSet(T) /\ Cardinality(T) <= Cardinality(S \cup {x})
    BY <1>3, <2>1, FS_Subset
  <2>3. Cardinality(T) \in Nat
    BY <2>2, FS_CardinalityType
  <2> QED
    BY <1>1, <2>1, <2>2, <2>3
<1>4. ASSUME T \subseteq S \ {x}, x \in S PROVE Cardinality(T) + 1 <= Cardinality(S)
  <2>1. IsFiniteSet(S \ {x}) /\ Cardinality(S \ {x}) = Cardinality(S) - 1
    BY <1>4, FS_RemoveElement
  <2>2. IsFiniteSet(T) /\ Cardinality(T) <= Cardinality(S \ {x})
    BY <1>4, <2>1, FS_Subset
  <2>3. Cardinality(T) \in Nat
    BY <2>2, FS_CardinalityType
  <2> QED
    BY <1>1, <2>1, <2>2, <2>3
<1> QED
  BY <1>1, <1>2, <1>3, <1>4

\* What a step must do to Unmarked, repeats and faults.
LEMMA PaidBy ==
  ASSUME TypeOK, RepeatsPaid, TypeOK',
         \A a \in Alerts : pushed'[a] # NoTime => pushed'[a] <= now',
         NEW x,
         \/ Unmarked' \subseteq Unmarked /\ repeats' = repeats /\ faults' >= faults
         \/ Unmarked' \subseteq Unmarked /\ repeats' = repeats + 1 /\ faults' = faults + 1
         \/ Unmarked' \subseteq Unmarked \cup {x} /\ repeats' = repeats /\ faults' = faults + 1
         \/ Unmarked' \subseteq Unmarked \ {x} /\ x \in Unmarked /\ repeats' = repeats + 1
              /\ faults' = faults
  PROVE  RepeatsPaid'
<1> DEFINE S == Unmarked
           T == Unmarked'
<1>1. IsFiniteSet(S) /\ repeats + Cardinality(S) <= faults
  BY DEF RepeatsPaid
<1>2. /\ repeats \in Nat /\ faults \in Nat
      /\ repeats' \in Nat /\ faults' \in Nat
  BY DEF TypeOK, Counted
<1>3. /\ Cardinality(S) \in Nat
      /\ T \subseteq S => IsFiniteSet(T) /\ Cardinality(T) \in Nat
                            /\ Cardinality(T) <= Cardinality(S)
      /\ T \subseteq S \cup {x} => IsFiniteSet(T) /\ Cardinality(T) \in Nat
                                     /\ Cardinality(T) <= Cardinality(S) + 1
      /\ T \subseteq S \ {x} /\ x \in S => Cardinality(T) + 1 <= Cardinality(S)
  BY <1>1, CardinalityStep
<1>4. \/ T \subseteq S /\ repeats' = repeats /\ faults' >= faults
      \/ T \subseteq S /\ repeats' = repeats + 1 /\ faults' = faults + 1
      \/ T \subseteq S \cup {x} /\ repeats' = repeats /\ faults' = faults + 1
      \/ T \subseteq S \ {x} /\ x \in S /\ repeats' = repeats + 1 /\ faults' = faults
  OBVIOUS
<1> HIDE DEF S, T
<1>5. T \subseteq S \ {x} => T \subseteq S
  OBVIOUS
<1>6. IsFiniteSet(T) /\ repeats' + Cardinality(T) <= faults'
  BY <1>1, <1>2, <1>3, <1>4, <1>5
<1> QED
  BY <1>6 DEF RepeatsPaid, T

LEMMA CountersMove ==
  ASSUME TypeOK, [Next]_vars
  PROVE  /\ faults' = faults \/ faults' = faults + 1
         /\ now' = now \/ now' = now + 1
         /\ UNCHANGED <<pushed, repeats>> \/ Push
         /\ UNCHANGED now \/ Tick
         /\ notifier.pc = "confirm" =>
              UNCHANGED notifier \/ MarkTelegramSent \/ NotifierRestart
BY DEF Next, Run, Consumer, World, vars, user, Fault, PublishUnlessDone, ScanBegin,
   ScanPortfolio, PublishBus, PublishDirect, Detect, MarkBusPublished, PushSkip, Push,
   MarkTelegramSent, RetryList, RetryBus, RetryTelegram, NotifierRestart, ReadGroup, Consume,
   ApiRestart, MarkRead, Dismiss, AlertComesOrGoes, AttachOrDetach, SubscribeOrLapse, Tick

LEMMA RepeatsStep == TypeOK /\ TypeOK' /\ RepeatsPaid /\ [Next]_vars => RepeatsPaid'
<1> SUFFICES ASSUME TypeOK, TypeOK', RepeatsPaid, [Next]_vars PROVE RepeatsPaid'
  OBVIOUS
<1> USE DeliveryAssumption
<1>0. /\ now \in Nat /\ repeats \in Nat /\ faults \in Nat
      /\ pushed \in [Alerts -> Nat \cup {NoTime}]
      /\ FrameOK /\ ledger \in [Alerts -> LedgerRow]
  BY DEF TypeOK, Counted, Stored
<1>1. \A a \in Alerts : pushed[a] # NoTime => pushed[a] \in Nat /\ pushed[a] <= now
  BY <1>0 DEF RepeatsPaid
<1>2. \A a \in Alerts : ledger[a].tg \in Nat \cup {NoTime}
  <2>1. \A a \in Alerts : ledger[a] \in LedgerRow
    BY <1>0
  <2> QED
    BY <2>1 DEF LedgerRow
<1>3. CASE Push
  <2> DEFINE a == notifier.alert
             early == pushed[a] # NoTime /\ now - pushed[a] < Cooldown
  <2>0. a \in Alerts /\ UNCHANGED <<ledger, now>> /\ ~Confirming(a)
          /\ \A b \in Alerts : ~Confirming(b)
    BY <1>0, <1>3 DEF Push, stores, FrameOK, Confirming
  <2>1. \/ Deliver(a)
        \/ UNCHANGED <<pushed, repeats>> /\ faults' = faults + 1
    BY <1>3 DEF Push, Fault
  <2>2. CASE UNCHANGED <<pushed, repeats>> /\ faults' = faults + 1
    <3>1. Unmarked' \subseteq Unmarked
      BY <2>0, <2>2 DEF Unmarked
    <3>2. \A b \in Alerts : pushed'[b] # NoTime => pushed'[b] <= now'
      BY <1>1, <2>0, <2>2
    <3> QED
      BY <1>0, <2>2, <3>1, <3>2, PaidBy
  <2>3. CASE Deliver(a)
    <3>1. /\ pushed' = [pushed EXCEPT ![a] = now]
          /\ repeats' = repeats + IF early THEN 1 ELSE 0
      BY <2>3 DEF Deliver
    <3> HIDE DEF a
    <3>2. /\ pushed'[a] = now
          /\ \A b \in Alerts \ {a} : pushed'[b] = pushed[b]
      BY <1>0, <2>0, <3>1
    <3>3. \A b \in Alerts : pushed'[b] # NoTime => pushed'[b] <= now'
      BY <1>0, <1>1, <2>0, <3>2
    <3>4. Unmarked' \subseteq Unmarked \cup {a}
      BY <2>0, <3>2 DEF Unmarked
    \* Allowed by the ledger and yet early: the last push was not marked.
    <3>5. ShouldSendTelegram(ledger[a]) /\ early => a \in Unmarked
      <4>1. CASE ledger[a].tg = NoTime
        BY <2>0, <4>1 DEF Unmarked
      <4>2. CASE ledger[a].tg # NoTime
        <5>1. ledger[a].tg \in Nat /\ Cooldown \in Nat
          BY <1>2, <2>0, <4>2
        <5>2. ShouldSendTelegram(ledger[a]) => now - ledger[a].tg >= Cooldown
          BY <4>2 DEF ShouldSendTelegram
        <5>3. early => pushed[a] \in Nat /\ now - pushed[a] < Cooldown /\ pushed[a] # NoTime
          BY <1>1, <2>0
        <5>4. ShouldSendTelegram(ledger[a]) /\ early => ledger[a].tg < pushed[a]
          BY <1>0, <5>1, <5>2, <5>3
        <5> QED
          BY <2>0, <5>3, <5>4 DEF Unmarked
      <4> QED
        BY <4>1, <4>2
    <3>6. CASE notifier' = [notifier EXCEPT !.pc = "confirm"]
      <4>1. notifier'.pc = "confirm" /\ notifier'.alert = a
        BY <1>0, <3>6 DEF FrameOK, Frame, a
      <4>2. Unmarked' \subseteq Unmarked \ {a}
        BY <3>4, <4>1 DEF Unmarked, Confirming
      <4>3. \/ ShouldSendTelegram(ledger[a]) /\ faults' = faults
            \/ faults' = faults + 1
        BY <1>3 DEF Push, Fault, a
      <4>4. repeats' = repeats \/ (early /\ repeats' = repeats + 1)
        BY <1>0, <3>1
      <4> HIDE DEF early
      <4> QED
        BY <1>0, <3>3, <3>5, <4>2, <4>3, <4>4, PaidBy
    <3>7. CASE notifier' # [notifier EXCEPT !.pc = "confirm"]
      <4>1. ShouldSendTelegram(ledger[a]) /\ faults' = faults + 1
        BY <1>3, <3>7 DEF Push, Fault, a
      <4>2. repeats' = repeats \/ (early /\ repeats' = repeats + 1)
        BY <1>0, <3>1
      <4>3. a \in Unmarked => Unmarked' \subseteq Unmarked
        BY <3>4
      <4> HIDE DEF early
      <4> QED
        BY <1>0, <3>3, <3>4, <3>5, <4>1, <4>2, <4>3, PaidBy
    <3> QED
      BY <3>6, <3>7
  <2> QED
    BY <2>1, <2>2, <2>3
<1>4. CASE MarkTelegramSent
  <2> DEFINE a == notifier.alert
  <2>0. /\ a \in Alerts /\ UNCHANGED <<now, pushed, repeats>>
        /\ faults' = faults \/ faults' = faults + 1
    BY <1>0, <1>4 DEF MarkTelegramSent, FrameOK, Fault
  <2>1. \A b \in Alerts : pushed'[b] # NoTime => pushed'[b] <= now'
    BY <1>1, <2>0
  <2>2. \A b \in Alerts \ {a} : ~Confirming(b) /\ ledger'[b].tg = ledger[b].tg
    BY LedgerMoves DEF Confirming
  <2>3. Unmarked' \subseteq Unmarked \cup {a}
    BY <2>0, <2>2 DEF Unmarked
  <2>4. CASE faults' = faults + 1
    BY <1>0, <2>0, <2>1, <2>3, <2>4, PaidBy
  <2>5. CASE faults' = faults
    <3>1. ledger' = [ledger EXCEPT ![a] = TelegramSent(@)]
      BY <1>0, <1>4, <2>5 DEF MarkTelegramSent, Fault
    <3>2. ledger'[a] = TelegramSent(ledger[a]) /\ ledger[a] \in LedgerRow
      BY <1>0, <2>0, <3>1
    <3>3. ledger'[a].tg = now
      BY <3>2 DEF TelegramSent, LedgerRow
    <3>4. a \notin Unmarked'
      BY <1>0, <1>1, <2>0, <3>3 DEF Unmarked
    <3>5. Unmarked' \subseteq Unmarked
      BY <2>3, <3>4
    <3> QED
      BY <1>0, <2>0, <2>1, <2>5, <3>5, PaidBy
  <2> QED
    BY <2>0, <2>4, <2>5
<1>5. CASE NotifierRestart
  <2> DEFINE a == notifier.alert
  <2>1. UNCHANGED <<now, ledger, pushed, repeats>> /\ faults' = faults + 1
    BY <1>5 DEF NotifierRestart, Fault, stores
  <2>2. \A b \in Alerts : pushed'[b] # NoTime => pushed'[b] <= now'
    BY <1>1, <2>1
  <2>3. Unmarked' \subseteq Unmarked \cup {a}
    BY <2>1 DEF Unmarked, Confirming
  <2> QED
    BY <2>1, <2>2, <2>3, PaidBy
<1>6. CASE ~Push /\ ~MarkTelegramSent /\ ~NotifierRestart
  <2>1. UNCHANGED <<pushed, repeats>> /\ \A a \in Alerts : ledger'[a].tg = ledger[a].tg
    BY <1>6, CountersMove, LedgerMoves
  <2>2. \A b \in Alerts : pushed'[b] # NoTime => pushed'[b] <= now'
    BY <1>0, <1>1, <2>1, CountersMove
  <2>3. \A a \in Alerts : Confirming(a) => Confirming(a)'
    BY <1>6, CountersMove DEF Confirming
  <2>4. Unmarked' \subseteq Unmarked
    BY <2>1, <2>3 DEF Unmarked
  <2>5. faults' >= faults
    BY <1>0, CountersMove
  <2> QED
    BY <2>1, <2>2, <2>4, <2>5, PaidBy
<1> QED
  BY <1>3, <1>4, <1>5, <1>6

-----------------------------------------------------------------------------
\* The inductive invariant of the delivery: the stores and the frame keep their
\* types, a mark never overtakes its write, no payload loses its prices without a
\* fault, and no push is repeated that a fault has not paid for.
THEOREM DeliveryInvariant == Spec => []IInv
<1>1. IInv /\ [Next]_vars => IInv'
  BY TypeStep, WrittenStep, FullStep, RepeatsStep DEF IInv
<1> QED
  BY InitIInv, <1>1, PTL DEF Spec

\* Whatever fails or dies in between, the ledger never marks an alert that is neither
\* in the stream nor in the table, and a shown alert without its prices means that a
\* write has failed (MarkBusPublished runs after the write it records).
THEOREM PublishedIsKept == Spec => []MarkedIsPublished
<1>1. ASSUME IInv PROVE MarkedIsPublished
  <2>1. faults \in Nat
    BY <1>1 DEF IInv, TypeOK, Counted
  <2>2. \A a \in Alerts :
          ledger[a].bus => inbox[a].shown \/ \E i \in 1 .. Len(stream) : stream[i].alert = a
    BY <1>1 DEF IInv, WrittenFirst, Arrived
  <2>3. \A a \in Alerts : inbox[a].shown /\ ~inbox[a].full => faults > 0
    BY <1>1, <2>1 DEF IInv, FullWithoutFault
  <2> QED
    BY <2>2, <2>3 DEF MarkedIsPublished
<1> QED
  BY DeliveryInvariant, <1>1, PTL

\* Telegram repeats an alert within its cooldown at most once per crash, failed mark
\* or lost answer (ShouldSendTelegram reads what MarkTelegramSent has stored).
THEOREM RepeatsArePaid == Spec => []RepeatsAreFaults
<1>1. ASSUME IInv PROVE RepeatsAreFaults
  <2>1. repeats \in Nat /\ faults \in Nat /\ Cardinality(Unmarked) \in Nat
    BY <1>1, FS_CardinalityType DEF IInv, TypeOK, Counted, RepeatsPaid
  <2> QED
    BY <1>1, <2>1 DEF IInv, RepeatsPaid, RepeatsAreFaults
<1> QED
  BY DeliveryInvariant, <1>1, PTL

-----------------------------------------------------------------------------
(***************************************************************************)
(* What holds of the bot's inbox for any number of users, updates,         *)
(* restarts and faults, and any limit of support messages.                 *)
(*                                                                         *)
(* Telegram keeps updates in the order of their ids, and the inbox works   *)
(* through a stretch of them from the first one not below its offset.  So  *)
(* what lies below the offset has had its effect, and a switch that an     *)
(* earlier update has undone after a restart lies at or above it (Open),   *)
(* to be handled again before Telegram lets go of it.                      *)
(***************************************************************************)
Queued == {queue[i] : i \in DOMAIN queue}

InboxTypeOK ==
  /\ arrived \in Nat /\ offset \in Nat
  /\ queue \in Seq(Bot!Updates) /\ batch \in Seq(Bot!Updates)
  /\ marking \in Owners \cup {Idle}
  /\ connected \in [Owners -> BOOLEAN] /\ wanted \in [Owners -> BOOLEAN]
  /\ failed \in [Owners -> BOOLEAN] /\ crossed \in [Owners -> BOOLEAN]
  /\ written \in SUBSET Nat /\ relayed \in SUBSET Nat

\* Telegram holds the last updates that were sent, and the batch is a stretch of them
\* that begins with the first one the offset asks for.
IdsInv ==
  /\ \A i \in DOMAIN queue : queue[i].id + Len(queue) = arrived + i
  /\ offset <= arrived + 1
  /\ \A j \in DOMAIN batch : batch[j] \in Queued /\ batch[j].id + 1 = batch[1].id + j
  /\ batch # <<>> => \A x \in Queued : x.id >= offset => x.id >= batch[1].id

SwitchOf(x, u) == x.user = u /\ x.kind \in Bot!Switches

\* A switch of u is still to be handled, or to be handled again.
Open(u) == \E x \in Queued : SwitchOf(x, u) /\ x.id >= offset

Excused(u) == wanted[u] \/ crossed[u]

\* If the last switch that Telegram holds is on, the owner wants it on.
LastStands(u) ==
  \A x \in Queued :
    /\ SwitchOf(x, u) /\ x.kind = "start"
    /\ \A y \in Queued : SwitchOf(y, u) => y.id <= x.id
    => Excused(u)

OwnerInv(u) ==
  /\ LastStands(u)
  /\ ~Open(u) /\ marking # u /\ connected[u] => Excused(u) \/ failed[u]
  /\ marking = u => (Open(u) \/ Excused(u)) /\ \E x \in Queued : SwitchOf(x, u)

Carried(id) == id \in relayed \cup refused \cup unsaid

TextInv ==
  /\ \A x \in Queued : x.kind = "text" /\ x.id < offset => Carried(x.id)
  /\ \A id \in written :
       /\ id <= arrived
       /\ Carried(id) \/ \E x \in Queued : x.id = id /\ x.kind = "text"

InboxInv ==
  /\ InboxTypeOK
  /\ IdsInv
  /\ \A u \in Owners : OwnerInv(u)
  /\ TextInv

-----------------------------------------------------------------------------
LEMMA UpdateType ==
  ASSUME NEW x \in Bot!Updates
  PROVE  /\ x.id \in Nat
         /\ x.kind \in Bot!Kinds => x.user \in Owners
         /\ x.kind \notin Bot!Kinds => x.kind = "reply" /\ x.user = Idle
BY DEF Bot!Updates, Bot!Kinds

LEMMA QueuedType ==
  ASSUME InboxTypeOK
  PROVE  /\ Queued \subseteq Bot!Updates
         /\ \A i \in DOMAIN queue : queue[i] \in Bot!Updates /\ i \in 1 .. Len(queue)
         /\ Len(queue) \in Nat
BY DEF InboxTypeOK, Queued

\* An id is of one update.
LEMMA IdsAreDistinct ==
  ASSUME InboxTypeOK, IdsInv, NEW x \in Queued
  PROVE  /\ x.id <= arrived
         /\ \A y \in Queued : y.id = x.id => y = x
<1>1. \A i, k \in DOMAIN queue : queue[i].id = queue[k].id => i = k
  BY QueuedType, UpdateType DEF IdsInv, InboxTypeOK
<1>2. \A i \in DOMAIN queue : queue[i].id <= arrived
  BY QueuedType, UpdateType DEF IdsInv, InboxTypeOK
<1> QED
  BY <1>1, <1>2 DEF Queued

LEMMA InboxInit == Bot!Init => InboxInv
<1> SUFFICES ASSUME Bot!Init PROVE InboxInv
  OBVIOUS
<1> USE DEF Bot!Init
<1>1. queue = <<>> /\ batch = <<>> /\ Queued = {}
  BY DEF Queued
<1>2. InboxTypeOK
  BY <1>1 DEF InboxTypeOK
<1>3. IdsInv /\ TextInv
  BY <1>1 DEF IdsInv, TextInv
<1>4. ASSUME NEW u \in Owners PROVE OwnerInv(u)
  <2>1. ~connected[u] /\ marking # u
    BY InboxAssumption
  <2> QED
    BY <1>1, <2>1 DEF OwnerInv, LastStands
<1> QED
  BY <1>2, <1>3, <1>4 DEF InboxInv

-----------------------------------------------------------------------------
(* What a step does to the parts of the invariant. *)

\* Another update comes in, with the highest id.
LEMMA ArriveIds ==
  ASSUME InboxInv, NEW kind, NEW who, NEW of, Bot!Arrive(kind, who, of),
         [id |-> arrived + 1, kind |-> kind, user |-> who, of |-> of] \in Bot!Updates,
         UNCHANGED <<offset, batch>>
  PROVE  /\ IdsInv' /\ arrived' \in Nat /\ queue' \in Seq(Bot!Updates)
         /\ Queued' = Queued \cup
              {[id |-> arrived + 1, kind |-> kind, user |-> who, of |-> of]}
         /\ \A x \in Queued : x.id < arrived + 1
<1> DEFINE n == [id |-> arrived + 1, kind |-> kind, user |-> who, of |-> of]
<1>0. InboxTypeOK /\ IdsInv
  BY DEF InboxInv
<1>1. n.id = arrived + 1 /\ n \in Bot!Updates /\ arrived' = arrived + 1 /\ queue' = Append(queue, n)
  BY DEF Bot!Arrive
<1> HIDE DEF n
<1>2. /\ queue' \in Seq(Bot!Updates) /\ Len(queue') = Len(queue) + 1
      /\ DOMAIN queue' = DOMAIN queue \cup {Len(queue) + 1}
      /\ queue'[Len(queue) + 1] = n /\ \A i \in DOMAIN queue : queue'[i] = queue[i]
  BY <1>0, <1>1 DEF InboxTypeOK
<1>3. Queued' = Queued \cup {n}
  BY <1>2 DEF Queued
<1>4. \A x \in Queued : x.id < arrived + 1 /\ x.id \in Nat
  BY <1>0, IdsAreDistinct, QueuedType, UpdateType DEF InboxTypeOK
<1>5. \A i \in DOMAIN queue' : queue'[i].id + Len(queue') = arrived' + i
  <2> SUFFICES ASSUME NEW i \in DOMAIN queue'
               PROVE  queue'[i].id + Len(queue') = arrived' + i
    OBVIOUS
  <2>1. CASE i \in DOMAIN queue
    <3> DEFINE a == queue[i].id
               m == Len(queue)
    <3>1. queue'[i] = queue[i] /\ a + m = arrived + i
      BY <1>0, <1>2, <2>1 DEF IdsInv
    <3>2. a \in Nat /\ i \in Nat /\ m \in Nat /\ arrived \in Nat
      BY <1>0, <2>1, QueuedType, UpdateType DEF InboxTypeOK
    <3>3. Len(queue') = m + 1 /\ arrived' = arrived + 1 /\ queue'[i].id = a
      BY <1>1, <1>2, <3>1
    <3> HIDE DEF a, m
    <3>4. a + (m + 1) = (arrived + 1) + i
      BY <3>1, <3>2
    <3> QED
      BY <3>3, <3>4
  <2>2. CASE i = Len(queue) + 1
    BY <1>0, <1>1, <1>2, <2>2, QueuedType DEF InboxTypeOK
  <2> QED
    BY <1>2, <2>1, <2>2
<1>6. batch # <<>> => batch[1] \in Queued
  BY <1>0 DEF IdsInv, InboxTypeOK
<1>7. batch # <<>> => \A x \in Queued' : x.id >= offset => x.id >= batch[1].id
  BY <1>0, <1>1, <1>3, <1>4, <1>6 DEF IdsInv, InboxTypeOK
<1>8. IdsInv'
  BY <1>0, <1>1, <1>3, <1>5, <1>7 DEF IdsInv, InboxTypeOK
<1> QED
  BY <1>0, <1>1, <1>2, <1>3, <1>4, <1>8 DEF InboxTypeOK, n

\* The inbox takes the first update of the batch.
LEMMA TakeIds ==
  ASSUME InboxInv, NEW x, Bot!Take(x), UNCHANGED <<arrived, queue>>
  PROVE  /\ x \in Queued /\ x \in Bot!Updates /\ marking = Idle
         /\ IdsInv' /\ Queued' = Queued /\ offset' = x.id + 1 /\ offset' \in Nat
         /\ batch' \in Seq(Bot!Updates)
         /\ \A y \in Queued : y.id >= offset => y = x \/ y.id >= offset'
<1>0. InboxTypeOK /\ IdsInv
  BY DEF InboxInv
<1>1. /\ batch # <<>> /\ batch \in Seq(Bot!Updates) /\ x = batch[1] /\ batch' = Tail(batch)
      /\ offset' = x.id + 1 /\ marking = Idle
  BY <1>0 DEF Bot!Take, Bot!NextOffset, InboxTypeOK
<1>2. /\ x \in Bot!Updates /\ x \in Queued /\ batch' \in Seq(Bot!Updates)
      /\ Len(batch') = Len(batch) - 1 /\ DOMAIN batch' = 1 .. Len(batch')
      /\ \A j \in DOMAIN batch' : j + 1 \in DOMAIN batch /\ batch'[j] = batch[j + 1]
  BY <1>0, <1>1 DEF IdsInv
<1>3. x.id \in Nat /\ x.id <= arrived /\ \A y \in Queued : y.id \in Nat
  BY <1>0, <1>2, IdsAreDistinct, QueuedType, UpdateType
<1>4. Queued' = Queued
  BY DEF Queued
<1>5. \A y \in Queued : y.id >= offset => y = x \/ y.id >= offset'
  <2> SUFFICES ASSUME NEW y \in Queued, y.id >= offset
               PROVE  y = x \/ y.id >= offset'
    OBVIOUS
  <2>1. y.id >= x.id
    BY <1>0, <1>1 DEF IdsInv
  <2>2. CASE y.id = x.id
    BY <1>0, <1>2, <2>2, IdsAreDistinct
  <2> QED
    BY <1>1, <1>3, <2>1, <2>2
<1>6. ASSUME NEW j \in DOMAIN batch'
      PROVE  batch'[j] \in Queued /\ batch'[j].id = x.id + j /\ batch'[j].id \in Nat
  <2>1. j + 1 \in DOMAIN batch /\ batch'[j] = batch[j + 1] /\ j \in Nat
    BY <1>2
  <2>2. batch[j + 1] \in Queued /\ batch[j + 1].id + 1 = x.id + (j + 1)
    BY <1>0, <1>1, <2>1 DEF IdsInv
  <2>3. batch[j + 1].id \in Nat
    BY <1>3, <2>2
  <2> QED
    BY <1>3, <2>1, <2>2, <2>3
<1>7. batch' # <<>> => 1 \in DOMAIN batch'
  BY <1>2
<1>8. \A j \in DOMAIN batch' : batch'[j].id + 1 = batch'[1].id + j
  <2> SUFFICES ASSUME NEW j \in DOMAIN batch'
               PROVE  batch'[j].id + 1 = batch'[1].id + j
    OBVIOUS
  <2>1. 1 \in DOMAIN batch' /\ j \in Nat
    BY <1>2
  <2> QED
    BY <1>3, <1>6, <2>1
<1>9. batch' # <<>> => \A y \in Queued : y.id >= offset' => y.id >= batch'[1].id
  BY <1>1, <1>3, <1>6, <1>7
<1>10. \A i \in DOMAIN queue' : queue'[i].id + Len(queue') = arrived' + i
  BY <1>0 DEF IdsInv
<1>11. offset' \in Nat /\ offset' <= arrived' + 1
  BY <1>0, <1>1, <1>3 DEF InboxTypeOK
<1>12. IdsInv'
  BY <1>4, <1>6, <1>8, <1>9, <1>10, <1>11 DEF IdsInv
<1> QED
  BY <1>1, <1>2, <1>4, <1>5, <1>11, <1>12

LEMMA Suffix ==
  ASSUME NEW S, NEW q \in Seq(S), NEW c \in 0 .. Len(q)
  PROVE  /\ SubSeq(q, c + 1, Len(q)) \in Seq(S)
         /\ Len(SubSeq(q, c + 1, Len(q))) = Len(q) - c
         /\ \A i \in 1 .. (Len(q) - c) : SubSeq(q, c + 1, Len(q))[i] = q[i + c]
<1> DEFINE r == SubSeq(q, c + 1, Len(q))
<1>1. r = [i \in 1 .. (Len(q) - c) |-> q[i + c]]
  OBVIOUS
<1>2. \A i \in 1 .. (Len(q) - c) : q[i + c] \in S
  <2> SUFFICES ASSUME NEW i \in 1 .. (Len(q) - c)
               PROVE  i + c \in 1 .. Len(q)
    OBVIOUS
  <2> QED
    OBVIOUS
<1>3. Len(q) - c \in Nat
  OBVIOUS
<1> QED
  BY <1>1, <1>2, <1>3

\* The answer to getUpdates: what lies at the offset or above it.
LEMMA HeldIds ==
  ASSUME InboxInv, queue' = Bot!HeldFrom(offset), UNCHANGED <<arrived, offset>>,
         batch' = queue' \/ batch' = <<>>
  PROVE  /\ IdsInv' /\ queue' \in Seq(Bot!Updates) /\ batch' \in Seq(Bot!Updates)
         /\ Queued' = {x \in Queued : x.id >= offset}
<1> DEFINE L == Len(queue)
           low == {i \in DOMAIN queue : queue[i].id < offset}
           c == IF offset + L > arrived + 1 THEN offset + L - arrived - 1 ELSE 0
<1>0. InboxTypeOK /\ IdsInv
  BY DEF InboxInv
<1>1. /\ L \in Nat /\ arrived \in Nat /\ offset \in Nat /\ offset <= arrived + 1
      /\ DOMAIN queue = 1 .. L
      /\ \A i \in 1 .. L : queue[i].id \in Nat /\ queue[i].id + L = arrived + i
  BY <1>0, QueuedType, UpdateType DEF IdsInv, InboxTypeOK
<1>2. c \in 0 .. L /\ \A i \in 1 .. L : queue[i].id < offset <=> i <= c
  BY SMTT(30), <1>1
<1>3. low = 1 .. c
  BY <1>1, <1>2
<1> HIDE DEF c, low
<1>4. Cardinality(low) = c
  <2>1. c \in Nat
    BY <1>1, <1>2
  <2>2. Cardinality(1 .. c) = IF 1 > c THEN 0 ELSE c - 1 + 1
    BY <2>1, FS_Interval
  <2> QED
    BY <1>3, <2>1, <2>2
<1>5. Bot!HeldFrom(offset) = SubSeq(queue, c + 1, L)
  <2>1. \A S : Bot!Cardinality(S) = Cardinality(S)
    BY DEF Bot!Cardinality, Cardinality
  <2> QED
    BY <1>4, <2>1 DEF Bot!HeldFrom, low
<1>6. /\ queue' \in Seq(Bot!Updates) /\ Len(queue') = L - c /\ DOMAIN queue' = 1 .. (L - c)
      /\ \A i \in 1 .. (L - c) : queue'[i] = queue[i + c]
  <2>1. queue \in Seq(Bot!Updates)
    BY <1>0 DEF InboxTypeOK
  <2>2. /\ SubSeq(queue, c + 1, L) \in Seq(Bot!Updates)
        /\ Len(SubSeq(queue, c + 1, L)) = L - c
        /\ \A i \in 1 .. (L - c) : SubSeq(queue, c + 1, L)[i] = queue[i + c]
    BY <1>2, <2>1, Suffix
  <2> QED
    BY <1>5, <2>2
<1>7. Queued' = {x \in Queued : x.id >= offset}
  <2>1. ASSUME NEW i \in DOMAIN queue'
        PROVE  queue'[i] \in Queued /\ queue'[i].id >= offset
    <3>1. i + c \in 1 .. L /\ i + c > c /\ queue'[i] = queue[i + c]
      BY <1>1, <1>2, <1>6
    <3> QED
      BY <1>1, <1>2, <3>1 DEF Queued
  <2>2. ASSUME NEW k \in DOMAIN queue, queue[k].id >= offset
        PROVE  queue[k] \in Queued'
    <3>1. k - c \in 1 .. (L - c) /\ (k - c) + c = k
      BY <1>1, <1>2, <2>2
    <3>2. queue'[k - c] = queue[k]
      BY <1>6, <3>1
    <3> QED
      BY <1>6, <3>1, <3>2 DEF Queued
  <2> QED
    BY <2>1, <2>2 DEF Queued
<1>8. \A i \in DOMAIN queue' : queue'[i].id \in Nat /\ queue'[i].id + Len(queue') = arrived + i
  <2> SUFFICES ASSUME NEW i \in 1 .. (L - c)
               PROVE  queue'[i].id \in Nat /\ queue'[i].id + (L - c) = arrived + i
    BY <1>6
  <2>1. i + c \in 1 .. L /\ i \in Nat /\ c \in Nat /\ queue'[i] = queue[i + c]
    BY <1>1, <1>2, <1>6
  <2> DEFINE a == queue[i + c].id
  <2>2. a \in Nat /\ a + L = arrived + (i + c) /\ queue'[i].id = a
    BY <1>1, <2>1
  <2>3. L \in Nat /\ arrived \in Nat /\ i \in Nat /\ c \in Nat
    BY <1>1, <2>1
  <2> HIDE DEF a, L
  <2>4. a + (L - c) = arrived + i
    BY <2>2, <2>3
  <2> QED
    BY <2>2, <2>4
<1>9. \A x \in Queued' : \E i \in DOMAIN queue' : i >= 1 /\ x = queue'[i]
  BY <1>6 DEF Queued
<1>10. queue' # <<>> => \A x \in Queued' : x.id >= queue'[1].id
  <2> SUFFICES ASSUME NEW i \in DOMAIN queue'
               PROVE  queue'[i].id >= queue'[1].id
    BY <1>9
  <2>1. 1 \in DOMAIN queue' /\ i \in Nat /\ i >= 1 /\ Len(queue') \in Nat
    BY <1>1, <1>2, <1>6
  <2> QED
    BY <1>1, <1>8, <2>1
<1>11. \A j \in DOMAIN queue' : queue'[j] \in Queued' /\ queue'[j].id + 1 = queue'[1].id + j
  <2> SUFFICES ASSUME NEW j \in DOMAIN queue'
               PROVE  queue'[j] \in Queued' /\ queue'[j].id + 1 = queue'[1].id + j
    OBVIOUS
  <2>1. 1 \in DOMAIN queue' /\ j \in Nat /\ Len(queue') \in Nat
    BY <1>1, <1>2, <1>6
  <2>2. queue'[j] \in Queued'
    BY DEF Queued
  <2> DEFINE a == queue'[j].id
             d == queue'[1].id
             n == Len(queue')
  <2>3. /\ a \in Nat /\ a + n = arrived + j
        /\ d \in Nat /\ d + n = arrived + 1
    BY <1>8, <2>1
  <2>4. n \in Nat
    BY <2>1
  <2> HIDE DEF a, d, n
  <2>5. a + 1 = d + j
    BY <1>1, <2>1, <2>3, <2>4
  <2> QED
    BY <2>2, <2>5 DEF a, d
<1>12. CASE batch' = queue'
  BY <1>1, <1>6, <1>7, <1>8, <1>10, <1>11, <1>12 DEF IdsInv
<1>13. CASE batch' = <<>>
  BY <1>1, <1>6, <1>7, <1>8, <1>13 DEF IdsInv
<1> QED
  BY <1>12, <1>13

\* A step that leaves the updates, the offset and an owner's switches alone.
LEMMA OwnerRests ==
  ASSUME NEW u \in Owners, OwnerInv(u), Queued' = Queued, UNCHANGED offset,
         marking' = u => marking = u, marking # u \/ marking' = u,
         connected'[u] => connected[u],
         failed[u] => failed'[u], wanted'[u] = wanted[u], crossed'[u] = crossed[u]
  PROVE  OwnerInv(u)'
BY DEF OwnerInv, LastStands, Open, Excused

\* An update that is no switch of u's is handled.
LEMMA OwnerPasses ==
  ASSUME InboxInv, NEW u \in Owners, NEW x, Bot!Take(x), UNCHANGED <<arrived, queue>>,
         ~SwitchOf(x, u), marking' # u,
         connected'[u] = connected[u], failed[u] => failed'[u],
         wanted'[u] = wanted[u], crossed'[u] = crossed[u]
  PROVE  OwnerInv(u)'
<1>1. Queued' = Queued /\ \A y \in Queued : y.id >= offset => y = x \/ y.id >= offset'
  BY TakeIds
<1>2. Open(u) => Open(u)'
  BY <1>1 DEF Open
<1>3. OwnerInv(u) /\ marking = Idle /\ marking # u
  BY TakeIds, InboxAssumption DEF InboxInv
<1>4. LastStands(u)' /\ (Excused(u)' <=> Excused(u))
  BY <1>1, <1>3 DEF OwnerInv, LastStands, Excused
<1> QED
  BY <1>2, <1>3, <1>4 DEF OwnerInv

\* A switch of u's is handled: if it was the last that Telegram holds, and says on, the
\* owner wants it on.
LEMMA OwnerSwitches ==
  ASSUME InboxInv, NEW u \in Owners, NEW x, Bot!Take(x), UNCHANGED <<arrived, queue>>,
         SwitchOf(x, u), wanted'[u] = wanted[u], crossed'[u] = crossed[u],
         x.kind = "start" \/ ((~connected'[u] \/ failed'[u]) /\ marking' # u),
         x.kind = "start" => marking' \in {marking, u}
  PROVE  OwnerInv(u)'
<1>1. /\ Queued' = Queued /\ x \in Queued /\ x.id \in Nat /\ offset' = x.id + 1 /\ marking = Idle
      /\ \A y \in Queued : y.id \in Nat
  BY TakeIds, QueuedType, UpdateType DEF InboxInv
<1>2. OwnerInv(u) /\ marking # u
  BY <1>1, InboxAssumption DEF InboxInv
<1>3. ASSUME ~Open(u)', x.kind = "start" PROVE Excused(u)
  <2>1. \A y \in Queued : SwitchOf(y, u) => y.id <= x.id
    BY <1>1, <1>3 DEF Open
  <2> QED
    BY <1>1, <1>2, <1>3, <2>1 DEF OwnerInv, LastStands
<1>4. LastStands(u)' /\ (Excused(u)' <=> Excused(u))
  BY <1>1, <1>2 DEF OwnerInv, LastStands, Excused
<1> QED
  BY <1>1, <1>2, <1>3, <1>4 DEF OwnerInv

\* What was written is where it was, or carried.
LEMMA TextRests ==
  ASSUME TextInv, Queued' = Queued, UNCHANGED <<offset, written, arrived>>,
         relayed \cup refused \cup unsaid \subseteq relayed' \cup refused' \cup unsaid'
  PROVE  TextInv'
BY DEF TextInv, Carried

LEMMA TextTaken ==
  ASSUME InboxInv, NEW x, Bot!Take(x), UNCHANGED <<arrived, queue, written>>,
         relayed \cup refused \cup unsaid \subseteq relayed' \cup refused' \cup unsaid',
         x.kind = "text" => x.id \in relayed' \cup refused' \cup unsaid'
  PROVE  TextInv'
<1>1. /\ Queued' = Queued /\ \A y \in Queued : y.id >= offset => y = x \/ y.id >= offset'
      /\ offset' \in Nat
  BY TakeIds
<1>2. offset \in Nat /\ \A y \in Queued : y.id \in Nat
  BY QueuedType, UpdateType DEF InboxInv, InboxTypeOK
<1>3. \A y \in Queued : y.kind = "text" /\ y.id < offset' => Carried(y.id)'
  <2> SUFFICES ASSUME NEW y \in Queued, y.kind = "text", y.id < offset'
               PROVE  Carried(y.id)'
    OBVIOUS
  <2>1. CASE y.id < offset
    BY <2>1 DEF InboxInv, TextInv, Carried
  <2>2. CASE y.id >= offset
    BY <1>1, <1>2, <2>2 DEF Carried
  <2> QED
    BY <1>2, <2>1, <2>2
<1> QED
  BY <1>1, <1>3 DEF InboxInv, TextInv, Carried

-----------------------------------------------------------------------------
(* The steps. *)

LEMMA SendKeeps ==
  ASSUME InboxInv, NEW u \in Owners, NEW kind \in Bot!Kinds, Bot!Send(u, kind)
  PROVE  InboxInv'
<1> DEFINE n == [id |-> arrived + 1, kind |-> kind, user |-> u, of |-> 0]
<1>0. /\ InboxTypeOK /\ IdsInv /\ TextInv
      /\ Bot!Arrive(kind, u, 0)
      /\ UNCHANGED <<offset, batch, marking, connected, relayed, refused, unsaid>>
  BY DEF InboxInv, Bot!Send
<1>1. n \in Bot!Updates /\ n.id = arrived + 1 /\ n.kind = kind /\ n.user = u
  BY <1>0 DEF InboxTypeOK, Bot!Updates
<1>2. /\ IdsInv' /\ arrived' \in Nat /\ queue' \in Seq(Bot!Updates)
      /\ Queued' = Queued \cup {n} /\ \A x \in Queued : x.id < n.id
  BY <1>0, <1>1, ArriveIds
<1> HIDE DEF n
<1>3. arrived' = arrived + 1 /\ arrived \in Nat /\ offset <= n.id /\ offset \in Nat
  BY <1>0, <1>1 DEF Bot!Arrive, InboxTypeOK, IdsInv
<1>4. /\ wanted' = [wanted EXCEPT ![u] = IF kind \in Bot!Switches THEN kind = "start" ELSE @]
      /\ failed' = [failed EXCEPT ![u] = @ /\ (kind \notin Bot!Switches \/ Bot!Outstanding(u))]
      /\ crossed' = [crossed EXCEPT ![u] = @ /\ (kind \notin Bot!Switches \/ Bot!Outstanding(u))]
      /\ written' = IF kind = "text" THEN written \cup {arrived'} ELSE written
  BY DEF Bot!Send
<1>5. /\ wanted' \in [Owners -> BOOLEAN] /\ failed' \in [Owners -> BOOLEAN]
      /\ crossed' \in [Owners -> BOOLEAN]
  BY <1>0, <1>4 DEF InboxTypeOK
<1>6. InboxTypeOK'
  BY <1>0, <1>2, <1>4, <1>5 DEF InboxTypeOK
<1>7. ASSUME NEW v \in Owners PROVE OwnerInv(v)'
  <2>0. OwnerInv(v)
    BY DEF InboxInv
  <2>1. CASE v = u /\ kind \in Bot!Switches
    <3>1. SwitchOf(n, v) /\ n \in Queued'
      BY <1>1, <1>2, <2>1 DEF SwitchOf
    <3>2. Open(v)'
      BY <1>0, <1>1, <1>3, <3>1 DEF Open
    <3>3. ASSUME NEW x \in Queued', x.kind = "start", \A y \in Queued' : SwitchOf(y, v) => y.id <= x.id
          PROVE  wanted'[v]
      <4>1. n.id <= x.id
        BY <3>1, <3>3
      <4>2. x = n
        BY <1>1, <1>2, <1>3, <4>1, QueuedType, UpdateType, <1>0
      <4>3. kind = "start"
        BY <1>1, <3>3, <4>2
      <4> QED
        BY <1>0, <1>4, <2>1, <4>3 DEF InboxTypeOK
    <3> QED
      BY <3>1, <3>2, <3>3 DEF OwnerInv, LastStands, Excused
  <2>2. CASE v # u \/ kind \notin Bot!Switches
    <3>1. ~SwitchOf(n, v)
      BY <1>1, <2>2 DEF SwitchOf
    <3>2. wanted'[v] = wanted[v] /\ failed'[v] = failed[v] /\ crossed'[v] = crossed[v]
      BY <1>0, <1>4, <2>2 DEF InboxTypeOK
    <3>3. Open(v)' <=> Open(v)
      BY <1>0, <1>2, <3>1 DEF Open
    <3>4. Excused(v)' <=> Excused(v)
      BY <3>2 DEF Excused
    <3>5. LastStands(v)'
      BY <1>2, <2>0, <3>1, <3>4 DEF OwnerInv, LastStands
    <3> QED
      BY <1>0, <1>2, <2>0, <3>2, <3>3, <3>4, <3>5 DEF OwnerInv
  <2> QED
    BY <2>1, <2>2
<1>8. TextInv'
  <2>1. \A x \in Queued' : x.kind = "text" /\ x.id < offset' => Carried(x.id)'
    BY <1>0, <1>1, <1>2, <1>3 DEF TextInv, Carried
  <2>2. ASSUME NEW id \in written'
        PROVE  id <= arrived' /\ (Carried(id)' \/ \E x \in Queued' : x.id = id /\ x.kind = "text")
    <3>1. CASE id \in written
      <4>1. id <= arrived /\ (Carried(id) \/ \E x \in Queued : x.id = id /\ x.kind = "text")
        BY <1>0, <3>1 DEF TextInv
      <4>2. id \in Nat
        BY <1>0, <3>1 DEF InboxTypeOK
      <4> QED
        BY <1>0, <1>2, <1>3, <4>1, <4>2 DEF Carried
    <3>2. CASE kind = "text" /\ id = arrived'
      BY <1>1, <1>2, <1>3, <3>2
    <3> QED
      BY <1>4, <2>2, <3>1, <3>2
  <2> QED
    BY <2>1, <2>2 DEF TextInv
<1> QED
  BY <1>2, <1>6, <1>7, <1>8 DEF InboxInv

LEMMA OperatorKeeps ==
  ASSUME InboxInv, NEW of \in Nat, Bot!Operator(of)
  PROVE  InboxInv'
<1> DEFINE n == [id |-> arrived + 1, kind |-> "reply", user |-> Idle, of |-> of]
<1>0. /\ InboxTypeOK /\ IdsInv /\ TextInv
      /\ Bot!Arrive("reply", Idle, of)
      /\ UNCHANGED <<offset, batch, marking, connected, relayed, refused, unsaid, written, wanted,
                     failed, crossed>>
  BY DEF InboxInv, Bot!Operator, Bot!history
<1>1. n \in Bot!Updates /\ n.id = arrived + 1 /\ n.kind = "reply" /\ n.user = Idle
  BY <1>0 DEF InboxTypeOK, Bot!Updates
<1>2. /\ IdsInv' /\ arrived' \in Nat /\ queue' \in Seq(Bot!Updates)
      /\ Queued' = Queued \cup {n} /\ \A x \in Queued : x.id < n.id
  BY <1>0, <1>1, ArriveIds
<1> HIDE DEF n
<1>3. InboxTypeOK'
  BY <1>0, <1>2 DEF InboxTypeOK
<1>4. ASSUME NEW v \in Owners PROVE OwnerInv(v)'
  <2>1. ~SwitchOf(n, v)
    BY <1>1, InboxAssumption DEF SwitchOf
  <2>2. (Open(v)' <=> Open(v)) /\ (Excused(v)' <=> Excused(v)) /\ OwnerInv(v)
    BY <1>0, <1>2, <2>1 DEF Open, Excused, InboxInv
  <2>3. LastStands(v)'
    BY <1>2, <2>1, <2>2 DEF OwnerInv, LastStands
  <2> QED
    BY <1>0, <1>2, <2>2, <2>3 DEF OwnerInv
<1>5. TextInv'
  <2>1. \A x \in Queued' : x.kind = "text" /\ x.id < offset' => Carried(x.id)'
    BY <1>0, <1>1, <1>2 DEF TextInv, Carried
  <2>2. ASSUME NEW id \in written'
        PROVE  id <= arrived' /\ (Carried(id)' \/ \E x \in Queued' : x.id = id /\ x.kind = "text")
    <3>1. id <= arrived /\ (Carried(id) \/ \E x \in Queued : x.id = id /\ x.kind = "text")
      BY <1>0 DEF TextInv
    <3>2. arrived' = arrived + 1 /\ arrived \in Nat /\ id \in Nat
      BY <1>0 DEF Bot!Arrive, InboxTypeOK
    <3> QED
      BY <1>0, <1>2, <3>1, <3>2 DEF Carried
  <2> QED
    BY <2>1, <2>2 DEF TextInv
<1> QED
  BY <1>2, <1>3, <1>4, <1>5 DEF InboxInv

\* The clock, the subscription, and the settings page.
LEMMA AroundKeeps ==
  ASSUME InboxInv,
         \/ Bot!Tick \/ UNCHANGED Bot!vars
         \/ \E u \in Owners : Bot!Subscribe(u) \/ Bot!DeleteTelegramBot(u)
  PROVE  InboxInv'
<1>1. /\ UNCHANGED <<queue, arrived, offset, batch, marking, written, relayed, refused, unsaid>>
      /\ Queued' = Queued
  BY DEF Bot!Tick, Bot!vars, Bot!Subscribe, Bot!DeleteTelegramBot, Bot!history, Queued
<1>2. IdsInv' /\ TextInv'
  BY <1>1 DEF InboxInv, IdsInv, TextInv, Carried
<1>3. CASE UNCHANGED <<connected, wanted, failed, crossed>>
  BY <1>1, <1>2, <1>3, OwnerRests DEF InboxInv, InboxTypeOK
<1>4. ASSUME NEW u \in Owners, Bot!DeleteTelegramBot(u)
      PROVE  InboxInv'
  <2>1. /\ connected' = [connected EXCEPT ![u] = FALSE]
        /\ wanted' = [wanted EXCEPT ![u] = FALSE]
        /\ crossed' = [crossed EXCEPT ![u] = @ \/ Bot!Outstanding(u)]
        /\ UNCHANGED failed
    BY <1>4 DEF Bot!DeleteTelegramBot
  <2>2. InboxTypeOK'
    BY <1>1, <2>1 DEF InboxInv, InboxTypeOK
  <2>3. ~connected'[u] /\ (Bot!Outstanding(u) => crossed'[u])
    BY <2>1 DEF InboxInv, InboxTypeOK
  <2>4. (\E x \in Queued : SwitchOf(x, u)) => Bot!Outstanding(u)
    BY DEF Queued, SwitchOf, Bot!Outstanding
  <2>5. OwnerInv(u)'
    BY <1>1, <2>3, <2>4 DEF InboxInv, OwnerInv, LastStands, Excused
  <2>6. ASSUME NEW v \in Owners, v # u PROVE OwnerInv(v)'
    <3>1. connected'[v] = connected[v] /\ wanted'[v] = wanted[v] /\ crossed'[v] = crossed[v]
      BY <2>1, <2>6 DEF InboxInv, InboxTypeOK
    <3> QED
      BY <1>1, <2>1, <3>1, OwnerRests DEF InboxInv
  <2> QED
    BY <1>2, <2>2, <2>5, <2>6 DEF InboxInv
<1> QED
  BY <1>3, <1>4 DEF Bot!Tick, Bot!vars, Bot!Subscribe, Bot!history

LEMMA GetUpdatesKeeps ==
  ASSUME InboxInv, Bot!GetUpdates
  PROVE  InboxInv'
<1>1. /\ queue' = Bot!HeldFrom(offset)
      /\ batch' = queue' \/ batch' = <<>>
      /\ marking = Idle
      /\ UNCHANGED <<arrived, offset, marking, connected, wanted, failed, crossed, written,
                     relayed, refused, unsaid>>
  BY DEF Bot!GetUpdates, Bot!Working, Bot!history
<1>2. /\ IdsInv' /\ queue' \in Seq(Bot!Updates) /\ batch' \in Seq(Bot!Updates)
      /\ Queued' = {x \in Queued : x.id >= offset}
  BY <1>1, HeldIds
<1>3. InboxTypeOK'
  BY <1>1, <1>2 DEF InboxInv, InboxTypeOK
<1>4. \A x \in Queued : x.id \in Nat /\ offset \in Nat
  BY QueuedType, UpdateType DEF InboxInv, InboxTypeOK
<1>5. ASSUME NEW u \in Owners PROVE OwnerInv(u)'
  <2>1. (Open(u)' <=> Open(u)) /\ (Excused(u)' <=> Excused(u)) /\ OwnerInv(u) /\ marking # u
    BY <1>1, <1>2, InboxAssumption DEF Open, Excused, InboxInv
  <2>2. LastStands(u)'
    <3> SUFFICES ASSUME NEW x \in Queued', SwitchOf(x, u), x.kind = "start",
                        \A y \in Queued' : SwitchOf(y, u) => y.id <= x.id
                 PROVE  Excused(u)
      BY <2>1 DEF LastStands
    <3>1. x \in Queued /\ x.id >= offset
      BY <1>2
    <3>2. \A y \in Queued : SwitchOf(y, u) => y.id <= x.id
      BY <1>2, <1>4, <3>1
    <3> QED
      BY <2>1, <3>1, <3>2 DEF OwnerInv, LastStands
  <2> QED
    BY <1>1, <2>1, <2>2 DEF OwnerInv
<1>6. TextInv'
  <2>1. \A x \in Queued' : x.kind = "text" /\ x.id < offset' => Carried(x.id)'
    BY <1>1, <1>2, <1>4
  <2>2. ASSUME NEW id \in written
        PROVE  id <= arrived /\ (Carried(id) \/ \E x \in Queued' : x.id = id /\ x.kind = "text")
    <3>1. id <= arrived /\ (Carried(id) \/ \E x \in Queued : x.id = id /\ x.kind = "text")
      BY DEF InboxInv, TextInv
    <3>2. \A x \in Queued : x.kind = "text" /\ ~(x.id >= offset) => Carried(x.id)
      BY <1>4 DEF InboxInv, TextInv
    <3> QED
      BY <1>2, <3>1, <3>2
  <2> QED
    BY <1>1, <2>1, <2>2 DEF TextInv, Carried
<1> QED
  BY <1>2, <1>3, <1>5, <1>6 DEF InboxInv

LEMMA MarkKeeps ==
  ASSUME InboxInv, Bot!MarkBotConnected
  PROVE  InboxInv'
<1>1. /\ marking # Idle /\ marking' = Idle
      /\ UNCHANGED <<queue, arrived, offset, batch, wanted, failed, crossed, written, relayed,
                     refused, unsaid>>
      /\ Queued' = Queued
      /\ connected' = connected \/ connected' = [connected EXCEPT ![marking] = TRUE]
  BY DEF Bot!MarkBotConnected, Bot!world, Queued
<1>2. IdsInv' /\ TextInv'
  BY <1>1 DEF InboxInv, IdsInv, TextInv, Carried
<1>3. InboxTypeOK'
  BY <1>1 DEF InboxInv, InboxTypeOK
<1>4. ASSUME NEW u \in Owners PROVE OwnerInv(u)'
  <2>1. (Open(u)' <=> Open(u)) /\ (Excused(u)' <=> Excused(u)) /\ OwnerInv(u) /\ marking' # u
    BY <1>1, InboxAssumption DEF Open, Excused, InboxInv
  <2>2. LastStands(u)'
    BY <1>1, <2>1 DEF OwnerInv, LastStands
  <2>3. CASE u = marking
    BY <1>1, <2>1, <2>2, <2>3 DEF OwnerInv
  <2>4. CASE u # marking
    <3>1. connected'[u] = connected[u]
      BY <1>1, <2>4 DEF InboxInv, InboxTypeOK
    <3> QED
      BY <1>1, <2>1, <2>2, <2>4, <3>1 DEF OwnerInv
  <2> QED
    BY <2>3, <2>4
<1> QED
  BY <1>2, <1>3, <1>4 DEF InboxInv

\* The handlers: a command is of one owner, and the others' switches rest.
LEMMA HandlerKeeps ==
  ASSUME InboxInv, NEW x, Bot!Take(x), UNCHANGED <<queue, arrived, wanted, crossed, written>>,
         relayed' \in SUBSET Nat,
         relayed \cup refused \cup unsaid \subseteq relayed' \cup refused' \cup unsaid',
         x.kind = "text" => x.id \in relayed' \cup refused' \cup unsaid',
         connected' \in [Owners -> BOOLEAN], failed' \in [Owners -> BOOLEAN],
         marking' = marking \/ (x.kind = "start" /\ marking' = x.user),
         \A u \in Owners : ~SwitchOf(x, u) => connected'[u] = connected[u] /\ failed'[u] = failed[u],
         \A u \in Owners :
           SwitchOf(x, u) /\ x.kind # "start" => ~connected'[u] \/ failed'[u]
  PROVE  InboxInv'
<1>1. /\ x \in Queued /\ x \in Bot!Updates /\ marking = Idle /\ IdsInv' /\ offset' \in Nat
      /\ batch' \in Seq(Bot!Updates)
  BY TakeIds
<1>2. x.kind = "start" => x.user \in Owners
  BY <1>1, UpdateType DEF Bot!Kinds
<1>3. InboxTypeOK'
  BY <1>1, <1>2 DEF InboxInv, InboxTypeOK
<1>4. TextInv'
  BY TextTaken
<1>5. ASSUME NEW u \in Owners PROVE OwnerInv(u)'
  <2>1. CASE SwitchOf(x, u)
    <3>1. x.kind # "start" => ~connected'[u] \/ failed'[u]
      BY <2>1
    <3>2. x.kind # "start" => marking' # u
      BY <1>1, InboxAssumption
    <3>3. x.kind = "start" => marking' \in {marking, u}
      BY <2>1 DEF SwitchOf
    <3> QED
      BY <2>1, <3>1, <3>2, <3>3, OwnerSwitches
  <2>2. CASE ~SwitchOf(x, u)
    <3>1. marking' # u
      BY <1>1, <2>2, InboxAssumption DEF SwitchOf, Bot!Switches
    <3> QED
      BY <2>2, <3>1, OwnerPasses
  <2> QED
    BY <2>1, <2>2
<1> QED
  BY <1>1, <1>3, <1>4, <1>5 DEF InboxInv

LEMMA StartKeeps ==
  ASSUME InboxInv, Bot!Start
  PROVE  InboxInv'
<1>1. PICK x \in {batch[i] : i \in DOMAIN batch} :
        /\ Bot!Take(x) /\ x.kind = "start"
        /\ marking' = x.user \/ marking' = marking
        /\ UNCHANGED <<queue, arrived, wanted, crossed, written, connected, relayed, refused, unsaid,
                       failed>>
  BY DEF Bot!Start, Bot!world
<1>2. /\ connected' \in [Owners -> BOOLEAN] /\ failed' \in [Owners -> BOOLEAN]
      /\ relayed' \in SUBSET Nat
  BY <1>1 DEF InboxInv, InboxTypeOK
<1> QED
  BY <1>1, <1>2, HandlerKeeps

LEMMA StopKeeps ==
  ASSUME InboxInv, Bot!Stop
  PROVE  InboxInv'
<1>1. PICK x \in {batch[i] : i \in DOMAIN batch} :
        /\ Bot!Take(x) /\ Bot!Gone(x.kind)
        /\ \/ connected' = [connected EXCEPT ![x.user] = FALSE] /\ UNCHANGED failed
           \/ UNCHANGED connected /\ failed' = [failed EXCEPT ![x.user] = TRUE]
        /\ UNCHANGED <<queue, arrived, wanted, crossed, written, marking, relayed, refused, unsaid>>
  BY DEF Bot!Stop, Bot!world
<1>2. x \in Bot!Updates
  BY <1>1, TakeIds
<1>3. x.user \in Owners /\ x.kind # "text" /\ x.kind # "start"
  BY <1>1, <1>2, UpdateType DEF Bot!Gone, Bot!Kinds
<1>4. /\ connected' \in [Owners -> BOOLEAN] /\ failed' \in [Owners -> BOOLEAN]
      /\ relayed' \in SUBSET Nat
  BY <1>1 DEF InboxInv, InboxTypeOK
<1>5. ~connected'[x.user] \/ failed'[x.user]
  BY <1>1, <1>3 DEF InboxInv, InboxTypeOK
<1>6. ASSUME NEW u \in Owners, u # x.user
      PROVE  connected'[u] = connected[u] /\ failed'[u] = failed[u]
  BY <1>1, <1>6 DEF InboxInv, InboxTypeOK
<1>7. SwitchOf(x, x.user)
  BY <1>1 DEF SwitchOf, Bot!Gone, Bot!Switches
<1>8. \A u \in Owners : ~SwitchOf(x, u) => connected'[u] = connected[u] /\ failed'[u] = failed[u]
  BY <1>6, <1>7
<1>9. \A u \in Owners : SwitchOf(x, u) /\ x.kind # "start" => ~connected'[u] \/ failed'[u]
  BY <1>5 DEF SwitchOf
<1> QED
  BY <1>1, <1>3, <1>4, <1>8, <1>9, HandlerKeeps

\* A support message, a reply, or a command without effect.
LEMMA SupportKeeps ==
  ASSUME InboxInv, Bot!Relay \/ Bot!Reply \/ Bot!Hint
  PROVE  InboxInv'
<1>1. PICK x \in {batch[i] : i \in DOMAIN batch} :
        /\ Bot!Take(x) /\ x.kind \in {"text", "reply", "help"}
        /\ relayed' \in {relayed, relayed \cup {x.id}}
        /\ relayed \cup refused \cup unsaid \subseteq relayed' \cup refused' \cup unsaid'
        /\ x.kind = "text" => x.id \in relayed' \cup refused' \cup unsaid'
        /\ UNCHANGED <<queue, arrived, wanted, crossed, written, marking, connected, failed>>
  <2>1. CASE Bot!Relay
    <3>1. PICK x \in {batch[i] : i \in DOMAIN batch} :
            /\ Bot!Take(x) /\ x.kind = "text"
            /\ UNCHANGED <<queue, arrived, wanted, crossed, written, marking, connected, failed>>
            /\ \/ Bot!Refuse(x.id) /\ UNCHANGED relayed
               \/ relayed' = relayed \cup {x.id} /\ UNCHANGED <<refused, unsaid>>
               \/ /\ relayed' \in {relayed, relayed \cup {x.id}}
                  /\ \/ refused' = refused \cup {x.id} /\ UNCHANGED unsaid
                     \/ unsaid' = unsaid \cup {x.id} /\ UNCHANGED refused
      BY <2>1 DEF Bot!Relay, Bot!world
    <3>2. /\ relayed' \in {relayed, relayed \cup {x.id}}
          /\ relayed \cup refused \cup unsaid \subseteq relayed' \cup refused' \cup unsaid'
          /\ x.id \in relayed' \cup refused' \cup unsaid'
      BY <3>1 DEF Bot!Refuse
    <3> QED
      BY <3>1, <3>2
  <2>2. CASE Bot!Reply \/ Bot!Hint
    BY <2>2 DEF Bot!Reply, Bot!Hint, Bot!world
  <2> QED
    BY <2>1, <2>2
<1>2. x.id \in Nat
  BY <1>1, TakeIds, UpdateType
<1>3. /\ connected' \in [Owners -> BOOLEAN] /\ failed' \in [Owners -> BOOLEAN]
      /\ relayed' \in SUBSET Nat
  BY <1>1, <1>2 DEF InboxInv, InboxTypeOK
<1>4. \A u \in Owners : ~SwitchOf(x, u)
  BY <1>1 DEF SwitchOf, Bot!Switches
<1> QED
  BY <1>1, <1>3, <1>4, HandlerKeeps

\* After a restart whatever Telegram still holds is handled again.
LEMMA RestartKeeps ==
  ASSUME InboxInv, Bot!Restart
  PROVE  InboxInv'
<1>1. /\ offset' = 0 /\ batch' = <<>> /\ marking' = Idle /\ Queued' = Queued
      /\ UNCHANGED <<queue, arrived, wanted, crossed, written, connected, relayed, refused,
                     unsaid, failed>>
  BY DEF Bot!Restart, Bot!world, Queued
<1>2. InboxTypeOK'
  BY <1>1 DEF InboxInv, InboxTypeOK
<1>3. \A x \in Queued : x.id \in Nat
  BY QueuedType, UpdateType DEF InboxInv
<1>4. IdsInv' /\ TextInv'
  BY <1>1, <1>3 DEF InboxInv, InboxTypeOK, IdsInv, TextInv, Carried
<1>5. ASSUME NEW u \in Owners PROVE OwnerInv(u)'
  <2>1. OwnerInv(u) /\ (Excused(u)' <=> Excused(u)) /\ marking' # u
    BY <1>1, InboxAssumption DEF InboxInv, Excused
  <2>2. Open(u)' <=> \E x \in Queued : SwitchOf(x, u)
    BY <1>1, <1>3 DEF Open
  <2>3. LastStands(u)' /\ (Open(u) => Open(u)')
    BY <1>1, <2>1, <2>2 DEF OwnerInv, LastStands, Open
  <2> QED
    BY <1>1, <2>1, <2>2, <2>3 DEF OwnerInv
<1> QED
  BY <1>2, <1>4, <1>5 DEF InboxInv

LEMMA InboxStep == InboxInv /\ [Bot!Next]_(Bot!vars) => InboxInv'
<1> SUFFICES ASSUME InboxInv, [Bot!Next]_(Bot!vars) PROVE InboxInv'
  OBVIOUS
<1>1. ASSUME NEW u \in Owners, NEW kind \in Bot!Kinds, Bot!Send(u, kind) PROVE InboxInv'
  BY <1>1, SendKeeps
<1>2. ASSUME NEW of \in relayed \cup {0}, Bot!Operator(of) PROVE InboxInv'
  <2>1. of \in Nat
    BY DEF InboxInv, InboxTypeOK
  <2> QED
    BY <1>2, <2>1, OperatorKeeps
<1>3. CASE \/ Bot!Tick \/ UNCHANGED Bot!vars
           \/ \E u \in Owners : Bot!Subscribe(u) \/ Bot!DeleteTelegramBot(u)
  BY <1>3, AroundKeeps
<1>4. CASE Bot!GetUpdates \/ Bot!MarkBotConnected \/ Bot!Restart
  BY <1>4, GetUpdatesKeeps, MarkKeeps, RestartKeeps
<1>5. CASE Bot!Start \/ Bot!Stop \/ Bot!Relay \/ Bot!Reply \/ Bot!Hint
  BY <1>5, StartKeeps, StopKeeps, SupportKeeps
<1> QED
  BY <1>1, <1>2, <1>3, <1>4, <1>5 DEF Bot!Next

-----------------------------------------------------------------------------
\* Updates lie in the order of their ids and are handled as a stretch without gaps; the
\* inbox asks past nothing it has not handled; and a row that says connected although
\* the owner switched off belongs to an owner of whom a switch is still to be handled
\* (bot_inbox.go, Run, handleUpdate and the handlers, restarts included).
THEOREM InboxInvariant == Bot!Spec => []InboxInv
<1>1. Bot!Init => InboxInv
  BY InboxInit
<1>2. InboxInv /\ [Bot!Next]_(Bot!vars) => InboxInv'
  BY InboxStep
<1> QED
  BY <1>1, <1>2, PTL DEF Bot!Spec

LEMMA LetGo == InboxInv => LetGoIsDone
<1> SUFFICES ASSUME InboxInv PROVE LetGoIsDone
  OBVIOUS
<1>1. ASSUME NEW u \in Owners, ~Bot!Outstanding(u), connected[u]
      PROVE  wanted[u] \/ failed[u] \/ crossed[u]
  <2>1. ~\E x \in Queued : SwitchOf(x, u)
    BY <1>1 DEF Bot!Outstanding, Queued, SwitchOf
  <2>2. ~Open(u) /\ marking # u
    BY <2>1 DEF InboxInv, OwnerInv, Open
  <2> QED
    BY <1>1, <2>2 DEF InboxInv, OwnerInv, Excused
<1>2. ASSUME NEW id \in written, \A i \in DOMAIN queue : queue[i].id # id
      PROVE  id \in relayed \cup refused \cup unsaid
  BY <1>2 DEF InboxInv, TextInv, Carried, Queued
<1> QED
  BY <1>1, <1>2 DEF LetGoIsDone, Bot!LetGoIsDone

\* Once Telegram has let go of an owner's updates, whoever switched the notifications off
\* last gets none, unless the write of the switch failed or the settings page crossed
\* updates not yet confirmed; and a support message it has let go of reached the support
\* chat, its author was told that it did not, or that answer could not be sent.  For any
\* number of users, updates, restarts and failures (bot_inbox.go, Run and handleUpdate).
THEOREM LetGoHasEffect == Bot!Spec => []LetGoIsDone
BY InboxInvariant, LetGo, PTL
=============================================================================
