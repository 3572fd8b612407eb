------------------------ MODULE NotificationDelivery ------------------------
(***************************************************************************)
(* How an alert found by the notifier's scan reaches the user.             *)
(*                                                                         *)
(* The notifier process (ScanUseCase.Run, DeliverUseCase) records each     *)
(* alert in its SQLite ledger, publishes it on the Redis stream or, when   *)
(* Redis fails, writes the notification table itself, and pushes it to     *)
(* Telegram; RetryPending repeats what the ledger says is missing.  The    *)
(* API process (Consumer) copies the stream into the notification table.   *)
(* Ledger, stream and table are three stores with no transaction across    *)
(* them, so every write is a step and either process may die in between.   *)
(*                                                                         *)
(* An alert is its fingerprint.  A payload is full, or restored from the   *)
(* ledger without its prices, lots and attribution (alertFromLedger).      *)
(***************************************************************************)
EXTENDS Integers, Sequences

CONSTANTS
  Alerts,        \* fingerprints of the alerts the scan can find
  Portfolios,    \* trading portfolios
  PortfolioOf,   \* Alerts -> Portfolios
  Pushable,      \* the alerts TelegramAllowedForAlert lets through
  Cooldown,      \* PutOfferTelegramCooldownHours
  BatchSize,     \* COUNT of XREADGROUP
  MaxTime,       \* bound on the clock
  MaxMessages,   \* bound on the stream: an XADD beyond it fails
  MaxFaults,     \* bound on notifier crashes, failed writes, lost answers
  MaxApiFaults,  \* bound on API restarts and failed table writes
  NoTime, NoAlert

ASSUME DeliveryAssumption ==
  /\ PortfolioOf \in [Alerts -> Portfolios]
  /\ Pushable \subseteq Alerts
  /\ Cooldown \in Nat \ {0} /\ BatchSize \in Nat \ {0}
  /\ MaxTime \in Nat /\ MaxMessages \in Nat
  /\ MaxFaults \in Nat /\ MaxApiFaults \in Nat
  /\ NoTime \notin Nat /\ NoAlert \notin Alerts

VARIABLES
  now,       \* the wall clock
  active,    \* alerts a scan would find now
  attached,  \* portfolios in trading mode with a broker account
  gate,      \* the owner pays and has started the bot (CanReceiveTelegram)
  ledger,    \* delivery_ledger: the notifier's private outbox
  stream,    \* the Redis stream, never trimmed
  group,     \* the consumer group: last delivered entry, pending entries
  inbox,     \* user_notifications
  notifier,  \* the notifier's frame
  api,       \* the API's consumer goroutine
  pushed,    \* history: when the alert was last pushed
  repeats,   \* history: pushes within the cooldown of the one before
  faults, apiFaults

user  == <<active, attached, gate>>
stores == <<ledger, stream, inbox>>
vars  == <<now, user, stores, group, notifier, api, pushed, repeats, faults, apiFaults>>

\* A ledger row is [known, bus, tg], an inbox row [shown, full, read, dismissed], a
\* message [alert, full].  A frame of the notifier is the for statement it is in
\* (loop), the call it makes next (pc), the owners and names collected by Run
\* (listed), the portfolios still to scan (left), the alerts still to visit (todo),
\* the alert at hand, and whether Redis answered the ping at start (bus).

Asleep(bus) ==
  [loop |-> "none", pc |-> "idle", listed |-> {}, left |-> {}, todo |-> {},
   alert |-> NoAlert, bus |-> bus]

Init ==
  /\ now = 0
  /\ active = {} /\ attached = Portfolios /\ gate \in BOOLEAN
  /\ ledger = [a \in Alerts |-> [known |-> FALSE, bus |-> FALSE, tg |-> NoTime]]
  /\ stream = <<>>
  /\ group = [last |-> 0, pending |-> {}]
  /\ inbox = [a \in Alerts |->
                [shown |-> FALSE, full |-> FALSE, read |-> FALSE, dismissed |-> FALSE]]
  /\ \E bus \in BOOLEAN : notifier = Asleep(bus)
  /\ api = [running |-> TRUE, batch |-> <<>>]
  /\ pushed = [a \in Alerts |-> NoTime]
  /\ repeats = 0 /\ faults = 0 /\ apiFaults = 0

-----------------------------------------------------------------------------
(* Helpers. *)

Fault == faults < MaxFaults /\ faults' = faults + 1

ApiFault == apiFaults < MaxApiFaults /\ apiFaults' = apiFaults + 1

UpsertedRow(row, full) == [row EXCEPT !.shown = TRUE, !.full = full]

UpsertFromBus(a, full) == inbox' = [inbox EXCEPT ![a] = UpsertedRow(@, full)]

\* mutant: a row in the ledger is taken for a published one
Recorded(row) == row.known

AlreadyPublished(row) == row.bus

PendingBus(row) == row.known /\ ~row.bus

\* mutant: the condition copied from ListPendingBus
PendingBoth(row) == row.known /\ row.tg = NoTime /\ ~row.bus

PendingTelegram(row) == row.known /\ row.tg = NoTime

ShouldSendTelegram(row) == row.tg # NoTime => now - row.tg >= Cooldown

\* mutant: the mark stores the start of the cooldown, not its end
Backdated(row) == [row EXCEPT !.tg = now - Cooldown]

TelegramSent(row) == [row EXCEPT !.tg = now]

\* The frame moves on to the next alert of its loop.
NextAlert(n) == [n EXCEPT !.pc = "next", !.alert = NoAlert]

\* scanPortfolio returns the error: the rest of this portfolio is skipped.  In
\* RetryPending the error is dropped.
\* mutant: ProcessAlert drops it too and marks the alert
MarkAnyway(n) == [n EXCEPT !.pc = "mark"]

AfterFailedWrite(n) ==
  IF n.loop = "scan" THEN [NextAlert(n) EXCEPT !.todo = {}] ELSE NextAlert(n)

\* After publishBus: ProcessAlert pushes to Telegram, RetryPending goes on.
AfterPublish(n) == IF n.loop = "scan" THEN [n EXCEPT !.pc = "push"] ELSE NextAlert(n)

\* A write to the bus or to the table is marked in the ledger.
AfterWrite(n) == [n EXCEPT !.pc = "mark"]

FullPayload(n) == n.loop = "scan"

-----------------------------------------------------------------------------
(* The notifier: Run scans every portfolio, then RetryPending.             *)

ScanBegin ==
  /\ notifier.pc = "idle"
  /\ notifier' = [notifier EXCEPT !.loop = "scan", !.pc = "next",
                                  !.listed = attached, !.left = attached]
  /\ UNCHANGED <<now, user, stores, group, api, pushed, repeats, faults, apiFaults>>

\* scanPortfolio: collect the alerts, or give up on the portfolio (no
\* credentials, a broker error, no bonds).
ScanPortfolio(p) ==
  /\ notifier.loop = "scan" /\ notifier.pc = "next" /\ notifier.todo = {}
  /\ p \in notifier.left
  /\ \E found \in {{}, {a \in active : PortfolioOf[a] = p}} :
       notifier' = [notifier EXCEPT !.left = @ \ {p}, !.todo = found]
  /\ UNCHANGED <<now, user, stores, group, api, pushed, repeats, faults, apiFaults>>

\* The head of publishBus: Get tells whether the alert is published; when the
\* query fails, it is taken for unpublished.
PublishUnlessDone(n) ==
  \/ /\ notifier' = IF AlreadyPublished(ledger[n.alert]) THEN AfterPublish(n)
                                                         ELSE [n EXCEPT !.pc = "publish"]
     /\ UNCHANGED faults
  \/ /\ AlreadyPublished(ledger[n.alert])
     /\ Fault
     /\ notifier' = [n EXCEPT !.pc = "publish"]

\* ProcessAlert: EnsureDetected inserts the row or leaves the one there is.
Detect(a) ==
  /\ notifier.loop = "scan" /\ notifier.pc = "next" /\ a \in notifier.todo
  /\ \/ /\ ledger' = [ledger EXCEPT ![a].known = TRUE]
        /\ PublishUnlessDone([notifier EXCEPT !.alert = a, !.todo = @ \ {a}])
     \/ /\ Fault
        /\ notifier' = AfterFailedWrite(notifier)
        /\ UNCHANGED ledger
  /\ UNCHANGED <<now, user, stream, inbox, group, api, pushed, repeats, apiFaults>>

\* XADD; it may be answered with an error, having been carried out or not.
PublishBus ==
  /\ notifier.pc = "publish" /\ notifier.bus
  /\ LET added == Append(stream, [alert |-> notifier.alert, full |-> FullPayload(notifier)])
     IN  \/ /\ Len(stream) < MaxMessages
            /\ stream' = added
            /\ notifier' = AfterWrite(notifier)
            /\ UNCHANGED faults
         \/ /\ Fault
            /\ stream' \in {stream} \cup (IF Len(stream) < MaxMessages THEN {added} ELSE {})
            /\ notifier' = [notifier EXCEPT !.pc = "direct"]
         \/ /\ Len(stream) = MaxMessages
            /\ notifier' = [notifier EXCEPT !.pc = "direct"]
            /\ UNCHANGED <<stream, faults>>
  /\ UNCHANGED <<now, user, ledger, inbox, group, api, pushed, repeats, apiFaults>>

\* The notifier writes the notification table itself.  UpsertFromBus reads the
\* row back: it can fail with the row written.
PublishDirect ==
  /\ \/ notifier.pc = "direct"
     \/ notifier.pc = "publish" /\ ~notifier.bus
  /\ \/ /\ UpsertFromBus(notifier.alert, FullPayload(notifier))
        /\ notifier' = AfterWrite(notifier)
        /\ UNCHANGED faults
     \/ /\ Fault
        /\ UpsertFromBus(notifier.alert, FullPayload(notifier)) \/ UNCHANGED inbox
        /\ notifier' = AfterFailedWrite(notifier)
  /\ UNCHANGED <<now, user, ledger, stream, group, api, pushed, repeats, apiFaults>>

\* MarkBusPublished; its error is dropped.
MarkBusPublished ==
  /\ notifier.pc = "mark"
  /\ \/ /\ ledger' = [ledger EXCEPT ![notifier.alert].bus = TRUE]
        /\ UNCHANGED faults
     \/ Fault /\ UNCHANGED ledger
  /\ notifier' = AfterPublish(notifier)
  /\ UNCHANGED <<now, user, stream, inbox, group, api, pushed, repeats, apiFaults>>

\* The early returns of sendTelegramIfNeeded before the ledger is read.
\* RetryPending knows the owners of the portfolios Run has listed.
CanReceiveTelegram(a) == a \in Pushable /\ PortfolioOf[a] \in notifier.listed /\ gate

PushSkip ==
  /\ notifier.pc = "push"
  /\ CanReceiveTelegram(notifier.alert) => ~ShouldSendTelegram(ledger[notifier.alert])
  /\ notifier' = NextAlert(notifier)
  /\ UNCHANGED <<now, user, stores, group, api, pushed, repeats, faults, apiFaults>>

Deliver(a) ==
  /\ pushed' = [pushed EXCEPT ![a] = now]
  /\ repeats' = repeats + IF pushed[a] # NoTime /\ now - pushed[a] < Cooldown THEN 1 ELSE 0

\* SendToChat; it may report a failure, having delivered the message or not.  A
\* failed Get reads as never sent.
Push ==
  /\ notifier.pc = "push"
  /\ CanReceiveTelegram(notifier.alert)
  /\ \/ /\ ShouldSendTelegram(ledger[notifier.alert])
        /\ Deliver(notifier.alert)
        /\ notifier' = [notifier EXCEPT !.pc = "confirm"]
        /\ UNCHANGED faults
     \/ /\ ~ShouldSendTelegram(ledger[notifier.alert])
        /\ Fault
        /\ Deliver(notifier.alert)
        /\ notifier' = [notifier EXCEPT !.pc = "confirm"]
     \/ /\ ShouldSendTelegram(ledger[notifier.alert])
        /\ Fault
        /\ Deliver(notifier.alert) \/ UNCHANGED <<pushed, repeats>>
        /\ notifier' = NextAlert(notifier)
  /\ UNCHANGED <<now, user, stores, group, api, apiFaults>>

\* MarkTelegramSent; its error is dropped.
MarkTelegramSent ==
  /\ notifier.pc = "confirm"
  /\ \/ /\ ledger' = [ledger EXCEPT ![notifier.alert] = TelegramSent(@)]
        /\ UNCHANGED faults
     \/ Fault /\ UNCHANGED ledger
  /\ notifier' = NextAlert(notifier)
  /\ UNCHANGED <<now, user, stream, inbox, group, api, pushed, repeats, apiFaults>>

\* RetryPending: the list of unpublished alerts, then that of unsent ones.
RetryList ==
  /\ notifier.pc = "next" /\ notifier.todo = {}
  /\ \/ /\ notifier.loop = "scan" /\ notifier.left = {}
        /\ notifier' = [notifier EXCEPT !.loop = "bus",
                                        !.todo = {a \in Alerts : PendingBus(ledger[a])}]
     \/ /\ notifier.loop = "bus"
        /\ notifier' = [notifier EXCEPT !.loop = "telegram",
                                        !.todo = {a \in Alerts : PendingTelegram(ledger[a])}]
     \/ /\ notifier.loop = "telegram"
        /\ notifier' = Asleep(notifier.bus)
  /\ UNCHANGED <<now, user, stores, group, api, pushed, repeats, faults, apiFaults>>

RetryBus(a) ==
  /\ notifier.loop = "bus" /\ notifier.pc = "next" /\ a \in notifier.todo
  /\ PublishUnlessDone([notifier EXCEPT !.alert = a, !.todo = @ \ {a}])
  /\ UNCHANGED <<now, user, stores, group, api, pushed, repeats, apiFaults>>

RetryTelegram(a) ==
  /\ notifier.loop = "telegram" /\ notifier.pc = "next" /\ a \in notifier.todo
  /\ notifier' = [notifier EXCEPT !.pc = "push", !.alert = a, !.todo = @ \ {a}]
  /\ UNCHANGED <<now, user, stores, group, api, pushed, repeats, faults, apiFaults>>

\* A crash or an error of the two list queries ends the cycle; a restarted
\* notifier uses Redis only if it answers the first ping.
NotifierRestart ==
  /\ Fault
  /\ \E bus \in BOOLEAN : notifier' = Asleep(bus)
  /\ UNCHANGED <<now, user, stores, group, api, pushed, repeats, apiFaults>>

-----------------------------------------------------------------------------
(* The API: Consumer.loop. *)

\* XREADGROUP with ">": entries never delivered to the group, which become
\* pending in it.
ReadGroup ==
  /\ api.running /\ api.batch = <<>>
  /\ group.last < Len(stream)
  /\ LET end == IF group.last + BatchSize < Len(stream) THEN group.last + BatchSize
                                                        ELSE Len(stream)
     IN  /\ api' = [api EXCEPT !.batch = [i \in 1 .. end - group.last |-> group.last + i]]
         /\ group' = [last |-> end, pending |-> group.pending \cup (group.last + 1 .. end)]
  /\ UNCHANGED <<now, user, stores, notifier, pushed, repeats, faults, apiFaults>>

\* Upsert and acknowledge; a failed upsert skips the message, and the error of
\* an acknowledgement is dropped.
Consume ==
  /\ api.running /\ api.batch # <<>>
  /\ LET i == Head(api.batch)
     IN  \/ /\ UpsertFromBus(stream[i].alert, stream[i].full)
            /\ group' = [group EXCEPT !.pending = @ \ {i}]
            /\ UNCHANGED apiFaults
         \/ /\ ApiFault
            /\ UpsertFromBus(stream[i].alert, stream[i].full) \/ UNCHANGED inbox
            /\ UNCHANGED group
  /\ api' = [api EXCEPT !.batch = Tail(@)]
  /\ UNCHANGED <<now, user, ledger, stream, notifier, pushed, repeats, faults>>

\* A restarted API consumes only if Redis answers EnsureConsumerGroup.
ApiRestart ==
  /\ ApiFault
  /\ \E running \in BOOLEAN : api' = [running |-> running, batch |-> <<>>]
  /\ UNCHANGED <<now, user, stores, group, notifier, pushed, repeats, faults>>

-----------------------------------------------------------------------------
(* The user and the market. *)

MarkRead(a) ==
  /\ inbox[a].shown /\ inbox' = [inbox EXCEPT ![a].read = TRUE]
  /\ UNCHANGED <<now, user, ledger, stream, group, notifier, api, pushed, repeats,
                 faults, apiFaults>>

Dismiss(a) ==
  /\ inbox[a].shown /\ inbox' = [inbox EXCEPT ![a].dismissed = TRUE]
  /\ UNCHANGED <<now, user, ledger, stream, group, notifier, api, pushed, repeats,
                 faults, apiFaults>>

AlertComesOrGoes(a) ==
  /\ active' = IF a \in active THEN active \ {a} ELSE active \cup {a}
  /\ UNCHANGED <<now, attached, gate, stores, group, notifier, api, pushed, repeats,
                 faults, apiFaults>>

AttachOrDetach(p) ==
  /\ attached' = IF p \in attached THEN attached \ {p} ELSE attached \cup {p}
  /\ UNCHANGED <<now, active, gate, stores, group, notifier, api, pushed, repeats,
                 faults, apiFaults>>

SubscribeOrLapse ==
  /\ gate' = ~gate
  /\ UNCHANGED <<now, active, attached, stores, group, notifier, api, pushed, repeats,
                 faults, apiFaults>>

Tick ==
  /\ now < MaxTime
  /\ now' = now + 1
  /\ UNCHANGED <<user, stores, group, notifier, api, pushed, repeats, faults, apiFaults>>

-----------------------------------------------------------------------------
Run ==
  \/ ScanBegin
  \/ \E p \in Portfolios : ScanPortfolio(p)
  \/ \E a \in Alerts : Detect(a) \/ RetryBus(a) \/ RetryTelegram(a)
  \/ PublishBus \/ PublishDirect \/ MarkBusPublished
  \/ PushSkip \/ Push \/ MarkTelegramSent
  \/ RetryList

Consumer == ReadGroup \/ Consume

World ==
  \/ \E a \in Alerts : MarkRead(a) \/ Dismiss(a) \/ AlertComesOrGoes(a)
  \/ \E p \in Portfolios : AttachOrDetach(p)
  \/ SubscribeOrLapse \/ Tick
  \/ NotifierRestart \/ ApiRestart

Next == Run \/ Consumer \/ World

Spec == Init /\ [][Next]_vars

\* The ticker of the notifier fires for ever and a cycle goes on until it ends or
\* the process dies; the consumer goroutine loops for ever.
FairSpec == Spec /\ WF_vars(Run) /\ WF_vars(Consumer)

-----------------------------------------------------------------------------
(* What delivery guarantees. *)

\* An alert marked as published is in the stream or in the notification table:
\* the mark never overtakes the write, whatever fails or dies in between.  And what
\* is shown is the full payload unless a write has failed: RetryPending, which only
\* has what the ledger kept (no price, no lots), never overtakes ProcessAlert.
MarkedIsPublished ==
  \A a \in Alerts :
    /\ ledger[a].bus => inbox[a].shown \/ \E i \in 1 .. Len(stream) : stream[i].alert = a
    /\ inbox[a].shown /\ ~inbox[a].full => faults > 0

\* An alert is pushed to Telegram once per cooldown, but for one repetition per
\* crash, failed mark or lost answer.
RepeatsAreFaults == repeats <= faults

\* Entries that were given to an API which did not write them: XREADGROUP with ">"
\* never returns them again.
Lost(a) ==
  \E i \in group.pending :
    stream[i].alert = a /\ \A k \in 1 .. Len(api.batch) : api.batch[k] # i

\* Every detected alert reaches the notification table, even if it is resolved
\* meanwhile and the notifier dies at any point, unless the API runs without its
\* consumer or has lost the entry.
DetectedReachesInbox ==
  \A a \in Alerts : ledger[a].known ~> inbox[a].shown \/ ~api.running \/ Lost(a)

\* Once the owner keeps paying and the portfolio stays attached, every detected
\* critical alert is pushed to Telegram, even if it has been resolved meanwhile.
DetectedIsPushed ==
  \A a \in Pushable :
    <>[](gate /\ PortfolioOf[a] \in attached)
      => (ledger[a].known ~> pushed[a] # NoTime)

\* A published alert that is not in the table yet is still going to be read by
\* the consumer group or is being written by the consumer.
PublishedIsOnItsWay ==
  \A a \in Alerts :
    ledger[a].bus /\ ~inbox[a].shown =>
      \E i \in 1 .. Len(stream) :
        /\ stream[i].alert = a
        /\ i > group.last \/ \E k \in 1 .. Len(api.batch) : api.batch[k] = i
=============================================================================
